---------------------------- MODULE MCVerification ----------------------------
(***************************************************************************)
(* Bounds for Verification, and what the repository says of the verifiers  *)
(* that their code does not do.                                            *)
(***************************************************************************)
EXTENDS Verification

\* workers.py:594 "build passed with no new CI failures"; the words of line 596,
\* "build failed; CI gate did not pass", carry the same marks.
BuildPassed == {"build", "passed", "failed", "broken"}
MCWordings ==
    {BuildPassed, {"build"}, {"dependency", "failed", "broken"}, {"security"},
     {"deploy", "live"}, {"deploy", "live", "broken"}}

MCGitHubs ==
    [checks : {<<>>, <<"running">>, <<"succeeded">>, <<"succeeded", "failed">>,
               <<"succeeded", "stale">>},
     deployments : {<<>>, <<"silent">>, <<"failure", "success">>, <<"pending", "failure">>},
     dependencies : BOOLEAN]

WorkerWordings == {BuildPassed}

\* github_verifiers.py:11: a verifier upgrades a claim only when GitHub
\* "explicitly confirms the claim", and any contradiction leaves it unverified.
\* The claim that the build passed is not verified by checks that had failed
\* for as long as it was being verified.
VerifiedMeansConfirmed ==
    BuildPassed \in Verified =>
        \E g \in witnessed[BuildPassed] : "failed" \notin States(g.checks)
=============================================================================
