----------------------------- MODULE Verification ------------------------------
(***************************************************************************)
(* The provenance of claims (validator._verify_claim_provenance): each     *)
(* claim of a situation is put to the verifier registered for its type     *)
(* (verification/), which asks GitHub through GitHubClient; what is not    *)
(* confirmed falls back to the corroboration of two domains.               *)
(*                                                                         *)
(* A claim is the set of marks the keyword lists find in its text:         *)
(*   build dependency security deploy   what _classify_claim looks for     *)
(*   passed failed                      the words of verify_ci_status      *)
(*   live broken                        those of verify_deployment_status  *)
(* Requests of one validation follow each other, and GitHub moves between  *)
(* any two of them.                                                        *)
(***************************************************************************)
EXTENDS Integers, Sequences, FiniteSets

CONSTANTS Wordings,    \* the claims a situation may hold, as sets of marks
          Registered,  \* the types register_default_verifiers was run for
          GitHubsAtFirst,  \* what GitHub may look like when the validation begins
          MaxClaims, MaxRuns, MaxMoves  \* bounds

Marks == {"build", "dependency", "security", "deploy", "passed", "failed", "live", "broken"}
ClaimTypes == {"ci_status", "dependency_change", "security_scan", "deployment_status", "unknown"}

ASSUME WordingsAssumption == Wordings \subseteq SUBSET Marks
ASSUME RegisteredAssumption ==
    Registered \subseteq {"ci_status", "dependency_change", "deployment_status"}
ASSUME BoundsAssumption == MaxClaims \in Nat /\ MaxRuns \in Nat /\ MaxMoves \in Nat

\* A check run "succeeded" when its conclusion is success, neutral or skipped.
CheckStates == {"running", "succeeded", "failed", "stale"}
DeploymentStates == {"silent", "pending", "success", "failure"}
BoundedSeq(S) == UNION {[1..n -> S] : n \in 0..MaxRuns}
GitHubs == [checks : BoundedSeq(CheckStates), deployments : BoundedSeq(DeploymentStates),
            dependencies : BOOLEAN]
ASSUME GitHubsAssumption == GitHubsAtFirst \subseteq GitHubs
Statuses == {"independently_verified", "supported", "unverified"}

VARIABLES github,        \* the commit's check runs, deployments and files
          moves,         \* how often it changed
          subject,       \* the payload names a repository and a commit
          corroborated,  \* the claims of two domains
          status,        \* claim -> ClaimStatus, "open" before it has one
          listed,        \* deployments still to be asked about: <<claim, their indices>>
          witnessed,     \* history: claim -> the GitHubs there were while it was verified
          heard          \* history: claims some run, file or deployment was heard of

vars == <<github, moves, subject, corroborated, status, listed, witnessed, heard>>

Claims == DOMAIN status
Open == {c \in Claims : status[c] = "open"}
Nobody == <<>>

-----------------------------------------------------------------------------
(* The registry and the client. *)

\* VerifierRegistry._classify_claim: the first keyword list that matches.
ClaimType(c) ==
    CASE "build" \in c      -> "ci_status"
      [] "dependency" \in c -> "dependency_change"
      [] "security" \in c   -> "security_scan"
      [] "deploy" \in c     -> "deployment_status"
      [] OTHER              -> "unknown"

\* GitHubClient.get: the resource, nothing at all (an empty body), or an error.
Answers(resource) == {[ok |-> TRUE, body |-> resource], [ok |-> TRUE, body |-> <<>>],
                      [ok |-> FALSE, body |-> <<>>]}

States(runs) == {runs[i] : i \in DOMAIN runs}

\* Faults for the checks: one success is enough; an empty list is a success.
ChecksConfirm_Any(c, checks) ==
    /\ checks # <<>>
    /\ \/ "passed" \in c /\ "succeeded" \in States(checks)
       \/ "failed" \in c /\ "failed" \in States(checks)
ChecksConfirm_Vacuous(c, checks) ==
    /\ "running" \notin States(checks)
    /\ \/ "passed" \in c /\ States(checks) \subseteq {"succeeded"}
       \/ "failed" \in c /\ "failed" \in States(checks)

\* verify_ci_status, once the check runs are there.
ChecksConfirm(c, checks) ==
    /\ checks # <<>>
    /\ "running" \notin States(checks)
    /\ \/ "passed" \in c /\ States(checks) = {"succeeded"}
       \/ "failed" \in c /\ "failed" \in States(checks)

\* The latest status of one deployment settles the whole claim.
DeploymentConfirms(c, state) ==
    \/ "live" \in c /\ state = "success"
    \/ "broken" \in c /\ state = "failure"

-----------------------------------------------------------------------------
(* One validation. *)

\* _verify_claim_provenance, for one claim the registry has answered for.
Assessed(c, confirmed) ==
    IF confirmed THEN "independently_verified"
    ELSE IF c \in corroborated THEN "supported" ELSE "unverified"

\* Fault for the checks: the deployments of a settled claim stay listed.
Settle_KeepsList(c, confirmed) ==
    /\ status' = [status EXCEPT ![c] = Assessed(c, confirmed)]
    /\ UNCHANGED listed

Settle(c, confirmed) ==
    /\ status' = [status EXCEPT ![c] = Assessed(c, confirmed)]
    /\ listed' = Nobody

Init ==
    /\ github \in GitHubsAtFirst
    /\ moves = 0
    /\ subject \in BOOLEAN
    /\ \E claims \in SUBSET Wordings :
        /\ Cardinality(claims) <= MaxClaims
        /\ corroborated \in SUBSET claims
        /\ status = [c \in claims |-> "open"]
        /\ witnessed = [c \in claims |-> {}]
    /\ listed = Nobody
    /\ heard = {}

Hear(c, body) ==
    /\ heard' = IF body = <<>> THEN heard ELSE heard \cup {c}
    /\ witnessed' = [witnessed EXCEPT ![c] = @ \cup {github}]

\* Fault for the checks: an unregistered type raises before its status is set.
PassOver_Raises(c) ==
    /\ listed = Nobody
    /\ ~subject \/ c \cap {"passed", "failed", "live", "broken"} = {}
    /\ ClaimType(c) \in Registered
    /\ Settle(c, FALSE)
    /\ UNCHANGED <<github, moves, subject, corroborated, witnessed, heard>>

\* No repository, no verifier, or nothing in the words to be confirmed: the
\* claim has its status before anything is asked.
PassOver(c) ==
    /\ listed = Nobody
    /\ \/ ~subject
       \/ ClaimType(c) \notin Registered
       \/ ClaimType(c) = "ci_status" /\ c \cap {"passed", "failed"} = {}
       \/ ClaimType(c) = "deployment_status" /\ c \cap {"live", "broken"} = {}
    /\ Settle(c, FALSE)
    /\ UNCHANGED <<github, moves, subject, corroborated, witnessed, heard>>

Asks(c, type) == listed = Nobody /\ subject /\ ClaimType(c) = type /\ type \in Registered

VerifyCiStatus(c) ==
    /\ Asks(c, "ci_status")
    /\ c \cap {"passed", "failed"} # {}
    /\ \E a \in Answers(github.checks) :
        /\ Settle(c, a.ok /\ ChecksConfirm(c, a.body))
        /\ Hear(c, a.body)
    /\ UNCHANGED <<github, moves, subject, corroborated>>

\* A manifest among the files of the commit confirms whatever is said of it.
VerifyDependencyChange(c) ==
    /\ Asks(c, "dependency_change")
    /\ \E a \in Answers(IF github.dependencies THEN <<"manifest">> ELSE <<>>) :
        /\ Settle(c, a.ok /\ a.body # <<>>)
        /\ Hear(c, a.body)
    /\ UNCHANGED <<github, moves, subject, corroborated>>

\* verify_deployment_status: first the deployments of the commit ...
ListDeployments(c) ==
    /\ Asks(c, "deployment_status")
    /\ c \cap {"live", "broken"} # {}
    /\ \E a \in Answers(github.deployments) :
        /\ IF a.body = <<>> THEN Settle(c, FALSE)
           ELSE listed' = <<c, DOMAIN a.body>> /\ UNCHANGED status
        /\ Hear(c, <<>>)
    /\ UNCHANGED <<github, moves, subject, corroborated>>

\* ... then each in turn, newest first, until one confirms; a refused or
\* empty answer is skipped, and one that makes no sense ends the claim.
ReadDeployment ==
    /\ listed # Nobody
    /\ LET c == listed[1]
           d == CHOOSE i \in listed[2] : \A j \in listed[2] : i <= j
           left == listed[2] \ {d}
           state == github.deployments[d]
       IN \E a \in Answers(IF state = "silent" THEN <<>> ELSE <<state>>), sense \in BOOLEAN :
            /\ LET confirms == sense /\ a.body # <<>> /\ DeploymentConfirms(c, a.body[1])
               IN IF confirms \/ left = {} \/ ~sense THEN Settle(c, confirms)
                  ELSE listed' = <<c, left>> /\ UNCHANGED status
            /\ Hear(c, a.body)
    /\ UNCHANGED <<github, moves, subject, corroborated>>

Verify(c) == PassOver(c) \/ VerifyCiStatus(c) \/ VerifyDependencyChange(c) \/ ListDeployments(c)

\* A check is started, started again or concludes; a deployment reports.
GitHubMoves ==
    /\ moves < MaxMoves
    /\ moves' = moves + 1
    /\ \/ \E i \in DOMAIN github.checks, s \in CheckStates :
            /\ s # github.checks[i]
            /\ s # "running" => github.checks[i] = "running"
            /\ github' = [github EXCEPT !.checks[i] = s]
       \/ /\ Len(github.checks) < MaxRuns
          /\ github' = [github EXCEPT !.checks = Append(@, "running")]
       \/ \E i \in DOMAIN github.deployments, s \in DeploymentStates \ {"silent"} :
            /\ s # github.deployments[i]
            /\ github' = [github EXCEPT !.deployments[i] = s]
    /\ witnessed' = IF listed = Nobody THEN witnessed
                    ELSE [witnessed EXCEPT ![listed[1]] = @ \cup {github'}]
    /\ UNCHANGED <<subject, corroborated, status, listed, heard>>

Next == (\E c \in Open : Verify(c)) \/ ReadDeployment \/ GitHubMoves

Spec == Init /\ [][Next]_vars

\* Every request is answered or fails: GitHubClient asks with a timeout, and
\* the registry catches what a verifier raises.
FairSpec == Spec /\ WF_vars((\E c \in Open : Verify(c)) \/ ReadDeployment)

-----------------------------------------------------------------------------
(* Properties. *)

TypeOK ==
    /\ github \in GitHubs
    /\ moves \in 0..MaxMoves
    /\ subject \in BOOLEAN
    /\ status \in [Claims -> Statuses \cup {"open"}]
    /\ corroborated \subseteq Claims
    /\ listed # Nobody => listed[1] \in Open /\ listed[2] \subseteq 1..MaxRuns
    /\ witnessed \in [Claims -> SUBSET GitHubs]
    /\ heard \subseteq Claims

Verified == {c \in Claims : status[c] = "independently_verified"}

\* What the claim says was so, in part at least, on that GitHub.
TrueOf(c, g) ==
    CASE ClaimType(c) = "ci_status" ->
            \/ "passed" \in c /\ States(g.checks) = {"succeeded"}
            \/ "failed" \in c /\ "failed" \in States(g.checks)
      [] ClaimType(c) = "dependency_change" -> g.dependencies
      [] ClaimType(c) = "deployment_status" ->
            \/ "live" \in c /\ "success" \in States(g.deployments)
            \/ "broken" \in c /\ "failure" \in States(g.deployments)
      [] OTHER -> FALSE

\* A claim is independently verified only if GitHub was, at some moment of that
\* verification, in a state that bears it out, however checks were started again
\* and deployments replaced between the requests (github_verifiers.py).
WitnessedByGitHub == \A c \in Verified : \E g \in witnessed[c] : TrueOf(c, g)

\* Inference alone verifies nothing: not silence, not an empty list, not a
\* refused request, not the agreement of two domains (verification/__init__.py).
NothingIsVerifiedUnheard == Verified \subseteq heard

\* Every claim gets a status, whatever GitHub does and whichever requests fail.
EveryClaimAssessed == <>(Open = {})
=============================================================================
