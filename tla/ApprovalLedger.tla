---------------------------- MODULE ApprovalLedger ----------------------------
(***************************************************************************)
(* What the approval store promises of a token, without saying how: it is  *)
(* issued once, answered at most once with a definite answer, and a        *)
(* restart of the process loses every token still waiting                  *)
(* (adk_runtime.py:109-114, resume_adk_pipeline's ApprovalError).          *)
(***************************************************************************)
CONSTANT Tokens

VARIABLE life

Lives == {"absent", "pending", "approved", "rejected", "lost"}
Answers == {"approved", "rejected"}

Init == life = [t \in Tokens |-> "absent"]

Issue(t) ==
    /\ life[t] = "absent"
    /\ life' = [life EXCEPT ![t] = "pending"]

Answer(t, a) ==
    /\ life[t] = "pending"
    /\ life' = [life EXCEPT ![t] = a]

Restart ==
    life' = [t \in Tokens |-> IF life[t] = "pending" THEN "lost" ELSE life[t]]

Next ==
    \/ \E t \in Tokens : Issue(t) \/ \E a \in Answers : Answer(t, a)
    \/ Restart

Spec == Init /\ [][Next]_life

-----------------------------------------------------------------------------

TypeOK == life \in [Tokens -> Lives]

\* An answer, like a loss, is final: no second reviewer, retry or restart can
\* turn an approval into a rejection or bring a lost token back.
AnswersAreFinal ==
    [][\A t \in Tokens : life[t] \in Answers \cup {"lost"} => life'[t] = life[t]]_life
=============================================================================
