--------------------------- MODULE MCDecisionStage ----------------------------
(***************************************************************************)
(* Bounds for DecisionStage: confidences and strengths on and around every *)
(* threshold of the ladder (0.50, 0.70 = 0.75 less the boost, 0.75) and of *)
(* RISK_EVIDENCE_THRESHOLD (0.33, 0.50, 0.67).  And what the repository    *)
(* says of the decision tail that its code does not do.                    *)
(***************************************************************************)
EXTENDS DecisionStage

MCConfidences == {0, 44, 45, 49, 50, 69, 70, 71, 75, 90, 100}
MCStrengths == {0, 32, 33, 49, 50, 66, 67, 75, 100}

\* m3b-plan.md:159: "On resume-approve -> proceed to publish_terminal_output
\* (terminal action)"; the result page says "approved and published".
ApprovalPublishesAction ==
    stage = "approved" => terminal.kind = "action"
=============================================================================
