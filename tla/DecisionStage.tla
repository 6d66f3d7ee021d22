---------------------------- MODULE DecisionStage -----------------------------
(***************************************************************************)
(* The tail of the pipeline for one situation: reduce, gate, then publish  *)
(* (deterministic runtime) or pause for a human and resume (adk runtime).  *)
(*   src/src/forgemind/reducer.py      DecisionReducer.reduce              *)
(*   src/src/forgemind/action_gate.py  validate, publish_terminal_output   *)
(*   src/src/forgemind/adk_runtime.py  the human_approval node and resume  *)
(***************************************************************************)
EXTENDS AutonomyPolicy

CONSTANTS Confidences,  \* the confidences, in hundredths, a validator may report
          Strengths,    \* the evidence strengths, in hundredths
          Pausing       \* TRUE when run_adk_pipeline drives the tail

ASSUME ScaleAssumption == Confidences \subseteq 0..100 /\ Strengths \subseteq 0..100
ASSUME PausingAssumption == Pausing \in BOOLEAN

VARIABLES situation,   \* the ValidatedSituation, fixed at the start
          stage,       \* how far the tail has come
          record,      \* the DecisionRecord
          action,      \* the ProposedAction
          validation,  \* policy_result of the ActionValidation
          terminal     \* the terminal outcome

vars == <<situation, stage, record, action, validation, terminal>>

NoRecord == [autonomy |-> "undecided", risk |-> "undecided", confidence |-> 0]
NoAction == [status |-> "absent", risk |-> "undecided", authority |-> "none"]
NoTerminal == [kind |-> "none", reason |-> "none"]

Situations == {s \in SituationsOver(Confidences, Strengths) : Validated(s)}

Init ==
    /\ situation \in Situations
    /\ stage = "validated"
    /\ record = NoRecord
    /\ action = NoAction
    /\ validation = "absent"
    /\ terminal = NoTerminal

-----------------------------------------------------------------------------

RecordOf(s) == [autonomy |-> AutonomyClass(s), risk |-> RiskLevel(s),
                confidence |-> s.confidence]

ProposalOf(s) == [status |-> "proposed", risk |-> RiskLevel(s),
                  authority |-> IF RequiresHuman(s) THEN "engineering-on-call"
                                                    ELSE "none"]

\* Tier 5 proposes: the class leaves room for an action.
Propose ==
    /\ stage = "validated"
    /\ AutonomyClass(situation) # "escalate"
    /\ record' = RecordOf(situation)
    /\ action' = ProposalOf(situation)
    /\ stage' = "reduced"
    /\ UNCHANGED <<situation, validation, terminal>>

\* Tier 5 escalates: its Escalation is the terminal outcome.
Escalate ==
    /\ stage = "validated"
    /\ AutonomyClass(situation) = "escalate"
    /\ record' = RecordOf(situation)
    /\ terminal' = [kind |-> "escalation", reason |-> EscalationReason(situation)]
    /\ stage' = "done"
    /\ UNCHANGED <<situation, action, validation>>

\* ActionValidationGate.validate on the proposal.
Gate ==
    /\ stage = "reduced"
    /\ validation' = PolicyResult(action)
    /\ action' = [action EXCEPT !.status = POLICY_STATUS[PolicyResult(action)]]
    /\ stage' = "gated"
    /\ UNCHANGED <<situation, record, terminal>>

\* publish_terminal_output, the only producer of terminal outcomes: it refuses
\* a validation that does not match the status of the action.
PublishTerminalOutput ==
    /\ validation # "absent"
    /\ action.status = POLICY_STATUS[validation]
    /\ action' = [action EXCEPT !.status = IF validation = "allowed" THEN "executed"
                                                                   ELSE "escalated"]
    /\ terminal' = IF validation = "allowed" THEN [kind |-> "action", reason |-> "none"]
                   ELSE [kind |-> "escalation",
                         reason |-> IF validation = "rejected" THEN "validation_failure"
                                                               ELSE "policy_boundary"]

\* Fault for the checks: the pause looks for the wrong verdict.
NeedsHumanApproval_OnRejected == validation = "rejected"

NeedsHumanApproval == validation = "requires_human"

Publish ==
    /\ stage = "gated"
    /\ ~(Pausing /\ NeedsHumanApproval)
    /\ PublishTerminalOutput
    /\ stage' = "done"
    /\ UNCHANGED <<situation, record, validation>>

Pause ==
    /\ stage = "gated"
    /\ Pausing /\ NeedsHumanApproval
    /\ stage' = "paused"
    /\ UNCHANGED <<situation, record, action, validation, terminal>>

\* resume_adk_pipeline with "approve": the reducer runs again for the record.
Approve ==
    /\ stage = "paused"
    /\ record' = RecordOf(situation)
    /\ PublishTerminalOutput
    /\ stage' = "approved"
    /\ UNCHANGED <<situation, validation>>

\* resume_adk_pipeline with "reject": no action leaves.
Reject ==
    /\ stage = "paused"
    /\ record' = RecordOf(situation)
    /\ action' = NoAction
    /\ terminal' = [kind |-> "escalation", reason |-> "policy_boundary"]
    /\ stage' = "rejected"
    /\ UNCHANGED <<situation, validation>>

Next == Propose \/ Escalate \/ Gate \/ Publish \/ Pause \/ Approve \/ Reject

Spec == Init /\ [][Next]_vars

-----------------------------------------------------------------------------
(* What the caller reads off the result. *)

Responded == stage \in {"done", "paused", "approved", "rejected"}
ActionsTaken == ActionsForAutonomy(record.autonomy)

-----------------------------------------------------------------------------
(* Properties. *)

Reasons == {"coverage_gap", "uncertainty", "risk", "policy_boundary", "validation_failure"}

\* Every variable stays in its type; an escalation always carries one of the
\* reasons of contracts/escalation.schema.json (publish_terminal_output, reduce).
TypeOK ==
    /\ situation \in Situations
    /\ stage \in {"validated", "reduced", "gated", "paused",
                  "done", "approved", "rejected"}
    /\ record \in {NoRecord} \cup [autonomy : AutonomyClasses, risk : RiskLevels,
                                   confidence : Confidences]
    /\ action \in {NoAction} \cup
                [status : {"proposed", "validated", "rejected", "executed", "escalated"},
                 risk : RiskLevels, authority : {"none", "engineering-on-call"}]
    /\ validation \in {"absent", "allowed", "requires_human", "rejected"}
    /\ terminal \in {NoTerminal, [kind |-> "action", reason |-> "none"]}
                   \cup [kind : {"escalation"}, reason : Reasons]

\* What the evidence of an action nobody reviewed has to look like.
Earned(s) ==
    /\ MissingDomains(s) = {}
    /\ Cardinality(s.provided) >= 2
    /\ ~s.conflict /\ ~s.unavailable /\ ~s.contradictory /\ ~s.credibleRisk
    /\ s.strength >= RISK_EVIDENCE_THRESHOLD["low"]
    /\ s.confidence + 5 >= AUTONOMOUS_CONFIDENCE

\* No action is executed unless the evidence earned it, through the three
\* confidence strategies, the gate, and a human's answer (reduce, validate,
\* publish_terminal_output, resume_adk_pipeline together).
ExecutedIsEarned == action.status = "executed" => Earned(situation)

\* Four labels are derived apart from one another: the terminal of
\* publish_terminal_output, verdict and control state of m3_proof.py and the
\* GitHub actions of adk_routes.py. In every response they agree on whether
\* ForgeMind acted alone.
LabelsMatchExecution ==
    Responded =>
        LET executed == action.status = "executed"
        IN  /\ (terminal.kind = "action") <=> executed
            /\ (VerdictState(terminal.kind, validation) = "automated") <=> executed
            /\ (ControlState(terminal.kind, record.autonomy) = "automated") <=> executed
            /\ ("status_check_passed" \in ActionsTaken) <=> executed

\* More confidence or stronger evidence never takes autonomy away, although
\* the risk level, and with it the strategy and threshold, changes under way.
AutonomyUpwardClosed ==
    stage = "validated" /\ AutonomyClass(situation) = "safe_autonomous" =>
        \A c \in Confidences, t \in Strengths :
            c >= situation.confidence /\ t >= situation.strength =>
                AutonomyClass([situation EXCEPT !.confidence = c, !.strength = t])
                    = "safe_autonomous"

\* Visibility of absence: a selected domain without findings always ends in an
\* escalation that says so, whatever else is wrong with the situation.
AbsenceIsNamed ==
    Responded /\ MissingDomains(situation) # {} =>
        terminal = [kind |-> "escalation", reason |-> "coverage_gap"]

\* In the adk runtime a situation held for review gets no terminal outcome
\* before a human answered (the human_approval node of run_adk_pipeline).
HeldForHuman ==
    Pausing /\ record.autonomy = "human_review" /\ terminal # NoTerminal =>
        stage \in {"approved", "rejected"}
=============================================================================
