---------------------------- MODULE DecisionProofs ----------------------------
(***************************************************************************)
(* Theorems about DecisionStage, for every set of confidences and          *)
(* strengths and in both runtimes.                                         *)
(***************************************************************************)
EXTENDS DecisionStage, TLAPS

-----------------------------------------------------------------------------
(* What the ladder promises of one situation. *)

\* The situation a step of DecisionStage reads is a validated one on the scale.
LEMMA SituationFacts ==
    ASSUME NEW s \in Situations
    PROVE  /\ Validated(s)
           /\ s.confidence \in Confidences /\ s.strength \in Strengths
           /\ s.confidence \in 0..100 /\ s.strength \in 0..100
           /\ s.causality \in Causalities
           /\ s.conflict \in BOOLEAN /\ s.unavailable \in BOOLEAN
           /\ s.contradictory \in BOOLEAN /\ s.credibleRisk \in BOOLEAN
  BY ScaleAssumption DEF Situations, SituationsOver

\* Outside the low risk the ladder's confidence never reaches the autonomous
\* threshold, or the risk is credible (reducer.py _apply_confidence_strategy).
LEMMA MediumRiskHolds ==
    ASSUME NEW s \in Situations, RiskLevel(s) = "medium"
    PROVE  HoldsForReview(s)
  <1>1. s.confidence \in Int
    BY SituationFacts
  <1>2. BaseConfidence(s) < AUTONOMOUS_CONFIDENCE \/ ~Established(s)
    BY DEF RiskLevel
  <1>3. CASE ~Established(s)
    BY <1>3 DEF HoldsForReview
  <1>4. CASE BaseConfidence(s) < AUTONOMOUS_CONFIDENCE
    <2>1. LadderConfidence(s) = Lesser(BaseConfidence(s), EvidenceWeighted(s))
      BY DEF LadderConfidence
    <2>2. BaseConfidence(s) \in Int
      BY <1>1 DEF BaseConfidence
    <2>3. s.strength \in Int
      BY SituationFacts
    <2>4. EvidenceWeighted(s) \in Int
      BY <2>2, <2>3 DEF EvidenceWeighted, Lesser
    <2>5. LadderConfidence(s) < AUTONOMOUS_CONFIDENCE
      BY <1>4, <2>1, <2>2, <2>4 DEF Lesser, AUTONOMOUS_CONFIDENCE
    <2> QED BY <2>5 DEF HoldsForReview
  <1> QED BY <1>2, <1>3, <1>4

\* The reducer decides safe_autonomous only for evidence that earned it, and
\* always at low risk.
LEMMA AutonomyIsEarned ==
    ASSUME NEW s \in Situations, AutonomyClass(s) = "safe_autonomous"
    PROVE  Earned(s) /\ RiskLevel(s) = "low" /\ ~HighCriticalEvidence(s)
  <1>1. /\ ~EscalateTriggered(s)
        /\ ~HoldsForReview(s)
        /\ ~HighCriticalEvidence(s)
    BY DEF AutonomyClass
  <1>2. RiskLevel(s) # "medium"
    BY <1>1, MediumRiskHolds
  <1>3. MissingDomains(s) = {} /\ ~s.conflict /\ ~s.unavailable /\ Established(s)
    BY <1>1 DEF EscalateTriggered, HoldsForReview
  <1>4. s.confidence \in Int /\ s.strength \in Int
    BY SituationFacts
  <1>5. BaseConfidence(s) = s.confidence + 5
    BY <1>3 DEF BaseConfidence
  <1>6. BaseConfidence(s) >= ESCALATE_CONFIDENCE
    <2> SUFFICES ASSUME BaseConfidence(s) < ESCALATE_CONFIDENCE PROVE FALSE
      BY <1>4, <1>5 DEF ESCALATE_CONFIDENCE
    <2>1. RiskLevel(s) = "high"
      BY DEF RiskLevel
    <2>2. LadderConfidence(s) = Lesser(s.confidence, s.strength)
      BY <2>1 DEF LadderConfidence
    <2>3. LadderConfidence(s) < ESCALATE_CONFIDENCE
      BY <1>4, <1>5, <2>2 DEF Lesser, ESCALATE_CONFIDENCE
    <2> QED BY <2>3, <1>1 DEF EscalateTriggered
  <1>7. RiskLevel(s) = "low"
    BY <1>1, <1>2, <1>3, <1>4, <1>5, <1>6 DEF RiskLevel, ESCALATE_CONFIDENCE
  <1>8. BaseConfidence(s) >= AUTONOMOUS_CONFIDENCE
    BY <1>7, <1>4, <1>5 DEF RiskLevel, AUTONOMOUS_CONFIDENCE
  <1>9. s.strength >= RISK_EVIDENCE_THRESHOLD["low"]
    BY <1>1, <1>7 DEF HoldsForReview, EvidenceAdequate
  <1>10. Cardinality(s.provided) >= 2
    BY <1>3, SituationFacts DEF Validated, Established
  <1> QED BY <1>1, <1>3, <1>5, <1>7, <1>8, <1>9, <1>10
          DEF Earned, HighCriticalEvidence

\* The risk the reducer assigns is never critical, so the gate never rejects.
LEMMA RiskIsGraded ==
    ASSUME NEW s
    PROVE  RiskLevel(s) \in {"low", "medium", "high"}
  BY DEF RiskLevel

LEMMA RecordOfType ==
    ASSUME NEW s \in Situations
    PROVE  RecordOf(s) \in [autonomy : AutonomyClasses, risk : RiskLevels,
                            confidence : Confidences]
  BY SituationFacts, RiskIsGraded
     DEF RecordOf, AutonomyClass, AutonomyClasses, RiskLevels

\* What the gate makes of the reducer's proposal.
LEMMA ProposalVerdict ==
    ASSUME NEW s \in Situations
    PROVE  PolicyResult(ProposalOf(s)) = IF RequiresHuman(s) THEN "requires_human"
                                                              ELSE "allowed"
  <1>1. ProposalOf(s).risk # "critical"
    BY RiskIsGraded DEF ProposalOf
  <1>2. ProposalOf(s).authority = IF RequiresHuman(s) THEN "engineering-on-call" ELSE "none"
    BY DEF ProposalOf
  <1> QED BY <1>1, <1>2 DEF PolicyResult

-----------------------------------------------------------------------------
(* The inductive invariant: what each stage knows. *)

\* The reducer's proposal with the status it has reached.
ActionAs(status) ==
    [status |-> status, risk |-> RiskLevel(situation),
     authority |-> IF RequiresHuman(situation) THEN "engineering-on-call" ELSE "none"]

\* How far the tail has come determines record, action, validation and terminal
\* from the situation alone.
StageFacts ==
    /\ stage = "validated" =>
         /\ record = NoRecord /\ action = NoAction
         /\ validation = "absent" /\ terminal = NoTerminal
    /\ stage # "validated" => record = RecordOf(situation)
    /\ stage = "reduced" =>
         /\ AutonomyClass(situation) # "escalate"
         /\ action = ActionAs("proposed")
         /\ validation = "absent" /\ terminal = NoTerminal
    /\ stage \in {"gated", "paused"} =>
         /\ AutonomyClass(situation) # "escalate"
         /\ IF RequiresHuman(situation)
            THEN validation = "requires_human" /\ action = ActionAs("proposed")
            ELSE validation = "allowed" /\ action = ActionAs("validated")
         /\ terminal = NoTerminal
    /\ stage = "paused" => validation = "requires_human"
    /\ stage = "done" =>
         \/ /\ AutonomyClass(situation) = "escalate"
            /\ action = NoAction /\ validation = "absent"
            /\ terminal = [kind |-> "escalation", reason |-> EscalationReason(situation)]
         \/ /\ AutonomyClass(situation) = "safe_autonomous"
            /\ action = ActionAs("executed")
            /\ validation = "allowed"
            /\ terminal = [kind |-> "action", reason |-> "none"]
         \/ /\ AutonomyClass(situation) = "human_review" /\ ~Pausing
            /\ action = ActionAs("escalated")
            /\ validation = "requires_human"
            /\ terminal = [kind |-> "escalation", reason |-> "policy_boundary"]
    /\ stage \in {"approved", "rejected"} =>
         /\ AutonomyClass(situation) = "human_review"
         /\ validation = "requires_human"
         /\ terminal = [kind |-> "escalation", reason |-> "policy_boundary"]
         /\ action \in {NoAction, ActionAs("escalated")}

Inv == TypeOK /\ StageFacts

LEMMA InitInv == Init => Inv
  BY DEF Init, Inv, TypeOK, StageFacts

LEMMA StepInv ==
    ASSUME Inv, [Next]_vars
    PROVE  Inv'
  <1> USE DEF Inv
  <1>1. situation \in Situations /\ situation' = situation
    BY DEF TypeOK, Next, vars, Propose, Escalate, Gate, Publish, Pause, Approve, Reject
  <1>2. AutonomyClass(situation) \in AutonomyClasses
    BY DEF AutonomyClass, AutonomyClasses
  <1>3. RecordOf(situation) \in [autonomy : AutonomyClasses, risk : RiskLevels,
                                 confidence : Confidences]
    BY <1>1, RecordOfType
  <1>4. RiskLevel(situation) \in RiskLevels
    BY RiskIsGraded DEF RiskLevels
  <1>5. CASE Propose
    BY <1>1, <1>3, <1>4, <1>5 DEF Propose, TypeOK, StageFacts, ProposalOf, ActionAs
  <1>6. CASE Escalate
    <2>1. EscalationReason(situation) \in Reasons
      BY DEF EscalationReason, Reasons
    <2> QED BY <1>1, <1>3, <1>6, <2>1 DEF Escalate, TypeOK, StageFacts
  <1>7. CASE Gate
    <2>1. action = ProposalOf(situation)
      BY <1>7 DEF Gate, StageFacts, ActionAs, ProposalOf
    <2>2. PolicyResult(action) = IF RequiresHuman(situation) THEN "requires_human"
                                                             ELSE "allowed"
      BY <1>1, <2>1, ProposalVerdict
    <2>3. action' = IF RequiresHuman(situation) THEN ActionAs("proposed")
                                                ELSE ActionAs("validated")
      BY <1>7, <2>1, <2>2 DEF Gate, POLICY_STATUS, ProposalOf, ActionAs
    <2> QED BY <1>1, <1>4, <1>7, <2>2, <2>3 DEF Gate, TypeOK, StageFacts, ActionAs
  <1>8. CASE Publish
    <2>1. /\ AutonomyClass(situation) # "escalate"
          /\ validation = IF RequiresHuman(situation) THEN "requires_human" ELSE "allowed"
      BY <1>8 DEF Publish, StageFacts
    <2>2. CASE validation = "allowed"
      BY <1>1, <1>2, <1>4, <1>8, <2>1, <2>2
         DEF Publish, PublishTerminalOutput, TypeOK, StageFacts, ActionAs,
             POLICY_STATUS, RequiresHuman, AutonomyClasses, Reasons
    <2>3. CASE validation = "requires_human"
      BY <1>1, <1>2, <1>4, <1>8, <2>1, <2>3
         DEF Publish, PublishTerminalOutput, TypeOK, StageFacts, ActionAs,
             POLICY_STATUS, RequiresHuman, AutonomyClasses, Reasons, NeedsHumanApproval
    <2> QED BY <2>1, <2>2, <2>3
  <1>9. CASE Pause
    BY <1>1, <1>9 DEF Pause, NeedsHumanApproval, TypeOK, StageFacts, ActionAs
  <1>10. CASE Approve
    <2>1. validation = "requires_human" /\ AutonomyClass(situation) = "human_review"
      BY <1>2, <1>10 DEF Approve, StageFacts, RequiresHuman, AutonomyClasses
    <2>2. action' = ActionAs("escalated")
      BY <1>10, <2>1 DEF Approve, PublishTerminalOutput, StageFacts, RequiresHuman, ActionAs
    <2>3. terminal' = [kind |-> "escalation", reason |-> "policy_boundary"]
      BY <1>10, <2>1 DEF Approve, PublishTerminalOutput
    <2> QED BY <1>1, <1>3, <1>4, <1>10, <2>1, <2>2, <2>3
            DEF Approve, TypeOK, StageFacts, ActionAs, Reasons
  <1>11. CASE Reject
    <2>1. validation = "requires_human" /\ AutonomyClass(situation) = "human_review"
      BY <1>2, <1>11 DEF Reject, StageFacts, RequiresHuman, AutonomyClasses
    <2> QED BY <1>1, <1>3, <1>11, <2>1 DEF Reject, TypeOK, StageFacts, Reasons, ActionAs
  <1>12. CASE UNCHANGED vars
    BY <1>12 DEF vars, TypeOK, StageFacts, ActionAs
  <1> QED BY <1>5, <1>6, <1>7, <1>8, <1>9, <1>10, <1>11, <1>12 DEF Next

\* Each stage of the tail knows exactly what its situation determines: the
\* inductive invariant every other theorem here rests on.
THEOREM StagesDetermined == Spec => []Inv
  BY InitInv, StepInv, PTL DEF Spec

\* Every variable keeps its type for all confidences and strengths.
THEOREM TypeCorrect == Spec => []TypeOK
  <1>1. Inv => TypeOK
    BY DEF Inv
  <1> QED BY <1>1, StagesDetermined, PTL

\* An executed action has full coverage, two domains, no conflict, nothing
\* unassessed and no credible risk behind it, whatever path led to it.
THEOREM ExecutionEarned == Spec => []ExecutedIsEarned
  <1>1. Inv => ExecutedIsEarned
    <2> SUFFICES ASSUME Inv, action.status = "executed"
                 PROVE  Earned(situation)
      BY DEF ExecutedIsEarned
    <2>1. stage = "done"
      BY DEF Inv, TypeOK, StageFacts, NoAction, ActionAs
    <2>2. AutonomyClass(situation) = "safe_autonomous"
      BY <2>1 DEF Inv, StageFacts, NoAction, ActionAs
    <2> QED BY <2>2, AutonomyIsEarned DEF Inv, TypeOK
  <1> QED BY <1>1, StagesDetermined, PTL

\* The terminal outcome, the verdict, the control state and the GitHub status
\* never disagree on whether ForgeMind acted alone.
THEOREM LabelsAgree == Spec => []LabelsMatchExecution
  <1>1. Inv => LabelsMatchExecution
    <2> SUFFICES ASSUME Inv, Responded PROVE LabelsMatchExecution
      BY DEF LabelsMatchExecution
    <2> DEFINE class == AutonomyClass(situation)
    <2>1. record.autonomy = class
      BY DEF Inv, StageFacts, Responded, RecordOf
    <2>2. CASE class = "safe_autonomous" /\ stage = "done"
      BY <2>1, <2>2 DEF Inv, StageFacts, LabelsMatchExecution, ActionsTaken, ActionAs,
                        VerdictState, ControlState, ActionsForAutonomy
    <2>3. CASE class # "safe_autonomous"
      <3>1. action.status # "executed" /\ terminal.kind # "action" /\ validation # "allowed"
        BY <2>3 DEF Inv, TypeOK, StageFacts, Responded, ActionAs, NoAction, NoTerminal,
                    POLICY_STATUS, RequiresHuman
      <3> QED BY <2>1, <2>3, <3>1 DEF LabelsMatchExecution, ActionsTaken,
                  VerdictState, ControlState, ActionsForAutonomy
    <2> QED BY <2>2, <2>3 DEF Inv, StageFacts, Responded, RequiresHuman
  <1> QED BY <1>1, StagesDetermined, PTL

\* A domain that was selected and stayed silent is always named in the outcome.
THEOREM AbsenceNamed == Spec => []AbsenceIsNamed
  <1>1. Inv => AbsenceIsNamed
    <2> SUFFICES ASSUME Inv, Responded, MissingDomains(situation) # {}
                 PROVE  terminal = [kind |-> "escalation", reason |-> "coverage_gap"]
      BY DEF AbsenceIsNamed
    <2>1. AutonomyClass(situation) = "escalate"
      BY DEF AutonomyClass, EscalateTriggered
    <2>2. EscalationReason(situation) = "coverage_gap"
      BY DEF EscalationReason
    <2> QED BY <2>1, <2>2 DEF Inv, StageFacts, Responded
  <1> QED BY <1>1, StagesDetermined, PTL

\* With the pause compiled in, a held situation has no outcome before an answer.
THEOREM HeldUntilAnswered == Spec => []HeldForHuman
  <1>1. Inv => HeldForHuman
    BY DEF Inv, TypeOK, StageFacts, HeldForHuman, RecordOf
  <1> QED BY <1>1, StagesDetermined, PTL

-----------------------------------------------------------------------------
(* Autonomy is monotone in the evidence. *)

LEMMA ProductMonotone ==
    ASSUME NEW a \in Nat, NEW b \in Nat, NEW x \in Nat, NEW y \in Nat, a <= b, x <= y
    PROVE  a * x <= b * y
  <1>1. a * x <= b * x
    <2>1. (b - a) * x >= 0
      BY SMT
    <2> QED BY <2>1, SMT
  <1>2. b * x <= b * y
    <2>1. b * (y - x) >= 0
      BY SMT
    <2> QED BY <2>1, SMT
  <1>3. a * x \in Int /\ b * x \in Int /\ b * y \in Int
    BY SMT
  <1> QED BY <1>1, <1>2, <1>3, SMT

LEMMA QuotientMonotone ==
    ASSUME NEW m \in Int, NEW n \in Int, m <= n
    PROVE  (m + 5000) \div 10000 <= (n + 5000) \div 10000
  BY SMT

\* Stronger evidence never weighs less (reducer.py _apply_confidence_strategy).
LEMMA WeightMonotone ==
    ASSUME NEW s \in Situations, NEW r \in Situations,
           BaseConfidence(s) \in Nat, BaseConfidence(r) \in Nat,
           BaseConfidence(s) <= BaseConfidence(r), s.strength <= r.strength
    PROVE  /\ EvidenceWeighted(s) <= EvidenceWeighted(r)
           /\ EvidenceWeighted(s) \in Int /\ EvidenceWeighted(r) \in Int
  <1> DEFINE x == 8500 + 15 * s.strength
             y == 8500 + 15 * r.strength
             m == BaseConfidence(s) * x
             n == BaseConfidence(r) * y
  <1>1. s.strength \in Nat /\ r.strength \in Nat
    BY SituationFacts
  <1>2. x \in Nat /\ y \in Nat /\ x <= y
    BY <1>1
  <1>3. m <= n
    <2> HIDE DEF x, y
    <2> QED BY <1>2, ProductMonotone
  <1>4. m \in Int /\ n \in Int
    <2> HIDE DEF x, y
    <2> QED BY <1>2
  <1>5. (m + 5000) \div 10000 <= (n + 5000) \div 10000
    <2> HIDE DEF m, n
    <2> QED BY <1>3, <1>4, QuotientMonotone
  <1>6. (m + 5000) \div 10000 \in Int /\ (n + 5000) \div 10000 \in Int
    <2> HIDE DEF m, n
    <2> QED BY <1>4
  <1>7. /\ EvidenceWeighted(s) = Lesser(100, (m + 5000) \div 10000)
        /\ EvidenceWeighted(r) = Lesser(100, (n + 5000) \div 10000)
    BY DEF EvidenceWeighted
  <1> HIDE DEF m, n
  <1> QED BY <1>5, <1>6, <1>7 DEF Lesser

\* Whatever the thresholds do on the way up, a situation that is autonomous
\* stays so when its confidence or its evidence strength grows.
LEMMA AutonomyMonotone ==
    ASSUME NEW s \in Situations, AutonomyClass(s) = "safe_autonomous",
           NEW c \in Confidences, NEW t \in Strengths,
           c >= s.confidence, t >= s.strength
    PROVE  AutonomyClass([s EXCEPT !.confidence = c, !.strength = t]) = "safe_autonomous"
  <1> DEFINE r == [s EXCEPT !.confidence = c, !.strength = t]
  <1>1. /\ r.confidence = c /\ r.strength = t
        /\ r.selected = s.selected /\ r.provided = s.provided
        /\ r.causality = s.causality /\ r.conflict = s.conflict /\ r.gap = s.gap
        /\ r.unavailable = s.unavailable /\ r.contradictory = s.contradictory
        /\ r.credibleRisk = s.credibleRisk
    BY DEF Situations, SituationsOver
  <1>2. s.provided # {} /\ Earned(s) /\ RiskLevel(s) = "low"
    <2>1. Earned(s) /\ RiskLevel(s) = "low"
      BY AutonomyIsEarned
    <2>2. MissingDomains(s) = {} /\ s.selected # {} /\ s.provided \subseteq s.selected
      BY <2>1 DEF Earned, Situations, SituationsOver, Validated
    <2>3. PICK d \in s.selected : TRUE
      BY <2>2
    <2>4. d \in s.provided
      BY <2>2, <2>3 DEF MissingDomains
    <2> QED BY <2>1, <2>4
  <1>3. r \in Situations
    BY <1>1, <1>2 DEF Situations, SituationsOver, Validated
  <1>4. /\ s.confidence \in 0..100 /\ s.strength \in 0..100
        /\ c \in 0..100 /\ t \in 0..100
    BY SituationFacts, ScaleAssumption
  <1>5. /\ ~EscalateTriggered(s)
        /\ ~HoldsForReview(s)
        /\ ~HighCriticalEvidence(s)
    BY DEF AutonomyClass
  <1>6. /\ MissingDomains(s) = {} /\ MissingDomains(r) = {}
        /\ Established(s) /\ Established(r)
        /\ ~HighCriticalEvidence(r) /\ ~r.conflict /\ ~r.unavailable
    BY <1>1, <1>5 DEF EscalateTriggered, HoldsForReview, MissingDomains, Established,
                      HighCriticalEvidence
  <1>7. BaseConfidence(s) = s.confidence + 5 /\ BaseConfidence(r) = c + 5
    BY <1>1, <1>6 DEF BaseConfidence
  <1>8. BaseConfidence(s) >= AUTONOMOUS_CONFIDENCE
    BY <1>2, <1>7, <1>4, <1>6 DEF RiskLevel, AUTONOMOUS_CONFIDENCE
  <1>9. RiskLevel(r) = "low"
    BY <1>4, <1>6, <1>7, <1>8 DEF RiskLevel, AUTONOMOUS_CONFIDENCE, ESCALATE_CONFIDENCE
  <1>10. /\ EvidenceWeighted(s) <= EvidenceWeighted(r)
         /\ EvidenceWeighted(s) \in Int /\ EvidenceWeighted(r) \in Int
    <2>1. /\ BaseConfidence(s) \in Nat /\ BaseConfidence(r) \in Nat
          /\ BaseConfidence(s) <= BaseConfidence(r) /\ s.strength <= r.strength
      BY <1>1, <1>4, <1>7
    <2> HIDE DEF r
    <2> QED BY <1>3, <2>1, WeightMonotone
  <1>11. EvidenceWeighted(s) >= AUTONOMOUS_CONFIDENCE
    BY <1>2, <1>5, <1>10 DEF LadderConfidence, HoldsForReview, AUTONOMOUS_CONFIDENCE
  <1>12. LadderConfidence(r) >= AUTONOMOUS_CONFIDENCE /\ LadderConfidence(r) \in Int
    BY <1>9, <1>10, <1>11 DEF LadderConfidence, AUTONOMOUS_CONFIDENCE
  <1>13. EvidenceAdequate(r)
    <2>1. s.strength >= 33
      BY <1>2 DEF Earned, RISK_EVIDENCE_THRESHOLD, RiskLevels
    <2> QED BY <1>1, <1>4, <1>6, <1>9, <2>1
            DEF EvidenceAdequate, RISK_EVIDENCE_THRESHOLD, RiskLevels
  <1>14. ~EscalateTriggered(r) /\ ~HoldsForReview(r)
    <2>1. /\ ~(LadderConfidence(r) < AUTONOMOUS_CONFIDENCE)
          /\ ~(LadderConfidence(r) < ESCALATE_CONFIDENCE)
      BY <1>12 DEF AUTONOMOUS_CONFIDENCE, ESCALATE_CONFIDENCE
    <2> HIDE DEF r
    <2> QED BY <1>6, <1>13, <2>1 DEF EscalateTriggered, HoldsForReview
  <1> QED BY <1>6, <1>14 DEF AutonomyClass

\* In every state the situation at hand keeps its autonomy under better evidence.
THEOREM AutonomyNeverShrinks == Spec => []AutonomyUpwardClosed
  <1>1. TypeOK => AutonomyUpwardClosed
    BY AutonomyMonotone DEF TypeOK, AutonomyUpwardClosed
  <1> QED BY <1>1, TypeCorrect, PTL
=============================================================================
