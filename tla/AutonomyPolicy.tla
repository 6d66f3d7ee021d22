---------------------------- MODULE AutonomyPolicy ----------------------------
(***************************************************************************)
(* The deterministic policy of Tier 5 and of the action gate               *)
(* (reducer.py, action_gate.py) as pure operators.                         *)
(*                                                                         *)
(* Confidences and evidence strengths are integers in hundredths: the      *)
(* validator rounds both to two decimals before the reducer reads them.    *)
(* The evidence itself is abstracted to the facts the reducer tests.       *)
(***************************************************************************)
EXTENDS Integers, FiniteSets

Domains == {"code", "delivery", "production"}
Causalities == {"unsupported", "correlated", "supported", "verified"}
EstablishedCausality == Causalities \ {"unsupported"}
AutonomyClasses == {"safe_autonomous", "human_review", "escalate"}
RiskLevels == {"low", "medium", "high", "critical"}

AUTONOMOUS_CONFIDENCE == 75
ESCALATE_CONFIDENCE == 50

\* The strength of evidence each class of risk asks for.
RISK_EVIDENCE_THRESHOLD ==
    [r \in RiskLevels |-> CASE r = "low"      -> 33
                            [] r = "medium"   -> 50
                            [] r = "high"     -> 67
                            [] r = "critical" -> 100]

(***************************************************************************)
(* What a ValidatedSituation says, as far as the reducer can tell.         *)
(*   conflict      conflicting_evidence and the cross-worker               *)
(*                 contradictions: one negation heuristic computes both    *)
(*   gap           cross_worker_consistency["coverage_gaps"] is not empty  *)
(*   unavailable   some claim is UNAVAILABLE (ADR-013)                     *)
(*   contradictory some claim is CONTRADICTORY                             *)
(*   credibleRisk  a corroborated claim names a high-risk signal           *)
(***************************************************************************)
SituationsOver(confidences, strengths) ==
    [selected : (SUBSET Domains) \ {{}}, provided : SUBSET Domains,
     confidence : confidences, strength : strengths, causality : Causalities,
     conflict : BOOLEAN, gap : BOOLEAN, unavailable : BOOLEAN,
     contradictory : BOOLEAN, credibleRisk : BOOLEAN]

\* The situations the validator can emit: findings stay inside the plan,
\* causality is established exactly when two domains contribute, a conflict
\* needs two domains, and without findings there is nothing to be confident of.
Validated(s) ==
    /\ s.provided \subseteq s.selected
    /\ s.causality \in EstablishedCausality <=> Cardinality(s.provided) >= 2
    /\ s.conflict => Cardinality(s.provided) >= 2
    /\ s.provided = {} => /\ s.confidence = 0
                          /\ ~s.credibleRisk
                          /\ ~s.gap

-----------------------------------------------------------------------------
(* The reducer. *)

MissingDomains(s) == s.selected \ s.provided
Established(s) == s.causality \in EstablishedCausality
Lesser(a, b) == IF a <= b THEN a ELSE b

\* Full coverage with established causality earns five points.
BaseConfidence(s) ==
    IF MissingDomains(s) = {} /\ Established(s) THEN s.confidence + 5
                                                ELSE s.confidence

HighCriticalEvidence(s) == s.contradictory \/ s.credibleRisk

RiskLevel(s) ==
    IF s.conflict \/ BaseConfidence(s) < ESCALATE_CONFIDENCE
                  \/ HighCriticalEvidence(s)
    THEN "high"
    ELSE IF BaseConfidence(s) < AUTONOMOUS_CONFIDENCE \/ ~Established(s)
    THEN "medium"
    ELSE "low"

\* Fault for the checks: the strength is rewarded upside down.
EvidenceWeighted_Inverted(s) ==
    Lesser(100, (BaseConfidence(s) * (10000 - 15 * s.strength) + 5000) \div 10000)

\* min(1.0, base * (0.85 + 0.15 * strength)) rounded to hundredths.
EvidenceWeighted(s) ==
    Lesser(100, (BaseConfidence(s) * (8500 + 15 * s.strength) + 5000) \div 10000)

\* The confidence the ladder compares: its strategy depends on the risk.
LadderConfidence(s) ==
    IF RiskLevel(s) = "low" THEN EvidenceWeighted(s)
    ELSE IF RiskLevel(s) = "medium" THEN Lesser(BaseConfidence(s), EvidenceWeighted(s))
    ELSE Lesser(s.confidence, s.strength)

EvidenceAdequate(s) ==
    /\ MissingDomains(s) = {}
    /\ s.strength >= RISK_EVIDENCE_THRESHOLD[RiskLevel(s)]

EscalateTriggered(s) ==
    \/ LadderConfidence(s) < ESCALATE_CONFIDENCE
    \/ MissingDomains(s) # {}
    \/ s.conflict

\* Fault for the checks: evidence that cannot be assessed does not hold.
HoldsForReview_AssumedSafe(s) ==
    \/ LadderConfidence(s) < AUTONOMOUS_CONFIDENCE
    \/ ~Established(s)
    \/ ~EvidenceAdequate(s)

HoldsForReview(s) ==
    \/ LadderConfidence(s) < AUTONOMOUS_CONFIDENCE
    \/ ~Established(s)
    \/ ~EvidenceAdequate(s)
    \/ s.unavailable

\* The ladder: triggers first, then every reason to hold, then credible risk.
AutonomyClass(s) ==
    IF EscalateTriggered(s) THEN "escalate"
    ELSE IF HoldsForReview(s) THEN "human_review"
    ELSE IF HighCriticalEvidence(s) THEN "escalate"
    ELSE "safe_autonomous"

\* Faults for the checks: a lost label, and the precedence swapped.
EscalationReason_Unlabelled(s) ==
    IF EscalateTriggered(s) /\ MissingDomains(s) # {} THEN "coverage_gap" ELSE "none"
EscalationReason_Swapped(s) ==
    IF LadderConfidence(s) < ESCALATE_CONFIDENCE \/ s.conflict THEN "uncertainty"
    ELSE IF MissingDomains(s) # {} THEN "coverage_gap"
    ELSE "risk"

EscalationReason(s) ==
    IF MissingDomains(s) # {} THEN "coverage_gap"
    ELSE IF EscalateTriggered(s) THEN "uncertainty"
    ELSE "risk"

RequiresHuman(s) == AutonomyClass(s) # "safe_autonomous"

-----------------------------------------------------------------------------
(* The action gate. *)

PolicyResult(action) ==
    IF action.risk = "critical" THEN "rejected"
    ELSE IF action.authority # "none" THEN "requires_human"
    ELSE "allowed"

POLICY_STATUS == [allowed |-> "validated", requires_human |-> "proposed",
                  rejected |-> "rejected"]

-----------------------------------------------------------------------------
(* The labels m3_proof.py and adk_routes.py derive from a result. *)

VerdictState(kind, policy) ==
    IF kind = "action" /\ policy = "allowed" THEN "automated"
    ELSE IF policy = "requires_human" THEN "human_review"
    ELSE "escalated"

ControlState(kind, autonomy) ==
    IF kind = "escalation" THEN "escalated"
    ELSE IF autonomy = "safe_autonomous" THEN "automated"
    ELSE IF autonomy = "human_review" THEN "human_review_required"
    ELSE "escalated"

\* Fault for the checks: the green check goes out with the held comment.
ActionsForAutonomy_GreenOnReview(autonomy) ==
    IF autonomy = "escalate" THEN {}
    ELSE {"analysis_comment_posted", "status_check_passed"}

ActionsForAutonomy(autonomy) ==
    IF autonomy = "safe_autonomous" THEN {"analysis_comment_posted", "status_check_passed"}
    ELSE IF autonomy = "human_review" THEN {"analysis_comment_posted"}
    ELSE {}
=============================================================================
