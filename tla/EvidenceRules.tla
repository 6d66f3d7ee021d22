---------------------------- MODULE EvidenceRules -----------------------------
(***************************************************************************)
(* What every path of evidence shares, whether it comes from a webhook     *)
(* (EvidenceFlow) or from a caller (EvidenceIntake): who works for which   *)
(* domain, and how the validator rounds.                                   *)
(***************************************************************************)
EXTENDS AutonomyPolicy

WorkersOf == [code       |-> {"pr-pre-flight-ast-worker", "docs-drift-and-spec-worker"},
              delivery   |-> {"build-log-and-flakiness-worker",
                              "alert-storm-clustering-worker"},
              production |-> {"telemetry-correlation-worker",
                              "security-and-dependency-worker"}]
Workers == UNION {WorkersOf[d] : d \in Domains}

When(condition, points) == IF condition THEN points ELSE 0

\* round(sum / count, 2): the average of two may lie on a tie, which falls as
\* the floats have it.
Averages(total, count) ==
    IF count = 0 THEN {0}
    ELSE {q \in 0..100 : 2 * (count * q - total) <= count /\ 2 * (total - count * q) <= count}

\* round() of a quotient whose ties the floats represent exactly.
HalfEven(a, b) ==
    LET q == a \div b
    IN  IF 2 * (a % b) + (q % 2) > b THEN q + 1 ELSE q
=============================================================================
