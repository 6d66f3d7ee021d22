--------------------------- MODULE MCEvidenceFlow -----------------------------
(***************************************************************************)
(* Bounds for EvidenceFlow.                                                *)
(***************************************************************************)
EXTENDS EvidenceFlow

Change(n, kinds) == [n |-> n, kinds |-> kinds]

\* A changeset for every predicate, alone and mixed, on both sides of the two
\* caps and of the more-than-two-files rule.
MCChangesets ==
    {NoFiles, Change(1, {"doc"}), Change(1, {"source"}), Change(3, {"source", "test"}),
     Change(9, {"core", "source"}), Change(1, {"workflow"}), Change(1, {"auth"}),
     Change(1, {"secret"}), Change(1, {"manifest"}), Change(1, {"dockerkey"}),
     Change(2, {"manifest", "doc"}), Change(2, {"infra", "test"})}
=============================================================================
