--------------------------- MODULE MCSituationStore ---------------------------
(***************************************************************************)
(* The symmetry of the situation identifiers.                              *)
(***************************************************************************)
EXTENDS SituationStore, TLC

IdSymmetry == Permutations(Ids)
=============================================================================
