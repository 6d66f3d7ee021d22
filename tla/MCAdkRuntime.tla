----------------------------- MODULE MCAdkRuntime -----------------------------
(***************************************************************************)
(* The symmetry of the requests.                                           *)
(***************************************************************************)
EXTENDS AdkRuntime, TLC

RequestSymmetry == Permutations(Requests)
=============================================================================
