---------------------------- MODULE MCLifecycle -----------------------------
(* Lifecycle for TLC: groups are interchangeable.  Callers are not: only the  *)
(* frame loop evicts.                                                         *)
EXTENDS Lifecycle, TLC

GroupSymmetry == Permutations(Groups)
=============================================================================
