----------------------------- MODULE MCHandoff ------------------------------
(* Handoff for TLC: calls are interchangeable, and so are senders.         *)
EXTENDS Handoff, TLC

Symmetry == Permutations(Calls) \cup Permutations(Senders)
=============================================================================
