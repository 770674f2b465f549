----------------------------- MODULE MCBackends -----------------------------
(***************************************************************************)
(* Backends for TLC: the targets and the slots of calls are interchangeable.*)
(***************************************************************************)
EXTENDS Backends, TLC

Symmetry == Permutations(Target) \cup Permutations(Slot)
=============================================================================
