-------------------------- MODULE MCThreadRuntime --------------------------
(* Small instances of ThreadRuntime for TLC. *)
EXTENDS ThreadRuntime, TLC

Symmetry == Permutations(Callers)
=============================================================================
