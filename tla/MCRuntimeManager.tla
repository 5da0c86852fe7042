-------------------------- MODULE MCRuntimeManager --------------------------
(* Small instances of RuntimeManager for TLC.                              *)
EXTENDS RuntimeManager, TLC

Symmetry == Permutations(Ids) \cup Permutations(Callers)
=============================================================================
