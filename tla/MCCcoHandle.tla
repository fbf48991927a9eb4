----------------------------- MODULE MCCcoHandle -----------------------------
(* The object heap, clones and the C++ wrapper together, for TLC. *)
EXTENDS CcoHandle, TLC

Symmetry == Permutations(Obj) \cup Permutations(Handle) \cup Permutations(Key)
=============================================================================
