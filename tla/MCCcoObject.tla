----------------------------- MODULE MCCcoObject -----------------------------
(* CcoObject for TLC: what the runs over the object heap share. *)
EXTENDS CcoObject_proof, TLC

Symmetry == Permutations(Obj) \cup Permutations(Handle) \cup Permutations(Key)
=============================================================================
