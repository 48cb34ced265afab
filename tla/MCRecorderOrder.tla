-------------------------- MODULE MCRecorderOrder --------------------------
EXTENDS RecorderOrder

(* Conditions are only compared, so they are interchangeable.              *)
Symmetry == Permutations(Condition)
=============================================================================
