--------------------------- MODULE MCOrderEncoder ---------------------------
EXTENDS OrderEncoder, TLC

(* Nothing tells one atom from another.                                    *)
Symmetry == Permutations(Zone)
=============================================================================
