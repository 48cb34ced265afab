-------------------------- MODULE MCLoopUnwinding --------------------------
EXTENDS LoopUnwinding

CONSTANTS outer, inner

(* Two loops, either of which may be nested in the other.                  *)
BoundOf == (outer :> 2) @@ (inner :> 1)
=============================================================================
