------------------------------- MODULE Clocks -------------------------------
(***************************************************************************)
(* What a set of constraints x < y between integer clocks entails: exactly *)
(* its transitive closure, which is irreflexive iff the constraints are    *)
(* satisfiable.  A constraint is the pair <<x, y>>.                        *)
(***************************************************************************)
EXTENDS FiniteSetsExt

(* The closure adds the paths through one clock after the other.           *)
Entailed(constraints) ==
  LET clocks == UNION { {c[1], c[2]} : c \in constraints }
      Through(k, order) ==
        order \union { <<c[1], d[2]>> : c \in { a \in order : a[2] = k },
                                       d \in { a \in order : a[1] = k } }
  IN  FoldSet(Through, constraints, clocks)
=============================================================================
