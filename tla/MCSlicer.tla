------------------------------ MODULE MCSlicer ------------------------------
(***************************************************************************)
(* Programs to slice: structured programs whose branches, in textual       *)
(* order, have given locations.                                            *)
(***************************************************************************)
EXTENDS Slicer

Tok(call, loc) == << [call |-> call, loc |-> loc] >>

(* The first of branches i to n contains the next j - i branches in its    *)
(* "then" block and k - j more in its "else" block, if it has one; the     *)
(* others follow.                                                          *)
Bodies(locs) ==
  LET Of[i \in 1 .. Len(locs) + 1, n \in 0 .. Len(locs)] ==
        LET Elses(j, k) == { Tok("else", locs[i]) \o e : e \in Of[j + 1, k] }
            Branches(j, k) ==
              { Tok("then", locs[i]) \o t \o e \o Tok("end", locs[i]) \o rest :
                  t \in Of[i + 1, j],
                  e \in Elses(j, k) \union IF j = k THEN {<<>>} ELSE {},
                  rest \in Of[k + 1, n] }
        IN  IF i > n THEN {<<>>}
            ELSE UNION { UNION { Branches(j, k) : k \in j .. n } : j \in i .. n }
  IN  Of[1, Len(locs)]

(* All numberings of up to three branches: textual order is what           *)
(* __COUNTER__ gives within one function; a branch of a function defined   *)
(* further up has a smaller location than the call around it.              *)
Numberings(n) == { f \in [1 .. n -> 1 .. n] : IsInjective(f) }

(* A function with one branch that is called twice, or a loop body that    *)
(* runs twice: both visits of the branch have the same location.           *)
RepeatedLocation ==
  LET visit == Tok("then", 1) \o Tok("else", 1) \o Tok("end", 1)
  IN  { [program |-> visit \o visit, sliceFreq |-> 1024] }
=============================================================================
