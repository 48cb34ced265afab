----------------------------- MODULE MCSliceLoop -----------------------------
(***************************************************************************)
(* Programs to analyse with a slice loop.                                  *)
(***************************************************************************)
EXTENDS SliceLoop, MCSlicer

CONSTANTS a, s      \* a local and a shared variable

Case(p, freq, kept) == [program |-> p, sliceFreq |-> freq, kept |-> kept]

True  == <<"literal", TRUE>>
False == <<"literal", FALSE>>
A == <<"local", a>>
X == <<"shared", s>>

(* Pieces of programs. *)
Then(loc, operand) == << [call |-> "then", loc |-> loc, operand |-> operand] >>
Else(loc) == << [call |-> "else", loc |-> loc] >>
End(loc)  == << [call |-> "end", loc |-> loc] >>
SetA(operand)   == << [call |-> "assign", target |-> a, operand |-> operand] >>
Push(operand)   == << [call |-> "write", target |-> s, operand |-> operand] >>
Report(operand) == << [call |-> "error", operand |-> operand] >>
Do(call)        == << [call |-> call] >>
Child(body)     == Do("spawn") \o body \o Do("finish")

(* The programs of one branch, with a statement in each place.             *)
OneBranch(befores, operands, thens, elses, afters) ==
  { b \o Then(1, c) \o t \o e \o End(1) \o f :
      b \in befores, c \in operands, t \in thens, e \in elses, f \in afters }

NoElse == {<<>>}
WithElse(bodies) == { Else(1) \o b : b \in bodies }

Befores == { <<>>, SetA(AnyValue), Push(AnyValue) }
Operands == { AnyValue, True, False, A, X }
Thens == { <<>>, SetA(AnyValue), SetA(X), Push(True), Report(True), Child(Report(X)),
           Child(Push(AnyValue)) \o Do("join") }
Elses == { <<>>, SetA(AnyValue), Report(X), Child(Push(AnyValue)) }
Afters == { <<>>, Report(A), SetA(X) \o Report(A), Report(AnyValue) }

Sliced ==
  { Case(p, 1024, FALSE) : p \in
      OneBranch(Befores, Operands, Thens, NoElse \union WithElse(Elses), Afters) }

(* The branch is in a child, which the main thread joins or not.           *)
InChild(befores, thens, elses) ==
  { Child(p) \o f : p \in OneBranch(befores, { AnyValue, A, X }, thens, elses, { <<>>, Report(A) }),
                    f \in { <<>>, Do("join"), Report(X), Do("join") \o Report(A) } }

SlicedChild ==
  { Case(p, 1024, FALSE) : p \in
      InChild({ SetA(AnyValue), Push(AnyValue) },
              { <<>>, SetA(True), Push(True), Child(Report(A)) },
              NoElse \union WithElse({ <<>>, Report(X) })) }

(* Without slicing both arms of a branch are recorded, so what an arm      *)
(* assigns to a local variable it has afterwards, a thread started in an   *)
(* arm forces its condition, and a pop in an arm that is not taken may     *)
(* still count: here arms only push and report.                            *)
Recorded == { <<>>, Push(True), Report(A), Report(True) }

Unsliced ==
  { Case(p, 0, FALSE) : p \in
      OneBranch(Befores, Operands, Recorded, NoElse, Afters)
        \union InChild({ SetA(AnyValue), Push(AnyValue) }, Recorded, NoElse) }

(* The recording is kept: shared variables would be popped in one slice    *)
(* and missing in the next, see MCSliceLoopKept.cfg.                       *)
Kept ==
  { Case(p, 1024, TRUE) : p \in
      OneBranch({ <<>>, SetA(AnyValue), Child(SetA(AnyValue)) \o Do("join") },
                { AnyValue, True, A },
                { <<>>, SetA(True), Report(A), Child(Report(A)), Child(SetA(True)) \o Do("join") },
                NoElse \union WithElse({ <<>>, SetA(AnyValue), Report(True) }),
                { <<>>, Report(A), Report(AnyValue) }) }

(* Nested and sequential branches, with an operand for every branch, an    *)
(* assignment and a report somewhere.                                      *)
Operated(p) == [i \in DOMAIN p |->
  IF p[i].call = "then" THEN p[i] @@ [operand |-> IF p[i].loc = 2 THEN A ELSE AnyValue] ELSE p[i]]

WithStatement(programs, statement) ==
  UNION { { InsertAt(p, i, Head(statement)) : i \in 1 .. Len(p) + 1 } : p \in programs }

Structures(n) == { Operated(p) : p \in UNION { Bodies(f) : f \in Numberings(n) } }

Reporting(programs) == WithStatement(programs, Report(A))

Larger ==
  { Case(p, 1024, kept) :
      p \in Reporting(WithStatement(Structures(2), SetA(True)))
              \union Reporting(WithStatement(Structures(2), SetA(AnyValue))),
      kept \in BOOLEAN }

(* Programs that only branch, on up to three conditions.                   *)
Branching ==
  { Case(p, freq, FALSE) : p \in UNION { Structures(n) : n \in 0 .. 3 }, freq \in {0, 1024} }

AllCases == Sliced \union SlicedChild \union Unsliced \union Kept \union Larger \union Branching

(* Only the "else" block, which never runs, makes the report come true.    *)
Skipping ==
  { Case(Then(1, True) \o Else(1) \o SetA(True) \o End(1) \o Report(A), 1024, kept) : kept \in BOOLEAN }

(* A static shared variable that every slice pops.                         *)
Popping == { Case(SetA(X) \o Then(1, AnyValue) \o Report(True) \o End(1), 1024, TRUE) }
=============================================================================
