------------------------------- MODULE Slicer -------------------------------
(***************************************************************************)
(* Class Slicer (slicer.h) driven by the loop its users write:             *)
(*                                                                         *)
(*   do { ...program... } while (slicer.next_slice());                     *)
(*                                                                         *)
(* A program is a sequence of tokens.  Some call the slicer:               *)
(* begin_then_branch, begin_else_branch and end_branch of a location; the  *)
(* others are the statements in between.  The program skips a block when   *)
(* the slicer says so, and then goes on with the next call for the same    *)
(* branch.                                                                 *)
(***************************************************************************)
EXTENDS Integers, SequencesExt, FiniteSetsExt

CONSTANT
  Cases        \* what to slice: a program, a sequence of tokens, and the
               \* slice_freq to slice it with, which is zero for no slicing

Call == {"then", "else", "end"}

Blocks(p) == { i \in DOMAIN p : p[i].call \in {"then", "else"} }

(* How many branches are open just before token i.                         *)
Count(p, call, i) == Cardinality({ k \in 1 .. i - 1 : p[k].call = call })
Depth(p, i) == Count(p, "then", i) - Count(p, "end", i)

(* The position of the token that closes the block opened at position i:   *)
(* the first one after it that is not inside a nested branch.              *)
Closes(p, i) ==
  { j \in i + 1 .. Len(p) : p[j].call \in {"else", "end"} /\ Depth(p, j) = Depth(p, i + 1) }

Closing(p, i) == Min(Closes(p, i))

(* Branches are nested: each block has an end, and an "else" is the only   *)
(* one of its branch.                                                      *)
Nested(p) ==
  /\ p \in Seq(Range(p))
  /\ Depth(p, Len(p) + 1) = 0
  /\ \A i \in DOMAIN p : p[i].call \in {"else", "end"} => Depth(p, i) > 0
  /\ \A i \in Blocks(p) : Closes(p, i) # {}
  /\ \A i \in Blocks(p) : p[i].call = "else" => p[Closing(p, i)].call = "end"

ASSUME CaseAssumption ==
  \A c \in Cases :
    /\ c.sliceFreq \in Nat
    /\ Nested(c.program)
    /\ \A i \in DOMAIN c.program : c.program[i].call \in Call => c.program[i].loc \in Nat

VARIABLES
  case,         \* what is sliced; its frequency is m_slice_freq
  branchMap,    \* m_branch_map: a function on the locations met so far
  sliceCount,   \* m_slice_count
  stack,        \* m_branch_execute_stack, top last
  pc,           \* the next call; past the end of the program, next_slice()
  finished,     \* next_slice() has returned false
  path,         \* history: the blocks entered in this slice, each by the
                \* position of the token that opens it
  explored      \* history: the paths of the slices finished so far

vars == <<case, branchMap, sliceCount, stack, pc, finished, path, explored>>

program   == case.program
sliceFreq == case.sliceFreq

Token == program[pc]

Calls(call) == pc <= Len(program) /\ ~finished /\ Token.call = call

(* The caller enters the block if the slicer returned true.                *)
Enter(execute) ==
  /\ pc' = IF execute THEN pc + 1 ELSE Closing(program, pc)
  /\ path' = IF execute THEN Append(path, pc) ELSE path

(* Mutant of Init: m_slice_count does not count the first slice.           *)
InitCountZero ==
  /\ case \in Cases
  /\ branchMap = <<>>
  /\ sliceCount = 0
  /\ stack = <<>>
  /\ pc = 1
  /\ finished = FALSE
  /\ path = <<>>
  /\ explored = {}

Init ==
  /\ case \in Cases
  /\ branchMap = <<>>
  /\ sliceCount = 1
  /\ stack = <<>>
  /\ pc = 1
  /\ finished = FALSE
  /\ path = <<>>
  /\ explored = {}

-----------------------------------------------------------------------------
(* Mutant of Lookup: what the map has is overwritten.                      *)
Overwritten(loc) == [execute |-> FALSE, flip |-> FALSE]

(* What begin_then_branch finds, or inserts, for a location.               *)
Lookup(loc) ==
  IF loc \in DOMAIN branchMap THEN branchMap[loc]
  ELSE [execute |-> FALSE, flip |-> FALSE]

Met(loc) == [l \in DOMAIN branchMap \union {loc} |-> Lookup(l)]

(* Mutant of BeginThenBranch: m_slice_freq is not looked at.               *)
BeginThenAlwaysSlicing ==
  /\ Calls("then")
  /\ branchMap' = Met(Token.loc)
  /\ stack' = Append(stack, Lookup(Token.loc).execute)
  /\ Enter(Lookup(Token.loc).execute)
  /\ UNCHANGED <<case, sliceCount, finished, explored>>

BeginThenBranch ==
  /\ Calls("then")
  /\ IF sliceFreq = 0
       THEN /\ Enter(TRUE)
            /\ UNCHANGED <<branchMap, stack>>
       ELSE /\ branchMap' = Met(Token.loc)
            /\ stack' = Append(stack, Lookup(Token.loc).execute)
            /\ Enter(Lookup(Token.loc).execute)
  /\ UNCHANGED <<case, sliceCount, finished, explored>>

(* Mutant of BeginElseBranch: the decision is not negated.                 *)
BeginElseSameAnswer ==
  /\ Calls("else")
  /\ Enter(sliceFreq = 0 \/ Last(stack))
  /\ UNCHANGED <<case, branchMap, sliceCount, stack, finished, explored>>

BeginElseBranch ==
  /\ Calls("else")
  /\ Enter(sliceFreq = 0 \/ ~Last(stack))
  /\ UNCHANGED <<case, branchMap, sliceCount, stack, finished, explored>>

(* Mutants of EndBranch: the decision is not popped; and it is popped also *)
(* without slicing, which stops the program at an empty stack.             *)
EndBranchUnpopped ==
  /\ Calls("end")
  /\ pc' = pc + 1
  /\ UNCHANGED <<case, branchMap, sliceCount, stack, finished, path, explored>>

EndBranchAlwaysPops ==
  /\ Calls("end") /\ stack # <<>>
  /\ pc' = pc + 1
  /\ stack' = Front(stack)
  /\ UNCHANGED <<case, branchMap, sliceCount, finished, path, explored>>

EndBranch ==
  /\ Calls("end")
  /\ pc' = pc + 1
  /\ stack' = IF sliceFreq > 0 THEN Front(stack) ELSE stack
  /\ UNCHANGED <<case, branchMap, sliceCount, finished, path, explored>>

(* A statement makes no call. *)
Proceed ==
  /\ pc <= Len(program) /\ ~finished /\ Token.call \notin Call
  /\ pc' = pc + 1
  /\ UNCHANGED <<case, branchMap, sliceCount, stack, finished, path, explored>>

-----------------------------------------------------------------------------
(* Mutant of Passed: the first location not flipped yet is passed, too.    *)
PassedOneMore == { l \in DOMAIN branchMap :
                     \A k \in DOMAIN branchMap : k > l => branchMap[k].flip }

(* The locations next_slice walks over, from the highest down, before it   *)
(* meets one that is not flipped yet.                                      *)
Passed == { l \in DOMAIN branchMap :
              \A k \in DOMAIN branchMap : k >= l => branchMap[k].flip }

(* The location next_slice flips, if there is one.                         *)
Flippable == DOMAIN branchMap \ Passed
Highest == CHOOSE l \in Flippable : \A k \in Flippable : k <= l

NextSlice ==
  /\ pc > Len(program) /\ ~finished
  /\ explored' = explored \union {path}
  /\ branchMap' = [l \in DOMAIN branchMap |->
       IF l \in Passed THEN [execute |-> branchMap[l].execute, flip |-> FALSE]
       ELSE IF l = Highest THEN [execute |-> ~branchMap[l].execute, flip |-> TRUE]
       ELSE branchMap[l]]
  /\ IF Flippable = {}
       THEN /\ finished' = TRUE
            /\ UNCHANGED <<sliceCount, pc, path>>
       ELSE /\ sliceCount' = sliceCount + 1
            /\ pc' = 1
            /\ path' = <<>>
            /\ UNCHANGED finished
  /\ UNCHANGED <<case, stack>>

Next == BeginThenBranch \/ BeginElseBranch \/ EndBranch \/ Proceed \/ NextSlice

(* The program and the loop around it are sequential and never wait.       *)
Spec == Init /\ [][Next]_vars /\ WF_vars(Next)

-----------------------------------------------------------------------------
TypeOK ==
  /\ \A l \in DOMAIN branchMap : branchMap[l] \in [execute : BOOLEAN, flip : BOOLEAN]
  /\ sliceCount \in Nat \ {0}
  /\ stack \in Seq(BOOLEAN)
  /\ pc \in 1 .. Len(program) + 1
  /\ finished \in BOOLEAN

(* The ways through a program, and through what is left of it from token i *)
(* on: each branch takes one of its sides, and a "then" block that ends in *)
(* "else" goes on after the branch.                                        *)
Ways(p) ==
  LET From[i \in 1 .. Len(p) + 1] ==
        LET other == Closing(p, i)
            Entering(j) == { <<j>> \o way : way \in From[j + 1] }
        IN  IF i > Len(p) THEN {<<>>}
            ELSE CASE p[i].call = "then" -> Entering(i) \union
                        (IF p[other].call = "else" THEN Entering(other) ELSE From[other])
                   [] p[i].call = "else" -> From[other]
                   [] OTHER              -> From[i + 1]
  IN  From[1]

(* slicer.h: "Slice every path in the series-parallel DAG".  When          *)
(* next_slice says that there is no other slice, the slices made are the   *)
(* paths of the program, all of them and nothing else.                     *)
EveryPath ==
  finished /\ sliceFreq > 0 => explored = Ways(program)

(* Without slicing the one slice made enters every block of the program.   *)
NeverSliced ==
  sliceFreq = 0 =>
    /\ sliceCount = 1
    /\ finished => Range(path) = Blocks(program)

(* The answers of begin_else_branch belong to its own branch whatever the  *)
(* program did in between: in one slice a branch enters one side, or none  *)
(* if it has no other.                                                     *)
OneSide ==
  sliceFreq > 0 => \A a, b \in Range(path) : Closing(program, a) # b

(* Decisions made for nested branches are gone when the slice ends.        *)
Balanced == pc > Len(program) => stack = <<>>

(* next_slice flips exactly one decision, the highest that was not flipped *)
(* since a decision below it last changed.                                 *)
FlipsOne ==
  [][sliceCount' # sliceCount =>
       \E l \in DOMAIN branchMap :
         /\ \A k \in DOMAIN branchMap :
              (branchMap'[k].execute # branchMap[k].execute) <=> k = l
         /\ \A k \in DOMAIN branchMap : k > l => branchMap[k].flip
    ]_vars

(* A loop over a program of n locations needs at most 2^n slices.          *)
Locations == { program[i].loc : i \in Blocks(program) }

CountBound == sliceCount <= 2 ^ Cardinality(Locations)

(* The loop over the slices ends.                                          *)
Terminates == <>finished
=============================================================================
