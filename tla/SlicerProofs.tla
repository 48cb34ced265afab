---------------------------- MODULE SlicerProofs ----------------------------
(***************************************************************************)
(* What class Slicer guarantees for every program of nested branches,      *)
(* every numbering of its locations and every frequency.  First that its   *)
(* answers lie on the stack in the order of the open branches.  Then that  *)
(* next_slice() counts: the flipped locations are the digits of a number   *)
(* that grows with each slice.  Last that the slices are the paths of the  *)
(* program: a path is what the program walks under decisions, one for each *)
(* location, and the decisions that first differ from the present ones at  *)
(* a flipped location are those whose paths have been explored.            *)
(***************************************************************************)
EXTENDS Slicer, DataLemmas, FiniteSetTheorems

(* Of a nonempty set of finite sets, one contains no other.                *)
LEMMA LeastSet ==
  ASSUME NEW T, T # {}, \A s \in T : IsFiniteSet(s)
  PROVE  \E s \in T : \A r \in T : r \subseteq s => r = s
<1>1. T \subseteq FiniteSubsetsOf(UNION T)
  BY DEF FiniteSubsetsOf
<1>2. PICK s \in T : \A r \in T : ~ (<<r, s>> \in StrictSubsetOrdering(UNION T))
  BY <1>1, FS_StrictSubsetOrderingWellFounded, WFMin
<1> QED
  BY <1>2 DEF StrictSubsetOrdering

(* A set of naturals has a least element. *)
LEMMA MinFacts ==
  ASSUME NEW S \in SUBSET Nat, S # {}
  PROVE  Min(S) \in S /\ \A y \in S : Min(S) <= y
<1> DEFINE T == { 1 .. n : n \in S }
<1>1. T # {}
  OBVIOUS
<1>2. ASSUME NEW s \in T
      PROVE  IsFiniteSet(s)
  <2>1. PICK n \in Nat : s = 1 .. n
    OBVIOUS
  <2>2. IsFiniteSet(1 .. n)
    BY FS_Interval
  <2> QED
    BY <2>1, <2>2
<1>3. PICK s \in T : \A r \in T : r \subseteq s => r = s
  <2> HIDE DEF T
  <2> QED BY <1>1, <1>2, LeastSet
<1>4. PICK x \in S : s = 1 .. x
  OBVIOUS
<1>5. ASSUME NEW y \in S, ~ (x <= y)
      PROVE  FALSE
  <2>1. x \in Nat /\ y \in Nat
    OBVIOUS
  <2>2. 1 .. y \subseteq 1 .. x /\ x \in 1 .. x /\ x \notin 1 .. y
    BY <1>5, <2>1
  <2> QED
    BY <1>3, <1>4, <2>2
<1> QED
  BY <1>5 DEF Min

(* A finite set of naturals has a greatest element. *)
LEMMA MaxExists ==
  ASSUME NEW S \in SUBSET Nat, S # {}, IsFiniteSet(S)
  PROVE  \E l \in S : \A k \in S : k <= l
<1> DEFINE From(l) == { k \in S : k >= l }
           T == { From(l) : l \in S }
<1>1. T # {}
  OBVIOUS
<1>2. ASSUME NEW s \in T
      PROVE  IsFiniteSet(s)
  <2>1. s \in SUBSET S
    OBVIOUS
  <2> QED
    BY <2>1, FS_Subset
<1>3. PICK s \in T : \A r \in T : r \subseteq s => r = s
  <2> HIDE DEF T
  <2> QED BY <1>1, <1>2, LeastSet
<1>4. PICK l \in S : s = From(l)
  OBVIOUS
<1>5. ASSUME NEW k \in S, ~ (k <= l)
      PROVE  FALSE
  <2>1. k \in Nat /\ l \in Nat /\ l < k
    BY <1>5
  <2>2. l \in From(l) /\ l \notin From(k)
    BY <2>1
  <2>3. From(k) \subseteq From(l)
    <3>1. \A j \in S : j \in Nat /\ (j >= k => j >= l)
      BY <2>1
    <3> QED
      BY <3>1
  <2>4. From(k) = From(l)
    BY <1>3, <1>4, <2>3
  <2> QED
    BY <2>2, <2>4
<1> QED
  BY <1>5

-----------------------------------------------------------------------------
(* One more token adds one to the calls of its kind. *)
LEMMA CountStep ==
  ASSUME NEW p, NEW call, NEW i \in Nat \ {0}
  PROVE  /\ Count(p, call, i) \in Nat
         /\ Count(p, call, 1) = 0
         /\ Count(p, call, i + 1) = Count(p, call, i) + IF p[i].call = call THEN 1 ELSE 0
<1> DEFINE Before(j) == { k \in 1 .. j - 1 : p[k].call = call }
<1>1. IsFiniteSet(Before(i)) /\ Cardinality(Before(i)) \in Nat
  <2>1. IsFiniteSet(1 .. i - 1) /\ Before(i) \in SUBSET (1 .. i - 1)
    BY FS_Interval
  <2> QED
    BY <2>1, FS_Subset, FS_CardinalityType
<1>2. Before(1) = {}
  OBVIOUS
<1>3. i \notin Before(i) /\ Before(i + 1) = IF p[i].call = call THEN Before(i) \union {i} ELSE Before(i)
  OBVIOUS
<1>4. Cardinality(Before(i) \union {i}) = Cardinality(Before(i)) + 1
  <2> HIDE DEF Before
  <2> QED BY <1>1, <1>3, FS_AddElement
<1>5. \A j : Count(p, call, j) = Cardinality(Before(j))
  BY DEF Count
<1>6. Count(p, call, i + 1) = Count(p, call, i) + IF p[i].call = call THEN 1 ELSE 0
  <2> HIDE DEF Before
  <2>1. CASE p[i].call = call
    BY <1>3, <1>4, <1>5, <2>1
  <2>2. CASE p[i].call # call
    BY <1>1, <1>3, <1>5, <2>2
  <2> QED
    BY <2>1, <2>2
<1>7. Count(p, call, 1) = 0
  <2> HIDE DEF Before
  <2> QED BY <1>2, <1>5, FS_EmptySet
<1> QED
  BY <1>1, <1>5, <1>6, <1>7

(* A "then" opens a branch and an "end" closes one. *)
LEMMA DepthStep ==
  ASSUME NEW p, NEW i \in Nat \ {0}
  PROVE  /\ Depth(p, i) \in Int
         /\ Depth(p, 1) = 0
         /\ p[i].call = "then" => Depth(p, i + 1) = Depth(p, i) + 1
         /\ p[i].call = "end" => Depth(p, i + 1) = Depth(p, i) - 1
         /\ p[i].call \notin {"then", "end"} => Depth(p, i + 1) = Depth(p, i)
<1>1. /\ Count(p, "then", i) \in Nat
      /\ Count(p, "then", 1) = 0
      /\ Count(p, "then", i + 1) = Count(p, "then", i) + IF p[i].call = "then" THEN 1 ELSE 0
  BY CountStep
<1>2. /\ Count(p, "end", i) \in Nat
      /\ Count(p, "end", 1) = 0
      /\ Count(p, "end", i + 1) = Count(p, "end", i) + IF p[i].call = "end" THEN 1 ELSE 0
  BY CountStep
<1> QED
  BY <1>1, <1>2 DEF Depth

(* Where a block ends. *)
LEMMA ClosingFacts ==
  ASSUME NEW p, Nested(p), NEW i \in Blocks(p)
  PROVE  /\ i \in 1 .. Len(p) /\ Len(p) \in Nat
         /\ Closing(p, i) \in i + 1 .. Len(p)
         /\ p[Closing(p, i)].call \in {"else", "end"}
         /\ Depth(p, Closing(p, i)) = Depth(p, i + 1)
         /\ \A j \in i + 1 .. Closing(p, i) - 1 :
              p[j].call \in {"else", "end"} => Depth(p, j) # Depth(p, i + 1)
<1>1. p \in Seq(Range(p)) /\ Closes(p, i) # {}
  BY DEF Nested
<1>2. i \in 1 .. Len(p) /\ Len(p) \in Nat
  BY <1>1 DEF Blocks
<1>3. Closes(p, i) \in SUBSET Nat
  BY <1>2 DEF Closes
<1>4. Closing(p, i) \in Closes(p, i) /\ \A j \in Closes(p, i) : Closing(p, i) <= j
  BY <1>1, <1>3, MinFacts DEF Closing
<1> QED
  BY <1>2, <1>4 DEF Closes

-----------------------------------------------------------------------------
(* The types, more closely than TypeOK has them. *)
TypeInv ==
  /\ case \in Cases
  /\ IsFiniteSet(DOMAIN branchMap) /\ DOMAIN branchMap \subseteq Nat
  /\ branchMap \in [DOMAIN branchMap -> [execute : BOOLEAN, flip : BOOLEAN]]
  /\ sliceCount \in Nat \ {0}
  /\ stack \in Seq(BOOLEAN)
  /\ pc \in 1 .. Len(program) + 1
  /\ finished \in BOOLEAN
  /\ path \in Seq(Blocks(program))
  /\ \A a \in Range(path) : a < pc

(* Without slicing no decision is recorded, and every block is entered.    *)
UnslicedInv ==
  sliceFreq = 0 =>
    /\ stack = <<>>
    /\ DOMAIN branchMap = {}
    /\ sliceCount = 1
    /\ Range(path) = { i \in Blocks(program) : i < pc }

(* With slicing there is a decision on the stack for each open branch, and *)
(* that of a branch whose "then" block was entered stays where it was put  *)
(* until the block is closed.                                              *)
Entered(a) == Depth(program, a) + 1 \in DOMAIN stack /\ stack[Depth(program, a) + 1] = TRUE

SlicedInv ==
  sliceFreq # 0 =>
    /\ Len(stack) = Depth(program, pc)
    /\ \A a \in Range(path) :
         program[a].call = "then" /\ pc <= Closing(program, a) => Entered(a)
    /\ OneSide

IInv == TypeInv /\ UnslicedInv /\ SlicedInv

-----------------------------------------------------------------------------
(* What the invariant says of the program. *)
LEMMA ProgramFacts ==
  ASSUME case \in Cases
  PROVE  /\ Nested(program)
         /\ sliceFreq \in Nat
         /\ Len(program) \in Nat
         /\ DOMAIN program = 1 .. Len(program)
         /\ Blocks(program) \subseteq 1 .. Len(program)
         /\ \A i \in DOMAIN program : program[i].call \in Call => program[i].loc \in Nat
<1>1. /\ Nested(program) /\ sliceFreq \in Nat
      /\ \A i \in DOMAIN program : program[i].call \in Call => program[i].loc \in Nat
  BY CaseAssumption DEF program, sliceFreq
<1>2. program \in Seq(Range(program))
  BY <1>1 DEF Nested
<1> QED
  BY <1>1, <1>2 DEF Blocks

(* One more block on the path. *)
LEMMA RangeAppend ==
  ASSUME NEW S, NEW q \in Seq(S), NEW x \in S
  PROVE  Range(Append(q, x)) = Range(q) \union {x}
<1>1. /\ DOMAIN Append(q, x) = DOMAIN q \union {Len(q) + 1}
      /\ Append(q, x)[Len(q) + 1] = x
      /\ \A i \in DOMAIN q : Append(q, x)[i] = q[i]
  OBVIOUS
<1> QED
  BY <1>1 DEF Range

(* Entering a block or skipping it. *)
LEMMA EnterFacts ==
  ASSUME TypeInv, pc \in Blocks(program), NEW execute \in BOOLEAN, Enter(execute)
  PROVE  /\ pc' \in pc + 1 .. Len(program) + 1
         /\ Depth(program, pc') = Depth(program, pc + 1)
         /\ execute => pc' = pc + 1
         /\ ~execute => pc' = Closing(program, pc)
         /\ path' \in Seq(Blocks(program))
         /\ Range(path') = Range(path) \union (IF execute THEN {pc} ELSE {})
         /\ \A a \in Range(path') : a < pc'
<1>1. Nested(program) /\ Len(program) \in Nat /\ pc \in 1 .. Len(program)
  BY ProgramFacts DEF TypeInv
<1>2. /\ Closing(program, pc) \in pc + 1 .. Len(program)
      /\ Depth(program, Closing(program, pc)) = Depth(program, pc + 1)
  BY <1>1, ClosingFacts
<1>3. /\ pc' = IF execute THEN pc + 1 ELSE Closing(program, pc)
      /\ path' = IF execute THEN Append(path, pc) ELSE path
  BY DEF Enter
<1>4. pc' \in pc + 1 .. Len(program) + 1 /\ Depth(program, pc') = Depth(program, pc + 1)
  BY <1>1, <1>2, <1>3
<1>5. path' \in Seq(Blocks(program)) /\ Range(path') = Range(path) \union (IF execute THEN {pc} ELSE {})
  <2>1. path \in Seq(Blocks(program))
    BY DEF TypeInv
  <2>2. Append(path, pc) \in Seq(Blocks(program)) /\ Range(Append(path, pc)) = Range(path) \union {pc}
    BY <2>1, RangeAppend
  <2> QED
    BY <1>3, <2>1, <2>2
<1>6. ASSUME NEW a \in Range(path')
      PROVE  a < pc'
  <2>1. CASE a = pc
    BY <1>1, <1>4, <2>1
  <2>2. CASE a \in Range(path)
    <3>1. a < pc /\ a \in Nat
      <4>1. a \in Blocks(program)
        BY <2>2 DEF TypeInv, Range
      <4> QED
        BY <2>2, <4>1, ProgramFacts DEF TypeInv
    <3> QED
      BY <1>1, <1>4, <3>1
  <2> QED
    BY <1>5, <2>1, <2>2
<1> QED
  BY <1>3, <1>4, <1>5, <1>6

(* The blocks on the path come before the current token. *)
LEMMA PathFacts ==
  ASSUME TypeInv, NEW a \in Range(path)
  PROVE  a \in Blocks(program) /\ a \in 1 .. Len(program) /\ a \in 1 .. pc - 1 /\ pc \in Nat
<1>1. a \in Blocks(program) /\ a < pc
  BY DEF TypeInv, Range
<1> QED
  BY <1>1, ProgramFacts DEF TypeInv

(* Inside a "then" block that was entered, and that does not close here,   *)
(* the branches opened in it are deeper.                                   *)
LEMMA Deeper ==
  ASSUME TypeInv, SlicedInv, sliceFreq # 0, NEW a \in Range(path),
         program[a].call = "then", pc < Closing(program, a)
  PROVE  /\ Entered(a)
         /\ Depth(program, a) \in Int
         /\ program[pc].call \in {"else", "end"} => Len(stack) > Depth(program, a) + 1
<1>1. /\ Nested(program) /\ a \in Blocks(program) /\ a \in 1 .. pc - 1 /\ pc \in Nat
      /\ Len(program) \in Nat
  BY PathFacts, ProgramFacts DEF TypeInv
<1>2. /\ Closing(program, a) \in a + 1 .. Len(program)
      /\ \A j \in a + 1 .. Closing(program, a) - 1 :
            program[j].call \in {"else", "end"} => Depth(program, j) # Depth(program, a + 1)
  BY <1>1, ClosingFacts
<1>3. Depth(program, a) \in Int /\ Depth(program, a + 1) = Depth(program, a) + 1
  BY <1>1, DepthStep
<1>4. Entered(a)
  BY <1>1, <1>2 DEF SlicedInv
<1>5. ASSUME program[pc].call \in {"else", "end"}
      PROVE  Len(stack) > Depth(program, a) + 1
  <2>1. pc \in a + 1 .. Closing(program, a) - 1
    BY <1>1, <1>2
  <2>2. Depth(program, pc) # Depth(program, a) + 1
    BY <1>2, <1>3, <1>5, <2>1
  <2>3. Len(stack) = Depth(program, pc) /\ Len(stack) > Depth(program, a) /\ Len(stack) \in Nat
    BY <1>3, <1>4 DEF SlicedInv, TypeInv, Entered
  <2> QED
    BY <1>3, <2>2, <2>3
<1> QED
  BY <1>3, <1>4, <1>5

-----------------------------------------------------------------------------
LEMMA InitInv == Init => IInv
<1> SUFFICES ASSUME Init PROVE IInv
  OBVIOUS
<1>1. case \in Cases /\ Len(program) \in Nat
  BY ProgramFacts DEF Init
<1>2. Range(path) = {}
  BY DEF Init, Range
<1>3. TypeInv
  <2>1. IsFiniteSet(DOMAIN branchMap) /\ DOMAIN branchMap = {}
    BY FS_EmptySet DEF Init
  <2>2. branchMap \in [DOMAIN branchMap -> [execute : BOOLEAN, flip : BOOLEAN]]
    BY <2>1 DEF Init
  <2>3. stack \in Seq(BOOLEAN) /\ path \in Seq(Blocks(program))
    BY DEF Init
  <2>4. case \in Cases /\ sliceCount = 1 /\ pc = 1 /\ finished = FALSE
    BY DEF Init
  <2>5. pc \in 1 .. Len(program) + 1 /\ \A a \in Range(path) : a < pc
    BY <1>1, <1>2, <2>4
  <2>6. DOMAIN branchMap \subseteq Nat /\ sliceCount \in Nat \ {0}
    BY <2>1, <2>4
  <2>7. finished \in BOOLEAN
    BY <2>4, Zenon
  <2> QED
    BY <2>1, <2>2, <2>3, <2>4, <2>5, <2>6, <2>7, Zenon DEF TypeInv
<1>4. UnslicedInv
  <2>1. Blocks(program) \subseteq 1 .. Len(program)
    BY <1>1, ProgramFacts
  <2> QED
    BY <1>2, <2>1 DEF Init, UnslicedInv
<1>5. SlicedInv
  <2>1. Depth(program, 1) = 0
    BY DepthStep
  <2> QED
    BY <1>2, <2>1 DEF Init, SlicedInv, OneSide
<1> QED
  BY <1>3, <1>4, <1>5 DEF IInv

(* The program stays what it is.                                           *)
LEMMA SameProgram ==
  ASSUME case' = case
  PROVE  program' = program /\ sliceFreq' = sliceFreq
BY DEF program, sliceFreq

(* What a location is mapped to.                                           *)
LEMMA LookupFacts ==
  ASSUME TypeInv, NEW loc \in Nat
  PROVE  /\ Lookup(loc) \in [execute : BOOLEAN, flip : BOOLEAN]
         /\ Met(loc) \in [DOMAIN Met(loc) -> [execute : BOOLEAN, flip : BOOLEAN]]
         /\ DOMAIN Met(loc) \subseteq Nat /\ IsFiniteSet(DOMAIN Met(loc))
<1>1. \A l : Lookup(l) \in [execute : BOOLEAN, flip : BOOLEAN]
  BY DEF Lookup, TypeInv
<1>2. DOMAIN Met(loc) = DOMAIN branchMap \union {loc}
  BY DEF Met
<1>3. IsFiniteSet(DOMAIN branchMap \union {loc})
  <2>1. IsFiniteSet(DOMAIN branchMap)
    BY DEF TypeInv
  <2> QED
    BY <2>1, FS_AddElement
<1> QED
  BY <1>1, <1>2, <1>3 DEF Met, TypeInv

-----------------------------------------------------------------------------
LEMMA ThenPreserves == IInv /\ BeginThenBranch => IInv'
<1> SUFFICES ASSUME IInv, BeginThenBranch PROVE IInv'
  OBVIOUS
<1> DEFINE loc == Token.loc
           branch == Lookup(loc)
           execute == sliceFreq = 0 \/ branch.execute
<1>1. /\ TypeInv /\ UnslicedInv /\ SlicedInv
      /\ Nested(program) /\ sliceFreq \in Nat /\ Len(program) \in Nat
      /\ pc \in 1 .. Len(program) /\ program[pc].call = "then"
      /\ program' = program /\ sliceFreq' = sliceFreq
      /\ pc \in Blocks(program) /\ loc \in Nat
  <2>1. TypeInv /\ UnslicedInv /\ SlicedInv
    BY DEF IInv
  <2>2. Nested(program) /\ sliceFreq \in Nat /\ Len(program) \in Nat /\ DOMAIN program = 1 .. Len(program)
        /\ \A i \in DOMAIN program : program[i].call \in Call => program[i].loc \in Nat
    BY <2>1, ProgramFacts DEF TypeInv
  <2>3. pc \in 1 .. Len(program) /\ program[pc].call = "then"
    BY <2>1, <2>2 DEF BeginThenBranch, Calls, Token, TypeInv
  <2>4. program' = program /\ sliceFreq' = sliceFreq
    BY SameProgram DEF BeginThenBranch
  <2> QED
    BY <2>1, <2>2, <2>3, <2>4 DEF Blocks, Token, Call
<1>2. branch \in [execute : BOOLEAN, flip : BOOLEAN]
  BY <1>1, LookupFacts
<1>3. execute \in BOOLEAN /\ Enter(execute)
  <2> HIDE DEF branch
  <2>1. CASE sliceFreq = 0
    BY <2>1 DEF BeginThenBranch
  <2>2. CASE sliceFreq # 0
    BY <1>2, <2>2 DEF BeginThenBranch, branch
  <2> QED
    BY <2>1, <2>2
<1>4. /\ pc' \in pc + 1 .. Len(program) + 1
      /\ Depth(program, pc') = Depth(program, pc + 1)
      /\ execute => pc' = pc + 1
      /\ path' \in Seq(Blocks(program))
      /\ Range(path') = Range(path) \union (IF execute THEN {pc} ELSE {})
      /\ \A a \in Range(path') : a < pc'
  <2> HIDE DEF execute
  <2> QED BY <1>1, <1>3, EnterFacts
<1>5. Depth(program, pc) \in Int /\ Depth(program, pc + 1) = Depth(program, pc) + 1
  BY <1>1, DepthStep
<1>6. CASE sliceFreq = 0
  <2>1. UNCHANGED <<case, branchMap, sliceCount, stack, finished>>
    BY <1>6 DEF BeginThenBranch
  <2>2. TypeInv'
    BY <1>1, <1>4, <2>1 DEF TypeInv
  <2>3. Range(path') = { i \in Blocks(program) : i < pc' }
    <3>1. pc' = pc + 1 /\ Range(path') = Range(path) \union {pc}
      BY <1>4, <1>6
    <3>2. Range(path) = { i \in Blocks(program) : i < pc }
      BY <1>1, <1>6 DEF UnslicedInv
    <3>3. \A i \in Blocks(program) : i < pc + 1 <=> i < pc \/ i = pc
      BY <1>1, ProgramFacts DEF TypeInv
    <3> QED
      BY <1>1, <3>1, <3>2, <3>3
  <2>4. UnslicedInv'
    BY <1>1, <1>6, <2>1, <2>3 DEF UnslicedInv
  <2> QED
    BY <1>1, <1>6, <2>2, <2>4 DEF IInv, SlicedInv
<1>7. CASE sliceFreq # 0
  <2>1. /\ UNCHANGED <<case, sliceCount, finished>>
        /\ branchMap' = Met(loc)
        /\ stack' = Append(stack, branch.execute)
        /\ execute = branch.execute
    BY <1>2, <1>7 DEF BeginThenBranch
  <2>2. /\ stack' \in Seq(BOOLEAN) /\ Len(stack') = Len(stack) + 1
        /\ stack'[Len(stack) + 1] = execute
        /\ \A i \in 1 .. Len(stack) : stack'[i] = stack[i]
        /\ Len(stack) \in Nat
    BY <1>1, <1>2, <2>1, AppendFacts DEF TypeInv
  <2>3. TypeInv'
    <3>1. /\ branchMap' \in [DOMAIN branchMap' -> [execute : BOOLEAN, flip : BOOLEAN]]
          /\ DOMAIN branchMap' \subseteq Nat /\ IsFiniteSet(DOMAIN branchMap')
      BY <1>1, <2>1, LookupFacts
    <3> QED
      BY <1>1, <1>4, <2>1, <2>2, <3>1 DEF TypeInv
  <2>4. Len(stack') = Depth(program, pc') /\ Len(stack) = Depth(program, pc)
    BY <1>1, <1>4, <1>5, <1>7, <2>2 DEF SlicedInv
  <2>5. ASSUME NEW a \in Range(path'), program[a].call = "then", pc' <= Closing(program, a)
        PROVE  Entered(a)'
    <3>1. CASE a \in Range(path)
      <4>1. a \in Blocks(program) /\ a \in 1 .. Len(program) /\ pc \in Nat
        BY <1>1, <3>1, PathFacts
      <4>2. Closing(program, a) \in Nat /\ pc < Closing(program, a)
        BY <1>1, <1>4, <2>5, <4>1, ClosingFacts
      <4>3. Entered(a) /\ Depth(program, a) \in Int
        BY <1>1, <1>7, <2>5, <3>1, <4>2, Deeper
      <4>4. Depth(program, a) + 1 \in 1 .. Len(stack)
        BY <1>1, <4>3 DEF Entered, TypeInv
      <4> QED
        BY <1>1, <2>2, <4>3, <4>4 DEF Entered
    <3>2. CASE a = pc /\ execute
      BY <1>1, <1>5, <2>2, <2>4, <3>2 DEF Entered
    <3> QED
      BY <1>4, <3>1, <3>2
  <2>6. OneSide'
    <3> SUFFICES ASSUME NEW a \in Range(path'), NEW b \in Range(path')
                 PROVE  Closing(program, a) # b
      BY <1>1 DEF OneSide
    <3>1. CASE a \in Range(path) /\ b \in Range(path)
      BY <1>1, <1>7, <3>1 DEF SlicedInv, OneSide
    <3>2. CASE b = pc
      <4>1. a \in Blocks(program)
        BY <1>4 DEF Range
      <4>2. program[Closing(program, a)].call \in {"else", "end"}
        BY <1>1, <4>1, ClosingFacts
      <4> QED
        BY <1>1, <3>2, <4>2
    <3>3. CASE a = pc /\ execute
      <4>1. Closing(program, a) \in pc + 1 .. Len(program) /\ pc' = pc + 1
        BY <1>1, <1>4, <3>3, ClosingFacts
      <4>2. b < pc' /\ b \in Nat
        BY <1>1, <1>4, ProgramFacts DEF Range, TypeInv
      <4> QED
        BY <1>1, <4>1, <4>2
    <3> QED
      BY <1>4, <3>1, <3>2, <3>3
  <2> QED
    BY <1>1, <1>7, <2>3, <2>4, <2>5, <2>6 DEF IInv, SlicedInv, UnslicedInv
<1> QED
  BY <1>6, <1>7

LEMMA ElsePreserves == IInv /\ BeginElseBranch => IInv'
<1> SUFFICES ASSUME IInv, BeginElseBranch PROVE IInv'
  OBVIOUS
<1> DEFINE execute == sliceFreq = 0 \/ ~Last(stack)
<1>1. /\ TypeInv /\ UnslicedInv /\ SlicedInv
      /\ Nested(program) /\ sliceFreq \in Nat /\ Len(program) \in Nat
      /\ pc \in 1 .. Len(program) /\ program[pc].call = "else"
      /\ program' = program /\ sliceFreq' = sliceFreq
      /\ pc \in Blocks(program)
  <2>1. TypeInv /\ UnslicedInv /\ SlicedInv
    BY DEF IInv
  <2>2. Nested(program) /\ sliceFreq \in Nat /\ Len(program) \in Nat /\ DOMAIN program = 1 .. Len(program)
    BY <2>1, ProgramFacts DEF TypeInv
  <2>3. pc \in 1 .. Len(program) /\ program[pc].call = "else"
    BY <2>1, <2>2 DEF BeginElseBranch, Calls, Token, TypeInv
  <2>4. program' = program /\ sliceFreq' = sliceFreq
    BY SameProgram DEF BeginElseBranch
  <2> QED
    BY <2>1, <2>2, <2>3, <2>4 DEF Blocks
<1>2. UNCHANGED <<case, branchMap, sliceCount, stack, finished>>
  BY DEF BeginElseBranch
<1>3. execute \in BOOLEAN /\ Enter(execute)
  <2>1. Enter(execute)
    BY DEF BeginElseBranch
  <2>2. execute \in BOOLEAN
    OBVIOUS
  <2> QED
    BY <2>1, <2>2
<1>4. /\ pc' \in pc + 1 .. Len(program) + 1
      /\ Depth(program, pc') = Depth(program, pc + 1)
      /\ execute => pc' = pc + 1
      /\ path' \in Seq(Blocks(program))
      /\ Range(path') = Range(path) \union (IF execute THEN {pc} ELSE {})
      /\ \A a \in Range(path') : a < pc'
  <2> HIDE DEF execute
  <2> QED BY <1>1, <1>3, EnterFacts
<1>5. Depth(program, pc) \in Int /\ Depth(program, pc + 1) = Depth(program, pc)
  BY <1>1, DepthStep
<1>6. TypeInv'
  BY <1>1, <1>2, <1>4 DEF TypeInv
<1>7. CASE sliceFreq = 0
  <2>1. Range(path') = { i \in Blocks(program) : i < pc' }
    <3>1. pc' = pc + 1 /\ Range(path') = Range(path) \union {pc}
      BY <1>4, <1>7
    <3>2. Range(path) = { i \in Blocks(program) : i < pc }
      BY <1>1, <1>7 DEF UnslicedInv
    <3>3. \A i \in Blocks(program) : i < pc + 1 <=> i < pc \/ i = pc
      BY <1>1, ProgramFacts DEF TypeInv
    <3> QED
      BY <1>1, <3>1, <3>2, <3>3
  <2>2. UnslicedInv'
    BY <1>1, <1>2, <1>7, <2>1 DEF UnslicedInv
  <2> QED
    BY <1>1, <1>6, <1>7, <2>2 DEF IInv, SlicedInv
<1>8. CASE sliceFreq # 0
  <2>1. Len(stack) = Depth(program, pc) /\ Depth(program, pc) > 0 /\ stack # <<>>
    <3>1. Depth(program, pc) > 0
      BY <1>1, ProgramFacts DEF Nested, TypeInv
    <3> QED
      BY <1>1, <1>8, <3>1, EmptyFacts DEF SlicedInv, TypeInv
  <2>2. ASSUME NEW a \in Range(path'), program[a].call = "then", pc' <= Closing(program, a)
        PROVE  Entered(a)'
    <3>1. a \in Range(path)
      BY <1>1, <1>4, <2>2
    <3>2. a \in Blocks(program) /\ a \in 1 .. Len(program) /\ pc \in Nat
      BY <1>1, <3>1, PathFacts
    <3>3. Closing(program, a) \in Nat /\ pc < Closing(program, a)
      BY <1>1, <1>4, <2>2, <3>2, ClosingFacts
    <3>4. Entered(a)
      BY <1>1, <1>8, <2>2, <3>1, <3>3, Deeper
    <3> QED
      BY <1>1, <1>2, <3>4 DEF Entered
  <2>3. OneSide'
    <3> SUFFICES ASSUME NEW a \in Range(path'), NEW b \in Range(path')
                 PROVE  Closing(program, a) # b
      BY <1>1 DEF OneSide
    <3>1. CASE a \in Range(path) /\ b \in Range(path)
      BY <1>1, <1>8, <3>1 DEF SlicedInv, OneSide
    <3>2. CASE a \in Range(path) /\ b = pc /\ execute
      <4> SUFFICES ASSUME Closing(program, a) = pc PROVE FALSE
        BY <3>2
      <4>1. a \in Blocks(program) /\ a \in 1 .. Len(program) /\ pc \in Nat
        BY <1>1, <3>2, PathFacts
      <4>2. program[a].call = "then"
        <5>1. program[a].call # "else"
          BY <1>1, <4>1 DEF Nested
        <5> QED
          BY <4>1, <5>1 DEF Blocks
      <4>3. Depth(program, a) \in Int /\ Depth(program, pc) = Depth(program, a) + 1
        BY <1>1, <4>1, <4>2, ClosingFacts, DepthStep
      <4>4. Entered(a)
        BY <1>1, <1>8, <3>2, <4>1, <4>2 DEF SlicedInv
      <4>5. Last(stack) = TRUE
        BY <2>1, <4>3, <4>4 DEF Entered, Last
      <4> QED
        BY <1>8, <3>2, <4>5
    <3>3. CASE a = pc /\ execute
      <4>1. Closing(program, a) \in pc + 1 .. Len(program) /\ pc' = pc + 1
        BY <1>1, <1>4, <3>3, ClosingFacts
      <4>2. b < pc' /\ b \in Nat
        BY <1>1, <1>4, ProgramFacts DEF Range, TypeInv
      <4> QED
        BY <1>1, <4>1, <4>2
    <3> QED
      BY <1>4, <3>1, <3>2, <3>3
  <2>4. Len(stack') = Depth(program, pc')
    BY <1>2, <1>4, <1>5, <2>1
  <2> QED
    BY <1>1, <1>6, <1>8, <2>2, <2>3, <2>4 DEF IInv, SlicedInv, UnslicedInv
<1> QED
  BY <1>7, <1>8

(* What changes no path keeps what is known of it. *)
LEMMA SamePath ==
  ASSUME TypeInv, OneSide, path' = path, case' = case, sliceFreq # 0
  PROVE  OneSide'
BY SameProgram DEF OneSide

LEMMA EndPreserves == IInv /\ EndBranch => IInv'
<1> SUFFICES ASSUME IInv, EndBranch PROVE IInv'
  OBVIOUS
<1>1. /\ TypeInv /\ UnslicedInv /\ SlicedInv
      /\ Nested(program) /\ sliceFreq \in Nat /\ Len(program) \in Nat
      /\ pc \in 1 .. Len(program) /\ program[pc].call = "end"
      /\ program' = program /\ sliceFreq' = sliceFreq
      /\ DOMAIN program = 1 .. Len(program)
  <2>1. TypeInv /\ UnslicedInv /\ SlicedInv
    BY DEF IInv
  <2>2. Nested(program) /\ sliceFreq \in Nat /\ Len(program) \in Nat /\ DOMAIN program = 1 .. Len(program)
    BY <2>1, ProgramFacts DEF TypeInv
  <2>3. pc \in 1 .. Len(program) /\ program[pc].call = "end"
    BY <2>1, <2>2 DEF EndBranch, Calls, Token, TypeInv
  <2>4. program' = program /\ sliceFreq' = sliceFreq
    BY SameProgram DEF EndBranch
  <2> QED
    BY <2>1, <2>2, <2>3, <2>4
<1>2. /\ UNCHANGED <<case, branchMap, sliceCount, finished, path>> /\ pc' = pc + 1
      /\ stack' = IF sliceFreq > 0 THEN Front(stack) ELSE stack
  BY DEF EndBranch
<1>3. Depth(program, pc) \in Int /\ Depth(program, pc + 1) = Depth(program, pc) - 1 /\ Depth(program, pc) > 0
  BY <1>1, DepthStep DEF Nested
<1>4. pc' \in 1 .. Len(program') + 1 /\ \A a \in Range(path') : a < pc'
  <2>1. \A a \in Range(path) : a \in Nat /\ a < pc
    BY <1>1, PathFacts DEF TypeInv
  <2> QED
    BY <1>1, <1>2, <2>1
<1>5. stack' \in Seq(BOOLEAN)
  BY <1>1, <1>2, FrontInSeq DEF TypeInv
<1>6. TypeInv'
  BY <1>1, <1>2, <1>4, <1>5 DEF TypeInv
<1>7. CASE sliceFreq = 0
  <2>1. stack' = stack
    BY <1>2, <1>7
  <2>2. \A i \in Blocks(program) : i < pc + 1 <=> i < pc
    <3>1. pc \notin Blocks(program)
      BY <1>1 DEF Blocks
    <3>2. \A i \in Blocks(program) : i \in Nat
      BY <1>1, ProgramFacts DEF TypeInv
    <3> QED
      BY <1>1, <3>1, <3>2
  <2>3. UnslicedInv'
    BY <1>1, <1>2, <1>7, <2>1, <2>2 DEF UnslicedInv
  <2> QED
    BY <1>1, <1>6, <1>7, <2>3 DEF IInv, SlicedInv
<1>8. CASE sliceFreq # 0
  <2>1. Len(stack) = Depth(program, pc) /\ stack # <<>>
    BY <1>1, <1>3, <1>8, EmptyFacts DEF SlicedInv, TypeInv
  <2>2. /\ Len(stack') = Len(stack) - 1 /\ Len(stack) \in Nat
        /\ \A i \in 1 .. Len(stack) - 1 : stack'[i] = stack[i]
    <3>1. stack \in Seq(BOOLEAN)
      BY <1>1 DEF TypeInv
    <3>2. stack' = Front(stack)
      BY <1>1, <1>2, <1>8
    <3> QED
      BY <2>1, <3>1, <3>2, FrontFacts, EmptyFacts
  <2>3. ASSUME NEW a \in Range(path), program[a].call = "then", pc + 1 <= Closing(program, a)
        PROVE  Entered(a)'
    <3>1. a \in Blocks(program) /\ a \in 1 .. Len(program) /\ pc \in Nat
      BY <1>1, PathFacts
    <3>2. Closing(program, a) \in Nat /\ pc < Closing(program, a)
      BY <1>1, <2>3, <3>1, ClosingFacts
    <3>3. Entered(a) /\ Depth(program, a) \in Int /\ Len(stack) > Depth(program, a) + 1
      BY <1>1, <1>8, <2>3, <3>2, Deeper
    <3>4. Depth(program, a) + 1 \in 1 .. Len(stack) - 1
      BY <1>1, <2>2, <3>3 DEF Entered, TypeInv
    <3>5. DOMAIN stack' = 1 .. Len(stack) - 1
      BY <1>5, <2>2
    <3> QED
      BY <1>1, <2>2, <3>3, <3>4, <3>5 DEF Entered
  <2>4. OneSide'
    BY <1>1, <1>2, <1>8, SamePath DEF SlicedInv
  <2>5. Len(stack') = Depth(program, pc')
    BY <1>2, <1>3, <2>1, <2>2
  <2> QED
    BY <1>1, <1>2, <1>6, <1>8, <2>3, <2>4, <2>5 DEF IInv, SlicedInv, UnslicedInv
<1> QED
  BY <1>7, <1>8

LEMMA ProceedPreserves == IInv /\ Proceed => IInv'
<1> SUFFICES ASSUME IInv, Proceed PROVE IInv'
  OBVIOUS
<1>1. /\ TypeInv /\ UnslicedInv /\ SlicedInv
      /\ Nested(program) /\ sliceFreq \in Nat /\ Len(program) \in Nat
      /\ pc \in 1 .. Len(program) /\ program[pc].call \notin {"then", "else", "end"}
      /\ program' = program /\ sliceFreq' = sliceFreq
  <2>1. TypeInv /\ UnslicedInv /\ SlicedInv
    BY DEF IInv
  <2>2. Nested(program) /\ sliceFreq \in Nat /\ Len(program) \in Nat
    BY <2>1, ProgramFacts DEF TypeInv
  <2>3. pc \in 1 .. Len(program) /\ program[pc].call \notin {"then", "else", "end"}
    BY <2>1, <2>2 DEF Proceed, Call, Token, TypeInv
  <2>4. program' = program /\ sliceFreq' = sliceFreq
    BY SameProgram DEF Proceed
  <2> QED
    BY <2>1, <2>2, <2>3, <2>4
<1>2. UNCHANGED <<case, branchMap, sliceCount, stack, finished, path>> /\ pc' = pc + 1
  BY DEF Proceed
<1>3. Depth(program, pc) \in Int /\ Depth(program, pc + 1) = Depth(program, pc)
  BY <1>1, DepthStep
<1>4. pc' \in 1 .. Len(program') + 1 /\ \A a \in Range(path') : a < pc'
  <2>1. \A a \in Range(path) : a \in Nat /\ a < pc
    BY <1>1, PathFacts DEF TypeInv
  <2> QED
    BY <1>1, <1>2, <2>1
<1>5. TypeInv'
  BY <1>1, <1>2, <1>4 DEF TypeInv
<1>6. CASE sliceFreq = 0
  <2>1. \A i \in Blocks(program) : i < pc + 1 <=> i < pc
    <3>1. pc \notin Blocks(program)
      BY <1>1 DEF Blocks
    <3>2. \A i \in Blocks(program) : i \in Nat
      BY <1>1, ProgramFacts DEF TypeInv
    <3> QED
      BY <1>1, <3>1, <3>2
  <2>2. UnslicedInv'
    BY <1>1, <1>2, <1>6, <2>1 DEF UnslicedInv
  <2> QED
    BY <1>1, <1>5, <1>6, <2>2 DEF IInv, SlicedInv
<1>7. CASE sliceFreq # 0
  <2>1. ASSUME NEW a \in Range(path), program[a].call = "then", pc + 1 <= Closing(program, a)
        PROVE  Entered(a)'
    <3>1. a \in Blocks(program) /\ a \in 1 .. Len(program) /\ pc \in Nat
      BY <1>1, PathFacts
    <3>2. Closing(program, a) \in Nat /\ pc < Closing(program, a)
      BY <1>1, <2>1, <3>1, ClosingFacts
    <3> QED
      BY <1>1, <1>2, <1>7, <2>1, <3>2, Deeper DEF Entered
  <2>2. OneSide'
    BY <1>1, <1>2, <1>7, SamePath DEF SlicedInv
  <2>3. Len(stack') = Depth(program, pc')
    BY <1>1, <1>2, <1>3, <1>7 DEF SlicedInv
  <2> QED
    BY <1>1, <1>2, <1>5, <1>7, <2>1, <2>2, <2>3 DEF IInv, SlicedInv, UnslicedInv
<1> QED
  BY <1>6, <1>7

-----------------------------------------------------------------------------
(* next_slice() when there is a location to flip. *)
LEMMA FlippedFacts ==
  ASSUME TypeInv, Flippable # {}
  PROVE  /\ Highest \in Flippable /\ Highest \in DOMAIN branchMap
         /\ \A k \in DOMAIN branchMap : k > Highest => k \in Passed /\ branchMap[k].flip
<1>1. /\ Flippable \subseteq DOMAIN branchMap /\ DOMAIN branchMap \subseteq Nat
      /\ IsFiniteSet(DOMAIN branchMap)
  BY DEF Flippable, TypeInv
<1>2. Flippable \in SUBSET Nat /\ IsFiniteSet(Flippable)
  BY <1>1, FS_Subset
<1>3. Highest \in Flippable /\ \A k \in Flippable : k <= Highest
  <2>1. \E l \in Flippable : \A k \in Flippable : k <= l
    <3> HIDE DEF Flippable
    <3> QED BY <1>2, MaxExists
  <2> QED
    BY <2>1 DEF Highest
<1>4. ASSUME NEW k \in DOMAIN branchMap, k > Highest
      PROVE  k \in Passed /\ branchMap[k].flip
  <2>1. Highest \in Nat /\ k \in Nat
    BY <1>1, <1>3
  <2>2. k \in Passed
    BY <1>3, <1>4, <2>1 DEF Flippable
  <2> QED
    BY <2>1, <2>2 DEF Passed
<1> QED
  BY <1>1, <1>3, <1>4

LEMMA NextSlicePreserves == IInv /\ NextSlice => IInv'
<1> SUFFICES ASSUME IInv, NextSlice PROVE IInv'
  OBVIOUS
<1> DEFINE Entry == [execute : BOOLEAN, flip : BOOLEAN]
<1>1. /\ TypeInv /\ UnslicedInv /\ SlicedInv
      /\ Nested(program) /\ sliceFreq \in Nat /\ Len(program) \in Nat
      /\ pc = Len(program) + 1
      /\ program' = program /\ sliceFreq' = sliceFreq
      /\ Blocks(program) \subseteq 1 .. Len(program)
  <2>1. TypeInv /\ UnslicedInv /\ SlicedInv
    BY DEF IInv
  <2>2. /\ Nested(program) /\ sliceFreq \in Nat /\ Len(program) \in Nat
        /\ Blocks(program) \subseteq 1 .. Len(program)
    BY <2>1, ProgramFacts DEF TypeInv
  <2>3. pc = Len(program) + 1
    BY <2>1, <2>2 DEF NextSlice, TypeInv
  <2>4. program' = program /\ sliceFreq' = sliceFreq
    BY SameProgram DEF NextSlice
  <2> QED
    BY <2>1, <2>2, <2>3, <2>4
<1>2. /\ DOMAIN branchMap' = DOMAIN branchMap
      /\ branchMap' \in [DOMAIN branchMap' -> Entry]
  <2>1. branchMap' = [l \in DOMAIN branchMap |->
           IF l \in Passed THEN [execute |-> branchMap[l].execute, flip |-> FALSE]
           ELSE IF l = Highest THEN [execute |-> ~branchMap[l].execute, flip |-> TRUE]
           ELSE branchMap[l]]
    BY DEF NextSlice
  <2>2. \A l \in DOMAIN branchMap : branchMap[l] \in Entry
    BY <1>1 DEF TypeInv
  <2> QED
    BY <2>1, <2>2
<1>3. UNCHANGED <<case, stack>>
  BY DEF NextSlice
<1>4. CASE Flippable = {}
  <2>1. finished' = TRUE /\ UNCHANGED <<sliceCount, pc, path>>
    BY <1>4 DEF NextSlice
  <2>2. finished' \in BOOLEAN
    BY <2>1, Zenon
  <2>3. TypeInv'
    BY <1>1, <1>2, <1>3, <2>1, <2>2 DEF TypeInv
  <2>4. OneSide' \/ sliceFreq = 0
    BY <1>1, <1>3, <2>1, SamePath DEF SlicedInv
  <2>5. UnslicedInv'
    BY <1>1, <1>2, <1>3, <2>1 DEF UnslicedInv
  <2>6. SlicedInv'
    BY <1>1, <1>3, <2>1, <2>4 DEF SlicedInv, Entered
  <2> QED
    BY <2>3, <2>5, <2>6 DEF IInv
<1>5. CASE Flippable # {}
  <2>1. sliceCount' = sliceCount + 1 /\ pc' = 1 /\ path' = <<>> /\ finished' = finished
    BY <1>5 DEF NextSlice
  <2>2. Range(path') = {} /\ path' \in Seq(Blocks(program))
    BY <2>1 DEF Range
  <2>3. TypeInv'
    BY <1>1, <1>2, <1>3, <2>1, <2>2 DEF TypeInv
  <2>4. sliceFreq # 0
    BY <1>1, <1>5 DEF UnslicedInv, Flippable
  <2>5. stack' = <<>> /\ Depth(program, 1) = 0
    <3>1. Depth(program, pc) = 0
      BY <1>1 DEF Nested
    <3> QED
      BY <1>1, <1>3, <2>4, <3>1, EmptyFacts, DepthStep DEF SlicedInv, TypeInv
  <2>6. OneSide'
    BY <2>2 DEF OneSide
  <2>7. Len(stack') = Depth(program, pc')
    BY <2>1, <2>5
  <2> QED
    BY <1>1, <2>2, <2>3, <2>4, <2>6, <2>7 DEF IInv, UnslicedInv, SlicedInv
<1> QED
  BY <1>4, <1>5

LEMMA StepPreserves == IInv /\ [Next]_vars => IInv'
<1> SUFFICES ASSUME IInv, [Next]_vars PROVE IInv'
  OBVIOUS
<1>1. CASE BeginThenBranch
  BY <1>1, ThenPreserves
<1>2. CASE BeginElseBranch
  BY <1>2, ElsePreserves
<1>3. CASE EndBranch
  BY <1>3, EndPreserves
<1>4. CASE Proceed
  BY <1>4, ProceedPreserves
<1>5. CASE NextSlice
  BY <1>5, NextSlicePreserves
<1>6. CASE UNCHANGED vars
  <2>1. program' = program /\ sliceFreq' = sliceFreq
    BY <1>6, SameProgram DEF vars
  <2> QED
    BY <1>6, <2>1 DEF vars, IInv, TypeInv, UnslicedInv, SlicedInv, OneSide, Entered
<1> QED
  BY <1>1, <1>2, <1>3, <1>4, <1>5, <1>6 DEF Next

(* The invariant from which the other theorems follow: the answers of the  *)
(* slicer lie on its stack in the order of the branches that are open.     *)
THEOREM Inductive == Init /\ [][Next]_vars => []IInv
BY InitInv, StepPreserves, PTL

(* next_slice() flips one decision, and those above it have been flipped   *)
(* since a decision below them last changed: the loop counts through the   *)
(* decisions and repeats none.                                             *)
LEMMA FlipsOneStep ==
  ASSUME IInv, [Next]_vars, sliceCount' # sliceCount
  PROVE  \E l \in DOMAIN branchMap :
           /\ \A k \in DOMAIN branchMap :
                (branchMap'[k].execute # branchMap[k].execute) <=> k = l
           /\ \A k \in DOMAIN branchMap : k > l => branchMap[k].flip
<1>1. NextSlice
  BY DEF Next, vars, BeginThenBranch, BeginElseBranch, EndBranch, Proceed
<1>2. TypeInv /\ Flippable # {}
  BY <1>1 DEF NextSlice, IInv
<1>3. /\ Highest \in Flippable /\ Highest \in DOMAIN branchMap
      /\ \A k \in DOMAIN branchMap : k > Highest => branchMap[k].flip
  BY <1>2, FlippedFacts
<1>4. \A l \in DOMAIN branchMap : branchMap[l] \in [execute : BOOLEAN, flip : BOOLEAN]
  BY <1>2 DEF TypeInv
<1>5. ASSUME NEW k \in DOMAIN branchMap
      PROVE  (branchMap'[k].execute # branchMap[k].execute) <=> k = Highest
  <2>1. branchMap'[k] =
          IF k \in Passed THEN [execute |-> branchMap[k].execute, flip |-> FALSE]
          ELSE IF k = Highest THEN [execute |-> ~branchMap[k].execute, flip |-> TRUE]
          ELSE branchMap[k]
    BY <1>1 DEF NextSlice
  <2>2. CASE k \in Passed
    BY <1>3, <1>4, <2>1, <2>2 DEF Flippable
  <2>3. CASE k \notin Passed /\ k = Highest
    BY <1>2, <1>4, <2>1, <2>3
  <2>4. CASE k \notin Passed /\ k # Highest
    BY <2>1, <2>4
  <2> QED
    BY <2>2, <2>3, <2>4
<1> QED
  BY <1>3, <1>5

-----------------------------------------------------------------------------
(* Type correctness. *)
THEOREM TypeCorrect == Spec => []TypeOK
<1>1. IInv => TypeOK
  BY DEF IInv, TypeInv, TypeOK
<1>2. Spec => Init /\ [][Next]_vars
  BY PTL DEF Spec
<1> QED
  BY <1>1, <1>2, Inductive, PTL

(* Whatever blocks a slice skips, m_branch_execute_stack is empty when it  *)
(* ends: begin_then_branch and end_branch push and pop in pairs.           *)
THEOREM StackIsBalanced == Spec => []Balanced
<1>1. ASSUME IInv PROVE Balanced
  <2> SUFFICES ASSUME pc > Len(program) PROVE stack = <<>>
    BY DEF Balanced
  <2>1. TypeInv /\ UnslicedInv /\ SlicedInv /\ Len(program) \in Nat /\ Nested(program)
    BY <1>1, ProgramFacts DEF IInv, TypeInv
  <2>2. pc = Len(program) + 1
    BY <2>1 DEF TypeInv
  <2>3. Depth(program, pc) = 0
    BY <2>1, <2>2 DEF Nested
  <2> QED
    BY <2>1, <2>3, EmptyFacts DEF TypeInv, UnslicedInv, SlicedInv
<1>2. Spec => Init /\ [][Next]_vars
  BY PTL DEF Spec
<1> QED
  BY <1>1, <1>2, Inductive, PTL

(* begin_else_branch answers for its own branch: no slice enters both      *)
(* blocks of a branch.                                                     *)
THEOREM AnswersAreOneSided == Spec => []OneSide
<1>1. ASSUME IInv PROVE OneSide
  BY <1>1 DEF IInv, SlicedInv, OneSide
<1>2. Spec => Init /\ [][Next]_vars
  BY PTL DEF Spec
<1> QED
  BY <1>1, <1>2, Inductive, PTL

(* Without slicing there is one slice, and it enters every block.          *)
THEOREM UnslicedIsWhole == Spec => []NeverSliced
<1> DEFINE Ended == finished => pc > Len(program)
<1>1. Init => Ended
  BY DEF Init
<1>2. Ended /\ [Next]_vars => Ended'
  <2> SUFFICES ASSUME Ended, [Next]_vars PROVE Ended'
    OBVIOUS
  <2>1. CASE NextSlice
    <3>1. program' = program
      BY <2>1, SameProgram DEF NextSlice
    <3>2. pc > Len(program) /\ ~finished
      BY <2>1 DEF NextSlice
    <3>3. pc' = pc \/ finished' = finished
      BY <2>1 DEF NextSlice
    <3> QED
      BY <3>1, <3>2, <3>3
  <2>2. CASE UNCHANGED vars
    BY <2>2, SameProgram DEF vars
  <2>3. CASE BeginThenBranch \/ BeginElseBranch \/ EndBranch \/ Proceed
    BY <2>3 DEF BeginThenBranch, BeginElseBranch, EndBranch, Proceed, Calls
  <2> QED
    BY <2>1, <2>2, <2>3 DEF Next
<1>3. ASSUME IInv, Ended PROVE NeverSliced
  <2> SUFFICES ASSUME sliceFreq = 0
               PROVE  sliceCount = 1 /\ (finished => Range(path) = Blocks(program))
    BY DEF NeverSliced
  <2>1. /\ sliceCount = 1 /\ Range(path) = { i \in Blocks(program) : i < pc }
        /\ pc \in 1 .. Len(program) + 1 /\ Len(program) \in Nat
        /\ Blocks(program) \subseteq 1 .. Len(program)
    BY <1>3, ProgramFacts DEF IInv, UnslicedInv, TypeInv
  <2>2. finished => \A i \in Blocks(program) : i < pc
    BY <1>3, <2>1
  <2> QED
    BY <2>1, <2>2
<1>4. Spec => Init /\ [][Next]_vars
  BY PTL DEF Spec
<1> HIDE DEF Ended
<1> QED
  BY <1>1, <1>2, <1>3, <1>4, Inductive, PTL

(* Each slice but the first differs from the one before it in one          *)
(* decision, above which all have been flipped.                            *)
THEOREM OneFlip == Spec => FlipsOne
<1>1. ASSUME IInv, [Next]_vars
      PROVE  [sliceCount' # sliceCount =>
                \E l \in DOMAIN branchMap :
                  /\ \A k \in DOMAIN branchMap :
                       (branchMap'[k].execute # branchMap[k].execute) <=> k = l
                  /\ \A k \in DOMAIN branchMap : k > l => branchMap[k].flip]_vars
  BY <1>1, FlipsOneStep
<1>2. Spec => Init /\ [][Next]_vars
  BY PTL DEF Spec
<1> QED
  BY <1>1, <1>2, Inductive, PTL DEF FlipsOne

-----------------------------------------------------------------------------
(* next_slice() counts: the flipped locations are the digits of a number,  *)
(* the smallest location being the most significant.  Before(L, t) are the *)
(* numbers up to t.                                                        *)
Precedes(s, t) == \E l \in t : l \notin s /\ \A k \in Nat : k < l => (k \in s <=> k \in t)

Before(L, t) == { s \in SUBSET L : s = t \/ Precedes(s, t) }

(* Numbers are ordered by their most significant difference.              *)
LEMMA PrecedesTransitive ==
  ASSUME NEW s \in SUBSET Nat, NEW t \in SUBSET Nat, NEW u \in SUBSET Nat, Precedes(s, t), Precedes(t, u)
  PROVE  Precedes(s, u)
<1>1. PICK l \in t : l \notin s /\ \A k \in Nat : k < l => (k \in s <=> k \in t)
  BY DEF Precedes
<1>2. PICK m \in u : m \notin t /\ \A k \in Nat : k < m => (k \in t <=> k \in u)
  BY DEF Precedes
<1>3. l \in Nat /\ m \in Nat /\ l # m
  BY <1>1, <1>2
<1>4. CASE l < m
  <2>1. l \in u /\ l \notin s /\ \A k \in Nat : k < l => (k \in s <=> k \in u)
    BY <1>1, <1>2, <1>3, <1>4
  <2> QED
    BY <2>1 DEF Precedes
<1>5. CASE m < l
  <2>1. m \notin s /\ \A k \in Nat : k < m => (k \in s <=> k \in u)
    BY <1>1, <1>2, <1>3, <1>5
  <2> QED
    BY <2>1 DEF Precedes
<1> QED
  BY <1>3, <1>4, <1>5

(* A greater number has more numbers up to it.                             *)
LEMMA BeforeGrows ==
  ASSUME NEW L \in SUBSET Nat, IsFiniteSet(L), NEW s \in SUBSET L, NEW t \in SUBSET L, Precedes(s, t)
  PROVE  Cardinality(Before(L, s)) + 1 <= Cardinality(Before(L, t))
<1> DEFINE A == Before(L, s)
           B == Before(L, t)
<1>1. IsFiniteSet(SUBSET L)
  BY FS_SUBSET
<1>2. A \in SUBSET SUBSET L /\ B \in SUBSET SUBSET L
  BY DEF Before
<1>3. IsFiniteSet(A) /\ IsFiniteSet(B)
  BY <1>1, <1>2, FS_Subset
<1>4. t \notin A
  <2> SUFFICES ASSUME t = s \/ Precedes(t, s) PROVE FALSE
    BY DEF Before
  <2>1. Precedes(s, s)
    BY PrecedesTransitive
  <2> QED
    BY <2>1 DEF Precedes
<1>5. A \union {t} \subseteq B
  <2>1. t \in B
    BY DEF Before
  <2>2. ASSUME NEW r \in A PROVE r \in B
    <3>1. r \in SUBSET L /\ (r = s \/ Precedes(r, s))
      BY <2>2 DEF Before
    <3>2. Precedes(r, t)
      BY <3>1, PrecedesTransitive
    <3> QED
      BY <3>1, <3>2 DEF Before
  <2> QED
    BY <2>1, <2>2
<1> HIDE DEF A, B
<1>6. IsFiniteSet(A \union {t}) /\ Cardinality(A \union {t}) = Cardinality(A) + 1
  BY <1>3, <1>4, FS_AddElement
<1>7. Cardinality(A \union {t}) <= Cardinality(B)
  BY <1>3, <1>5, FS_Subset
<1> QED
  BY <1>6, <1>7 DEF A, B

Flipped == { l \in DOMAIN branchMap : branchMap[l].flip }

CountInv ==
  /\ DOMAIN branchMap \subseteq Locations
  /\ sliceCount <= Cardinality(SUBSET Locations)
  /\ ~finished => sliceCount <= Cardinality(Before(Locations, Flipped))

(* There are no more numbers up to one than sets of locations.             *)
LEMMA BeforeFacts ==
  ASSUME NEW L, IsFiniteSet(L), NEW t
  PROVE  /\ IsFiniteSet(Before(L, t)) /\ Cardinality(Before(L, t)) \in Nat
         /\ Cardinality(SUBSET L) \in Nat /\ Cardinality(Before(L, t)) <= Cardinality(SUBSET L)
<1>1. Before(L, t) \in SUBSET SUBSET L
  BY DEF Before
<1>2. IsFiniteSet(SUBSET L)
  BY FS_SUBSET
<1>3. IsFiniteSet(Before(L, t)) /\ Cardinality(Before(L, t)) <= Cardinality(SUBSET L)
  BY <1>1, <1>2, FS_Subset
<1> QED
  BY <1>2, <1>3, FS_CardinalityType

(* A program has finitely many locations.                                  *)
LEMMA LocationFacts ==
  ASSUME case \in Cases
  PROVE  IsFiniteSet(Locations) /\ Locations \in SUBSET Nat
<1>1. /\ Blocks(program) \subseteq 1 .. Len(program) /\ Len(program) \in Nat
      /\ DOMAIN program = 1 .. Len(program)
      /\ \A i \in DOMAIN program : program[i].call \in Call => program[i].loc \in Nat
  BY ProgramFacts
<1>2. IsFiniteSet(1 .. Len(program))
  BY <1>1, FS_Interval
<1>3. IsFiniteSet(Blocks(program))
  BY <1>1, <1>2, FS_Subset
<1> DEFINE f == [i \in Blocks(program) |-> program[i].loc]
<1>4. IsFiniteSet(Locations)
  <2>1. f \in Surjection(Blocks(program), Locations)
    BY DEF Locations, Surjection
  <2> QED
    BY <1>3, <2>1, FS_Surjection
<1>5. \A i \in Blocks(program) : program[i].loc \in Nat
  BY <1>1 DEF Blocks, Call
<1> QED
  BY <1>4, <1>5 DEF Locations

(* The first slice is the smallest number.                                 *)
LEMMA CountStarts == Init => CountInv
<1> SUFFICES ASSUME Init PROVE CountInv
  OBVIOUS
<1>1. case \in Cases /\ branchMap = <<>> /\ sliceCount = 1
  BY DEF Init
<1>2. DOMAIN branchMap = {} /\ Flipped = {}
  BY <1>1 DEF Flipped
<1>3. IsFiniteSet(Locations) /\ Locations \in SUBSET Nat
  BY <1>1, LocationFacts
<1> DEFINE B == Before(Locations, Flipped)
<1>4. B \in SUBSET SUBSET Locations /\ {} \in B
  BY <1>2 DEF Before
<1>5. /\ IsFiniteSet(B) /\ Cardinality(B) \in Nat /\ Cardinality(SUBSET Locations) \in Nat
      /\ Cardinality(B) <= Cardinality(SUBSET Locations)
  BY <1>3, BeforeFacts
<1> HIDE DEF B
<1>6. Cardinality(B) # 0
  BY <1>4, <1>5, FS_EmptySet
<1>7. 1 <= Cardinality(B) /\ 1 <= Cardinality(SUBSET Locations)
  BY <1>5, <1>6
<1> QED
  BY <1>1, <1>2, <1>7 DEF CountInv, B

(* next_slice() moves on to a greater number.                              *)
LEMMA NextSliceCounts ==
  ASSUME IInv, NextSlice, Flippable # {}
  PROVE  /\ Precedes(Flipped, Flipped')
         /\ DOMAIN branchMap' = DOMAIN branchMap
<1>1. TypeInv
  BY DEF IInv
<1>2. /\ Highest \in Flippable /\ Highest \in DOMAIN branchMap
      /\ \A k \in DOMAIN branchMap : k > Highest => k \in Passed /\ branchMap[k].flip
  BY <1>1, FlippedFacts
<1>3. branchMap' = [l \in DOMAIN branchMap |->
           IF l \in Passed THEN [execute |-> branchMap[l].execute, flip |-> FALSE]
           ELSE IF l = Highest THEN [execute |-> ~branchMap[l].execute, flip |-> TRUE]
           ELSE branchMap[l]]
  BY DEF NextSlice
<1>4. DOMAIN branchMap' = DOMAIN branchMap /\ DOMAIN branchMap \subseteq Nat
  BY <1>1, <1>3 DEF TypeInv
<1>5. \A l \in DOMAIN branchMap : branchMap[l].flip \in BOOLEAN
  BY <1>1 DEF TypeInv
<1>6. Highest \notin Passed
  BY <1>2 DEF Flippable
<1>7. PICK m \in DOMAIN branchMap : m >= Highest /\ ~branchMap[m].flip
  BY <1>2, <1>6 DEF Passed
<1>8. m = Highest
  BY <1>2, <1>4, <1>7
<1>9. branchMap'[Highest].flip
  BY <1>2, <1>3, <1>6
<1>10. ASSUME NEW k \in DOMAIN branchMap, k < Highest
       PROVE  branchMap'[k] = branchMap[k]
  <2>1. k \notin Passed
    BY <1>2, <1>4, <1>7, <1>8, <1>10 DEF Passed
  <2>2. k # Highest
    BY <1>2, <1>4, <1>10
  <2> QED
    BY <1>3, <2>1, <2>2
<1>11. Highest \in Flipped' /\ Highest \notin Flipped
  BY <1>2, <1>4, <1>7, <1>8, <1>9 DEF Flipped
<1>12. \A k \in Nat : k < Highest => (k \in Flipped <=> k \in Flipped')
  BY <1>4, <1>10 DEF Flipped
<1> QED
  BY <1>4, <1>11, <1>12 DEF Precedes

(* No step makes more slices than there are numbers.                       *)
LEMMA CountPreserves == IInv /\ CountInv /\ [Next]_vars => CountInv'
<1> SUFFICES ASSUME IInv, CountInv, [Next]_vars PROVE CountInv'
  OBVIOUS
<1>1. TypeInv /\ case \in Cases /\ DOMAIN branchMap \subseteq Nat
  BY DEF IInv, TypeInv
<1>2. case' = case /\ Locations' = Locations
  BY DEF Next, vars, BeginThenBranch, BeginElseBranch, EndBranch, Proceed, NextSlice, Locations, program
<1>3. IsFiniteSet(Locations) /\ Locations \in SUBSET Nat
  BY <1>1, LocationFacts
<1>4. /\ DOMAIN branchMap \subseteq Locations /\ sliceCount <= Cardinality(SUBSET Locations)
      /\ ~finished => sliceCount <= Cardinality(Before(Locations, Flipped))
  BY DEF CountInv
<1>5. CASE UNCHANGED <<branchMap, sliceCount, finished>>
  BY <1>2, <1>4, <1>5 DEF CountInv, Flipped
<1>6. CASE BeginThenBranch /\ branchMap' = Met(Token.loc)
  <2> DEFINE loc == Token.loc
  <2>1. sliceCount' = sliceCount /\ finished' = finished
    BY <1>6 DEF BeginThenBranch
  <2>2. pc \in Blocks(program)
    <3>1. pc \in DOMAIN program /\ program[pc].call = "then"
      BY <1>1, <1>6, ProgramFacts DEF BeginThenBranch, Calls, Token, TypeInv
    <3> QED
      BY <3>1 DEF Blocks
  <2>3. loc \in Locations
    BY <2>2 DEF Locations, Token
  <2> HIDE DEF loc
  <2>4. branchMap' = Met(loc)
    BY <1>6 DEF loc
  <2>5. /\ DOMAIN branchMap' = DOMAIN branchMap \union {loc}
        /\ \A l \in DOMAIN branchMap : branchMap'[l] = branchMap[l]
        /\ loc \notin DOMAIN branchMap => ~branchMap'[loc].flip
    BY <2>4 DEF Met, Lookup
  <2>6. Flipped' = Flipped
    BY <2>5 DEF Flipped
  <2> QED
    BY <1>2, <1>4, <2>1, <2>3, <2>5, <2>6 DEF CountInv
<1>7. CASE NextSlice /\ Flippable = {}
  <2>1. sliceCount' = sliceCount /\ DOMAIN branchMap' = DOMAIN branchMap /\ finished'
    BY <1>7 DEF NextSlice
  <2> QED
    BY <1>2, <1>4, <2>1 DEF CountInv
<1>8. CASE NextSlice /\ Flippable # {}
  <2>1. Precedes(Flipped, Flipped') /\ DOMAIN branchMap' = DOMAIN branchMap
    BY <1>8, NextSliceCounts
  <2>2. sliceCount' = sliceCount + 1 /\ sliceCount \in Nat /\ ~finished
    BY <1>1, <1>8 DEF NextSlice, TypeInv
  <2>3. Flipped \in SUBSET Locations /\ Flipped' \in SUBSET Locations
    BY <1>4, <2>1 DEF Flipped
  <2> DEFINE s == Flipped
             t == Flipped'
             L == Locations
  <2>4. /\ L \in SUBSET Nat /\ IsFiniteSet(L) /\ s \in SUBSET L /\ t \in SUBSET L /\ Precedes(s, t)
        /\ sliceCount <= Cardinality(Before(L, s))
    BY <1>3, <1>4, <2>1, <2>2, <2>3
  <2> HIDE DEF s, t, L
  <2>5. Cardinality(Before(L, s)) + 1 <= Cardinality(Before(L, t))
    BY <2>4, BeforeGrows
  <2>6. Cardinality(Before(L, s)) \in Nat
    BY <2>4, BeforeFacts
  <2>7. /\ Cardinality(Before(L, t)) \in Nat /\ Cardinality(SUBSET L) \in Nat
        /\ Cardinality(Before(L, t)) <= Cardinality(SUBSET L)
    BY <2>4, BeforeFacts
  <2>8. sliceCount' <= Cardinality(Before(L, t)) /\ sliceCount' <= Cardinality(SUBSET L)
    BY <2>2, <2>4, <2>5, <2>6, <2>7
  <2>9. Before(L, t) = Before(Locations, Flipped)'
    BY <1>2 DEF L, t, Before, Precedes
  <2> QED
    BY <1>2, <1>4, <2>1, <2>8, <2>9 DEF CountInv, L
<1> QED
  BY <1>5, <1>6, <1>7, <1>8 DEF Next, vars, BeginThenBranch, BeginElseBranch, EndBranch, Proceed

(* next_slice() counts through the choices of sides and repeats none: a    *)
(* loop over a program of n locations makes at most 2^n slices.            *)
THEOREM SlicesAreBounded == Spec => []CountBound
<1>1. ASSUME IInv, CountInv PROVE CountBound
  <2>1. IsFiniteSet(Locations)
    BY <1>1, LocationFacts DEF IInv, TypeInv
  <2>2. sliceCount <= Cardinality(SUBSET Locations)
    BY <1>1 DEF CountInv
  <2>3. Cardinality(SUBSET Locations) = 2 ^ Cardinality(Locations)
    BY <2>1, FS_SUBSET
  <2> QED
    BY <2>2, <2>3 DEF CountBound
<1>2. Spec => Init /\ [][Next]_vars
  BY PTL DEF Spec
<1>3. Spec => []IInv
  BY <1>2, Inductive, PTL
<1> QED
  BY <1>1, <1>2, <1>3, CountStarts, CountPreserves, PTL

-----------------------------------------------------------------------------
(* Where the depth falls below d an "end" at depth d comes first.          *)
LEMMA Descent ==
  ASSUME NEW p, NEW a \in Nat \ {0}, NEW b \in Nat, a <= b, NEW d \in Int, Depth(p, a) >= d, Depth(p, b) < d
  PROVE  \E k \in a .. b - 1 : p[k].call = "end" /\ Depth(p, k) = d
<1> DEFINE T == { m \in a .. b : Depth(p, m) < d }
<1>1. T \in SUBSET Nat /\ b \in T
  OBVIOUS
<1>2. PICK m \in T : \A y \in T : m <= y
  <2> HIDE DEF T
  <2> QED BY <1>1, LeastNat
<1>3. m \in a .. b /\ Depth(p, m) < d /\ m # a
  <2>1. Depth(p, a) \in Int
    BY DepthStep
  <2> QED
    BY <1>2, <2>1
<1> DEFINE k == m - 1
<1>4. k \in Nat \ {0} /\ k \in a .. b - 1 /\ k + 1 = m /\ k < m /\ k \in a .. b
  BY <1>3
<1>5. Depth(p, k) \in Int /\ Depth(p, k) >= d
  <2>1. Depth(p, k) \in Int
    BY <1>4, DepthStep
  <2>2. k \notin T
    BY <1>2, <1>3, <1>4
  <2> QED
    BY <1>4, <2>1, <2>2
<1> HIDE DEF k
<1>6. /\ p[k].call = "then" => Depth(p, m) = Depth(p, k) + 1
      /\ p[k].call = "end" => Depth(p, m) = Depth(p, k) - 1
      /\ p[k].call \notin {"then", "end"} => Depth(p, m) = Depth(p, k)
  BY <1>4, DepthStep
<1>7. p[k].call = "end" /\ Depth(p, k) = d
  BY <1>3, <1>5, <1>6
<1> QED
  BY <1>4, <1>7

(* Inside a block the depth is at least that of the block.                 *)
LEMMA DepthInside ==
  ASSUME NEW p, Nested(p), NEW i \in Blocks(p), NEW j \in i + 1 .. Closing(p, i)
  PROVE  Depth(p, j) >= Depth(p, i + 1)
<1> DEFINE d == Depth(p, i + 1)
           c == Closing(p, i)
<1>1. /\ i \in 1 .. Len(p) /\ Len(p) \in Nat /\ c \in i + 1 .. Len(p)
      /\ \A k \in i + 1 .. c - 1 : p[k].call \in {"else", "end"} => Depth(p, k) # d
  BY ClosingFacts
<1>2. i + 1 \in Nat \ {0} /\ j \in Nat \ {0} /\ i + 1 <= j
  BY <1>1
<1>3. d \in Int /\ Depth(p, j) \in Int
  BY <1>2, DepthStep
<1> HIDE DEF d, c
<1>4. SUFFICES ASSUME Depth(p, j) < d PROVE FALSE
  BY <1>3 DEF d
<1>5. Depth(p, i + 1) >= d
  BY <1>3 DEF d
<1>6. PICK k \in i + 1 .. j - 1 : p[k].call = "end" /\ Depth(p, k) = d
  BY <1>2, <1>3, <1>4, <1>5, Descent
<1>7. k \in i + 1 .. c - 1
  BY <1>1, <1>2, <1>6 DEF c
<1> QED
  BY <1>1, <1>6, <1>7

(* A branch inside a block ends there.                                     *)
LEMMA NestedInside ==
  ASSUME NEW p, Nested(p), NEW i \in Blocks(p), NEW j \in i + 1 .. Closing(p, i) - 1, p[j].call = "then"
  PROVE  j \in Blocks(p) /\ Closing(p, j) < Closing(p, i)
<1> DEFINE c == Closing(p, i)
           d == Depth(p, j + 1)
<1>1. i \in 1 .. Len(p) /\ Len(p) \in Nat /\ c \in i + 1 .. Len(p) /\ Depth(p, c) = Depth(p, i + 1)
  BY ClosingFacts
<1>2. j \in 1 .. Len(p) /\ j \in Nat \ {0} /\ j + 1 \in Nat \ {0} /\ j + 1 <= c /\ c \in Nat
  BY <1>1
<1>3. j \in Blocks(p)
  BY <1>2 DEF Blocks, Nested
<1>4. d = Depth(p, j) + 1 /\ Depth(p, j) \in Int
  BY <1>2, DepthStep
<1>5. Depth(p, j) >= Depth(p, i + 1)
  <2>1. j \in i + 1 .. Closing(p, i)
    BY <1>1
  <2> QED
    BY <2>1, DepthInside
<1>6. Depth(p, i + 1) \in Int
  BY <1>1, DepthStep
<1>7. Depth(p, c) < d /\ d \in Int
  BY <1>1, <1>4, <1>5, <1>6
<1>8. Depth(p, j + 1) >= d
  BY <1>7
<1> HIDE DEF c, d
<1>9. PICK k \in j + 1 .. c - 1 : p[k].call = "end" /\ Depth(p, k) = d
  BY <1>2, <1>7, <1>8, Descent
<1>10. /\ Closing(p, j) \in j + 1 .. Len(p)
       /\ \A m \in j + 1 .. Closing(p, j) - 1 : p[m].call \in {"else", "end"} => Depth(p, m) # Depth(p, j + 1)
  BY <1>3, ClosingFacts
<1>11. ~(k \in j + 1 .. Closing(p, j) - 1)
  BY <1>9, <1>10 DEF d
<1>12. Closing(p, j) < c
  BY <1>1, <1>2, <1>9, <1>10, <1>11
<1> QED
  BY <1>3, <1>12 DEF c

(* An "else" closes a "then" block.                                        *)
LEMMA ElseCloses ==
  ASSUME NEW p, Nested(p), NEW j \in DOMAIN p, p[j].call = "else"
  PROVE  \E i \in Blocks(p) : p[i].call = "then" /\ Closing(p, i) = j
<1> DEFINE n == Len(p)
           d == Depth(p, j)
<1>1. /\ p \in Seq(Range(p)) /\ d > 0
      /\ \A i \in Blocks(p) : p[i].call = "else" => p[Closing(p, i)].call = "end"
  BY DEF Nested
<1>2. n \in Nat /\ DOMAIN p = 1 .. n /\ j \in 1 .. n /\ j \in Nat \ {0}
  BY <1>1
<1>3. d \in Int /\ Depth(p, 1) = 0
  BY <1>2, DepthStep
<1> HIDE DEF n, d
<1>4. ASSUME NEW m \in 1 .. n PROVE Depth(p, m) \in Int
  BY DepthStep
(* The last token before j at a smaller depth.                             *)
<1> DEFINE T == { m \in 1 .. n : m < j /\ Depth(p, m) < d }
<1>5. PICK i \in T : \A m \in T : m <= i
  <2>1. 1 \in T
    <3>1. j # 1
      BY <1>1, <1>3 DEF d
    <3> QED
      BY <1>1, <1>2, <1>3, <3>1
  <2>2. T \in SUBSET (1 .. n) /\ IsFiniteSet(1 .. n)
    BY <1>2, FS_Interval
  <2>3. T \in SUBSET Nat
    BY <2>2
  <2> HIDE DEF T
  <2>4. IsFiniteSet(T)
    BY <2>2, FS_Subset
  <2> QED
    BY <2>1, <2>3, <2>4, MaxExists
<1>6. i \in 1 .. n /\ i < j /\ Depth(p, i) < d /\ i \in Nat \ {0} /\ i + 1 \in 1 .. n /\ i + 1 <= j
  BY <1>2, <1>5
<1>7. ASSUME NEW m \in i + 1 .. j PROVE Depth(p, m) >= d
  <2>1. CASE m = j
    BY <1>3, <2>1 DEF d
  <2>2. CASE m # j
    <3>1. m \in 1 .. n /\ m < j /\ ~(m <= i)
      BY <1>2, <1>6, <2>2
    <3>2. m \notin T
      BY <1>5, <3>1
    <3>3. Depth(p, m) \in Int
      BY <1>4, <3>1
    <3> QED
      BY <1>3, <3>1, <3>2, <3>3
  <2> QED
    BY <2>1, <2>2
<1> HIDE DEF T
<1>8. Depth(p, i + 1) >= d /\ Depth(p, i) \in Int
  BY <1>4, <1>6, <1>7
<1>9. p[i].call = "then" /\ Depth(p, i + 1) = d
  <2>1. /\ p[i].call = "then" => Depth(p, i + 1) = Depth(p, i) + 1
        /\ p[i].call = "end" => Depth(p, i + 1) = Depth(p, i) - 1
        /\ p[i].call \notin {"then", "end"} => Depth(p, i + 1) = Depth(p, i)
    BY <1>6, DepthStep
  <2> QED
    BY <1>3, <1>6, <1>8, <2>1
<1>10. i \in Blocks(p)
  BY <1>2, <1>6, <1>9 DEF Blocks
<1> DEFINE c == Closing(p, i)
<1>11. /\ c \in i + 1 .. n /\ p[c].call \in {"else", "end"} /\ Depth(p, c) = d
       /\ \A m \in i + 1 .. c - 1 : p[m].call \in {"else", "end"} => Depth(p, m) # d
  BY <1>9, <1>10, ClosingFacts DEF n
<1> HIDE DEF c
<1>12. c <= j
  <2>1. j \notin i + 1 .. c - 1
    BY <1>11 DEF d
  <2> QED
    BY <1>2, <1>6, <1>11, <2>1
(* A block of the branch that ends before j would end the branch.          *)
<1>13. ASSUME NEW m \in i + 1 .. j - 1, Depth(p, m) = d PROVE p[m].call # "end"
  <2>1. m \in Nat \ {0} /\ m + 1 \in i + 1 .. j
    BY <1>2, <1>6
  <2>2. Depth(p, m + 1) >= d
    BY <1>7, <2>1
  <2>3. p[m].call = "end" => Depth(p, m + 1) = Depth(p, m) - 1
    BY <2>1, DepthStep
  <2> QED
    BY <1>3, <1>13, <2>2, <2>3
<1>14. CASE c < j
  <2>1. c \in i + 1 .. j - 1 /\ c \in 1 .. n /\ c \in Nat \ {0}
    BY <1>2, <1>6, <1>11, <1>14
  <2>2. p[c].call = "else" /\ c \in Blocks(p)
    BY <1>2, <1>11, <1>13, <2>1 DEF Blocks
  <2>3. Depth(p, c + 1) = d
    BY <1>11, <2>1, <2>2, DepthStep
  <2> DEFINE e == Closing(p, c)
  <2>4. /\ e \in c + 1 .. n /\ Depth(p, e) = d
        /\ \A m \in c + 1 .. e - 1 : p[m].call \in {"else", "end"} => Depth(p, m) # d
    BY <2>2, <2>3, ClosingFacts DEF n
  <2>5. p[e].call = "end"
    BY <1>1, <2>2
  <2> HIDE DEF e
  <2>6. j \notin c + 1 .. e - 1
    BY <2>4 DEF d
  <2>7. e <= j
    BY <1>2, <1>14, <2>1, <2>4, <2>6
  <2>8. e # j
    BY <2>5
  <2>9. e \in i + 1 .. j - 1
    BY <1>2, <1>6, <2>1, <2>4, <2>7, <2>8
  <2> QED
    BY <1>13, <2>4, <2>5, <2>9
<1> QED
  BY <1>2, <1>9, <1>10, <1>11, <1>12, <1>14 DEF c

-----------------------------------------------------------------------------
(* The path that a program takes from token i on when A says which of the  *)
(* "then" blocks are entered, by their locations.                          *)
Decisions == [Nat -> BOOLEAN]

Walked(p, A, f, i) ==
  IF i > Len(p) THEN <<>>
  ELSE CASE p[i].call = "then" ->
              (IF A[p[i].loc] THEN <<i>> \o f[i + 1]
               ELSE IF p[Closing(p, i)].call = "else" THEN <<Closing(p, i)>> \o f[Closing(p, i) + 1]
               ELSE f[Closing(p, i)])
         [] p[i].call = "else" -> f[Closing(p, i)]
         [] OTHER              -> f[i + 1]

PathOf(p, A) == CHOOSE f : f = [i \in 1 .. Len(p) + 1 |-> Walked(p, A, f, i)]

(* Where the calls of a program lead.                                      *)
LEMMA TokenFacts ==
  ASSUME NEW p, Nested(p), NEW i \in 1 .. Len(p) + 1
  PROVE  /\ Len(p) \in Nat /\ DOMAIN p = 1 .. Len(p) /\ i \in Nat \ {0}
         /\ \/ i = Len(p) + 1 /\ i > Len(p)
            \/ /\ ~(i > Len(p)) /\ i \in DOMAIN p /\ i + 1 \in i + 1 .. Len(p) + 1
               /\ p[i].call \in {"then", "else"} =>
                    /\ i \in Blocks(p)
                    /\ Closing(p, i) \in i + 1 .. Len(p) /\ Closing(p, i) \in i + 1 .. Len(p) + 1
                    /\ Closing(p, i) + 1 \in i + 1 .. Len(p) + 1
<1>1. Len(p) \in Nat /\ DOMAIN p = 1 .. Len(p)
  BY DEF Nested
<1>2. CASE i = Len(p) + 1
  BY <1>1, <1>2
<1>3. CASE i # Len(p) + 1
  <2>1. i \in 1 .. Len(p) /\ ~(i > Len(p)) /\ i \in Nat \ {0} /\ i + 1 \in i + 1 .. Len(p) + 1
    BY <1>1, <1>3
  <2>2. ASSUME p[i].call \in {"then", "else"}
        PROVE  /\ i \in Blocks(p)
               /\ Closing(p, i) \in i + 1 .. Len(p)
    <3>1. i \in Blocks(p)
      BY <1>1, <2>1, <2>2 DEF Blocks
    <3> QED
      BY <3>1, ClosingFacts
  <2>3. ASSUME Closing(p, i) \in i + 1 .. Len(p)
        PROVE  Closing(p, i) \in i + 1 .. Len(p) + 1 /\ Closing(p, i) + 1 \in i + 1 .. Len(p) + 1
    BY <1>1, <2>1, <2>3
  <2> QED
    BY <1>1, <2>1, <2>2, <2>3
<1> QED
  BY <1>2, <1>3

(* What is walked from a token depends on what is walked after it.         *)
SameAfter(p, f, g, i) == \A j \in i + 1 .. Len(p) + 1 : f[j] = g[j]

(* Decisions that are the same give the same walk.                         *)
LEMMA WalkedDepends ==
  ASSUME NEW p, Nested(p), NEW A, NEW B, NEW f, NEW g, NEW i \in 1 .. Len(p) + 1,
         SameAfter(p, f, g, i), i <= Len(p) /\ p[i].call = "then" => A[p[i].loc] = B[p[i].loc]
  PROVE  Walked(p, A, f, i) = Walked(p, B, g, i)
<1>1. /\ Len(p) \in Nat /\ i \in Nat \ {0}
      /\ \/ i > Len(p)
         \/ /\ ~(i > Len(p)) /\ i + 1 \in i + 1 .. Len(p) + 1
            /\ p[i].call \in {"then", "else"} =>
                 Closing(p, i) \in i + 1 .. Len(p) + 1 /\ Closing(p, i) + 1 \in i + 1 .. Len(p) + 1
  BY TokenFacts
<1>2. CASE i > Len(p)
  BY <1>2 DEF Walked
<1>3. CASE ~(i > Len(p)) /\ p[i].call = "then"
  <2> DEFINE c == Closing(p, i)
  <2>1. f[i + 1] = g[i + 1] /\ f[c] = g[c] /\ f[c + 1] = g[c + 1] /\ A[p[i].loc] = B[p[i].loc]
    BY <1>1, <1>3 DEF SameAfter
  <2>2. Walked(p, A, f, i) = IF A[p[i].loc] THEN <<i>> \o f[i + 1]
                             ELSE IF p[c].call = "else" THEN <<c>> \o f[c + 1] ELSE f[c]
    BY <1>3 DEF Walked
  <2>3. Walked(p, B, g, i) = IF B[p[i].loc] THEN <<i>> \o g[i + 1]
                             ELSE IF p[c].call = "else" THEN <<c>> \o g[c + 1] ELSE g[c]
    BY <1>3 DEF Walked
  <2> HIDE DEF c
  <2> QED
    BY <2>1, <2>2, <2>3
<1>4. CASE ~(i > Len(p)) /\ p[i].call = "else"
  <2>1. f[Closing(p, i)] = g[Closing(p, i)]
    BY <1>1, <1>4 DEF SameAfter
  <2> QED
    BY <1>4, <2>1 DEF Walked
<1>5. CASE ~(i > Len(p)) /\ p[i].call # "then" /\ p[i].call # "else"
  <2>1. f[i + 1] = g[i + 1]
    BY <1>1, <1>5 DEF SameAfter
  <2> QED
    BY <1>5, <2>1 DEF Walked
<1> QED
  BY <1>2, <1>3, <1>4, <1>5

(* The recursion is well-founded.                                          *)
LEMMA PathExists ==
  ASSUME NEW p, Nested(p), NEW A
  PROVE  PathOf(p, A) = [i \in 1 .. Len(p) + 1 |-> Walked(p, A, PathOf(p, A), i)]
<1> DEFINE n == Len(p) + 1
           Is(m, f) == f = [i \in m .. n |-> Walked(p, A, f, i)]
           good == { k \in Nat : k < n => \E f : Is(n - k, f) }
<1>1. Len(p) \in Nat /\ n \in 1 .. n /\ n \in Nat
  BY TokenFacts DEF Nested
<1>2. ASSUME NEW i \in 1 .. n, NEW f, NEW g, \A j \in i + 1 .. n : f[j] = g[j]
      PROVE  Walked(p, A, f, i) = Walked(p, A, g, i)
  <2>1. SameAfter(p, f, g, i)
    BY <1>2 DEF SameAfter
  <2> QED
    BY <2>1, WalkedDepends
<1>3. 0 \in good
  <2> DEFINE f == [i \in n .. n |-> Walked(p, A, <<>>, n)]
  <2>1. \A i \in n .. n : i = n /\ f[i] = Walked(p, A, <<>>, n)
    BY <1>1
  <2>2. f = [i \in n .. n |-> f[i]] /\ n + 1 .. n = {}
    BY <1>1
  <2> HIDE DEF f
  <2>3. Walked(p, A, <<>>, n) = Walked(p, A, f, n)
    BY <1>1, <1>2, <2>2
  <2>4. Is(n, f)
    BY <2>1, <2>2, <2>3
  <2>5. n - 0 = n
    BY <1>1
  <2> HIDE DEF n
  <2> QED
    BY <2>4, <2>5
<1>4. ASSUME NEW k \in Nat, k \in good PROVE k + 1 \in good
  <2> DEFINE m == n - (k + 1)
  <2> SUFFICES ASSUME k + 1 < n PROVE \E f : Is(m, f)
    OBVIOUS
  <2>1. n - k = m + 1 /\ m \in 1 .. n /\ m + 1 <= n /\ k < n
    BY <1>1
  <2> HIDE DEF n, m
  <2>2. PICK f : Is(m + 1, f)
    BY <1>4, <2>1
  <2> DEFINE g == [i \in m .. n |-> IF i = m THEN Walked(p, A, f, m) ELSE f[i]]
  <2>3. /\ g[m] = Walked(p, A, f, m) /\ \A i \in m + 1 .. n : g[i] = f[i]
        /\ g = [i \in m .. n |-> g[i]]
    BY <1>1, <2>1
  <2> HIDE DEF g
  <2>4. ASSUME NEW i \in m .. n PROVE g[i] = Walked(p, A, g, i)
    <3>0. i \in 1 .. n /\ \A j \in i + 1 .. n : j \in m + 1 .. n
      BY <1>1, <2>1
    <3>1. i \in 1 .. n /\ \A j \in i + 1 .. n : f[j] = g[j]
      BY <2>3, <3>0
    <3>2. Walked(p, A, f, i) = Walked(p, A, g, i)
      BY <1>2, <3>1
    <3>3. CASE i = m
      BY <2>3, <3>2, <3>3
    <3>4. CASE i # m
      <4>1. i \in m + 1 .. n
        BY <1>1, <2>1, <3>4
      <4>2. f[i] = Walked(p, A, f, i)
        BY <2>2, <4>1
      <4> QED
        BY <2>3, <3>2, <4>1, <4>2
    <3> QED
      BY <3>3, <3>4
  <2>5. Is(m, g)
    BY <2>3, <2>4
  <2> QED
    BY <2>5
<1>5. Len(p) \in good
  <2> HIDE DEF good
  <2>1. \A k \in Nat : k \in good
    BY <1>3, <1>4, SetInduction
  <2> QED
    BY <1>1, <2>1
<1>6. Len(p) < n /\ n - Len(p) = 1
  BY <1>1
<1> HIDE DEF n
<1>7. \E f : Is(1, f)
  BY <1>5, <1>6
<1> QED
  BY <1>7, Zenon DEF PathOf, n

(* The walk, token by token.                                               *)
LEMMA PathSteps ==
  ASSUME NEW p, Nested(p), NEW A, NEW i \in 1 .. Len(p) + 1
  PROVE  PathOf(p, A)[i] = Walked(p, A, PathOf(p, A), i)
<1> DEFINE f == PathOf(p, A)
<1>1. f = [j \in 1 .. Len(p) + 1 |-> Walked(p, A, f, j)]
  BY PathExists
<1> HIDE DEF f
<1>2. f[i] = Walked(p, A, f, i)
  BY <1>1
<1> QED
  BY <1>2 DEF f

(* A path is a sequence of positions.                                      *)
LEMMA PathType ==
  ASSUME NEW p, Nested(p), NEW A
  PROVE  \A i \in 1 .. Len(p) + 1 : PathOf(p, A)[i] \in Seq(Nat)
<1> DEFINE n == Len(p) + 1
           f == PathOf(p, A)
           S == { i \in 1 .. n : f[i] \in Seq(Nat) }
<1>1. n \in Nat
  BY DEF Nested
<1>2. ASSUME NEW b \in 1 .. n, \A x \in 1 .. n : x > b => x \in S PROVE b \in S
  <2>1. f[b] = Walked(p, A, f, b)
    BY PathSteps
  <2>2. /\ Len(p) \in Nat /\ b \in Nat \ {0}
        /\ \/ b > Len(p)
           \/ /\ ~(b > Len(p)) /\ b + 1 \in b + 1 .. n
              /\ p[b].call \in {"then", "else"} =>
                   Closing(p, b) \in b + 1 .. n /\ Closing(p, b) + 1 \in b + 1 .. n
    BY TokenFacts
  <2> DEFINE c == Closing(p, b)
  <2> HIDE DEF f, n
  <2>3. ASSUME NEW x \in b + 1 .. n PROVE f[x] \in Seq(Nat) /\ x \in Nat
    <3>1. x \in 1 .. n /\ x > b /\ x \in Nat
      BY <1>1, <2>2
    <3> QED
      BY <1>2, <3>1
  <2>4. CASE b > Len(p)
    <3>1. f[b] = <<>>
      BY <2>1, <2>4 DEF Walked
    <3>2. <<>> \in Seq(Nat)
      OBVIOUS
    <3>3. f[b] \in Seq(Nat)
      BY <3>1, <3>2
    <3> QED
      BY <3>3
  <2>5. CASE ~(b > Len(p)) /\ p[b].call = "then"
    <3>1. f[b] = IF A[p[b].loc] THEN <<b>> \o f[b + 1]
                 ELSE IF p[c].call = "else" THEN <<c>> \o f[c + 1] ELSE f[c]
      BY <2>1, <2>5 DEF Walked
    <3>2. f[b + 1] \in Seq(Nat) /\ f[c] \in Seq(Nat) /\ f[c + 1] \in Seq(Nat) /\ c \in Nat /\ b \in Nat
      BY <2>2, <2>3, <2>5
    <3>3. <<b>> \o f[b + 1] \in Seq(Nat) /\ <<c>> \o f[c + 1] \in Seq(Nat)
      BY <3>2, PrependFacts
    <3> HIDE DEF c
    <3> QED
      BY <3>1, <3>2, <3>3
  <2>6. CASE ~(b > Len(p)) /\ p[b].call = "else"
    <3>1. f[b] = f[c]
      BY <2>1, <2>6 DEF Walked
    <3> QED
      BY <2>2, <2>3, <2>6, <3>1
  <2>7. CASE ~(b > Len(p)) /\ p[b].call # "then" /\ p[b].call # "else"
    <3>1. f[b] = f[b + 1]
      BY <2>1, <2>7 DEF Walked
    <3> QED
      BY <2>2, <2>3, <2>7, <3>1
  <2> QED
    BY <2>4, <2>5, <2>6, <2>7
<1>3. \A b \in 1 .. n : b \in S
  <2> HIDE DEF S, n
  <2> QED BY <1>1, <1>2, DownInduction
<1> QED
  BY <1>3

(* A path depends on the decisions on its way.                             *)
AgreeFrom(p, A, B, i) == \A j \in i .. Len(p) : p[j].call = "then" => A[p[j].loc] = B[p[j].loc]

(* So a path is the same with decisions that differ elsewhere.             *)
LEMMA PathDepends ==
  ASSUME NEW p, Nested(p), NEW A, NEW B
  PROVE  \A i \in 1 .. Len(p) + 1 : AgreeFrom(p, A, B, i) => PathOf(p, A)[i] = PathOf(p, B)[i]
<1> DEFINE n == Len(p) + 1
           f == PathOf(p, A)
           g == PathOf(p, B)
           S == { i \in 1 .. n : AgreeFrom(p, A, B, i) => f[i] = g[i] }
<1>1. n \in Nat /\ Len(p) \in Nat
  BY DEF Nested
<1>2. ASSUME NEW b \in 1 .. n, \A x \in 1 .. n : x > b => x \in S PROVE b \in S
  <2> SUFFICES ASSUME AgreeFrom(p, A, B, b) PROVE f[b] = g[b]
    OBVIOUS
  <2>1. f[b] = Walked(p, A, f, b) /\ g[b] = Walked(p, B, g, b)
    BY PathSteps
  <2> HIDE DEF f, g
  <2>2. ASSUME NEW j \in b + 1 .. Len(p) + 1 PROVE f[j] = g[j]
    <3>1. j \in 1 .. n /\ j > b
      BY <1>1
    <3>2. AgreeFrom(p, A, B, j)
      BY <1>1 DEF AgreeFrom
    <3> QED
      BY <1>2, <3>1, <3>2
  <2>3. SameAfter(p, f, g, b)
    BY <2>2 DEF SameAfter
  <2>4. b <= Len(p) /\ p[b].call = "then" => A[p[b].loc] = B[p[b].loc]
    BY <1>1 DEF AgreeFrom
  <2>5. Walked(p, A, f, b) = Walked(p, B, g, b)
    BY <2>3, <2>4, WalkedDepends
  <2> QED
    BY <2>1, <2>5
<1>3. \A b \in 1 .. n : b \in S
  <2> HIDE DEF S, n
  <2> QED BY <1>1, <1>2, DownInduction
<1> QED
  BY <1>3

-----------------------------------------------------------------------------
(* Ways, unfolded.                                                         *)
WaysFrom(p, From, i) ==
  LET other == Closing(p, i)
      Entering(j) == { <<j>> \o way : way \in From[j + 1] }
  IN  IF i > Len(p) THEN {<<>>}
      ELSE CASE p[i].call = "then" -> Entering(i) \union
                  (IF p[other].call = "else" THEN Entering(other) ELSE From[other])
             [] p[i].call = "else" -> From[other]
             [] OTHER              -> From[i + 1]

WaysOf(p) == CHOOSE f : f = [i \in 1 .. Len(p) + 1 |-> WaysFrom(p, f, i)]

(* The recursion of Ways is that of WaysFrom.                              *)
LEMMA WaysUnfolded == \A p : Ways(p) = WaysOf(p)[1]
BY DEF Ways, WaysOf, WaysFrom

(* Ways that enter block j first.                                          *)
Prefixed(j, S) == { <<j>> \o way : way \in S }

(* Ways, token by token.                                                   *)
LEMMA WaysCases ==
  ASSUME NEW p, NEW f, NEW i
  PROVE  /\ i > Len(p) => WaysFrom(p, f, i) = {<<>>}
         /\ ~(i > Len(p)) /\ p[i].call = "then" =>
              WaysFrom(p, f, i) = Prefixed(i, f[i + 1]) \union
                (IF p[Closing(p, i)].call = "else" THEN Prefixed(Closing(p, i), f[Closing(p, i) + 1])
                 ELSE f[Closing(p, i)])
         /\ ~(i > Len(p)) /\ p[i].call = "else" => WaysFrom(p, f, i) = f[Closing(p, i)]
         /\ ~(i > Len(p)) /\ p[i].call # "then" /\ p[i].call # "else" => WaysFrom(p, f, i) = f[i + 1]
<1>1. CASE i > Len(p)
  BY <1>1 DEF WaysFrom
<1>2. CASE ~(i > Len(p)) /\ p[i].call = "then"
  BY <1>2 DEF WaysFrom, Prefixed
<1>3. CASE ~(i > Len(p)) /\ p[i].call = "else"
  BY <1>3 DEF WaysFrom
<1>4. CASE ~(i > Len(p)) /\ p[i].call # "then" /\ p[i].call # "else"
  BY <1>4 DEF WaysFrom
<1> QED
  BY <1>1, <1>2, <1>3, <1>4

-----------------------------------------------------------------------------
(* No two branches of the program have one location.                       *)
OneVisit(p) ==
  \A i, j \in DOMAIN p :
    p[i].call = "then" /\ p[j].call = "then" /\ p[i].loc = p[j].loc => i = j

(* Ways with a block in front.                                             *)
LEMMA PrefixedFacts ==
  ASSUME NEW j, NEW U, NEW w \in Prefixed(j, U)
  PROVE  \E way \in U : w = <<j>> \o way
BY DEF Prefixed

(* What all decisions lead to from each token.                             *)
Walks(p) == [i \in 1 .. Len(p) + 1 |-> { PathOf(p, A)[i] : A \in Decisions }]

(* A decision can be changed without changing what comes after.            *)
LEMMA Decide ==
  ASSUME NEW p, Nested(p), OneVisit(p), NEW i \in DOMAIN p, p[i].call = "then", p[i].loc \in Nat,
         NEW A \in Decisions, NEW b \in BOOLEAN
  PROVE  \E B \in Decisions :
           B[p[i].loc] = b /\ \A j \in i + 1 .. Len(p) + 1 : PathOf(p, B)[j] = PathOf(p, A)[j]
<1> DEFINE B == [A EXCEPT ![p[i].loc] = b]
<1>1. B \in Decisions /\ B[p[i].loc] = b
  BY DEF Decisions
<1>2. \A l : l # p[i].loc => B[l] = A[l]
  BY DEF Decisions
<1>3. Len(p) \in Nat /\ DOMAIN p = 1 .. Len(p)
  BY DEF Nested
<1> HIDE DEF B
<1>4. ASSUME NEW j \in i + 1 .. Len(p) + 1 PROVE PathOf(p, B)[j] = PathOf(p, A)[j]
  <2>1. j \in 1 .. Len(p) + 1
    BY <1>3
  <2>2. ASSUME NEW k \in j .. Len(p), p[k].call = "then" PROVE B[p[k].loc] = A[p[k].loc]
    <3>1. k \in DOMAIN p /\ k # i
      BY <1>3, <2>1
    <3>2. p[k].loc # p[i].loc
      BY <3>1, <2>2 DEF OneVisit
    <3> QED
      BY <1>2, <3>2
  <2>3. AgreeFrom(p, B, A, j)
    BY <2>2 DEF AgreeFrom
  <2> QED
    BY <2>1, <2>3, PathDepends
<1> QED
  BY <1>1, <1>4

(* The walks from a token are made as Ways makes the ways from it.         *)
LEMMA WalksUnfold ==
  ASSUME NEW p, Nested(p), OneVisit(p), \A i \in DOMAIN p : p[i].call \in Call => p[i].loc \in Nat,
         NEW i \in 1 .. Len(p) + 1
  PROVE  Walks(p)[i] = WaysFrom(p, Walks(p), i)
<1> DEFINE n == Len(p) + 1
<1>a. PICK W : W = Walks(p)
  OBVIOUS
<1>b. PICK c : c = Closing(p, i)
  OBVIOUS
<1>1. \A j \in 1 .. n : \A w : w \in W[j] <=> \E A \in Decisions : w = PathOf(p, A)[j]
  BY <1>a DEF Walks
<1>0. \A w, j, U : w \in Prefixed(j, U) <=> \E way \in U : w = <<j>> \o way
  BY DEF Prefixed
<1>2. /\ Len(p) \in Nat /\ DOMAIN p = 1 .. Len(p) /\ i \in Nat \ {0}
      /\ \/ i = Len(p) + 1 /\ i > Len(p)
         \/ /\ ~(i > Len(p)) /\ i \in DOMAIN p /\ i + 1 \in i + 1 .. n
            /\ p[i].call \in {"then", "else"} => c \in i + 1 .. n /\ c + 1 \in i + 1 .. n
  BY <1>b, TokenFacts
<1>3. \A A : PathOf(p, A)[i] = Walked(p, A, PathOf(p, A), i)
  BY PathSteps
<1>4. /\ i > Len(p) => WaysFrom(p, W, i) = {<<>>}
      /\ ~(i > Len(p)) /\ p[i].call = "then" =>
           WaysFrom(p, W, i) = Prefixed(i, W[i + 1]) \union
             (IF p[c].call = "else" THEN Prefixed(c, W[c + 1]) ELSE W[c])
      /\ ~(i > Len(p)) /\ p[i].call = "else" => WaysFrom(p, W, i) = W[c]
      /\ ~(i > Len(p)) /\ p[i].call # "then" /\ p[i].call # "else" => WaysFrom(p, W, i) = W[i + 1]
  BY <1>b, WaysCases
<1>5. \A j \in i + 1 .. n : j \in 1 .. n
  BY <1>2
<1>6. CASE i > Len(p)
  <2>1. \A A : PathOf(p, A)[i] = <<>>
    BY <1>3, <1>6 DEF Walked
  <2>2. [l \in Nat |-> TRUE] \in Decisions
    BY DEF Decisions
  <2>3. W[i] = {<<>>}
    BY <1>1, <2>1, <2>2
  <2> QED
    BY <1>4, <1>6, <2>3, <1>a
<1>7. CASE ~(i > Len(p)) /\ p[i].call = "then"
  <2> DEFINE l == p[i].loc
             V == Prefixed(i, W[i + 1]) \union (IF p[c].call = "else" THEN Prefixed(c, W[c + 1]) ELSE W[c])
  <2>1. /\ i \in DOMAIN p /\ l \in Nat /\ i + 1 \in i + 1 .. n /\ c \in i + 1 .. n /\ c + 1 \in i + 1 .. n
        /\ i \in 1 .. n /\ i + 1 \in 1 .. n /\ c \in 1 .. n /\ c + 1 \in 1 .. n
    BY <1>2, <1>5, <1>7 DEF Call
  <2>0. /\ \A w : w \in W[i + 1] <=> \E A \in Decisions : w = PathOf(p, A)[i + 1]
        /\ \A w : w \in W[c] <=> \E A \in Decisions : w = PathOf(p, A)[c]
        /\ \A w : w \in W[c + 1] <=> \E A \in Decisions : w = PathOf(p, A)[c + 1]
        /\ \A w : w \in W[i] <=> \E A \in Decisions : w = PathOf(p, A)[i]
    <3> HIDE DEF n
    <3> QED BY <1>1, <2>1, Zenon
  <2>2. ASSUME NEW A
        PROVE  PathOf(p, A)[i] = IF A[l] THEN <<i>> \o PathOf(p, A)[i + 1]
                         ELSE IF p[c].call = "else" THEN <<c>> \o PathOf(p, A)[c + 1] ELSE PathOf(p, A)[c]
    BY <1>b, <1>3, <1>7 DEF Walked
  <2>3. ASSUME NEW A \in Decisions, NEW b \in BOOLEAN
        PROVE  \E B \in Decisions : B[l] = b /\ \A j \in i + 1 .. n : PathOf(p, B)[j] = PathOf(p, A)[j]
    BY <1>7, <2>1, Decide
  <2> HIDE DEF l
  <2>4. ASSUME NEW A \in Decisions PROVE PathOf(p, A)[i] \in V
    <3>1. PathOf(p, A)[i + 1] \in W[i + 1] /\ PathOf(p, A)[c] \in W[c] /\ PathOf(p, A)[c + 1] \in W[c + 1]
      BY <2>0
    <3> QED
      <4>1. CASE A[l]
        BY <1>0, <2>2, <3>1, <4>1
      <4>2. CASE ~A[l] /\ p[c].call = "else"
        BY <1>0, <2>2, <3>1, <4>2
      <4>3. CASE ~A[l] /\ p[c].call # "else"
        BY <2>2, <3>1, <4>3
      <4> QED
        BY <4>1, <4>2, <4>3
  <2>5. ASSUME NEW w \in Prefixed(i, W[i + 1]) PROVE \E B \in Decisions : w = PathOf(p, B)[i]
    <3>1. PICK A \in Decisions : w = <<i>> \o PathOf(p, A)[i + 1]
      <4>1. PICK way \in W[i + 1] : w = <<i>> \o way
        BY <2>5, PrefixedFacts
      <4>2. PICK A \in Decisions : way = PathOf(p, A)[i + 1]
        BY <2>0
      <4> QED
        BY <4>1, <4>2
    <3>2. PICK B \in Decisions : B[l] = TRUE /\ \A j \in i + 1 .. n : PathOf(p, B)[j] = PathOf(p, A)[j]
      BY <2>3
    <3>3. PathOf(p, B)[i + 1] = PathOf(p, A)[i + 1]
      BY <2>1, <3>2
    <3>4. PathOf(p, B)[i] = <<i>> \o PathOf(p, B)[i + 1]
      BY <2>2, <3>2
    <3> QED
      BY <3>1, <3>3, <3>4
  <2>6. ASSUME NEW w, p[c].call = "else", w \in Prefixed(c, W[c + 1])
        PROVE  \E B \in Decisions : w = PathOf(p, B)[i]
    <3>1. PICK A \in Decisions : w = <<c>> \o PathOf(p, A)[c + 1]
      <4>1. PICK way \in W[c + 1] : w = <<c>> \o way
        BY <2>6, PrefixedFacts
      <4>2. PICK A \in Decisions : way = PathOf(p, A)[c + 1]
        BY <2>0
      <4> QED
        BY <4>1, <4>2
    <3>2. PICK B \in Decisions : B[l] = FALSE /\ \A j \in i + 1 .. n : PathOf(p, B)[j] = PathOf(p, A)[j]
      BY <2>3
    <3>3. PathOf(p, B)[c + 1] = PathOf(p, A)[c + 1]
      BY <2>1, <3>2
    <3>4. PathOf(p, B)[i] = <<c>> \o PathOf(p, B)[c + 1]
      BY <2>2, <2>6, <3>2
    <3> QED
      BY <3>1, <3>3, <3>4
  <2>7. ASSUME NEW w, p[c].call # "else", w \in W[c] PROVE \E B \in Decisions : w = PathOf(p, B)[i]
    <3>1. PICK A \in Decisions : w = PathOf(p, A)[c]
      BY <2>0, <2>7
    <3>2. PICK B \in Decisions : B[l] = FALSE /\ \A j \in i + 1 .. n : PathOf(p, B)[j] = PathOf(p, A)[j]
      BY <2>3
    <3>3. PathOf(p, B)[c] = PathOf(p, A)[c]
      BY <2>1, <3>2
    <3>4. PathOf(p, B)[i] = PathOf(p, B)[c]
      BY <2>2, <2>7, <3>2
    <3> QED
      BY <3>1, <3>3, <3>4
  <2>8. \A w \in V : \E B \in Decisions : w = PathOf(p, B)[i]
    BY <2>5, <2>6, <2>7 DEF V
  <2> HIDE DEF V
  <2>9. W[i] = V
    <3>1. ASSUME NEW w \in W[i] PROVE w \in V
      <4>1. PICK A \in Decisions : w = PathOf(p, A)[i]
        BY <2>0, <3>1
      <4> QED
        BY <2>4, <4>1
    <3>2. ASSUME NEW w \in V PROVE w \in W[i]
      <4>1. PICK A \in Decisions : w = PathOf(p, A)[i]
        BY <2>8, <3>2
      <4> QED
        BY <2>0, <4>1
    <3> QED
      BY <3>1, <3>2
  <2> QED
    BY <1>4, <1>7, <2>9, <1>a DEF V
<1>8. CASE ~(i > Len(p)) /\ p[i].call = "else"
  <2>1. \A A : PathOf(p, A)[i] = PathOf(p, A)[c]
    BY <1>b, <1>3, <1>8 DEF Walked
  <2>2. c \in 1 .. n
    BY <1>2, <1>5, <1>8
  <2>3. /\ \A w : w \in W[i] <=> \E A \in Decisions : w = PathOf(p, A)[i]
        /\ \A w : w \in W[c] <=> \E A \in Decisions : w = PathOf(p, A)[c]
    <3>1. i \in 1 .. n
      OBVIOUS
    <3> HIDE DEF n
    <3> QED BY <1>1, <2>2, <3>1, Zenon
  <2>4. W[i] = W[c]
    <3>1. ASSUME NEW w \in W[i] PROVE w \in W[c]
      <4>1. PICK A \in Decisions : w = PathOf(p, A)[i]
        BY <2>3, <3>1
      <4> QED
        BY <2>1, <2>3, <4>1
    <3>2. ASSUME NEW w \in W[c] PROVE w \in W[i]
      <4>1. PICK A \in Decisions : w = PathOf(p, A)[c]
        BY <2>3, <3>2
      <4> QED
        BY <2>1, <2>3, <4>1
    <3> QED
      BY <3>1, <3>2
  <2> QED
    BY <1>4, <1>8, <2>4, <1>a
<1>9. CASE ~(i > Len(p)) /\ p[i].call # "then" /\ p[i].call # "else"
  <2>1. \A A : PathOf(p, A)[i] = PathOf(p, A)[i + 1]
    BY <1>3, <1>9 DEF Walked
  <2>2. i + 1 \in 1 .. n
    BY <1>2, <1>5, <1>9
  <2>3. /\ \A w : w \in W[i] <=> \E A \in Decisions : w = PathOf(p, A)[i]
        /\ \A w : w \in W[i + 1] <=> \E A \in Decisions : w = PathOf(p, A)[i + 1]
    <3>1. i \in 1 .. n
      OBVIOUS
    <3> HIDE DEF n
    <3> QED BY <1>1, <2>2, <3>1, Zenon
  <2>4. W[i] = W[i + 1]
    <3>1. ASSUME NEW w \in W[i] PROVE w \in W[i + 1]
      <4>1. PICK A \in Decisions : w = PathOf(p, A)[i]
        BY <2>3, <3>1
      <4> QED
        BY <2>1, <2>3, <4>1
    <3>2. ASSUME NEW w \in W[i + 1] PROVE w \in W[i]
      <4>1. PICK A \in Decisions : w = PathOf(p, A)[i + 1]
        BY <2>3, <3>2
      <4> QED
        BY <2>1, <2>3, <4>1
    <3> QED
      BY <3>1, <3>2
  <2> QED
    BY <1>4, <1>9, <2>4, <1>a
<1> QED
  BY <1>6, <1>7, <1>8, <1>9

(* Ways are walked with some decisions, and every walk is a way.           *)
LEMMA WaysAreWalks ==
  ASSUME NEW p, Nested(p), OneVisit(p), \A i \in DOMAIN p : p[i].call \in Call => p[i].loc \in Nat
  PROVE  Ways(p) = { PathOf(p, A)[1] : A \in Decisions }
<1> DEFINE n == Len(p) + 1
           W == Walks(p)
           f == WaysOf(p)
           S == { i \in 1 .. n : f[i] = W[i] }
<1>1. n \in Nat /\ 1 \in 1 .. n /\ Len(p) \in Nat
  BY DEF Nested
<1>2. W = [i \in 1 .. n |-> WaysFrom(p, W, i)]
  <2>1. \A i \in 1 .. n : W[i] = WaysFrom(p, W, i)
    BY WalksUnfold
  <2>2. W = [i \in 1 .. n |-> W[i]]
    BY DEF Walks
  <2> HIDE DEF W
  <2> QED
    BY <2>1, <2>2
<1>3. f = [i \in 1 .. n |-> WaysFrom(p, f, i)]
  <2> HIDE DEF W, n
  <2>1. \E g : g = [i \in 1 .. n |-> WaysFrom(p, g, i)]
    BY <1>2
  <2> QED
    BY <2>1, Zenon DEF WaysOf, n
<1> HIDE DEF f, W
<1>4. ASSUME NEW b \in 1 .. n, \A x \in 1 .. n : x > b => x \in S PROVE b \in S
  <2> DEFINE c == Closing(p, b)
  <2>1. f[b] = WaysFrom(p, f, b) /\ W[b] = WaysFrom(p, W, b)
    <3> HIDE DEF n
    <3>1. f[b] = WaysFrom(p, f, b)
      BY <1>3
    <3>2. W[b] = WaysFrom(p, W, b)
      BY <1>2
    <3> QED
      BY <3>1, <3>2
  <2>2. /\ b \in Nat \ {0}
        /\ \/ b > Len(p)
           \/ /\ ~(b > Len(p)) /\ b + 1 \in b + 1 .. n
              /\ p[b].call \in {"then", "else"} => c \in b + 1 .. n /\ c + 1 \in b + 1 .. n
    BY TokenFacts
  <2>3. ASSUME NEW x \in b + 1 .. n PROVE f[x] = W[x]
    <3>1. x \in 1 .. n /\ x > b
      BY <1>1, <2>2
    <3> QED
      BY <1>4, <3>1
  <2> DEFINE Unfold(g) ==
        /\ b > Len(p) => WaysFrom(p, g, b) = {<<>>}
        /\ ~(b > Len(p)) /\ p[b].call = "then" =>
             WaysFrom(p, g, b) = Prefixed(b, g[b + 1]) \union
               (IF p[c].call = "else" THEN Prefixed(c, g[c + 1]) ELSE g[c])
        /\ ~(b > Len(p)) /\ p[b].call = "else" => WaysFrom(p, g, b) = g[c]
        /\ ~(b > Len(p)) /\ p[b].call # "then" /\ p[b].call # "else" => WaysFrom(p, g, b) = g[b + 1]
  <2>4. Unfold(f) /\ Unfold(W)
    BY WaysCases
  <2> HIDE DEF c, n
  <2>5. f[b] = W[b]
    <3>1. CASE b > Len(p)
      BY <2>1, <2>4, <3>1
    <3>2. CASE ~(b > Len(p)) /\ p[b].call = "then"
      <4>1. f[b + 1] = W[b + 1] /\ f[c] = W[c] /\ f[c + 1] = W[c + 1]
        BY <2>2, <2>3, <3>2
      <4> QED
        BY <2>1, <2>4, <3>2, <4>1
    <3>3. CASE ~(b > Len(p)) /\ p[b].call = "else"
      <4>1. f[c] = W[c]
        BY <2>2, <2>3, <3>3
      <4> QED
        BY <2>1, <2>4, <3>3, <4>1
    <3>4. CASE ~(b > Len(p)) /\ p[b].call # "then" /\ p[b].call # "else"
      <4>1. f[b + 1] = W[b + 1]
        BY <2>2, <2>3, <3>4
      <4> QED
        BY <2>1, <2>4, <3>4, <4>1
    <3> QED
      BY <3>1, <3>2, <3>3, <3>4
  <2> QED
    BY <2>5
<1>5. \A b \in 1 .. n : b \in S
  <2> HIDE DEF S, n
  <2> QED BY <1>1, <1>4, DownInduction
<1>6. f[1] = W[1]
  BY <1>1, <1>5
<1>7. W[1] = { PathOf(p, A)[1] : A \in Decisions }
  BY <1>1 DEF W, Walks
<1>8. Ways(p) = f[1]
  BY WaysUnfolded DEF f
<1> QED
  BY <1>6, <1>7, <1>8

-----------------------------------------------------------------------------
(* The program is in a "then" block only when it entered it.               *)
InsideInv ==
  \A i \in Blocks(program) :
    program[i].call = "then" /\ i < pc /\ pc < Closing(program, i) => i \in Range(path)

(* A step goes on to the next token, to the end of the block that it skips *)
(* or to the start of the next slice.                                      *)
Goes ==
  \/ pc' = pc + 1 /\ Range(path) \subseteq Range(path') /\ (program[pc].call = "then" => pc \in Range(path'))
  \/ pc \in Blocks(program) /\ pc' = Closing(program, pc) /\ Range(path) \subseteq Range(path')
  \/ pc' = 1
  \/ pc' = pc /\ path' = path

(* However a step goes on, it enters no block by the way.                  *)
LEMMA InsideGoes ==
  ASSUME IInv, InsideInv, program' = program, Goes
  PROVE  InsideInv'
<1>1. /\ Nested(program) /\ Len(program) \in Nat /\ pc \in 1 .. Len(program) + 1
      /\ Blocks(program) \subseteq 1 .. Len(program)
  BY ProgramFacts DEF IInv, TypeInv
<1> SUFFICES ASSUME NEW i \in Blocks(program), program[i].call = "then", i < pc', pc' < Closing(program, i)
             PROVE  i \in Range(path')
  BY DEF InsideInv
<1>2. i \in 1 .. Len(program) /\ Closing(program, i) \in i + 1 .. Len(program)
  BY <1>1, ClosingFacts
<1>3. ASSUME i < pc, pc < Closing(program, i) PROVE i \in Range(path)
  BY <1>3 DEF InsideInv
<1>4. CASE /\ pc' = pc + 1 /\ Range(path) \subseteq Range(path')
           /\ program[pc].call = "then" => pc \in Range(path')
  <2>1. CASE i = pc
    BY <1>4, <2>1
  <2>2. CASE i # pc
    <3>1. i < pc /\ pc < Closing(program, i)
      BY <1>1, <1>2, <1>4, <2>2
    <3> QED
      BY <1>3, <1>4, <3>1
  <2> QED
    BY <2>1, <2>2
<1>5. CASE pc \in Blocks(program) /\ pc' = Closing(program, pc) /\ Range(path) \subseteq Range(path')
  <2>1. Closing(program, pc) \in pc + 1 .. Len(program) /\ pc \in 1 .. Len(program)
    BY <1>1, <1>5, ClosingFacts
  <2>2. i # pc
    BY <1>2, <1>5
  <2>3. ~(i > pc)
    <3> SUFFICES ASSUME i > pc PROVE FALSE
      OBVIOUS
    <3>1. i \in pc + 1 .. Closing(program, pc) - 1
      BY <1>2, <1>5, <2>1
    <3>2. Closing(program, i) < Closing(program, pc)
      BY <1>1, <1>5, <3>1, NestedInside
    <3> QED
      BY <1>2, <1>5, <2>1, <3>2
  <2>4. i < pc /\ pc < Closing(program, i)
    BY <1>2, <1>5, <2>1, <2>2, <2>3
  <2> QED
    BY <1>3, <1>5, <2>4
<1>6. CASE pc' = 1
  BY <1>2, <1>6
<1>7. CASE pc' = pc /\ path' = path
  BY <1>3, <1>7
<1> QED
  BY <1>4, <1>5, <1>6, <1>7 DEF Goes

(* At the start the program is in no block.                                *)
LEMMA InsideStarts == Init => InsideInv
<1> SUFFICES ASSUME Init PROVE InsideInv
  OBVIOUS
<1>1. case \in Cases /\ pc = 1
  BY DEF Init
<1>2. Blocks(program) \subseteq 1 .. Len(program) /\ Len(program) \in Nat
  BY <1>1, ProgramFacts
<1> QED
  BY <1>1, <1>2 DEF InsideInv

(* Every step keeps it so.                                                 *)
LEMMA InsidePreserves == IInv /\ InsideInv /\ [Next]_vars => InsideInv'
<1> SUFFICES ASSUME IInv, InsideInv, [Next]_vars PROVE InsideInv'
  OBVIOUS
<1>1. /\ TypeInv /\ path \in Seq(Blocks(program)) /\ DOMAIN program = 1 .. Len(program)
      /\ pc \in 1 .. Len(program) + 1 /\ Len(program) \in Nat
  BY ProgramFacts DEF IInv, TypeInv
<1>2. program' = program
  BY SameProgram DEF Next, vars, BeginThenBranch, BeginElseBranch, EndBranch, Proceed, NextSlice
<1>3. ASSUME Enter(TRUE) \/ Enter(FALSE), pc \in Blocks(program) PROVE Goes
  <2>1. Range(Append(path, pc)) = Range(path) \union {pc}
    BY <1>1, <1>3, RangeAppend
  <2> QED
    BY <1>3, <2>1 DEF Enter, Goes
<1>4. ASSUME NEW x, Enter(x) PROVE Enter(TRUE) \/ Enter(FALSE)
  BY <1>4 DEF Enter
<1>5. CASE BeginThenBranch
  <2>1. pc \in Blocks(program)
    BY <1>1, <1>5 DEF BeginThenBranch, Calls, Token, Blocks
  <2>2. Enter(TRUE) \/ Enter(FALSE)
    BY <1>4, <1>5 DEF BeginThenBranch
  <2> QED
    BY <1>2, <1>3, <2>1, <2>2, InsideGoes
<1>6. CASE BeginElseBranch
  <2>1. pc \in Blocks(program)
    BY <1>1, <1>6 DEF BeginElseBranch, Calls, Token, Blocks
  <2>2. Enter(TRUE) \/ Enter(FALSE)
    BY <1>4, <1>6 DEF BeginElseBranch
  <2> QED
    BY <1>2, <1>3, <2>1, <2>2, InsideGoes
<1>7. CASE EndBranch
  <2>1. Goes
    BY <1>7 DEF EndBranch, Calls, Token, Goes
  <2> QED
    BY <1>2, <2>1, InsideGoes
<1>8. CASE Proceed
  <2>1. Goes
    BY <1>8 DEF Proceed, Call, Token, Goes
  <2> QED
    BY <1>2, <2>1, InsideGoes
<1>9. CASE NextSlice
  <2>1. Goes
    BY <1>9 DEF NextSlice, Goes
  <2> QED
    BY <1>2, <2>1, InsideGoes
<1>10. CASE UNCHANGED vars
  BY <1>2, <1>10, InsideGoes DEF vars, Goes
<1> QED
  BY <1>5, <1>6, <1>7, <1>8, <1>9, <1>10 DEF Next

(* An "else" that follows the tokens of its "then" block is skipped.       *)
LEMMA ElsePassed ==
  ASSUME IInv, IInv', InsideInv, program' = program, sliceFreq' = sliceFreq, sliceFreq # 0, path' = path,
         pc' = pc + 1, program[pc].call # "then", pc + 1 <= Len(program), program[pc + 1].call = "else"
  PROVE  Last(stack') = TRUE
<1>1. /\ Nested(program) /\ Len(program) \in Nat /\ pc \in 1 .. Len(program) + 1
      /\ DOMAIN program = 1 .. Len(program)
  BY ProgramFacts DEF IInv, TypeInv
<1>2. pc + 1 \in DOMAIN program
  BY <1>1
<1>3. PICK i \in Blocks(program) : program[i].call = "then" /\ Closing(program, i) = pc + 1
  BY <1>1, <1>2, ElseCloses
<1>4. /\ i \in 1 .. Len(program) /\ Closing(program, i) \in i + 1 .. Len(program)
      /\ Depth(program, Closing(program, i)) = Depth(program, i + 1)
  BY <1>1, ClosingFacts
<1>5. i \in Range(path)
  <2>1. i # pc
    BY <1>3
  <2>2. i < pc /\ pc < Closing(program, i)
    BY <1>1, <1>3, <1>4, <2>1
  <2> QED
    BY <1>3, <2>2 DEF InsideInv
<1>6. Depth(program, i) \in Int /\ Depth(program, i + 1) = Depth(program, i) + 1
  BY <1>3, <1>4, DepthStep
<1>7. /\ Len(stack') = Depth(program, pc + 1)
      /\ \A a \in Range(path) : program[a].call = "then" /\ pc + 1 <= Closing(program, a) => Entered(a)'
      /\ stack' \in Seq(BOOLEAN)
  BY DEF IInv, SlicedInv, TypeInv
<1>8. Entered(i)'
  BY <1>1, <1>3, <1>5, <1>7
<1>9. stack'[Depth(program, i) + 1] = TRUE
  BY <1>8 DEF Entered
<1>10. Len(stack') = Depth(program, i) + 1
  BY <1>3, <1>4, <1>6, <1>7
<1> QED
  BY <1>9, <1>10 DEF Last

-----------------------------------------------------------------------------
(* The decisions A say what m_branch_map says.                             *)
Agrees(A) == \A l \in DOMAIN branchMap : A[l] = branchMap[l].execute

(* What is left of the path of the slice under the decisions A: the "else" *)
(* of a skipped "then" block is entered.                                   *)
Rest(A) ==
  IF pc <= Len(program) /\ program[pc].call = "else" /\ ~Last(stack)
  THEN <<pc>> \o PathOf(program, A)[pc + 1]
  ELSE PathOf(program, A)[pc]

(* The slice is on the path of every choice that agrees with its decisions. *)
PrefixInv ==
  sliceFreq # 0 /\ ~finished =>
    \A A \in Decisions : Agrees(A) => path \o Rest(A) = PathOf(program, A)[1]

(* A block more on the path is one less in what is left of it.             *)
LEMMA AppendThen ==
  ASSUME NEW q \in Seq(Nat), NEW x \in Nat, NEW r \in Seq(Nat)
  PROVE  Append(q, x) \o r = q \o (<<x>> \o r)
OBVIOUS

(* The first token is not an "else".                                       *)
LEMMA FirstToken ==
  ASSUME NEW p, Nested(p)
  PROVE  ~(1 <= Len(p) /\ p[1].call = "else")
<1> SUFFICES ASSUME 1 <= Len(p), p[1].call = "else" PROVE FALSE
  OBVIOUS
<1>1. 1 \in DOMAIN p
  BY DEF Nested
<1>2. Depth(p, 1) > 0
  BY <1>1 DEF Nested
<1>3. Depth(p, 1) = 0
  BY DepthStep
<1> QED
  BY <1>2, <1>3

(* At the start the whole path is left.                                    *)
LEMMA PrefixStarts == Init => PrefixInv
<1> SUFFICES ASSUME Init PROVE PrefixInv
  OBVIOUS
<1>1. case \in Cases /\ pc = 1 /\ path = <<>>
  BY DEF Init
<1>2. Nested(program) /\ Len(program) \in Nat
  BY <1>1, ProgramFacts
<1>3. ASSUME NEW A PROVE path \o Rest(A) = PathOf(program, A)[1]
  <2>1. Rest(A) = PathOf(program, A)[1]
    BY <1>1, <1>2, FirstToken DEF Rest
  <2>2. PathOf(program, A)[1] \in Seq(Nat)
    BY <1>2, PathType
  <2> QED
    BY <1>1, <2>1, <2>2
<1> QED
  BY <1>3 DEF PrefixInv

(* At an "else" there is an open branch, and another "else" does not follow. *)
LEMMA AfterElse ==
  ASSUME NEW p, Nested(p), NEW i \in DOMAIN p, p[i].call = "else"
  PROVE  /\ p[Closing(p, i)].call = "end"
         /\ ~(i + 1 <= Len(p) /\ p[i + 1].call = "else")
<1>1. i \in Blocks(p) /\ Len(p) \in Nat /\ i \in 1 .. Len(p)
  BY DEF Blocks, Nested
<1>2. /\ Closing(p, i) \in i + 1 .. Len(p)
      /\ \A j \in i + 1 .. Closing(p, i) - 1 : p[j].call \in {"else", "end"} => Depth(p, j) # Depth(p, i + 1)
  BY <1>1, ClosingFacts
<1>3. p[Closing(p, i)].call = "end"
  BY <1>1 DEF Nested
<1>4. ASSUME i + 1 <= Len(p), p[i + 1].call = "else" PROVE FALSE
  <2>1. i + 1 # Closing(p, i)
    BY <1>3, <1>4
  <2>2. i + 1 \in i + 1 .. Closing(p, i) - 1
    BY <1>1, <1>2, <2>1
  <2> QED
    BY <1>2, <1>4, <2>2
<1> QED
  BY <1>3, <1>4

-----------------------------------------------------------------------------
(* What the invariants say where the program calls.                        *)
LEMMA CallFacts ==
  ASSUME IInv, pc <= Len(program)
  PROVE  /\ Nested(program) /\ Len(program) \in Nat /\ pc \in 1 .. Len(program) /\ pc \in DOMAIN program
         /\ path \in Seq(Nat) /\ pc \in Nat
         /\ \A A : /\ PathOf(program, A)[pc] = Walked(program, A, PathOf(program, A), pc)
                   /\ PathOf(program, A)[pc] \in Seq(Nat) /\ PathOf(program, A)[pc + 1] \in Seq(Nat)
         /\ program[pc].call \in {"then", "else"} =>
              /\ pc \in Blocks(program)
              /\ Closing(program, pc) \in pc + 1 .. Len(program)
              /\ \A A : /\ PathOf(program, A)[Closing(program, pc)] \in Seq(Nat)
                        /\ PathOf(program, A)[Closing(program, pc) + 1] \in Seq(Nat)
<1>1. /\ Nested(program) /\ Len(program) \in Nat /\ pc \in 1 .. Len(program) /\ pc \in DOMAIN program
      /\ path \in Seq(Blocks(program)) /\ Blocks(program) \subseteq 1 .. Len(program)
  BY ProgramFacts DEF IInv, TypeInv
<1>2. path \in Seq(Nat)
  BY <1>1
<1>3. pc \in 1 .. Len(program) + 1 /\ pc + 1 \in 1 .. Len(program) + 1
  BY <1>1
<1>4. \A A : /\ PathOf(program, A)[pc] = Walked(program, A, PathOf(program, A), pc)
             /\ \A i \in 1 .. Len(program) + 1 : PathOf(program, A)[i] \in Seq(Nat)
  BY <1>1, <1>3, PathSteps, PathType
<1>5. ASSUME program[pc].call \in {"then", "else"}
      PROVE  /\ pc \in Blocks(program)
             /\ Closing(program, pc) \in pc + 1 .. Len(program)
             /\ \A A : /\ PathOf(program, A)[Closing(program, pc)] \in Seq(Nat)
                       /\ PathOf(program, A)[Closing(program, pc) + 1] \in Seq(Nat)
  <2>1. pc \in Blocks(program)
    BY <1>1, <1>5 DEF Blocks
  <2>2. Closing(program, pc) \in pc + 1 .. Len(program)
    BY <1>1, <2>1, ClosingFacts
  <2>3. Closing(program, pc) \in 1 .. Len(program) + 1 /\ Closing(program, pc) + 1 \in 1 .. Len(program) + 1
    BY <1>1, <2>2
  <2> QED
    BY <1>4, <2>1, <2>2, <2>3
<1> QED
  BY <1>1, <1>2, <1>3, <1>4, <1>5

(* begin_then_branch: the decision is made, and the path follows it.       *)
LEMMA PrefixThen ==
  ASSUME IInv, PrefixInv, BeginThenBranch, sliceFreq # 0
  PROVE  PrefixInv'
<1> DEFINE c == Closing(program, pc)
           l == program[pc].loc
           P(A) == PathOf(program, A)
<1>1. /\ pc <= Len(program) /\ program[pc].call = "then" /\ ~finished
      /\ branchMap' = Met(l) /\ stack' = Append(stack, Lookup(l).execute)
      /\ Enter(Lookup(l).execute)
      /\ case' = case
  BY DEF BeginThenBranch, Calls, Token
<1>2. program' = program
  BY <1>1, SameProgram
<1>3. /\ Len(program) \in Nat /\ pc \in Nat /\ path \in Seq(Nat)
      /\ Closing(program, pc) \in pc + 1 .. Len(program)
      /\ \A A : PathOf(program, A)[pc] = Walked(program, A, PathOf(program, A), pc)
      /\ \A A : PathOf(program, A)[pc + 1] \in Seq(Nat)
      /\ pc \in DOMAIN program
  BY <1>1, CallFacts
<1>4. l \in Nat /\ TypeInv
  BY <1>1, <1>3, ProgramFacts DEF IInv, TypeInv, Call
<1>5. PICK e \in BOOLEAN : e = Lookup(l).execute
  BY <1>4, LookupFacts
<1>6. Last(stack') = e
  <2>1. stack \in Seq(BOOLEAN)
    BY <1>4 DEF TypeInv
  <2>2. stack' = Append(stack, e) /\ Len(stack') = Len(stack) + 1 /\ stack'[Len(stack) + 1] = e
    BY <1>1, <1>5, <2>1, AppendFacts
  <2> QED
    BY <2>2 DEF Last
<1>7. SUFFICES ASSUME NEW A \in Decisions, Agrees(A)' PROVE path' \o Rest(A)' = P(A)[1]
  BY <1>2 DEF PrefixInv
<1>8. Agrees(A) /\ A[l] = e
  BY <1>1, <1>5, <1>7 DEF Agrees, Met, Lookup
<1>9. path \o P(A)[pc] = P(A)[1]
  BY <1>1, <1>8 DEF PrefixInv, Rest
<1>10. P(A)[pc] = IF A[l] THEN <<pc>> \o P(A)[pc + 1]
                  ELSE IF program[c].call = "else" THEN <<c>> \o P(A)[c + 1] ELSE P(A)[c]
  <2>1. P(A)[pc] = Walked(program, A, P(A), pc)
    BY <1>3
  <2>2. ~(pc > Len(program))
    BY <1>1, <1>3
  <2>3. Walked(program, A, P(A), pc) =
          IF A[program[pc].loc] THEN <<pc>> \o P(A)[pc + 1]
          ELSE IF program[Closing(program, pc)].call = "else"
               THEN <<Closing(program, pc)>> \o P(A)[Closing(program, pc) + 1] ELSE P(A)[Closing(program, pc)]
    <3> HIDE DEF P
    <3> QED BY <1>1, <2>2 DEF Walked
  <2> QED
    BY <2>1, <2>3
<1>11. CASE e
  <2>1. pc' = pc + 1 /\ path' = Append(path, pc)
    BY <1>1, <1>5, <1>11 DEF Enter
  <2>2. Rest(A)' = P(A)[pc + 1]
    BY <1>2, <1>6, <1>11, <2>1 DEF Rest
  <2>3. path' \o P(A)[pc + 1] = path \o (<<pc>> \o P(A)[pc + 1])
    BY <1>3, <2>1, AppendThen
  <2> QED
    BY <1>8, <1>9, <1>10, <1>11, <2>2, <2>3
<1>12. CASE ~e
  <2>1. pc' = c /\ path' = path
    BY <1>1, <1>5, <1>12 DEF Enter
  <2>2. Rest(A)' = IF program[c].call = "else" THEN <<c>> \o P(A)[c + 1] ELSE P(A)[c]
    BY <1>2, <1>3, <1>6, <1>12, <2>1 DEF Rest
  <2>3. Rest(A)' = P(A)[pc]
    BY <1>8, <1>10, <1>12, <2>2
  <2> QED
    BY <1>9, <2>1, <2>3
<1> QED
  BY <1>11, <1>12

(* begin_else_branch: the answer is that of the "then" block.              *)
LEMMA PrefixElse ==
  ASSUME IInv, PrefixInv, BeginElseBranch, sliceFreq # 0
  PROVE  PrefixInv'
<1> DEFINE c == Closing(program, pc)
           P(A) == PathOf(program, A)
<1>1. /\ pc <= Len(program) /\ program[pc].call = "else" /\ ~finished
      /\ Enter(~Last(stack))
      /\ UNCHANGED <<case, branchMap, stack>>
  BY DEF BeginElseBranch, Calls, Token
<1>2. program' = program
  BY <1>1, SameProgram
<1>3. /\ Nested(program) /\ Len(program) \in Nat /\ pc \in Nat /\ path \in Seq(Nat)
      /\ c \in pc + 1 .. Len(program)
      /\ \A A : PathOf(program, A)[pc] = Walked(program, A, PathOf(program, A), pc)
      /\ \A A : PathOf(program, A)[pc + 1] \in Seq(Nat)
      /\ pc \in DOMAIN program
  BY <1>1, CallFacts
<1>4. /\ program[c].call = "end"
      /\ ~(pc + 1 <= Len(program) /\ program[pc + 1].call = "else")
  BY <1>1, <1>3, AfterElse
<1>5. SUFFICES ASSUME NEW A \in Decisions, Agrees(A)' PROVE path' \o Rest(A)' = P(A)[1]
  BY <1>2 DEF PrefixInv
<1>6. Agrees(A)
  BY <1>1, <1>5 DEF Agrees
<1>7. path \o Rest(A) = P(A)[1]
  BY <1>1, <1>6 DEF PrefixInv
<1>8. P(A)[pc] = P(A)[c]
  BY <1>1, <1>3 DEF Walked
<1>9. CASE ~Last(stack)
  <2>1. pc' = pc + 1 /\ path' = Append(path, pc)
    BY <1>1, <1>9 DEF Enter
  <2>2. Rest(A)' = P(A)[pc + 1]
    BY <1>2, <1>4, <2>1 DEF Rest
  <2>3. path' \o P(A)[pc + 1] = path \o (<<pc>> \o P(A)[pc + 1])
    BY <1>3, <2>1, AppendThen
  <2>4. Rest(A) = <<pc>> \o P(A)[pc + 1]
    BY <1>1, <1>9 DEF Rest
  <2> QED
    BY <1>7, <2>2, <2>3, <2>4
<1>10. CASE Last(stack)
  <2>1. pc' = c /\ path' = path
    BY <1>1, <1>10 DEF Enter
  <2>2. Rest(A)' = P(A)[c]
    BY <1>2, <1>4, <2>1 DEF Rest
  <2>3. Rest(A) = P(A)[pc]
    BY <1>10 DEF Rest
  <2> QED
    BY <1>7, <1>8, <2>1, <2>2, <2>3
<1> QED
  BY <1>9, <1>10

(* Tokens that open nothing.                                               *)
LEMMA PrefixPlain ==
  ASSUME IInv, IInv', InsideInv, PrefixInv, sliceFreq # 0, ~finished,
         pc <= Len(program), program[pc].call \notin {"then", "else"},
         pc' = pc + 1, UNCHANGED <<case, branchMap, path>>
  PROVE  PrefixInv'
<1> DEFINE P(A) == PathOf(program, A)
<1>1. program' = program /\ sliceFreq' = sliceFreq
  BY SameProgram
<1>2. /\ Len(program) \in Nat /\ pc \in Nat
      /\ \A A : PathOf(program, A)[pc] = Walked(program, A, PathOf(program, A), pc)
      /\ pc \in 1 .. Len(program)
  BY CallFacts
<1>3. SUFFICES ASSUME NEW A \in Decisions, Agrees(A)' PROVE path' \o Rest(A)' = P(A)[1]
  BY <1>1 DEF PrefixInv
<1>4. Agrees(A)
  BY <1>3 DEF Agrees
<1>5. path \o Rest(A) = P(A)[1]
  BY <1>4 DEF PrefixInv
<1>6. P(A)[pc] = P(A)[pc + 1]
  BY <1>2 DEF Walked
<1>7. Rest(A) = P(A)[pc]
  BY DEF Rest
<1>8. Rest(A)' = P(A)[pc + 1]
  <2>1. CASE pc + 1 <= Len(program) /\ program[pc + 1].call = "else"
    <3>1. Last(stack') = TRUE
      BY <1>1, <2>1, ElsePassed
    <3> QED
      BY <1>1, <3>1 DEF Rest
  <2>2. CASE ~(pc + 1 <= Len(program) /\ program[pc + 1].call = "else")
    BY <1>1, <2>2 DEF Rest
  <2> QED
    BY <2>1, <2>2
<1> QED
  BY <1>5, <1>6, <1>7, <1>8

(* next_slice() starts over.                                               *)
LEMMA PrefixNextSlice ==
  ASSUME IInv, NextSlice, sliceFreq # 0
  PROVE  PrefixInv'
<1>1. Nested(program) /\ Len(program) \in Nat /\ program' = program
  BY ProgramFacts, SameProgram DEF IInv, TypeInv, NextSlice
<1>2. CASE Flippable = {}
  BY <1>2 DEF NextSlice, PrefixInv
<1>3. CASE Flippable # {}
  <2>1. pc' = 1 /\ path' = <<>>
    BY <1>3 DEF NextSlice
  <2>2. ASSUME NEW A PROVE path' \o Rest(A)' = PathOf(program, A)[1]
    <3>1. Rest(A)' = PathOf(program, A)[1]
      BY <1>1, <2>1, FirstToken DEF Rest
    <3>2. PathOf(program, A)[1] \in Seq(Nat)
      BY <1>1, PathType
    <3> QED
      BY <2>1, <3>1, <3>2
  <2> QED
    BY <1>1, <2>2 DEF PrefixInv
<1> QED
  BY <1>2, <1>3

(* Every step keeps the slice on its path.                                 *)
LEMMA PrefixPreserves == IInv /\ InsideInv /\ PrefixInv /\ [Next]_vars => PrefixInv'
<1> SUFFICES ASSUME IInv, InsideInv, PrefixInv, [Next]_vars PROVE PrefixInv'
  OBVIOUS
<1>1. IInv'
  BY StepPreserves
<1>2. case' = case /\ program' = program /\ sliceFreq' = sliceFreq
  <2>1. case' = case
    BY DEF Next, vars, BeginThenBranch, BeginElseBranch, EndBranch, Proceed, NextSlice
  <2> QED
    BY <2>1, SameProgram
<1> SUFFICES ASSUME sliceFreq # 0 PROVE PrefixInv'
  BY <1>2 DEF PrefixInv
<1>3. CASE BeginThenBranch
  BY <1>3, PrefixThen
<1>4. CASE BeginElseBranch
  BY <1>4, PrefixElse
<1>5. CASE EndBranch
  BY <1>1, <1>5, PrefixPlain DEF EndBranch, Calls, Token
<1>6. CASE Proceed
  BY <1>1, <1>6, PrefixPlain DEF Proceed, Call, Token
<1>7. CASE NextSlice
  BY <1>7, PrefixNextSlice
<1>8. CASE UNCHANGED vars
  BY <1>2, <1>8 DEF vars, PrefixInv, Agrees, Rest
<1> QED
  BY <1>3, <1>4, <1>5, <1>6, <1>7, <1>8 DEF Next

-----------------------------------------------------------------------------
(* Choices that are behind the loop: where they first differ from the      *)
(* decisions, the decision has been flipped.                               *)
Covered(A) ==
  \E l \in DOMAIN branchMap :
    /\ branchMap[l].flip /\ A[l] # branchMap[l].execute
    /\ \A k \in DOMAIN branchMap : k < l => A[k] = branchMap[k].execute

(* The paths explored are walks of the program: of all choices that are    *)
(* behind the loop, and at the end of all.                                 *)
ExploredInv ==
  sliceFreq # 0 =>
    /\ \A way \in explored : \E A \in Decisions : way = PathOf(program, A)[1]
    /\ ~finished => \A A \in Decisions : Covered(A) => PathOf(program, A)[1] \in explored
    /\ finished => \A A \in Decisions : PathOf(program, A)[1] \in explored

(* Where decisions differ there is a first difference.                     *)
LEMMA FirstDifference ==
  ASSUME DOMAIN branchMap \subseteq Nat, NEW A, ~Agrees(A)
  PROVE  \E m \in DOMAIN branchMap :
           /\ A[m] # branchMap[m].execute
           /\ \A k \in DOMAIN branchMap : k < m => A[k] = branchMap[k].execute
<1> DEFINE T == { l \in DOMAIN branchMap : A[l] # branchMap[l].execute }
<1>1. T \in SUBSET Nat /\ T # {}
  BY DEF Agrees
<1>2. PICK m \in T : \A y \in T : m <= y
  <2> HIDE DEF T
  <2> QED BY <1>1, LeastNat
<1>3. ASSUME NEW k \in DOMAIN branchMap, k < m PROVE A[k] = branchMap[k].execute
  <2>1. k \notin T
    <3>1. k \in Nat /\ m \in Nat
      BY <1>1, <1>2
    <3> QED
      BY <1>2, <1>3, <3>1
  <2> QED
    BY <2>1
<1> QED
  BY <1>2, <1>3

(* The slice that ends has the path of the choices that agree with it.     *)
LEMMA EndedPath ==
  ASSUME IInv, PrefixInv, sliceFreq # 0, ~finished, pc > Len(program)
  PROVE  /\ \A A \in Decisions : Agrees(A) => path = PathOf(program, A)[1]
         /\ \E A \in Decisions : Agrees(A)
<1>1. /\ Nested(program) /\ Len(program) \in Nat /\ pc \in 1 .. Len(program) + 1
      /\ path \in Seq(Blocks(program))
      /\ branchMap \in [DOMAIN branchMap -> [execute : BOOLEAN, flip : BOOLEAN]]
  BY ProgramFacts DEF IInv, TypeInv
<1>2. ASSUME NEW A \in Decisions, Agrees(A) PROVE path = PathOf(program, A)[1]
  <2>1. PathOf(program, A)[pc] = Walked(program, A, PathOf(program, A), pc)
    BY <1>1, PathSteps
  <2>2. PathOf(program, A)[pc] = <<>>
    BY <2>1 DEF Walked
  <2>3. Rest(A) = <<>>
    BY <1>1, <2>2 DEF Rest
  <2>4. path \o Rest(A) = PathOf(program, A)[1]
    BY <1>2 DEF PrefixInv
  <2>5. path \o <<>> = path
    BY <1>1
  <2> QED
    BY <2>3, <2>4, <2>5
<1>3. \E A \in Decisions : Agrees(A)
  <2> DEFINE A == [l \in Nat |-> IF l \in DOMAIN branchMap THEN branchMap[l].execute ELSE TRUE]
  <2>1. A \in Decisions
    BY <1>1 DEF Decisions
  <2>2. DOMAIN branchMap \subseteq Nat
    BY DEF IInv, TypeInv
  <2>3. Agrees(A)
    BY <2>2 DEF Agrees
  <2> QED
    BY <2>1, <2>3
<1> QED
  BY <1>2, <1>3

(* At the start nothing is behind the loop.                                *)
LEMMA ExploredStarts == Init => ExploredInv
<1> SUFFICES ASSUME Init PROVE ExploredInv
  OBVIOUS
<1>1. explored = {} /\ finished = FALSE /\ branchMap = <<>>
  BY DEF Init
<1>2. DOMAIN branchMap = {}
  BY <1>1
<1>3. \A A : ~Covered(A)
  BY <1>2 DEF Covered
<1> QED
  BY <1>1, <1>3 DEF ExploredInv

(* next_slice() moves past the choices that agree with the slice.          *)
LEMMA NextSliceCovers ==
  ASSUME IInv, PrefixInv, ExploredInv, NextSlice, Flippable # {}, sliceFreq # 0,
         NEW A \in Decisions, Covered(A)'
  PROVE  Covered(A) \/ Agrees(A)
<1>1. /\ TypeInv /\ DOMAIN branchMap \subseteq Nat
      /\ \A l \in DOMAIN branchMap : branchMap[l] \in [execute : BOOLEAN, flip : BOOLEAN]
      /\ A \in [Nat -> BOOLEAN]
  BY DEF IInv, TypeInv, Decisions
<1> DEFINE h == Highest
<1>2. /\ h \in Flippable /\ h \in DOMAIN branchMap
      /\ \A k \in DOMAIN branchMap : k > h => k \in Passed /\ branchMap[k].flip
  BY <1>1, FlippedFacts
<1>3. branchMap' = [l \in DOMAIN branchMap |->
           IF l \in Passed THEN [execute |-> branchMap[l].execute, flip |-> FALSE]
           ELSE IF l = h THEN [execute |-> ~branchMap[l].execute, flip |-> TRUE]
           ELSE branchMap[l]]
  BY DEF NextSlice
<1> HIDE DEF h
<1>4. PICK l \in DOMAIN branchMap' :
        /\ branchMap'[l].flip /\ A[l] # branchMap'[l].execute
        /\ \A k \in DOMAIN branchMap' : k < l => A[k] = branchMap'[k].execute
  BY DEF Covered
<1>5. h \notin Passed /\ DOMAIN branchMap' = DOMAIN branchMap
  BY <1>2, <1>3 DEF Flippable
<1>6. ASSUME NEW k \in DOMAIN branchMap, k < h PROVE branchMap'[k] = branchMap[k]
  <2>1. PICK m \in DOMAIN branchMap : m >= h /\ ~branchMap[m].flip
    BY <1>2, <1>5 DEF Passed
  <2>2. m >= k /\ k # h
    BY <1>1, <1>2, <1>6, <2>1
  <2>3. k \notin Passed
    BY <2>1, <2>2 DEF Passed
  <2> QED
    BY <1>3, <2>2, <2>3
<1>7. l \notin Passed
  BY <1>3, <1>4, <1>5
<1>8. l = h \/ l < h
  BY <1>1, <1>2, <1>4, <1>5, <1>7
<1>9. CASE l < h
  <2>1. branchMap'[l] = branchMap[l]
    BY <1>4, <1>5, <1>6, <1>9
  <2>2. \A k \in DOMAIN branchMap : k < l => branchMap'[k] = branchMap[k]
    BY <1>1, <1>2, <1>4, <1>5, <1>6, <1>9
  <2> QED
    BY <1>4, <1>5, <2>1, <2>2 DEF Covered
<1>10. CASE l = h
  <2>1. branchMap'[h].execute = ~branchMap[h].execute
    BY <1>2, <1>3, <1>5
  <2>2. A[h] = branchMap[h].execute
    BY <1>1, <1>2, <1>4, <1>10, <2>1
  <2>3. \A k \in DOMAIN branchMap : k < h => A[k] = branchMap[k].execute
    BY <1>4, <1>5, <1>6, <1>10
  <2> SUFFICES ASSUME ~Agrees(A) PROVE Covered(A)
    OBVIOUS
  <2>4. PICK m \in DOMAIN branchMap :
          /\ A[m] # branchMap[m].execute
          /\ \A k \in DOMAIN branchMap : k < m => A[k] = branchMap[k].execute
    BY <1>1, FirstDifference
  <2>5. m > h
    BY <1>1, <1>2, <2>2, <2>3, <2>4
  <2> QED
    BY <1>2, <2>4, <2>5 DEF Covered
<1> QED
  BY <1>8, <1>9, <1>10

(* next_slice() adds the path of the slice.                                *)
LEMMA ExploredNextSlice ==
  ASSUME IInv, PrefixInv, ExploredInv, NextSlice, sliceFreq # 0
  PROVE  ExploredInv'
<1> DEFINE P(A) == PathOf(program, A)
<1>1. program' = program /\ DOMAIN branchMap \subseteq Nat
  BY SameProgram DEF NextSlice, IInv, TypeInv
<1>2. explored' = explored \union {path} /\ ~finished /\ pc > Len(program)
  BY DEF NextSlice
<1>3. /\ \A A \in Decisions : Agrees(A) => path = P(A)[1]
      /\ \E A \in Decisions : Agrees(A)
  BY <1>2, EndedPath
<1>4. /\ \A way \in explored : \E A \in Decisions : way = P(A)[1]
      /\ \A A \in Decisions : Covered(A) => P(A)[1] \in explored
  BY <1>2 DEF ExploredInv
<1>5. \A way \in explored' : \E A \in Decisions : way = P(A)[1]
  BY <1>2, <1>3, <1>4
<1>6. ASSUME NEW A \in Decisions, Covered(A) \/ Agrees(A) PROVE P(A)[1] \in explored'
  BY <1>2, <1>3, <1>4, <1>6
<1>7. CASE Flippable = {}
  <2>1. finished'
    BY <1>7 DEF NextSlice
  <2>2. ASSUME NEW A \in Decisions PROVE P(A)[1] \in explored'
    <3> SUFFICES ASSUME ~Agrees(A) PROVE Covered(A)
      BY <1>6
    <3>1. PICK m \in DOMAIN branchMap :
            /\ A[m] # branchMap[m].execute
            /\ \A k \in DOMAIN branchMap : k < m => A[k] = branchMap[k].execute
      BY <1>1, FirstDifference
    <3>2. m \in Passed /\ m >= m
      BY <1>1, <1>7, <3>1 DEF Flippable
    <3>3. branchMap[m].flip
      BY <3>2 DEF Passed
    <3> QED
      BY <3>1, <3>3 DEF Covered
  <2> QED
    BY <1>1, <1>5, <2>1, <2>2 DEF ExploredInv
<1>8. CASE Flippable # {}
  <2>1. ~finished'
    BY <1>2, <1>8 DEF NextSlice
  <2>2. ASSUME NEW A \in Decisions, Covered(A)' PROVE P(A)[1] \in explored'
    BY <1>6, <1>8, <2>2, NextSliceCovers
  <2> QED
    BY <1>1, <1>5, <2>1, <2>2 DEF ExploredInv
<1> QED
  BY <1>7, <1>8

(* Every step keeps what is behind the loop explored.                      *)
LEMMA ExploredPreserves == IInv /\ PrefixInv /\ ExploredInv /\ [Next]_vars => ExploredInv'
<1> SUFFICES ASSUME IInv, PrefixInv, ExploredInv, [Next]_vars PROVE ExploredInv'
  OBVIOUS
<1>1. case' = case /\ program' = program /\ sliceFreq' = sliceFreq
  <2>1. case' = case
    BY DEF Next, vars, BeginThenBranch, BeginElseBranch, EndBranch, Proceed, NextSlice
  <2> QED
    BY <2>1, SameProgram
<1> SUFFICES ASSUME sliceFreq # 0 PROVE ExploredInv'
  BY <1>1 DEF ExploredInv
<1>2. CASE UNCHANGED <<branchMap, finished, explored>>
  BY <1>1, <1>2 DEF ExploredInv, Covered
<1>3. CASE BeginThenBranch
  <2> DEFINE loc == Token.loc
  <2>1. branchMap' = Met(loc) /\ finished' = finished /\ explored' = explored
    BY <1>3 DEF BeginThenBranch
  <2> HIDE DEF loc
  <2>2. /\ DOMAIN branchMap \subseteq DOMAIN branchMap'
        /\ \A l \in DOMAIN branchMap : branchMap'[l] = branchMap[l]
        /\ \A l \in DOMAIN branchMap' : branchMap'[l].flip => l \in DOMAIN branchMap
    BY <2>1 DEF Met, Lookup
  <2>3. ASSUME NEW A, Covered(A)' PROVE Covered(A)
    <3>1. PICK l \in DOMAIN branchMap' :
            /\ branchMap'[l].flip /\ A[l] # branchMap'[l].execute
            /\ \A k \in DOMAIN branchMap' : k < l => A[k] = branchMap'[k].execute
      BY <2>3 DEF Covered
    <3>2. l \in DOMAIN branchMap
      BY <2>2, <3>1
    <3> QED
      BY <2>2, <3>1, <3>2 DEF Covered
  <2> QED
    BY <1>1, <2>1, <2>3 DEF ExploredInv
<1>4. CASE NextSlice
  BY <1>4, ExploredNextSlice
<1> QED
  BY <1>2, <1>3, <1>4 DEF Next, vars, BeginElseBranch, EndBranch, Proceed

(* What the loop explores, for any program: the paths that it takes with   *)
(* the answers of begin_then_branch chosen once for each location.  The    *)
(* paths are all explored, and nothing else.                               *)
EveryWalk ==
  finished /\ sliceFreq > 0 => explored = { PathOf(program, A)[1] : A \in Decisions }

(* When next_slice() returns false every walk has been a slice.            *)
THEOREM WalksAreExplored == Spec => []EveryWalk
<1>1. ASSUME IInv, ExploredInv PROVE EveryWalk
  <2> SUFFICES ASSUME finished, sliceFreq > 0
               PROVE  explored = { PathOf(program, A)[1] : A \in Decisions }
    BY DEF EveryWalk
  <2>1. sliceFreq # 0
    BY <1>1, ProgramFacts DEF IInv, TypeInv
  <2> QED
    BY <1>1, <2>1 DEF ExploredInv
<1>2. Spec => Init /\ [][Next]_vars
  BY PTL DEF Spec
<1>3. Spec => []IInv
  BY <1>2, Inductive, PTL
<1>4. Spec => []InsideInv
  BY <1>2, <1>3, InsideStarts, InsidePreserves, PTL
<1>5. Spec => []PrefixInv
  BY <1>2, <1>3, <1>4, PrefixStarts, PrefixPreserves, PTL
<1>6. Spec => []ExploredInv
  BY <1>2, <1>3, <1>5, ExploredStarts, ExploredPreserves, PTL
<1> QED
  BY <1>1, <1>3, <1>6, PTL

(* The slices made are the paths of the program, all of them and nothing   *)
(* else, when no location has two branches: the answer is kept by          *)
(* location, and a second branch of a location repeats the first one's.    *)
THEOREM PathsAreExplored ==
  ASSUME \A c \in Cases : OneVisit(c.program)
  PROVE  Spec => []EveryPath
<1>1. ASSUME IInv, EveryWalk PROVE EveryPath
  <2>1. case \in Cases
    BY <1>1 DEF IInv, TypeInv
  <2>2. /\ Nested(program) /\ OneVisit(program)
        /\ \A i \in DOMAIN program : program[i].call \in Call => program[i].loc \in Nat
    BY <2>1, ProgramFacts DEF program
  <2>3. Ways(program) = { PathOf(program, A)[1] : A \in Decisions }
    BY <2>2, WaysAreWalks
  <2> QED
    BY <1>1, <2>3 DEF EveryPath, EveryWalk
<1>2. Spec => Init /\ [][Next]_vars
  BY PTL DEF Spec
<1>3. Spec => []IInv
  BY <1>2, Inductive, PTL
<1> QED
  BY <1>1, <1>3, WalksAreExplored, PTL
=============================================================================
