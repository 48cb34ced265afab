----------------------------- MODULE DataLemmas ------------------------------
(***************************************************************************)
(* Facts about numbers and sequences that the other proofs cite by name:   *)
(* induction, and what the operators of Sequences and SequencesExt return, *)
(* element by element.  The last part is about Clocks: what it computes    *)
(* clock by clock is the transitive closure of the constraints.            *)
(*                                                                         *)
(* The library's induction theorems have an operator as a parameter.  Here *)
(* induction is over a set of numbers, from the fact that a nonempty set   *)
(* of numbers has a least element.                                         *)
(***************************************************************************)
EXTENDS Integers, SequencesExt, Clocks, FiniteSetTheorems, WellFoundedInduction, TLAPS

LEMMA LessThan == \A x, y \in Nat : <<x, y>> \in OpToRel(<, Nat) <=> x < y
BY DEF OpToRel

(* A nonempty set of numbers has a least element.                          *)
LEMMA LeastNat ==
  ASSUME NEW T \in SUBSET Nat, T # {}
  PROVE  \E x \in T : \A y \in T : x <= y
<1> DEFINE R == OpToRel(<, Nat)
<1>1. IsWellFoundedOn(R, Nat)
  BY NatLessThanWellFounded
<1>2. \A x, y \in Nat : <<x, y>> \in R <=> x < y
  BY LessThan
<1> HIDE DEF R
<1>3. PICK x \in T : \A y \in T : ~(<<y, x>> \in R)
  BY <1>1, WFMin
<1>4. ASSUME NEW y \in T PROVE x <= y
  <2>1. x \in Nat /\ y \in Nat
    OBVIOUS
  <2>2. ~ (y < x)
    BY <1>2, <1>3, <2>1
  <2> QED
    BY <2>1, <2>2
<1> QED
  BY <1>4

(* Induction: a set with 0 and the successor of each number it has.        *)
LEMMA SetInduction ==
  ASSUME NEW S, 0 \in S, \A n \in Nat : n \in S => n + 1 \in S
  PROVE  \A n \in Nat : n \in S
<1> SUFFICES ASSUME ~(Nat \subseteq S) PROVE FALSE
  OBVIOUS
<1> DEFINE T == Nat \ S
<1>1. T \in SUBSET Nat /\ T # {}
  OBVIOUS
<1> HIDE DEF T
<1>2. PICK x \in T : \A y \in T : x <= y
  BY <1>1, LeastNat
<1>3. x \in Nat /\ x \notin S
  BY <1>1, <1>2 DEF T
<1>4. x # 0 /\ x - 1 \in Nat
  BY <1>3
<1>5. x - 1 \in S
  BY <1>2, <1>4 DEF T
<1> QED
  BY <1>3, <1>4, <1>5

(* Steps taken one after the other: f[k] is what a has become after the    *)
(* first k.                                                                *)
Follows(f, a, steps, n) == f[0] = a /\ \A k \in 1 .. n : f[k] = steps[k][f[k - 1]]

LEMMA StepsFollow ==
  ASSUME NEW V, NEW a \in V, NEW n \in Nat, NEW steps \in [1 .. n -> [V -> V]]
  PROVE  \E f \in [0 .. n -> V] : Follows(f, a, steps, n)
<1> DEFINE good == { m \in Nat : m <= n => \E f \in [0 .. m -> V] : Follows(f, a, steps, m) }
<1>1. 0 \in good
  <2> DEFINE f == [k \in 0 .. 0 |-> a]
  <2>1. f \in [0 .. 0 -> V] /\ Follows(f, a, steps, 0)
    BY DEF Follows
  <2> QED
    BY <2>1
<1>2. ASSUME NEW m \in Nat, m \in good PROVE m + 1 \in good
  <2>0. m + 1 \in Nat
    OBVIOUS
  <2> SUFFICES ASSUME m + 1 <= n
               PROVE  \E f \in [0 .. m + 1 -> V] : Follows(f, a, steps, m + 1)
    BY <2>0
  <2>1. PICK f \in [0 .. m -> V] : Follows(f, a, steps, m)
    BY <1>2
  <2> DEFINE g == [k \in 0 .. m + 1 |-> IF k = m + 1 THEN steps[m + 1][f[m]] ELSE f[k]]
  <2>2. g \in [0 .. m + 1 -> V]
    <3>1. m + 1 \in 1 .. n /\ f[m] \in V
      BY <2>1
    <3>2. steps[m + 1] \in [V -> V]
      BY <3>1
    <3>3. steps[m + 1][f[m]] \in V
      BY <3>1, <3>2
    <3>4. \A k \in 0 .. m + 1 : k # m + 1 => f[k] \in V
      <4>1. \A k \in 0 .. m + 1 : k # m + 1 => k \in 0 .. m
        OBVIOUS
      <4> QED
        BY <2>1, <4>1
    <3> QED
      BY <3>3, <3>4
  <2>3. /\ g[m + 1] = steps[m + 1][f[m]]
        /\ \A k \in 0 .. m : g[k] = f[k]
    OBVIOUS
  <2> HIDE DEF g
  <2>4. ASSUME NEW k \in 1 .. m + 1 PROVE g[k] = steps[k][g[k - 1]]
    <3>1. k - 1 \in 0 .. m /\ g[k - 1] = f[k - 1]
      BY <2>3
    <3>2. CASE k = m + 1
      BY <2>3, <3>1, <3>2
    <3>3. CASE k # m + 1
      <4>1. k \in 1 .. m
        BY <3>3
      <4> QED
        BY <2>1, <2>3, <3>1, <4>1 DEF Follows
    <3> QED
      BY <3>2, <3>3
  <2>5. Follows(g, a, steps, m + 1)
    BY <2>1, <2>3, <2>4 DEF Follows
  <2> QED
    BY <2>2, <2>5
<1>3. \A m \in Nat : m \in good
  <2> HIDE DEF good
  <2> QED BY <1>1, <1>2, SetInduction
<1> QED
  BY <1>3

(* A step taken n times: f[k] is what a has become after k steps.          *)
Iterates(f, a, step, n) == f[0] = a /\ \A k \in 1 .. n : f[k] = step[f[k - 1]]

LEMMA IterationExists ==
  ASSUME NEW V, NEW a \in V, NEW step \in [V -> V], NEW n \in Nat
  PROVE  \E f \in [0 .. n -> V] : Iterates(f, a, step, n)
<1> DEFINE steps == [k \in 1 .. n |-> step]
<1>1. steps \in [1 .. n -> [V -> V]] /\ \A k \in 1 .. n : steps[k] = step
  OBVIOUS
<1> HIDE DEF steps
<1>2. PICK f \in [0 .. n -> V] : Follows(f, a, steps, n)
  BY <1>1, StepsFollow
<1> QED
  BY <1>1, <1>2 DEF Follows, Iterates

(* Induction from the largest number down.                                 *)
LEMMA DownInduction ==
  ASSUME NEW n \in Nat, NEW S, \A b \in 1 .. n : (\A x \in 1 .. n : x > b => x \in S) => b \in S
  PROVE  \A b \in 1 .. n : b \in S
<1> DEFINE good == { j \in Nat : \A b \in 1 .. n : b > n - j => b \in S }
<1>1. 0 \in good
  OBVIOUS
<1>2. ASSUME NEW j \in Nat, j \in good PROVE j + 1 \in good
  <2>1. j + 1 \in Nat
    OBVIOUS
  <2> SUFFICES ASSUME NEW b \in 1 .. n, b > n - (j + 1) PROVE b \in S
    BY <2>1
  <2>2. \A x \in 1 .. n : x > b => x \in S
    BY <1>2
  <2> QED
    BY <2>2
<1>3. \A j \in Nat : j \in good
  <2> HIDE DEF good
  <2> QED BY <1>1, <1>2, SetInduction
<1>4. n \in good /\ \A b \in 1 .. n : b > n - n
  BY <1>3
<1> QED
  BY <1>4

-----------------------------------------------------------------------------
(* All but the last element.                                               *)
LEMMA FrontFacts ==
  ASSUME NEW S, NEW q \in Seq(S), q # <<>>
  PROVE  /\ Front(q) \in Seq(S)
         /\ Len(Front(q)) = Len(q) - 1
         /\ \A i \in 1 .. Len(q) - 1 : Front(q)[i] = q[i]
         /\ Last(q) = q[Len(q)]
         /\ Last(q) \in S
BY DEF Front, Last

(* Front stays in the type, of the empty sequence too.                     *)
LEMMA FrontInSeq ==
  ASSUME NEW S, NEW q \in Seq(S)
  PROVE  Front(q) \in Seq(S)
<1>1. CASE q = <<>>
  BY <1>1 DEF Front
<1>2. CASE q # <<>>
  BY <1>2, FrontFacts
<1> QED
  BY <1>1, <1>2

(* The first j elements.                                                   *)
LEMMA PrefixFacts ==
  ASSUME NEW S, NEW q \in Seq(S), NEW j \in 0 .. Len(q)
  PROVE  /\ SubSeq(q, 1, j) \in Seq(S)
         /\ Len(SubSeq(q, 1, j)) = j
         /\ \A i \in 1 .. j : SubSeq(q, 1, j)[i] = q[i]
OBVIOUS

(* One more element at the end.                                            *)
LEMMA AppendFacts ==
  ASSUME NEW S, NEW q \in Seq(S), NEW x \in S
  PROVE  /\ Append(q, x) \in Seq(S)
         /\ Len(Append(q, x)) = Len(q) + 1
         /\ Append(q, x)[Len(q) + 1] = x
         /\ \A i \in DOMAIN q : Append(q, x)[i] = q[i]
OBVIOUS

(* A sequence is empty iff its length is zero.                             *)
LEMMA EmptyFacts ==
  ASSUME NEW S, NEW q \in Seq(S)
  PROVE  Len(q) \in Nat /\ (q = <<>> <=> Len(q) = 0)
OBVIOUS

(* An element of a sequence has the type of its elements.                  *)
LEMMA ElementInSet ==
  ASSUME NEW S, NEW q \in Seq(S), NEW i \in DOMAIN q
  PROVE  q[i] \in S
OBVIOUS

(* Concatenation stays in the type.                                        *)
LEMMA ConcatInSeq ==
  ASSUME NEW S, NEW q \in Seq(S), NEW r \in Seq(S)
  PROVE  q \o r \in Seq(S)
OBVIOUS

(* Events appended in two calls are those appended in one.                 *)
LEMMA ConcatTwice ==
  ASSUME NEW S, NEW q \in Seq(S), NEW r \in Seq(S), NEW x \in S
  PROVE  (q \o r) \o <<x>> = q \o (r \o <<x>>)
OBVIOUS

(* A sequence changed at one of its indices. *)
LEMMA ExceptInSeq ==
  ASSUME NEW S, NEW q \in Seq(S), NEW i \in DOMAIN q, NEW x \in S
  PROVE  /\ [q EXCEPT ![i] = x] \in Seq(S)
         /\ Len([q EXCEPT ![i] = x]) = Len(q)
         /\ [q EXCEPT ![i] = x][i] = x
         /\ \A j \in DOMAIN q \ {i} : [q EXCEPT ![i] = x][j] = q[j]
OBVIOUS

(* One more element in front: std::forward_list::push_front.               *)
LEMMA PrependFacts ==
  ASSUME NEW S, NEW q \in Seq(S), NEW x \in S
  PROVE  /\ <<x>> \o q \in Seq(S)
         /\ Len(<<x>> \o q) = Len(q) + 1
         /\ (<<x>> \o q)[1] = x
         /\ \A i \in 1 .. Len(q) : (<<x>> \o q)[i + 1] = q[i]
OBVIOUS

(* All but the first element: std::forward_list::pop_front.                *)
LEMMA TailFacts ==
  ASSUME NEW S, NEW q \in Seq(S), q # <<>>
  PROVE  /\ Tail(q) \in Seq(S)
         /\ Len(Tail(q)) = Len(q) - 1
         /\ \A i \in 1 .. Len(q) - 1 : Tail(q)[i] = q[i + 1]
         /\ Head(q) = q[1]
         /\ Head(q) \in S
OBVIOUS

(* Flattening appends one sequence after the other: f[k] has the first k.  *)
Flattens(f, seqs) == f[0] = <<>> /\ \A k \in 1 .. Len(seqs) : f[k] = f[k - 1] \o seqs[k]

Flatten(seqs, f, i) == IF i = 1 THEN seqs[i] ELSE f[i - 1] \o seqs[i]

LEMMA FlattenFacts ==
  ASSUME NEW S, NEW seqs \in Seq(Seq(S))
  PROVE  \E f : Flattens(f, seqs) /\ FlattenSeq(seqs) = f[Len(seqs)]
<1> DEFINE Good(f, n) == f = [i \in 1 .. n |-> Flatten(seqs, f, i)]
           good == { n \in Nat : \E f : Good(f, n) }
           ch == CHOOSE f : Good(f, Len(seqs))
<1>1. 0 \in good
  <2>1. Good(<<>>, 0)
    OBVIOUS
  <2> QED
    BY <2>1
<1>2. ASSUME NEW n \in Nat, n \in good PROVE n + 1 \in good
  <2>1. PICK old : Good(old, n)
    BY <1>2
  <2> DEFINE new == [i \in 1 .. n + 1 |-> Flatten(seqs, old, i)]
  <2>2. ASSUME NEW i \in 1 .. n + 1 PROVE Flatten(seqs, old, i) = Flatten(seqs, new, i)
    <3>1. CASE i = 1
      BY <3>1 DEF Flatten
    <3>2. CASE i # 1
      <4>1. i - 1 \in 1 .. n /\ i - 1 \in 1 .. n + 1
        BY <3>2
      <4>2. new[i - 1] = old[i - 1]
        BY <2>1, <4>1
      <4> HIDE DEF new
      <4> QED
        BY <3>2, <4>2 DEF Flatten
    <3> QED
      BY <3>1, <3>2
  <2>3. new = [i \in 1 .. n + 1 |-> Flatten(seqs, new, i)]
    <3>1. \A i \in 1 .. n + 1 : Flatten(seqs, old, i) = Flatten(seqs, new, i)
      BY <2>2
    <3>2. new = [i \in 1 .. n + 1 |-> Flatten(seqs, old, i)]
      OBVIOUS
    <3> HIDE DEF new
    <3> QED
      BY <3>1, <3>2
  <2>4. n + 1 \in Nat
    OBVIOUS
  <2> HIDE DEF new
  <2> QED
    BY <2>3, <2>4, Zenon
<1>3. \A n \in Nat : n \in good
  <2> HIDE DEF good
  <2> QED BY <1>1, <1>2, SetInduction
<1>4. Len(seqs) \in Nat
  OBVIOUS
<1>5. ch = [i \in 1 .. Len(seqs) |-> Flatten(seqs, ch, i)]
  BY <1>3, <1>4, Zenon
<1>6. FlattenSeq(seqs) = IF Len(seqs) = 0 THEN seqs ELSE ch[Len(seqs)]
  BY DEF FlattenSeq, Flatten
<1> HIDE DEF ch
<1> DEFINE f == [k \in 0 .. Len(seqs) |-> IF k = 0 THEN <<>> ELSE ch[k]]
<1>7. f[0] = <<>> /\ \A k \in 1 .. Len(seqs) : f[k] = ch[k] /\ ch[k] = Flatten(seqs, ch, k)
  <2>1. \A k \in 1 .. Len(seqs) : ch[k] = Flatten(seqs, ch, k)
    BY <1>5, Zenon
  <2>2. f[0] = <<>> /\ \A k \in 1 .. Len(seqs) : f[k] = ch[k]
    BY <1>4
  <2> QED
    BY <2>1, <2>2
<1> HIDE DEF f
<1>8. ASSUME NEW k \in 1 .. Len(seqs) PROVE f[k] = f[k - 1] \o seqs[k]
  <2>1. CASE k = 1
    <3>1. f[k] = seqs[k] /\ f[k - 1] = <<>> /\ seqs[k] \in Seq(S)
      BY <1>7, <2>1 DEF Flatten
    <3>2. \A q \in Seq(S) : <<>> \o q = q
      OBVIOUS
    <3> QED
      BY <3>1, <3>2
  <2>2. CASE k # 1
    <3>1. k - 1 \in 1 .. Len(seqs)
      BY <2>2
    <3> QED
      BY <1>7, <2>2, <3>1 DEF Flatten
  <2> QED
    BY <2>1, <2>2
<1>9. FlattenSeq(seqs) = f[Len(seqs)]
  <2>1. CASE Len(seqs) = 0
    BY <1>6, <1>7, <2>1
  <2>2. CASE Len(seqs) # 0
    <3>1. Len(seqs) \in 1 .. Len(seqs)
      BY <1>4, <2>2
    <3> QED
      BY <1>6, <1>7, <2>2, <3>1
  <2> QED
    BY <2>1, <2>2
<1> QED
  BY <1>7, <1>8, <1>9 DEF Flattens

(* Prefixes grow by one element at a time.                                 *)
LEMMA PrefixStep ==
  ASSUME NEW S, NEW q \in Seq(S), NEW k \in Nat, k + 1 <= Len(q)
  PROVE  /\ q[k + 1] \in S
         /\ SubSeq(q, 1, k) \in Seq(S)
         /\ SubSeq(q, 1, k + 1) = Append(SubSeq(q, 1, k), q[k + 1])
OBVIOUS

LEMMA ConcatAppend ==
  ASSUME NEW S, NEW q \in Seq(S), NEW r \in Seq(S), NEW x \in S
  PROVE  q \o Append(r, x) = Append(q \o r, x)
OBVIOUS

LEMMA SeqDomain ==
  ASSUME NEW S, NEW q \in Seq(S)
  PROVE  DOMAIN q = 1 .. Len(q)
OBVIOUS

LEMMA ConcatAt ==
  ASSUME NEW S, NEW q \in Seq(S), NEW r \in Seq(S)
  PROVE  /\ q \o r \in Seq(S) /\ Len(q) \in Nat /\ Len(r) \in Nat /\ Len(q \o r) = Len(q) + Len(r)
         /\ \A k \in 1 .. Len(q) : (q \o r)[k] = q[k]
         /\ \A k \in 1 .. Len(r) : (q \o r)[Len(q) + k] = r[k]
OBVIOUS

(* One more sequence to flatten.                                           *)
LEMMA FlattenAppend ==
  ASSUME NEW S, NEW seqs \in Seq(Seq(S)), NEW x \in Seq(S)
  PROVE  FlattenSeq(Append(seqs, x)) = FlattenSeq(seqs) \o x
<1> DEFINE more == Append(seqs, x)
           n == Len(seqs)
<1>1. /\ n \in Nat /\ more \in Seq(Seq(S)) /\ Len(more) = n + 1 /\ more[n + 1] = x
      /\ \A k \in 1 .. n : more[k] = seqs[k]
  <2> DEFINE T == Seq(S)
  <2>1. seqs \in Seq(T) /\ x \in T
    OBVIOUS
  <2> HIDE DEF T
  <2>2. /\ n \in Nat /\ more \in Seq(T) /\ Len(more) = n + 1 /\ more[n + 1] = x
        /\ \A k \in 1 .. n : more[k] = seqs[k]
    BY <2>1
  <2> QED
    BY <2>2 DEF T
<1> HIDE DEF more
<1>2. PICK f : Flattens(f, seqs) /\ FlattenSeq(seqs) = f[n]
  BY FlattenFacts
<1>3. PICK g : Flattens(g, more) /\ FlattenSeq(more) = g[Len(more)]
  BY <1>1, FlattenFacts
<1> HIDE DEF n
<1> DEFINE good == { k \in Nat : k <= n => g[k] = f[k] }
<1>4. 0 \in good
  BY <1>2, <1>3 DEF Flattens
<1>5. ASSUME NEW k \in Nat, k \in good PROVE k + 1 \in good
  <2>1. k + 1 \in Nat
    OBVIOUS
  <2> SUFFICES ASSUME k + 1 <= n PROVE g[k + 1] = f[k + 1]
    BY <2>1
  <2>2. k + 1 \in 1 .. n /\ k + 1 \in 1 .. Len(more) /\ (k + 1) - 1 = k /\ k <= n
    BY <1>1
  <2>3. f[k + 1] = f[k] \o seqs[k + 1]
    BY <1>2, <2>2 DEF Flattens, n
  <2>4. g[k + 1] = g[k] \o more[k + 1]
    BY <1>3, <2>2 DEF Flattens
  <2> QED
    BY <1>1, <1>5, <2>2, <2>3, <2>4
<1>6. \A k \in Nat : k \in good
  <2> HIDE DEF good
  <2> QED BY <1>4, <1>5, SetInduction
<1>7. g[n] = f[n]
  BY <1>1, <1>6
<1>8. g[n + 1] = g[n] \o more[n + 1]
  <2>1. n + 1 \in 1 .. Len(more) /\ (n + 1) - 1 = n
    BY <1>1
  <2> QED
    BY <1>3, <2>1 DEF Flattens
<1> QED
  BY <1>1, <1>2, <1>3, <1>7, <1>8 DEF more

-----------------------------------------------------------------------------
(* Entailed(constraints), which module Clocks computes clock by clock, is  *)
(* the least transitive relation that has the constraints, for any finite  *)
(* set of clocks; and how it grows when a clock is added above some others.*)
(* The fold that Entailed is, as the recursive function that it defines.   *)
ClocksOf(constraints) == UNION { {c[1], c[2]} : c \in constraints }

Through(k, order) ==
  order \union { <<c[1], d[2]>> : c \in { a \in order : a[2] = k },
                                 d \in { a \in order : a[1] = k } }

Some(s) == CHOOSE x \in s : TRUE

Step(s, steps, constraints) ==
  IF s = {} THEN constraints ELSE Through(Some(s), steps[s \ {Some(s)}])

Steps(constraints) ==
  CHOOSE steps :
    steps = [s \in SUBSET ClocksOf(constraints) |-> Step(s, steps, constraints)]

LEMMA FoldUnfolded ==
  ASSUME NEW constraints
  PROVE  Entailed(constraints) = Steps(constraints)[ClocksOf(constraints)]
BY DEF Entailed, FoldSet, MapThenFoldSet, ClocksOf, Step, Steps, Some, Through

LEMMA SomeFacts ==
  ASSUME NEW s, s # {}
  PROVE  Some(s) \in s
BY DEF Some

LEMMA SmallerSet ==
  ASSUME NEW S, IsFiniteSet(S), NEW s \in SUBSET S, NEW x \in s
  PROVE  /\ s \ {x} \in SUBSET S
         /\ Cardinality(s) \in Nat /\ Cardinality(s \ {x}) \in Nat
         /\ Cardinality(s \ {x}) = Cardinality(s) - 1
<1>1. IsFiniteSet(s)
  BY FS_Subset
<1>2. Cardinality(s \ {x}) = Cardinality(s) - 1 /\ IsFiniteSet(s \ {x})
  BY <1>1, FS_RemoveElement
<1> QED
  BY <1>1, <1>2, FS_CardinalityType

(* The recursive function exists, as it has an approximation that is right *)
(* for the sets of up to n clocks, for each n.                             *)
LEMMA StepsExist ==
  ASSUME NEW constraints, NEW S, IsFiniteSet(S)
  PROVE  \E steps : steps = [s \in SUBSET S |-> Step(s, steps, constraints)]
<1> DEFINE Approx(steps, n) ==
             /\ steps = [s \in SUBSET S |-> steps[s]]
             /\ \A s \in SUBSET S : Cardinality(s) <= n => steps[s] = Step(s, steps, constraints)
           good == { n \in Nat : \E steps : Approx(steps, n) }
<1>1. 0 \in good
  <2> DEFINE steps == [s \in SUBSET S |-> constraints]
  <2>1. ASSUME NEW s \in SUBSET S, Cardinality(s) <= 0
        PROVE  s = {}
    <3>1. IsFiniteSet(s) /\ Cardinality(s) \in Nat
      BY FS_Subset, FS_CardinalityType
    <3> QED
      BY <2>1, <3>1, FS_EmptySet
  <2>2. Approx(steps, 0)
    BY <2>1 DEF Step
  <2> QED
    BY <2>2
<1>2. ASSUME NEW n \in Nat, n \in good
      PROVE  n + 1 \in good
  <2>1. PICK old : Approx(old, n)
    BY <1>2
  <2> DEFINE steps == [s \in SUBSET S |-> Step(s, old, constraints)]
  <2>2. ASSUME NEW s \in SUBSET S, Cardinality(s) <= n + 1
        PROVE  steps[s] = Step(s, steps, constraints)
    <3>1. CASE s = {}
      BY <3>1 DEF Step
    <3>2. CASE s # {}
      <4> DEFINE x == Some(s)
      <4>1. x \in s
        BY <3>2, SomeFacts
      <4> HIDE DEF x
      <4>2. s \ {x} \in SUBSET S /\ Cardinality(s \ {x}) <= n
        BY <2>2, <4>1, SmallerSet
      <4>3. old[s \ {x}] = steps[s \ {x}]
        BY <2>1, <4>2
      <4> QED
        BY <3>2, <4>3 DEF Step, x
    <3> QED
      BY <3>1, <3>2
  <2>3. steps = [s \in SUBSET S |-> steps[s]]
    OBVIOUS
  <2> HIDE DEF steps
  <2>4. Approx(steps, n + 1)
    BY <2>2, <2>3, Zenon
  <2>5. n + 1 \in Nat
    OBVIOUS
  <2> HIDE DEF Approx
  <2> QED
    BY <2>4, <2>5
<1>3. \A n \in Nat : n \in good
  <2> HIDE DEF good
  <2> QED BY <1>1, <1>2, SetInduction
<1>4. Cardinality(S) \in Nat /\ \A s \in SUBSET S : Cardinality(s) <= Cardinality(S)
  BY FS_Subset, FS_CardinalityType
<1>5. PICK steps : Approx(steps, Cardinality(S))
  BY <1>3, <1>4
<1> QED
  BY <1>4, <1>5

LEMMA StepsFacts ==
  ASSUME NEW constraints, IsFiniteSet(ClocksOf(constraints)),
         NEW s \in SUBSET ClocksOf(constraints)
  PROVE  Steps(constraints)[s] = Step(s, Steps(constraints), constraints)
<1>1. Steps(constraints)
        = [t \in SUBSET ClocksOf(constraints) |-> Step(t, Steps(constraints), constraints)]
  BY StepsExist, Zenon DEF Steps
<1> HIDE DEF Steps
<1> QED
  BY <1>1

-----------------------------------------------------------------------------
Transitive(order) ==
  \A x, y, z : <<x, y>> \in order /\ <<y, z>> \in order => <<x, z>> \in order

(* Transitive, for the paths through the clocks of s.                      *)
ClosedThrough(order, s) ==
  \A x, z : \A y \in s : <<x, y>> \in order /\ <<y, z>> \in order => <<x, z>> \in order

LEMMA ThroughPairs ==
  ASSUME NEW U, NEW order \in SUBSET (U \X U), NEW k
  PROVE  Through(k, order) \in SUBSET (U \X U)
BY DEF Through

LEMMA ThroughFacts ==
  ASSUME NEW U, NEW order \in SUBSET (U \X U), NEW k, NEW x, NEW y
  PROVE  <<x, y>> \in Through(k, order) <=>
           <<x, y>> \in order \/ (<<x, k>> \in order /\ <<k, y>> \in order)
<1>1. ASSUME <<x, k>> \in order, <<k, y>> \in order
      PROVE  <<x, y>> \in Through(k, order)
  <2>1. <<x, k>>[1] = x /\ <<x, k>>[2] = k /\ <<k, y>>[1] = k /\ <<k, y>>[2] = y
    OBVIOUS
  <2> QED
    BY <1>1, <2>1 DEF Through
<1>2. ASSUME <<x, y>> \in Through(k, order), <<x, y>> \notin order
      PROVE  <<x, k>> \in order /\ <<k, y>> \in order
  <2>1. PICK c \in order, d \in order : c[2] = k /\ d[1] = k /\ <<x, y>> = <<c[1], d[2]>>
    BY <1>2 DEF Through
  <2>2. c = <<x, k>> /\ d = <<k, y>>
    <3>1. c = <<c[1], c[2]>> /\ d = <<d[1], d[2]>>
      OBVIOUS
    <3> QED
      BY <2>1, <3>1
  <2> QED
    BY <2>1, <2>2
<1>3. <<x, y>> \in order => <<x, y>> \in Through(k, order)
  BY DEF Through
<1> QED
  BY <1>1, <1>2, <1>3

(* One more clock keeps the relation closed through the earlier ones.      *)
LEMMA ThroughCloses ==
  ASSUME NEW U, NEW order \in SUBSET (U \X U), NEW s, NEW k, ClosedThrough(order, s)
  PROVE  ClosedThrough(Through(k, order), s \union {k})
<1> SUFFICES ASSUME NEW x, NEW z, NEW y \in s \union {k},
                    <<x, y>> \in Through(k, order), <<y, z>> \in Through(k, order)
             PROVE  <<x, z>> \in Through(k, order)
  BY DEF ClosedThrough
<1>1. /\ <<x, y>> \in order \/ (<<x, k>> \in order /\ <<k, y>> \in order)
      /\ <<y, z>> \in order \/ (<<y, k>> \in order /\ <<k, z>> \in order)
  BY ThroughFacts
<1>2. <<x, z>> \in order \/ (<<x, k>> \in order /\ <<k, z>> \in order)
  BY <1>1 DEF ClosedThrough
<1> QED
  BY <1>2, ThroughFacts

(* Nothing is added that a transitive superset does not have.              *)
LEMMA ThroughInside ==
  ASSUME NEW U, NEW order \in SUBSET (U \X U), NEW k, NEW T, Transitive(T), order \subseteq T
  PROVE  Through(k, order) \subseteq T
<1>1. ASSUME NEW p \in Through(k, order)
      PROVE  p \in T
  <2>1. p \in U \X U
    BY ThroughPairs
  <2>2. PICK x \in U, y \in U : p = <<x, y>>
    BY <2>1
  <2>3. <<x, y>> \in order \/ (<<x, k>> \in order /\ <<k, y>> \in order)
    BY <2>2, ThroughFacts
  <2> QED
    BY <2>2, <2>3 DEF Transitive
<1> QED
  BY <1>1

(* What holds after the clocks of s.                                       *)
ClosesOver(s, order, constraints) ==
  /\ order \in SUBSET (ClocksOf(constraints) \X ClocksOf(constraints))
  /\ constraints \subseteq order
  /\ ClosedThrough(order, s)
  /\ \A T : Transitive(T) /\ constraints \subseteq T => order \subseteq T

LEMMA StepsClose ==
  ASSUME NEW U, NEW constraints \in SUBSET (U \X U), IsFiniteSet(ClocksOf(constraints))
  PROVE  \A s \in SUBSET ClocksOf(constraints) : ClosesOver(s, Steps(constraints)[s], constraints)
<1> DEFINE C == ClocksOf(constraints)
           Fine(s) == ClosesOver(s, Steps(constraints)[s], constraints)
           good == { n \in Nat : \A s \in SUBSET C : Cardinality(s) <= n => Fine(s) }
<1>1. Fine({})
  <2>1. Steps(constraints)[{}] = constraints
    BY StepsFacts DEF Step
  <2>2. constraints \in SUBSET (C \X C)
    <3>1. ASSUME NEW c \in constraints
          PROVE  c \in C \X C
      <4>1. c = <<c[1], c[2]>>
        OBVIOUS
      <4>2. c[1] \in C /\ c[2] \in C
        BY DEF ClocksOf
      <4> HIDE DEF C
      <4> QED
        BY <4>1, <4>2
    <3> QED
      BY <3>1
  <2> QED
    BY <2>1, <2>2 DEF ClosesOver, ClosedThrough
<1>2. ASSUME NEW s \in SUBSET C, s # {}, Fine(s \ {Some(s)})
      PROVE  Fine(s)
  <2> DEFINE x == Some(s)
             old == Steps(constraints)[s \ {x}]
  <2>1. Steps(constraints)[s] = Through(x, old)
    BY <1>2, StepsFacts DEF Step
  <2>2. x \in s /\ s = (s \ {x}) \union {x}
    BY <1>2, SomeFacts
  <2>3. ClosesOver(s \ {x}, old, constraints)
    BY <1>2
  <2> HIDE DEF x, old
  <2>4. ClosesOver(s, Through(x, old), constraints)
    <3>1. old \in SUBSET (C \X C)
      BY <2>3 DEF ClosesOver
    <3> HIDE DEF C
    <3>2. ClosedThrough(Through(x, old), s)
      BY <2>2, <2>3, <3>1, ThroughCloses DEF ClosesOver
    <3>3. Through(x, old) \in SUBSET (C \X C)
      BY <3>1, ThroughPairs
    <3>4. constraints \subseteq Through(x, old)
      BY <2>3 DEF ClosesOver, Through
    <3>5. \A T : Transitive(T) /\ constraints \subseteq T => Through(x, old) \subseteq T
      BY <2>3, <3>1, ThroughInside DEF ClosesOver
    <3> QED
      BY <3>2, <3>3, <3>4, <3>5 DEF ClosesOver, C
  <2> QED
    BY <2>1, <2>4
<1> HIDE DEF Fine
<1>3. 0 \in good
  <2>1. ASSUME NEW s \in SUBSET C, Cardinality(s) <= 0
        PROVE  s = {}
    <3>1. IsFiniteSet(s) /\ Cardinality(s) \in Nat
      BY FS_Subset, FS_CardinalityType
    <3> QED
      BY <2>1, <3>1, FS_EmptySet
  <2> QED
    BY <1>1, <2>1
<1>4. ASSUME NEW n \in Nat, n \in good
      PROVE  n + 1 \in good
  <2>1. ASSUME NEW s \in SUBSET C, Cardinality(s) <= n + 1
        PROVE  Fine(s)
    <3>1. CASE s = {}
      BY <1>1, <3>1
    <3>2. CASE s # {}
      <4> DEFINE x == Some(s)
      <4>1. x \in s
        BY <3>2, SomeFacts
      <4> HIDE DEF x
      <4>2. s \ {x} \in SUBSET C /\ Cardinality(s \ {x}) <= n
        BY <2>1, <4>1, SmallerSet
      <4>3. Fine(s \ {x})
        BY <1>4, <4>2
      <4> QED
        BY <1>2, <3>2, <4>3 DEF x
    <3> QED
      BY <3>1, <3>2
  <2> QED
    BY <2>1
<1>5. \A n \in Nat : n \in good
  <2> HIDE DEF good
  <2> QED BY <1>3, <1>4, SetInduction
<1>6. Cardinality(C) \in Nat /\ \A s \in SUBSET C : Cardinality(s) <= Cardinality(C)
  BY FS_Subset, FS_CardinalityType
<1>7. \A s \in SUBSET C : Fine(s)
  BY <1>5, <1>6
<1> QED
  BY <1>7 DEF Fine

(* What the constraints on finitely many clocks entail is their least      *)
(* transitive superset.                                                    *)
THEOREM EntailedIsClosure ==
  ASSUME NEW U, NEW constraints \in SUBSET (U \X U), IsFiniteSet(ClocksOf(constraints))
  PROVE  /\ constraints \subseteq Entailed(constraints)
         /\ Entailed(constraints) \in SUBSET (ClocksOf(constraints) \X ClocksOf(constraints))
         /\ Transitive(Entailed(constraints))
         /\ \A T : Transitive(T) /\ constraints \subseteq T => Entailed(constraints) \subseteq T
<1> DEFINE C == ClocksOf(constraints)
           E == Steps(constraints)[C]
<1>1. ClosesOver(C, E, constraints)
  BY StepsClose
<1>2. Entailed(constraints) = E
  BY FoldUnfolded
<1> HIDE DEF E
<1>3. Transitive(E)
  BY <1>1 DEF ClosesOver, ClosedThrough, Transitive
<1> QED
  BY <1>1, <1>2, <1>3 DEF ClosesOver

-----------------------------------------------------------------------------
(* The least transitive relation that has the constraints.                 *)
IsClosure(before, constraints) ==
  /\ constraints \subseteq before
  /\ Transitive(before)
  /\ \A T : Transitive(T) /\ constraints \subseteq T => before \subseteq T

LEMMA ClosureIsEntailed ==
  ASSUME NEW U, NEW constraints \in SUBSET (U \X U), IsFiniteSet(ClocksOf(constraints)),
         NEW before, IsClosure(before, constraints)
  PROVE  Entailed(constraints) = before
<1>1. /\ constraints \subseteq Entailed(constraints)
      /\ Transitive(Entailed(constraints))
      /\ \A T : Transitive(T) /\ constraints \subseteq T => Entailed(constraints) \subseteq T
  BY EntailedIsClosure
<1> QED
  BY <1>1 DEF IsClosure

(* The clocks of a set, and those before them.                             *)
Past(clocks, before) == clocks \union { p[1] : p \in { q \in before : q[2] \in clocks } }

LEMMA PastFacts ==
  ASSUME NEW U, NEW before \in SUBSET (U \X U), NEW clocks, NEW x
  PROVE  x \in Past(clocks, before) <=> x \in clocks \/ \E y \in clocks : <<x, y>> \in before
<1>1. ASSUME NEW y \in clocks, <<x, y>> \in before
      PROVE  x \in Past(clocks, before)
  <2>1. <<x, y>>[1] = x /\ <<x, y>>[2] = y
    OBVIOUS
  <2> QED
    BY <1>1, <2>1 DEF Past
<1>2. ASSUME x \in Past(clocks, before), x \notin clocks
      PROVE  \E y \in clocks : <<x, y>> \in before
  <2>1. PICK p \in before : p[2] \in clocks /\ x = p[1]
    BY <1>2 DEF Past
  <2>2. p = <<p[1], p[2]>>
    OBVIOUS
  <2> QED
    BY <2>1, <2>2
<1> QED
  BY <1>1, <1>2 DEF Past

LEMMA PastIn ==
  ASSUME NEW U, NEW before \in SUBSET (U \X U), NEW clocks \in SUBSET U
  PROVE  Past(clocks, before) \in SUBSET U
BY DEF Past

LEMMA PastOfUnion ==
  ASSUME NEW before, NEW a, NEW b
  PROVE  Past(a \union b, before) = Past(a, before) \union Past(b, before)
BY DEF Past

On(before, U) == before \in SUBSET (U \X U)

(* A relation with a new clock after those of a set and all before them.   *)
Extended(before, clocks, new) == before \union (Past(clocks, before) \X {new})

(* It is the closure of the constraints and those on the new clock.        *)
LEMMA ExtendedClosure ==
  ASSUME NEW U, NEW before \in SUBSET (U \X U), NEW constraints, IsClosure(before, constraints),
         NEW clocks \in SUBSET U, NEW new, new \notin U
  PROVE  IsClosure(before \union (Past(clocks, before) \X {new}),
                   constraints \union (clocks \X {new}))
<1> DEFINE past == Past(clocks, before)
           after == before \union (past \X {new})
<1>1. past \in SUBSET U /\ clocks \subseteq past
  BY PastIn DEF Past
<1>2. \A x : x \in past <=> x \in clocks \/ \E y \in clocks : <<x, y>> \in before
  BY PastFacts
<1> HIDE DEF past
<1>3. Transitive(after)
  <2> SUFFICES ASSUME NEW x, NEW y, NEW z, <<x, y>> \in after, <<y, z>> \in after
               PROVE  <<x, z>> \in after
    BY DEF Transitive
  <2>1. y \in U
    BY <1>1
  <2>2. <<x, y>> \in before
    BY <2>1
  <2>3. CASE <<y, z>> \in before
    BY <2>2, <2>3 DEF IsClosure, Transitive
  <2>4. CASE <<y, z>> \notin before
    <3>1. y \in past /\ z = new
      BY <2>4
    <3>2. x \in past
      <4>1. y \in clocks \/ \E w \in clocks : <<y, w>> \in before
        BY <1>2, <3>1
      <4>2. \A w : <<y, w>> \in before => <<x, w>> \in before
        BY <2>2 DEF IsClosure, Transitive
      <4> QED
        BY <1>2, <2>2, <4>1, <4>2
    <3> QED
      BY <3>1, <3>2
  <2> QED
    BY <2>3, <2>4
<1>4. ASSUME NEW T, Transitive(T), constraints \union (clocks \X {new}) \subseteq T
      PROVE  after \subseteq T
  <2>1. before \subseteq T /\ \A y \in clocks : <<y, new>> \in T
    BY <1>4 DEF IsClosure
  <2>2. ASSUME NEW x \in past
        PROVE  <<x, new>> \in T
    <3>1. CASE x \in clocks
      BY <2>1, <3>1
    <3>2. CASE x \notin clocks
      <4>1. PICK y \in clocks : <<x, y>> \in before
        BY <1>2, <3>2
      <4>2. <<x, y>> \in T /\ <<y, new>> \in T
        BY <2>1, <4>1
      <4> QED
        BY <1>4, <4>2 DEF Transitive
    <3> QED
      BY <3>1, <3>2
  <2> QED
    BY <2>1, <2>2
<1>5. constraints \union (clocks \X {new}) \subseteq after
  BY <1>1 DEF IsClosure
<1> QED
  BY <1>3, <1>4, <1>5 DEF IsClosure, past

(* What is then before the new clock, and before the others.               *)
LEMMA NewPastOf ==
  ASSUME NEW U, NEW before, On(before, U), NEW clocks \in SUBSET U, NEW new, new \notin U
  PROVE  Past({new}, Extended(before, clocks, new)) = Past(clocks, before) \union {new}
<1> DEFINE past == Past(clocks, before)
           after == Extended(before, clocks, new)
           V == U \union {new}
<1>1. past \in SUBSET U
  BY PastIn DEF On
<1>2. after = before \union (past \X {new}) /\ before \in SUBSET (U \X U)
  BY DEF Extended, On
<1> HIDE DEF past, after
<1>3. after \in SUBSET (V \X V) /\ \A x : <<x, new>> \in after <=> x \in past
  BY <1>1, <1>2
<1> HIDE DEF V
<1>4. \A x : x \in Past({new}, after) <=> x \in {new} \/ \E y \in {new} : <<x, y>> \in after
  BY <1>3, PastFacts
<1>5. Past({new}, after) = past \union {new}
  BY <1>3, <1>4
<1> QED
  BY <1>5 DEF past, after

LEMMA OldPastOf ==
  ASSUME NEW U, NEW before, On(before, U), NEW clocks \in SUBSET U, NEW new, new \notin U,
         NEW other \in SUBSET U
  PROVE  Past(other, Extended(before, clocks, new)) = Past(other, before)
<1> DEFINE past == Past(clocks, before)
           after == Extended(before, clocks, new)
           V == U \union {new}
<1>1. past \in SUBSET U
  BY PastIn DEF On
<1>2. after = before \union (past \X {new}) /\ before \in SUBSET (U \X U)
  BY DEF Extended, On
<1> HIDE DEF past, after
<1>3. /\ before \in SUBSET (V \X V) /\ after \in SUBSET (V \X V)
      /\ \A x, y : y # new => (<<x, y>> \in after <=> <<x, y>> \in before)
  BY <1>1, <1>2
<1> HIDE DEF V
<1>4. \A x : x \in Past(other, after) <=> x \in other \/ \E y \in other : <<x, y>> \in after
  BY <1>3, PastFacts
<1>5. \A x : x \in Past(other, before) <=> x \in other \/ \E y \in other : <<x, y>> \in before
  BY <1>3, PastFacts
<1>6. \A y \in other : y # new
  OBVIOUS
<1>7. Past(other, after) = Past(other, before)
  BY <1>3, <1>4, <1>5, <1>6
<1> QED
  BY <1>7 DEF after
=============================================================================
