----------------------------- MODULE SliceProofs -----------------------------
(***************************************************************************)
(* What the operators of module Slice do to a slice: each takes a slice    *)
(* that satisfies SliceInv to one that does, moves the blocks of the open  *)
(* arms as the program moves in and out of its branches, and keeps the     *)
(* events in the order in which a walk over the graph meets them.          *)
(*                                                                         *)
(* The second part is about module SpoEncoding: what internal_encode_spo   *)
(* entails of the order of the events of a slice, for any graph that class *)
(* Slice can build.  The recursive function is unfolded, the constraints   *)
(* are shown to stay within the intended order, and the intended order is  *)
(* shown to follow from them.                                              *)
(*                                                                         *)
(* E stands for the type of the events in the slice.                       *)
(***************************************************************************)
EXTENDS SpoEncoding, DataLemmas

BlockOf(E) ==
  [outer : Nat, cond : Literal \union {NoCond}, body : Seq(E), inner : Seq(Nat), els : Nat]

SliceOf(E) == [blocks : Seq(BlockOf(E)), cur : Nat]

-----------------------------------------------------------------------------
(* The graph of the blocks bs.  A block lies in an earlier one, which is   *)
(* conditional or the most outer.                                          *)
Lies(bs, b) ==
  /\ bs[b].outer \in 1 .. b - 1
  /\ bs[b].outer = Root \/ IsConditional(bs[bs[b].outer])

(* An else block has the negated condition and lies beside its then block. *)
ElseBeside(bs, b) ==
  bs[b].els # Null =>
    /\ bs[b].els \in b + 1 .. Len(bs)
    /\ IsConditional(bs[b])
    /\ bs[bs[b].els].outer = bs[b].outer
    /\ bs[bs[b].els].cond = Negate(bs[b].cond)

(* No inner block but perhaps e is unconditional and without events.       *)
Inside(bs, e, b, i) ==
  /\ i \in 2 .. Len(bs)
  /\ bs[i].outer = b
  /\ i = e \/ IsConditional(bs[i]) \/ bs[i].body # <<>>

(* The blocks is can be the inner blocks of b: they lie in it and are in   *)
(* the order of allocation.                                                *)
InnerOf(bs, e, b, is) ==
  \A j \in 1 .. Len(is) : Inside(bs, e, b, is[j]) /\ \A k \in 1 .. j - 1 : is[k] < is[j]

OuterMost(bs) ==
  /\ Len(bs) >= 2
  /\ bs[Root].body = <<>>
  /\ bs[Root].inner # <<>>
  /\ bs[Root].els = Null

GraphInv(bs, e) ==
  /\ \A b \in 2 .. Len(bs) : Lies(bs, b)
  /\ \A b \in 1 .. Len(bs) : ElseBeside(bs, b)
  /\ \A b \in 1 .. Len(bs) : InnerOf(bs, e, b, bs[b].inner)
  /\ OuterMost(bs)

(* The current block is a fresh one, and if it is unconditional, the last  *)
(* of the block around it.                                                 *)
SliceInv(s) ==
  /\ s.cur \in 2 .. Len(s.blocks)
  /\ Current(s).inner = <<>>
  /\ Current(s).els = Null
  /\ GraphInv(s.blocks, s.cur)
  /\ ~IsConditional(Current(s)) =>
       LET beside == s.blocks[Current(s).outer].inner
       IN  beside # <<>> /\ Last(beside) = s.cur

-----------------------------------------------------------------------------
(* Ways to change the blocks bs into cs, one block or link at a time.      *)

(* A block keeps what the branches around it are read from. *)
Kept(old, new) == new.outer = old.outer /\ new.cond = old.cond /\ new.els = old.els

(* More events in block b. *)
Written(bs, cs, b, es) ==
  /\ Len(cs) = Len(bs)
  /\ \A x \in 1 .. Len(bs) : Kept(bs[x], cs[x]) /\ cs[x].inner = bs[x].inner
  /\ \A x \in 1 .. Len(bs) : x # b => cs[x].body = bs[x].body
  /\ cs[b].body = bs[b].body \o es

(* A new block as the last one of block b. *)
Entered(bs, cs, b, cond) ==
  /\ Len(cs) = Len(bs) + 1
  /\ cs[Len(bs) + 1] = Block(b, cond)
  /\ \A x \in 1 .. Len(bs) : Kept(bs[x], cs[x]) /\ cs[x].body = bs[x].body
  /\ \A x \in 1 .. Len(bs) : x # b => cs[x].inner = bs[x].inner
  /\ cs[b].inner = Append(bs[b].inner, Len(bs) + 1)

(* The last one of block b unlinked. *)
Unlinked(bs, cs, b) ==
  /\ Len(cs) = Len(bs)
  /\ \A x \in 1 .. Len(bs) : Kept(bs[x], cs[x]) /\ cs[x].body = bs[x].body
  /\ \A x \in 1 .. Len(bs) : x # b => cs[x].inner = bs[x].inner
  /\ cs[b].inner = Front(bs[b].inner)

(* A condition for block b. *)
Conditioned(bs, cs, b, lit) ==
  /\ Len(cs) = Len(bs)
  /\ \A x \in 1 .. Len(bs) : /\ cs[x].outer = bs[x].outer
                             /\ cs[x].els = bs[x].els
                             /\ cs[x].inner = bs[x].inner
                             /\ cs[x].body = bs[x].body
  /\ \A x \in 1 .. Len(bs) : x # b => cs[x].cond = bs[x].cond
  /\ cs[b].cond = lit

(* A new block as the else block of block b. *)
ElseAdded(bs, cs, b) ==
  /\ Len(cs) = Len(bs) + 1
  /\ cs[Len(bs) + 1] = Block(bs[b].outer, Negate(bs[b].cond))
  /\ \A x \in 1 .. Len(bs) : /\ cs[x].outer = bs[x].outer
                             /\ cs[x].cond = bs[x].cond
                             /\ cs[x].inner = bs[x].inner
                             /\ cs[x].body = bs[x].body
  /\ \A x \in 1 .. Len(bs) : x # b => cs[x].els = bs[x].els
  /\ cs[b].els = Len(bs) + 1

(* The constructor of class Block.                                         *)
LEMMA BlockFacts ==
  ASSUME NEW E, NEW outer \in Nat, NEW cond \in Literal \union {NoCond}
  PROVE  /\ Block(outer, cond) \in BlockOf(E)
         /\ Block(outer, cond).outer = outer /\ Block(outer, cond).cond = cond
         /\ Block(outer, cond).inner = <<>> /\ Block(outer, cond).els = Null
         /\ Block(outer, cond).body = <<>>
BY DEF Block, BlockOf, Null

(* The fields of a block in a list of blocks.                              *)
LEMMA FieldTypes ==
  ASSUME NEW E, NEW bs \in Seq(BlockOf(E))
  PROVE  /\ Len(bs) \in Nat
         /\ \A x \in 1 .. Len(bs) : /\ bs[x].outer \in Nat
                                    /\ bs[x].cond \in Literal \union {NoCond}
                                    /\ bs[x].body \in Seq(E)
                                    /\ bs[x].inner \in Seq(Nat)
                                    /\ bs[x].els \in Nat
<1>1. ASSUME NEW x \in 1 .. Len(bs)
      PROVE  /\ bs[x].outer \in Nat
             /\ bs[x].cond \in Literal \union {NoCond}
             /\ bs[x].body \in Seq(E)
             /\ bs[x].inner \in Seq(Nat)
             /\ bs[x].els \in Nat
  <2>1. bs[x] \in BlockOf(E)
    BY ElementInSet
  <2> QED
    BY <2>1 DEF BlockOf
<1>2. Len(bs) \in Nat
  OBVIOUS
<1> QED
  BY <1>1, <1>2

(* One more index. *)
LEMMA UpTo ==
  ASSUME NEW n \in Nat, NEW x \in 1 .. n + 1, x # n + 1
  PROVE  x \in 1 .. n
OBVIOUS

(* A list of inner blocks remains one if its members still lie inside.     *)
LEMMA InnerKept ==
  ASSUME NEW bs, NEW cs, NEW e, NEW f, NEW b, NEW is \in Seq(Nat),
         InnerOf(bs, e, b, is), \A i : Inside(bs, e, b, i) => Inside(cs, f, b, i)
  PROVE  InnerOf(cs, f, b, is)
BY DEF InnerOf

(* The inner blocks of b once a new block is entered in it.                *)
LEMMA InnerPushed ==
  ASSUME NEW bs, NEW cs, NEW e, NEW f, NEW b, NEW is \in Seq(Nat), NEW n \in Nat,
         InnerOf(bs, e, b, is), n = Len(bs),
         \A i : Inside(bs, e, b, i) => Inside(cs, f, b, i),
         Inside(cs, f, b, n + 1)
  PROVE  InnerOf(cs, f, b, Append(is, n + 1))
<1> DEFINE js == Append(is, n + 1)
<1>1. /\ Len(js) = Len(is) + 1 /\ js[Len(is) + 1] = n + 1
      /\ \A j \in 1 .. Len(is) : js[j] = is[j]
  BY n + 1 \in Nat, AppendFacts
<1> HIDE DEF js
<1>2. Len(is) \in Nat
  OBVIOUS
<1>3. \A j \in 1 .. Len(is) : is[j] < n + 1
  BY DEF InnerOf, Inside
<1> SUFFICES ASSUME NEW j \in 1 .. Len(is) + 1
             PROVE  Inside(cs, f, b, js[j]) /\ \A k \in 1 .. j - 1 : js[k] < js[j]
  BY <1>1 DEF InnerOf, js
<1>4. CASE j = Len(is) + 1
  BY <1>1, <1>2, <1>3, <1>4
<1>5. CASE j # Len(is) + 1
  <2>1. j \in 1 .. Len(is) /\ \A k \in 1 .. j - 1 : k \in 1 .. Len(is)
    BY <1>2, <1>5
  <2> QED
    BY <1>1, <2>1 DEF InnerOf
<1> QED
  BY <1>4, <1>5

(* The inner blocks of b once the last one is unlinked.                    *)
LEMMA InnerPopped ==
  ASSUME NEW bs, NEW cs, NEW e, NEW f, NEW b, NEW is \in Seq(Nat), is # <<>>,
         Last(is) = e, InnerOf(bs, e, b, is),
         \A i : Inside(bs, e, b, i) /\ i # e => Inside(cs, f, b, i)
  PROVE  InnerOf(cs, f, b, Front(is))
<1> DEFINE js == Front(is)
           n  == Len(is)
<1>1. Len(js) = n - 1 /\ is[n] = e /\ \A j \in 1 .. n - 1 : js[j] = is[j]
  BY FrontFacts
<1> HIDE DEF js
<1>2. n \in Nat \ {0}
  BY EmptyFacts
<1> SUFFICES ASSUME NEW j \in 1 .. n - 1
             PROVE  Inside(cs, f, b, js[j]) /\ \A k \in 1 .. j - 1 : js[k] < js[j]
  BY <1>1 DEF InnerOf, js
<1>3. j \in 1 .. n /\ \A k \in 1 .. j - 1 : k \in 1 .. n - 1
  BY <1>2
<1>4. is[j] # e
  <2>1. n \in 1 .. Len(is) /\ j \in 1 .. n - 1
    BY <1>2
  <2>2. is[j] < is[n]
    BY <2>1 DEF InnerOf
  <2>3. is[j] \in Nat
    BY <1>3
  <2> QED
    BY <1>1, <2>2, <2>3
<1>5. Inside(bs, e, b, is[j]) /\ \A k \in 1 .. j - 1 : is[k] < is[j]
  BY <1>3 DEF InnerOf
<1>6. js[j] = is[j] /\ \A k \in 1 .. j - 1 : js[k] = is[k]
  BY <1>1, <1>3
<1> QED
  BY <1>4, <1>5, <1>6

(* The graph stays one when events are recorded.                           *)
LEMMA WrittenGraph ==
  ASSUME NEW E, NEW bs \in Seq(BlockOf(E)), NEW cs \in Seq(BlockOf(E)), NEW e,
         NEW b \in 2 .. Len(bs), NEW es \in Seq(E), Written(bs, cs, b, es), GraphInv(bs, e)
  PROVE  GraphInv(cs, e)
<1> DEFINE n == Len(bs)
<1>1. n \in Nat /\ \A x \in 1 .. n : bs[x].inner \in Seq(Nat)
  BY FieldTypes
<1>2. /\ Len(cs) = n
      /\ \A x \in 1 .. n : /\ cs[x].outer = bs[x].outer /\ cs[x].cond = bs[x].cond
                           /\ cs[x].els = bs[x].els /\ cs[x].inner = bs[x].inner
                           /\ x # b => cs[x].body = bs[x].body
      /\ cs[b].body = bs[b].body \o es
  BY DEF Written, Kept
<1>3. \A x \in 1 .. n : bs[x].body # <<>> => cs[x].body # <<>>
  <2>1. bs[b] \in BlockOf(E)
    BY ElementInSet
  <2>2. bs[b].body \in Seq(E)
    BY <2>1 DEF BlockOf
  <2>3. bs[b].body # <<>> => bs[b].body \o es # <<>>
    BY <2>2
  <2> QED
    BY <1>2, <2>3
<1>4. ASSUME NEW x \in 2 .. n PROVE Lies(cs, x)
  <2>1. Lies(bs, x)
    BY DEF GraphInv
  <2>2. x \in 1 .. n /\ bs[x].outer \in 1 .. n
    BY <1>1, <2>1 DEF Lies
  <2> QED
    BY <1>2, <2>1, <2>2 DEF Lies, IsConditional
<1>5. ASSUME NEW x \in 1 .. n PROVE ElseBeside(cs, x)
  <2>1. ElseBeside(bs, x)
    BY DEF GraphInv
  <2>2. bs[x].els # Null => bs[x].els \in 1 .. n
    BY <1>1, <2>1 DEF ElseBeside
  <2> QED
    BY <1>2, <2>1, <2>2 DEF ElseBeside, IsConditional
<1>6. ASSUME NEW x \in 1 .. n PROVE InnerOf(cs, e, x, cs[x].inner)
  <2>1. InnerOf(bs, e, x, bs[x].inner)
    BY DEF GraphInv
  <2>2. ASSUME NEW i, Inside(bs, e, x, i) PROVE Inside(cs, e, x, i)
    BY <1>1, <1>2, <1>3, <2>2 DEF Inside, IsConditional
  <2>3. InnerOf(cs, e, x, bs[x].inner)
    BY <1>1, <2>1, <2>2, InnerKept
  <2> QED
    BY <1>2, <2>3
<1>7. OuterMost(cs)
  <2>1. OuterMost(bs) /\ Root \in 1 .. n /\ Root # b
    BY <1>1 DEF GraphInv, OuterMost, Root
  <2> QED
    BY <1>1, <1>2, <2>1 DEF OuterMost
<1> QED
  BY <1>2, <1>4, <1>5, <1>6, <1>7 DEF GraphInv

(* The graph stays one when a block is entered in a conditional block or   *)
(* the most outer one.                                                     *)
LEMMA EnteredGraph ==
  ASSUME NEW E, NEW bs \in Seq(BlockOf(E)), NEW cs \in Seq(BlockOf(E)),
         NEW b \in 1 .. Len(bs), NEW cond \in Literal \union {NoCond},
         b = Root \/ IsConditional(bs[b]),
         Entered(bs, cs, b, cond), GraphInv(bs, Null)
  PROVE  GraphInv(cs, Len(bs) + 1)
<1> DEFINE n == Len(bs)
<1>1. n \in Nat /\ \A x \in 1 .. n : bs[x].inner \in Seq(Nat)
  BY FieldTypes
<1>2. /\ Len(cs) = n + 1
      /\ \A x \in 1 .. n : /\ cs[x].outer = bs[x].outer /\ cs[x].cond = bs[x].cond
                           /\ cs[x].els = bs[x].els /\ cs[x].body = bs[x].body
                           /\ x # b => cs[x].inner = bs[x].inner
      /\ cs[b].inner = Append(bs[b].inner, n + 1)
  BY DEF Entered, Kept
<1>3. /\ cs[n + 1].outer = b /\ cs[n + 1].cond = cond /\ cs[n + 1].inner = <<>>
      /\ cs[n + 1].els = Null /\ cs[n + 1].body = <<>>
  <2>1. b \in Nat /\ cs[n + 1] = Block(b, cond)
    BY DEF Entered
  <2> HIDE DEF n
  <2> QED
    BY <2>1, BlockFacts
<1>4. OuterMost(bs) /\ Root \in 1 .. n
  BY <1>1 DEF GraphInv, OuterMost, Root
<1>5. ASSUME NEW x \in 2 .. n + 1 PROVE Lies(cs, x)
  <2>1. CASE x = n + 1
    BY <1>1, <1>2, <1>3, <2>1 DEF Lies, IsConditional
  <2>2. CASE x # n + 1
    <3>1. x \in 2 .. n /\ x \in 1 .. n
      <4>1. x \in 1 .. n + 1 /\ x >= 2
        BY <1>1
      <4> QED
        BY <1>1, <2>2, <4>1, UpTo
    <3>2. Lies(bs, x)
      BY <3>1 DEF GraphInv
    <3>3. bs[x].outer \in 1 .. n
      BY <1>1, <3>1, <3>2 DEF Lies
    <3> QED
      BY <1>2, <3>1, <3>2, <3>3 DEF Lies, IsConditional
  <2> QED
    BY <2>1, <2>2
<1>6. ASSUME NEW x \in 1 .. n + 1 PROVE ElseBeside(cs, x)
  <2>1. CASE x = n + 1
    BY <1>3, <2>1 DEF ElseBeside
  <2>2. CASE x # n + 1
    <3>1. x \in 1 .. n
      BY <1>1, <2>2, UpTo
    <3>2. ElseBeside(bs, x)
      BY <3>1 DEF GraphInv
    <3>3. bs[x].els # Null => bs[x].els \in 1 .. n
      BY <1>1, <3>1, <3>2 DEF ElseBeside
    <3> QED
      BY <1>1, <1>2, <3>1, <3>2, <3>3 DEF ElseBeside, IsConditional
  <2> QED
    BY <2>1, <2>2
<1>7. ASSUME NEW x \in 1 .. n + 1 PROVE InnerOf(cs, n + 1, x, cs[x].inner)
  <2>1. CASE x = n + 1
    BY <1>3, <2>1 DEF InnerOf
  <2>2. CASE x # n + 1
    <3>1. x \in 1 .. n
      BY <1>1, <2>2, UpTo
    <3>2. InnerOf(bs, Null, x, bs[x].inner) /\ bs[x].inner \in Seq(Nat)
      BY <1>1, <3>1 DEF GraphInv
    <3>3. ASSUME NEW i, Inside(bs, Null, x, i) PROVE Inside(cs, n + 1, x, i)
      BY <1>1, <1>2, <3>3 DEF Inside, IsConditional, Null
    <3>4. CASE x # b
      BY <1>2, <3>1, <3>2, <3>3, <3>4, InnerKept
    <3>5. CASE x = b
      <4>1. Inside(cs, n + 1, x, n + 1)
        BY <1>1, <1>2, <1>3, <1>4, <3>5 DEF Inside
      <4>2. InnerOf(cs, n + 1, x, Append(bs[x].inner, n + 1))
        BY <1>1, <3>2, <3>3, <4>1, InnerPushed
      <4> QED
        BY <1>2, <3>5, <4>2
    <3> QED
      BY <3>4, <3>5
  <2> QED
    BY <2>1, <2>2
<1>8. OuterMost(cs)
  <2>1. Append(bs[b].inner, n + 1) # <<>>
    <3>1. bs[b].inner \in Seq(Nat) /\ n + 1 \in Nat
      BY <1>1
    <3> HIDE DEF n
    <3> QED
      BY <3>1, AppendFacts, EmptyFacts
  <2> QED
    BY <1>1, <1>2, <1>4, <2>1 DEF OuterMost
<1> QED
  BY <1>2, <1>5, <1>6, <1>7, <1>8 DEF GraphInv

(* The graph stays one, and has no empty block any more, when the empty    *)
(* block is unlinked.                                                      *)
LEMMA UnlinkedGraph ==
  ASSUME NEW E, NEW bs \in Seq(BlockOf(E)), NEW cs \in Seq(BlockOf(E)), NEW e,
         NEW b \in 2 .. Len(bs), bs[b].inner # <<>>, Last(bs[b].inner) = e,
         Unlinked(bs, cs, b), GraphInv(bs, e), bs[e].outer = b
  PROVE  GraphInv(cs, Null)
<1> DEFINE n == Len(bs)
<1>1. n \in Nat /\ \A x \in 1 .. n : bs[x].inner \in Seq(Nat)
  BY FieldTypes
<1>2. /\ Len(cs) = n
      /\ \A x \in 1 .. n : /\ cs[x].outer = bs[x].outer /\ cs[x].cond = bs[x].cond
                           /\ cs[x].els = bs[x].els /\ cs[x].body = bs[x].body
                           /\ x # b => cs[x].inner = bs[x].inner
      /\ cs[b].inner = Front(bs[b].inner)
  BY DEF Unlinked, Kept
<1>3. ASSUME NEW x \in 2 .. n PROVE Lies(cs, x)
  <2>1. Lies(bs, x)
    BY DEF GraphInv
  <2>2. x \in 1 .. n /\ bs[x].outer \in 1 .. n
    BY <1>1, <2>1 DEF Lies
  <2> QED
    BY <1>2, <2>1, <2>2 DEF Lies, IsConditional
<1>4. ASSUME NEW x \in 1 .. n PROVE ElseBeside(cs, x)
  <2>1. ElseBeside(bs, x)
    BY DEF GraphInv
  <2>2. bs[x].els # Null => bs[x].els \in 1 .. n
    BY <1>1, <2>1 DEF ElseBeside
  <2> QED
    BY <1>2, <2>1, <2>2 DEF ElseBeside, IsConditional
<1>5. ASSUME NEW x \in 1 .. n PROVE InnerOf(cs, Null, x, cs[x].inner)
  <2>1. InnerOf(bs, e, x, bs[x].inner) /\ bs[x].inner \in Seq(Nat)
    BY <1>1 DEF GraphInv
  <2>2. ASSUME NEW i, Inside(bs, e, x, i), i # e PROVE Inside(cs, Null, x, i)
    BY <1>1, <1>2, <2>2 DEF Inside, IsConditional
  <2>3. CASE x = b
    <3>1. InnerOf(cs, Null, x, Front(bs[x].inner))
      BY <2>1, <2>2, <2>3, InnerPopped
    <3> QED
      BY <1>2, <2>3, <3>1
  <2>4. CASE x # b
    <3>1. ASSUME NEW i, Inside(bs, e, x, i) PROVE Inside(cs, Null, x, i)
      BY <2>2, <2>4, <3>1 DEF Inside
    <3> QED
      BY <1>2, <2>1, <2>4, <3>1, InnerKept
  <2> QED
    BY <2>3, <2>4
<1>6. OuterMost(cs)
  <2>1. OuterMost(bs) /\ Root \in 1 .. n /\ Root # b
    BY <1>1 DEF GraphInv, OuterMost, Root
  <2> QED
    BY <1>1, <1>2, <2>1 DEF OuterMost
<1> QED
  BY <1>2, <1>3, <1>4, <1>5, <1>6 DEF GraphInv

(* The graph stays one when the empty block gets a condition.              *)
LEMMA ConditionedGraph ==
  ASSUME NEW E, NEW bs \in Seq(BlockOf(E)), NEW cs \in Seq(BlockOf(E)),
         NEW b \in 2 .. Len(bs), ~IsConditional(bs[b]), bs[b].els = Null,
         NEW lit \in Literal,
         Conditioned(bs, cs, b, lit), GraphInv(bs, b)
  PROVE  GraphInv(cs, Null)
<1> DEFINE n == Len(bs)
<1>1. n \in Nat /\ (\A x \in 1 .. n : bs[x].inner \in Seq(Nat)) /\ lit # NoCond
  BY FieldTypes, NoCondAssumption
<1>2. /\ Len(cs) = n
      /\ \A x \in 1 .. n : /\ cs[x].outer = bs[x].outer /\ cs[x].els = bs[x].els
                           /\ cs[x].inner = bs[x].inner /\ cs[x].body = bs[x].body
                           /\ x # b => cs[x].cond = bs[x].cond
      /\ cs[b].cond = lit
  BY DEF Conditioned
<1>3. \A x \in 1 .. n : IsConditional(bs[x]) => IsConditional(cs[x])
  BY <1>2 DEF IsConditional
<1>4. ASSUME NEW x \in 2 .. n PROVE Lies(cs, x)
  <2>1. Lies(bs, x)
    BY DEF GraphInv
  <2>2. x \in 1 .. n /\ bs[x].outer \in 1 .. n
    BY <1>1, <2>1 DEF Lies
  <2> QED
    BY <1>2, <1>3, <2>1, <2>2 DEF Lies
<1>5. ASSUME NEW x \in 1 .. n PROVE ElseBeside(cs, x)
  <2> SUFFICES ASSUME bs[x].els # Null PROVE ElseBeside(cs, x)
    BY <1>2 DEF ElseBeside
  <2>1. /\ bs[x].els \in x + 1 .. n /\ IsConditional(bs[x])
        /\ bs[bs[x].els].outer = bs[x].outer
        /\ bs[bs[x].els].cond = Negate(bs[x].cond)
    BY DEF GraphInv, ElseBeside
  <2>2. x # b /\ bs[x].els \in 1 .. n
    BY <1>1, <2>1
  <2>3. bs[x].cond \in Literal
    BY <2>1, FieldTypes DEF IsConditional
  <2>4. bs[bs[x].els].cond # NoCond
    <3>1. Negate(bs[x].cond) \in Literal
      BY <2>3 DEF Negate, Literal
    <3> QED
      BY <2>1, <3>1, NoCondAssumption
  <2>5. bs[x].els # b
    BY <2>4 DEF IsConditional
  <2>6. cs[x].cond = bs[x].cond /\ cs[bs[x].els].cond = bs[bs[x].els].cond
    BY <1>2, <2>2, <2>5
  <2> QED
    BY <1>2, <1>3, <2>1, <2>2, <2>6 DEF ElseBeside
<1>6. ASSUME NEW x \in 1 .. n PROVE InnerOf(cs, Null, x, cs[x].inner)
  <2>1. InnerOf(bs, b, x, bs[x].inner) /\ bs[x].inner \in Seq(Nat)
    BY <1>1 DEF GraphInv
  <2>2. ASSUME NEW i, Inside(bs, b, x, i) PROVE Inside(cs, Null, x, i)
    <3>1. IsConditional(cs[b])
      BY <1>1, <1>2 DEF IsConditional
    <3>2. i \in 1 .. n /\ i \in 2 .. n
      BY <1>1, <2>2 DEF Inside
    <3> QED
      BY <1>2, <1>3, <2>2, <3>1, <3>2 DEF Inside
  <2> QED
    BY <1>2, <2>1, <2>2, InnerKept
<1>7. OuterMost(cs)
  <2>1. OuterMost(bs) /\ Root \in 1 .. n
    BY <1>1 DEF GraphInv, OuterMost, Root
  <2> QED
    BY <1>1, <1>2, <2>1 DEF OuterMost
<1> QED
  BY <1>2, <1>4, <1>5, <1>6, <1>7 DEF GraphInv

(* The graph stays one when a conditional block gets an else block.        *)
LEMMA ElseAddedGraph ==
  ASSUME NEW E, NEW bs \in Seq(BlockOf(E)), NEW cs \in Seq(BlockOf(E)),
         NEW b \in 2 .. Len(bs), bs[b].cond \in Literal,
         ElseAdded(bs, cs, b), GraphInv(bs, Null)
  PROVE  GraphInv(cs, Null)
<1> DEFINE n == Len(bs)
           negated == Negate(bs[b].cond)
<1>1. /\ n \in Nat /\ b \in 1 .. n /\ \A x \in 1 .. n : bs[x].inner \in Seq(Nat)
      /\ negated \in Literal /\ negated # NoCond /\ bs[b].cond # NoCond
  <2>1. negated \in Literal
    BY DEF Negate, Literal
  <2> QED
    BY <2>1, FieldTypes, NoCondAssumption
<1>2. /\ Len(cs) = n + 1
      /\ \A x \in 1 .. n : /\ cs[x].outer = bs[x].outer /\ cs[x].cond = bs[x].cond
                           /\ cs[x].inner = bs[x].inner /\ cs[x].body = bs[x].body
                           /\ x # b => cs[x].els = bs[x].els
      /\ cs[b].els = n + 1
  BY DEF ElseAdded
<1>3. Lies(bs, b)
  BY DEF GraphInv
<1>4. /\ cs[n + 1].outer = bs[b].outer /\ cs[n + 1].cond = negated
      /\ cs[n + 1].inner = <<>> /\ cs[n + 1].els = Null /\ cs[n + 1].body = <<>>
  <2>1. bs[b].outer \in Nat /\ cs[n + 1] = Block(bs[b].outer, negated)
    BY <1>1, <1>3 DEF ElseAdded, Lies
  <2> HIDE DEF n, negated
  <2> QED
    BY <1>1, <2>1, BlockFacts
<1> HIDE DEF negated
<1>5. ASSUME NEW x \in 2 .. n + 1 PROVE Lies(cs, x)
  <2>1. CASE x = n + 1
    <3>1. bs[b].outer \in 1 .. n
      BY <1>1, <1>3 DEF Lies
    <3> QED
      BY <1>1, <1>2, <1>3, <1>4, <2>1, <3>1 DEF Lies, IsConditional
  <2>2. CASE x # n + 1
    <3>1. x \in 2 .. n /\ x \in 1 .. n
      <4>1. n \in Nat /\ x \in 2 .. n + 1
        BY <1>1
      <4> QED
        BY <2>2, <4>1
    <3>2. Lies(bs, x)
      BY <3>1 DEF GraphInv
    <3>3. bs[x].outer \in 1 .. n
      BY <1>1, <3>1, <3>2 DEF Lies
    <3> QED
      BY <1>2, <3>1, <3>2, <3>3 DEF Lies, IsConditional
  <2> QED
    BY <2>1, <2>2
<1>6. ASSUME NEW x \in 1 .. n + 1 PROVE ElseBeside(cs, x)
  <2>1. CASE x = n + 1
    BY <1>4, <2>1 DEF ElseBeside
  <2>2. CASE x = b
    <3>1. cs[b].els = n + 1 /\ n + 1 \in b + 1 .. n + 1
      BY <1>1, <1>2
    <3>2. IsConditional(cs[b])
      BY <1>1, <1>2 DEF IsConditional
    <3>3. cs[n + 1].outer = cs[b].outer /\ cs[n + 1].cond = Negate(cs[b].cond)
      BY <1>1, <1>2, <1>4 DEF negated
    <3> QED
      BY <1>2, <2>2, <3>1, <3>2, <3>3 DEF ElseBeside
  <2>3. CASE x # n + 1 /\ x # b
    <3>1. x \in 1 .. n
      BY <1>1, <2>3, UpTo
    <3>2. ElseBeside(bs, x)
      BY <3>1 DEF GraphInv
    <3>3. bs[x].els # Null => bs[x].els \in 1 .. n
      BY <1>1, <3>1, <3>2 DEF ElseBeside
    <3> QED
      BY <1>1, <1>2, <2>3, <3>1, <3>2, <3>3 DEF ElseBeside, IsConditional
  <2> QED
    BY <2>1, <2>2, <2>3
<1>7. ASSUME NEW x \in 1 .. n + 1 PROVE InnerOf(cs, Null, x, cs[x].inner)
  <2>1. CASE x = n + 1
    BY <1>4, <2>1 DEF InnerOf
  <2>2. CASE x # n + 1
    <3>1. x \in 1 .. n
      BY <1>1, <2>2, UpTo
    <3>2. InnerOf(bs, Null, x, bs[x].inner) /\ bs[x].inner \in Seq(Nat)
      BY <1>1, <3>1 DEF GraphInv
    <3>3. ASSUME NEW i, Inside(bs, Null, x, i) PROVE Inside(cs, Null, x, i)
      BY <1>1, <1>2, <3>3 DEF Inside, IsConditional
    <3> QED
      BY <1>2, <3>1, <3>2, <3>3, InnerKept
  <2> QED
    BY <2>1, <2>2
<1>8. OuterMost(cs)
  <2>1. OuterMost(bs) /\ Root \in 1 .. n /\ Root # b
    BY <1>1 DEF GraphInv, OuterMost, Root
  <2> QED
    BY <1>1, <1>2, <2>1 DEF OuterMost
<1> QED
  BY <1>2, <1>5, <1>6, <1>7, <1>8 DEF GraphInv

(* The empty block counts no more once it is conditional or has events.    *)
LEMMA NoneEmptyGraph ==
  ASSUME NEW E, NEW bs \in Seq(BlockOf(E)), NEW e, GraphInv(bs, e),
         IsConditional(bs[e]) \/ bs[e].body # <<>>
  PROVE  GraphInv(bs, Null)
<1>1. ASSUME NEW x \in 1 .. Len(bs) PROVE InnerOf(bs, Null, x, bs[x].inner)
  <2>1. InnerOf(bs, e, x, bs[x].inner) /\ bs[x].inner \in Seq(Nat)
    BY FieldTypes DEF GraphInv
  <2>2. ASSUME NEW i, Inside(bs, e, x, i) PROVE Inside(bs, Null, x, i)
    BY <2>2 DEF Inside
  <2> QED
    BY <2>1, <2>2, InnerKept
<1> QED
  BY <1>1 DEF GraphInv

-----------------------------------------------------------------------------
(* What the operators of module Slice do to the blocks.                    *)

(* Slice::append and Slice::append_all: the events go to the current block.*)
LEMMA AppendAllFacts ==
  ASSUME NEW E, NEW s \in SliceOf(E), s.cur \in 1 .. Len(s.blocks), NEW es \in Seq(E)
  PROVE  /\ AppendAll(s, es) \in SliceOf(E)
         /\ AppendAll(s, es).cur = s.cur
         /\ Written(s.blocks, AppendAll(s, es).blocks, s.cur, es)
<1> DEFINE old == s.blocks[s.cur]
           new == [old EXCEPT !.body = @ \o es]
           bs == [s.blocks EXCEPT ![s.cur] = new]
           n == Len(s.blocks)
<1>1. s.blocks \in Seq(BlockOf(E)) /\ DOMAIN s.blocks = 1 .. n /\ n \in Nat
  BY DEF SliceOf
<1>2. old \in BlockOf(E)
  BY <1>1, ElementInSet
<1>3. new \in BlockOf(E)
  BY <1>2, ConcatInSeq DEF BlockOf
<1>4. Kept(old, new) /\ new.inner = old.inner /\ new.body = old.body \o es
  BY <1>2 DEF BlockOf, Kept
<1>5. /\ bs \in Seq(BlockOf(E)) /\ Len(bs) = n /\ bs[s.cur] = new
      /\ \A b \in 1 .. n : b # s.cur => bs[b] = s.blocks[b]
  <2> HIDE DEF new
  <2> QED
    BY <1>1, <1>3, ExceptInSeq
<1>6. AppendAll(s, es) = [s EXCEPT !.blocks = bs]
  BY DEF AppendAll
<1> HIDE DEF new, bs
<1>7. AppendAll(s, es).blocks = bs /\ AppendAll(s, es).cur = s.cur /\ AppendAll(s, es) \in SliceOf(E)
  BY <1>5, <1>6 DEF SliceOf
<1>8. Written(s.blocks, bs, s.cur, es)
  BY <1>4, <1>5 DEF Written, Kept
<1> QED
  BY <1>7, <1>8

(* Entering a new block makes it the current one.                          *)
LEMMA EnterFacts ==
  ASSUME NEW E, NEW s \in SliceOf(E), NEW outer \in 1 .. Len(s.blocks),
         NEW cond \in Literal \union {NoCond}
  PROVE  /\ Enter(s, outer, cond) \in SliceOf(E)
         /\ Enter(s, outer, cond).cur = Len(s.blocks) + 1
         /\ Entered(s.blocks, Enter(s, outer, cond).blocks, outer, cond)
<1> DEFINE n == Len(s.blocks)
           old == s.blocks[outer]
           new == [old EXCEPT !.inner = Append(@, n + 1)]
           pushed == [s.blocks EXCEPT ![outer] = new]
           bs == Append(pushed, Block(outer, cond))
<1>1. s.blocks \in Seq(BlockOf(E)) /\ DOMAIN s.blocks = 1 .. n /\ n \in Nat /\ n + 1 \in Nat
  BY DEF SliceOf
<1>2. old \in BlockOf(E) /\ outer \in Nat
  BY <1>1, ElementInSet
<1>3. new \in BlockOf(E) /\ Kept(old, new) /\ new.body = old.body
      /\ new.inner = Append(old.inner, n + 1)
  <2> HIDE DEF n, old
  <2> QED
    BY <1>1, <1>2, AppendFacts DEF BlockOf, Kept
<1>4. Enter(s, outer, cond) = [blocks |-> bs, cur |-> n + 1]
  BY DEF Enter, New, PushInner
<1>5. Block(outer, cond) \in BlockOf(E)
  BY <1>2, BlockFacts
<1>6. /\ pushed \in Seq(BlockOf(E)) /\ Len(pushed) = n /\ pushed[outer] = new
      /\ \A b \in 1 .. n : b # outer => pushed[b] = s.blocks[b]
  <2> HIDE DEF new
  <2> QED
    BY <1>1, <1>3, ExceptInSeq
<1> HIDE DEF new, pushed
<1>7. /\ bs \in Seq(BlockOf(E)) /\ Len(bs) = n + 1 /\ bs[n + 1] = Block(outer, cond)
      /\ \A b \in 1 .. n : bs[b] = pushed[b]
  BY <1>5, <1>6, AppendFacts
<1> HIDE DEF bs
<1>8. Entered(s.blocks, bs, outer, cond)
  <2>1. \A x \in 1 .. n : Kept(s.blocks[x], bs[x]) /\ bs[x].body = s.blocks[x].body
    BY <1>3, <1>6, <1>7 DEF Kept
  <2>2. bs[outer].inner = Append(s.blocks[outer].inner, n + 1)
    BY <1>3, <1>6, <1>7
  <2> QED
    BY <1>6, <1>7, <2>1, <2>2 DEF Entered
<1>9. [blocks |-> bs, cur |-> n + 1] \in SliceOf(E)
  BY <1>1, <1>7 DEF SliceOf
<1> QED
  BY <1>4, <1>8, <1>9

(* Unlinking the last inner block.                                         *)
LEMMA PopInnerFacts ==
  ASSUME NEW E, NEW bs \in Seq(BlockOf(E)), NEW b \in 1 .. Len(bs)
  PROVE  PopInner(bs, b) \in Seq(BlockOf(E)) /\ Unlinked(bs, PopInner(bs, b), b)
<1> DEFINE new == [bs[b] EXCEPT !.inner = Front(@)]
           cs == [bs EXCEPT ![b] = new]
<1>1. bs[b] \in BlockOf(E) /\ DOMAIN bs = 1 .. Len(bs)
  BY ElementInSet
<1>2. new \in BlockOf(E) /\ Kept(bs[b], new) /\ new.body = bs[b].body
      /\ new.inner = Front(bs[b].inner)
  BY <1>1, FrontInSeq DEF BlockOf, Kept
<1>3. /\ cs \in Seq(BlockOf(E)) /\ Len(cs) = Len(bs) /\ cs[b] = new
      /\ \A x \in 1 .. Len(bs) : x # b => cs[x] = bs[x]
  <2> HIDE DEF new
  <2> QED
    BY <1>1, <1>2, ExceptInSeq
<1>4. PopInner(bs, b) = cs
  BY DEF PopInner
<1> HIDE DEF new, cs
<1>5. Unlinked(bs, cs, b)
  BY <1>2, <1>3 DEF Unlinked, Kept
<1> QED
  BY <1>3, <1>4, <1>5

(* Giving the current block a condition.                                   *)
LEMMA ConditionFacts ==
  ASSUME NEW E, NEW bs \in Seq(BlockOf(E)), NEW b \in 1 .. Len(bs), NEW lit \in Literal
  PROVE  /\ [bs EXCEPT ![b].cond = lit] \in Seq(BlockOf(E))
         /\ Conditioned(bs, [bs EXCEPT ![b].cond = lit], b, lit)
<1> DEFINE new == [bs[b] EXCEPT !.cond = lit]
           cs == [bs EXCEPT ![b] = new]
<1>1. bs[b] \in BlockOf(E) /\ DOMAIN bs = 1 .. Len(bs)
  BY ElementInSet
<1>2. /\ new \in BlockOf(E) /\ new.cond = lit /\ new.outer = bs[b].outer
      /\ new.els = bs[b].els /\ new.inner = bs[b].inner /\ new.body = bs[b].body
  BY <1>1 DEF BlockOf
<1>3. /\ cs \in Seq(BlockOf(E)) /\ Len(cs) = Len(bs) /\ cs[b] = new
      /\ \A x \in 1 .. Len(bs) : x # b => cs[x] = bs[x]
  <2> HIDE DEF new
  <2> QED
    BY <1>1, <1>2, ExceptInSeq
<1>4. [bs EXCEPT ![b].cond = lit] = cs
  OBVIOUS
<1> HIDE DEF new, cs
<1>5. Conditioned(bs, cs, b, lit)
  BY <1>2, <1>3 DEF Conditioned
<1> QED
  BY <1>3, <1>4, <1>5

(* Linking an else block.                                                  *)
LEMMA ElseFacts ==
  ASSUME NEW E, NEW bs \in Seq(BlockOf(E)), NEW b \in 1 .. Len(bs), bs[b].cond \in Literal
  PROVE  LET else == Block(bs[b].outer, Negate(bs[b].cond))
             cs   == Append([bs EXCEPT ![b].els = Len(bs) + 1], else)
         IN  cs \in Seq(BlockOf(E)) /\ ElseAdded(bs, cs, b)
<1> DEFINE n == Len(bs)
           new == [bs[b] EXCEPT !.els = n + 1]
           ds == [bs EXCEPT ![b] = new]
           else == Block(bs[b].outer, Negate(bs[b].cond))
           cs == Append(ds, else)
<1>1. bs[b] \in BlockOf(E) /\ DOMAIN bs = 1 .. n /\ n + 1 \in Nat /\ n \in Nat
  BY ElementInSet
<1>2. /\ new \in BlockOf(E) /\ new.els = n + 1 /\ new.outer = bs[b].outer
      /\ new.cond = bs[b].cond /\ new.inner = bs[b].inner /\ new.body = bs[b].body
  <2> HIDE DEF n
  <2> QED
    BY <1>1 DEF BlockOf
<1>3. /\ ds \in Seq(BlockOf(E)) /\ Len(ds) = n /\ ds[b] = new
      /\ \A x \in 1 .. n : x # b => ds[x] = bs[x]
  <2> HIDE DEF new
  <2> QED
    BY <1>1, <1>2, ExceptInSeq
<1>4. else \in BlockOf(E)
  <2>1. Negate(bs[b].cond) \in Literal /\ bs[b].outer \in Nat
    BY <1>1 DEF Negate, Literal, BlockOf
  <2> QED
    BY <2>1, BlockFacts
<1> HIDE DEF new, ds
<1>5. /\ cs \in Seq(BlockOf(E)) /\ Len(cs) = n + 1 /\ cs[n + 1] = else
      /\ \A x \in 1 .. n : cs[x] = ds[x]
  <2> HIDE DEF else
  <2> QED
    BY <1>3, <1>4, AppendFacts
<1>6. ElseAdded(bs, cs, b)
  <2> HIDE DEF cs
  <2> QED
    BY <1>2, <1>3, <1>5 DEF ElseAdded
<1> QED
  BY <1>5, <1>6 DEF ds, new

-----------------------------------------------------------------------------
(* Recording events preserves the invariant of the slice.                  *)
LEMMA AppendAllInv ==
  ASSUME NEW E, NEW s \in SliceOf(E), SliceInv(s), NEW es \in Seq(E)
  PROVE  /\ AppendAll(s, es) \in SliceOf(E)
         /\ SliceInv(AppendAll(s, es))
         /\ AppendAll(s, es).cur = s.cur
         /\ Written(s.blocks, AppendAll(s, es).blocks, s.cur, es)
<1> DEFINE n == Len(s.blocks)
           t == AppendAll(s, es)
<1>1. s.blocks \in Seq(BlockOf(E)) /\ n \in Nat /\ s.cur \in 2 .. n /\ s.cur \in 1 .. n
  <2>1. s.blocks \in Seq(BlockOf(E))
    BY DEF SliceOf
  <2> QED
    BY <2>1, FieldTypes DEF SliceInv
<1>2. t \in SliceOf(E) /\ t.cur = s.cur /\ Written(s.blocks, t.blocks, s.cur, es)
  BY <1>1, AppendAllFacts
<1> HIDE DEF t
<1>3. t.blocks \in Seq(BlockOf(E))
  BY <1>2 DEF SliceOf
<1>4. GraphInv(t.blocks, s.cur)
  BY <1>1, <1>2, <1>3, WrittenGraph DEF SliceInv
<1>5. /\ Len(t.blocks) = n
      /\ \A b \in 1 .. n : /\ t.blocks[b].outer = s.blocks[b].outer
                           /\ t.blocks[b].cond = s.blocks[b].cond
                           /\ t.blocks[b].inner = s.blocks[b].inner
                           /\ t.blocks[b].els = s.blocks[b].els
  BY <1>2 DEF Written, Kept
<1>6. s.blocks[s.cur].outer \in 1 .. n
  BY <1>1 DEF SliceInv, GraphInv, Lies
<1>7. SliceInv(t)
  BY <1>1, <1>2, <1>4, <1>5, <1>6 DEF SliceInv, Current, IsConditional
<1> QED
  BY <1>2, <1>7 DEF t

(* A slice with a fresh current block at the end.                          *)
LEMMA FreshInv ==
  ASSUME NEW t, NEW n \in Nat, n >= 2, Len(t.blocks) = n + 1, t.cur = n + 1,
         Current(t).inner = <<>>, Current(t).els = Null,
         GraphInv(t.blocks, n + 1) \/ GraphInv(t.blocks, Null),
         IsConditional(Current(t)) \/
           (t.blocks[Current(t).outer].inner # <<>> /\ Last(t.blocks[Current(t).outer].inner) = n + 1)
  PROVE  SliceInv(t)
<1>1. GraphInv(t.blocks, n + 1)
  <2> SUFFICES ASSUME GraphInv(t.blocks, Null) PROVE GraphInv(t.blocks, n + 1)
    OBVIOUS
  <2>1. ASSUME NEW b \in 1 .. Len(t.blocks)
        PROVE  InnerOf(t.blocks, n + 1, b, t.blocks[b].inner)
    <3>1. InnerOf(t.blocks, Null, b, t.blocks[b].inner)
      BY DEF GraphInv
    <3>2. \A i : Inside(t.blocks, Null, b, i) => Inside(t.blocks, n + 1, b, i)
      BY DEF Inside, Null
    <3> QED
      BY <3>1, <3>2 DEF InnerOf
  <2> QED
    BY <2>1 DEF GraphInv
<1> QED
  BY <1>1 DEF SliceInv

(* The block of the innermost open arm, if there is one. *)
ArmBlock(s) == IF IsConditional(Current(s)) THEN s.cur ELSE Current(s).outer

(* The arm around the current block is conditional or the most outer block.*)
LEMMA ArmBlockFacts ==
  ASSUME NEW E, NEW s \in SliceOf(E), SliceInv(s)
  PROVE  /\ s.blocks \in Seq(BlockOf(E))
         /\ Len(s.blocks) \in Nat
         /\ s.cur \in 2 .. Len(s.blocks)
         /\ ArmBlock(s) \in 1 .. Len(s.blocks)
         /\ ArmBlock(s) = Root \/ IsConditional(s.blocks[ArmBlock(s)])
<1>1. s.blocks \in Seq(BlockOf(E))
  BY DEF SliceOf
<1>2. Len(s.blocks) \in Nat /\ s.cur \in 2 .. Len(s.blocks)
  BY <1>1, FieldTypes DEF SliceInv
<1>3. Lies(s.blocks, s.cur)
  BY <1>2 DEF SliceInv, GraphInv
<1> QED
  BY <1>1, <1>2, <1>3 DEF Lies, ArmBlock, Current

(* Slice t is slice s after begin_then: the new block lies in the block of *)
(* the arm around it, and the other blocks stay where they are.            *)
ThenOpened(s, t, lit, reads) ==
  LET n   == Len(s.blocks)
      arm == ArmBlock(s)
  IN  /\ SliceInv(t)
      /\ Current(t).cond = lit
      /\ Current(t).outer = arm
      /\ \A b \in 1 .. n : /\ t.blocks[b].outer = s.blocks[b].outer
                           /\ t.blocks[b].els = s.blocks[b].els
                           /\ b # t.cur => t.blocks[b].cond = s.blocks[b].cond
                           /\ b # arm => t.blocks[b].inner = s.blocks[b].inner
                           /\ b # s.cur => t.blocks[b].body = s.blocks[b].body
      /\ t.blocks[s.cur].body = s.blocks[s.cur].body \o reads
      /\ \/ /\ Len(t.blocks) = n + 1 /\ t.cur = n + 1
            /\ Current(t).body = <<>>
            /\ t.blocks[arm].inner = Append(s.blocks[arm].inner, n + 1)
         \/ /\ Len(t.blocks) = n /\ t.cur = s.cur
            /\ ~IsConditional(Current(s))
            /\ Current(t).body = <<>>
            /\ t.blocks[arm].inner = s.blocks[arm].inner

(* Slice::begin_then opens a block in, or after the events of, the arm.    *)
LEMMA BeginThenFacts ==
  ASSUME NEW E, NEW s \in SliceOf(E), SliceInv(s), NEW lit \in Literal,
         NEW reads \in Seq(E)
  PROVE  /\ BeginThen(s, lit, reads) \in SliceOf(E)
         /\ ThenOpened(s, BeginThen(s, lit, reads), lit, reads)
<1> DEFINE n == Len(s.blocks)
           r == AppendAll(s, reads)
           c == Current(r)
           arm == ArmBlock(s)
           t == BeginThen(s, lit, reads)
<1>1. /\ s.blocks \in Seq(BlockOf(E)) /\ n \in Nat /\ s.cur \in 2 .. n /\ s.cur \in 1 .. n
      /\ arm \in 1 .. n /\ (arm = Root \/ IsConditional(s.blocks[arm]))
      /\ n >= 2
  BY ArmBlockFacts
<1>2. r \in SliceOf(E) /\ SliceInv(r) /\ r.cur = s.cur /\ Written(s.blocks, r.blocks, s.cur, reads)
  BY AppendAllInv
<1> HIDE DEF r
<1>3. /\ Len(r.blocks) = n
      /\ \A b \in 1 .. n : /\ r.blocks[b].outer = s.blocks[b].outer
                           /\ r.blocks[b].cond = s.blocks[b].cond
                           /\ r.blocks[b].inner = s.blocks[b].inner
                           /\ r.blocks[b].els = s.blocks[b].els
                           /\ b # s.cur => r.blocks[b].body = s.blocks[b].body
      /\ r.blocks[s.cur].body = s.blocks[s.cur].body \o reads
      /\ r.blocks \in Seq(BlockOf(E))
  BY <1>2 DEF Written, Kept, SliceOf
<1>4. /\ c.outer = s.blocks[s.cur].outer /\ c.inner = <<>> /\ c.els = Null
      /\ IsConditional(c) <=> IsConditional(Current(s))
      /\ GraphInv(r.blocks, s.cur)
  BY <1>1, <1>2, <1>3 DEF Current, IsConditional, SliceInv
<1>5. lit # NoCond /\ lit \in Literal \union {NoCond}
  BY NoCondAssumption
<1>6. ASSUME t = Enter(r, arm, lit), GraphInv(r.blocks, Null)
      PROVE  t \in SliceOf(E) /\ ThenOpened(s, t, lit, reads)
  <2> HIDE DEF t
  <2>1. arm \in 1 .. Len(r.blocks) /\ Len(r.blocks) = n
    BY <1>1, <1>3
  <2>2. t \in SliceOf(E) /\ t.cur = n + 1 /\ Entered(r.blocks, t.blocks, arm, lit)
    <3> HIDE DEF n, arm
    <3> QED
      BY <1>2, <1>5, <1>6, <2>1, EnterFacts
  <2>3. /\ Len(t.blocks) = n + 1
        /\ t.blocks[n + 1] = Block(arm, lit)
        /\ \A x \in 1 .. n : Kept(r.blocks[x], t.blocks[x]) /\ t.blocks[x].body = r.blocks[x].body
        /\ \A x \in 1 .. n : x # arm => t.blocks[x].inner = r.blocks[x].inner
        /\ t.blocks[arm].inner = Append(r.blocks[arm].inner, n + 1)
    BY <2>1, <2>2 DEF Entered
  <2>4. /\ Current(t).outer = arm /\ Current(t).cond = lit /\ Current(t).body = <<>>
        /\ Current(t).inner = <<>> /\ Current(t).els = Null
    BY <1>1, <1>5, <2>2, <2>3, BlockFacts DEF Current
  <2>5. GraphInv(t.blocks, n + 1)
    <3>1. t.blocks \in Seq(BlockOf(E))
      BY <2>2 DEF SliceOf
    <3>2. arm = Root \/ IsConditional(r.blocks[arm])
      BY <1>1, <1>3 DEF IsConditional
    <3> HIDE DEF n, arm
    <3> QED
      BY <1>3, <1>5, <1>6, <2>1, <2>2, <3>1, <3>2, EnteredGraph
  <2>6. SliceInv(t)
    BY <1>1, <1>5, <2>2, <2>3, <2>4, <2>5, FreshInv DEF IsConditional
  <2> QED
    BY <1>1, <1>3, <2>2, <2>3, <2>4, <2>6 DEF ThenOpened, Kept
<1>7. CASE IsConditional(c)
  <2>1. t = Enter(r, arm, lit)
    BY <1>2, <1>4, <1>7 DEF BeginThen, r, ArmBlock
  <2>2. GraphInv(r.blocks, Null)
    BY <1>2, <1>3, <1>4, <1>7, NoneEmptyGraph DEF Current
  <2> QED
    BY <1>6, <2>1, <2>2
<1>8. CASE ~IsConditional(c) /\ c.body # <<>>
  <2>1. t = Enter(r, arm, lit)
    BY <1>4, <1>8 DEF BeginThen, r, ArmBlock, Current
  <2>2. GraphInv(r.blocks, Null)
    BY <1>2, <1>3, <1>4, <1>8, NoneEmptyGraph DEF Current
  <2> QED
    BY <1>6, <2>1, <2>2
<1>9. CASE ~IsConditional(c) /\ c.body = <<>>
  <2> DEFINE bs == [r.blocks EXCEPT ![s.cur].cond = lit]
  <2>1. t = [r EXCEPT !.blocks = bs]
    BY <1>2, <1>9 DEF BeginThen, r
  <2>2. bs \in Seq(BlockOf(E)) /\ Conditioned(r.blocks, bs, s.cur, lit)
    BY <1>1, <1>3, ConditionFacts
  <2> HIDE DEF bs, t
  <2>3. t \in SliceOf(E) /\ t.blocks = bs /\ t.cur = s.cur
    BY <1>2, <2>1, <2>2 DEF SliceOf
  <2>4. /\ Len(bs) = n
        /\ \A x \in 1 .. n : /\ bs[x].outer = r.blocks[x].outer
                             /\ bs[x].els = r.blocks[x].els
                             /\ bs[x].inner = r.blocks[x].inner
                             /\ bs[x].body = r.blocks[x].body
        /\ \A x \in 1 .. n : x # s.cur => bs[x].cond = r.blocks[x].cond
        /\ bs[s.cur].cond = lit
    BY <1>3, <2>2 DEF Conditioned
  <2>5. GraphInv(bs, Null)
    <3>1. s.cur \in 2 .. Len(r.blocks) /\ ~IsConditional(r.blocks[s.cur]) /\ r.blocks[s.cur].els = Null
      BY <1>1, <1>2, <1>3, <1>4, <1>9 DEF Current
    <3> QED
      BY <1>3, <1>4, <2>2, <3>1, ConditionedGraph
  <2>6. GraphInv(bs, s.cur)
    <3>1. ASSUME NEW b \in 1 .. Len(bs) PROVE InnerOf(bs, s.cur, b, bs[b].inner)
      <4>1. InnerOf(bs, Null, b, bs[b].inner)
        BY <2>5 DEF GraphInv
      <4>2. \A i : Inside(bs, Null, b, i) => Inside(bs, s.cur, b, i)
        BY DEF Inside, Null
      <4> QED
        BY <4>1, <4>2 DEF InnerOf
    <3> QED
      BY <2>5, <3>1 DEF GraphInv
  <2>7. /\ Current(t).outer = c.outer /\ Current(t).cond = lit /\ Current(t).body = <<>>
        /\ Current(t).inner = <<>> /\ Current(t).els = Null
    BY <1>1, <1>2, <1>4, <1>9, <2>3, <2>4 DEF Current
  <2>8. SliceInv(t)
    BY <1>1, <1>5, <2>3, <2>4, <2>6, <2>7 DEF SliceInv, IsConditional
  <2>9. c.outer = arm /\ ~IsConditional(Current(s))
    BY <1>4, <1>9 DEF ArmBlock, Current
  <2>10. /\ Len(t.blocks) = n
         /\ \A b \in 1 .. n : /\ t.blocks[b].outer = s.blocks[b].outer
                              /\ t.blocks[b].els = s.blocks[b].els
                              /\ b # t.cur => t.blocks[b].cond = s.blocks[b].cond
                              /\ t.blocks[b].inner = s.blocks[b].inner
                              /\ b # s.cur => t.blocks[b].body = s.blocks[b].body
         /\ t.blocks[s.cur].body = s.blocks[s.cur].body \o reads
    BY <1>1, <1>3, <2>3, <2>4
  <2> HIDE DEF arm
  <2>11. t.blocks[arm].inner = s.blocks[arm].inner
    BY <1>1, <2>10
  <2> HIDE DEF c
  <2> QED
    BY <2>3, <2>7, <2>8, <2>9, <2>10, <2>11 DEF ThenOpened, arm, t
<1> QED
  BY <1>7, <1>8, <1>9

(* The blocks of s without the current one, if that is unconditional and   *)
(* has no events: what begin_else and end_branch start from.               *)
Trimmed(s) ==
  IF ~IsConditional(Current(s)) /\ Current(s).body = <<>>
    THEN PopInner(s.blocks, Current(s).outer)
    ELSE s.blocks

(* Trimming the blocks of a slice in a branch leaves no empty block.       *)
LEMMA TrimmedFacts ==
  ASSUME NEW E, NEW s \in SliceOf(E), SliceInv(s), ArmBlock(s) \in 2 .. Len(s.blocks)
  PROVE  /\ Trimmed(s) \in Seq(BlockOf(E))
         /\ Len(Trimmed(s)) = Len(s.blocks)
         /\ GraphInv(Trimmed(s), Null)
         /\ \A b \in 1 .. Len(s.blocks) :
              /\ Trimmed(s)[b].outer = s.blocks[b].outer
              /\ Trimmed(s)[b].cond = s.blocks[b].cond
              /\ Trimmed(s)[b].els = s.blocks[b].els
              /\ Trimmed(s)[b].body = s.blocks[b].body
              /\ b # ArmBlock(s) => Trimmed(s)[b].inner = s.blocks[b].inner
<1> DEFINE bs == s.blocks
           cs == Trimmed(s)
           c == Current(s)
<1>1. bs \in Seq(BlockOf(E)) /\ s.cur \in 2 .. Len(bs) /\ GraphInv(bs, s.cur)
  BY ArmBlockFacts DEF SliceInv
<1>2. CASE IsConditional(c) \/ c.body # <<>>
  <2>1. cs = bs
    BY <1>2 DEF Trimmed
  <2>2. GraphInv(bs, Null)
    BY <1>1, <1>2, NoneEmptyGraph DEF Current
  <2> QED
    BY <1>1, <2>1, <2>2
<1>3. CASE ~IsConditional(c) /\ c.body = <<>>
  <2>1. cs = PopInner(bs, c.outer) /\ ArmBlock(s) = c.outer
    BY <1>3 DEF Trimmed, ArmBlock
  <2>2. /\ bs[c.outer].inner # <<>> /\ Last(bs[c.outer].inner) = s.cur
        /\ c.outer \in 2 .. Len(bs) /\ c.outer \in 1 .. Len(bs)
        /\ bs[s.cur].outer = c.outer
    BY <1>1, <1>3, <2>1, FieldTypes DEF SliceInv, Current
  <2>3. cs \in Seq(BlockOf(E)) /\ Unlinked(bs, cs, c.outer)
    BY <1>1, <2>1, <2>2, PopInnerFacts
  <2> HIDE DEF cs, c
  <2>4. GraphInv(cs, Null)
    BY <1>1, <2>2, <2>3, UnlinkedGraph
  <2> QED
    BY <2>1, <2>3, <2>4 DEF Unlinked, Kept, cs
<1> QED
  BY <1>2, <1>3

(* Slice t is slice s after begin_else: the new block is the else block of *)
(* the block of the innermost open arm, whose negated condition it has.    *)
ElseOpened(s, t) ==
  LET n   == Len(s.blocks)
      arm == ArmBlock(s)
  IN  /\ SliceInv(t)
      /\ t.cur = n + 1
      /\ Len(t.blocks) = n + 1
      /\ \A b \in 1 .. n : /\ t.blocks[b].outer = s.blocks[b].outer
                           /\ t.blocks[b].cond = s.blocks[b].cond
                           /\ t.blocks[b].body = s.blocks[b].body
                           /\ b # arm => /\ t.blocks[b].els = s.blocks[b].els
                                         /\ t.blocks[b].inner = s.blocks[b].inner
      /\ t.blocks[arm].els = n + 1
      /\ t.blocks[arm].inner = Trimmed(s)[arm].inner
      /\ Current(t).outer = s.blocks[arm].outer
      /\ Current(t).cond = Negate(s.blocks[arm].cond)
      /\ Current(t).body = <<>>

(* Slice::begin_else first goes back to the block of the arm around it.    *)
LEMMA LeaveArmFacts ==
  ASSUME NEW E, NEW s \in SliceOf(E), SliceInv(s), ArmBlock(s) \in 2 .. Len(s.blocks)
  PROVE  LeaveArm(s).blocks = Trimmed(s) /\ LeaveArm(s).cur = ArmBlock(s)
BY DEF LeaveArm, Trimmed, ArmBlock, SliceOf

(* Slice::begin_else opens the else block of the innermost open arm.       *)
LEMMA BeginElseFacts ==
  ASSUME NEW E, NEW s \in SliceOf(E), SliceInv(s), ArmBlock(s) \in 2 .. Len(s.blocks)
  PROVE  BeginElse(s) \in SliceOf(E) /\ ElseOpened(s, BeginElse(s))
<1> DEFINE n == Len(s.blocks)
           arm == ArmBlock(s)
           r == Trimmed(s)
           else == Block(r[arm].outer, Negate(r[arm].cond))
           cs == Append([r EXCEPT ![arm].els = n + 1], else)
           t == BeginElse(s)
<1>1. /\ s.blocks \in Seq(BlockOf(E)) /\ n \in Nat /\ n >= 2
      /\ arm \in 2 .. n /\ arm \in 1 .. n /\ IsConditional(s.blocks[arm])
  BY ArmBlockFacts DEF Root
<1>2. /\ r \in Seq(BlockOf(E)) /\ Len(r) = n /\ GraphInv(r, Null)
      /\ \A b \in 1 .. n : /\ r[b].outer = s.blocks[b].outer
                           /\ r[b].cond = s.blocks[b].cond
                           /\ r[b].els = s.blocks[b].els
                           /\ r[b].body = s.blocks[b].body
                           /\ b # arm => r[b].inner = s.blocks[b].inner
  BY TrimmedFacts
<1>3. t = [blocks |-> cs, cur |-> n + 1]
  BY <1>2, LeaveArmFacts DEF BeginElse, Current, New
<1> HIDE DEF r
<1>4. r[arm].cond \in Literal
  BY <1>1, <1>2, FieldTypes DEF IsConditional
<1>5. cs \in Seq(BlockOf(E)) /\ ElseAdded(r, cs, arm)
  BY <1>1, <1>2, <1>4, ElseFacts
<1>6. GraphInv(cs, Null)
  <2> HIDE DEF cs
  <2> QED
    BY <1>1, <1>2, <1>4, <1>5, ElseAddedGraph
<1>7. Negate(r[arm].cond) \in Literal /\ r[arm].outer \in Nat
  <2>1. Negate(r[arm].cond) \in Literal
    BY <1>4 DEF Negate, Literal
  <2> QED
    BY <1>1, <1>2, <2>1, FieldTypes
<1> HIDE DEF cs, t
<1>8. t \in SliceOf(E) /\ t.blocks = cs /\ t.cur = n + 1
  BY <1>1, <1>3, <1>5 DEF SliceOf
<1>9. /\ Len(cs) = n + 1 /\ cs[n + 1] = else
      /\ \A x \in 1 .. n : /\ cs[x].outer = r[x].outer
                           /\ cs[x].cond = r[x].cond
                           /\ cs[x].inner = r[x].inner
                           /\ cs[x].body = r[x].body
                           /\ x # arm => cs[x].els = r[x].els
      /\ cs[arm].els = n + 1
  BY <1>2, <1>5 DEF ElseAdded
<1>10. /\ Current(t).outer = s.blocks[arm].outer
       /\ Current(t).cond = Negate(s.blocks[arm].cond) /\ Current(t).cond # NoCond
       /\ Current(t).body = <<>> /\ Current(t).inner = <<>> /\ Current(t).els = Null
  <2>1. Current(t) = else
    BY <1>8, <1>9 DEF Current
  <2> QED
    BY <1>1, <1>2, <1>7, <2>1, BlockFacts, NoCondAssumption
<1>11. SliceInv(t)
  BY <1>1, <1>6, <1>8, <1>9, <1>10, FreshInv DEF IsConditional
<1> HIDE DEF arm, else
<1>12. ElseOpened(s, t)
  BY <1>1, <1>2, <1>8, <1>9, <1>10, <1>11 DEF ElseOpened, arm, r
<1> QED
  BY <1>8, <1>12 DEF t

(* Slice t is slice s after end_branch: the new unconditional block comes  *)
(* after the branch, in the block around it.                               *)
BranchEnded(s, t) ==
  LET n      == Len(s.blocks)
      arm    == ArmBlock(s)
      around == s.blocks[arm].outer
  IN  /\ SliceInv(t)
      /\ t.cur = n + 1
      /\ Len(t.blocks) = n + 1
      /\ \A b \in 1 .. n : /\ t.blocks[b].outer = s.blocks[b].outer
                           /\ t.blocks[b].cond = s.blocks[b].cond
                           /\ t.blocks[b].els = s.blocks[b].els
                           /\ t.blocks[b].body = s.blocks[b].body
                           /\ b # arm /\ b # around => t.blocks[b].inner = s.blocks[b].inner
      /\ t.blocks[arm].inner = Trimmed(s)[arm].inner
      /\ t.blocks[around].inner = Append(s.blocks[around].inner, n + 1)
      /\ Current(t).outer = around
      /\ Current(t).cond = NoCond
      /\ Current(t).body = <<>>

(* Slice::end_branch goes on after the innermost open branch.              *)
LEMMA EndBranchFacts ==
  ASSUME NEW E, NEW s \in SliceOf(E), SliceInv(s), ArmBlock(s) \in 2 .. Len(s.blocks)
  PROVE  EndBranch(s) \in SliceOf(E) /\ BranchEnded(s, EndBranch(s))
<1> DEFINE n == Len(s.blocks)
           arm == ArmBlock(s)
           around == s.blocks[arm].outer
           r == [s EXCEPT !.blocks = Trimmed(s)]
           t == EndBranch(s)
<1>1. /\ s.blocks \in Seq(BlockOf(E)) /\ n \in Nat /\ n >= 2 /\ arm \in 2 .. n /\ arm \in 1 .. n
  BY ArmBlockFacts
<1>2. /\ Trimmed(s) \in Seq(BlockOf(E)) /\ Len(Trimmed(s)) = n /\ GraphInv(Trimmed(s), Null)
      /\ \A b \in 1 .. n : /\ Trimmed(s)[b].outer = s.blocks[b].outer
                           /\ Trimmed(s)[b].cond = s.blocks[b].cond
                           /\ Trimmed(s)[b].els = s.blocks[b].els
                           /\ Trimmed(s)[b].body = s.blocks[b].body
                           /\ b # arm => Trimmed(s)[b].inner = s.blocks[b].inner
  BY TrimmedFacts
<1>3. r \in SliceOf(E) /\ r.blocks = Trimmed(s)
  BY <1>2 DEF SliceOf
<1>4. t = Enter(r, around, NoCond)
  BY DEF EndBranch, Trimmed, ArmBlock, Current, SliceOf
<1>5. Lies(Trimmed(s), arm)
  BY <1>1, <1>2 DEF GraphInv
<1>6. /\ around \in 1 .. n /\ around \in 1 .. arm - 1 /\ around # arm
      /\ (around = Root \/ IsConditional(Trimmed(s)[around]))
  BY <1>1, <1>2, <1>5 DEF Lies
<1> HIDE DEF r, t, arm, around
<1>7. t \in SliceOf(E) /\ t.cur = n + 1 /\ Entered(Trimmed(s), t.blocks, around, NoCond)
  <2>1. around \in 1 .. Len(r.blocks) /\ Len(r.blocks) = n /\ NoCond \in Literal \union {NoCond}
    BY <1>2, <1>3, <1>6
  <2> HIDE DEF n
  <2>2. t \in SliceOf(E) /\ t.cur = n + 1 /\ Entered(r.blocks, t.blocks, around, NoCond)
    BY <1>3, <1>4, <2>1, EnterFacts
  <2> QED
    BY <1>3, <2>2
<1>8. /\ Len(t.blocks) = n + 1
      /\ t.blocks[n + 1] = Block(around, NoCond)
      /\ \A b \in 1 .. n : /\ t.blocks[b].outer = s.blocks[b].outer
                           /\ t.blocks[b].cond = s.blocks[b].cond
                           /\ t.blocks[b].els = s.blocks[b].els
                           /\ t.blocks[b].body = s.blocks[b].body
                           /\ b # arm /\ b # around => t.blocks[b].inner = s.blocks[b].inner
      /\ t.blocks[arm].inner = Trimmed(s)[arm].inner
      /\ t.blocks[around].inner = Append(s.blocks[around].inner, n + 1)
  BY <1>1, <1>2, <1>6, <1>7 DEF Entered, Kept
<1>9. GraphInv(t.blocks, n + 1)
  <2>1. t.blocks \in Seq(BlockOf(E))
    BY <1>7 DEF SliceOf
  <2> QED
    BY <1>2, <1>6, <1>7, <2>1, EnteredGraph
<1>10. /\ Current(t).outer = around /\ Current(t).cond = NoCond /\ Current(t).body = <<>>
       /\ Current(t).inner = <<>> /\ Current(t).els = Null
  BY <1>1, <1>6, <1>7, <1>8, BlockFacts DEF Current
<1>11. SliceInv(t)
  <2>1. s.blocks[around].inner \in Seq(Nat) /\ n + 1 \in Nat
    BY <1>1, <1>6, FieldTypes
  <2>2. t.blocks[around].inner # <<>> /\ Last(t.blocks[around].inner) = n + 1
    <3> DEFINE q == s.blocks[around].inner
    <3>1. Append(q, n + 1) \in Seq(Nat) /\ Len(Append(q, n + 1)) = Len(q) + 1 /\ Append(q, n + 1)[Len(q) + 1] = n + 1
      BY <2>1, AppendFacts
    <3>2. Append(q, n + 1) # <<>>
      BY <2>1, <3>1, EmptyFacts
    <3> QED
      BY <1>8, <3>1, <3>2 DEF Last
  <2> QED
    BY <1>1, <1>7, <1>8, <1>9, <1>10, <2>2, FreshInv
<1>12. BranchEnded(s, t)
  BY <1>7, <1>8, <1>10, <1>11 DEF BranchEnded, arm, around
<1> QED
  BY <1>7, <1>12 DEF t

-----------------------------------------------------------------------------
(* The open branches of the program, outermost first, in the blocks: the   *)
(* block of the "then" arm names the branch.                               *)
ArmSeq == Seq([branch : Nat, side : {"then", "else"}])

ArmOf(s, a) == IF a.side = "then" THEN a.branch ELSE s.blocks[a.branch].els

AroundArm(s, arms, k) == IF k = 1 THEN Root ELSE ArmOf(s, arms[k - 1])

(* The k-th open branch is the last inner block of the arm around it.      *)
OnArm(s, arms, k) ==
  /\ arms[k].branch \in 2 .. Len(s.blocks)
  /\ arms[k].side = "then" => s.blocks[arms[k].branch].els = Null
  /\ ArmOf(s, arms[k]) \in 2 .. Len(s.blocks)
  /\ s.blocks[ArmOf(s, arms[k])].outer = AroundArm(s, arms, k)
  /\ IsConditional(s.blocks[ArmOf(s, arms[k])])
  /\ s.blocks[AroundArm(s, arms, k)].inner # <<>>
  /\ Last(s.blocks[AroundArm(s, arms, k)].inner) = arms[k].branch

(* The innermost open arm is the one around the current block.             *)
OnArms(s, arms) ==
  /\ \A k \in 1 .. Len(arms) : OnArm(s, arms, k)
  /\ \A k \in 1 .. Len(arms) : \A j \in 1 .. k - 1 : ArmOf(s, arms[j]) < arms[k].branch
  /\ Len(arms) = 0 => ArmBlock(s) = Root
  /\ \A k \in 1 .. Len(arms) : k = Len(arms) => ArmBlock(s) = ArmOf(s, arms[k])

(* The arms of a branch are blocks from its "then" block on.               *)
LEMMA ArmAfter ==
  ASSUME NEW s, SliceInv(s), Len(s.blocks) \in Nat, NEW arms \in ArmSeq, NEW k \in 1 .. Len(arms), OnArm(s, arms, k)
  PROVE  arms[k].branch \in Nat /\ ArmOf(s, arms[k]) \in Nat /\ arms[k].branch <= ArmOf(s, arms[k])
<1>1. CASE arms[k].side = "then"
  BY <1>1 DEF OnArm, ArmOf
<1>2. CASE arms[k].side # "then"
  <2>1. /\ arms[k].branch \in 1 .. Len(s.blocks)
        /\ ArmOf(s, arms[k]) = s.blocks[arms[k].branch].els
        /\ s.blocks[arms[k].branch].els # Null
    BY <1>2 DEF OnArm, ArmOf, Null
  <2>2. ElseBeside(s.blocks, arms[k].branch)
    BY <2>1 DEF SliceInv, GraphInv
  <2> QED
    BY <2>1, <2>2 DEF ElseBeside
<1> QED
  BY <1>1, <1>2

(* The arms around an open one, and the most outer block, are earlier.     *)
LEMMA ArmsAscend ==
  ASSUME NEW s, SliceInv(s), Len(s.blocks) \in Nat, NEW arms \in ArmSeq, OnArms(s, arms),
         NEW k \in 1 .. Len(arms)
  PROVE  /\ AroundArm(s, arms, k) \in 1 .. Len(s.blocks)
         /\ AroundArm(s, arms, k) < ArmOf(s, arms[k])
         /\ \A j \in 1 .. k - 1 : ArmOf(s, arms[j]) < ArmOf(s, arms[k])
         /\ \A j \in 1 .. k - 1 : AroundArm(s, arms, j) < AroundArm(s, arms, k)
         /\ \A j \in 1 .. k - 1 : arms[j].branch # arms[k].branch
<1>1. ASSUME NEW j \in 1 .. Len(arms)
      PROVE  /\ arms[j].branch \in Nat /\ ArmOf(s, arms[j]) \in 2 .. Len(s.blocks)
             /\ arms[j].branch <= ArmOf(s, arms[j])
  BY ArmAfter DEF OnArms, OnArm
<1>2. ASSUME NEW i \in 1 .. Len(arms), NEW j \in 1 .. i - 1
      PROVE  /\ j \in 1 .. Len(arms) /\ ArmOf(s, arms[j]) < arms[i].branch
             /\ ArmOf(s, arms[j]) < ArmOf(s, arms[i])
             /\ arms[j].branch # arms[i].branch
  <2>1. j \in 1 .. Len(arms) /\ ArmOf(s, arms[j]) < arms[i].branch
    BY DEF OnArms
  <2> QED
    BY <1>1, <2>1
<1>3. AroundArm(s, arms, k) \in 1 .. Len(s.blocks) /\ AroundArm(s, arms, k) < ArmOf(s, arms[k])
  <2>1. CASE k = 1
    BY <1>1, <2>1 DEF AroundArm, Root
  <2>2. CASE k # 1
    <3>1. k - 1 \in 1 .. k - 1 /\ k - 1 \in 1 .. Len(arms)
      BY <2>2
    <3> QED
      BY <1>1, <1>2, <2>2, <3>1 DEF AroundArm
  <2> QED
    BY <2>1, <2>2
<1>4. ASSUME NEW j \in 1 .. k - 1 PROVE AroundArm(s, arms, j) < AroundArm(s, arms, k)
  <2>1. k # 1 /\ k - 1 \in 1 .. Len(arms)
    OBVIOUS
  <2>2. AroundArm(s, arms, k) = ArmOf(s, arms[k - 1]) /\ ArmOf(s, arms[k - 1]) \in 2 .. Len(s.blocks)
    BY <1>1, <2>1 DEF AroundArm
  <2>3. CASE j = 1
    BY <2>2, <2>3 DEF AroundArm, Root
  <2>4. CASE j # 1
    <3>1. j - 1 \in 1 .. (k - 1) - 1
      BY <2>4
    <3>2. ArmOf(s, arms[j - 1]) < ArmOf(s, arms[k - 1])
      BY <1>2, <2>1, <3>1
    <3> QED
      BY <2>2, <2>4, <3>2 DEF AroundArm
  <2> QED
    BY <2>3, <2>4
<1> QED
  BY <1>2, <1>3, <1>4

(* An open arm stays open while its blocks keep their links.               *)
LEMMA ArmStays ==
  ASSUME NEW s, NEW t, NEW arms, NEW brms, NEW k, OnArm(s, arms, k), brms[k] = arms[k],
         AroundArm(t, brms, k) = AroundArm(s, arms, k),
         Len(s.blocks) \in Nat, Len(t.blocks) \in Nat, Len(s.blocks) <= Len(t.blocks),
         t.blocks[arms[k].branch].els = s.blocks[arms[k].branch].els,
         t.blocks[ArmOf(s, arms[k])].outer = s.blocks[ArmOf(s, arms[k])].outer,
         t.blocks[ArmOf(s, arms[k])].cond = s.blocks[ArmOf(s, arms[k])].cond,
         t.blocks[AroundArm(s, arms, k)].inner = s.blocks[AroundArm(s, arms, k)].inner
  PROVE  OnArm(t, brms, k) /\ ArmOf(t, brms[k]) = ArmOf(s, arms[k])
<1>1. ArmOf(t, brms[k]) = ArmOf(s, arms[k])
  BY DEF ArmOf
<1> QED
  BY <1>1 DEF OnArm, IsConditional

(* All arms stay open when events are recorded.                            *)
LEMMA WrittenArms ==
  ASSUME NEW E, NEW s \in SliceOf(E), NEW t \in SliceOf(E), SliceInv(s), NEW es,
         t.cur = s.cur, Written(s.blocks, t.blocks, s.cur, es),
         NEW arms \in ArmSeq, OnArms(s, arms)
  PROVE  /\ OnArms(t, arms)
         /\ \A k \in 1 .. Len(arms) : ArmOf(t, arms[k]) = ArmOf(s, arms[k])
<1> DEFINE n == Len(s.blocks)
<1>1. /\ n \in Nat /\ s.cur \in 1 .. n /\ Len(t.blocks) = n
      /\ \A x \in 1 .. n : /\ t.blocks[x].outer = s.blocks[x].outer
                           /\ t.blocks[x].cond = s.blocks[x].cond
                           /\ t.blocks[x].els = s.blocks[x].els
                           /\ t.blocks[x].inner = s.blocks[x].inner
  BY ArmBlockFacts DEF Written, Kept
<1>2. ASSUME NEW k \in 1 .. Len(arms)
      PROVE  /\ arms[k].branch \in 1 .. n /\ ArmOf(s, arms[k]) \in 1 .. n
             /\ AroundArm(s, arms, k) \in 1 .. n
  <2>1. OnArm(s, arms, k)
    BY DEF OnArms
  <2>2. AroundArm(s, arms, k) \in 1 .. n
    BY <1>1, ArmsAscend
  <2> QED
    BY <1>1, <2>1, <2>2 DEF OnArm
<1>3. ASSUME NEW k \in 1 .. Len(arms) PROVE ArmOf(t, arms[k]) = ArmOf(s, arms[k])
  BY <1>1, <1>2 DEF ArmOf
<1>4. ASSUME NEW k \in 1 .. Len(arms) PROVE OnArm(t, arms, k)
  <2>1. AroundArm(t, arms, k) = AroundArm(s, arms, k)
    <3>1. k # 1 => k - 1 \in 1 .. Len(arms)
      OBVIOUS
    <3> QED
      BY <1>3, <3>1 DEF AroundArm
  <2>2. OnArm(s, arms, k)
    BY DEF OnArms
  <2>3. /\ t.blocks[arms[k].branch].els = s.blocks[arms[k].branch].els
        /\ t.blocks[ArmOf(s, arms[k])].outer = s.blocks[ArmOf(s, arms[k])].outer
        /\ t.blocks[ArmOf(s, arms[k])].cond = s.blocks[ArmOf(s, arms[k])].cond
        /\ t.blocks[AroundArm(s, arms, k)].inner = s.blocks[AroundArm(s, arms, k)].inner
    BY <1>1, <1>2
  <2>4. Len(t.blocks) \in Nat /\ n <= Len(t.blocks)
    BY <1>1
  <2> QED
    BY <1>1, <2>1, <2>2, <2>3, <2>4, ArmStays
<1>5. ArmBlock(t) = ArmBlock(s)
  BY <1>1 DEF ArmBlock, Current, IsConditional
<1> QED
  BY <1>3, <1>4, <1>5 DEF OnArms

(* begin_then opens one arm more, in the block that it makes current.      *)
LEMMA ThenArms ==
  ASSUME NEW E, NEW s \in SliceOf(E), NEW t \in SliceOf(E), SliceInv(s),
         NEW lit \in Literal, NEW reads, ThenOpened(s, t, lit, reads),
         NEW arms \in ArmSeq, OnArms(s, arms), NEW brms \in ArmSeq, NEW m \in Nat, Len(arms) = m,
         Len(brms) = m + 1, brms[m + 1] = [branch |-> t.cur, side |-> "then"],
         \A k \in 1 .. m : brms[k] = arms[k]
  PROVE  /\ OnArms(t, brms)
         /\ \A k \in 1 .. m : /\ ArmOf(t, brms[k]) = ArmOf(s, arms[k])
                              /\ ArmOf(s, arms[k]) \in 1 .. Len(s.blocks) \ {t.cur}
         /\ ArmOf(t, brms[m + 1]) = t.cur
         /\ ArmBlock(t) = t.cur
<1> DEFINE n == Len(s.blocks)
           arm == ArmBlock(s)
           new == t.cur
<1>1. /\ n \in Nat /\ s.cur \in 2 .. n /\ arm \in 1 .. n
      /\ t.blocks \in Seq(BlockOf(E)) /\ Len(t.blocks) \in Nat /\ n <= Len(t.blocks)
      /\ new \in 2 .. Len(t.blocks)
  <2>1. n \in Nat /\ s.cur \in 2 .. n /\ arm \in 1 .. n
    BY ArmBlockFacts
  <2>2. SliceInv(t)
    BY DEF ThenOpened
  <2>3. t.blocks \in Seq(BlockOf(E)) /\ Len(t.blocks) \in Nat /\ new \in 2 .. Len(t.blocks)
    BY <2>2, ArmBlockFacts
  <2>4. Len(t.blocks) = n \/ Len(t.blocks) = n + 1
    BY DEF ThenOpened
  <2> QED
    BY <2>1, <2>3, <2>4
<1>2. /\ t.blocks[new].els = Null /\ t.blocks[new].cond = lit /\ t.blocks[new].outer = arm
      /\ IsConditional(t.blocks[new]) /\ arm < new
      /\ new > n \/ (new = s.cur /\ ~IsConditional(s.blocks[s.cur]))
  <2>1. SliceInv(t) /\ t.blocks[new].els = Null /\ t.blocks[new].cond = lit /\ t.blocks[new].outer = arm
    BY DEF ThenOpened, SliceInv, Current
  <2>2. Lies(t.blocks, new)
    BY <1>1, <2>1 DEF SliceInv, GraphInv
  <2>3. IsConditional(t.blocks[new])
    BY <2>1, NoCondAssumption DEF IsConditional
  <2>4. new > n \/ (new = s.cur /\ ~IsConditional(s.blocks[s.cur]))
    <3>1. new = n + 1 \/ (new = s.cur /\ ~IsConditional(Current(s)))
      BY DEF ThenOpened
    <3> QED
      BY <1>1, <3>1 DEF Current
  <2> QED
    BY <1>1, <2>1, <2>2, <2>3, <2>4 DEF Lies
<1>3. \A b \in 1 .. n : /\ t.blocks[b].outer = s.blocks[b].outer
                        /\ t.blocks[b].els = s.blocks[b].els
                        /\ b # new => t.blocks[b].cond = s.blocks[b].cond
                        /\ b # arm => t.blocks[b].inner = s.blocks[b].inner
  BY DEF ThenOpened
<1>4. ASSUME NEW k \in 1 .. m
      PROVE  /\ OnArm(s, arms, k) /\ arms[k].branch \in 1 .. n
             /\ ArmOf(s, arms[k]) \in 1 .. n /\ ArmOf(s, arms[k]) # new
             /\ AroundArm(s, arms, k) \in 1 .. n /\ AroundArm(s, arms, k) # arm
             /\ ArmOf(s, arms[k]) <= arm
  <2>1. OnArm(s, arms, k)
    BY DEF OnArms
  <2>2. m \in 1 .. m /\ arm = ArmOf(s, arms[m]) /\ m = Len(arms)
    BY DEF OnArms
  <2>3. /\ AroundArm(s, arms, m) < arm
        /\ k # m => /\ ArmOf(s, arms[k]) < arm
                    /\ AroundArm(s, arms, k) < AroundArm(s, arms, m)
        /\ AroundArm(s, arms, m) \in 1 .. n
    BY <1>1, <2>2, ArmsAscend
  <2>4. AroundArm(s, arms, k) \in 1 .. n
    BY <1>1, ArmsAscend
  <2>5. arms[k].branch \in 1 .. n /\ ArmOf(s, arms[k]) \in 1 .. n /\ ArmOf(s, arms[k]) # new
    BY <1>1, <1>2, <2>1 DEF OnArm
  <2> QED
    BY <1>1, <2>1, <2>2, <2>3, <2>4, <2>5
<1>5. ASSUME NEW k \in 1 .. m PROVE ArmOf(t, brms[k]) = ArmOf(s, arms[k])
  BY <1>3, <1>4 DEF ArmOf
<1>6. ASSUME NEW k \in 1 .. m PROVE OnArm(t, brms, k)
  <2>1. AroundArm(t, brms, k) = AroundArm(s, arms, k)
    <3>1. k # 1 => k - 1 \in 1 .. m
      OBVIOUS
    <3> QED
      BY <1>5, <3>1 DEF AroundArm
  <2> QED
    BY <1>1, <1>3, <1>4, <2>1, ArmStays
<1>7. ArmOf(t, brms[m + 1]) = new /\ brms[m + 1].branch = new
  BY DEF ArmOf
<1>8. AroundArm(t, brms, m + 1) = arm
  <2>1. CASE m = 0
    BY <2>1 DEF AroundArm, OnArms
  <2>2. CASE m # 0
    <3>1. m \in 1 .. m /\ m + 1 # 1 /\ (m + 1) - 1 = m
      BY <2>2
    <3> QED
      BY <1>5, <3>1 DEF AroundArm, OnArms
  <2> QED
    BY <2>1, <2>2
<1>9. t.blocks[arm].inner # <<>> /\ Last(t.blocks[arm].inner) = new
  <2>1. CASE new = n + 1 /\ t.blocks[arm].inner = Append(s.blocks[arm].inner, n + 1)
    <3>1. s.blocks[arm].inner \in Seq(Nat) /\ n + 1 \in Nat
      BY <1>1, ArmBlockFacts, FieldTypes
    <3> DEFINE q == s.blocks[arm].inner
    <3>2. Append(q, n + 1) \in Seq(Nat) /\ Len(Append(q, n + 1)) = Len(q) + 1 /\ Append(q, n + 1)[Len(q) + 1] = n + 1
      BY <3>1, AppendFacts
    <3>3. Append(q, n + 1) # <<>>
      BY <3>1, <3>2, EmptyFacts
    <3> QED
      BY <2>1, <3>2, <3>3 DEF Last
  <2>2. CASE new = s.cur /\ ~IsConditional(Current(s)) /\ t.blocks[arm].inner = s.blocks[arm].inner
    BY <2>2 DEF SliceInv, ArmBlock
  <2> QED
    BY <2>1, <2>2 DEF ThenOpened
<1>10. OnArm(t, brms, m + 1)
  BY <1>1, <1>2, <1>7, <1>8, <1>9 DEF OnArm
<1>11. ArmBlock(t) = new
  BY <1>2 DEF ArmBlock, Current
<1>12. ASSUME NEW k \in 1 .. m + 1, NEW j \in 1 .. k - 1
       PROVE  ArmOf(t, brms[j]) < brms[k].branch
  <2>1. j \in 1 .. m /\ ArmOf(t, brms[j]) = ArmOf(s, arms[j])
    BY <1>5
  <2>2. CASE k = m + 1
    BY <1>1, <1>2, <1>4, <1>7, <2>1, <2>2
  <2>3. CASE k # m + 1
    BY <2>1, <2>3 DEF OnArms
  <2> QED
    BY <2>2, <2>3
<1>13. \A k \in 1 .. m + 1 : k \in 1 .. m \/ k = m + 1
  OBVIOUS
<1>14. OnArms(t, brms)
  BY <1>6, <1>7, <1>10, <1>11, <1>12, <1>13 DEF OnArms
<1> QED
  BY <1>4, <1>5, <1>7, <1>11, <1>14

(* begin_else goes from the "then" arm of the innermost branch to "else".  *)
LEMMA ElseArms ==
  ASSUME NEW E, NEW s \in SliceOf(E), NEW t \in SliceOf(E), SliceInv(s), ElseOpened(s, t),
         NEW arms \in ArmSeq, OnArms(s, arms), NEW brms \in ArmSeq, NEW m \in Nat \ {0},
         Len(arms) = m, arms[m].side = "then",
         Len(brms) = m, brms[m] = [branch |-> arms[m].branch, side |-> "else"],
         \A k \in 1 .. m - 1 : brms[k] = arms[k]
  PROVE  /\ OnArms(t, brms)
         /\ \A k \in 1 .. m - 1 : /\ ArmOf(t, brms[k]) = ArmOf(s, arms[k])
                                  /\ ArmOf(s, arms[k]) \in 1 .. Len(s.blocks)
         /\ ArmOf(t, brms[m]) = t.cur
         /\ ArmBlock(t) = t.cur
<1> DEFINE n == Len(s.blocks)
           arm == ArmBlock(s)
           new == t.cur
<1>1. /\ n \in Nat /\ s.cur \in 2 .. n /\ arm \in 1 .. n /\ m \in 1 .. m
      /\ t.blocks \in Seq(BlockOf(E)) /\ Len(t.blocks) = n + 1 /\ new = n + 1
      /\ s.blocks \in Seq(BlockOf(E)) /\ SliceInv(t)
  <2>1. s.blocks \in Seq(BlockOf(E)) /\ n \in Nat /\ s.cur \in 2 .. n /\ arm \in 1 .. n
    BY ArmBlockFacts
  <2>2. SliceInv(t) /\ Len(t.blocks) = n + 1 /\ new = n + 1
    BY DEF ElseOpened
  <2>3. t.blocks \in Seq(BlockOf(E))
    BY <2>2, ArmBlockFacts
  <2> QED
    BY <2>1, <2>2, <2>3
<1>2. /\ arm = ArmOf(s, arms[m]) /\ arm = arms[m].branch /\ OnArm(s, arms, m)
      /\ AroundArm(s, arms, m) < arm /\ AroundArm(s, arms, m) \in 1 .. n
      /\ arm \in 2 .. n /\ IsConditional(s.blocks[arm])
      /\ s.blocks[arm].outer = AroundArm(s, arms, m)
  <2>1. arm = ArmOf(s, arms[m]) /\ arm = arms[m].branch /\ OnArm(s, arms, m)
    BY <1>1 DEF OnArms, ArmOf
  <2>2. AroundArm(s, arms, m) < ArmOf(s, arms[m]) /\ AroundArm(s, arms, m) \in 1 .. n
    BY <1>1, ArmsAscend
  <2> QED
    BY <2>1, <2>2 DEF OnArm
<1>3. /\ \A b \in 1 .. n : /\ t.blocks[b].outer = s.blocks[b].outer
                           /\ t.blocks[b].cond = s.blocks[b].cond
                           /\ b # arm => t.blocks[b].els = s.blocks[b].els
                           /\ b # arm => t.blocks[b].inner = s.blocks[b].inner
      /\ t.blocks[arm].els = new
      /\ t.blocks[new].outer = s.blocks[arm].outer
      /\ t.blocks[new].cond = Negate(s.blocks[arm].cond)
  BY <1>1 DEF ElseOpened, Current
<1>4. IsConditional(t.blocks[new])
  <2>1. s.blocks[arm].cond \in Literal
    BY <1>1, <1>2, FieldTypes DEF IsConditional
  <2>2. Negate(s.blocks[arm].cond) \in Literal
    BY <2>1 DEF Negate, Literal
  <2> QED
    BY <1>3, <2>2, NoCondAssumption DEF IsConditional
<1>5. ASSUME NEW k \in 1 .. m - 1
      PROVE  /\ OnArm(s, arms, k) /\ arms[k].branch \in 1 .. n /\ arms[k].branch # arm
             /\ ArmOf(s, arms[k]) \in 1 .. n /\ ArmOf(s, arms[k]) < arm
             /\ AroundArm(s, arms, k) \in 1 .. n /\ AroundArm(s, arms, k) < arm
  <2>1. k \in 1 .. Len(arms)
    OBVIOUS
  <2>2. OnArm(s, arms, k) /\ AroundArm(s, arms, k) \in 1 .. n
    BY <1>1, <2>1, ArmsAscend DEF OnArms
  <2>3. /\ ArmOf(s, arms[k]) < ArmOf(s, arms[m])
        /\ AroundArm(s, arms, k) < AroundArm(s, arms, m)
        /\ arms[k].branch # arms[m].branch
    BY <1>1, ArmsAscend
  <2>4. arms[k].branch \in 1 .. n /\ ArmOf(s, arms[k]) \in 1 .. n
    BY <1>1, <2>2 DEF OnArm
  <2> QED
    BY <1>1, <1>2, <2>2, <2>3, <2>4
<1> HIDE DEF n, arm, new
<1>6. ASSUME NEW k \in 1 .. m - 1 PROVE ArmOf(t, brms[k]) = ArmOf(s, arms[k])
  BY <1>3, <1>5 DEF ArmOf
<1>7. ArmOf(t, brms[m]) = new /\ brms[m].branch = arm /\ brms[m].side = "else"
  BY <1>2, <1>3 DEF ArmOf
<1>8. ASSUME NEW k \in 1 .. m PROVE AroundArm(t, brms, k) = AroundArm(s, arms, k)
  <2>1. k # 1 => k - 1 \in 1 .. m - 1
    OBVIOUS
  <2> QED
    BY <1>6, <2>1 DEF AroundArm
<1>9. ASSUME NEW k \in 1 .. m - 1 PROVE OnArm(t, brms, k)
  <2>1. /\ k \in 1 .. m /\ AroundArm(s, arms, k) # arm
        /\ AroundArm(t, brms, k) = AroundArm(s, arms, k)
    <3>1. k \in 1 .. m
      OBVIOUS
    <3>2. \A x \in 1 .. n : x < arm => x # arm
      BY <1>1
    <3> QED
      BY <1>5, <1>8, <3>1, <3>2
  <2>2. n <= Len(t.blocks) /\ Len(t.blocks) \in Nat
    BY <1>1
  <2>3. /\ t.blocks[arms[k].branch].els = s.blocks[arms[k].branch].els
        /\ t.blocks[ArmOf(s, arms[k])].outer = s.blocks[ArmOf(s, arms[k])].outer
        /\ t.blocks[ArmOf(s, arms[k])].cond = s.blocks[ArmOf(s, arms[k])].cond
        /\ t.blocks[AroundArm(s, arms, k)].inner = s.blocks[AroundArm(s, arms, k)].inner
    BY <1>3, <1>5, <2>1
  <2> QED
    BY <1>1, <1>5, <2>1, <2>2, <2>3, ArmStays DEF n
<1>10. OnArm(t, brms, m)
  <2>1. AroundArm(t, brms, m) = AroundArm(s, arms, m) /\ AroundArm(s, arms, m) # arm
    BY <1>1, <1>2, <1>8
  <2>2. /\ s.blocks[AroundArm(s, arms, m)].inner # <<>>
        /\ Last(s.blocks[AroundArm(s, arms, m)].inner) = arm
    BY <1>2 DEF OnArm
  <2>3. arm \in 2 .. Len(t.blocks) /\ new \in 2 .. Len(t.blocks)
    BY <1>1, <1>2
  <2> QED
    BY <1>2, <1>3, <1>4, <1>7, <2>1, <2>2, <2>3 DEF OnArm
<1>11. ArmBlock(t) = new
  BY <1>4 DEF ArmBlock, Current, new
<1>12. ASSUME NEW k \in 1 .. m, NEW j \in 1 .. k - 1
       PROVE  ArmOf(t, brms[j]) < brms[k].branch
  <2>1. j \in 1 .. m - 1 /\ ArmOf(t, brms[j]) = ArmOf(s, arms[j])
    BY <1>6
  <2>2. brms[k].branch = arms[k].branch
    BY <1>2, <1>7
  <2> QED
    BY <2>1, <2>2 DEF OnArms
<1>13. \A k \in 1 .. m : k \in 1 .. m - 1 \/ k = m
  OBVIOUS
<1>14. OnArms(t, brms)
  BY <1>7, <1>9, <1>10, <1>11, <1>12, <1>13 DEF OnArms
<1> QED
  BY <1>5, <1>6, <1>7, <1>11, <1>14 DEF n, new

(* end_branch closes the innermost branch. *)
LEMMA EndArms ==
  ASSUME NEW E, NEW s \in SliceOf(E), NEW t \in SliceOf(E), SliceInv(s), BranchEnded(s, t),
         NEW arms \in ArmSeq, OnArms(s, arms), NEW brms \in ArmSeq, NEW m \in Nat \ {0},
         Len(arms) = m, Len(brms) = m - 1, \A k \in 1 .. m - 1 : brms[k] = arms[k]
  PROVE  /\ OnArms(t, brms)
         /\ \A k \in 1 .. m - 1 : /\ ArmOf(t, brms[k]) = ArmOf(s, arms[k])
                                  /\ ArmOf(s, arms[k]) \in 1 .. Len(s.blocks)
<1> DEFINE n == Len(s.blocks)
           arm == ArmBlock(s)
           around == s.blocks[arm].outer
<1>1. /\ n \in Nat /\ arm \in 1 .. n /\ m \in 1 .. m /\ Len(t.blocks) = n + 1
      /\ t.cur = n + 1
  <2>1. n \in Nat /\ arm \in 1 .. n
    BY ArmBlockFacts
  <2>2. Len(t.blocks) = n + 1 /\ t.cur = n + 1
    BY DEF BranchEnded
  <2> QED
    BY <2>1, <2>2
<1>2. /\ arm = ArmOf(s, arms[m]) /\ OnArm(s, arms, m) /\ around = AroundArm(s, arms, m)
      /\ AroundArm(s, arms, m) < arm /\ AroundArm(s, arms, m) \in 1 .. n
  <2>1. arm = ArmOf(s, arms[m]) /\ OnArm(s, arms, m)
    BY <1>1 DEF OnArms
  <2>2. AroundArm(s, arms, m) < ArmOf(s, arms[m]) /\ AroundArm(s, arms, m) \in 1 .. n
    BY <1>1, ArmsAscend
  <2> QED
    BY <2>1, <2>2 DEF OnArm
<1>3. /\ \A b \in 1 .. n : /\ t.blocks[b].outer = s.blocks[b].outer
                           /\ t.blocks[b].cond = s.blocks[b].cond
                           /\ t.blocks[b].els = s.blocks[b].els
                           /\ b # arm /\ b # around => t.blocks[b].inner = s.blocks[b].inner
      /\ Current(t).outer = around /\ Current(t).cond = NoCond
  BY DEF BranchEnded
<1>4. ASSUME NEW k \in 1 .. m - 1
      PROVE  /\ OnArm(s, arms, k) /\ arms[k].branch \in 1 .. n
             /\ ArmOf(s, arms[k]) \in 1 .. n
             /\ AroundArm(s, arms, k) \in 1 .. n /\ AroundArm(s, arms, k) < around
  <2>1. k \in 1 .. Len(arms)
    OBVIOUS
  <2>2. OnArm(s, arms, k) /\ AroundArm(s, arms, k) \in 1 .. n
    BY <1>1, <2>1, ArmsAscend DEF OnArms
  <2>3. AroundArm(s, arms, k) < AroundArm(s, arms, m)
    BY <1>1, ArmsAscend
  <2>4. arms[k].branch \in 1 .. n /\ ArmOf(s, arms[k]) \in 1 .. n
    BY <1>1, <2>2 DEF OnArm
  <2> QED
    BY <1>1, <1>2, <2>2, <2>3, <2>4
<1> HIDE DEF n, arm, around
<1>5. ASSUME NEW k \in 1 .. m - 1 PROVE ArmOf(t, brms[k]) = ArmOf(s, arms[k])
  BY <1>3, <1>4 DEF ArmOf
<1>6. ASSUME NEW k \in 1 .. m - 1 PROVE OnArm(t, brms, k)
  <2>1. AroundArm(t, brms, k) = AroundArm(s, arms, k)
    <3>1. k # 1 => k - 1 \in 1 .. m - 1
      OBVIOUS
    <3> QED
      BY <1>5, <3>1 DEF AroundArm
  <2>2. AroundArm(s, arms, k) # around /\ AroundArm(s, arms, k) # arm
    BY <1>1, <1>2, <1>4
  <2>3. n <= Len(t.blocks) /\ Len(t.blocks) \in Nat
    BY <1>1
  <2>4. /\ t.blocks[arms[k].branch].els = s.blocks[arms[k].branch].els
        /\ t.blocks[ArmOf(s, arms[k])].outer = s.blocks[ArmOf(s, arms[k])].outer
        /\ t.blocks[ArmOf(s, arms[k])].cond = s.blocks[ArmOf(s, arms[k])].cond
        /\ t.blocks[AroundArm(s, arms, k)].inner = s.blocks[AroundArm(s, arms, k)].inner
    BY <1>3, <1>4, <2>2
  <2> QED
    BY <1>1, <1>4, <2>1, <2>3, <2>4, ArmStays DEF n
<1>7. ArmBlock(t) = around
  BY <1>3 DEF ArmBlock, IsConditional
<1>8. m - 1 = 0 => around = Root
  <2>1. m - 1 = 0 => m = 1
    OBVIOUS
  <2> QED
    BY <1>2, <2>1 DEF AroundArm
<1>9. ASSUME NEW k \in 1 .. m - 1, k = m - 1 PROVE ArmBlock(t) = ArmOf(t, brms[k])
  <2>1. m # 1 /\ m - 1 = k
    BY <1>9
  <2> QED
    BY <1>2, <1>5, <1>7, <2>1 DEF AroundArm
<1>10. ASSUME NEW k \in 1 .. m - 1, NEW j \in 1 .. k - 1
       PROVE  ArmOf(t, brms[j]) < brms[k].branch
  <2>1. j \in 1 .. m - 1 /\ k \in 1 .. m /\ ArmOf(t, brms[j]) = ArmOf(s, arms[j])
    BY <1>5
  <2> QED
    BY <2>1 DEF OnArms
<1>11. OnArms(t, brms)
  BY <1>6, <1>7, <1>8, <1>9, <1>10 DEF OnArms
<1> QED
  BY <1>4, <1>5, <1>11 DEF n

-----------------------------------------------------------------------------
(* A new slice: no event, no branch open. *)
LEMMA EmptySliceFacts ==
  ASSUME NEW E
  PROVE  /\ EmptySlice \in SliceOf(E)
         /\ SliceInv(EmptySlice)
         /\ Len(EmptySlice.blocks) = 2
         /\ \A b \in 1 .. 2 : EmptySlice.blocks[b].body = <<>>
         /\ OnArms(EmptySlice, <<>>)
<1> DEFINE b1 == [Block(Null, NoCond) EXCEPT !.inner = <<2>>]
           b2 == Block(Root, NoCond)
           s == EmptySlice
<1>1. /\ b1 \in BlockOf(E) /\ b1.outer = Null /\ b1.body = <<>> /\ b1.inner = <<2>> /\ b1.els = Null
      /\ b2 \in BlockOf(E) /\ b2.outer = Root /\ b2.cond = NoCond /\ b2.inner = <<>> /\ b2.els = Null
      /\ b2.body = <<>>
  <2>1. <<2>> \in Seq(Nat)
    OBVIOUS
  <2>2. /\ Block(Null, NoCond) \in BlockOf(E) /\ Block(Null, NoCond).outer = Null
        /\ Block(Null, NoCond).body = <<>> /\ Block(Null, NoCond).els = Null
    BY BlockFacts DEF Null
  <2>3. b1 \in BlockOf(E) /\ b1.outer = Null /\ b1.body = <<>> /\ b1.inner = <<2>> /\ b1.els = Null
    BY <2>1, <2>2 DEF BlockOf
  <2>4. /\ b2 \in BlockOf(E) /\ b2.outer = Root /\ b2.cond = NoCond /\ b2.inner = <<>>
        /\ b2.els = Null /\ b2.body = <<>>
    BY BlockFacts DEF Root
  <2> QED
    BY <2>3, <2>4
<1>2. s = [blocks |-> <<b1, b2>>, cur |-> 2]
  BY DEF EmptySlice
<1> HIDE DEF b1, b2, s
<1>3. /\ s.blocks = <<b1, b2>> /\ s.cur = 2
      /\ s.blocks[1] = b1 /\ s.blocks[2] = b2 /\ Len(s.blocks) = 2
  <2>1. s.blocks = <<b1, b2>> /\ s.cur = 2
    BY <1>2
  <2>2. <<b1, b2>>[1] = b1 /\ <<b1, b2>>[2] = b2 /\ Len(<<b1, b2>>) = 2
    OBVIOUS
  <2> QED
    BY <2>1, <2>2
<1>4. s \in SliceOf(E)
  BY <1>1, <1>2 DEF SliceOf
<1>5. b1.inner # <<>> /\ Len(b1.inner) = 1 /\ b1.inner[1] = 2 /\ Last(b1.inner) = 2
  BY <1>1 DEF Last
<1>6. GraphInv(s.blocks, s.cur)
  <2>1. Lies(s.blocks, 2)
    BY <1>1, <1>3 DEF Lies, Root
  <2>2. ElseBeside(s.blocks, 1) /\ ElseBeside(s.blocks, 2)
    BY <1>1, <1>3 DEF ElseBeside
  <2>3. InnerOf(s.blocks, s.cur, 1, s.blocks[1].inner)
    <3>1. Len(s.blocks[1].inner) = 1 /\ s.blocks[1].inner[1] = 2
      BY <1>3, <1>5
    <3> QED
      BY <1>1, <1>3, <3>1 DEF InnerOf, Inside, Root
  <2>4. InnerOf(s.blocks, s.cur, 2, s.blocks[2].inner)
    BY <1>1, <1>3 DEF InnerOf
  <2>5. OuterMost(s.blocks)
    <3>1. Len(s.blocks) >= 2
      BY <1>3
    <3> QED
      BY <1>1, <1>3, <1>5, <3>1, Zenon DEF OuterMost, Root
  <2>6. \A b \in 1 .. Len(s.blocks) : b = 1 \/ b = 2
    BY <1>3
  <2>7. \A b \in 2 .. Len(s.blocks) : b = 2
    BY <1>3
  <2> QED
    BY <2>1, <2>2, <2>3, <2>4, <2>5, <2>6, <2>7 DEF GraphInv
<1>7. SliceInv(s)
  <2>1. s.cur \in 2 .. Len(s.blocks)
    BY <1>3
  <2> QED
    BY <1>1, <1>3, <1>5, <1>6, <2>1, Zenon DEF SliceInv, Current, Root
<1>8. OnArms(s, <<>>)
  BY <1>1, <1>3 DEF OnArms, ArmBlock, Current, IsConditional
<1> QED
  BY <1>1, <1>3, <1>4, <1>7, <1>8 DEF s

(* No assertion of begin_then fails, nor one about the most outer block.   *)
LEMMA OpenAsserts ==
  ASSUME NEW s, SliceInv(s)
  PROVE  MostOuterAsserts(s) /\ BeginThenAsserts(s)
BY DEF SliceInv, GraphInv, OuterMost, MostOuterAsserts, BeginThenAsserts

(* In a branch, no assertion of begin_else and end_branch fails.           *)
LEMMA CloseAsserts ==
  ASSUME NEW E, NEW s \in SliceOf(E), SliceInv(s), ArmBlock(s) \in 2 .. Len(s.blocks)
  PROVE  BeginElseAsserts(s) /\ EndBranchAsserts(s)
<1>1. Current(s).inner = <<>>
  BY DEF SliceInv
<1>2. Lies(s.blocks, ArmBlock(s))
  BY DEF SliceInv, GraphInv
<1>3. s.blocks[ArmBlock(s)].outer # Null
  BY <1>2 DEF Lies, Null
<1>4. EndBranchAsserts(s)
  BY <1>1, <1>3 DEF EndBranchAsserts, ArmBlock
<1>5. Current(LeaveArm(s)).outer = s.blocks[ArmBlock(s)].outer
  <2>1. ArmBlock(s) \in 1 .. Len(s.blocks)
    OBVIOUS
  <2>2. Trimmed(s)[ArmBlock(s)].outer = s.blocks[ArmBlock(s)].outer
    BY <2>1, TrimmedFacts
  <2> QED
    BY <2>2, LeaveArmFacts DEF Current
<1> QED
  BY <1>1, <1>3, <1>4, <1>5 DEF BeginElseAsserts

-----------------------------------------------------------------------------
(* The blocks around each block, as the recursive function that is defined:*)
(* it exists, as it does for the first n blocks, for each n.               *)
Around(bs, around, b) == IF b = Root THEN {} ELSE {b} \union around[bs[b].outer]

LEMMA AroundExists ==
  ASSUME NEW bs, Len(bs) \in Nat, DOMAIN bs = 1 .. Len(bs), \A b \in 2 .. Len(bs) : Lies(bs, b)
  PROVE  \E around : around = [b \in DOMAIN bs |-> Around(bs, around, b)]
<1> DEFINE Good(f, n) == f = [b \in 1 .. n |-> Around(bs, f, b)]
           good == { n \in Nat : n <= Len(bs) => \E f : Good(f, n) }
<1>1. 0 \in good
  <2>1. Good(<<>>, 0)
    OBVIOUS
  <2> QED
    BY <2>1
<1>2. ASSUME NEW n \in Nat, n \in good
      PROVE  n + 1 \in good
  <2>1. n + 1 \in Nat
    OBVIOUS
  <2> SUFFICES ASSUME n + 1 <= Len(bs) PROVE \E f : Good(f, n + 1)
    BY <2>1
  <2>2. PICK old : Good(old, n)
    BY <1>2
  <2> DEFINE new == [b \in 1 .. n + 1 |-> Around(bs, old, b)]
  <2>3. ASSUME NEW b \in 1 .. n + 1 PROVE Around(bs, old, b) = Around(bs, new, b)
    <3>1. CASE b = Root
      BY <3>1 DEF Around
    <3>2. CASE b # Root
      <4>1. Lies(bs, b)
        BY <3>2 DEF Root
      <4>2. bs[b].outer \in 1 .. n
        BY <4>1 DEF Lies
      <4>3. old[bs[b].outer] = Around(bs, old, bs[b].outer)
        <5> DEFINE o == bs[b].outer
        <5> HIDE DEF o
        <5>1. o \in 1 .. n => old[o] = Around(bs, old, o)
          BY <2>2
        <5> QED
          BY <4>2, <5>1 DEF o
      <4>4. new[bs[b].outer] = Around(bs, old, bs[b].outer)
        BY <4>2
      <4> QED
        BY <4>3, <4>4 DEF Around
    <3> QED
      BY <3>1, <3>2
  <2>4. new = [b \in 1 .. n + 1 |-> Around(bs, new, b)]
    <3>1. \A b \in 1 .. n + 1 : Around(bs, old, b) = Around(bs, new, b)
      BY <2>3
    <3>2. new = [b \in 1 .. n + 1 |-> Around(bs, old, b)]
      OBVIOUS
    <3> HIDE DEF new
    <3> QED
      BY <3>1, <3>2
  <2> QED
    BY <2>4, Zenon
<1>3. \A n \in Nat : n \in good
  <2> HIDE DEF good
  <2> QED BY <1>1, <1>2, SetInduction
<1> QED
  BY <1>3

(* The blocks around a block are itself and those around its outer block.  *)
LEMMA AroundFacts ==
  ASSUME NEW E, NEW s \in SliceOf(E), SliceInv(s)
  PROVE  /\ BlocksAround(s)[Root] = {}
         /\ \A b \in 2 .. Len(s.blocks) :
              BlocksAround(s)[b] = {b} \union BlocksAround(s)[s.blocks[b].outer]
<1> DEFINE bs == s.blocks
           ch == CHOOSE around : around = [b \in DOMAIN bs |-> Around(bs, around, b)]
<1>1. /\ Len(bs) \in Nat /\ DOMAIN bs = 1 .. Len(bs) /\ Len(bs) >= 2
      /\ \A b \in 2 .. Len(bs) : Lies(bs, b)
  <2>1. bs \in Seq(BlockOf(E)) /\ Len(bs) \in Nat
    BY ArmBlockFacts
  <2> QED
    BY <2>1 DEF SliceInv, GraphInv, OuterMost
<1>2. BlocksAround(s) = ch
  BY DEF BlocksAround, Around
<1>3. ch = [b \in DOMAIN bs |-> Around(bs, ch, b)]
  <2> HIDE DEF bs
  <2> QED
    BY <1>1, AroundExists, Zenon
<1> HIDE DEF ch
<1>4. \A b \in 1 .. Len(bs) : ch[b] = Around(bs, ch, b)
  BY <1>1, <1>3
<1>5. Root \in 1 .. Len(bs) /\ \A b \in 2 .. Len(bs) : b \in 1 .. Len(bs) /\ b # Root
  BY <1>1 DEF Root
<1> QED
  BY <1>2, <1>4, <1>5 DEF Around

(* What holds of the most outer block, and of each block if it holds of    *)
(* its outer block, holds of every block.                                  *)
LEMMA OuterInduction ==
  ASSUME NEW bs, NEW n \in Nat, \A b \in 2 .. n : bs[b].outer \in 1 .. b - 1,
         NEW S, Root \in S, \A b \in 2 .. n : bs[b].outer \in S => b \in S
  PROVE  \A b \in 1 .. n : b \in S
<1> DEFINE good == { m \in Nat : \A b \in 1 .. m : b <= n => b \in S }
<1>1. 0 \in good
  OBVIOUS
<1>2. ASSUME NEW m \in Nat, m \in good PROVE m + 1 \in good
  <2>1. m + 1 \in Nat
    OBVIOUS
  <2> SUFFICES ASSUME NEW b \in 1 .. m + 1, b <= n PROVE b \in S
    BY <2>1
  <2>2. CASE b = Root
    BY <2>2
  <2>3. CASE b # Root
    <3>1. b \in 2 .. n
      BY <2>3 DEF Root
    <3>2. bs[b].outer \in 1 .. b - 1
      BY <3>1
    <3>3. bs[b].outer \in 1 .. m /\ bs[b].outer <= n
      BY <3>1, <3>2
    <3> QED
      BY <1>2, <3>1, <3>3
  <2> QED
    BY <2>2, <2>3
<1>3. \A m \in Nat : m \in good
  <2> HIDE DEF good
  <2> QED BY <1>1, <1>2, SetInduction
<1> QED
  BY <1>3

(* The blocks around a block are no later than it, none is the most outer, *)
(* and all but the block itself are conditional.                           *)
LEMMA AroundBounds ==
  ASSUME NEW E, NEW s \in SliceOf(E), SliceInv(s), NEW b \in 1 .. Len(s.blocks)
  PROVE  /\ BlocksAround(s)[b] \subseteq 2 .. b
         /\ \A c \in BlocksAround(s)[b] \ {b} : IsConditional(s.blocks[c])
<1> DEFINE bs == s.blocks
           n == Len(bs)
           S == { a \in 1 .. n : /\ BlocksAround(s)[a] \subseteq 2 .. a
                                 /\ \A c \in BlocksAround(s)[a] \ {a} : IsConditional(bs[c]) }
<1>1. n \in Nat /\ n >= 2 /\ \A a \in 2 .. n : Lies(bs, a)
  BY ArmBlockFacts DEF SliceInv, GraphInv, OuterMost
<1>2. /\ BlocksAround(s)[Root] = {}
      /\ \A a \in 2 .. n : BlocksAround(s)[a] = {a} \union BlocksAround(s)[bs[a].outer]
  BY AroundFacts
<1>3. Root \in S
  BY <1>1, <1>2 DEF Root
<1>4. ASSUME NEW a \in 2 .. n, bs[a].outer \in S PROVE a \in S
  <2> DEFINE o == bs[a].outer
  <2>1. o \in 1 .. a - 1 /\ (o = Root \/ IsConditional(bs[o]))
    BY <1>1 DEF Lies
  <2>2. /\ BlocksAround(s)[o] \subseteq 2 .. o
        /\ \A c \in BlocksAround(s)[o] \ {o} : IsConditional(bs[c])
    BY <1>4
  <2>3. BlocksAround(s)[a] = {a} \union BlocksAround(s)[o]
    BY <1>2
  <2> HIDE DEF o
  <2>4. BlocksAround(s)[a] \subseteq 2 .. a
    BY <2>1, <2>2, <2>3
  <2>5. ASSUME NEW c \in BlocksAround(s)[a] \ {a} PROVE IsConditional(bs[c])
    <3>1. c \in BlocksAround(s)[o]
      BY <2>3
    <3>2. CASE c = o
      BY <1>2, <2>1, <3>1, <3>2
    <3>3. CASE c # o
      BY <2>2, <3>1, <3>3
    <3> QED
      BY <3>2, <3>3
  <2> QED
    BY <2>4, <2>5
<1>5. \A a \in 2 .. n : bs[a].outer \in 1 .. a - 1
  BY <1>1 DEF Lies
<1>6. \A a \in 1 .. n : a \in S
  <2> HIDE DEF S, n, bs
  <2> QED
    BY <1>1, <1>3, <1>4, <1>5, OuterInduction
<1> QED
  BY <1>6

(* The blocks around a block stay while the blocks stay where they lie.    *)
LEMMA AroundKept ==
  ASSUME NEW E, NEW s \in SliceOf(E), SliceInv(s), NEW t \in SliceOf(E), SliceInv(t),
         NEW n \in Nat, n = Len(s.blocks), n <= Len(t.blocks),
         \A b \in 2 .. n : t.blocks[b].outer = s.blocks[b].outer
  PROVE  \A b \in 1 .. n : BlocksAround(t)[b] = BlocksAround(s)[b]
<1> DEFINE S == { b \in 1 .. n : BlocksAround(t)[b] = BlocksAround(s)[b] }
<1>1. /\ Len(t.blocks) \in Nat /\ n >= 2 /\ \A b \in 2 .. n : s.blocks[b].outer \in 1 .. b - 1
  <2>1. Len(t.blocks) \in Nat
    BY ArmBlockFacts
  <2> QED
    BY <2>1 DEF SliceInv, GraphInv, OuterMost, Lies
<1>2. /\ BlocksAround(s)[Root] = {} /\ BlocksAround(t)[Root] = {}
      /\ \A b \in 2 .. n : /\ BlocksAround(s)[b] = {b} \union BlocksAround(s)[s.blocks[b].outer]
                           /\ BlocksAround(t)[b] = {b} \union BlocksAround(t)[t.blocks[b].outer]
  <2>1. \A b \in 2 .. n : b \in 2 .. Len(t.blocks)
    BY <1>1
  <2> QED
    BY <2>1, AroundFacts
<1>3. Root \in S
  <2>1. Root \in 1 .. n
    BY <1>1 DEF Root
  <2> QED
    BY <1>2, <2>1
<1>4. ASSUME NEW b \in 2 .. n, s.blocks[b].outer \in S PROVE b \in S
  <2>1. b \in 1 .. n /\ t.blocks[b].outer = s.blocks[b].outer
    OBVIOUS
  <2>2. BlocksAround(t)[s.blocks[b].outer] = BlocksAround(s)[s.blocks[b].outer]
    BY <1>4
  <2>3. /\ BlocksAround(s)[b] = {b} \union BlocksAround(s)[s.blocks[b].outer]
        /\ BlocksAround(t)[b] = {b} \union BlocksAround(t)[t.blocks[b].outer]
    BY <1>2
  <2>4. BlocksAround(t)[b] = BlocksAround(s)[b]
    BY <2>1, <2>2, <2>3, Zenon
  <2> QED
    BY <2>1, <2>4
<1>5. \A b \in 1 .. n : b \in S
  <2> HIDE DEF S
  <2> QED
    BY <1>1, <1>3, <1>4, OuterInduction
<1> QED
  BY <1>5

(* The blocks of the arms that are open at the k-th open branch.           *)
ArmsUpTo(s, arms, k) == { ArmOf(s, arms[j]) : j \in 1 .. k }

(* The blocks around the k-th open arm are those of the first k open arms. *)
LEMMA AroundArms ==
  ASSUME NEW E, NEW s \in SliceOf(E), SliceInv(s), NEW arms \in ArmSeq, OnArms(s, arms),
         NEW m \in Nat, Len(arms) = m
  PROVE  \A k \in 1 .. m : BlocksAround(s)[ArmOf(s, arms[k])] = ArmsUpTo(s, arms, k)
<1> DEFINE around == BlocksAround(s)
           good == { k \in Nat : k \in 1 .. m => around[ArmOf(s, arms[k])] = ArmsUpTo(s, arms, k) }
<1>1. /\ around[Root] = {}
      /\ \A b \in 2 .. Len(s.blocks) : around[b] = {b} \union around[s.blocks[b].outer]
  BY AroundFacts
<1> HIDE DEF around
<1>2. 0 \in good
  OBVIOUS
<1>3. ASSUME NEW k \in Nat, k \in good PROVE k + 1 \in good
  <2>1. k + 1 \in Nat /\ (k + 1) - 1 = k /\ 1 .. k + 1 = 1 .. k \union {k + 1}
    OBVIOUS
  <2> SUFFICES ASSUME k + 1 \in 1 .. m
               PROVE  around[ArmOf(s, arms[k + 1])] = ArmsUpTo(s, arms, k + 1)
    BY <2>1
  <2>2. OnArm(s, arms, k + 1)
    BY DEF OnArms
  <2>3. around[ArmOf(s, arms[k + 1])] = {ArmOf(s, arms[k + 1])} \union around[AroundArm(s, arms, k + 1)]
    BY <1>1, <2>2 DEF OnArm
  <2>4. ArmsUpTo(s, arms, k + 1) = {ArmOf(s, arms[k + 1])} \union ArmsUpTo(s, arms, k)
    BY <2>1, Zenon DEF ArmsUpTo
  <2>5. CASE k = 0
    <3>1. AroundArm(s, arms, k + 1) = Root
      BY <2>5 DEF AroundArm
    <3>2. ArmsUpTo(s, arms, k) = {}
      BY <2>5 DEF ArmsUpTo
    <3> QED
      BY <1>1, <2>3, <2>4, <3>1, <3>2
  <2>6. CASE k # 0
    <3>1. k \in 1 .. m /\ k + 1 # 1
      BY <2>6
    <3>2. AroundArm(s, arms, k + 1) = ArmOf(s, arms[k])
      BY <2>1, <3>1 DEF AroundArm
    <3>3. around[ArmOf(s, arms[k])] = ArmsUpTo(s, arms, k)
      BY <1>3, <3>1
    <3> QED
      BY <2>3, <2>4, <3>2, <3>3
  <2> QED
    BY <2>5, <2>6
<1>4. \A k \in Nat : k \in good
  <2> HIDE DEF good
  <2> QED BY <1>2, <1>3, SetInduction
<1> QED
  BY <1>4 DEF around

(* The conditional blocks around the current one are those of the open arms*)
LEMMA AroundCurrent ==
  ASSUME NEW E, NEW s \in SliceOf(E), SliceInv(s), NEW arms \in ArmSeq, OnArms(s, arms),
         NEW m \in Nat, Len(arms) = m
  PROVE  /\ ArmsUpTo(s, arms, m) \subseteq BlocksAround(s)[s.cur]
         /\ \A b \in ArmsUpTo(s, arms, m) : IsConditional(s.blocks[b])
         /\ \A b \in BlocksAround(s)[s.cur] : IsConditional(s.blocks[b]) => b \in ArmsUpTo(s, arms, m)
<1> DEFINE around == BlocksAround(s)
           A == ArmsUpTo(s, arms, m)
<1>1. /\ s.cur \in 2 .. Len(s.blocks)
      /\ around[Root] = {} /\ around[s.cur] = {s.cur} \union around[Current(s).outer]
  <2>1. s.cur \in 2 .. Len(s.blocks)
    BY ArmBlockFacts
  <2> QED
    BY <2>1, AroundFacts DEF Current
<1> HIDE DEF around
<1>2. \A b \in A : IsConditional(s.blocks[b])
  BY DEF ArmsUpTo, OnArms, OnArm
<1>3. around[ArmBlock(s)] = A
  <2>1. CASE m = 0
    <3>1. ArmBlock(s) = Root /\ A = {}
      BY <2>1 DEF OnArms, ArmsUpTo
    <3> QED
      BY <1>1, <3>1
  <2>2. CASE m # 0
    <3>1. m \in 1 .. m
      BY <2>2
    <3>2. ArmBlock(s) = ArmOf(s, arms[m])
      BY <3>1 DEF OnArms
    <3> QED
      BY <3>1, <3>2, AroundArms DEF around
  <2> QED
    BY <2>1, <2>2
<1> HIDE DEF A
<1>4. CASE IsConditional(Current(s))
  <2>1. around[s.cur] = A
    BY <1>3, <1>4 DEF ArmBlock
  <2> QED
    BY <1>2, <2>1 DEF A, around
<1>5. CASE ~IsConditional(Current(s))
  <2>1. around[s.cur] = {s.cur} \union A
    BY <1>1, <1>3, <1>5 DEF ArmBlock
  <2>2. ~IsConditional(s.blocks[s.cur])
    BY <1>5 DEF Current
  <2> QED
    BY <1>2, <2>1, <2>2 DEF A, around
<1> QED
  BY <1>4, <1>5

-----------------------------------------------------------------------------
(* What Threads::encode reaches is in every set that has the most outer    *)
(* block and the blocks one link further down than its own.                *)
Links(s, B) == B \union Inward(s, B)

Follow(f, s, n) == f[0] = {Root} /\ \A k \in 1 .. n : f[k] = Links(s, f[k - 1])

LEMMA ReachableSteps ==
  ASSUME NEW s, NEW n \in Nat, Len(s.blocks) = n,
         NEW C, Root \in C, \A B \in SUBSET C : Inward(s, B) \subseteq C
  PROVE  \E f \in [0 .. n -> SUBSET C] : Follow(f, s, n) /\ Reachable(s) = f[n]
<1> DEFINE ch == CHOOSE within : within = [k \in 0 .. n |-> IF k = 0 THEN {Root} ELSE Links(s, within[k - 1])]
           step == [B \in SUBSET C |-> Links(s, B)]
<1>1. Reachable(s) = ch[n]
  BY DEF Reachable, Links
<1>2. {Root} \in SUBSET C /\ step \in [SUBSET C -> SUBSET C] /\ \A B \in SUBSET C : step[B] = Links(s, B)
  <2>1. \A B \in SUBSET C : Links(s, B) \in SUBSET C
    BY DEF Links
  <2> QED
    BY <2>1
<1> HIDE DEF step
<1>3. PICK f \in [0 .. n -> SUBSET C] : f[0] = {Root} /\ \A k \in 1 .. n : f[k] = step[f[k - 1]]
  <2>1. \E f \in [0 .. n -> SUBSET C] : Iterates(f, {Root}, step, n)
    <3> HIDE DEF step
    <3> DEFINE V == SUBSET C
    <3>1. {Root} \in V
      BY <1>2
    <3>2. step \in [V -> V]
      BY <1>2
    <3> HIDE DEF V
    <3> QED
      BY <3>1, <3>2, IterationExists, Zenon DEF V
  <2> QED
    BY <2>1 DEF Iterates
<1>4. f = [k \in 0 .. n |-> IF k = 0 THEN {Root} ELSE Links(s, f[k - 1])]
  <2>1. ASSUME NEW k \in 0 .. n, k # 0 PROVE f[k] = Links(s, f[k - 1])
    <3>1. k \in 1 .. n /\ k - 1 \in 0 .. n
      BY <2>1
    <3> QED
      BY <1>2, <1>3, <3>1
  <2>2. \A k \in 0 .. n : f[k] = IF k = 0 THEN {Root} ELSE Links(s, f[k - 1])
    BY <1>3, <2>1
  <2>3. f = [k \in 0 .. n |-> f[k]]
    BY <1>3
  <2> QED
    BY <2>2, <2>3
<1>5. ch = [k \in 0 .. n |-> IF k = 0 THEN {Root} ELSE Links(s, ch[k - 1])]
  BY <1>4, Zenon
<1> HIDE DEF ch
<1>6. ASSUME NEW k \in 0 .. n PROVE ch[k] = IF k = 0 THEN {Root} ELSE Links(s, ch[k - 1])
  BY <1>5
<1>7. ch[0] = {Root} /\ \A k \in 1 .. n : ch[k] = Links(s, ch[k - 1])
  <2>1. 0 \in 0 .. n /\ \A k \in 1 .. n : k \in 0 .. n /\ k # 0
    OBVIOUS
  <2> QED
    BY <1>6, <2>1
<1> DEFINE good == { k \in Nat : k <= n => ch[k] \in SUBSET C }
<1>8. 0 \in good
  BY <1>2, <1>7
<1>9. ASSUME NEW k \in Nat, k \in good PROVE k + 1 \in good
  <2>1. k + 1 \in Nat
    OBVIOUS
  <2> SUFFICES ASSUME k + 1 <= n PROVE ch[k + 1] \in SUBSET C
    BY <2>1
  <2>2. ch[k + 1] = Links(s, ch[k]) /\ ch[k] \in SUBSET C
    <3>1. k + 1 \in 1 .. n /\ (k + 1) - 1 = k /\ k <= n
      OBVIOUS
    <3> QED
      BY <1>7, <1>9, <3>1
  <2> QED
    BY <2>2 DEF Links
<1>10. \A k \in Nat : k \in good
  <2> HIDE DEF good
  <2> QED BY <1>8, <1>9, SetInduction
<1>11. ch \in [0 .. n -> SUBSET C]
  <2>1. \A k \in 0 .. n : ch[k] \in SUBSET C
    BY <1>10
  <2>2. ch = [k \in 0 .. n |-> ch[k]]
    <3> DEFINE rhs(k) == IF k = 0 THEN {Root} ELSE Links(s, ch[k - 1])
    <3>1. ch = [k \in 0 .. n |-> rhs(k)]
      BY <1>5
    <3> HIDE DEF rhs
    <3> QED
      BY <3>1
  <2> QED
    BY <2>1, <2>2
<1>12. Follow(ch, s, n)
  BY <1>7 DEF Follow
<1> QED
  BY <1>1, <1>11, <1>12

LEMMA ReachableWithin ==
  ASSUME NEW s, NEW n \in Nat, Len(s.blocks) = n,
         NEW C, Root \in C, \A B \in SUBSET C : Inward(s, B) \subseteq C
  PROVE  Reachable(s) \subseteq C
<1>1. PICK f \in [0 .. n -> SUBSET C] : Follow(f, s, n) /\ Reachable(s) = f[n]
  BY ReachableSteps
<1>2. f[n] \in SUBSET C
  OBVIOUS
<1> QED
  BY <1>1, <1>2

(* Of the blocks that Threads::encode reaches, those that are neither      *)
(* conditional nor the most outer nor the current one have events.         *)
Meant(s, b) ==
  b = Root \/ IsConditional(s.blocks[b]) \/ b = s.cur \/ s.blocks[b].body # <<>>

LEMMA ReachableFacts ==
  ASSUME NEW E, NEW s \in SliceOf(E), SliceInv(s)
  PROVE  \A b \in Reachable(s) : b \in 1 .. Len(s.blocks) /\ Meant(s, b)
<1> DEFINE n == Len(s.blocks)
           C == { b \in 1 .. n : Meant(s, b) }
<1>1. /\ s.blocks \in Seq(BlockOf(E)) /\ n \in Nat /\ n >= 2 /\ GraphInv(s.blocks, s.cur)
  BY ArmBlockFacts DEF SliceInv, GraphInv, OuterMost
<1>2. Root \in C
  BY <1>1 DEF Root, Meant
<1>3. ASSUME NEW b \in 1 .. n, NEW c \in Range(s.blocks[b].inner) PROVE c \in C
  <2>1. s.blocks[b].inner \in Seq(Nat)
    BY <1>1, FieldTypes
  <2>2. PICK i \in 1 .. Len(s.blocks[b].inner) : c = s.blocks[b].inner[i]
    BY <2>1 DEF Range
  <2>3. Inside(s.blocks, s.cur, b, c)
    BY <1>1, <2>2 DEF GraphInv, InnerOf
  <2> QED
    BY <2>3 DEF Inside, Meant
<1>4. ASSUME NEW b \in 1 .. n, s.blocks[b].els # Null PROVE s.blocks[b].els \in C
  <2> DEFINE c == s.blocks[b].els
  <2>1. /\ c \in b + 1 .. n /\ IsConditional(s.blocks[b])
        /\ s.blocks[c].cond = Negate(s.blocks[b].cond)
    BY <1>1, <1>4 DEF GraphInv, ElseBeside
  <2>2. s.blocks[b].cond \in Literal
    BY <1>1, <2>1, FieldTypes DEF IsConditional
  <2>3. Negate(s.blocks[b].cond) \in Literal
    BY <2>2 DEF Negate, Literal
  <2> HIDE DEF c
  <2>4. c \in 1 .. n /\ IsConditional(s.blocks[c])
    BY <2>1, <2>3, NoCondAssumption DEF IsConditional
  <2> QED
    BY <2>4 DEF Meant, c
<1>5. \A B \in SUBSET C : Inward(s, B) \subseteq C
  <2> SUFFICES ASSUME NEW B \in SUBSET C, NEW c \in Inward(s, B) PROVE c \in C
    OBVIOUS
  <2>1. PICK b \in B : c \in Range(s.blocks[b].inner) \union ({s.blocks[b].els} \ {Null})
    BY DEF Inward
  <2>2. b \in 1 .. n
    OBVIOUS
  <2>3. CASE c \in Range(s.blocks[b].inner)
    BY <1>3, <2>2, <2>3
  <2>4. CASE c = s.blocks[b].els /\ c # Null
    BY <1>4, <2>2, <2>4
  <2> QED
    BY <2>1, <2>3, <2>4
<1>6. Reachable(s) \subseteq C
  <2> HIDE DEF C
  <2> QED
    BY <1>1, <1>2, <1>5, ReachableWithin
<1> QED
  BY <1>6

-----------------------------------------------------------------------------
(* The conditions of block b and of the blocks around it. *)
Conditions(s, b) == { s.blocks[c].cond : c \in BlocksAround(s)[b] } \ {NoCond}

(* They stay while blocks stay where they lie and conditional ones keep    *)
(* their condition.                                                        *)
LEMMA ConditionsKept ==
  ASSUME NEW E, NEW s \in SliceOf(E), SliceInv(s), NEW t \in SliceOf(E), SliceInv(t),
         NEW n \in Nat, n = Len(s.blocks), n <= Len(t.blocks),
         \A b \in 1 .. n : t.blocks[b].outer = s.blocks[b].outer,
         \A b \in 1 .. n : IsConditional(s.blocks[b]) => t.blocks[b].cond = s.blocks[b].cond,
         NEW b \in 1 .. n, t.blocks[b].cond = s.blocks[b].cond
  PROVE  Conditions(t, b) = Conditions(s, b)
<1>1. BlocksAround(t)[b] = BlocksAround(s)[b]
  <2>1. \A x \in 2 .. n : t.blocks[x].outer = s.blocks[x].outer
    OBVIOUS
  <2> QED
    BY <2>1, AroundKept
<1>2. ASSUME NEW c \in BlocksAround(s)[b] PROVE t.blocks[c].cond = s.blocks[c].cond
  <2>1. c \in 2 .. b /\ (c # b => IsConditional(s.blocks[c]))
    BY AroundBounds
  <2>2. c \in 1 .. n
    BY <2>1
  <2> QED
    BY <2>1, <2>2
<1> QED
  BY <1>1, <1>2 DEF Conditions

(* The conditions of the current block and those around it are those of    *)
(* the open arms.                                                          *)
LEMMA ConditionsOfArms ==
  ASSUME NEW E, NEW s \in SliceOf(E), SliceInv(s), NEW arms \in ArmSeq, OnArms(s, arms),
         NEW m \in Nat, Len(arms) = m
  PROVE  Conditions(s, s.cur) = { s.blocks[ArmOf(s, arms[k])].cond : k \in 1 .. m }
<1> DEFINE A == ArmsUpTo(s, arms, m)
           around == BlocksAround(s)[s.cur]
<1>1. /\ A \subseteq around
      /\ \A b \in A : IsConditional(s.blocks[b])
      /\ \A b \in around : IsConditional(s.blocks[b]) => b \in A
  BY AroundCurrent
<1> HIDE DEF A, around
<1>2. { s.blocks[c].cond : c \in around } \ {NoCond} = { s.blocks[c].cond : c \in A }
  BY <1>1 DEF IsConditional
<1>3. { s.blocks[c].cond : c \in A } = { s.blocks[ArmOf(s, arms[k])].cond : k \in 1 .. m }
  BY DEF A, ArmsUpTo
<1> QED
  BY <1>2, <1>3 DEF Conditions, around

-----------------------------------------------------------------------------
(* Events numbered a + 1 to b, one after the other.                        *)
Numbers(q, a, b) == a + Len(q) = b /\ \A i \in 1 .. Len(q) : q[i].id = a + i

LEMMA NumbersConcat ==
  ASSUME NEW E, NEW q \in Seq(E), NEW r \in Seq(E), NEW a \in Nat, NEW b, NEW c,
         Numbers(q, a, b), Numbers(r, b, c)
  PROVE  Numbers(q \o r, a, c)
<1>1. /\ Len(q) \in Nat /\ Len(r) \in Nat /\ Len(q \o r) = Len(q) + Len(r)
      /\ \A i \in 1 .. Len(q) + Len(r) :
           (q \o r)[i] = IF i <= Len(q) THEN q[i] ELSE r[i - Len(q)]
  OBVIOUS
<1>2. a + Len(q) = b /\ b + Len(r) = c
  BY DEF Numbers
<1>3. ASSUME NEW i \in 1 .. Len(q) + Len(r) PROVE (q \o r)[i].id = a + i
  <2>1. CASE i <= Len(q)
    <3>1. i \in 1 .. Len(q)
      BY <1>1, <2>1
    <3> QED
      BY <1>1, <2>1, <3>1 DEF Numbers
  <2>2. CASE ~(i <= Len(q))
    <3>1. i - Len(q) \in 1 .. Len(r)
      BY <1>1, <2>2
    <3>2. r[i - Len(q)].id = b + (i - Len(q))
      BY <3>1 DEF Numbers
    <3>3. b + (i - Len(q)) = a + i
      BY <1>1, <1>2
    <3> QED
      BY <1>1, <2>2, <3>2, <3>3
  <2> QED
    BY <2>1, <2>2
<1> QED
  BY <1>1, <1>2, <1>3 DEF Numbers

(* The inner blocks of a block come after it, and so do their else blocks. *)
LEMMA InnerAfter ==
  ASSUME NEW E, NEW bs \in Seq(BlockOf(E)), NEW e, GraphInv(bs, e), NEW b \in 1 .. Len(bs),
         NEW k \in 1 .. Len(bs[b].inner)
  PROVE  /\ bs[b].inner[k] \in b + 1 .. Len(bs) /\ bs[b].inner[k] \in 1 .. Len(bs)
         /\ bs[bs[b].inner[k]].outer = b
         /\ bs[bs[b].inner[k]].els # Null => bs[bs[b].inner[k]].els \in b + 1 .. Len(bs)
<1> DEFINE i == bs[b].inner[k]
<1>1. Inside(bs, e, b, i)
  BY DEF GraphInv, InnerOf
<1> HIDE DEF i
<1>2. i \in 2 .. Len(bs) /\ bs[i].outer = b
  BY <1>1 DEF Inside
<1>3. Lies(bs, i) /\ ElseBeside(bs, i) /\ Len(bs) \in Nat
  BY <1>2 DEF GraphInv
<1>4. i \in b + 1 .. Len(bs) /\ i \in 1 .. Len(bs)
  BY <1>2, <1>3 DEF Lies
<1>5. bs[i].els # Null => bs[i].els \in b + 1 .. Len(bs)
  BY <1>3, <1>4 DEF ElseBeside
<1> QED
  BY <1>2, <1>4, <1>5 DEF i

-----------------------------------------------------------------------------
(* The walk, as the recursive function that it is defined by.              *)
Visit(bs, ev, i) == ev[i] \o (IF bs[i].els = Null THEN <<>> ELSE ev[bs[i].els])

Visits(bs, ev, b) ==
  bs[b].body \o FlattenSeq([k \in DOMAIN bs[b].inner |-> Visit(bs, ev, bs[b].inner[k])])

LEMMA VisitsSame ==
  ASSUME NEW E, NEW bs \in Seq(BlockOf(E)), NEW e, GraphInv(bs, e), NEW b \in 1 .. Len(bs),
         NEW ev, NEW ew, \A x \in 1 .. Len(bs) : x > b => ev[x] = ew[x]
  PROVE  Visits(bs, ev, b) = Visits(bs, ew, b)
<1>1. bs[b].inner \in Seq(Nat)
  BY FieldTypes
<1>2. Len(bs) \in Nat
  OBVIOUS
<1>3. ASSUME NEW k \in DOMAIN bs[b].inner
      PROVE  Visit(bs, ev, bs[b].inner[k]) = Visit(bs, ew, bs[b].inner[k])
  <2> DEFINE i == bs[b].inner[k]
  <2>1. k \in 1 .. Len(bs[b].inner)
    BY <1>1
  <2>2. /\ i \in b + 1 .. Len(bs)
        /\ bs[i].els # Null => bs[i].els \in b + 1 .. Len(bs)
    BY <2>1, InnerAfter
  <2> HIDE DEF i
  <2>3. \A x \in b + 1 .. Len(bs) : ev[x] = ew[x]
    BY <1>2
  <2>4. ev[i] = ew[i] /\ (bs[i].els # Null => ev[bs[i].els] = ew[bs[i].els])
    BY <2>2, <2>3
  <2>5. Visit(bs, ev, i) = Visit(bs, ew, i)
    BY <2>4 DEF Visit
  <2> QED
    BY <2>5 DEF i
<1>4. [k \in DOMAIN bs[b].inner |-> Visit(bs, ev, bs[b].inner[k])]
        = [k \in DOMAIN bs[b].inner |-> Visit(bs, ew, bs[b].inner[k])]
  BY <1>3
<1> QED
  BY <1>4 DEF Visits

LEMMA WalkExists ==
  ASSUME NEW E, NEW bs \in Seq(BlockOf(E)), NEW e, GraphInv(bs, e)
  PROVE  \E ev : ev = [b \in DOMAIN bs |-> Visits(bs, ev, b)]
<1> DEFINE n == Len(bs)
           Late(j) == { b \in 1 .. n : b > n - j }
           Good(f, j) == f = [b \in Late(j) |-> Visits(bs, f, b)]
           good == { j \in Nat : \E f : Good(f, j) }
<1>1. n \in Nat /\ DOMAIN bs = 1 .. n
  OBVIOUS
<1>2. 0 \in good
  <2>1. Late(0) = {}
    BY <1>1
  <2>2. Good([b \in Late(0) |-> 0], 0)
    BY <2>1
  <2> QED
    BY <2>2
<1>3. ASSUME NEW j \in Nat, j \in good PROVE j + 1 \in good
  <2>1. PICK old : Good(old, j)
    BY <1>3
  <2> DEFINE new == [b \in Late(j + 1) |-> Visits(bs, old, b)]
  <2>2. ASSUME NEW x \in Late(j) PROVE new[x] = old[x]
    <3>1. x \in Late(j + 1)
      BY <1>1
    <3>2. old[x] = Visits(bs, old, x)
      BY <2>1
    <3> QED
      BY <3>1, <3>2
  <2>3. ASSUME NEW b \in Late(j + 1) PROVE Visits(bs, old, b) = Visits(bs, new, b)
    <3>1. b \in 1 .. Len(bs) /\ \A x \in 1 .. Len(bs) : x > b => x \in Late(j)
      BY <1>1
    <3>2. \A x \in 1 .. Len(bs) : x > b => old[x] = new[x]
      BY <2>2, <3>1
    <3> HIDE DEF new
    <3> QED
      BY <3>1, <3>2, VisitsSame
  <2>4. new = [b \in Late(j + 1) |-> Visits(bs, new, b)]
    <3>1. \A b \in Late(j + 1) : Visits(bs, old, b) = Visits(bs, new, b)
      BY <2>3
    <3>2. new = [b \in Late(j + 1) |-> Visits(bs, old, b)]
      OBVIOUS
    <3> HIDE DEF new
    <3> QED
      BY <3>1, <3>2
  <2>5. j + 1 \in Nat
    OBVIOUS
  <2> HIDE DEF new
  <2> QED
    BY <2>4, <2>5, Zenon
<1>4. \A j \in Nat : j \in good
  <2> HIDE DEF good
  <2> QED BY <1>2, <1>3, SetInduction
<1>5. Late(n) = DOMAIN bs
  BY <1>1
<1>6. \E f : Good(f, n)
  BY <1>1, <1>4
<1> QED
  BY <1>5, <1>6

LEMMA WalkFacts ==
  ASSUME NEW E, NEW s \in SliceOf(E), SliceInv(s)
  PROVE  \A b \in 1 .. Len(s.blocks) : Walk(s)[b] = Visits(s.blocks, Walk(s), b)
<1> DEFINE bs == s.blocks
           ch == CHOOSE ev : ev = [b \in DOMAIN bs |-> Visits(bs, ev, b)]
<1>1. Walk(s) = ch
  BY DEF Walk, Visits, Visit
<1>2. bs \in Seq(BlockOf(E)) /\ GraphInv(bs, s.cur) /\ DOMAIN bs = 1 .. Len(bs)
  BY ArmBlockFacts DEF SliceInv
<1>3. ch = [b \in DOMAIN bs |-> Visits(bs, ch, b)]
  <2> HIDE DEF bs
  <2> QED
    BY <1>2, WalkExists, Zenon
<1> HIDE DEF ch
<1>4. \A b \in DOMAIN bs : ch[b] = Visits(bs, ch, b)
  BY <1>3
<1> QED
  BY <1>1, <1>2, <1>4

-----------------------------------------------------------------------------
(* The numbers of the events: those in and inside block b are lo[b] + 1 to *)
(* hi[b], and those inside its inner blocks and their else blocks follow   *)
(* one another.                                                            *)
EndOf(bs, hi, c) == IF bs[c].els = Null THEN hi[c] ELSE hi[bs[c].els]

StartOf(bs, lo, hi, b, k) ==
  IF k = 1 THEN lo[b] + Len(bs[b].body) ELSE EndOf(bs, hi, bs[b].inner[k - 1])

NumberedAt(bs, lo, hi, b) ==
  /\ lo[b] \in Nat /\ hi[b] \in Nat
  /\ \A i \in 1 .. Len(bs[b].body) : bs[b].body[i].id = lo[b] + i
  /\ \A k \in 1 .. Len(bs[b].inner) : lo[bs[b].inner[k]] = StartOf(bs, lo, hi, b, k)
  /\ hi[b] = StartOf(bs, lo, hi, b, Len(bs[b].inner) + 1)
  /\ bs[b].els # Null => lo[bs[b].els] = hi[b]

Numbered(bs, lo, hi, n) ==
  /\ \A b \in 1 .. Len(bs) : NumberedAt(bs, lo, hi, b)
  /\ lo[Root] = 0 /\ hi[Root] = n

(* An else block has one then block, is no inner block and has no else.    *)
Apart(bs) ==
  \A c \in 1 .. Len(bs) : bs[c].els # Null =>
    /\ bs[bs[c].els].els = Null
    /\ \A b \in 1 .. Len(bs) : bs[b].els = bs[c].els => b = c
    /\ \A b \in 1 .. Len(bs) : \A k \in 1 .. Len(bs[b].inner) : bs[b].inner[k] # bs[c].els

(* The events 1 to n are in the slice in the order of their numbers. *)
InOrder(bs, n) == Apart(bs) /\ \E lo, hi : Numbered(bs, lo, hi, n)

LEMMA VisitsNumbers ==
  ASSUME NEW E, NEW bs \in Seq(BlockOf(E)), NEW e, GraphInv(bs, e), NEW b \in 1 .. Len(bs),
         NEW lo, NEW hi, \A x \in 1 .. Len(bs) : NumberedAt(bs, lo, hi, x),
         NEW ev, \A x \in 1 .. Len(bs) : x > b => ev[x] \in Seq(E) /\ Numbers(ev[x], lo[x], hi[x])
  PROVE  Visits(bs, ev, b) \in Seq(E) /\ Numbers(Visits(bs, ev, b), lo[b], hi[b])
<1> DEFINE m == Len(bs[b].inner)
           parts == [k \in DOMAIN bs[b].inner |-> Visit(bs, ev, bs[b].inner[k])]
           at(k) == StartOf(bs, lo, hi, b, k)
<1>1. /\ bs[b].body \in Seq(E) /\ m \in Nat /\ DOMAIN bs[b].inner = 1 .. m
      /\ NumberedAt(bs, lo, hi, b) /\ lo[b] \in Nat
  <2>1. bs[b].inner \in Seq(Nat) /\ bs[b].body \in Seq(E)
    BY FieldTypes
  <2> QED
    BY <2>1 DEF NumberedAt
<1>2. ASSUME NEW k \in 1 .. m
      PROVE  Visit(bs, ev, bs[b].inner[k]) \in Seq(E)
             /\ Numbers(Visit(bs, ev, bs[b].inner[k]), at(k), at(k + 1))
  <2> DEFINE i == bs[b].inner[k]
  <2>1. /\ i \in b + 1 .. Len(bs) /\ i \in 1 .. Len(bs)
        /\ bs[i].els # Null => bs[i].els \in b + 1 .. Len(bs)
    BY InnerAfter
  <2>2. lo[i] = at(k)
    BY <1>1 DEF NumberedAt
  <2>3. at(k + 1) = EndOf(bs, hi, i)
    <3>1. k + 1 # 1 /\ (k + 1) - 1 = k
      OBVIOUS
    <3> QED
      BY <3>1 DEF StartOf
  <2> HIDE DEF i, at
  <2>4. \A x \in b + 1 .. Len(bs) :
          x \in 1 .. Len(bs) /\ ev[x] \in Seq(E) /\ Numbers(ev[x], lo[x], hi[x])
    OBVIOUS
  <2>5. NumberedAt(bs, lo, hi, i)
    BY <2>1
  <2>6. Visit(bs, ev, i) \in Seq(E) /\ Numbers(Visit(bs, ev, i), at(k), at(k + 1))
    <3>1. CASE bs[i].els = Null
      <4>1. Visit(bs, ev, i) = ev[i]
        <5>1. ev[i] \in Seq(E) /\ Visit(bs, ev, i) = ev[i] \o <<>>
          BY <2>1, <2>4, <3>1 DEF Visit
        <5> QED
          BY <5>1
      <4> QED
        BY <2>1, <2>2, <2>3, <2>4, <3>1, <4>1 DEF EndOf
    <3>2. CASE bs[i].els # Null
      <4> DEFINE c == bs[i].els
      <4>1. /\ Visit(bs, ev, i) = ev[i] \o ev[c] /\ EndOf(bs, hi, i) = hi[c]
            /\ lo[c] = hi[i] /\ lo[i] \in Nat
        BY <2>5, <3>2 DEF Visit, EndOf, NumberedAt
      <4>2. c \in b + 1 .. Len(bs)
        BY <2>1, <3>2
      <4> HIDE DEF c
      <4>3. /\ ev[i] \in Seq(E) /\ Numbers(ev[i], lo[i], hi[i])
            /\ ev[c] \in Seq(E) /\ Numbers(ev[c], lo[c], hi[c])
        BY <2>1, <2>4, <4>2
      <4>4. Numbers(ev[c], hi[i], hi[c])
        BY <4>1, <4>3
      <4>5. Numbers(ev[i] \o ev[c], lo[i], hi[c])
        BY <4>1, <4>3, <4>4, NumbersConcat
      <4>6. ev[i] \o ev[c] \in Seq(E)
        BY <4>3, ConcatInSeq
      <4> QED
        BY <2>2, <2>3, <4>1, <4>5, <4>6
    <3> QED
      BY <3>1, <3>2
  <2> QED
    BY <2>6 DEF i
<1>3. parts \in Seq(Seq(E)) /\ Len(parts) = m /\ \A k \in 1 .. m : parts[k] = Visit(bs, ev, bs[b].inner[k])
  <2>1. parts = [k \in 1 .. m |-> Visit(bs, ev, bs[b].inner[k])]
    BY <1>1
  <2>2. \A k \in 1 .. m : Visit(bs, ev, bs[b].inner[k]) \in Seq(E)
    BY <1>2
  <2> HIDE DEF parts
  <2>3. parts \in [1 .. m -> Seq(E)]
    BY <2>1, <2>2
  <2> QED
    BY <1>1, <2>1, <2>3
<1>4. PICK f : Flattens(f, parts) /\ FlattenSeq(parts) = f[Len(parts)]
  <2> HIDE DEF parts
  <2> QED
    BY <1>3, FlattenFacts
<1>5. Visits(bs, ev, b) = bs[b].body \o f[m]
  BY <1>3, <1>4 DEF Visits
<1> HIDE DEF parts
<1>6. f[0] = <<>> /\ \A k \in 1 .. m : f[k] = f[k - 1] \o Visit(bs, ev, bs[b].inner[k])
  BY <1>3, <1>4 DEF Flattens
<1> DEFINE Fine(k) == f[k] \in Seq(E) /\ bs[b].body \o f[k] \in Seq(E)
                      /\ Numbers(bs[b].body \o f[k], lo[b], at(k + 1))
           good == { k \in Nat : k <= m => Fine(k) }
<1>7. 0 \in good
  <2>1. at(0 + 1) = lo[b] + Len(bs[b].body)
    BY DEF StartOf
  <2>2. f[0] \in Seq(E) /\ bs[b].body \o f[0] = bs[b].body
    BY <1>1, <1>6
  <2>3. Numbers(bs[b].body, lo[b], lo[b] + Len(bs[b].body))
    BY <1>1 DEF Numbers, NumberedAt
  <2> QED
    BY <1>1, <2>1, <2>2, <2>3
<1>8. ASSUME NEW k \in Nat, k \in good PROVE k + 1 \in good
  <2>1. k + 1 \in Nat
    OBVIOUS
  <2> SUFFICES ASSUME k + 1 <= m PROVE Fine(k + 1)
    BY <2>1
  <2> DEFINE q == bs[b].body \o f[k]
             r == Visit(bs, ev, bs[b].inner[k + 1])
  <2>2. k + 1 \in 1 .. m /\ (k + 1) - 1 = k /\ k <= m
    BY <1>1
  <2>3. f[k] \in Seq(E) /\ q \in Seq(E) /\ Numbers(q, lo[b], at(k + 1))
    BY <1>8, <2>2
  <2>4. r \in Seq(E) /\ Numbers(r, at(k + 1), at((k + 1) + 1))
    BY <1>2, <2>2
  <2>5. f[k + 1] = f[k] \o r
    BY <1>6, <2>2
  <2> HIDE DEF r, at
  <2>6. bs[b].body \o f[k + 1] = q \o r /\ f[k + 1] \in Seq(E)
    <3>1. \A u, v, w \in Seq(E) : u \o (v \o w) = (u \o v) \o w
      OBVIOUS
    <3>2. f[k] \o r \in Seq(E)
      BY <2>3, <2>4, ConcatInSeq
    <3>3. bs[b].body \in Seq(E) /\ f[k] \in Seq(E) /\ r \in Seq(E)
      BY <1>1, <2>3, <2>4
    <3>4. bs[b].body \o (f[k] \o r) = (bs[b].body \o f[k]) \o r
      BY <3>1, <3>3, Zenon
    <3> QED
      BY <2>5, <3>2, <3>4, Zenon
  <2> HIDE DEF q
  <2>7. Numbers(q \o r, lo[b], at((k + 1) + 1)) /\ q \o r \in Seq(E)
    BY <1>1, <2>3, <2>4, NumbersConcat, ConcatInSeq
  <2> QED
    BY <2>6, <2>7
<1>9. \A k \in Nat : k \in good
  <2> HIDE DEF good
  <2> QED BY <1>7, <1>8, SetInduction
<1>10. Fine(m)
  BY <1>1, <1>9
<1>11. at(m + 1) = hi[b]
  BY <1>1 DEF NumberedAt
<1> QED
  BY <1>5, <1>10, <1>11

(* The walk of a block meets the events that are in it and inside it, in   *)
(* the order of their numbers.                                             *)
LEMMA WalkNumbers ==
  ASSUME NEW E, NEW s \in SliceOf(E), SliceInv(s),
         NEW lo, NEW hi, \A x \in 1 .. Len(s.blocks) : NumberedAt(s.blocks, lo, hi, x)
  PROVE  \A b \in 1 .. Len(s.blocks) :
           Walk(s)[b] \in Seq(E) /\ Numbers(Walk(s)[b], lo[b], hi[b])
<1> DEFINE bs == s.blocks
           N == Len(bs)
           ev == Walk(s)
           S == { b \in 1 .. N : ev[b] \in Seq(E) /\ Numbers(ev[b], lo[b], hi[b]) }
<1>1. bs \in Seq(BlockOf(E)) /\ GraphInv(bs, s.cur) /\ N \in Nat
  BY ArmBlockFacts DEF SliceInv
<1>2. \A b \in 1 .. N : ev[b] = Visits(bs, ev, b)
  BY WalkFacts
<1>3. \A x \in 1 .. Len(bs) : NumberedAt(bs, lo, hi, x)
  OBVIOUS
<1> HIDE DEF bs, ev
<1>4. ASSUME NEW b \in 1 .. N, \A x \in 1 .. N : x > b => x \in S PROVE b \in S
  <2>1. \A x \in 1 .. Len(bs) : x > b => ev[x] \in Seq(E) /\ Numbers(ev[x], lo[x], hi[x])
    BY <1>4
  <2>2. Visits(bs, ev, b) \in Seq(E) /\ Numbers(Visits(bs, ev, b), lo[b], hi[b])
    BY <1>1, <1>3, <2>1, VisitsNumbers
  <2> QED
    BY <1>2, <2>2
<1>5. \A b \in 1 .. N : b \in S
  <2> HIDE DEF S
  <2> QED
    BY <1>1, <1>4, DownInduction
<1> QED
  BY <1>5 DEF bs, ev

(* A slice whose events are numbered in order is walked in that order.     *)
LEMMA InOrderWalks ==
  ASSUME NEW E, NEW s \in SliceOf(E), SliceInv(s), NEW n \in Nat, InOrder(s.blocks, n)
  PROVE  WalksInOrder(s, n)
<1> DEFINE walk == Walk(s)[Root]
<1>1. PICK lo, hi : Numbered(s.blocks, lo, hi, n)
  BY DEF InOrder
<1>2. Root \in 1 .. Len(s.blocks)
  BY ArmBlockFacts DEF SliceInv, GraphInv, OuterMost, Root
<1>3. walk \in Seq(E) /\ Numbers(walk, lo[Root], hi[Root])
  BY <1>1, <1>2, WalkNumbers DEF Numbered
<1>4. walk \in Seq(E) /\ Numbers(walk, 0, n)
  BY <1>1, <1>3 DEF Numbered
<1> HIDE DEF walk
<1>5. DOMAIN walk = 1 .. Len(walk) /\ Len(walk) \in Nat
  BY <1>4
<1> QED
  BY <1>4, <1>5 DEF WalksInOrder, Numbers, walk

-----------------------------------------------------------------------------
(* Links lead to blocks. *)
LEMMA LinksIn ==
  ASSUME NEW E, NEW bs \in Seq(BlockOf(E)), NEW e, GraphInv(bs, e), NEW x \in 1 .. Len(bs)
  PROVE  /\ bs[x].els # Null => bs[x].els \in 1 .. Len(bs)
         /\ bs[x].inner \in Seq(Nat)
         /\ Len(bs[x].inner) \in Nat
         /\ \A k \in 1 .. Len(bs[x].inner) : bs[x].inner[k] \in 1 .. Len(bs)
<1>1. bs[x].inner \in Seq(Nat)
  BY FieldTypes
<1>2. bs[x].els # Null => bs[x].els \in 1 .. Len(bs)
  BY DEF GraphInv, ElseBeside
<1> QED
  BY <1>1, <1>2, InnerAfter

(* The numbers where an inner block starts, when what is before it stays.  *)
LEMMA StartSame ==
  ASSUME NEW bs, NEW cs, NEW lo, NEW hi, NEW lp, NEW hp, NEW b, NEW k,
         k = 1 => lp[b] = lo[b] /\ cs[b].body = bs[b].body,
         k # 1 => /\ cs[b].inner[k - 1] = bs[b].inner[k - 1]
                  /\ EndOf(cs, hp, bs[b].inner[k - 1]) = EndOf(bs, hi, bs[b].inner[k - 1])
  PROVE  StartOf(cs, lp, hp, b, k) = StartOf(bs, lo, hi, b, k)
BY DEF StartOf

(* A new empty block at the end of block b.                                *)
LEMMA EnteredOrder ==
  ASSUME NEW E, NEW bs \in Seq(BlockOf(E)), NEW cs \in Seq(BlockOf(E)), NEW e, GraphInv(bs, e),
         NEW b \in 1 .. Len(bs), NEW cond, Entered(bs, cs, b, cond), NEW n, InOrder(bs, n)
  PROVE  InOrder(cs, n)
<1> DEFINE N == Len(bs)
           m == Len(bs[b].inner)
<1>1. PICK lo, hi : Numbered(bs, lo, hi, n)
  BY DEF InOrder
<1> DEFINE lp == [x \in 1 .. N + 1 |-> IF x = N + 1 THEN hi[b] ELSE lo[x]]
           hp == [x \in 1 .. N + 1 |-> IF x = N + 1 THEN hi[b] ELSE hi[x]]
<1>2. /\ N \in Nat /\ Len(cs) = N + 1 /\ cs[N + 1] = Block(b, cond)
      /\ \A x \in 1 .. N : cs[x].els = bs[x].els /\ cs[x].body = bs[x].body
      /\ \A x \in 1 .. N : x # b => cs[x].inner = bs[x].inner
      /\ cs[b].inner = Append(bs[b].inner, N + 1)
  BY DEF Entered, Kept
<1>3. /\ \A x \in 1 .. N : lp[x] = lo[x] /\ hp[x] = hi[x]
      /\ lp[N + 1] = hi[b] /\ hp[N + 1] = hi[b]
  BY <1>2
<1> HIDE DEF lp, hp
<1>4. \A x \in 1 .. N : /\ bs[x].els # Null => bs[x].els \in 1 .. N
                        /\ bs[x].inner \in Seq(Nat) /\ Len(bs[x].inner) \in Nat
                        /\ \A k \in 1 .. Len(bs[x].inner) : bs[x].inner[k] \in 1 .. N
  BY LinksIn
<1>5. /\ m \in Nat /\ Len(cs[b].inner) = m + 1 /\ cs[b].inner[m + 1] = N + 1
      /\ \A k \in 1 .. m : cs[b].inner[k] = bs[b].inner[k]
  BY <1>2, <1>4
<1>6. \A x \in 1 .. N : \A k \in 1 .. Len(bs[x].inner) : cs[x].inner[k] = bs[x].inner[k]
  BY <1>2, <1>5
<1> HIDE DEF N, m
<1>7. \A x \in 1 .. N : EndOf(cs, hp, x) = EndOf(bs, hi, x)
  BY <1>2, <1>3, <1>4 DEF EndOf
<1>8. ASSUME NEW x \in 1 .. N, NEW k \in 1 .. Len(bs[x].inner) + 1
      PROVE  StartOf(cs, lp, hp, x, k) = StartOf(bs, lo, hi, x, k)
  <2>1. k # 1 => k - 1 \in 1 .. Len(bs[x].inner)
    BY <1>4
  <2>2. k # 1 => /\ cs[x].inner[k - 1] = bs[x].inner[k - 1]
                 /\ EndOf(cs, hp, bs[x].inner[k - 1]) = EndOf(bs, hi, bs[x].inner[k - 1])
    BY <1>4, <1>6, <1>7, <2>1
  <2>3. k = 1 => lp[x] = lo[x] /\ cs[x].body = bs[x].body
    BY <1>2, <1>3
  <2> QED
    BY <2>2, <2>3, StartSame
<1>9. \A x \in 1 .. N : NumberedAt(bs, lo, hi, x)
  BY <1>1 DEF Numbered, N
<1>10. ASSUME NEW x \in 1 .. N PROVE NumberedAt(cs, lp, hp, x)
  <2>1. NumberedAt(bs, lo, hi, x)
    BY <1>9
  <2>2. lp[x] \in Nat /\ hp[x] \in Nat
    BY <1>3, <2>1 DEF NumberedAt
  <2>3. \A i \in 1 .. Len(cs[x].body) : cs[x].body[i].id = lp[x] + i
    BY <1>2, <1>3, <2>1 DEF NumberedAt
  <2>4. ASSUME NEW k \in 1 .. Len(bs[x].inner)
        PROVE  lp[cs[x].inner[k]] = StartOf(cs, lp, hp, x, k)
    <3>1. k \in 1 .. Len(bs[x].inner) + 1
      BY <1>4
    <3>2. lo[bs[x].inner[k]] = StartOf(bs, lo, hi, x, k)
      BY <2>1 DEF NumberedAt
    <3> QED
      BY <1>3, <1>4, <1>6, <1>8, <3>1, <3>2
  <2>5. hi[x] = StartOf(cs, lp, hp, x, Len(bs[x].inner) + 1)
    <3>1. Len(bs[x].inner) + 1 \in 1 .. Len(bs[x].inner) + 1
      BY <1>4
    <3>2. hi[x] = StartOf(bs, lo, hi, x, Len(bs[x].inner) + 1)
      BY <2>1 DEF NumberedAt
    <3> QED
      BY <1>8, <3>1, <3>2
  <2>6. /\ \A k \in 1 .. Len(cs[x].inner) : lp[cs[x].inner[k]] = StartOf(cs, lp, hp, x, k)
        /\ hp[x] = StartOf(cs, lp, hp, x, Len(cs[x].inner) + 1)
    <3>1. CASE x # b
      BY <1>2, <1>3, <2>4, <2>5, <3>1
    <3>2. CASE x = b
      <4>1. \A k \in 1 .. m + 1 : k \in 1 .. m \/ k = m + 1
        BY <1>5
      <4>2. lp[cs[b].inner[m + 1]] = StartOf(cs, lp, hp, b, m + 1)
        BY <1>3, <1>5, <2>5, <3>2 DEF m
      <4>3. StartOf(cs, lp, hp, b, (m + 1) + 1) = hi[b]
        <5>1. (m + 1) + 1 # 1 /\ ((m + 1) + 1) - 1 = m + 1
          BY <1>5
        <5>2. EndOf(cs, hp, N + 1) = hi[b]
          BY <1>2, <1>3 DEF EndOf, Block
        <5> QED
          BY <1>5, <5>1, <5>2 DEF StartOf
      <4>4. hp[b] = hi[b]
        BY <1>3, <3>2
      <4> QED
        BY <1>5, <2>4, <3>2, <4>1, <4>2, <4>3, <4>4 DEF m
    <3> QED
      BY <3>1, <3>2
  <2>7. cs[x].els # Null => lp[cs[x].els] = hp[x]
    BY <1>2, <1>3, <1>4, <2>1 DEF NumberedAt
  <2> QED
    BY <2>2, <2>3, <2>6, <2>7 DEF NumberedAt
<1>11. NumberedAt(cs, lp, hp, N + 1)
  <2>1. hi[b] \in Nat
    BY <1>9 DEF NumberedAt, N
  <2>2. cs[N + 1].body = <<>> /\ cs[N + 1].inner = <<>> /\ cs[N + 1].els = Null
    BY <1>2 DEF Block
  <2>3. StartOf(cs, lp, hp, N + 1, 0 + 1) = hi[b]
    BY <1>3, <2>1, <2>2 DEF StartOf
  <2> QED
    BY <1>3, <2>1, <2>2, <2>3 DEF NumberedAt
<1>12. Numbered(cs, lp, hp, n)
  <2>1. \A x \in 1 .. N + 1 : x \in 1 .. N \/ x = N + 1
    BY <1>2
  <2>2. Root \in 1 .. N
    BY DEF N, GraphInv, OuterMost, Root
  <2> QED
    BY <1>1, <1>2, <1>3, <1>10, <1>11, <2>1, <2>2 DEF Numbered
<1>13. Apart(cs)
  <2> SUFFICES ASSUME NEW c \in 1 .. N + 1, cs[c].els # Null
               PROVE  /\ cs[cs[c].els].els = Null
                      /\ \A x \in 1 .. N + 1 : cs[x].els = cs[c].els => x = c
                      /\ \A x \in 1 .. N + 1 : \A k \in 1 .. Len(cs[x].inner) :
                           cs[x].inner[k] # cs[c].els
    BY <1>2 DEF Apart
  <2>1. \A x \in 1 .. N + 1 : x \in 1 .. N \/ x = N + 1
    BY <1>2
  <2>2. cs[N + 1].els = Null /\ cs[N + 1].inner = <<>>
    BY <1>2 DEF Block
  <2>3. c \in 1 .. N /\ cs[c].els = bs[c].els /\ bs[c].els \in 1 .. N
    BY <1>2, <1>4, <2>1, <2>2
  <2>4. /\ bs[bs[c].els].els = Null
        /\ \A x \in 1 .. N : bs[x].els = bs[c].els => x = c
        /\ \A x \in 1 .. N : \A k \in 1 .. Len(bs[x].inner) : bs[x].inner[k] # bs[c].els
    BY <2>3 DEF InOrder, Apart, N
  <2>5. \A x \in 1 .. N + 1 : cs[x].els = cs[c].els => x = c
    BY <1>2, <2>1, <2>2, <2>3, <2>4
  <2>6. ASSUME NEW x \in 1 .. N + 1, NEW k \in 1 .. Len(cs[x].inner) PROVE cs[x].inner[k] # cs[c].els
    <3>1. CASE x = N + 1
      BY <2>2, <3>1
    <3>2. CASE x \in 1 .. N /\ x # b
      BY <1>2, <2>3, <2>4, <3>2
    <3>3. CASE x = b
      <4>1. k \in 1 .. m \/ k = m + 1
        BY <1>5, <3>3
      <4>2. CASE k = m + 1
        BY <1>2, <1>5, <2>3, <3>3, <4>2
      <4>3. CASE k \in 1 .. m
        BY <1>5, <2>3, <2>4, <3>3, <4>3 DEF m, N
      <4> QED
        BY <4>1, <4>2, <4>3
    <3> QED
      BY <2>1, <3>1, <3>2, <3>3
  <2> QED
    BY <1>2, <2>3, <2>4, <2>5, <2>6
<1> QED
  BY <1>12, <1>13 DEF InOrder

(* Else blocks stay apart when links are only taken away.                  *)
LEMMA ApartKept ==
  ASSUME NEW E, NEW bs \in Seq(BlockOf(E)), NEW cs, NEW e, GraphInv(bs, e), Apart(bs),
         Len(cs) = Len(bs), \A x \in 1 .. Len(bs) : cs[x].els = bs[x].els,
         \A x \in 1 .. Len(bs) : \A k \in 1 .. Len(cs[x].inner) :
           k \in 1 .. Len(bs[x].inner) /\ cs[x].inner[k] = bs[x].inner[k]
  PROVE  Apart(cs)
<1> SUFFICES ASSUME NEW c \in 1 .. Len(bs), cs[c].els # Null
             PROVE  /\ cs[cs[c].els].els = Null
                    /\ \A x \in 1 .. Len(bs) : cs[x].els = cs[c].els => x = c
                    /\ \A x \in 1 .. Len(bs) : \A k \in 1 .. Len(cs[x].inner) :
                         cs[x].inner[k] # cs[c].els
  BY DEF Apart
<1>1. cs[c].els = bs[c].els /\ bs[c].els # Null
  OBVIOUS
<1>2. bs[c].els \in 1 .. Len(bs)
  BY <1>1, LinksIn
<1>3. /\ bs[bs[c].els].els = Null
      /\ \A x \in 1 .. Len(bs) : bs[x].els = bs[c].els => x = c
      /\ \A x \in 1 .. Len(bs) : \A k \in 1 .. Len(bs[x].inner) : bs[x].inner[k] # bs[c].els
  BY <1>1 DEF Apart
<1>4. cs[cs[c].els].els = Null
  BY <1>1, <1>2, <1>3
<1>5. ASSUME NEW x \in 1 .. Len(bs), cs[x].els = cs[c].els PROVE x = c
  BY <1>1, <1>3, <1>5
<1>6. ASSUME NEW x \in 1 .. Len(bs), NEW k \in 1 .. Len(cs[x].inner) PROVE cs[x].inner[k] # cs[c].els
  <2>1. k \in 1 .. Len(bs[x].inner) /\ cs[x].inner[k] = bs[x].inner[k]
    OBVIOUS
  <2> QED
    BY <1>1, <1>3, <2>1
<1> QED
  BY <1>4, <1>5, <1>6

(* Giving a block its condition leaves the events where they are.          *)
LEMMA ConditionedOrder ==
  ASSUME NEW E, NEW bs \in Seq(BlockOf(E)), NEW cs, NEW e, GraphInv(bs, e),
         NEW b, NEW lit, Conditioned(bs, cs, b, lit), NEW n, InOrder(bs, n)
  PROVE  InOrder(cs, n)
<1> DEFINE N == Len(bs)
<1>1. PICK lo, hi : Numbered(bs, lo, hi, n)
  BY DEF InOrder
<1>2. /\ Len(cs) = N
      /\ \A x \in 1 .. N : /\ cs[x].els = bs[x].els /\ cs[x].body = bs[x].body
                           /\ cs[x].inner = bs[x].inner
  BY DEF Conditioned
<1>3. \A x \in 1 .. N : /\ bs[x].els # Null => bs[x].els \in 1 .. N
                        /\ Len(bs[x].inner) \in Nat
                        /\ \A k \in 1 .. Len(bs[x].inner) : bs[x].inner[k] \in 1 .. N
  BY LinksIn
<1>4. ASSUME NEW x \in 1 .. N PROVE EndOf(cs, hi, x) = EndOf(bs, hi, x)
  BY <1>2 DEF EndOf
<1> HIDE DEF N
<1>5. ASSUME NEW x \in 1 .. N, NEW k \in 1 .. Len(bs[x].inner) + 1
      PROVE  StartOf(cs, lo, hi, x, k) = StartOf(bs, lo, hi, x, k)
  <2>1. k # 1 => k - 1 \in 1 .. Len(bs[x].inner)
    BY <1>3
  <2>2. k # 1 => /\ cs[x].inner[k - 1] = bs[x].inner[k - 1]
                 /\ EndOf(cs, hi, bs[x].inner[k - 1]) = EndOf(bs, hi, bs[x].inner[k - 1])
    BY <1>2, <1>3, <1>4, <2>1
  <2>3. k = 1 => lo[x] = lo[x] /\ cs[x].body = bs[x].body
    BY <1>2
  <2> QED
    BY <2>2, <2>3, StartSame
<1>6. ASSUME NEW x \in 1 .. N PROVE NumberedAt(cs, lo, hi, x)
  <2>1. NumberedAt(bs, lo, hi, x)
    BY <1>1 DEF Numbered, N
  <2>2. /\ Len(bs[x].inner) + 1 \in 1 .. Len(bs[x].inner) + 1
        /\ \A k \in 1 .. Len(bs[x].inner) : k \in 1 .. Len(bs[x].inner) + 1
    BY <1>3
  <2> QED
    BY <1>2, <1>5, <2>1, <2>2 DEF NumberedAt
<1>7. Numbered(cs, lo, hi, n)
  BY <1>1, <1>2, <1>6 DEF Numbered
<1>8. Apart(cs)
  BY <1>2, ApartKept DEF InOrder, N
<1> QED
  BY <1>7, <1>8 DEF InOrder

(* Unlinking an empty block, the last one of block b.                      *)
LEMMA UnlinkedOrder ==
  ASSUME NEW E, NEW bs \in Seq(BlockOf(E)), NEW cs \in Seq(BlockOf(E)), NEW e, GraphInv(bs, e),
         NEW b \in 1 .. Len(bs), Unlinked(bs, cs, b), NEW n, InOrder(bs, n),
         bs[b].inner # <<>>, bs[Last(bs[b].inner)].body = <<>>,
         bs[Last(bs[b].inner)].inner = <<>>, bs[Last(bs[b].inner)].els = Null
  PROVE  InOrder(cs, n)
<1> DEFINE N == Len(bs)
           m == Len(bs[b].inner)
           last == bs[b].inner[m]
<1>1. PICK lo, hi : Numbered(bs, lo, hi, n)
  BY DEF InOrder
<1>2. /\ Len(cs) = N
      /\ \A x \in 1 .. N : cs[x].els = bs[x].els /\ cs[x].body = bs[x].body
      /\ \A x \in 1 .. N : x # b => cs[x].inner = bs[x].inner
      /\ cs[b].inner = Front(bs[b].inner)
  BY DEF Unlinked, Kept
<1>3. \A x \in 1 .. N : /\ bs[x].els # Null => bs[x].els \in 1 .. N
                        /\ bs[x].inner \in Seq(Nat) /\ Len(bs[x].inner) \in Nat
                        /\ \A k \in 1 .. Len(bs[x].inner) : bs[x].inner[k] \in 1 .. N
  BY LinksIn
<1>4. /\ m \in Nat \ {0} /\ Len(cs[b].inner) = m - 1
      /\ \A k \in 1 .. m - 1 : cs[b].inner[k] = bs[b].inner[k]
  <2> DEFINE q == bs[b].inner
  <2>1. m \in Nat \ {0} /\ q \in Seq(Nat) /\ q # <<>>
    BY <1>3, EmptyFacts
  <2>2. Len(Front(q)) = Len(q) - 1 /\ \A k \in 1 .. Len(q) - 1 : Front(q)[k] = q[k]
    <3> HIDE DEF q
    <3> QED
      BY <2>1, FrontFacts
  <2> QED
    BY <1>2, <2>1, <2>2
<1>5. /\ bs[last].body = <<>> /\ bs[last].inner = <<>> /\ bs[last].els = Null
      /\ last \in 1 .. N
  <2>1. m \in 1 .. m /\ last = Last(bs[b].inner)
    BY <1>4 DEF Last
  <2> QED
    BY <1>3, <2>1
<1>6. ASSUME NEW x \in 1 .. N
      PROVE  /\ Len(cs[x].inner) \in Nat /\ Len(cs[x].inner) <= Len(bs[x].inner)
             /\ \A k \in 1 .. Len(cs[x].inner) :
                  k \in 1 .. Len(bs[x].inner) /\ cs[x].inner[k] = bs[x].inner[k]
  <2>1. CASE x = b
    BY <1>4, <2>1
  <2>2. CASE x # b
    BY <1>2, <1>3, <2>2
  <2> QED
    BY <2>1, <2>2
<1> HIDE DEF N, m, last
<1>7. \A x \in 1 .. N : EndOf(cs, hi, x) = EndOf(bs, hi, x)
  BY <1>2 DEF EndOf
<1>8. ASSUME NEW x \in 1 .. N, NEW k \in 1 .. Len(cs[x].inner) + 1
      PROVE  StartOf(cs, lo, hi, x, k) = StartOf(bs, lo, hi, x, k)
  <2>1. k # 1 => k - 1 \in 1 .. Len(cs[x].inner)
    BY <1>6
  <2>2. k # 1 => /\ cs[x].inner[k - 1] = bs[x].inner[k - 1]
                 /\ EndOf(cs, hi, bs[x].inner[k - 1]) = EndOf(bs, hi, bs[x].inner[k - 1])
    BY <1>3, <1>6, <1>7, <2>1
  <2> QED
    BY <1>2, <2>2, StartSame
<1>9. \A x \in 1 .. N : NumberedAt(bs, lo, hi, x)
  BY <1>1 DEF Numbered, N
<1>10. hi[b] = StartOf(bs, lo, hi, b, m)
  <2>1. hi[b] = StartOf(bs, lo, hi, b, m + 1) /\ lo[last] = StartOf(bs, lo, hi, b, m)
    <3>1. NumberedAt(bs, lo, hi, b) /\ m \in 1 .. m
      BY <1>4, <1>9 DEF N
    <3> QED
      BY <3>1 DEF NumberedAt, m, last
  <2>2. StartOf(bs, lo, hi, b, m + 1) = hi[last]
    <3>1. m + 1 # 1 /\ (m + 1) - 1 = m
      BY <1>4
    <3> QED
      BY <1>5, <3>1 DEF StartOf, EndOf, last
  <2>3. hi[last] = lo[last]
    <3>1. NumberedAt(bs, lo, hi, last)
      BY <1>5, <1>9
    <3>2. hi[last] = StartOf(bs, lo, hi, last, 0 + 1) /\ lo[last] \in Nat
      BY <1>5, <3>1 DEF NumberedAt
    <3> QED
      BY <1>5, <3>2 DEF StartOf
  <2> QED
    BY <2>1, <2>2, <2>3
<1>11. ASSUME NEW x \in 1 .. N PROVE NumberedAt(cs, lo, hi, x)
  <2>1. NumberedAt(bs, lo, hi, x)
    BY <1>9
  <2>2. /\ lo[x] \in Nat /\ hi[x] \in Nat
        /\ \A i \in 1 .. Len(cs[x].body) : cs[x].body[i].id = lo[x] + i
        /\ cs[x].els # Null => lo[cs[x].els] = hi[x]
    BY <1>2, <2>1 DEF NumberedAt
  <2>3. ASSUME NEW k \in 1 .. Len(cs[x].inner)
        PROVE  lo[cs[x].inner[k]] = StartOf(cs, lo, hi, x, k)
    <3>1. k \in 1 .. Len(cs[x].inner) + 1
      BY <1>6
    <3>2. lo[bs[x].inner[k]] = StartOf(bs, lo, hi, x, k)
      BY <1>6, <2>1 DEF NumberedAt
    <3> QED
      BY <1>6, <1>8, <3>1, <3>2
  <2>4. hi[x] = StartOf(cs, lo, hi, x, Len(cs[x].inner) + 1)
    <3>1. Len(cs[x].inner) + 1 \in 1 .. Len(cs[x].inner) + 1
      BY <1>6
    <3>2. StartOf(cs, lo, hi, x, Len(cs[x].inner) + 1) = StartOf(bs, lo, hi, x, Len(cs[x].inner) + 1)
      BY <1>8, <3>1
    <3>3. CASE x = b
      <4>1. Len(cs[x].inner) + 1 = m
        BY <1>4, <3>3
      <4> QED
        BY <1>10, <3>2, <3>3, <4>1
    <3>4. CASE x # b
      BY <1>2, <2>1, <3>2, <3>4 DEF NumberedAt
    <3> QED
      BY <3>3, <3>4
  <2> QED
    BY <2>2, <2>3, <2>4 DEF NumberedAt
<1>12. Numbered(cs, lo, hi, n)
  BY <1>1, <1>2, <1>11 DEF Numbered
<1>13. Apart(cs)
  BY <1>2, <1>6, ApartKept DEF InOrder, N
<1> QED
  BY <1>12, <1>13 DEF InOrder

(* A new empty block as the else block of block b.                         *)
LEMMA ElseAddedOrder ==
  ASSUME NEW E, NEW bs \in Seq(BlockOf(E)), NEW cs \in Seq(BlockOf(E)), NEW e, GraphInv(bs, e),
         NEW b \in 1 .. Len(bs), ElseAdded(bs, cs, b), NEW n, InOrder(bs, n),
         bs[b].els = Null, \A c \in 1 .. Len(bs) : bs[c].els # b
  PROVE  InOrder(cs, n)
<1> DEFINE N == Len(bs)
<1>1. PICK lo, hi : Numbered(bs, lo, hi, n)
  BY DEF InOrder
<1> DEFINE lp == [x \in 1 .. N + 1 |-> IF x = N + 1 THEN hi[b] ELSE lo[x]]
           hp == [x \in 1 .. N + 1 |-> IF x = N + 1 THEN hi[b] ELSE hi[x]]
<1>2. /\ N \in Nat /\ Len(cs) = N + 1
      /\ cs[N + 1].body = <<>> /\ cs[N + 1].inner = <<>> /\ cs[N + 1].els = Null
      /\ \A x \in 1 .. N : cs[x].inner = bs[x].inner /\ cs[x].body = bs[x].body
      /\ \A x \in 1 .. N : x # b => cs[x].els = bs[x].els
      /\ cs[b].els = N + 1
  BY DEF ElseAdded, Block
<1>3. /\ \A x \in 1 .. N : lp[x] = lo[x] /\ hp[x] = hi[x]
      /\ lp[N + 1] = hi[b] /\ hp[N + 1] = hi[b]
  BY <1>2
<1> HIDE DEF lp, hp
<1>4. \A x \in 1 .. N : /\ bs[x].els # Null => bs[x].els \in 1 .. N
                        /\ bs[x].inner \in Seq(Nat) /\ Len(bs[x].inner) \in Nat
                        /\ \A k \in 1 .. Len(bs[x].inner) : bs[x].inner[k] \in 1 .. N
  BY LinksIn
<1> HIDE DEF N
<1>5. N + 1 # Null /\ \A x \in 1 .. N : x # N + 1
  BY <1>2 DEF Null
<1>6. ASSUME NEW x \in 1 .. N PROVE EndOf(cs, hp, x) = EndOf(bs, hi, x)
  <2>1. CASE x = b
    BY <1>2, <1>3, <1>5, <2>1 DEF EndOf
  <2>2. CASE x # b
    BY <1>2, <1>3, <1>4, <2>2 DEF EndOf
  <2> QED
    BY <2>1, <2>2
<1>7. ASSUME NEW x \in 1 .. N, NEW k \in 1 .. Len(bs[x].inner) + 1
      PROVE  StartOf(cs, lp, hp, x, k) = StartOf(bs, lo, hi, x, k)
  <2>1. k # 1 => k - 1 \in 1 .. Len(bs[x].inner)
    BY <1>4
  <2>2. k # 1 => /\ cs[x].inner[k - 1] = bs[x].inner[k - 1]
                 /\ EndOf(cs, hp, bs[x].inner[k - 1]) = EndOf(bs, hi, bs[x].inner[k - 1])
    BY <1>2, <1>4, <1>6, <2>1
  <2>3. k = 1 => lp[x] = lo[x] /\ cs[x].body = bs[x].body
    BY <1>2, <1>3
  <2> QED
    BY <2>2, <2>3, StartSame
<1>8. \A x \in 1 .. N : NumberedAt(bs, lo, hi, x)
  BY <1>1 DEF Numbered, N
<1>9. ASSUME NEW x \in 1 .. N PROVE NumberedAt(cs, lp, hp, x)
  <2>1. NumberedAt(bs, lo, hi, x)
    BY <1>8
  <2>2. /\ lp[x] \in Nat /\ hp[x] \in Nat
        /\ \A i \in 1 .. Len(cs[x].body) : cs[x].body[i].id = lp[x] + i
    BY <1>2, <1>3, <2>1 DEF NumberedAt
  <2>3. ASSUME NEW k \in 1 .. Len(bs[x].inner)
        PROVE  lp[cs[x].inner[k]] = StartOf(cs, lp, hp, x, k)
    <3>1. k \in 1 .. Len(bs[x].inner) + 1
      BY <1>4
    <3>2. lo[bs[x].inner[k]] = StartOf(bs, lo, hi, x, k)
      BY <2>1 DEF NumberedAt
    <3> QED
      BY <1>2, <1>3, <1>4, <1>7, <3>1, <3>2
  <2>4. hp[x] = StartOf(cs, lp, hp, x, Len(bs[x].inner) + 1)
    <3>1. Len(bs[x].inner) + 1 \in 1 .. Len(bs[x].inner) + 1
      BY <1>4
    <3>2. hi[x] = StartOf(bs, lo, hi, x, Len(bs[x].inner) + 1)
      BY <2>1 DEF NumberedAt
    <3> QED
      BY <1>3, <1>7, <3>1, <3>2
  <2>5. cs[x].els # Null => lp[cs[x].els] = hp[x]
    <3>1. CASE x = b
      BY <1>2, <1>3, <3>1
    <3>2. CASE x # b
      BY <1>2, <1>3, <1>4, <2>1, <3>2 DEF NumberedAt
    <3> QED
      BY <3>1, <3>2
  <2> QED
    BY <1>2, <2>2, <2>3, <2>4, <2>5 DEF NumberedAt
<1>10. NumberedAt(cs, lp, hp, N + 1)
  <2>1. hi[b] \in Nat
    BY <1>8 DEF NumberedAt, N
  <2>2. StartOf(cs, lp, hp, N + 1, 0 + 1) = hi[b]
    BY <1>2, <1>3, <2>1 DEF StartOf
  <2> QED
    BY <1>2, <1>3, <2>1, <2>2 DEF NumberedAt
<1>11. \A x \in 1 .. N + 1 : x \in 1 .. N \/ x = N + 1
  BY <1>2
<1>12. Numbered(cs, lp, hp, n)
  <2>1. Root \in 1 .. N
    BY DEF N, GraphInv, OuterMost, Root
  <2> QED
    BY <1>1, <1>2, <1>3, <1>9, <1>10, <1>11, <2>1 DEF Numbered
<1>13. Apart(cs)
  <2> SUFFICES ASSUME NEW c \in 1 .. N + 1, cs[c].els # Null
               PROVE  /\ cs[cs[c].els].els = Null
                      /\ \A x \in 1 .. N + 1 : cs[x].els = cs[c].els => x = c
                      /\ \A x \in 1 .. N + 1 : \A k \in 1 .. Len(cs[x].inner) :
                           cs[x].inner[k] # cs[c].els
    BY <1>2 DEF Apart
  <2>1. c \in 1 .. N
    BY <1>2, <1>11
  <2>2. CASE c = b
    <3>1. cs[c].els = N + 1
      BY <1>2, <2>2
    <3>2. ASSUME NEW x \in 1 .. N + 1, x # b PROVE cs[x].els # N + 1
      BY <1>2, <1>4, <1>5, <1>11, <3>2
    <3>3. ASSUME NEW x \in 1 .. N + 1, NEW k \in 1 .. Len(cs[x].inner) PROVE cs[x].inner[k] # N + 1
      <4>1. CASE x = N + 1
        BY <1>2, <4>1
      <4>2. CASE x \in 1 .. N
        <5>1. cs[x].inner[k] \in 1 .. N
          BY <1>2, <1>4, <4>2
        <5> QED
          BY <1>5, <5>1
      <4> QED
        BY <1>11, <4>1, <4>2
    <3> QED
      BY <1>2, <2>2, <3>1, <3>2, <3>3
  <2>3. CASE c # b
    <3>1. cs[c].els = bs[c].els /\ bs[c].els \in 1 .. N /\ bs[c].els # b
      BY <1>2, <1>4, <2>1, <2>3 DEF N
    <3>2. /\ bs[bs[c].els].els = Null
          /\ \A x \in 1 .. N : bs[x].els = bs[c].els => x = c
          /\ \A x \in 1 .. N : \A k \in 1 .. Len(bs[x].inner) : bs[x].inner[k] # bs[c].els
      BY <2>1, <3>1 DEF InOrder, Apart, N
    <3>3. ASSUME NEW x \in 1 .. N + 1, cs[x].els = cs[c].els PROVE x = c
      <4>1. x # N + 1 /\ x # b
        BY <1>2, <1>5, <3>1, <3>3
      <4> QED
        BY <1>2, <1>11, <3>1, <3>2, <3>3, <4>1
    <3>4. ASSUME NEW x \in 1 .. N + 1, NEW k \in 1 .. Len(cs[x].inner) PROVE cs[x].inner[k] # cs[c].els
      <4>1. CASE x = N + 1
        BY <1>2, <4>1
      <4>2. CASE x \in 1 .. N
        BY <1>2, <3>1, <3>2, <4>2
      <4> QED
        BY <1>11, <4>1, <4>2
    <3> QED
      BY <1>2, <3>1, <3>2, <3>3, <3>4
  <2> QED
    BY <2>2, <2>3
<1> QED
  BY <1>12, <1>13 DEF InOrder

-----------------------------------------------------------------------------
(* The blocks that what is recorded next is the last in: from the most     *)
(* outer block to the current one, e, by the last branch of each.          *)
Tip(bs, i) == IF bs[i].els = Null THEN i ELSE bs[i].els

LastTip(bs, b) == Tip(bs, Last(bs[b].inner))

Spine(bs, e, C) ==
  /\ C \subseteq 1 .. Len(bs) /\ Root \in C /\ e \in C
  /\ bs[e].inner = <<>>
  /\ \A x \in C : bs[x].els = Null
  /\ \A x \in C : x # Root => /\ bs[x].outer \in C
                              /\ bs[bs[x].outer].inner # <<>>
                              /\ LastTip(bs, bs[x].outer) = x
  /\ \A x \in C : x # e => bs[x].inner # <<>> /\ LastTip(bs, x) \in C

(* An inner block or its else block is in the spine only if it is the last.*)
LEMMA SpineTips ==
  ASSUME NEW E, NEW bs \in Seq(BlockOf(E)), NEW e, GraphInv(bs, e), Apart(bs),
         NEW C, Spine(bs, e, C), NEW b \in 1 .. Len(bs), NEW k \in 1 .. Len(bs[b].inner)
  PROVE  Tip(bs, bs[b].inner[k]) \in C <=> b \in C /\ k = Len(bs[b].inner)
<1> DEFINE i == bs[b].inner[k]
           m == Len(bs[b].inner)
           last == bs[b].inner[m]
<1>1. m \in Nat /\ m \in 1 .. m
  BY LinksIn
<1>2. /\ i \in 2 .. Len(bs) /\ bs[i].outer = b
      /\ last \in 2 .. Len(bs)
      /\ i = last => k = m
  <2>1. InnerOf(bs, e, b, bs[b].inner)
    BY DEF GraphInv
  <2>2. Inside(bs, e, b, i) /\ Inside(bs, e, b, last)
    BY <1>1, <2>1 DEF InnerOf
  <2>3. k # m => i < last
    <3> SUFFICES ASSUME k # m PROVE i < last
      OBVIOUS
    <3>1. k \in 1 .. m - 1
      BY <1>1
    <3> QED
      BY <1>1, <2>1, <3>1 DEF InnerOf
  <2> QED
    BY <2>2, <2>3 DEF Inside
<1>3. LastTip(bs, b) = Tip(bs, last)
  BY DEF LastTip, Last
<1> HIDE DEF i, last, m
<1>4. ASSUME Tip(bs, i) \in C PROVE b \in C /\ k = m
  <2>1. Tip(bs, i) # Root /\ bs[Tip(bs, i)].outer = b
    <3>1. CASE bs[i].els = Null
      BY <1>2, <3>1 DEF Tip, Root
    <3>2. CASE bs[i].els # Null
      <4>1. ElseBeside(bs, i)
        BY <1>2 DEF GraphInv
      <4>2. bs[i].els \in i + 1 .. Len(bs) /\ bs[bs[i].els].outer = bs[i].outer
        BY <3>2, <4>1 DEF ElseBeside
      <4> QED
        BY <1>2, <3>2, <4>2 DEF Tip, Root
    <3> QED
      BY <3>1, <3>2
  <2>2. b \in C /\ Tip(bs, last) = Tip(bs, i)
    BY <1>3, <1>4, <2>1 DEF Spine
  <2>3. i = last
    <3>1. i \in 1 .. Len(bs) /\ last \in 1 .. Len(bs)
      BY <1>2
    <3>2. bs[i].els # Null => last # bs[i].els /\ (bs[last].els = bs[i].els => last = i)
      <4>1. bs[b].inner[m] = last
        BY DEF last
      <4> QED
        BY <1>1, <3>1, <4>1 DEF Apart, m
    <3>3. bs[last].els # Null => i # bs[last].els
      <4>1. bs[b].inner[k] = i
        BY DEF i
      <4> QED
        BY <1>1, <3>1, <4>1 DEF Apart
    <3> QED
      BY <2>2, <3>2, <3>3 DEF Tip
  <2> QED
    BY <1>2, <2>2, <2>3
<1>5. ASSUME b \in C, k = m PROVE Tip(bs, i) \in C
  <2>1. bs[b].inner # <<>>
    <3>1. m # 0
      BY <1>1
    <3> QED
      BY <3>1 DEF m
  <2>2. b # e
    BY <2>1 DEF Spine
  <2>3. i = last
    BY <1>5 DEF i, last
  <2> QED
    BY <1>3, <1>5, <2>2, <2>3 DEF Spine
<1> QED
  BY <1>4, <1>5 DEF i, m

(* All blocks of the spine end with the last event.                        *)
LEMMA SpineEnds ==
  ASSUME NEW E, NEW bs \in Seq(BlockOf(E)), NEW e, GraphInv(bs, e), NEW C, Spine(bs, e, C),
         NEW lo, NEW hi, NEW n, Numbered(bs, lo, hi, n)
  PROVE  \A x \in C : hi[x] = n
<1> DEFINE good == { j \in Nat : \A x \in C : x <= j => hi[x] = n }
<1>1. Len(bs) \in Nat /\ \A x \in C : x \in 1 .. Len(bs)
  BY DEF Spine
<1>2. 0 \in good
  BY <1>1
<1>3. ASSUME NEW j \in Nat, j \in good PROVE j + 1 \in good
  <2>1. j + 1 \in Nat
    OBVIOUS
  <2> SUFFICES ASSUME NEW x \in C, x <= j + 1 PROVE hi[x] = n
    BY <2>1
  <2>2. CASE x = Root
    BY <2>2 DEF Numbered
  <2>3. CASE x # Root
    <3> DEFINE b == bs[x].outer
               m == Len(bs[b].inner)
               last == bs[b].inner[m]
    <3>1. b \in C /\ bs[b].inner # <<>> /\ LastTip(bs, b) = x
      BY <2>3 DEF Spine
    <3>2. b \in 1 .. Len(bs) /\ b <= j
      <4>1. x \in 2 .. Len(bs)
        BY <1>1, <2>3 DEF Root
      <4>2. Lies(bs, x)
        BY <4>1 DEF GraphInv
      <4> QED
        BY <1>1, <3>1, <4>1, <4>2 DEF Lies
    <3>3. hi[b] = n
      BY <1>3, <3>1, <3>2
    <3>4. NumberedAt(bs, lo, hi, b)
      BY <3>2 DEF Numbered
    <3> HIDE DEF b
    <3>5. m \in Nat /\ m # 0
      BY <3>1, <3>2, LinksIn, EmptyFacts
    <3>6. hi[b] = EndOf(bs, hi, last)
      <4>1. m + 1 # 1 /\ (m + 1) - 1 = m
        BY <3>5
      <4> QED
        BY <3>4, <4>1 DEF NumberedAt, StartOf
    <3>7. EndOf(bs, hi, last) = hi[x]
      <4>1. Tip(bs, last) = x
        BY <3>1 DEF LastTip, Last
      <4> HIDE DEF last
      <4> QED
        BY <4>1 DEF Tip, EndOf
    <3> QED
      BY <3>3, <3>6, <3>7
  <2> QED
    BY <2>2, <2>3
<1>4. \A j \in Nat : j \in good
  <2> HIDE DEF good
  <2> QED BY <1>2, <1>3, SetInduction
<1> QED
  BY <1>1, <1>4

(* Recording the next events in the current block.                         *)
LEMMA WrittenOrder ==
  ASSUME NEW E, NEW bs \in Seq(BlockOf(E)), NEW cs \in Seq(BlockOf(E)), NEW e, GraphInv(bs, e),
         NEW C, Spine(bs, e, C), NEW es \in Seq(E), Written(bs, cs, e, es),
         NEW n \in Nat, InOrder(bs, n), \A i \in 1 .. Len(es) : es[i].id = n + i
  PROVE  InOrder(cs, n + Len(es))
<1> DEFINE N == Len(bs)
           l == Len(es)
<1>1. PICK lo, hi : Numbered(bs, lo, hi, n)
  BY DEF InOrder
<1> DEFINE hp == [x \in 1 .. N |-> IF x \in C THEN hi[x] + l ELSE hi[x]]
<1>2. /\ N \in Nat /\ Len(cs) = N /\ l \in Nat
      /\ \A x \in 1 .. N : cs[x].els = bs[x].els /\ cs[x].inner = bs[x].inner
      /\ \A x \in 1 .. N : x # e => cs[x].body = bs[x].body
      /\ cs[e].body = bs[e].body \o es
  BY DEF Written, Kept
<1>3. \A x \in 1 .. N : /\ bs[x].els # Null => bs[x].els \in 1 .. N
                        /\ bs[x].inner \in Seq(Nat) /\ Len(bs[x].inner) \in Nat
                        /\ \A k \in 1 .. Len(bs[x].inner) : bs[x].inner[k] \in 1 .. N
  BY LinksIn
<1>4. /\ e \in 1 .. N /\ e \in C /\ bs[e].inner = <<>>
      /\ \A x \in 1 .. N : x \in C => bs[x].els = Null
      /\ \A x \in 1 .. N : x \in C /\ x # e => bs[x].inner # <<>>
  BY DEF Spine
<1>5. /\ \A x \in 1 .. N : NumberedAt(bs, lo, hi, x)
      /\ \A x \in 1 .. N : lo[x] \in Nat /\ hi[x] \in Nat
      /\ \A x \in C : hi[x] = n
      /\ lo[Root] = 0 /\ Root \in 1 .. N /\ Root \in C
  <2>1. \A x \in 1 .. N : NumberedAt(bs, lo, hi, x)
    BY <1>1 DEF Numbered
  <2>2. \A x \in C : hi[x] = n
    BY <1>1, SpineEnds
  <2>3. Root \in C /\ Root \in 1 .. N /\ lo[Root] = 0
    BY <1>1 DEF Spine, Numbered
  <2>4. \A x \in 1 .. N : lo[x] \in Nat /\ hi[x] \in Nat
    BY <2>1 DEF NumberedAt
  <2> HIDE DEF N
  <2> QED
    BY <2>1, <2>2, <2>3, <2>4
<1>6. ASSUME NEW x \in 1 .. N, NEW k \in 1 .. Len(bs[x].inner)
      PROVE  Tip(bs, bs[x].inner[k]) \in C <=> x \in C /\ k = Len(bs[x].inner)
  BY SpineTips DEF InOrder
<1>7. ASSUME NEW x \in 1 .. N
      PROVE  hp[x] = IF x \in C THEN hi[x] + l ELSE hi[x]
  OBVIOUS
<1> HIDE DEF N, l, hp
<1>8. ASSUME NEW i \in 1 .. N
      PROVE  EndOf(cs, hp, i) = IF Tip(bs, i) \in C THEN EndOf(bs, hi, i) + l ELSE EndOf(bs, hi, i)
  <2>1. CASE bs[i].els = Null
    BY <1>2, <1>7, <2>1 DEF EndOf, Tip
  <2>2. CASE bs[i].els # Null
    <3>1. bs[i].els \in 1 .. N
      BY <1>3, <2>2
    <3> QED
      BY <1>2, <1>7, <2>2, <3>1 DEF EndOf, Tip
  <2> QED
    BY <2>1, <2>2
<1>9. ASSUME NEW x \in 1 .. N, NEW k \in 1 .. Len(bs[x].inner)
      PROVE  StartOf(cs, lo, hp, x, k) = StartOf(bs, lo, hi, x, k)
  <2>1. x # e
    BY <1>4
  <2>2. k = 1 => cs[x].body = bs[x].body
    BY <1>2, <2>1
  <2>3. k # 1 => /\ cs[x].inner[k - 1] = bs[x].inner[k - 1]
                 /\ EndOf(cs, hp, bs[x].inner[k - 1]) = EndOf(bs, hi, bs[x].inner[k - 1])
    <3> SUFFICES ASSUME k # 1 
                 PROVE  EndOf(cs, hp, bs[x].inner[k - 1]) = EndOf(bs, hi, bs[x].inner[k - 1])
      BY <1>2
    <3>1. k - 1 \in 1 .. Len(bs[x].inner) /\ k - 1 # Len(bs[x].inner)
      BY <1>3
    <3>2. bs[x].inner[k - 1] \in 1 .. N /\ Tip(bs, bs[x].inner[k - 1]) \notin C
      BY <1>3, <1>6, <3>1
    <3> QED
      BY <1>8, <3>2
  <2> QED
    BY <1>2, <2>2, <2>3 DEF StartOf
<1>10. n = lo[e] + Len(bs[e].body)
  <2>1. NumberedAt(bs, lo, hi, e) /\ hi[e] = n
    BY <1>4, <1>5
  <2>2. hi[e] = StartOf(bs, lo, hi, e, 0 + 1)
    BY <1>4, <2>1 DEF NumberedAt
  <2> QED
    BY <2>1, <2>2 DEF StartOf
<1>11. bs[e].body \in Seq(E) /\ cs[e].body \in Seq(E) /\ Len(bs[e].body) \in Nat
       /\ Len(cs[e].body) = Len(bs[e].body) + l
       /\ \A i \in 1 .. Len(bs[e].body) + l :
            cs[e].body[i] = IF i <= Len(bs[e].body) THEN bs[e].body[i] ELSE es[i - Len(bs[e].body)]
  <2>1. bs[e].body \in Seq(E)
    BY <1>4, FieldTypes DEF N
  <2> DEFINE q == bs[e].body
  <2>2. /\ q \o es \in Seq(E) /\ Len(q) \in Nat /\ Len(q \o es) = Len(q) + Len(es)
        /\ \A i \in 1 .. Len(q) + Len(es) :
             (q \o es)[i] = IF i <= Len(q) THEN q[i] ELSE es[i - Len(q)]
    <3> HIDE DEF q
    <3> QED
      BY <2>1 DEF q
  <2> QED
    BY <1>2, <2>1, <2>2 DEF l
<1>12. ASSUME NEW x \in 1 .. N PROVE NumberedAt(cs, lo, hp, x)
  <2>1. NumberedAt(bs, lo, hi, x)
    BY <1>5
  <2>2. lo[x] \in Nat /\ hp[x] \in Nat
    <3>1. lo[x] \in Nat /\ hi[x] \in Nat /\ hi[x] + l \in Nat
      BY <1>2, <1>5
    <3> QED
      BY <1>7, <3>1
  <2>3. ASSUME NEW i \in 1 .. Len(cs[x].body) PROVE cs[x].body[i].id = lo[x] + i
    <3>1. CASE x # e
      BY <1>2, <2>1, <3>1 DEF NumberedAt
    <3>2. CASE x = e
      <4>1. CASE i <= Len(bs[e].body)
        <5>1. i \in 1 .. Len(bs[e].body) /\ cs[e].body[i] = bs[e].body[i]
          BY <1>2, <1>11, <3>2, <4>1
        <5> QED
          BY <2>1, <3>2, <5>1 DEF NumberedAt
      <4>2. CASE ~(i <= Len(bs[e].body))
        <5> DEFINE j == i - Len(bs[e].body)
        <5>1. j \in 1 .. l /\ cs[e].body[i] = es[j]
          BY <1>2, <1>11, <3>2, <4>2
        <5>2. es[j].id = n + j
          BY <5>1 DEF l
        <5>3. n + j = lo[e] + i
          BY <1>5, <1>4, <1>10, <1>11, <2>2, <3>2
        <5> QED
          BY <3>2, <5>1, <5>2, <5>3
      <4> QED
        BY <4>1, <4>2
    <3> QED
      BY <3>1, <3>2
  <2>4. ASSUME NEW k \in 1 .. Len(cs[x].inner) PROVE lo[cs[x].inner[k]] = StartOf(cs, lo, hp, x, k)
    BY <1>2, <1>9, <2>1 DEF NumberedAt
  <2>5. hp[x] = StartOf(cs, lo, hp, x, Len(cs[x].inner) + 1)
    <3> DEFINE m == Len(bs[x].inner)
    <3>1. m \in Nat /\ hi[x] = StartOf(bs, lo, hi, x, m + 1) /\ Len(cs[x].inner) = m
      BY <1>2, <1>3, <2>1 DEF NumberedAt
    <3>2. CASE x = e
      <4>1. m = 0
        BY <1>4, <3>2
      <4>2. StartOf(cs, lo, hp, x, 0 + 1) = lo[e] + Len(cs[e].body)
        BY <3>2 DEF StartOf
      <4>3. hp[x] = n + l
        BY <1>4, <1>5, <1>7, <3>2
      <4>4. lo[e] \in Nat
        BY <1>4, <1>5
      <4>5. lo[e] + Len(cs[e].body) = n + l
        BY <1>2, <1>10, <1>11, <4>4
      <4> QED
        BY <3>1, <4>1, <4>2, <4>3, <4>5
    <3>3. CASE x # e /\ m = 0
      <4>1. x \notin C
        <5>1. bs[x].inner = <<>>
          BY <1>3, <3>3, EmptyFacts
        <5> QED
          BY <1>4, <3>3, <5>1
      <4>2. StartOf(cs, lo, hp, x, 0 + 1) = StartOf(bs, lo, hi, x, 0 + 1)
        BY <1>2, <3>3 DEF StartOf
      <4> QED
        BY <1>7, <3>1, <3>3, <4>1, <4>2
    <3>4. CASE x # e /\ m # 0
      <4> DEFINE last == bs[x].inner[m]
      <4>1. m \in 1 .. m /\ m + 1 # 1 /\ (m + 1) - 1 = m
        BY <3>1, <3>4
      <4>2. last \in 1 .. N /\ (Tip(bs, last) \in C <=> x \in C)
        BY <1>3, <1>6, <4>1
      <4>3. StartOf(cs, lo, hp, x, m + 1) = EndOf(cs, hp, last)
            /\ StartOf(bs, lo, hi, x, m + 1) = EndOf(bs, hi, last)
        BY <1>2, <4>1 DEF StartOf
      <4> HIDE DEF last, m
      <4> QED
        BY <1>7, <1>8, <3>1, <4>2, <4>3
    <3> QED
      BY <3>2, <3>3, <3>4
  <2>6. cs[x].els # Null => lo[cs[x].els] = hp[x]
    BY <1>2, <1>4, <1>7, <2>1 DEF NumberedAt
  <2> QED
    BY <2>2, <2>3, <2>4, <2>5, <2>6 DEF NumberedAt
<1>13. Numbered(cs, lo, hp, n + l)
  <2>1. hp[Root] = n + l
    BY <1>5, <1>7
  <2> QED
    BY <1>2, <1>5, <1>12, <2>1 DEF Numbered
<1>14. Apart(cs)
  BY <1>2, ApartKept DEF InOrder, N
<1> QED
  BY <1>13, <1>14 DEF InOrder, l

(* The open arms make such a spine.                                        *)
SpineOf(s, arms) == {Root, s.cur} \union ArmsUpTo(s, arms, Len(arms))

LEMMA SpineOfArms ==
  ASSUME NEW E, NEW s \in SliceOf(E), SliceInv(s), Apart(s.blocks),
         NEW arms \in ArmSeq, OnArms(s, arms)
  PROVE  Spine(s.blocks, s.cur, SpineOf(s, arms))
<1> DEFINE bs == s.blocks
           m == Len(arms)
           C == SpineOf(s, arms)
           Fine(x) == /\ x \in 1 .. Len(bs) /\ bs[x].els = Null
                      /\ x # Root => /\ bs[x].outer \in C
                                     /\ bs[bs[x].outer].inner # <<>>
                                     /\ LastTip(bs, bs[x].outer) = x
                      /\ x # s.cur => bs[x].inner # <<>> /\ LastTip(bs, x) \in C
<1>1. /\ bs \in Seq(BlockOf(E)) /\ Len(bs) \in Nat /\ s.cur \in 2 .. Len(bs)
      /\ Len(bs) >= 2 /\ m \in Nat
      /\ bs[s.cur].inner = <<>> /\ bs[s.cur].els = Null /\ bs[Root].els = Null
  <2>1. bs \in Seq(BlockOf(E)) /\ Len(bs) \in Nat /\ s.cur \in 2 .. Len(bs)
    BY ArmBlockFacts
  <2>2. m \in Nat
    BY DEF ArmSeq
  <2> QED
    BY <2>1, <2>2 DEF SliceInv, GraphInv, OuterMost, Current
<1>2. \A x \in C : x = Root \/ x = s.cur \/ \E k \in 1 .. m : x = ArmOf(s, arms[k])
  BY DEF SpineOf, ArmsUpTo
<1>3. Root \in C /\ s.cur \in C /\ \A k \in 1 .. m : ArmOf(s, arms[k]) \in C
  BY DEF SpineOf, ArmsUpTo
<1>4. ASSUME NEW k \in 1 .. m
      PROVE  /\ ArmOf(s, arms[k]) \in 2 .. Len(bs)
             /\ bs[ArmOf(s, arms[k])].outer = AroundArm(s, arms, k)
             /\ bs[AroundArm(s, arms, k)].inner # <<>>
             /\ LastTip(bs, AroundArm(s, arms, k)) = ArmOf(s, arms[k])
             /\ bs[ArmOf(s, arms[k])].els = Null
             /\ AroundArm(s, arms, k) \in C
  <2>1. OnArm(s, arms, k)
    BY DEF OnArms
  <2>2. /\ ArmOf(s, arms[k]) \in 2 .. Len(bs)
        /\ bs[ArmOf(s, arms[k])].outer = AroundArm(s, arms, k)
        /\ bs[AroundArm(s, arms, k)].inner # <<>>
        /\ Last(bs[AroundArm(s, arms, k)].inner) = arms[k].branch
        /\ arms[k].branch \in 1 .. Len(bs)
    BY <2>1, <1>1 DEF OnArm
  <2>3. Tip(bs, arms[k].branch) = ArmOf(s, arms[k]) /\ bs[ArmOf(s, arms[k])].els = Null
    <3>1. CASE arms[k].side = "then"
      BY <2>1, <3>1 DEF OnArm, ArmOf, Tip
    <3>2. CASE arms[k].side # "then"
      <4>1. ArmOf(s, arms[k]) = bs[arms[k].branch].els /\ bs[arms[k].branch].els # Null
        BY <2>2, <3>2 DEF ArmOf, Null
      <4> QED
        BY <2>2, <4>1 DEF Tip, Apart
    <3> QED
      BY <3>1, <3>2
  <2>4. AroundArm(s, arms, k) \in C
    <3>1. CASE k = 1
      BY <1>3, <3>1 DEF AroundArm
    <3>2. CASE k # 1
      <4>1. k - 1 \in 1 .. m
        BY <1>1, <3>2
      <4> HIDE DEF C
      <4> QED
        BY <1>3, <3>2, <4>1 DEF AroundArm
    <3> QED
      BY <3>1, <3>2
  <2> QED
    BY <2>2, <2>3, <2>4 DEF LastTip
<1> HIDE DEF C
<1>5. ArmBlock(s) \in C /\ \/ m = 0 /\ ArmBlock(s) = Root
                           \/ m \in 1 .. m /\ ArmBlock(s) = ArmOf(s, arms[m])
  <2>1. CASE m = 0
    BY <1>3, <2>1 DEF OnArms
  <2>2. CASE m # 0
    <3>1. m \in 1 .. m
      BY <1>1, <2>2
    <3> QED
      BY <1>3, <3>1 DEF OnArms
  <2> QED
    BY <2>1, <2>2
<1>6. s.cur # Root
  BY <1>1 DEF Root
<1>7. CASE IsConditional(Current(s))
  <2>1. ArmBlock(s) = s.cur
    BY <1>7 DEF ArmBlock
  <2>2. m \in 1 .. m /\ s.cur = ArmOf(s, arms[m])
    BY <1>5, <1>6, <2>1
  <2>3. \A x \in C : x = Root \/ \E k \in 1 .. m : x = ArmOf(s, arms[k])
    BY <1>2, <2>2
  <2>4. ASSUME NEW x \in C
        PROVE  Fine(x)
    <3>1. CASE x = Root
      <4>1. 1 \in 1 .. m /\ AroundArm(s, arms, 1) = Root
        BY <2>2 DEF AroundArm
      <4>2. bs[Root].inner # <<>> /\ LastTip(bs, Root) \in C
        BY <1>3, <1>4, <4>1
      <4> QED
        BY <1>1, <3>1, <4>2 DEF Root
    <3>2. ASSUME NEW k \in 1 .. m, x = ArmOf(s, arms[k])
          PROVE  Fine(x)
      <4>1. x \in 1 .. Len(bs)
        BY <1>4, <3>2
      <4>2. ASSUME x # s.cur PROVE bs[x].inner # <<>> /\ LastTip(bs, x) \in C
        <5>1. k # m /\ k + 1 \in 1 .. m /\ k + 1 # 1 /\ (k + 1) - 1 = k
          BY <1>1, <2>2, <3>2, <4>2
        <5>2. AroundArm(s, arms, k + 1) = x
          BY <3>2, <5>1 DEF AroundArm
        <5> QED
          BY <1>3, <1>4, <5>1, <5>2
      <4> QED
        BY <1>4, <3>2, <4>1, <4>2
    <3> HIDE DEF Fine
    <3> QED
      BY <2>3, <3>1, <3>2, Zenon
  <2> QED
    BY <1>1, <1>3, <2>4 DEF Spine, C
<1>8. CASE ~IsConditional(Current(s))
  <2>1. bs[s.cur].outer = ArmBlock(s)
    BY <1>8 DEF ArmBlock, Current
  <2>2. bs[ArmBlock(s)].inner # <<>> /\ LastTip(bs, ArmBlock(s)) = s.cur
    BY <1>1, <1>8, <2>1 DEF SliceInv, LastTip, Tip, Current
  <2>3. ASSUME NEW x \in C
        PROVE  Fine(x)
    <3>1. CASE x = Root
      <4>1. bs[Root].inner # <<>> /\ LastTip(bs, Root) \in C
        <5>1. CASE m = 0
          BY <1>3, <1>5, <2>2, <5>1
        <5>2. CASE m # 0
          <6>1. 1 \in 1 .. m /\ AroundArm(s, arms, 1) = Root
            BY <1>1, <5>2 DEF AroundArm
          <6> QED
            BY <1>3, <1>4, <6>1
        <5> QED
          BY <5>1, <5>2
      <4> QED
        BY <1>1, <3>1, <4>1 DEF Root
    <3>2. CASE x = s.cur
      BY <1>1, <1>5, <2>1, <2>2, <3>2
    <3>3. ASSUME NEW k \in 1 .. m, x = ArmOf(s, arms[k])
          PROVE  Fine(x)
      <4>1. x \in 1 .. Len(bs)
        BY <1>4, <3>3
      <4>2. bs[x].inner # <<>> /\ LastTip(bs, x) \in C
        <5>1. CASE k = m
          BY <1>3, <1>5, <2>2, <3>3, <5>1
        <5>2. CASE k # m
          <6>1. k + 1 \in 1 .. m /\ k + 1 # 1 /\ (k + 1) - 1 = k
            BY <1>1, <5>2
          <6>2. AroundArm(s, arms, k + 1) = x
            BY <3>3, <6>1 DEF AroundArm
          <6> QED
            BY <1>3, <1>4, <6>1, <6>2
        <5> QED
          BY <5>1, <5>2
      <4> QED
        BY <1>4, <3>3, <4>1, <4>2
    <3> HIDE DEF Fine
    <3> QED
      BY <1>2, <3>1, <3>2, <3>3, Zenon
  <2> QED
    BY <1>1, <1>3, <2>3 DEF Spine, C
<1> QED
  BY <1>7, <1>8

-----------------------------------------------------------------------------
(* The operations of module Slice keep the events in order.                *)

(* Slice::append and Slice::append_all, at the end of the innermost arm.   *)
LEMMA AppendAllOrder ==
  ASSUME NEW E, NEW s \in SliceOf(E), SliceInv(s), NEW arms \in ArmSeq, OnArms(s, arms),
         NEW es \in Seq(E), NEW n \in Nat, InOrder(s.blocks, n),
         \A i \in 1 .. Len(es) : es[i].id = n + i
  PROVE  InOrder(AppendAll(s, es).blocks, n + Len(es))
<1> DEFINE bs == s.blocks
           cs == AppendAll(s, es).blocks
           C == SpineOf(s, arms)
<1>1. bs \in Seq(BlockOf(E)) /\ GraphInv(bs, s.cur) /\ Apart(bs)
  BY ArmBlockFacts DEF SliceInv, InOrder
<1>2. cs \in Seq(BlockOf(E)) /\ Written(bs, cs, s.cur, es)
  BY AppendAllInv DEF SliceOf
<1>3. Spine(bs, s.cur, C)
  BY <1>1, SpineOfArms
<1> HIDE DEF cs, C
<1>4. InOrder(cs, n + Len(es))
  BY <1>1, <1>2, <1>3, WrittenOrder
<1> QED
  BY <1>4 DEF cs

(* Slice::begin_then, which records the reads of the condition first.      *)
LEMMA BeginThenOrder ==
  ASSUME NEW E, NEW s \in SliceOf(E), SliceInv(s), NEW arms \in ArmSeq, OnArms(s, arms),
         NEW lit \in Literal, NEW reads \in Seq(E), NEW n \in Nat, InOrder(s.blocks, n),
         \A i \in 1 .. Len(reads) : reads[i].id = n + i
  PROVE  InOrder(BeginThen(s, lit, reads).blocks, n + Len(reads))
<1> DEFINE r == AppendAll(s, reads)
           c == Current(r)
           k == n + Len(reads)
           t == BeginThen(s, lit, reads)
<1>1. r \in SliceOf(E) /\ SliceInv(r)
  BY AppendAllInv
<1>2. InOrder(r.blocks, k)
  BY AppendAllOrder
<1> HIDE DEF r, k
<1>3. /\ r.blocks \in Seq(BlockOf(E)) /\ GraphInv(r.blocks, r.cur)
      /\ r.cur \in 1 .. Len(r.blocks) /\ c.outer \in 1 .. Len(r.blocks)
  <2>1. r.blocks \in Seq(BlockOf(E)) /\ r.cur \in 2 .. Len(r.blocks) /\ Len(r.blocks) \in Nat
        /\ GraphInv(r.blocks, r.cur)
    BY <1>1, ArmBlockFacts DEF SliceInv
  <2>2. Lies(r.blocks, r.cur)
    BY <2>1 DEF GraphInv
  <2> QED
    BY <2>1, <2>2 DEF Lies, Current
<1>4. ASSUME NEW b \in 1 .. Len(r.blocks) PROVE InOrder(Enter(r, b, lit).blocks, k)
  <2> DEFINE cs == Enter(r, b, lit).blocks
  <2>1. cs \in Seq(BlockOf(E)) /\ Entered(r.blocks, cs, b, lit)
    BY <1>1, EnterFacts DEF SliceOf
  <2> HIDE DEF cs
  <2>2. InOrder(cs, k)
    BY <1>2, <1>3, <2>1, EnteredOrder
  <2> QED
    BY <2>2 DEF cs
<1>5. CASE IsConditional(c)
  <2>1. t = Enter(r, r.cur, lit)
    BY <1>5 DEF BeginThen, r
  <2> QED
    BY <1>3, <1>4, <2>1 DEF k
<1>6. CASE ~IsConditional(c) /\ c.body # <<>>
  <2>1. t = Enter(r, c.outer, lit)
    BY <1>6 DEF BeginThen, r
  <2> QED
    BY <1>3, <1>4, <2>1 DEF k
<1>7. CASE ~IsConditional(c) /\ c.body = <<>>
  <2> DEFINE cs == [r.blocks EXCEPT ![r.cur].cond = lit]
  <2>1. t = [r EXCEPT !.blocks = cs]
    BY <1>7 DEF BeginThen, r
  <2>2. Conditioned(r.blocks, cs, r.cur, lit)
    BY <1>3, ConditionFacts
  <2> HIDE DEF cs, t
  <2>3. t.blocks = cs
    BY <1>1, <2>1 DEF SliceOf
  <2>4. InOrder(cs, k)
    BY <1>2, <1>3, <2>2, ConditionedOrder
  <2> QED
    BY <2>3, <2>4 DEF k, t
<1> QED
  BY <1>5, <1>6, <1>7

(* Unlinking the empty block after a branch.                               *)
LEMMA TrimmedOrder ==
  ASSUME NEW E, NEW s \in SliceOf(E), SliceInv(s), ArmBlock(s) \in 2 .. Len(s.blocks),
         NEW n, InOrder(s.blocks, n)
  PROVE  InOrder(Trimmed(s), n)
<1> DEFINE bs == s.blocks
           c == Current(s)
           cs == Trimmed(s)
<1>1. CASE IsConditional(c) \/ c.body # <<>>
  BY <1>1 DEF Trimmed
<1>2. CASE ~IsConditional(c) /\ c.body = <<>>
  <2>1. cs = PopInner(bs, c.outer) /\ ArmBlock(s) = c.outer
    BY <1>2 DEF Trimmed, ArmBlock
  <2>2. /\ bs \in Seq(BlockOf(E)) /\ GraphInv(bs, s.cur)
        /\ c.outer \in 1 .. Len(bs)
        /\ bs[c.outer].inner # <<>> /\ Last(bs[c.outer].inner) = s.cur
        /\ bs[s.cur].body = <<>> /\ bs[s.cur].inner = <<>> /\ bs[s.cur].els = Null
    BY <1>2, <2>1, ArmBlockFacts DEF SliceInv, Current
  <2>3. cs \in Seq(BlockOf(E)) /\ Unlinked(bs, cs, c.outer)
    BY <2>1, <2>2, PopInnerFacts
  <2> HIDE DEF cs, c, bs
  <2>4. bs[Last(bs[c.outer].inner)].body = <<>> /\ bs[Last(bs[c.outer].inner)].inner = <<>>
        /\ bs[Last(bs[c.outer].inner)].els = Null
    BY <2>2
  <2>5. InOrder(cs, n)
    BY <2>2, <2>3, <2>4, UnlinkedOrder DEF bs
  <2> QED
    BY <2>5 DEF cs
<1> QED
  BY <1>1, <1>2

(* Slice::begin_else, called once for the innermost open branch.           *)
LEMMA BeginElseOrder ==
  ASSUME NEW E, NEW s \in SliceOf(E), SliceInv(s), NEW arms \in ArmSeq, OnArms(s, arms),
         NEW m \in Nat \ {0}, Len(arms) = m, arms[m].side = "then",
         NEW n, InOrder(s.blocks, n)
  PROVE  InOrder(BeginElse(s).blocks, n)
<1> DEFINE arm == ArmBlock(s)
           r == Trimmed(s)
           N == Len(s.blocks)
           around == AroundArm(s, arms, m)
<1>1. /\ m \in 1 .. m /\ arm = arms[m].branch /\ arm \in 2 .. N /\ arm \in 1 .. N
      /\ s.blocks[arm].els = Null /\ IsConditional(s.blocks[arm])
      /\ s.blocks[around].inner # <<>> /\ Last(s.blocks[around].inner) = arm
      /\ N \in Nat /\ s.blocks \in Seq(BlockOf(E))
  <2>1. m \in 1 .. Len(arms) /\ m = Len(arms)
    OBVIOUS
  <2>2. OnArm(s, arms, m) /\ arm = ArmOf(s, arms[m])
    BY <2>1 DEF OnArms
  <2>3. N \in Nat /\ s.blocks \in Seq(BlockOf(E))
    BY ArmBlockFacts
  <2> HIDE DEF arm
  <2> QED
    BY <2>1, <2>2, <2>3 DEF OnArm, ArmOf
<1>2. around \in 1 .. N
  BY <1>1, ArmsAscend
<1>3. /\ r \in Seq(BlockOf(E)) /\ Len(r) = N /\ GraphInv(r, Null)
      /\ \A b \in 1 .. N : /\ r[b].outer = s.blocks[b].outer
                           /\ r[b].cond = s.blocks[b].cond
                           /\ r[b].els = s.blocks[b].els
  BY <1>1, TrimmedFacts
<1>4. InOrder(r, n)
  BY <1>1, TrimmedOrder
<1>5. \A c \in 1 .. N : s.blocks[c].els # arm
  <2> SUFFICES ASSUME NEW c \in 1 .. N, s.blocks[c].els = arm PROVE FALSE
    OBVIOUS
  <2> DEFINE q == s.blocks[around].inner
  <2>1. s.blocks[c].els # Null
    BY <1>1 DEF Null
  <2>2. q \in Seq(Nat) /\ q # <<>>
    BY <1>1, <1>2, FieldTypes
  <2>3. Len(q) \in 1 .. Len(q) /\ q[Len(q)] = arm
    BY <1>1, <2>2, EmptyFacts DEF Last
  <2> HIDE DEF arm, around
  <2> QED
    BY <1>2, <2>1, <2>3 DEF InOrder, Apart
<1> DEFINE else == Block(r[arm].outer, Negate(r[arm].cond))
           cs == Append([r EXCEPT ![arm].els = N + 1], else)
<1>6. BeginElse(s).blocks = cs
  BY <1>1, <1>3, LeaveArmFacts DEF BeginElse, Current, New
<1> HIDE DEF r, arm, N
<1>7. r[arm].cond \in Literal
  BY <1>1, <1>3, FieldTypes DEF IsConditional
<1>8. cs \in Seq(BlockOf(E)) /\ ElseAdded(r, cs, arm)
  BY <1>1, <1>3, <1>7, ElseFacts
<1> HIDE DEF cs
<1>9. InOrder(cs, n)
  <2>1. arm \in 1 .. Len(r) /\ r[arm].els = Null /\ \A c \in 1 .. Len(r) : r[c].els # arm
    BY <1>1, <1>3, <1>5
  <2> QED
    BY <1>3, <1>4, <1>8, <2>1, ElseAddedOrder
<1> QED
  BY <1>6, <1>9

(* Slice::end_branch. *)
LEMMA EndBranchOrder ==
  ASSUME NEW E, NEW s \in SliceOf(E), SliceInv(s), ArmBlock(s) \in 2 .. Len(s.blocks),
         NEW n, InOrder(s.blocks, n)
  PROVE  InOrder(EndBranch(s).blocks, n)
<1> DEFINE N == Len(s.blocks)
           arm == ArmBlock(s)
           around == s.blocks[arm].outer
           r == [s EXCEPT !.blocks = Trimmed(s)]
           cs == EndBranch(s).blocks
<1>1. s.blocks \in Seq(BlockOf(E)) /\ N \in Nat /\ arm \in 2 .. N
  BY ArmBlockFacts
<1>2. Trimmed(s) \in Seq(BlockOf(E)) /\ Len(Trimmed(s)) = N /\ GraphInv(Trimmed(s), Null)
  BY TrimmedFacts
<1>3. r \in SliceOf(E) /\ r.blocks = Trimmed(s)
  BY <1>2 DEF SliceOf
<1>4. EndBranch(s) = Enter(r, around, NoCond)
  BY DEF EndBranch, Trimmed, ArmBlock, Current, SliceOf
<1>5. around \in 1 .. N
  <2>1. Lies(s.blocks, arm)
    BY <1>1 DEF SliceInv, GraphInv
  <2> QED
    BY <1>1, <2>1 DEF Lies
<1>6. InOrder(Trimmed(s), n)
  BY TrimmedOrder
<1> HIDE DEF r, around, cs
<1>7. cs \in Seq(BlockOf(E)) /\ Entered(Trimmed(s), cs, around, NoCond)
  <2>1. around \in 1 .. Len(r.blocks) /\ NoCond \in Literal \union {NoCond}
    BY <1>2, <1>3, <1>5
  <2>2. Enter(r, around, NoCond) \in SliceOf(E)
        /\ Entered(r.blocks, Enter(r, around, NoCond).blocks, around, NoCond)
    BY <1>3, <2>1, EnterFacts
  <2> QED
    BY <1>3, <1>4, <2>2 DEF SliceOf, cs
<1>8. around \in 1 .. Len(Trimmed(s))
  BY <1>2, <1>5
<1>9. InOrder(cs, n)
  BY <1>2, <1>6, <1>7, <1>8, EnteredOrder
<1> QED
  BY <1>9 DEF cs

(* The slice of the constructor has no events.                             *)
LEMMA EmptyOrder == InOrder(EmptySlice.blocks, 0)
<1> DEFINE bs == EmptySlice.blocks
           f == [x \in 1 .. 2 |-> 0]
<1>1. /\ Len(bs) = 2 /\ \A x \in 1 .. 2 : bs[x].body = <<>> /\ bs[x].els = Null
      /\ bs[1].inner = <<2>> /\ bs[2].inner = <<>>
  <2> DEFINE b1 == [Block(Null, NoCond) EXCEPT !.inner = <<2>>]
             b2 == Block(Root, NoCond)
  <2>1. /\ b1.body = <<>> /\ b1.inner = <<2>> /\ b1.els = Null
        /\ b2.body = <<>> /\ b2.inner = <<>> /\ b2.els = Null
    BY DEF Block
  <2>2. bs = <<b1, b2>>
    BY DEF EmptySlice
  <2> HIDE DEF b1, b2, bs
  <2>3. bs[1] = b1 /\ bs[2] = b2 /\ Len(bs) = 2
    BY <2>2
  <2>4. \A x \in 1 .. 2 : x = 1 \/ x = 2
    OBVIOUS
  <2> QED
    BY <2>1, <2>3, <2>4
<1> HIDE DEF bs
<1>2. f[1] = 0 /\ f[2] = 0
  OBVIOUS
<1> HIDE DEF f
<1>3. NumberedAt(bs, f, f, 1)
  <2>1. Len(<<2>>) = 1 /\ <<2>>[1] = 2 /\ \A k \in 1 .. 1 : k = 1
    OBVIOUS
  <2>2. StartOf(bs, f, f, 1, 1) = 0
    BY <1>1, <1>2 DEF StartOf
  <2>3. StartOf(bs, f, f, 1, 1 + 1) = 0
    BY <1>1, <1>2, <2>1 DEF StartOf, EndOf
  <2> QED
    BY <1>1, <1>2, <2>1, <2>2, <2>3 DEF NumberedAt
<1>4. NumberedAt(bs, f, f, 2)
  <2>1. StartOf(bs, f, f, 2, 0 + 1) = 0
    BY <1>1, <1>2 DEF StartOf
  <2> QED
    BY <1>1, <1>2, <2>1 DEF NumberedAt
<1>5. \A x \in 1 .. Len(bs) : x = 1 \/ x = 2
  BY <1>1
<1>6. Numbered(bs, f, f, 0)
  BY <1>2, <1>3, <1>4, <1>5 DEF Numbered, Root
<1>7. Apart(bs)
  BY <1>1 DEF Apart
<1> QED
  BY <1>6, <1>7 DEF InOrder, bs

-----------------------------------------------------------------------------
(* What internal_encode_spo returns and adds, as recursive functions.      *)
Encoded == [clock : Clock, order : SUBSET (Clock \X Clock)]

BodyStep(body, earlier, f, i) ==
  IF i = 0 THEN earlier
  ELSE IF IsShared(body[i]) THEN EventClock(body[i]) ELSE f[i - 1]

BodyClocks(body, earlier) ==
  CHOOSE f : f = [i \in 0 .. Len(body) |-> BodyStep(body, earlier, f, i)]

AfterBody(body, f) ==
  [clock |-> f[Len(body)],
   order |-> { <<f[i - 1], EventClock(body[i])>> :
                 i \in { j \in DOMAIN body : IsShared(body[j]) } }]

(* Past the inner block i, and its else block. *)
Pass(bs, enc, acc, i) ==
  LET then == enc[i][acc.clock]
      else == enc[bs[i].els][acc.clock]
  IN  IF bs[i].els = Null
        THEN [clock |-> then.clock, order |-> acc.order \union then.order]
        ELSE [clock |-> JoinClock(i),
              order |-> acc.order \union then.order \union else.order \union
                        { <<then.clock, JoinClock(i)>>, <<else.clock, JoinClock(i)>> }]

PassStep(bs, enc, b, start, f, k) ==
  IF k = 0 THEN start ELSE Pass(bs, enc, f[k - 1], bs[b].inner[k])

Passes(bs, enc, b, start) ==
  CHOOSE f : f = [k \in 0 .. Len(bs[b].inner) |-> PassStep(bs, enc, b, start, f, k)]

EncodeBlock(bs, enc, b, earlier) ==
  Passes(bs, enc, b, AfterBody(bs[b].body, BodyClocks(bs[b].body, earlier)))[Len(bs[b].inner)]

(* EncodeSpo, as the recursive function it is.                             *)
LEMMA EncodeUnfolded ==
  ASSUME NEW s
  PROVE  EncodeSpo(s) =
           CHOOSE enc : enc = [b \in DOMAIN s.blocks |->
                                 [earlier \in Clock |-> EncodeBlock(s.blocks, enc, b, earlier)]]
BY DEF EncodeSpo, EncodeBlock, Passes, PassStep, Pass, AfterBody, BodyClocks, BodyStep

(* Clocks are distinct, and each is one of the three kinds.                *)
LEMMA ClockFacts ==
  /\ Epoch \in Clock
  /\ \A e : e.id \in Nat => EventClock(e) \in Clock
  /\ \A b \in Nat : JoinClock(b) \in Clock
  /\ Epoch[1] = "epoch"
  /\ \A e : EventClock(e)[1] = "event" /\ EventClock(e)[2] = e.id
  /\ \A b : JoinClock(b)[1] = "join" /\ JoinClock(b)[2] = b
BY DEF Clock, Epoch, EventClock, JoinClock
(* The clocks of the body, one event after the other.                      *)
LEMMA BodyFacts ==
  ASSUME NEW E, \A e \in E : e.id \in Nat, NEW body \in Seq(E), NEW earlier \in Clock
  PROVE  /\ BodyClocks(body, earlier) \in [0 .. Len(body) -> Clock]
         /\ BodyClocks(body, earlier)[0] = earlier
         /\ \A i \in 1 .. Len(body) :
              BodyClocks(body, earlier)[i] =
                IF IsShared(body[i]) THEN EventClock(body[i])
                ELSE BodyClocks(body, earlier)[i - 1]
<1> DEFINE n == Len(body)
           steps == [i \in 1 .. n |-> [c \in Clock |-> IF IsShared(body[i]) THEN EventClock(body[i]) ELSE c]]
           ch == BodyClocks(body, earlier)
<1>1. n \in Nat
  OBVIOUS
<1>2. \A i \in 1 .. n : EventClock(body[i]) \in Clock
  <2>1. \A i \in 1 .. n : body[i] \in E
    OBVIOUS
  <2> QED
    BY <2>1, ClockFacts
<1>3. steps \in [1 .. n -> [Clock -> Clock]]
      /\ \A i \in 1 .. n : \A c \in Clock :
           steps[i][c] = IF IsShared(body[i]) THEN EventClock(body[i]) ELSE c
  <2> DEFINE step(i) == [c \in Clock |-> IF IsShared(body[i]) THEN EventClock(body[i]) ELSE c]
  <2>1. ASSUME NEW i \in 1 .. n PROVE step(i) \in [Clock -> Clock]
    BY <1>2
  <2>2. steps = [i \in 1 .. n |-> step(i)]
    OBVIOUS
  <2> HIDE DEF step
  <2>3. steps \in [1 .. n -> [Clock -> Clock]] /\ \A i \in 1 .. n : steps[i] = step(i)
    BY <2>1, <2>2
  <2> QED
    BY <2>3 DEF step
<1> HIDE DEF steps
<1>4. PICK f \in [0 .. n -> Clock] : Follows(f, earlier, steps, n)
  <2> HIDE DEF n
  <2> QED
    BY <1>1, <1>3, StepsFollow
<1>5. f[0] = earlier /\ \A i \in 1 .. n : i - 1 \in 0 .. n /\ f[i - 1] \in Clock /\ f[i] = steps[i][f[i - 1]]
  BY <1>1, <1>4 DEF Follows
<1>6. \A i \in 0 .. n : f[i] = BodyStep(body, earlier, f, i)
  <2> SUFFICES ASSUME NEW i \in 0 .. n PROVE f[i] = BodyStep(body, earlier, f, i)
    OBVIOUS
  <2>1. CASE i = 0
    BY <1>5, <2>1 DEF BodyStep
  <2>2. CASE i # 0
    <3>1. i \in 1 .. n
      BY <2>2
    <3> HIDE DEF n
    <3> QED
      BY <1>3, <1>5, <2>2, <3>1 DEF BodyStep
  <2> QED
    BY <2>1, <2>2
<1>7. f = [i \in 0 .. n |-> BodyStep(body, earlier, f, i)]
  <2>1. f = [i \in 0 .. n |-> f[i]]
    OBVIOUS
  <2> QED
    BY <1>6, <2>1
<1>8. ch = [i \in 0 .. n |-> BodyStep(body, earlier, ch, i)]
  BY <1>7, Zenon DEF BodyClocks
<1> HIDE DEF ch
<1>9. \A i \in 0 .. n : ch[i] = BodyStep(body, earlier, ch, i)
  BY <1>8, Zenon
<1>10. /\ ch[0] = earlier
       /\ \A i \in 1 .. n : ch[i] = IF IsShared(body[i]) THEN EventClock(body[i]) ELSE ch[i - 1]
  <2>1. 0 \in 0 .. n /\ \A i \in 1 .. n : i \in 0 .. n /\ i # 0
    BY <1>1
  <2> HIDE DEF n
  <2> QED
    BY <1>9, <2>1 DEF BodyStep
<1>11. \A i \in 0 .. n : ch[i] \in Clock
  <2> DEFINE good == { i \in Nat : i \in 0 .. n => ch[i] \in Clock }
  <2>1. 0 \in good
    BY <1>10
  <2>2. ASSUME NEW i \in Nat, i \in good PROVE i + 1 \in good
    <3>1. i + 1 \in Nat /\ (i + 1) - 1 = i
      OBVIOUS
    <3> SUFFICES ASSUME i + 1 \in 0 .. n PROVE ch[i + 1] \in Clock
      BY <3>1
    <3>2. i + 1 \in 1 .. n /\ i \in 0 .. n
      BY <1>1
    <3> QED
      BY <1>2, <1>10, <2>2, <3>1, <3>2
  <2>3. \A i \in Nat : i \in good
    <3> HIDE DEF good
    <3> QED BY <2>1, <2>2, SetInduction
  <2> QED
    BY <2>3
<1>12. ch \in [0 .. n -> Clock]
  <2>1. ch = [i \in 0 .. n |-> ch[i]]
    BY <1>8, <1>9
  <2> QED
    BY <1>11, <2>1
<1> QED
  BY <1>10, <1>12 DEF ch

(* What the body gives the first inner block.                              *)
LEMMA AfterBodyFacts ==
  ASSUME NEW E, \A e \in E : e.id \in Nat, NEW body \in Seq(E), NEW earlier \in Clock
  PROVE  AfterBody(body, BodyClocks(body, earlier)) \in Encoded
<1> DEFINE f == BodyClocks(body, earlier)
<1>1. f \in [0 .. Len(body) -> Clock] /\ Len(body) \in Nat /\ DOMAIN body = 1 .. Len(body)
  BY BodyFacts
<1> HIDE DEF f
<1>2. f[Len(body)] \in Clock
  BY <1>1
<1>3. ASSUME NEW i \in { j \in DOMAIN body : IsShared(body[j]) }
      PROVE  f[i - 1] \in Clock /\ EventClock(body[i]) \in Clock
  <2>1. i \in 1 .. Len(body) /\ i - 1 \in 0 .. Len(body) /\ body[i] \in E
    BY <1>1
  <2> QED
    BY <1>1, <2>1, ClockFacts
<1>4. AfterBody(body, f) \in Encoded
  BY <1>2, <1>3 DEF AfterBody, Encoded
<1> QED
  BY <1>4 DEF f

(* Past an inner block, when what follows in the list is encoded.          *)
LEMMA PassType ==
  ASSUME NEW bs, NEW enc, NEW acc \in Encoded, NEW i \in Nat, enc[i] \in [Clock -> Encoded],
         bs[i].els # Null => enc[bs[i].els] \in [Clock -> Encoded]
  PROVE  Pass(bs, enc, acc, i) \in Encoded
<1> DEFINE then == enc[i][acc.clock]
           else == enc[bs[i].els][acc.clock]
<1>1. acc.clock \in Clock /\ acc.order \in SUBSET (Clock \X Clock)
  BY DEF Encoded
<1>2. then \in Encoded /\ (bs[i].els # Null => else \in Encoded)
  BY <1>1
<1>3. JoinClock(i) \in Clock
  BY ClockFacts
<1> HIDE DEF then, else
<1>4. Pass(bs, enc, acc, i) =
        IF bs[i].els = Null
        THEN [clock |-> then.clock, order |-> acc.order \union then.order]
        ELSE [clock |-> JoinClock(i),
              order |-> acc.order \union then.order \union else.order \union
                        { <<then.clock, JoinClock(i)>>, <<else.clock, JoinClock(i)>> }]
  BY DEF Pass, then, else
<1>5. CASE bs[i].els = Null
  BY <1>1, <1>2, <1>4, <1>5 DEF Encoded
<1>6. CASE bs[i].els # Null
  BY <1>1, <1>2, <1>3, <1>4, <1>6 DEF Encoded
<1> QED
  BY <1>5, <1>6
(* What is encoded of the blocks after b, and of b up to its inner ones.   *)
EncodedAfter(bs, enc, b) == \A x \in 1 .. Len(bs) : x > b => enc[x] \in [Clock -> Encoded]

(* One inner block encoded gives a clock and constraints.                  *)
LEMMA PassInType ==
  ASSUME NEW E, NEW bs \in Seq(BlockOf(E)), NEW e, GraphInv(bs, e), NEW b \in 1 .. Len(bs),
         NEW enc, EncodedAfter(bs, enc, b), NEW k \in 1 .. Len(bs[b].inner), NEW acc \in Encoded
  PROVE  Pass(bs, enc, acc, bs[b].inner[k]) \in Encoded
<1> DEFINE i == bs[b].inner[k]
<1>1. /\ i \in b + 1 .. Len(bs) /\ i \in 1 .. Len(bs)
      /\ bs[i].els # Null => bs[i].els \in b + 1 .. Len(bs)
  BY InnerAfter
<1>2. Len(bs) \in Nat
  OBVIOUS
<1> HIDE DEF i
<1>3. \A x \in b + 1 .. Len(bs) : enc[x] \in [Clock -> Encoded]
  BY <1>2 DEF EncodedAfter
<1>4. enc[i] \in [Clock -> Encoded] /\ (bs[i].els # Null => enc[bs[i].els] \in [Clock -> Encoded])
      /\ i \in Nat
  BY <1>1, <1>3
<1>5. Pass(bs, enc, acc, i) \in Encoded
  BY <1>4, PassType
<1> QED
  BY <1>5 DEF i

(* The inner blocks of a block are encoded one after the other.            *)
LEMMA PassesFacts ==
  ASSUME NEW E, NEW bs \in Seq(BlockOf(E)), NEW e, GraphInv(bs, e), NEW b \in 1 .. Len(bs),
         NEW enc, EncodedAfter(bs, enc, b), NEW start \in Encoded
  PROVE  /\ Passes(bs, enc, b, start)[0] = start
         /\ \A k \in 1 .. Len(bs[b].inner) :
              Passes(bs, enc, b, start)[k]
                = Pass(bs, enc, Passes(bs, enc, b, start)[k - 1], bs[b].inner[k])
         /\ \A k \in 0 .. Len(bs[b].inner) : Passes(bs, enc, b, start)[k] \in Encoded
<1> DEFINE n == Len(bs[b].inner)
           step(k) == [acc \in Encoded |-> Pass(bs, enc, acc, bs[b].inner[k])]
           steps == [k \in 1 .. n |-> step(k)]
           ch == Passes(bs, enc, b, start)
<1>1. n \in Nat
  BY FieldTypes
<1>2. \A k \in 1 .. n : \A acc \in Encoded : Pass(bs, enc, acc, bs[b].inner[k]) \in Encoded
  BY PassInType
<1>3. steps \in [1 .. n -> [Encoded -> Encoded]]
      /\ \A k \in 1 .. n : \A acc \in Encoded : steps[k][acc] = Pass(bs, enc, acc, bs[b].inner[k])
  <2>1. ASSUME NEW k \in 1 .. n PROVE step(k) \in [Encoded -> Encoded]
    BY <1>2
  <2>2. \A k \in 1 .. n : \A acc \in Encoded : step(k)[acc] = Pass(bs, enc, acc, bs[b].inner[k])
    OBVIOUS
  <2> HIDE DEF step, n
  <2>3. steps \in [1 .. n -> [Encoded -> Encoded]] /\ \A k \in 1 .. n : steps[k] = step(k)
    BY <2>1
  <2> QED
    BY <2>2, <2>3
<1> HIDE DEF steps
<1>4. PICK f \in [0 .. n -> Encoded] : Follows(f, start, steps, n)
  <2> HIDE DEF n
  <2> QED
    BY <1>1, <1>3, StepsFollow
<1>5. f[0] = start /\ \A k \in 1 .. n : f[k - 1] \in Encoded /\ f[k] = steps[k][f[k - 1]]
  <2>1. \A k \in 1 .. n : k - 1 \in 0 .. n
    BY <1>1
  <2> QED
    BY <1>4, <2>1 DEF Follows
<1>6. \A k \in 0 .. n : f[k] = PassStep(bs, enc, b, start, f, k)
  <2> SUFFICES ASSUME NEW k \in 0 .. n PROVE f[k] = PassStep(bs, enc, b, start, f, k)
    OBVIOUS
  <2>1. CASE k = 0
    BY <1>5, <2>1 DEF PassStep
  <2>2. CASE k # 0
    <3>1. k \in 1 .. n
      BY <1>1, <2>2
    <3> HIDE DEF n
    <3> QED
      BY <1>3, <1>5, <2>2, <3>1 DEF PassStep
  <2> QED
    BY <2>1, <2>2
<1>7. f = [k \in 0 .. n |-> PassStep(bs, enc, b, start, f, k)]
  <2>1. f = [k \in 0 .. n |-> f[k]]
    OBVIOUS
  <2> HIDE DEF n
  <2> QED
    BY <1>6, <2>1
<1>8. ch = [k \in 0 .. n |-> PassStep(bs, enc, b, start, ch, k)]
  BY <1>7, Zenon DEF Passes
<1> HIDE DEF ch
<1>9. \A k \in 0 .. n : ch[k] = PassStep(bs, enc, b, start, ch, k)
  BY <1>8, Zenon
<1>10. /\ ch[0] = start
       /\ \A k \in 1 .. n : ch[k] = Pass(bs, enc, ch[k - 1], bs[b].inner[k])
  <2>1. 0 \in 0 .. n /\ \A k \in 1 .. n : k \in 0 .. n /\ k # 0
    BY <1>1
  <2> HIDE DEF n
  <2> QED
    BY <1>9, <2>1 DEF PassStep
<1>11. \A k \in 0 .. n : ch[k] \in Encoded
  <2> DEFINE good == { k \in Nat : k \in 0 .. n => ch[k] \in Encoded }
  <2>1. 0 \in good
    BY <1>10
  <2>2. ASSUME NEW k \in Nat, k \in good PROVE k + 1 \in good
    <3>1. k + 1 \in Nat /\ (k + 1) - 1 = k
      OBVIOUS
    <3> SUFFICES ASSUME k + 1 \in 0 .. n PROVE ch[k + 1] \in Encoded
      BY <3>1
    <3>2. k + 1 \in 1 .. n /\ k \in 0 .. n
      BY <1>1
    <3>3. ch[k] \in Encoded
      BY <2>2, <3>2
    <3> HIDE DEF n
    <3> QED
      BY <1>2, <1>10, <3>1, <3>2, <3>3
  <2>3. \A k \in Nat : k \in good
    <3> HIDE DEF good
    <3> QED BY <2>1, <2>2, SetInduction
  <2> QED
    BY <2>3
<1> QED
  BY <1>10, <1>11 DEF ch

(* What is encoded of a block is the same if it is for the blocks after.   *)
LEMMA PassesSame ==
  ASSUME NEW E, NEW bs \in Seq(BlockOf(E)), NEW e, GraphInv(bs, e), NEW b \in 1 .. Len(bs),
         NEW enc, NEW fnc, EncodedAfter(bs, enc, b),
         \A x \in 1 .. Len(bs) : x > b => enc[x] = fnc[x], NEW start \in Encoded
  PROVE  Passes(bs, enc, b, start)[Len(bs[b].inner)] = Passes(bs, fnc, b, start)[Len(bs[b].inner)]
<1> DEFINE n == Len(bs[b].inner)
           f == Passes(bs, enc, b, start)
           g == Passes(bs, fnc, b, start)
<1>1. n \in Nat /\ Len(bs) \in Nat
  BY FieldTypes
<1>2. EncodedAfter(bs, fnc, b)
  BY DEF EncodedAfter
<1>3. ASSUME NEW k \in 1 .. n, NEW acc
      PROVE  Pass(bs, enc, acc, bs[b].inner[k]) = Pass(bs, fnc, acc, bs[b].inner[k])
  <2> DEFINE i == bs[b].inner[k]
  <2>1. /\ i \in b + 1 .. Len(bs)
        /\ bs[i].els # Null => bs[i].els \in b + 1 .. Len(bs)
    BY InnerAfter
  <2> HIDE DEF i
  <2>2. \A x \in b + 1 .. Len(bs) : enc[x] = fnc[x]
    BY <1>1
  <2>3. enc[i] = fnc[i] /\ (bs[i].els # Null => enc[bs[i].els] = fnc[bs[i].els])
    BY <2>1, <2>2
  <2>4. Pass(bs, enc, acc, i) = Pass(bs, fnc, acc, i)
    BY <2>3 DEF Pass
  <2> QED
    BY <2>4 DEF i
<1>4. /\ f[0] = start /\ g[0] = start
      /\ \A k \in 1 .. n : f[k] = Pass(bs, enc, f[k - 1], bs[b].inner[k])
      /\ \A k \in 1 .. n : g[k] = Pass(bs, fnc, g[k - 1], bs[b].inner[k])
  BY <1>2, PassesFacts
<1> HIDE DEF f, g
<1> DEFINE good == { k \in Nat : k <= n => f[k] = g[k] }
<1>5. 0 \in good
  BY <1>4
<1>6. ASSUME NEW k \in Nat, k \in good PROVE k + 1 \in good
  <2>1. k + 1 \in Nat /\ (k + 1) - 1 = k
    OBVIOUS
  <2> SUFFICES ASSUME k + 1 <= n PROVE f[k + 1] = g[k + 1]
    BY <2>1
  <2>2. k + 1 \in 1 .. n /\ f[k] = g[k]
    BY <1>1, <1>6
  <2> HIDE DEF n
  <2> QED
    BY <1>3, <1>4, <2>1, <2>2
<1>7. \A k \in Nat : k \in good
  <2> HIDE DEF good
  <2> QED BY <1>5, <1>6, SetInduction
<1>8. f[n] = g[n]
  BY <1>1, <1>7
<1> QED
  BY <1>8 DEF f, g

(* The encoding of a block depends on that of the blocks after it alone.   *)
LEMMA EncodeBlockFacts ==
  ASSUME NEW E, \A e \in E : e.id \in Nat, NEW bs \in Seq(BlockOf(E)), NEW e, GraphInv(bs, e),
         NEW b \in 1 .. Len(bs), NEW enc, EncodedAfter(bs, enc, b), NEW earlier \in Clock
  PROVE  /\ EncodeBlock(bs, enc, b, earlier) \in Encoded
         /\ \A fnc : (\A x \in 1 .. Len(bs) : x > b => enc[x] = fnc[x])
              => EncodeBlock(bs, enc, b, earlier) = EncodeBlock(bs, fnc, b, earlier)
<1> DEFINE start == AfterBody(bs[b].body, BodyClocks(bs[b].body, earlier))
<1>1. start \in Encoded
  <2>1. bs[b].body \in Seq(E)
    BY FieldTypes
  <2> QED
    BY <2>1, AfterBodyFacts
<1>2. Len(bs[b].inner) \in Nat
  BY FieldTypes
<1>3. \A fnc : EncodeBlock(bs, fnc, b, earlier) = Passes(bs, fnc, b, start)[Len(bs[b].inner)]
  BY DEF EncodeBlock
<1> HIDE DEF start
<1>4. Passes(bs, enc, b, start)[Len(bs[b].inner)] \in Encoded
  BY <1>1, <1>2, PassesFacts
<1>5. ASSUME NEW fnc, \A x \in 1 .. Len(bs) : x > b => enc[x] = fnc[x]
      PROVE  Passes(bs, enc, b, start)[Len(bs[b].inner)] = Passes(bs, fnc, b, start)[Len(bs[b].inner)]
  BY <1>1, <1>5, PassesSame
<1> QED
  BY <1>3, <1>4, <1>5
(* The recursive function that EncodeSpo is exists.                        *)
LEMMA EncodeExists ==
  ASSUME NEW E, \A e \in E : e.id \in Nat, NEW bs \in Seq(BlockOf(E)), NEW e, GraphInv(bs, e)
  PROVE  \E enc : enc = [b \in DOMAIN bs |-> [c \in Clock |-> EncodeBlock(bs, enc, b, c)]]
<1> DEFINE n == Len(bs)
           Of(f, b) == [c \in Clock |-> EncodeBlock(bs, f, b, c)]
           Late(j) == { b \in 1 .. n : b > n - j }
           Good(f, j) == /\ f = [b \in Late(j) |-> Of(f, b)]
                         /\ \A b \in Late(j) : f[b] \in [Clock -> Encoded]
           good == { j \in Nat : \E f : Good(f, j) }
<1>1. n \in Nat /\ DOMAIN bs = 1 .. n
  OBVIOUS
<1>2. 0 \in good
  <2>1. Late(0) = {}
    BY <1>1
  <2>2. Good([b \in Late(0) |-> 0], 0)
    BY <2>1
  <2> QED
    BY <2>2
<1>3. ASSUME NEW j \in Nat, j \in good PROVE j + 1 \in good
  <2>1. PICK old : Good(old, j)
    BY <1>3
  <2> DEFINE new == [b \in Late(j + 1) |-> Of(old, b)]
  <2>2. ASSUME NEW x \in Late(j) PROVE new[x] = old[x]
    <3>1. x \in Late(j + 1)
      BY <1>1
    <3>2. old[x] = Of(old, x)
      <4> HIDE DEF Of, Late
      <4> QED
        BY <2>1
    <3> HIDE DEF Of, Late
    <3> QED
      BY <3>1, <3>2
  <2>3. ASSUME NEW b \in Late(j + 1)
        PROVE  Of(old, b) = Of(new, b) /\ Of(old, b) \in [Clock -> Encoded]
    <3>1. b \in 1 .. Len(bs) /\ \A x \in 1 .. Len(bs) : x > b => x \in Late(j)
      BY <1>1
    <3>2. \A x \in 1 .. Len(bs) : x > b => old[x] = new[x] /\ old[x] \in [Clock -> Encoded]
      BY <2>1, <2>2, <3>1
    <3>3. EncodedAfter(bs, old, b)
      BY <3>2 DEF EncodedAfter
    <3> HIDE DEF new
    <3>4. \A c \in Clock : /\ EncodeBlock(bs, old, b, c) = EncodeBlock(bs, new, b, c)
                           /\ EncodeBlock(bs, old, b, c) \in Encoded
      BY <3>1, <3>2, <3>3, EncodeBlockFacts
    <3> QED
      BY <3>4
  <2>4. new = [b \in Late(j + 1) |-> Of(new, b)]
    <3>1. \A b \in Late(j + 1) : Of(old, b) = Of(new, b)
      BY <2>3
    <3>2. new = [b \in Late(j + 1) |-> Of(old, b)]
      OBVIOUS
    <3> HIDE DEF new, Of, Late
    <3> QED
      BY <3>1, <3>2
  <2>5. \A b \in Late(j + 1) : new[b] \in [Clock -> Encoded]
    <3> HIDE DEF Of, Late
    <3> QED
      BY <2>3
  <2>6. j + 1 \in Nat
    OBVIOUS
  <2> HIDE DEF new, Of, Late
  <2> QED
    BY <2>4, <2>5, <2>6, Zenon
<1>4. \A j \in Nat : j \in good
  <2> HIDE DEF good
  <2> QED BY <1>2, <1>3, SetInduction
<1>5. Late(n) = DOMAIN bs
  BY <1>1
<1>6. PICK f : Good(f, n)
  BY <1>1, <1>4
<1>7. f = [b \in DOMAIN bs |-> Of(f, b)]
  BY <1>5, <1>6
<1> QED
  BY <1>7, Zenon

(* It encodes each block with what it returns for the blocks inside.       *)
LEMMA EncodeFacts ==
  ASSUME NEW E, \A e \in E : e.id \in Nat, NEW s \in SliceOf(E), SliceInv(s)
  PROVE  /\ \A b \in 1 .. Len(s.blocks) : EncodeSpo(s)[b] \in [Clock -> Encoded]
         /\ \A b \in 1 .. Len(s.blocks) : \A c \in Clock :
              EncodeSpo(s)[b][c] = EncodeBlock(s.blocks, EncodeSpo(s), b, c)
<1> DEFINE bs == s.blocks
           ch == CHOOSE enc : enc = [b \in DOMAIN bs |-> [c \in Clock |-> EncodeBlock(bs, enc, b, c)]]
<1>1. EncodeSpo(s) = ch
  BY EncodeUnfolded
<1>2. bs \in Seq(BlockOf(E)) /\ GraphInv(bs, s.cur) /\ DOMAIN bs = 1 .. Len(bs) /\ Len(bs) \in Nat
  BY ArmBlockFacts DEF SliceInv
<1>3. ch = [b \in DOMAIN bs |-> [c \in Clock |-> EncodeBlock(bs, ch, b, c)]]
  <2> HIDE DEF bs
  <2>1. \E enc : enc = [b \in DOMAIN bs |-> [c \in Clock |-> EncodeBlock(bs, enc, b, c)]]
    BY <1>2, EncodeExists
  <2> QED
    BY <2>1, Zenon
<1> HIDE DEF ch
<1> DEFINE Of(b) == [c \in Clock |-> EncodeBlock(bs, ch, b, c)]
<1>4. \A b \in DOMAIN bs : ch[b] = Of(b)
  BY <1>3
<1>5. \A b \in DOMAIN bs : \A c \in Clock : Of(b)[c] = EncodeBlock(bs, ch, b, c)
  OBVIOUS
<1> DEFINE S == { b \in 1 .. Len(bs) : ch[b] \in [Clock -> Encoded] }
<1>6. ASSUME NEW b \in 1 .. Len(bs), \A x \in 1 .. Len(bs) : x > b => x \in S PROVE b \in S
  <2>1. EncodedAfter(bs, ch, b)
    BY <1>6 DEF EncodedAfter
  <2> HIDE DEF bs
  <2>2. \A c \in Clock : EncodeBlock(bs, ch, b, c) \in Encoded
    BY <1>2, <2>1, EncodeBlockFacts
  <2>3. Of(b) \in [Clock -> Encoded]
    BY <2>2
  <2> QED
    BY <1>2, <1>4, <2>3
<1>7. \A b \in 1 .. Len(bs) : b \in S
  <2> HIDE DEF S
  <2> QED
    BY <1>2, <1>6, DownInduction
<1> HIDE DEF Of, bs
<1> QED
  BY <1>1, <1>2, <1>4, <1>5, <1>7 DEF bs
-----------------------------------------------------------------------------
(* Each event has one block, its home h.                                   *)
Homes(bs, h, n) ==
  /\ h \in [1 .. n -> 1 .. Len(bs)]
  /\ \A b \in 1 .. Len(bs) : \A j \in 1 .. Len(bs[b].body) :
       bs[b].body[j].id \in 1 .. n /\ h[bs[b].body[j].id] = b

Placed(bs, lo, hi, h, n) == Apart(bs) /\ Numbered(bs, lo, hi, n) /\ Homes(bs, h, n)

(* The events in and inside block b.                                       *)
Interval(lo, hi, b) == lo[b] + 1 .. hi[b]

(* The numbers of a block are an interval.                                 *)
LEMMA IntervalFacts ==
  ASSUME NEW E, NEW s \in SliceOf(E), SliceInv(s),
         NEW lo, NEW hi, \A x \in 1 .. Len(s.blocks) : NumberedAt(s.blocks, lo, hi, x)
  PROVE  \A b \in 1 .. Len(s.blocks) : lo[b] \in Nat /\ hi[b] \in Nat /\ lo[b] <= hi[b]
<1> SUFFICES ASSUME NEW b \in 1 .. Len(s.blocks)
             PROVE  lo[b] \in Nat /\ hi[b] \in Nat /\ lo[b] <= hi[b]
  OBVIOUS
<1>1. Walk(s)[b] \in Seq(E) /\ Numbers(Walk(s)[b], lo[b], hi[b])
  BY WalkNumbers
<1>2. lo[b] \in Nat /\ hi[b] \in Nat
  BY DEF NumberedAt
<1>3. Len(Walk(s)[b]) \in Nat
  BY <1>1
<1>4. lo[b] + Len(Walk(s)[b]) = hi[b]
  BY <1>1 DEF Numbers
<1> QED
  BY <1>2, <1>3, <1>4

(* Inner blocks and their else blocks divide what follows the body: i is   *)
(* the k-th inner block of b.                                              *)
InnerBounds(bs, lo, hi, b, k, i) ==
  /\ i \in b + 1 .. Len(bs) /\ i \in 1 .. Len(bs) /\ bs[i].outer = b
  /\ lo[i] = StartOf(bs, lo, hi, b, k)
  /\ lo[i] \in Nat /\ hi[i] \in Nat /\ lo[i] <= hi[i]
  /\ bs[i].els = Null => StartOf(bs, lo, hi, b, k + 1) = hi[i]
  /\ bs[i].els # Null =>
       LET c == bs[i].els
       IN  /\ c \in b + 1 .. Len(bs) /\ c \in 1 .. Len(bs) /\ bs[c].outer = b
           /\ lo[c] = hi[i] /\ hi[c] \in Nat /\ lo[c] <= hi[c]
           /\ StartOf(bs, lo, hi, b, k + 1) = hi[c]

(* The numbers of an inner block lie within those of its outer block,      *)
(* after the body's and before the next one's.                             *)
LEMMA InnerIntervals ==
  ASSUME NEW E, NEW s \in SliceOf(E), SliceInv(s),
         NEW lo, NEW hi, \A x \in 1 .. Len(s.blocks) : NumberedAt(s.blocks, lo, hi, x),
         NEW b \in 1 .. Len(s.blocks), NEW k \in 1 .. Len(s.blocks[b].inner)
  PROVE  InnerBounds(s.blocks, lo, hi, b, k, s.blocks[b].inner[k])
<1> DEFINE bs == s.blocks
           i  == bs[b].inner[k]
<1>1. bs \in Seq(BlockOf(E)) /\ GraphInv(bs, s.cur) /\ Len(bs) \in Nat
  BY ArmBlockFacts DEF SliceInv
<1>2. /\ i \in b + 1 .. Len(bs) /\ i \in 1 .. Len(bs) /\ bs[i].outer = b
      /\ bs[i].els # Null => bs[i].els \in b + 1 .. Len(bs)
  <2> HIDE DEF bs
  <2>1. k \in 1 .. Len(bs[b].inner) /\ b \in 1 .. Len(bs)
    BY DEF bs
  <2> QED
    BY <1>1, <2>1, InnerAfter
<1>3. \A x \in 1 .. Len(bs) : lo[x] \in Nat /\ hi[x] \in Nat /\ lo[x] <= hi[x]
  BY IntervalFacts
<1>4. lo[i] = StartOf(bs, lo, hi, b, k)
  <2>1. NumberedAt(bs, lo, hi, b)
    OBVIOUS
  <2> QED
    BY <2>1 DEF NumberedAt
<1>5. StartOf(bs, lo, hi, b, k + 1) = EndOf(bs, hi, i)
  <2>1. Len(bs[b].inner) \in Nat
    BY <1>1, FieldTypes
  <2>2. k + 1 # 1 /\ (k + 1) - 1 = k
    BY <2>1
  <2> QED
    BY <2>2 DEF StartOf
<1>6. NumberedAt(bs, lo, hi, i) /\ ElseBeside(bs, i)
  BY <1>1, <1>2 DEF GraphInv
<1>7. ASSUME bs[i].els # Null
      PROVE  LET c == bs[i].els
             IN  /\ c \in b + 1 .. Len(bs) /\ c \in 1 .. Len(bs) /\ bs[c].outer = b
                 /\ lo[c] = hi[i] /\ hi[c] \in Nat /\ lo[c] <= hi[c]
                 /\ StartOf(bs, lo, hi, b, k + 1) = hi[c]
  <2> DEFINE c == bs[i].els
  <2>1. c \in b + 1 .. Len(bs) /\ c \in 1 .. Len(bs)
    BY <1>1, <1>2, <1>7
  <2>2. bs[c].outer = b /\ lo[c] = hi[i]
    BY <1>2, <1>6, <1>7 DEF ElseBeside, NumberedAt
  <2>3. EndOf(bs, hi, i) = hi[c]
    BY <1>7 DEF EndOf
  <2> HIDE DEF c, bs
  <2>4. hi[c] \in Nat /\ lo[c] <= hi[c]
    BY <1>3, <2>1
  <2>5. /\ c \in b + 1 .. Len(bs) /\ c \in 1 .. Len(bs) /\ bs[c].outer = b
        /\ lo[c] = hi[i] /\ hi[c] \in Nat /\ lo[c] <= hi[c]
        /\ StartOf(bs, lo, hi, b, k + 1) = hi[c]
    BY <1>5, <2>1, <2>2, <2>3, <2>4
  <2> QED
    BY <2>5 DEF c
<1>8. bs[i].els = Null => StartOf(bs, lo, hi, b, k + 1) = hi[i]
  BY <1>5 DEF EndOf
<1> HIDE DEF i, bs
<1>9. InnerBounds(bs, lo, hi, b, k, i)
  BY <1>2, <1>3, <1>4, <1>7, <1>8 DEF InnerBounds
<1> QED
  BY <1>9 DEF i, bs

(* Where the numbers are that come before those after the k-th inner block.*)
LEMMA IntervalCases ==
  ASSUME NEW E, NEW s \in SliceOf(E), SliceInv(s),
         NEW lo, NEW hi, \A x \in 1 .. Len(s.blocks) : NumberedAt(s.blocks, lo, hi, x),
         NEW b \in 1 .. Len(s.blocks)
  PROVE  /\ \A k \in 1 .. Len(s.blocks[b].inner) + 1 :
              StartOf(s.blocks, lo, hi, b, k) \in Nat
         /\ \A k \in 0 .. Len(s.blocks[b].inner) :
              \A x \in lo[b] + 1 .. StartOf(s.blocks, lo, hi, b, k + 1) :
                \/ x <= lo[b] + Len(s.blocks[b].body)
                \/ \E j \in 1 .. k : LET i == s.blocks[b].inner[j]
                                     IN  \/ x \in Interval(lo, hi, i)
                                         \/ /\ s.blocks[i].els # Null
                                            /\ x \in Interval(lo, hi, s.blocks[i].els)
<1> DEFINE bs == s.blocks
           m == Len(bs[b].inner)
           at(k) == StartOf(bs, lo, hi, b, k)
           Lies1(x, j) == LET i == bs[b].inner[j]
                          IN  \/ x \in Interval(lo, hi, i)
                              \/ bs[i].els # Null /\ x \in Interval(lo, hi, bs[i].els)
           Body == lo[b] + Len(bs[b].body)
           Fine(k) == at(k + 1) \in Nat /\ \A x \in lo[b] + 1 .. at(k + 1) :
                                              x <= Body \/ \E j \in 1 .. k : Lies1(x, j)
           good == { k \in Nat : k <= m => Fine(k) }
<1>1. m \in Nat /\ lo[b] \in Nat /\ Len(bs[b].body) \in Nat
  <2>1. bs \in Seq(BlockOf(E))
    BY ArmBlockFacts
  <2>2. bs[b].inner \in Seq(Nat) /\ bs[b].body \in Seq(E)
    BY <2>1, FieldTypes
  <2>3. lo[b] \in Nat
    BY IntervalFacts
  <2> QED
    BY <2>2, <2>3
<1>2. at(0 + 1) = Body
  BY DEF StartOf
<1>3. 0 \in good
  <2>1. Body \in Nat
    BY <1>1
  <2> HIDE DEF Body, at, Lies1
  <2> QED
    BY <1>1, <1>2, <2>1
<1>4. ASSUME NEW k \in Nat, k \in good PROVE k + 1 \in good
  <2>1. k + 1 \in Nat
    OBVIOUS
  <2> SUFFICES ASSUME k + 1 <= m PROVE Fine(k + 1)
    BY <2>1
  <2> DEFINE i == bs[b].inner[k + 1]
             c == bs[i].els
  <2>2. k + 1 \in 1 .. m
    BY <1>1
  <2>3. /\ lo[i] = at(k + 1) /\ lo[i] \in Nat /\ hi[i] \in Nat /\ lo[i] <= hi[i]
        /\ c = Null => at((k + 1) + 1) = hi[i]
        /\ c # Null => lo[c] = hi[i] /\ hi[c] \in Nat /\ lo[c] <= hi[c] /\ at((k + 1) + 1) = hi[c]
    <3>1. InnerBounds(bs, lo, hi, b, k + 1, i)
      BY <2>2, InnerIntervals
    <3> HIDE DEF i, bs
    <3> QED
      BY <3>1 DEF InnerBounds
  <2>4. \A x : Lies1(x, k + 1)
              <=> (x \in Interval(lo, hi, i) \/ (c # Null /\ x \in Interval(lo, hi, c)))
    OBVIOUS
  <2>5. Fine(k)
    BY <1>1, <1>4, <2>2
  <2> HIDE DEF i, c, at, Lies1, Body
  <2>6. at((k + 1) + 1) \in Nat
    BY <2>3
  <2>7. ASSUME NEW x \in lo[b] + 1 .. at((k + 1) + 1)
        PROVE  x <= Body \/ \E j \in 1 .. k + 1 : Lies1(x, j)
    <3>1. CASE x <= at(k + 1)
      <4>1. x \in lo[b] + 1 .. at(k + 1)
        BY <1>1, <2>5, <2>6, <3>1
      <4> QED
        BY <2>5, <4>1
    <3>2. CASE ~(x <= at(k + 1))
      <4>1. x \in Nat
        BY <1>1
      <4>2. Lies1(x, k + 1)
        BY <2>3, <2>4, <3>2, <4>1 DEF Interval
      <4>3. k + 1 \in 1 .. k + 1
        OBVIOUS
      <4> QED
        BY <4>2, <4>3
    <3> QED
      BY <3>1, <3>2
  <2> QED
    BY <2>6, <2>7
<1>5. \A k \in Nat : k \in good
  <2> HIDE DEF good
  <2> QED BY <1>3, <1>4, SetInduction
<1>6. \A k \in 0 .. m : Fine(k)
  BY <1>1, <1>5
<1>7. \A k \in 1 .. m + 1 : at(k) \in Nat
  <2> SUFFICES ASSUME NEW k \in 1 .. m + 1 PROVE at(k) \in Nat
    OBVIOUS
  <2>1. k - 1 \in 0 .. m /\ (k - 1) + 1 = k
    BY <1>1
  <2> HIDE DEF at, Lies1, Body, m
  <2> QED
    BY <1>6, <2>1
<1> QED
  BY <1>6, <1>7
(* The numbers of the body's events, and their home.                       *)
AtHome(bs, lo, h, n, b, x) ==
  /\ x \in 1 .. n /\ h[x] = b
  /\ x - lo[b] \in 1 .. Len(bs[b].body)
  /\ bs[b].body[x - lo[b]].id = x

(* The numbers of a body are those of the events in it.                    *)
LEMMA HomeOfBody ==
  ASSUME NEW E, NEW s \in SliceOf(E), SliceInv(s), NEW n \in Nat,
         NEW lo, NEW hi, NEW h, Placed(s.blocks, lo, hi, h, n),
         NEW b \in 1 .. Len(s.blocks), NEW x \in lo[b] + 1 .. lo[b] + Len(s.blocks[b].body)
  PROVE  AtHome(s.blocks, lo, h, n, b, x)
<1> DEFINE bs == s.blocks
           j  == x - lo[b]
<1>1. NumberedAt(bs, lo, hi, b) /\ Homes(bs, h, n)
  BY DEF Placed, Numbered
<1>2. lo[b] \in Nat /\ Len(bs[b].body) \in Nat
  <2>1. bs \in Seq(BlockOf(E))
    BY ArmBlockFacts
  <2>2. bs[b].body \in Seq(E)
    BY <2>1, FieldTypes
  <2> QED
    BY <1>1, <2>2 DEF NumberedAt
<1>3. j \in 1 .. Len(bs[b].body) /\ lo[b] + j = x
  BY <1>2
<1> HIDE DEF j
<1>4. bs[b].body[j].id = x
  BY <1>1, <1>3 DEF NumberedAt
<1>5. x \in 1 .. n /\ h[x] = b
  BY <1>1, <1>3, <1>4 DEF Homes
<1> QED
  BY <1>3, <1>4, <1>5 DEF j, AtHome

(* The blocks around the home of an event are those it lies inside of.     *)
Homed(s, lo, hi, h, n, b, x) ==
  /\ x \in 1 .. n
  /\ BlocksAround(s)[b] \subseteq BlocksAround(s)[h[x]]
  /\ \A c \in BlocksAround(s)[h[x]] : c \in BlocksAround(s)[b] \/ x \in Interval(lo, hi, c)

(* The numbers of a block are those of the events in it and the blocks     *)
(* inside of it.                                                           *)
LEMMA IntervalHomed ==
  ASSUME NEW E, NEW s \in SliceOf(E), SliceInv(s), NEW n \in Nat,
         NEW lo, NEW hi, NEW h, Placed(s.blocks, lo, hi, h, n)
  PROVE  \A b \in 1 .. Len(s.blocks) : \A x \in Interval(lo, hi, b) : Homed(s, lo, hi, h, n, b, x)
<1> DEFINE bs == s.blocks
           N == Len(bs)
           A == BlocksAround(s)
           H(b, x) == Homed(s, lo, hi, h, n, b, x)
           S == { b \in 1 .. N : \A x \in Interval(lo, hi, b) : H(b, x) }
<1>1. /\ bs \in Seq(BlockOf(E)) /\ N \in Nat /\ \A x \in 1 .. N : NumberedAt(bs, lo, hi, x)
  BY ArmBlockFacts DEF Placed, Numbered
<1>2. \A b \in 2 .. N : A[b] = {b} \union A[bs[b].outer]
  BY AroundFacts
<1>3. ASSUME NEW b \in 1 .. N, \A x \in 1 .. N : x > b => x \in S, NEW x \in Interval(lo, hi, b)
      PROVE  H(b, x)
  <2> DEFINE m == Len(bs[b].inner)
  <2>1. NumberedAt(bs, lo, hi, b) /\ m \in Nat /\ lo[b] \in Nat
    <3>1. bs[b].inner \in Seq(Nat)
      BY <1>1, FieldTypes
    <3>2. NumberedAt(bs, lo, hi, b)
      BY <1>1
    <3>3. lo[b] \in Nat
      BY <3>2 DEF NumberedAt
    <3> QED
      BY <3>1, <3>2, <3>3
  <2>2. x \in lo[b] + 1 .. StartOf(bs, lo, hi, b, m + 1)
    BY <2>1 DEF NumberedAt, Interval
  <2>3. \/ x <= lo[b] + Len(bs[b].body)
        \/ \E j \in 1 .. m : LET i == bs[b].inner[j]
                             IN  \/ x \in Interval(lo, hi, i)
                                 \/ bs[i].els # Null /\ x \in Interval(lo, hi, bs[i].els)
    <3>1. m \in 0 .. m
      BY <2>1
    <3>2. \A k \in 0 .. m : \A y \in lo[b] + 1 .. StartOf(bs, lo, hi, b, k + 1) :
                \/ y <= lo[b] + Len(bs[b].body)
                \/ \E j \in 1 .. k : LET i == bs[b].inner[j]
                                     IN  \/ y \in Interval(lo, hi, i)
                                         \/ bs[i].els # Null /\ y \in Interval(lo, hi, bs[i].els)
      BY <1>1, IntervalCases
    <3> HIDE DEF m, bs
    <3> QED
      BY <2>2, <3>1, <3>2
  <2>4. CASE x <= lo[b] + Len(bs[b].body)
    <3>1. x \in lo[b] + 1 .. lo[b] + Len(bs[b].body)
      <4>1. Len(bs[b].body) \in Nat
        <5>1. bs[b].body \in Seq(E)
          BY <1>1, FieldTypes
        <5> QED
          BY <5>1
      <4> QED
        BY <2>1, <2>4, <4>1 DEF Interval
    <3>2. AtHome(bs, lo, h, n, b, x)
      BY <3>1, HomeOfBody
    <3> QED
      BY <3>2 DEF Homed, AtHome
  <2>5. ASSUME NEW c \in 1 .. N, c > b, bs[c].outer = b, x \in Interval(lo, hi, c)
        PROVE  H(b, x)
    <3>1. H(c, x)
      BY <1>3, <2>5
    <3>2. c \in 2 .. N
      BY <1>1, <2>5
    <3>3. A[c] = {c} \union A[b]
      BY <1>2, <2>5, <3>2
    <3> HIDE DEF A
    <3> QED
      BY <2>5, <3>1, <3>3 DEF Homed, A
  <2>6. ASSUME NEW j \in 1 .. m, LET i == bs[b].inner[j]
                                IN  \/ x \in Interval(lo, hi, i)
                                    \/ bs[i].els # Null /\ x \in Interval(lo, hi, bs[i].els)
        PROVE  H(b, x)
    <3> DEFINE i == bs[b].inner[j]
    <3>1. InnerBounds(bs, lo, hi, b, j, i)
      BY <1>1, InnerIntervals
    <3>2. x \in Interval(lo, hi, i) \/ (bs[i].els # Null /\ x \in Interval(lo, hi, bs[i].els))
      BY <2>6
    <3> HIDE DEF i, bs
    <3>3. /\ i \in 1 .. N /\ i > b /\ bs[i].outer = b
          /\ bs[i].els # Null => bs[i].els \in 1 .. N /\ bs[i].els > b /\ bs[bs[i].els].outer = b
      BY <1>1, <3>1 DEF InnerBounds
    <3> QED
      BY <2>5, <3>2, <3>3
  <2> HIDE DEF H, m
  <2> QED
    BY <2>3, <2>4, <2>6
<1>4. ASSUME NEW b \in 1 .. N, \A x \in 1 .. N : x > b => x \in S PROVE b \in S
  BY <1>3, <1>4
<1>5. \A b \in 1 .. N : b \in S
  <2> HIDE DEF S
  <2> QED
    BY <1>1, <1>4, DownInduction
<1> QED
  BY <1>5

(* A block is around an event iff the event's number is one of the         *)
(* block's.                                                                *)
LEMMA AroundHome ==
  ASSUME NEW E, NEW s \in SliceOf(E), SliceInv(s), NEW n \in Nat,
         NEW lo, NEW hi, NEW h, Placed(s.blocks, lo, hi, h, n)
  PROVE  \A x \in 1 .. n : \A c \in 2 .. Len(s.blocks) :
           c \in BlocksAround(s)[h[x]] <=> x \in Interval(lo, hi, c)
<1> SUFFICES ASSUME NEW x \in 1 .. n, NEW c \in 2 .. Len(s.blocks)
             PROVE  c \in BlocksAround(s)[h[x]] <=> x \in Interval(lo, hi, c)
  OBVIOUS
<1>1. Root \in 1 .. Len(s.blocks) /\ c \in 1 .. Len(s.blocks)
  BY ArmBlockFacts DEF SliceInv, GraphInv, OuterMost, Root
<1>2. x \in Interval(lo, hi, Root)
  BY DEF Placed, Numbered, Interval
<1>3. Homed(s, lo, hi, h, n, Root, x)
  BY <1>1, <1>2, IntervalHomed
<1>4. x \in Interval(lo, hi, c) => Homed(s, lo, hi, h, n, c, x)
  BY <1>1, IntervalHomed
<1>5. BlocksAround(s)[Root] = {} /\ c \in BlocksAround(s)[c]
  BY AroundFacts
<1> QED
  BY <1>3, <1>4, <1>5 DEF Homed

-----------------------------------------------------------------------------
(* What a part of the encoding r, from the clock earlier on, does not say: *)
(* later[c] are the events that may come after clock c, from[c] these and  *)
(* the event of c itself.  If the events ahead may come after earlier,     *)
(* then those left may come after the part.                                *)
Sound(U, later, from, ahead, earlier, left, r) ==
  earlier \in U /\ ahead \subseteq later[earlier] =>
    /\ r.clock \in U /\ r.order \in SUBSET (U \X U)
    /\ left \subseteq later[r.clock]
    /\ \A c \in r.order : from[c[2]] \subseteq later[c[1]]

(* And what it says: the order T, if it has the part, puts the events in   *)
(* it after earlier and before its clock, and the pairs in ordered in      *)
(* order.                                                                  *)
EventAt(x) == <<"event", x>>

Until(T, a, b) == a = b \/ <<a, b>> \in T

Linked(T, ordered, events, earlier, r) ==
  r.order \subseteq T =>
    /\ Until(T, earlier, r.clock)
    /\ \A x \in events : <<earlier, EventAt(x)>> \in T /\ Until(T, EventAt(x), r.clock)
    /\ \A x \in events, y \in events : <<x, y>> \in ordered => <<EventAt(x), EventAt(y)>> \in T

(* Constraints stay within the intended order if it allows for more.       *)
LEMMA SoundLess ==
  ASSUME NEW U, NEW later, NEW from, NEW ahead, NEW earlier, NEW left, NEW r,
         Sound(U, later, from, ahead, earlier, left, r),
         NEW more, ahead \subseteq more, NEW less, less \subseteq left
  PROVE  Sound(U, later, from, more, earlier, less, r)
BY DEF Sound

(* Parts in a row.                                                         *)
LEMMA SoundRow ==
  ASSUME NEW U, NEW later, NEW from, NEW ahead, NEW earlier, NEW at, NEW acc,
         Sound(U, later, from, ahead, earlier, at, acc),
         NEW ahead1, NEW left, NEW then, Sound(U, later, from, ahead1, acc.clock, left, then),
         ahead1 \subseteq at,
         NEW r, r.clock = then.clock, r.order = acc.order \union then.order
  PROVE  Sound(U, later, from, ahead, earlier, left, r)
<1> SUFFICES ASSUME earlier \in U, ahead \subseteq later[earlier]
             PROVE  /\ r.clock \in U /\ r.order \in SUBSET (U \X U)
                    /\ left \subseteq later[r.clock]
                    /\ \A c \in r.order : from[c[2]] \subseteq later[c[1]]
  BY DEF Sound
<1>1. /\ acc.clock \in U /\ acc.order \in SUBSET (U \X U) /\ at \subseteq later[acc.clock]
      /\ \A c \in acc.order : from[c[2]] \subseteq later[c[1]]
  BY DEF Sound
<1>2. /\ then.clock \in U /\ then.order \in SUBSET (U \X U) /\ left \subseteq later[then.clock]
      /\ \A c \in then.order : from[c[2]] \subseteq later[c[1]]
  BY <1>1 DEF Sound
<1> QED
  BY <1>1, <1>2

(* One more clock after a part.                                            *)
LEMMA SoundClock ==
  ASSUME NEW U, NEW later, NEW from, NEW ahead, NEW earlier, NEW at, NEW acc,
         Sound(U, later, from, ahead, earlier, at, acc),
         NEW new \in U, from[new] \subseteq at, NEW left, left \subseteq later[new],
         NEW r, r.clock = new, r.order = acc.order \union {<<acc.clock, new>>}
  PROVE  Sound(U, later, from, ahead, earlier, left, r)
<1> SUFFICES ASSUME earlier \in U, ahead \subseteq later[earlier]
             PROVE  /\ r.clock \in U /\ r.order \in SUBSET (U \X U)
                    /\ left \subseteq later[r.clock]
                    /\ \A c \in r.order : from[c[2]] \subseteq later[c[1]]
  BY DEF Sound
<1>1. /\ acc.clock \in U /\ acc.order \in SUBSET (U \X U) /\ at \subseteq later[acc.clock]
      /\ \A c \in acc.order : from[c[2]] \subseteq later[c[1]]
  BY DEF Sound
<1>2. from[new] \subseteq later[acc.clock]
  BY <1>1
<1>3. <<acc.clock, new>> \in U \X U /\ <<acc.clock, new>>[1] = acc.clock /\ <<acc.clock, new>>[2] = new
  BY <1>1
<1>4. \A c \in r.order : c \in acc.order \/ c = <<acc.clock, new>>
  OBVIOUS
<1> QED
  BY <1>1, <1>2, <1>3, <1>4

(* Both arms of a branch, and the clock that joins them.                   *)
Joined(acc, then, else, new) ==
  [clock |-> new,
   order |-> acc.order \union then.order \union else.order \union
             { <<then.clock, new>>, <<else.clock, new>> }]

(* Joining the two arms of a branch stays within the intended order.       *)
LEMMA SoundArms ==
  ASSUME NEW U, NEW later, NEW from, NEW ahead, NEW earlier, NEW at, NEW acc,
         Sound(U, later, from, ahead, earlier, at, acc), NEW new \in U,
         NEW then, Sound(U, later, from, at, acc.clock, from[new], then),
         NEW else, Sound(U, later, from, at, acc.clock, from[new], else),
         NEW left, left \subseteq later[new]
  PROVE  Sound(U, later, from, ahead, earlier, left, Joined(acc, then, else, new))
<1> DEFINE r == Joined(acc, then, else, new)
<1>0. /\ r.clock = new
      /\ r.order = acc.order \union then.order \union else.order \union
                    { <<then.clock, new>>, <<else.clock, new>> }
  BY DEF Joined
<1> HIDE DEF r
<1> SUFFICES ASSUME earlier \in U, ahead \subseteq later[earlier]
             PROVE  /\ r.clock \in U /\ r.order \in SUBSET (U \X U)
                    /\ left \subseteq later[r.clock]
                    /\ \A c \in r.order : from[c[2]] \subseteq later[c[1]]
  BY DEF Sound, r
<1>1. /\ acc.clock \in U /\ acc.order \in SUBSET (U \X U) /\ at \subseteq later[acc.clock]
      /\ \A c \in acc.order : from[c[2]] \subseteq later[c[1]]
  BY DEF Sound
<1>2. /\ then.clock \in U /\ then.order \in SUBSET (U \X U) /\ from[new] \subseteq later[then.clock]
      /\ \A c \in then.order : from[c[2]] \subseteq later[c[1]]
  BY <1>1 DEF Sound
<1>3. /\ else.clock \in U /\ else.order \in SUBSET (U \X U) /\ from[new] \subseteq later[else.clock]
      /\ \A c \in else.order : from[c[2]] \subseteq later[c[1]]
  BY <1>1 DEF Sound
<1>4. /\ <<then.clock, new>> \in U \X U /\ from[<<then.clock, new>>[2]] \subseteq later[<<then.clock, new>>[1]]
      /\ <<else.clock, new>> \in U \X U /\ from[<<else.clock, new>>[2]] \subseteq later[<<else.clock, new>>[1]]
  BY <1>2, <1>3
<1>5. \A c \in r.order : \/ c \in acc.order \/ c \in then.order \/ c \in else.order
                         \/ c = <<then.clock, new>> \/ c = <<else.clock, new>>
  BY <1>0
<1>6. r.order \in SUBSET (U \X U)
  BY <1>1, <1>2, <1>3, <1>4, <1>5
<1>7. \A c \in r.order : from[c[2]] \subseteq later[c[1]]
  BY <1>1, <1>2, <1>3, <1>4, <1>5
<1> QED
  BY <1>0, <1>6, <1>7

(* Until is reflexive and transitive when T is transitive.                 *)
LEMMA UntilFacts ==
  ASSUME NEW T, Transitive(T), NEW a, NEW b, NEW c
  PROVE  /\ Until(T, a, a)
         /\ Until(T, a, b) /\ Until(T, b, c) => Until(T, a, c)
         /\ <<a, b>> \in T /\ Until(T, b, c) => <<a, c>> \in T
         /\ Until(T, a, b) /\ <<b, c>> \in T => <<a, c>> \in T
BY DEF Until, Transitive

(* What is linked, followed by what is linked, is linked.                  *)
LEMMA LinkedRow ==
  ASSUME NEW T, Transitive(T), NEW ordered, NEW events, NEW earlier, NEW acc,
         Linked(T, ordered, events, earlier, acc),
         NEW more, NEW then, Linked(T, ordered, more, acc.clock, then),
         NEW r, r.clock = then.clock, r.order = acc.order \union then.order,
         \A x \in events, y \in more : <<y, x>> \notin ordered
  PROVE  Linked(T, ordered, events \union more, earlier, r)
<1> SUFFICES ASSUME r.order \subseteq T
             PROVE  /\ Until(T, earlier, r.clock)
                    /\ \A x \in events \union more :
                         <<earlier, EventAt(x)>> \in T /\ Until(T, EventAt(x), r.clock)
                    /\ \A x \in events \union more, y \in events \union more :
                         <<x, y>> \in ordered => <<EventAt(x), EventAt(y)>> \in T
  BY DEF Linked
<1>1. /\ Until(T, earlier, acc.clock)
      /\ \A x \in events : <<earlier, EventAt(x)>> \in T /\ Until(T, EventAt(x), acc.clock)
      /\ \A x \in events, y \in events : <<x, y>> \in ordered => <<EventAt(x), EventAt(y)>> \in T
  BY DEF Linked
<1>2. /\ Until(T, acc.clock, then.clock)
      /\ \A x \in more : <<acc.clock, EventAt(x)>> \in T /\ Until(T, EventAt(x), then.clock)
      /\ \A x \in more, y \in more : <<x, y>> \in ordered => <<EventAt(x), EventAt(y)>> \in T
  BY DEF Linked
<1>3. Until(T, earlier, r.clock)
  BY <1>1, <1>2, UntilFacts
<1>4. ASSUME NEW x \in events
      PROVE  <<earlier, EventAt(x)>> \in T /\ Until(T, EventAt(x), r.clock)
  BY <1>1, <1>2, UntilFacts
<1>5. ASSUME NEW x \in more
      PROVE  <<earlier, EventAt(x)>> \in T /\ Until(T, EventAt(x), r.clock)
  BY <1>1, <1>2, UntilFacts
<1>6. ASSUME NEW x \in events, NEW y \in more PROVE <<EventAt(x), EventAt(y)>> \in T
  BY <1>1, <1>2, UntilFacts
<1> QED
  BY <1>1, <1>2, <1>3, <1>4, <1>5, <1>6

(* One more clock, an event's or not, is linked to what is before it.      *)
LEMMA LinkedClock ==
  ASSUME NEW T, Transitive(T), NEW ordered, NEW events, NEW earlier, NEW acc,
         Linked(T, ordered, events, earlier, acc),
         NEW new, NEW r, r.clock = new, r.order = acc.order \union {<<acc.clock, new>>}
  PROVE  /\ Linked(T, ordered, events, earlier, r)
         /\ \A x : /\ new = EventAt(x) /\ <<x, x>> \notin ordered
                   /\ \A y \in events : <<x, y>> \notin ordered
                   => Linked(T, ordered, events \union {x}, earlier, r)
<1>1. ASSUME r.order \subseteq T
      PROVE  /\ Until(T, earlier, acc.clock)
             /\ \A x \in events : <<earlier, EventAt(x)>> \in T /\ Until(T, EventAt(x), acc.clock)
             /\ \A x \in events, y \in events : <<x, y>> \in ordered => <<EventAt(x), EventAt(y)>> \in T
             /\ <<acc.clock, new>> \in T
  BY <1>1 DEF Linked
<1>2. ASSUME r.order \subseteq T
      PROVE  /\ <<earlier, new>> \in T
             /\ \A x \in events : <<EventAt(x), new>> \in T
  BY <1>1, <1>2, UntilFacts
<1>3. Linked(T, ordered, events, earlier, r)
  BY <1>1, <1>2 DEF Linked, Until
<1>4. ASSUME NEW x, new = EventAt(x), <<x, x>> \notin ordered, \A y \in events : <<x, y>> \notin ordered
      PROVE  Linked(T, ordered, events \union {x}, earlier, r)
  <2> SUFFICES ASSUME r.order \subseteq T
               PROVE  /\ Until(T, earlier, r.clock)
                      /\ \A z \in events \union {x} :
                           <<earlier, EventAt(z)>> \in T /\ Until(T, EventAt(z), r.clock)
                      /\ \A z \in events \union {x}, y \in events \union {x} :
                           <<z, y>> \in ordered => <<EventAt(z), EventAt(y)>> \in T
    BY DEF Linked
  <2>1. Until(T, earlier, r.clock)
    BY <1>2 DEF Until
  <2>2. \A z \in events \union {x} :
                           <<earlier, EventAt(z)>> \in T /\ Until(T, EventAt(z), r.clock)
    BY <1>1, <1>2, <1>4 DEF Until
  <2>3. \A z \in events \union {x}, y \in events \union {x} :
                           <<z, y>> \in ordered => <<EventAt(z), EventAt(y)>> \in T
    BY <1>1, <1>2, <1>4
  <2> QED
    BY <2>1, <2>2, <2>3
<1> QED
  BY <1>3, <1>4

(* The two arms of a branch are linked to what is before and to the join   *)
(* clock after them.                                                       *)
LEMMA LinkedArms ==
  ASSUME NEW T, Transitive(T), NEW ordered, NEW events, NEW earlier, NEW acc,
         Linked(T, ordered, events, earlier, acc),
         NEW more1, NEW then, Linked(T, ordered, more1, acc.clock, then),
         NEW more2, NEW else, Linked(T, ordered, more2, acc.clock, else),
         NEW new, NEW r, r.clock = new,
         r.order = acc.order \union then.order \union else.order \union
                   { <<then.clock, new>>, <<else.clock, new>> },
         \A x \in events, y \in more1 \union more2 : <<y, x>> \notin ordered,
         \A x \in more1, y \in more2 : <<x, y>> \notin ordered /\ <<y, x>> \notin ordered
  PROVE  Linked(T, ordered, events \union more1 \union more2, earlier, r)
<1> DEFINE all == events \union more1 \union more2
<1> SUFFICES ASSUME r.order \subseteq T
             PROVE  /\ Until(T, earlier, r.clock)
                    /\ \A x \in all :
                         <<earlier, EventAt(x)>> \in T /\ Until(T, EventAt(x), r.clock)
                    /\ \A x \in all, y \in all :
                         <<x, y>> \in ordered => <<EventAt(x), EventAt(y)>> \in T
  BY DEF Linked
<1>1. /\ Until(T, earlier, acc.clock)
      /\ \A x \in events : <<earlier, EventAt(x)>> \in T /\ Until(T, EventAt(x), acc.clock)
      /\ \A x \in events, y \in events : <<x, y>> \in ordered => <<EventAt(x), EventAt(y)>> \in T
  BY DEF Linked
<1>2. /\ Until(T, acc.clock, then.clock)
      /\ \A x \in more1 : <<acc.clock, EventAt(x)>> \in T /\ Until(T, EventAt(x), then.clock)
      /\ \A x \in more1, y \in more1 : <<x, y>> \in ordered => <<EventAt(x), EventAt(y)>> \in T
  BY DEF Linked
<1>3. /\ Until(T, acc.clock, else.clock)
      /\ \A x \in more2 : <<acc.clock, EventAt(x)>> \in T /\ Until(T, EventAt(x), else.clock)
      /\ \A x \in more2, y \in more2 : <<x, y>> \in ordered => <<EventAt(x), EventAt(y)>> \in T
  BY DEF Linked
<1>4. <<then.clock, new>> \in T /\ <<else.clock, new>> \in T
  OBVIOUS
<1>5. <<acc.clock, new>> \in T
  BY <1>2, <1>4, UntilFacts
<1>6. <<earlier, new>> \in T
  BY <1>1, <1>5, UntilFacts
<1>7. \A x \in events : <<earlier, EventAt(x)>> \in T /\ <<EventAt(x), new>> \in T
  BY <1>1, <1>5, UntilFacts
<1>8. \A x \in more1 : <<earlier, EventAt(x)>> \in T /\ <<EventAt(x), new>> \in T
  BY <1>1, <1>2, <1>4, UntilFacts
<1>9. \A x \in more2 : <<earlier, EventAt(x)>> \in T /\ <<EventAt(x), new>> \in T
  BY <1>1, <1>3, <1>4, UntilFacts
<1>10. \A x \in events, y \in more1 \union more2 : <<EventAt(x), EventAt(y)>> \in T
  BY <1>1, <1>2, <1>3, UntilFacts
<1>11. \A x \in all : <<earlier, EventAt(x)>> \in T /\ Until(T, EventAt(x), new)
  BY <1>7, <1>8, <1>9 DEF Until
<1>12. \A x \in all, y \in all : <<x, y>> \in ordered => <<EventAt(x), EventAt(y)>> \in T
  BY <1>1, <1>2, <1>3, <1>10
<1> HIDE DEF all
<1> QED
  BY <1>6, <1>11, <1>12 DEF Until

-----------------------------------------------------------------------------
(* The numbers of the shared events.                                       *)
SharedIds(bs, lo, h, n) == { x \in 1 .. n : IsShared(bs[h[x]].body[x - lo[h[x]]]) }

(* Those after number p that are in no else block whose then block is      *)
(* around block b.                                                         *)
Free(s, lo, hi, sh, b, p) ==
  { y \in sh : /\ p < y
               /\ \A i \in BlocksAround(s)[b] :
                    s.blocks[i].els # Null => y \notin Interval(lo, hi, s.blocks[i].els) }

Later(s, lo, hi, h, sh) ==
  [c \in Clock |-> CASE c[1] = "event" -> Free(s, lo, hi, sh, h[c[2]], c[2])
                     [] c[1] = "join"  -> Free(s, lo, hi, sh, s.blocks[c[2]].outer,
                                               hi[s.blocks[c[2]].els])
                     [] OTHER          -> sh]

From(later) == [c \in Clock |-> later[c] \union (IF c[1] = "event" THEN {c[2]} ELSE {})]

Ordered(s, lo, hi, h, sh) ==
  { p \in sh \X sh : p[1] < p[2] /\ p[2] \in Free(s, lo, hi, sh, h[p[1]], p[1]) }

(* The j-th event of the body of block b.                                  *)
BodyEvent(bs, lo, h, n, b, j) ==
  /\ lo[b] + j \in 1 .. n /\ h[lo[b] + j] = b
  /\ EventClock(bs[b].body[j]) = EventAt(lo[b] + j)
  /\ lo[b] + j \in SharedIds(bs, lo, h, n) <=> IsShared(bs[b].body[j])

(* The events of a body that are shared are those with a number in         *)
(* SharedIds.                                                              *)
LEMMA SharedBody ==
  ASSUME NEW E, NEW s \in SliceOf(E), SliceInv(s), NEW n \in Nat,
         NEW lo, NEW hi, NEW h, Placed(s.blocks, lo, hi, h, n),
         NEW b \in 1 .. Len(s.blocks), NEW j \in 1 .. Len(s.blocks[b].body)
  PROVE  BodyEvent(s.blocks, lo, h, n, b, j)
<1> DEFINE bs == s.blocks
           x == lo[b] + j
<1>1. NumberedAt(bs, lo, hi, b) /\ Homes(bs, h, n)
  BY DEF Placed, Numbered
<1>2. lo[b] \in Nat /\ bs[b].body[j].id = x
  BY <1>1 DEF NumberedAt
<1>3. bs[b].body[j].id \in 1 .. n /\ h[bs[b].body[j].id] = b
  BY <1>1 DEF Homes
<1>4. Len(bs[b].body) \in Nat
  <2>1. bs \in Seq(BlockOf(E))
    BY ArmBlockFacts
  <2>2. bs[b].body \in Seq(E)
    BY <2>1, FieldTypes
  <2> QED
    BY <2>2
<1>5. x - lo[b] = j
  BY <1>2, <1>4
<1> HIDE DEF x
<1>6. x \in 1 .. n /\ h[x] = b
  BY <1>2, <1>3
<1>7. x \in SharedIds(bs, lo, h, n) <=> IsShared(bs[b].body[j])
  BY <1>5, <1>6 DEF SharedIds
<1>8. EventClock(bs[b].body[j]) = EventAt(x)
  BY <1>2 DEF EventClock, EventAt
<1> QED
  BY <1>6, <1>7, <1>8 DEF x, BodyEvent

(* Fewer events are free after a later number.                             *)
LEMMA FreeDown ==
  ASSUME NEW s, NEW lo, NEW hi, NEW sh \in SUBSET Nat, NEW b, NEW p \in Nat, NEW q \in Nat, p <= q
  PROVE  Free(s, lo, hi, sh, b, q) \subseteq Free(s, lo, hi, sh, b, p)
<1> SUFFICES ASSUME NEW y, y \in Free(s, lo, hi, sh, b, q) PROVE y \in Free(s, lo, hi, sh, b, p)
  OBVIOUS
<1>1. y \in sh /\ q < y
  BY DEF Free
<1>2. p < y
  BY <1>1
<1> QED
  BY <1>1, <1>2 DEF Free

(* Inside an inner block i of block b, and its else block.                 *)
FreeInside(s, lo, hi, sh, b, i) ==
  LET c == s.blocks[i].els
      free(a, p) == Free(s, lo, hi, sh, a, p)
  IN  /\ c = Null => \A p \in Nat : free(i, p) = free(b, p)
      /\ c # Null =>
           /\ \A p \in Nat : free(c, p) = free(b, p) /\ free(i, p) \subseteq free(b, p)
           /\ free(b, hi[c]) \subseteq free(i, hi[i])
           /\ \A a \in 2 .. Len(s.blocks) : i \in BlocksAround(s)[a] =>
                \A p \in Nat : \A y \in Interval(lo, hi, c) : y \notin free(a, p)

(* What is free seen from an inner block and from its else block, compared *)
(* with what is free seen from their outer block.                          *)
LEMMA FreeInner ==
  ASSUME NEW E, NEW s \in SliceOf(E), SliceInv(s), Apart(s.blocks),
         NEW lo, NEW hi, NEW sh \in SUBSET Nat,
         NEW b \in 1 .. Len(s.blocks), NEW k, NEW i, InnerBounds(s.blocks, lo, hi, b, k, i)
  PROVE  FreeInside(s, lo, hi, sh, b, i)
<1> DEFINE bs == s.blocks
           A == BlocksAround(s)
           c == bs[i].els
<1>0. bs \in Seq(BlockOf(E)) /\ Len(bs) \in Nat
  BY ArmBlockFacts
<1>1. /\ i \in 2 .. Len(bs) /\ bs[i].outer = b
      /\ hi[i] \in Nat
      /\ c # Null => /\ c \in 2 .. Len(bs) /\ bs[c].outer = b
                     /\ lo[c] = hi[i] /\ hi[c] \in Nat /\ lo[c] <= hi[c]
  <2> HIDE DEF bs
  <2>1. b \in Nat /\ b >= 1 /\ b \in 1 .. Len(bs)
    BY <1>0 DEF bs
  <2>2. /\ i \in b + 1 .. Len(bs) /\ bs[i].outer = b /\ hi[i] \in Nat
        /\ c # Null => /\ c \in b + 1 .. Len(bs) /\ bs[c].outer = b
                       /\ lo[c] = hi[i] /\ hi[c] \in Nat /\ lo[c] <= hi[c]
    BY DEF InnerBounds, bs
  <2>3. \A x \in b + 1 .. Len(bs) : x \in 2 .. Len(bs)
    BY <1>0, <2>1
  <2> HIDE DEF c
  <2> QED
    BY <2>2, <2>3
<1>2. A[i] = {i} \union A[b] /\ (c # Null => A[c] = {c} \union A[b] /\ bs[c].els = Null)
  <2>1. i \in 1 .. Len(bs)
    BY <1>0, <1>1
  <2> QED
    BY <1>1, <2>1, AroundFacts DEF Apart
<1> HIDE DEF A, bs, c
<1> DEFINE free(a, p) == Free(s, lo, hi, sh, a, p)
<1>3. \A a, p, y : y \in free(a, p) <=>
         y \in sh /\ p < y /\ \A x \in A[a] : bs[x].els # Null => y \notin Interval(lo, hi, bs[x].els)
  BY DEF Free, A, bs
<1> HIDE DEF free
<1>4. c = Null => \A p \in Nat : free(i, p) = free(b, p)
  <2> SUFFICES ASSUME c = Null, NEW p \in Nat PROVE free(i, p) = free(b, p)
    OBVIOUS
  <2>1. \A y : y \in free(i, p) <=> y \in free(b, p)
    BY <1>2, <1>3 DEF c
  <2> QED
    BY <2>1
<1>5. c # Null => \A p \in Nat : free(c, p) = free(b, p) /\ free(i, p) \subseteq free(b, p)
  <2> SUFFICES ASSUME c # Null, NEW p \in Nat
               PROVE  free(c, p) = free(b, p) /\ free(i, p) \subseteq free(b, p)
    OBVIOUS
  <2>1. \A y : y \in free(c, p) <=> y \in free(b, p)
    BY <1>2, <1>3
  <2>2. \A y : y \in free(i, p) => y \in free(b, p)
    BY <1>2, <1>3
  <2> QED
    BY <2>1, <2>2
<1>6. c # Null => free(b, hi[c]) \subseteq free(i, hi[i])
  <2> SUFFICES ASSUME c # Null, NEW y, y \in free(b, hi[c]) PROVE y \in free(i, hi[i])
    OBVIOUS
  <2>1. y \in sh /\ hi[c] < y
    BY <1>3
  <2>2. hi[i] < y /\ y \notin Interval(lo, hi, c)
    <3>1. y \in Nat /\ hi[i] \in Nat /\ hi[c] \in Nat /\ hi[i] <= hi[c]
      BY <1>1, <2>1
    <3> QED
      BY <2>1, <3>1 DEF Interval
  <2> QED
    BY <1>2, <1>3, <2>1, <2>2 DEF c
<1>7. c # Null => \A a \in 2 .. Len(bs) : i \in A[a] =>
                    \A p \in Nat : \A y \in Interval(lo, hi, c) : y \notin free(a, p)
  BY <1>3 DEF c
<1> QED
  BY <1>4, <1>5, <1>6, <1>7 DEF FreeInside, A, bs, c, free

(* An event of the body may come after the number before its own.          *)
LEMMA FreeBody ==
  ASSUME NEW E, NEW s \in SliceOf(E), SliceInv(s), NEW n \in Nat,
         NEW lo, NEW hi, NEW h, Placed(s.blocks, lo, hi, h, n),
         NEW sh \in SUBSET (1 .. n), NEW x \in sh, NEW p \in Nat, p < x
  PROVE  x \in Free(s, lo, hi, sh, h[x], p)
<1> DEFINE bs == s.blocks
           A == BlocksAround(s)
<1>0. bs \in Seq(BlockOf(E)) /\ Len(bs) \in Nat
  BY ArmBlockFacts
<1>1. x \in 1 .. n /\ h[x] \in 1 .. Len(bs)
  BY DEF Placed, Homes
<1>2. ASSUME NEW i \in A[h[x]], bs[i].els # Null PROVE x \notin Interval(lo, hi, bs[i].els)
  <2>1. i \in 2 .. h[x]
    BY <1>1, AroundBounds
  <2>2. i \in 2 .. Len(bs) /\ i \in 1 .. Len(bs)
    BY <1>0, <1>1, <2>1
  <2>3. x \in Interval(lo, hi, i)
    BY <1>1, <1>2, <2>2, AroundHome
  <2>4. NumberedAt(bs, lo, hi, i)
    BY <2>2 DEF Placed, Numbered
  <2>5. hi[i] \in Nat /\ lo[bs[i].els] = hi[i]
    BY <1>2, <2>4 DEF NumberedAt
  <2> QED
    BY <2>3, <2>5 DEF Interval
<1> QED
  BY <1>1, <1>2 DEF Free

-----------------------------------------------------------------------------
(* r is the encoding of block b up to the event p, from the clock earlier. *)
Spanned(s, lo, hi, h, sh, U, T, b, p, earlier, r) ==
  /\ Sound(U, Later(s, lo, hi, h, sh), From(Later(s, lo, hi, h, sh)),
           Free(s, lo, hi, sh, b, lo[b]), earlier, Free(s, lo, hi, sh, b, p), r)
  /\ Linked(T, Ordered(s, lo, hi, h, sh), sh \cap (lo[b] + 1 .. p), earlier, r)

Clocks(m) == {"epoch", "event", "join"} \X (0 .. m)

(* Two events are in the intended order iff the later one is free after    *)
(* the first.                                                              *)
LEMMA OrderedFacts ==
  ASSUME NEW s, NEW lo, NEW hi, NEW h, NEW sh \in SUBSET Nat, NEW x \in Nat, NEW y \in Nat
  PROVE  /\ <<x, y>> \in Ordered(s, lo, hi, h, sh) <=>
              x \in sh /\ y \in sh /\ x < y /\ y \in Free(s, lo, hi, sh, h[x], x)
         /\ y <= x => <<x, y>> \notin Ordered(s, lo, hi, h, sh)
<1>1. <<x, y>>[1] = x /\ <<x, y>>[2] = y
  OBVIOUS
<1>2. <<x, y>> \in Ordered(s, lo, hi, h, sh) <=>
              x \in sh /\ y \in sh /\ x < y /\ y \in Free(s, lo, hi, sh, h[x], x)
  BY <1>1 DEF Ordered
<1>3. y <= x => ~(x < y)
  OBVIOUS
<1> QED
  BY <1>2, <1>3

(* Which events are later than a clock, for each kind of clock.            *)
LEMMA LaterFacts ==
  ASSUME NEW s, NEW lo, NEW hi, NEW h, NEW sh
  PROVE  /\ \A x \in Nat :
              /\ EventAt(x) \in Clock
              /\ Later(s, lo, hi, h, sh)[EventAt(x)] = Free(s, lo, hi, sh, h[x], x)
              /\ From(Later(s, lo, hi, h, sh))[EventAt(x)] = Free(s, lo, hi, sh, h[x], x) \union {x}
         /\ \A i \in Nat : LET free == Free(s, lo, hi, sh, s.blocks[i].outer, hi[s.blocks[i].els])
                           IN  /\ Later(s, lo, hi, h, sh)[JoinClock(i)] = free
                               /\ From(Later(s, lo, hi, h, sh))[JoinClock(i)] = free
         /\ Later(s, lo, hi, h, sh)[Epoch] = sh
<1> DEFINE later == Later(s, lo, hi, h, sh)
<1>1. \A x \in Nat : /\ EventAt(x) \in Clock /\ EventAt(x)[1] = "event" /\ EventAt(x)[2] = x
                     /\ JoinClock(x) \in Clock /\ JoinClock(x)[1] = "join" /\ JoinClock(x)[2] = x
  BY DEF EventAt, JoinClock, Clock
<1>2. Epoch \in Clock /\ Epoch[1] = "epoch"
  BY ClockFacts
<1> DEFINE val(c) == CASE c[1] = "event" -> Free(s, lo, hi, sh, h[c[2]], c[2])
                     [] c[1] = "join"  -> Free(s, lo, hi, sh, s.blocks[c[2]].outer,
                                               hi[s.blocks[c[2]].els])
                     [] OTHER          -> sh
<1>3. \A c \in Clock : later[c] = val(c)
  BY DEF Later
<1>4. \A c : /\ c[1] = "event" => val(c) = Free(s, lo, hi, sh, h[c[2]], c[2])
             /\ c[1] = "join" => val(c) = Free(s, lo, hi, sh, s.blocks[c[2]].outer,
                                               hi[s.blocks[c[2]].els])
             /\ c[1] = "epoch" => val(c) = sh
  OBVIOUS
<1> HIDE DEF later, val
<1>5. \A c \in Clock : From(later)[c] = later[c] \union (IF c[1] = "event" THEN {c[2]} ELSE {})
  BY DEF From
<1>6. \A x \in Nat : /\ EventAt(x) \in Clock
                     /\ later[EventAt(x)] = Free(s, lo, hi, sh, h[x], x)
                     /\ From(later)[EventAt(x)] = Free(s, lo, hi, sh, h[x], x) \union {x}
  BY <1>1, <1>3, <1>4, <1>5
<1>7. ASSUME NEW i \in Nat
      PROVE  LET free == Free(s, lo, hi, sh, s.blocks[i].outer, hi[s.blocks[i].els])
             IN  later[JoinClock(i)] = free /\ From(later)[JoinClock(i)] = free
  <2>1. later[JoinClock(i)] = Free(s, lo, hi, sh, s.blocks[i].outer, hi[s.blocks[i].els])
    BY <1>1, <1>3, <1>4
  <2>2. From(later)[JoinClock(i)] = later[JoinClock(i)]
    <3>1. JoinClock(i) \in Clock /\ JoinClock(i)[1] # "event"
      BY <1>1
    <3> QED
      BY <1>5, <3>1
  <2> QED
    BY <2>1, <2>2
<1>8. later[Epoch] = sh
  BY <1>2, <1>3, <1>4
<1> QED
  BY <1>6, <1>7, <1>8 DEF later

-----------------------------------------------------------------------------
(* The first j events of a body.                                           *)
BodyPart(body, f, j) ==
  [clock |-> f[j],
   order |-> { <<f[i - 1], EventClock(body[i])>> : i \in { k \in 1 .. j : IsShared(body[k]) } }]

(* The clocks of a body are those of its events one by one.                *)
LEMMA BodyPartFacts ==
  ASSUME NEW E, NEW body \in Seq(E), NEW f
  PROVE  /\ AfterBody(body, f) = BodyPart(body, f, Len(body))
         /\ BodyPart(body, f, 0).clock = f[0] /\ BodyPart(body, f, 0).order = {}
         /\ \A j \in 0 .. Len(body) - 1 :
              /\ BodyPart(body, f, j + 1).clock = f[j + 1]
              /\ BodyPart(body, f, j + 1).order =
                   BodyPart(body, f, j).order \union
                   (IF IsShared(body[j + 1]) THEN {<<BodyPart(body, f, j).clock, EventClock(body[j + 1])>>}
                    ELSE {})
<1>1. AfterBody(body, f) = BodyPart(body, f, Len(body))
  <2>1. DOMAIN body = 1 .. Len(body)
    OBVIOUS
  <2> QED
    BY <2>1 DEF AfterBody, BodyPart
<1>2. \A j : /\ BodyPart(body, f, j).clock = f[j]
             /\ BodyPart(body, f, j).order =
                  { <<f[i - 1], EventClock(body[i])>> : i \in { k \in 1 .. j : IsShared(body[k]) } }
  BY DEF BodyPart
<1>3. BodyPart(body, f, 0).order = {}
  <2>1. { k \in 1 .. 0 : IsShared(body[k]) } = {}
    OBVIOUS
  <2> QED
    BY <1>2, <2>1
<1>4. ASSUME NEW j \in 0 .. Len(body) - 1
      PROVE  BodyPart(body, f, j + 1).order =
                   BodyPart(body, f, j).order \union
                   (IF IsShared(body[j + 1]) THEN {<<BodyPart(body, f, j).clock, EventClock(body[j + 1])>>}
                    ELSE {})
  <2> DEFINE at(k) == { i \in 1 .. k : IsShared(body[i]) }
             pair(i) == <<f[i - 1], EventClock(body[i])>>
  <2>1. j \in Nat /\ (j + 1) - 1 = j
    OBVIOUS
  <2>2. at(j + 1) = at(j) \union (IF IsShared(body[j + 1]) THEN {j + 1} ELSE {})
    <3>1. \A i : i \in 1 .. j + 1 <=> i \in 1 .. j \/ i = j + 1
      BY <2>1
    <3> QED
      BY <3>1
  <2>3. pair(j + 1) = <<f[j], EventClock(body[j + 1])>>
    BY <2>1
  <2> HIDE DEF at, pair
  <2>4. { pair(i) : i \in at(j + 1) }
          = { pair(i) : i \in at(j) } \union (IF IsShared(body[j + 1]) THEN {pair(j + 1)} ELSE {})
    BY <2>2
  <2> QED
    BY <1>2, <2>3, <2>4 DEF at, pair
<1> QED
  BY <1>1, <1>2, <1>3, <1>4

(* The encoding of a part of a body is sound and linked.                   *)
LEMMA SpanBody ==
  ASSUME NEW E, \A e \in E : e.id \in Nat, NEW s \in SliceOf(E), SliceInv(s), NEW n \in Nat,
         NEW lo, NEW hi, NEW h, Placed(s.blocks, lo, hi, h, n),
         NEW sh, sh = SharedIds(s.blocks, lo, h, n), NEW m \in Nat, n <= m,
         NEW T, Transitive(T), NEW b \in 1 .. Len(s.blocks), NEW earlier \in Clock
  PROVE  \A j \in 0 .. Len(s.blocks[b].body) :
           Spanned(s, lo, hi, h, sh, Clocks(m), T, b, lo[b] + j, earlier,
                   BodyPart(s.blocks[b].body, BodyClocks(s.blocks[b].body, earlier), j))
<1> DEFINE body == s.blocks[b].body
           f == BodyClocks(body, earlier)
           r(j) == BodyPart(body, f, j)
           later == Later(s, lo, hi, h, sh)
           free(p) == Free(s, lo, hi, sh, b, p)
           in(p) == sh \cap (lo[b] + 1 .. p)
           ordered == Ordered(s, lo, hi, h, sh)
           Fine(j) == /\ Sound(Clocks(m), later, From(later), free(lo[b]), earlier, free(lo[b] + j), r(j))
                      /\ Linked(T, ordered, in(lo[b] + j), earlier, r(j))
           good == { j \in Nat : j <= Len(body) => Fine(j) }
<1>1. body \in Seq(E) /\ Len(body) \in Nat /\ lo[b] \in Nat /\ sh \in SUBSET (1 .. n) /\ sh \in SUBSET Nat
  <2>1. s.blocks \in Seq(BlockOf(E))
    BY ArmBlockFacts
  <2>2. body \in Seq(E)
    BY <2>1, FieldTypes
  <2>3. NumberedAt(s.blocks, lo, hi, b)
    BY DEF Placed, Numbered
  <2>4. sh \in SUBSET (1 .. n)
    BY DEF SharedIds
  <2> QED
    BY <2>2, <2>3, <2>4 DEF NumberedAt
<1>2. /\ f[0] = earlier
      /\ \A j \in 1 .. Len(body) :
           f[j] = IF IsShared(body[j]) THEN EventClock(body[j]) ELSE f[j - 1]
  BY <1>1, BodyFacts
<1>3. \A j \in 1 .. Len(body) :
         /\ lo[b] + j \in 1 .. n /\ h[lo[b] + j] = b
         /\ EventClock(body[j]) = EventAt(lo[b] + j)
         /\ lo[b] + j \in sh <=> IsShared(body[j])
  <2> SUFFICES ASSUME NEW j \in 1 .. Len(body)
               PROVE  /\ lo[b] + j \in 1 .. n /\ h[lo[b] + j] = b
                      /\ EventClock(body[j]) = EventAt(lo[b] + j)
                      /\ lo[b] + j \in sh <=> IsShared(body[j])
    OBVIOUS
  <2>1. BodyEvent(s.blocks, lo, h, n, b, j)
    BY SharedBody
  <2> QED
    BY <2>1 DEF BodyEvent
<1> HIDE DEF body, f
<1>4. /\ r(0).clock = f[0] /\ r(0).order = {}
      /\ \A j \in 0 .. Len(body) - 1 :
           /\ r(j + 1).clock = f[j + 1]
           /\ r(j + 1).order = r(j).order \union
                 (IF IsShared(body[j + 1]) THEN {<<r(j).clock, EventClock(body[j + 1])>>} ELSE {})
  BY <1>1, BodyPartFacts
<1>5. \A p, q \in Nat : p <= q => free(q) \subseteq free(p)
  BY <1>1, FreeDown
<1>6. \A x \in sh : \A p \in Nat : p < x => x \in Free(s, lo, hi, sh, h[x], p)
  BY <1>1, FreeBody
<1>7. \A x \in Nat : /\ later[EventAt(x)] = Free(s, lo, hi, sh, h[x], x)
                     /\ From(later)[EventAt(x)] = Free(s, lo, hi, sh, h[x], x) \union {x}
  BY LaterFacts
<1>8. \A x \in Nat : \A y \in Nat : y <= x => <<x, y>> \notin ordered
  BY <1>1, OrderedFacts
<1> HIDE DEF r, later, ordered
<1>9. 0 \in good
  <2>1. lo[b] + 0 = lo[b] /\ in(lo[b]) = {}
    BY <1>1
  <2>2. Sound(Clocks(m), later, From(later), free(lo[b]), earlier, free(lo[b]), r(0))
    BY <1>2, <1>4 DEF Sound
  <2>3. Linked(T, ordered, {}, earlier, r(0))
    BY <1>2, <1>4 DEF Linked, Until
  <2> HIDE DEF free, in
  <2> QED
    BY <2>1, <2>2, <2>3
<1>10. ASSUME NEW j \in Nat, j \in good PROVE j + 1 \in good
  <2> DEFINE x == lo[b] + (j + 1)
             p == lo[b] + j
  <2>1. j + 1 \in Nat
    OBVIOUS
  <2> SUFFICES ASSUME j + 1 <= Len(body) PROVE Fine(j + 1)
    BY <2>1
  <2>2. j \in 0 .. Len(body) - 1 /\ j + 1 \in 1 .. Len(body) /\ (j + 1) - 1 = j
    BY <1>1
  <2>3. Fine(j)
    BY <1>1, <1>10
  <2>4. x \in Nat /\ p \in Nat /\ p + 1 = x /\ p <= x /\ p < x /\ lo[b] <= p
    <3>1. lo[b] \in Nat
      BY <1>1
    <3> HIDE DEF good, Fine
    <3> QED
      BY <3>1
  <2>5. x \in 1 .. n /\ h[x] = b /\ (x \in sh <=> IsShared(body[j + 1]))
        /\ EventClock(body[j + 1]) = EventAt(x)
    BY <1>3, <2>2
  <2>6. r(j + 1).clock = IF IsShared(body[j + 1]) THEN EventAt(x) ELSE f[j]
    BY <1>2, <1>4, <2>2, <2>5
  <2>7. r(j).clock = f[j]
    BY DEF r, BodyPart
  <2>8. in(x) = in(p) \union (IF x \in sh THEN {x} ELSE {})
    <3>1. \A y : y \in lo[b] + 1 .. x <=> y \in lo[b] + 1 .. p \/ y = x
      BY <1>1, <2>4
    <3> QED
      BY <3>1
  <2>8a. \A y \in in(p) : y \in Nat /\ y <= x
    BY <1>1, <2>4
  <2> HIDE DEF x, p, in
  <2>9. free(x) \subseteq free(p)
    BY <1>5, <2>4
  <2>10. CASE IsShared(body[j + 1])
    <3>1. r(j + 1).clock = EventAt(x) /\ r(j + 1).order = r(j).order \union {<<r(j).clock, EventAt(x)>>}
      BY <1>4, <2>2, <2>5, <2>6, <2>10
    <3>2. EventAt(x) \in Clocks(m)
      <4>1. x \in 0 .. m
        BY <1>1, <2>5
      <4> QED
        BY <4>1 DEF EventAt, Clocks
    <3>3. From(later)[EventAt(x)] \subseteq free(p) /\ free(x) \subseteq later[EventAt(x)]
      <4>1. x \in free(p)
        BY <1>6, <2>4, <2>5, <2>10
      <4>2. later[EventAt(x)] = free(x) /\ From(later)[EventAt(x)] = free(x) \union {x}
        BY <1>7, <2>4, <2>5
      <4> HIDE DEF free
      <4> QED
        BY <2>9, <4>1, <4>2
    <3> HIDE DEF free
    <3>4. Sound(Clocks(m), later, From(later), free(lo[b]), earlier, free(x), r(j + 1))
      <4>1. Sound(Clocks(m), later, From(later), free(lo[b]), earlier, free(p), r(j))
        BY <2>3 DEF p
      <4> QED
        BY <3>1, <3>2, <3>3, <4>1, SoundClock
    <3>5. Linked(T, ordered, in(p) \union {x}, earlier, r(j + 1))
      <4>1. Linked(T, ordered, in(p), earlier, r(j))
        BY <2>3 DEF p
      <4>2. <<x, x>> \notin ordered /\ \A y \in in(p) : <<x, y>> \notin ordered
        BY <1>8, <2>4, <2>8a
      <4> QED
        BY <3>1, <4>1, <4>2, LinkedClock
    <3>6. in(x) = in(p) \union {x}
      BY <2>5, <2>8, <2>10
    <3> QED
      BY <3>4, <3>5, <3>6 DEF x
  <2>11. CASE ~IsShared(body[j + 1])
    <3>1. r(j + 1).clock = r(j).clock /\ r(j + 1).order = r(j).order
      BY <1>4, <2>2, <2>6, <2>7, <2>11
    <3>2. in(x) = in(p)
      BY <2>5, <2>8, <2>11
    <3> HIDE DEF free
    <3>3. Sound(Clocks(m), later, From(later), free(lo[b]), earlier, free(p), r(j))
      BY <2>3 DEF p
    <3>4. Sound(Clocks(m), later, From(later), free(lo[b]), earlier, free(x), r(j + 1))
      BY <2>9, <3>1, <3>3 DEF Sound
    <3>5. Linked(T, ordered, in(p), earlier, r(j))
      BY <2>3 DEF p
    <3>6. Linked(T, ordered, in(x), earlier, r(j + 1))
      BY <3>1, <3>2, <3>5 DEF Linked
    <3> QED
      BY <3>4, <3>6 DEF x
  <2> QED
    BY <2>10, <2>11
<1>11. \A j \in Nat : j \in good
  <2> HIDE DEF good
  <2> QED BY <1>9, <1>10, SetInduction
<1>12. \A j \in 0 .. Len(body) : Fine(j)
  BY <1>1, <1>11
<1> QED
  BY <1>12 DEF Spanned, body, f, r, later, ordered

-----------------------------------------------------------------------------
(* Past an inner block i of block b, and its else block.                   *)
LEMMA SpanInner ==
  ASSUME NEW E, NEW s \in SliceOf(E), SliceInv(s), NEW n \in Nat,
         NEW lo, NEW hi, NEW h, Placed(s.blocks, lo, hi, h, n), NEW sh \in SUBSET (1 .. n),
         NEW m \in Nat, Len(s.blocks) <= m, NEW T, Transitive(T),
         NEW b \in 1 .. Len(s.blocks), lo[b] \in Nat,
         NEW k, NEW i, InnerBounds(s.blocks, lo, hi, b, k, i),
         lo[b] <= lo[i], NEW earlier, NEW enc, NEW acc,
         Spanned(s, lo, hi, h, sh, Clocks(m), T, b, lo[i], earlier, acc),
         Spanned(s, lo, hi, h, sh, Clocks(m), T, i, hi[i], acc.clock, enc[i][acc.clock]),
         s.blocks[i].els # Null =>
           Spanned(s, lo, hi, h, sh, Clocks(m), T, s.blocks[i].els, hi[s.blocks[i].els],
                   acc.clock, enc[s.blocks[i].els][acc.clock])
  PROVE  Spanned(s, lo, hi, h, sh, Clocks(m), T, b, StartOf(s.blocks, lo, hi, b, k + 1), earlier,
                 Pass(s.blocks, enc, acc, i))
<1> DEFINE bs == s.blocks
           p == lo[i]
           q == StartOf(bs, lo, hi, b, k + 1)
           c == bs[i].els
           U == Clocks(m)
           then == enc[i][acc.clock]
           else == enc[c][acc.clock]
           r == Pass(bs, enc, acc, i)
           later == Later(s, lo, hi, h, sh)
           free(a, x) == Free(s, lo, hi, sh, a, x)
           ordered == Ordered(s, lo, hi, h, sh)
           in(a, x) == sh \cap (lo[a] + 1 .. x)
<1>0. Len(bs) \in Nat /\ sh \in SUBSET Nat
  BY ArmBlockFacts
<1>1. /\ i \in 1 .. Len(bs) /\ i \in Nat /\ bs[i].outer = b /\ lo[i] = p
      /\ p \in Nat /\ hi[i] \in Nat /\ p <= hi[i]
      /\ c = Null => q = hi[i]
      /\ c # Null => lo[c] = hi[i] /\ hi[c] \in Nat /\ lo[c] <= hi[c] /\ q = hi[c]
  <2>1. i \in Nat
    BY <1>0 DEF InnerBounds
  <2> QED
    BY <2>1 DEF InnerBounds
<1>3. FreeInside(s, lo, hi, sh, b, i)
  BY <1>0, FreeInner DEF Placed
<1>4. /\ Sound(U, later, From(later), free(b, lo[b]), earlier, free(b, p), acc)
      /\ Linked(T, ordered, in(b, p), earlier, acc)
  BY DEF Spanned
<1>5. /\ Sound(U, later, From(later), free(i, p), acc.clock, free(i, hi[i]), then)
      /\ Linked(T, ordered, in(i, hi[i]), acc.clock, then)
  BY <1>1 DEF Spanned
<1>6. c # Null => /\ Sound(U, later, From(later), free(c, lo[c]), acc.clock, free(c, hi[c]), else)
                  /\ Linked(T, ordered, in(c, hi[c]), acc.clock, else)
  BY DEF Spanned
<1>7. \A x, y \in Nat : y <= x => <<x, y>> \notin ordered
  BY <1>0, OrderedFacts
<1>8. ASSUME c # Null, NEW x \in in(i, hi[i]), NEW y \in in(c, hi[c])
      PROVE  <<x, y>> \notin ordered /\ <<y, x>> \notin ordered
  <2>1. x \in 1 .. n /\ x \in Nat /\ y \in Nat /\ x \in Interval(lo, hi, i) /\ y \in Interval(lo, hi, c)
    BY DEF Interval
  <2>2. x <= y
    BY <1>1, <1>8, <2>1 DEF Interval
  <2>3. h[x] \in 1 .. Len(bs)
    BY <2>1 DEF Placed, Homes
  <2>4. i \in 2 .. Len(bs)
    <3>1. i \in b + 1 .. Len(bs) /\ b \in Nat /\ b >= 1
      BY <1>0 DEF InnerBounds
    <3> QED
      BY <1>0, <3>1
  <2>5. i \in BlocksAround(s)[h[x]]
    BY <2>1, <2>4, AroundHome
  <2>6. h[x] # Root
    BY <2>5, AroundFacts
  <2>7. h[x] \in 2 .. Len(bs)
    BY <1>0, <2>3, <2>6 DEF Root
  <2>8. y \notin free(h[x], x)
    BY <1>3, <1>8, <2>1, <2>5, <2>7 DEF FreeInside
  <2>9. <<x, y>> \notin ordered
    BY <1>0, <2>1, <2>8, OrderedFacts
  <2> QED
    BY <1>7, <2>1, <2>2, <2>9
<1>9. JoinClock(i) \in U /\ (later[JoinClock(i)] = free(b, hi[c])) /\ (From(later)[JoinClock(i)] = free(b, hi[c]))
  <2>1. i \in 0 .. m
    BY <1>0, <1>1
  <2>2. JoinClock(i) \in U
    BY <2>1 DEF JoinClock, Clocks
  <2> QED
    BY <1>1, <2>2, LaterFacts
<1>10. r = IF c = Null
           THEN [clock |-> then.clock, order |-> acc.order \union then.order]
           ELSE [clock |-> JoinClock(i),
                 order |-> acc.order \union then.order \union else.order \union
                           { <<then.clock, JoinClock(i)>>, <<else.clock, JoinClock(i)>> }]
  BY DEF Pass
<1>11. /\ c = Null => \A x \in Nat : free(i, x) = free(b, x)
       /\ c # Null =>
            /\ \A x \in Nat : free(c, x) = free(b, x) /\ free(i, x) \subseteq free(b, x)
            /\ free(b, hi[c]) \subseteq free(i, hi[i])
  BY <1>3 DEF FreeInside
<1>12. \A x, y \in Nat : x <= y => free(b, y) \subseteq free(b, x)
  BY <1>0, FreeDown
<1>13. \A x \in in(b, p) : \A y : y \in in(i, hi[i]) \/ (c # Null /\ y \in in(c, hi[c])) => <<y, x>> \notin ordered
  <2> SUFFICES ASSUME NEW x \in in(b, p), NEW y,
                      y \in in(i, hi[i]) \/ (c # Null /\ y \in in(c, hi[c]))
               PROVE  <<y, x>> \notin ordered
    OBVIOUS
  <2>1. x \in Nat /\ y \in Nat /\ x <= p
    BY <1>0, <1>1
  <2>2. p <= y
    <3>1. CASE y \in in(i, hi[i])
      BY <1>1, <2>1, <3>1
    <3>2. CASE c # Null /\ y \in in(c, hi[c])
      <4>1. lo[c] \in Nat /\ p <= lo[c]
        BY <1>1, <3>2
      <4>2. y \in lo[c] + 1 .. hi[c] /\ hi[c] \in Nat
        BY <1>1, <3>2
      <4> QED
        BY <1>1, <2>1, <4>1, <4>2
    <3> QED
      BY <3>1, <3>2
  <2>3. x <= y
    BY <1>1, <2>1, <2>2
  <2> QED
    BY <1>7, <2>1, <2>3
<1>14. CASE c = Null
  <2>1. in(b, q) = in(b, p) \union in(i, hi[i])
    <3>1. \A y \in Nat : y \in lo[b] + 1 .. q <=> y \in lo[b] + 1 .. p \/ y \in lo[i] + 1 .. hi[i]
      BY <1>1, <1>14
    <3>2. \A y \in sh : y \in Nat
      BY <1>0
    <3> QED
      BY <3>1, <3>2
  <2>2. r.clock = then.clock /\ r.order = acc.order \union then.order
    BY <1>10, <1>14
  <2>3. free(i, p) \subseteq free(b, p) /\ free(i, hi[i]) = free(b, q)
    BY <1>1, <1>11, <1>14
  <2> HIDE DEF bs, c, U, then, else, r, later, free, ordered, in
  <2>4. Sound(U, later, From(later), free(b, lo[b]), earlier, free(b, q), r)
    <3>1. Sound(U, later, From(later), free(b, lo[b]), earlier, free(b, p), acc)
      BY <1>4
    <3>2. Sound(U, later, From(later), free(i, p), acc.clock, free(b, q), then)
      BY <1>5, <2>3
    <3>3. free(i, p) \subseteq free(b, p)
      BY <2>3
    <3> QED
      BY <2>2, <3>1, <3>2, <3>3, SoundRow
  <2>5. Linked(T, ordered, in(b, p) \union in(i, hi[i]), earlier, r)
    <3>1. Linked(T, ordered, in(b, p), earlier, acc)
      BY <1>4
    <3>2. Linked(T, ordered, in(i, hi[i]), acc.clock, then)
      BY <1>5
    <3>3. \A x \in in(b, p), y \in in(i, hi[i]) : <<y, x>> \notin ordered
      BY <1>13
    <3> QED
      BY <2>2, <3>1, <3>2, <3>3, LinkedRow
  <2> QED
    BY <2>1, <2>4, <2>5 DEF Spanned, bs, U, r, later, free, ordered, in
<1>15. CASE c # Null
  <2>1. in(b, q) = in(b, p) \union in(i, hi[i]) \union in(c, hi[c])
    <3>1. \A y \in Nat : y \in lo[b] + 1 .. q <=> \/ y \in lo[b] + 1 .. p \/ y \in lo[i] + 1 .. hi[i]
                                                  \/ y \in lo[c] + 1 .. hi[c]
      <4>1. /\ lo[i] = p /\ lo[c] = hi[i] /\ q = hi[c]
            /\ lo[b] \in Nat /\ p \in Nat /\ hi[i] \in Nat /\ hi[c] \in Nat
            /\ lo[b] <= p /\ p <= hi[i] /\ hi[i] <= hi[c]
        BY <1>1, <1>15
      <4> HIDE DEF bs, c
      <4> QED
        BY <4>1
    <3>2. \A y \in sh : y \in Nat
      BY <1>0
    <3> QED
      BY <3>1, <3>2
  <2>2. /\ r.clock = JoinClock(i)
        /\ r.order = acc.order \union then.order \union else.order \union
                      { <<then.clock, JoinClock(i)>>, <<else.clock, JoinClock(i)>> }
    BY <1>10, <1>15
  <2>3. /\ free(i, p) \subseteq free(b, p) /\ free(c, lo[c]) \subseteq free(b, p)
        /\ free(b, hi[c]) \subseteq free(i, hi[i]) /\ free(b, hi[c]) \subseteq free(c, hi[c])
        /\ q = hi[c]
    <3>1. lo[c] \in Nat /\ p <= lo[c] /\ hi[c] \in Nat /\ q = hi[c]
      BY <1>1, <1>15
    <3> HIDE DEF free, bs, c
    <3> QED
      BY <1>1, <1>11, <1>12, <1>15, <3>1
  <2> HIDE DEF bs, c, U, then, else, r, later, free, ordered, in
  <2>4. Sound(U, later, From(later), free(b, lo[b]), earlier, free(b, q), r)
    <3> DEFINE new == JoinClock(i)
    <3>1. From(later)[new] \subseteq free(i, hi[i]) /\ From(later)[new] \subseteq free(c, hi[c])
      BY <1>9, <2>3
    <3>2. free(b, q) \subseteq later[new] /\ new \in U
      BY <1>9, <2>3
    <3>3. Sound(U, later, From(later), free(b, lo[b]), earlier, free(b, p), acc)
      BY <1>4
    <3>4. Sound(U, later, From(later), free(b, p), acc.clock, From(later)[new], then)
      <4>1. Sound(U, later, From(later), free(i, p), acc.clock, free(i, hi[i]), then)
        BY <1>5
      <4>2. free(i, p) \subseteq free(b, p)
        BY <2>3
      <4> QED
        BY <3>1, <4>1, <4>2, SoundLess
    <3>5. Sound(U, later, From(later), free(b, p), acc.clock, From(later)[new], else)
      <4>1. Sound(U, later, From(later), free(c, lo[c]), acc.clock, free(c, hi[c]), else)
        BY <1>6, <1>15
      <4>2. free(c, lo[c]) \subseteq free(b, p)
        BY <2>3
      <4> QED
        BY <3>1, <4>1, <4>2, SoundLess
    <3>6. r = Joined(acc, then, else, new)
      BY <1>10, <1>15 DEF Joined
    <3> HIDE DEF new
    <3> QED
      BY <3>2, <3>3, <3>4, <3>5, <3>6, SoundArms
  <2>5. Linked(T, ordered, in(b, p) \union in(i, hi[i]) \union in(c, hi[c]), earlier, r)
    <3>1. Linked(T, ordered, in(c, hi[c]), acc.clock, else)
      BY <1>6, <1>15
    <3>2. \A x \in in(b, p), y \in in(i, hi[i]) \union in(c, hi[c]) : <<y, x>> \notin ordered
      BY <1>13, <1>15
    <3>3. \A x \in in(i, hi[i]), y \in in(c, hi[c]) : <<x, y>> \notin ordered /\ <<y, x>> \notin ordered
      BY <1>8, <1>15
    <3>4. Linked(T, ordered, in(b, p), earlier, acc)
      BY <1>4
    <3>5. Linked(T, ordered, in(i, hi[i]), acc.clock, then)
      BY <1>5
    <3> QED
      BY <2>2, <3>1, <3>2, <3>3, <3>4, <3>5, LinkedArms
  <2> QED
    BY <2>1, <2>4, <2>5 DEF Spanned, bs, U, r, later, free, ordered, in
<1> QED
  BY <1>14, <1>15

(* All of a block, when the blocks inside are.                             *)
LEMMA SpanBlock ==
  ASSUME NEW E, \A e \in E : e.id \in Nat, NEW s \in SliceOf(E), SliceInv(s), NEW n \in Nat,
         NEW lo, NEW hi, NEW h, Placed(s.blocks, lo, hi, h, n),
         NEW sh, sh = SharedIds(s.blocks, lo, h, n),
         NEW m \in Nat, n <= m, Len(s.blocks) <= m, NEW T, Transitive(T),
         NEW b \in 1 .. Len(s.blocks), NEW enc, EncodedAfter(s.blocks, enc, b),
         \A x \in 1 .. Len(s.blocks) : x > b =>
           \A c \in Clock : Spanned(s, lo, hi, h, sh, Clocks(m), T, x, hi[x], c, enc[x][c]),
         NEW earlier \in Clock
  PROVE  Spanned(s, lo, hi, h, sh, Clocks(m), T, b, hi[b], earlier, EncodeBlock(s.blocks, enc, b, earlier))
<1> DEFINE bs == s.blocks
           w == Len(bs[b].inner)
           body == bs[b].body
           start == AfterBody(body, BodyClocks(body, earlier))
           f == Passes(bs, enc, b, start)
           at(k) == StartOf(bs, lo, hi, b, k)
           Fine(k) == lo[b] <= at(k + 1)
                      /\ Spanned(s, lo, hi, h, sh, Clocks(m), T, b, at(k + 1), earlier, f[k])
           good == { k \in Nat : k <= w => Fine(k) }
<1>1. /\ bs \in Seq(BlockOf(E)) /\ Len(bs) \in Nat /\ GraphInv(bs, s.cur) /\ w \in Nat
      /\ body \in Seq(E) /\ Len(body) \in Nat
      /\ \A x \in 1 .. Len(bs) : NumberedAt(bs, lo, hi, x)
  <2>1. bs \in Seq(BlockOf(E)) /\ Len(bs) \in Nat /\ GraphInv(bs, s.cur)
    BY ArmBlockFacts DEF SliceInv
  <2>2. bs[b].inner \in Seq(Nat) /\ body \in Seq(E)
    BY <2>1, FieldTypes
  <2> QED
    BY <2>1, <2>2 DEF Placed, Numbered
<1>2. lo[b] \in Nat /\ hi[b] = at(w + 1)
  <2>1. NumberedAt(bs, lo, hi, b)
    BY <1>1
  <2> QED
    BY <2>1 DEF NumberedAt
<1>3. start \in Encoded
  BY <1>1, AfterBodyFacts
<1>4. /\ f[0] = start
      /\ \A k \in 1 .. w : f[k] = Pass(bs, enc, f[k - 1], bs[b].inner[k])
      /\ \A k \in 0 .. w : f[k] \in Encoded
  <2> HIDE DEF start
  <2> QED
    BY <1>1, <1>3, PassesFacts
<1>5. EncodeBlock(bs, enc, b, earlier) = f[w]
  BY DEF EncodeBlock
<1>6. sh \in SUBSET (1 .. n)
  BY DEF SharedIds
<1>7. 0 \in good
  <2>1. at(0 + 1) = lo[b] + Len(body)
    BY DEF StartOf
  <2>2. Len(body) \in 0 .. Len(body)
    BY <1>1
  <2>3. Spanned(s, lo, hi, h, sh, Clocks(m), T, b, lo[b] + Len(body), earlier,
                BodyPart(body, BodyClocks(body, earlier), Len(body)))
    BY <2>2, SpanBody
  <2>4. start = BodyPart(body, BodyClocks(body, earlier), Len(body))
    BY <1>1, BodyPartFacts
  <2>5. lo[b] <= lo[b] + Len(body)
    BY <1>1, <1>2
  <2> HIDE DEF start, body, at, f
  <2> QED
    BY <1>4, <2>1, <2>3, <2>4, <2>5
<1>8. ASSUME NEW k \in Nat, k \in good PROVE k + 1 \in good
  <2>1. k + 1 \in Nat /\ (k + 1) - 1 = k
    OBVIOUS
  <2> SUFFICES ASSUME k + 1 <= w PROVE Fine(k + 1)
    BY <2>1
  <2>2. k + 1 \in 1 .. w /\ k \in 0 .. w /\ k <= w
    BY <1>1
  <2> DEFINE i == bs[b].inner[k + 1]
             acc == f[k]
  <2>3. InnerBounds(bs, lo, hi, b, k + 1, i)
    BY <1>1, <2>2, InnerIntervals
  <2>4. f[k + 1] = Pass(bs, enc, acc, i)
    BY <1>4, <2>1, <2>2
  <2>5. acc.clock \in Clock
    <3> HIDE DEF f
    <3> QED
      BY <1>4, <2>2 DEF Encoded
  <2> HIDE DEF i, f, acc, start
  <2>6. /\ i \in 1 .. Len(bs) /\ i > b /\ lo[i] = at(k + 1)
        /\ bs[i].els # Null => bs[i].els \in 1 .. Len(bs) /\ bs[i].els > b
    <3>1. /\ i \in b + 1 .. Len(bs) /\ i \in 1 .. Len(bs) /\ lo[i] = at(k + 1)
          /\ bs[i].els # Null => bs[i].els \in 1 .. Len(bs) /\ bs[i].els \in b + 1 .. Len(bs)
      BY <2>3 DEF InnerBounds
    <3>2. \A x \in b + 1 .. Len(bs) : x > b
      BY <1>1
    <3> QED
      BY <3>1, <3>2
  <2>7. Spanned(s, lo, hi, h, sh, Clocks(m), T, i, hi[i], acc.clock, enc[i][acc.clock])
    BY <2>5, <2>6
  <2>8. bs[i].els # Null =>
           Spanned(s, lo, hi, h, sh, Clocks(m), T, bs[i].els, hi[bs[i].els],
                   acc.clock, enc[bs[i].els][acc.clock])
    BY <2>5, <2>6
  <2>9. lo[b] <= at(k + 1) /\ Spanned(s, lo, hi, h, sh, Clocks(m), T, b, at(k + 1), earlier, acc)
    BY <1>8, <2>2 DEF acc
  <2>10. Spanned(s, lo, hi, h, sh, Clocks(m), T, b, at((k + 1) + 1), earlier, Pass(bs, enc, acc, i))
    <3>1. lo[b] <= lo[i] /\ Spanned(s, lo, hi, h, sh, Clocks(m), T, b, lo[i], earlier, acc)
      BY <2>6, <2>9
    <3>2. lo[b] \in Nat
      BY <1>2
    <3> HIDE DEF at
    <3>3. Spanned(s, lo, hi, h, sh, Clocks(m), T, b, StartOf(bs, lo, hi, b, (k + 1) + 1), earlier,
                  Pass(bs, enc, acc, i))
      BY <1>6, <2>3, <2>7, <2>8, <3>1, <3>2, SpanInner
    <3> QED
      BY <3>3 DEF at
  <2>11. lo[b] <= at((k + 1) + 1)
    <3>1. /\ lo[i] \in Nat /\ hi[i] \in Nat /\ lo[i] <= hi[i]
          /\ bs[i].els = Null => at((k + 1) + 1) = hi[i]
          /\ bs[i].els # Null => /\ lo[bs[i].els] = hi[i] /\ hi[bs[i].els] \in Nat
                                 /\ lo[bs[i].els] <= hi[bs[i].els]
                                 /\ at((k + 1) + 1) = hi[bs[i].els]
      BY <2>3 DEF InnerBounds
    <3>2. lo[b] <= lo[i] /\ lo[b] \in Nat
      BY <1>2, <2>6, <2>9
    <3> HIDE DEF at
    <3> QED
      BY <3>1, <3>2
  <2> QED
    BY <2>4, <2>10, <2>11
<1>9. \A k \in Nat : k \in good
  <2> HIDE DEF good
  <2> QED BY <1>7, <1>8, SetInduction
<1>10. Fine(w)
  BY <1>1, <1>9
<1> QED
  BY <1>2, <1>5, <1>10

(* The encoding of each block is sound and linked, as is so of those after *)
(* it.                                                                     *)
LEMMA SpanAll ==
  ASSUME NEW E, \A e \in E : e.id \in Nat, NEW s \in SliceOf(E), SliceInv(s), NEW n \in Nat,
         NEW lo, NEW hi, NEW h, Placed(s.blocks, lo, hi, h, n),
         NEW sh, sh = SharedIds(s.blocks, lo, h, n),
         NEW m \in Nat, n <= m, Len(s.blocks) <= m, NEW T, Transitive(T)
  PROVE  \A b \in 1 .. Len(s.blocks) : \A c \in Clock :
           Spanned(s, lo, hi, h, sh, Clocks(m), T, b, hi[b], c, EncodeSpo(s)[b][c])
<1> DEFINE bs == s.blocks
           enc == EncodeSpo(s)
           S == { b \in 1 .. Len(bs) : \A c \in Clock :
                    Spanned(s, lo, hi, h, sh, Clocks(m), T, b, hi[b], c, enc[b][c]) }
<1>1. Len(bs) \in Nat
  BY ArmBlockFacts
<1>2. /\ \A b \in 1 .. Len(bs) : enc[b] \in [Clock -> Encoded]
      /\ \A b \in 1 .. Len(bs) : \A c \in Clock : enc[b][c] = EncodeBlock(bs, enc, b, c)
  BY EncodeFacts
<1> HIDE DEF enc
<1>3. ASSUME NEW b \in 1 .. Len(bs), \A x \in 1 .. Len(bs) : x > b => x \in S PROVE b \in S
  <2>1. EncodedAfter(bs, enc, b)
    BY <1>2 DEF EncodedAfter
  <2>2. \A x \in 1 .. Len(bs) : x > b =>
           \A c \in Clock : Spanned(s, lo, hi, h, sh, Clocks(m), T, x, hi[x], c, enc[x][c])
    BY <1>3
  <2>3. ASSUME NEW c \in Clock
        PROVE  Spanned(s, lo, hi, h, sh, Clocks(m), T, b, hi[b], c, enc[b][c])
    <3>1. Spanned(s, lo, hi, h, sh, Clocks(m), T, b, hi[b], c, EncodeBlock(bs, enc, b, c))
      BY <2>1, <2>2, SpanBlock
    <3> QED
      BY <1>2, <3>1
  <2> QED
    BY <2>3
<1>4. \A b \in 1 .. Len(bs) : b \in S
  <2> HIDE DEF S
  <2> QED
    BY <1>1, <1>3, DownInduction
<1> QED
  BY <1>4 DEF enc

-----------------------------------------------------------------------------
(* The clocks that a slice of bounded size uses are finitely many.         *)
LEMMA ClocksFacts ==
  ASSUME NEW m \in Nat
  PROVE  /\ Clocks(m) \subseteq Clock
         /\ IsFiniteSet(Clocks(m))
         /\ Epoch \in Clocks(m)
         /\ \A C \in SUBSET (Clocks(m) \X Clocks(m)) : IsFiniteSet(ClocksOf(C))
<1>1. Clocks(m) \subseteq Clock /\ Epoch \in Clocks(m)
  BY DEF Clocks, Clock, Epoch
<1>2. IsFiniteSet(Clocks(m))
  <2>1. IsFiniteSet(0 .. m)
    BY FS_Interval
  <2>2. IsFiniteSet({"epoch", "event", "join"})
    <3>1. IsFiniteSet({"epoch"})
      BY FS_Singleton
    <3>2. IsFiniteSet({"epoch"} \union {"event"})
      BY <3>1, FS_AddElement
    <3>3. IsFiniteSet(({"epoch"} \union {"event"}) \union {"join"})
      BY <3>2, FS_AddElement
    <3>4. {"epoch", "event", "join"} = ({"epoch"} \union {"event"}) \union {"join"}
      OBVIOUS
    <3> QED
      BY <3>3, <3>4
  <2> QED
    BY <2>1, <2>2, FS_Product DEF Clocks
<1>3. ASSUME NEW C \in SUBSET (Clocks(m) \X Clocks(m)) PROVE IsFiniteSet(ClocksOf(C))
  <2>1. ClocksOf(C) \subseteq Clocks(m)
    BY DEF ClocksOf
  <2> QED
    BY <1>2, <2>1, FS_Subset
<1> QED
  BY <1>1, <1>2, <1>3

(* What the clocks of a slice entail on its shared events.                 *)
LEMMA EntailedOrdered ==
  ASSUME NEW E, \A e \in E : e.id \in Nat, NEW s \in SliceOf(E), SliceInv(s), NEW n \in Nat,
         NEW lo, NEW hi, NEW h, Placed(s.blocks, lo, hi, h, n),
         NEW sh, sh = SharedIds(s.blocks, lo, h, n)
  PROVE  \A x \in sh, y \in sh :
           <<EventAt(x), EventAt(y)>> \in Entailed(SpoConstraints(s))
             <=> <<x, y>> \in Ordered(s, lo, hi, h, sh)
<1> DEFINE N == Len(s.blocks)
           m == N + n
           U == Clocks(m)
           C == SpoConstraints(s)
           later == Later(s, lo, hi, h, sh)
           ordered == Ordered(s, lo, hi, h, sh)
<1>1. N \in Nat /\ m \in Nat /\ n <= m /\ N <= m /\ Root \in 1 .. N
  <2>1. N \in Nat
    BY ArmBlockFacts
  <2>2. N >= 2
    BY ArmBlockFacts DEF SliceInv, GraphInv, OuterMost
  <2> QED
    BY <2>1, <2>2 DEF Root
<1>2. lo[Root] = 0 /\ hi[Root] = n
  BY DEF Placed, Numbered
<1>3. sh \in SUBSET (1 .. n) /\ sh \in SUBSET Nat
  BY DEF SharedIds
<1>4. Epoch \in Clock /\ Epoch \in U /\ U \subseteq Clock
  <2> HIDE DEF m
  <2> QED
    BY <1>1, ClocksFacts
<1>5. \A T : Transitive(T) =>
        /\ Sound(U, later, From(later), Free(s, lo, hi, sh, Root, 0), Epoch,
                 Free(s, lo, hi, sh, Root, n), EncodeSpo(s)[Root][Epoch])
        /\ Linked(T, ordered, sh \cap (0 + 1 .. n), Epoch, EncodeSpo(s)[Root][Epoch])
  <2> SUFFICES ASSUME NEW T, Transitive(T)
               PROVE  /\ Sound(U, later, From(later), Free(s, lo, hi, sh, Root, 0), Epoch,
                               Free(s, lo, hi, sh, Root, n), EncodeSpo(s)[Root][Epoch])
                      /\ Linked(T, ordered, sh \cap (0 + 1 .. n), Epoch, EncodeSpo(s)[Root][Epoch])
    OBVIOUS
  <2> HIDE DEF m
  <2>0. N <= m
    BY <1>1
  <2>1. Spanned(s, lo, hi, h, sh, U, T, Root, hi[Root], Epoch, EncodeSpo(s)[Root][Epoch])
    BY <1>1, <1>4, <2>0, SpanAll
  <2> QED
    BY <1>2, <2>1 DEF Spanned
<1>6. /\ C \in SUBSET (U \X U)
      /\ \A c \in C : From(later)[c[2]] \subseteq later[c[1]]
  <2>1. Transitive({})
    BY DEF Transitive
  <2>2. Sound(U, later, From(later), Free(s, lo, hi, sh, Root, 0), Epoch,
              Free(s, lo, hi, sh, Root, n), EncodeSpo(s)[Root][Epoch])
    BY <1>5, <2>1
  <2>3. Free(s, lo, hi, sh, Root, 0) \subseteq later[Epoch]
    <3>1. later[Epoch] = sh
      BY LaterFacts
    <3> QED
      BY <3>1 DEF Free
  <2> HIDE DEF later, U
  <2> QED
    BY <1>4, <2>2, <2>3 DEF Sound, SpoConstraints
<1> HIDE DEF m, C
<1>7. /\ C \subseteq Entailed(C) /\ Transitive(Entailed(C))
      /\ \A T : Transitive(T) /\ C \subseteq T => Entailed(C) \subseteq T
  <2>1. IsFiniteSet(ClocksOf(C))
    BY <1>1, <1>6, ClocksFacts
  <2> HIDE DEF U
  <2> QED
    BY <1>6, <2>1, EntailedIsClosure
<1>8. ASSUME NEW x \in sh, NEW y \in sh, <<EventAt(x), EventAt(y)>> \in Entailed(C)
      PROVE  <<x, y>> \in ordered
  <2> DEFINE D == { p \in U \X U : From(later)[p[2]] \subseteq later[p[1]] }
  <2>1. \A a, b : <<a, b>> \in D <=> a \in U /\ b \in U /\ From(later)[b] \subseteq later[a]
    <3> SUFFICES ASSUME NEW a, NEW b
                 PROVE  <<a, b>> \in D <=> a \in U /\ b \in U /\ From(later)[b] \subseteq later[a]
      OBVIOUS
    <3>1. <<a, b>>[1] = a /\ <<a, b>>[2] = b
      OBVIOUS
    <3> HIDE DEF later, U
    <3> QED
      BY <3>1
  <2>2. \A a \in U : later[a] \subseteq From(later)[a]
    <3> HIDE DEF later, U
    <3> QED
      BY <1>4 DEF From
  <2>3. C \subseteq D
    <3> HIDE DEF later, U
    <3> QED
      BY <1>6
  <2> HIDE DEF D, later, U
  <2>4. Transitive(D)
    <3> SUFFICES ASSUME NEW a, NEW b, NEW c, <<a, b>> \in D, <<b, c>> \in D PROVE <<a, c>> \in D
      BY DEF Transitive
    <3>1. /\ a \in U /\ b \in U /\ c \in U
          /\ From(later)[b] \subseteq later[a] /\ From(later)[c] \subseteq later[b]
      BY <2>1
    <3>2. From(later)[c] \subseteq later[a]
      BY <2>2, <3>1
    <3> QED
      BY <2>1, <3>1, <3>2
  <2>5. <<EventAt(x), EventAt(y)>> \in D
    BY <1>7, <1>8, <2>3, <2>4
  <2>6. From(later)[EventAt(y)] \subseteq later[EventAt(x)]
    BY <2>1, <2>5
  <2>7. x \in Nat /\ y \in Nat
    BY <1>3
  <2>8. y \in From(later)[EventAt(y)] /\ later[EventAt(x)] = Free(s, lo, hi, sh, h[x], x)
    BY <2>7, LaterFacts DEF later
  <2>9. y \in Free(s, lo, hi, sh, h[x], x)
    BY <2>6, <2>8
  <2>10. x < y
    BY <2>9 DEF Free
  <2> QED
    BY <1>3, <2>7, <2>9, <2>10, OrderedFacts
<1>9. ASSUME NEW x \in sh, NEW y \in sh, <<x, y>> \in ordered
      PROVE  <<EventAt(x), EventAt(y)>> \in Entailed(C)
  <2> HIDE DEF ordered, later, U
  <2>1. Linked(Entailed(C), ordered, sh \cap (0 + 1 .. n), Epoch, EncodeSpo(s)[Root][Epoch])
    BY <1>5, <1>7
  <2>2. EncodeSpo(s)[Root][Epoch].order \subseteq Entailed(C)
    BY <1>7 DEF C, SpoConstraints
  <2>3. x \in sh \cap (0 + 1 .. n) /\ y \in sh \cap (0 + 1 .. n)
    BY <1>3
  <2> QED
    BY <1>9, <2>1, <2>2, <2>3 DEF Linked
<1> QED
  BY <1>8, <1>9 DEF C
=============================================================================
