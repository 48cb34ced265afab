--------------------------- MODULE RecorderProofs ----------------------------
(***************************************************************************)
(* Proofs about modules Recorder and RecorderOrder: its types, that no     *)
(* assertion of the code fails, that path condition and slice agree, for   *)
(* what is recorded next and for what has been recorded, the shape of the  *)
(* graph, that a walk over it is the recording, and that the order which   *)
(* internal_encode_spo entails is the program order, for all bounds.       *)
(***************************************************************************)
EXTENDS RecorderOrder, SliceProofs

(* Entry i of the cache ch is the conjunction of the innermost i + 1       *)
(* conditions but for those that were registered after it: a suffix of cs. *)
CacheOf(cs, ch) ==
  /\ Len(ch) = IF cs = <<>> THEN 0 ELSE Len(cs) - 1
  /\ \A i \in 1 .. Len(ch) :
       /\ Len(ch[i]) = i + 1
       /\ \A j \in 1 .. i + 1 : ch[i][j] = cs[Len(cs) - i - 1 + j]

(* Thread::register_condition keeps the cache consistent.                  *)
LEMMA RegisterFacts ==
  ASSUME NEW lit \in Literal, NEW cs \in Seq(Literal), NEW ch \in Seq(Seq(Literal)),
         CacheOf(cs, ch)
  PROVE  /\ RegisteredCache(lit, cs, ch) \in Seq(Seq(Literal))
         /\ CacheOf(<<lit>> \o cs, RegisteredCache(lit, cs, ch))
<1> DEFINE ds == <<lit>> \o cs
           dh == RegisteredCache(lit, cs, ch)
<1>1. /\ ds \in Seq(Literal) /\ Len(ds) = Len(cs) + 1 /\ ds # <<>>
      /\ \A i \in 1 .. Len(cs) : ds[i + 1] = cs[i]
  <2>1. /\ ds \in Seq(Literal) /\ Len(ds) = Len(cs) + 1
        /\ \A i \in 1 .. Len(cs) : ds[i + 1] = cs[i]
    BY PrependFacts
  <2>2. Len(cs) \in Nat
    OBVIOUS
  <2> HIDE DEF ds
  <2> QED
    BY <2>1, <2>2
<1>2. Len(cs) \in Nat /\ Len(ch) \in Nat
  OBVIOUS
<1>3. CASE cs = <<>>
  <2>1. dh = ch /\ Len(ch) = 0 /\ Len(ds) = 1
    BY <1>1, <1>3 DEF RegisteredCache, CacheOf
  <2> HIDE DEF ds, dh
  <2> QED
    BY <1>1, <2>1 DEF CacheOf, ds, dh
<1>4. CASE cs # <<>>
  <2>1. dh = Append(ch, ds)
    BY <1>4 DEF RegisteredCache
  <2> HIDE DEF ds, dh
  <2>2. /\ dh \in Seq(Seq(Literal)) /\ Len(dh) = Len(ch) + 1 /\ dh[Len(ch) + 1] = ds
        /\ \A i \in 1 .. Len(ch) : dh[i] = ch[i]
    BY <1>1, <2>1, AppendFacts
  <2>3. Len(ch) = Len(cs) - 1 /\ Len(dh) = Len(ds) - 1
    BY <1>1, <1>2, <1>4, <2>2 DEF CacheOf
  <2>4. ASSUME NEW i \in 1 .. Len(dh)
        PROVE  /\ Len(dh[i]) = i + 1
               /\ \A j \in 1 .. i + 1 : dh[i][j] = ds[Len(ds) - i - 1 + j]
    <3>1. CASE i = Len(dh)
      BY <1>1, <1>2, <2>2, <2>3, <3>1
    <3>2. CASE i # Len(dh)
      <4>1. i \in 1 .. Len(ch) /\ dh[i] = ch[i]
        BY <1>2, <2>2, <3>2
      <4>2. /\ Len(ch[i]) = i + 1
            /\ \A j \in 1 .. i + 1 : ch[i][j] = cs[Len(cs) - i - 1 + j]
        BY <4>1 DEF CacheOf
      <4>3. ASSUME NEW j \in 1 .. i + 1
            PROVE  ds[Len(ds) - i - 1 + j] = cs[Len(cs) - i - 1 + j]
        <5>1. Len(cs) - i - 1 + j \in 1 .. Len(cs)
          BY <1>2, <2>3, <4>1
        <5>2. Len(ds) - i - 1 + j = (Len(cs) - i - 1 + j) + 1
          BY <1>1, <1>2
        <5> QED
          BY <1>1, <5>1, <5>2
      <4> QED
        BY <4>1, <4>2, <4>3
    <3> QED
      BY <3>1, <3>2
  <2>5. CacheOf(ds, dh)
    BY <1>1, <2>3, <2>4 DEF CacheOf
  <2> QED
    BY <2>2, <2>5 DEF ds, dh
<1> QED
  BY <1>3, <1>4

(* The path condition that Thread keeps is consistent with its cache. *)
PathInv ==
  /\ conditions \in Seq(Literal)
  /\ cache \in Seq(Seq(Literal))
  /\ CacheOf(conditions, cache)

(* Thread::unregister_condition keeps the cache consistent.                *)
LEMMA UnregisterFacts ==
  ASSUME PathInv, conditions # <<>>
  PROVE  /\ UnregisteredCache \in Seq(Seq(Literal))
         /\ CacheOf(Tail(conditions), UnregisteredCache)
<1> DEFINE ds == Tail(conditions)
           dh == UnregisteredCache
<1>1. /\ ds \in Seq(Literal) /\ Len(ds) = Len(conditions) - 1
      /\ \A i \in 1 .. Len(conditions) - 1 : ds[i] = conditions[i + 1]
  BY TailFacts DEF PathInv
<1>2. Len(conditions) \in Nat \ {0} /\ Len(cache) = Len(conditions) - 1
  BY DEF CacheOf, PathInv
<1> HIDE DEF ds
<1>3. /\ Len(cache) \in Nat /\ (cache = <<>> <=> Len(cache) = 0)
      /\ Len(ds) = Len(cache) /\ (ds = <<>> <=> Len(ds) = 0)
  <2>1. cache \in Seq(Seq(Literal))
    BY DEF PathInv
  <2>2. Len(cache) \in Nat /\ (cache = <<>> <=> Len(cache) = 0)
    BY <2>1, EmptyFacts
  <2>3. ds = <<>> <=> Len(ds) = 0
    BY <1>1, EmptyFacts
  <2> QED
    BY <1>1, <1>2, <2>2, <2>3
<1>4. CASE cache = <<>>
  <2>1. Len(dh) = 0 /\ ds = <<>> /\ dh = cache
    BY <1>4, <1>3 DEF UnregisteredCache
  <2>2. dh \in Seq(Seq(Literal))
    BY <2>1 DEF PathInv
  <2>3. CacheOf(ds, dh)
    BY <2>1 DEF CacheOf
  <2> QED
    BY <2>2, <2>3 DEF ds
<1>5. CASE cache # <<>>
  <2>1. /\ dh \in Seq(Seq(Literal)) /\ Len(dh) = Len(cache) - 1
        /\ \A i \in 1 .. Len(cache) - 1 : dh[i] = cache[i]
    <3>1. dh = Front(cache)
      BY <1>5 DEF UnregisteredCache
    <3>2. cache \in Seq(Seq(Literal))
      BY DEF PathInv
    <3>3. /\ Front(cache) \in Seq(Seq(Literal)) /\ Len(Front(cache)) = Len(cache) - 1
          /\ \A i \in 1 .. Len(cache) - 1 : Front(cache)[i] = cache[i]
      BY <1>5, <3>2, FrontFacts
    <3> HIDE DEF dh
    <3> QED
      BY <3>1, <3>3
  <2>2. Len(cache) \in Nat \ {0} /\ Len(ds) = Len(cache) /\ ds # <<>>
    BY <1>5, <1>3
  <2> HIDE DEF ds, dh
  <2>3. ASSUME NEW i \in 1 .. Len(dh)
        PROVE  /\ Len(dh[i]) = i + 1
               /\ \A j \in 1 .. i + 1 : dh[i][j] = ds[Len(ds) - i - 1 + j]
    <3>1. i \in 1 .. Len(cache) /\ i <= Len(cache) - 1 /\ dh[i] = cache[i]
      BY <2>1, <2>2
    <3>2. /\ Len(cache[i]) = i + 1
          /\ \A j \in 1 .. i + 1 : cache[i][j] = conditions[Len(conditions) - i - 1 + j]
      BY <3>1 DEF CacheOf, PathInv
    <3>3. ASSUME NEW j \in 1 .. i + 1
          PROVE  ds[Len(ds) - i - 1 + j] = conditions[Len(conditions) - i - 1 + j]
      <4>1. Len(ds) - i - 1 + j \in 1 .. Len(conditions) - 1
        BY <1>1, <1>2, <2>2, <3>1
      <4>2. Len(conditions) - i - 1 + j = (Len(ds) - i - 1 + j) + 1
        BY <1>1, <1>2
      <4> QED
        BY <1>1, <4>1, <4>2
    <3> QED
      BY <3>1, <3>2, <3>3
  <2>4. CacheOf(ds, dh)
    BY <2>1, <2>2, <2>3 DEF CacheOf
  <2> QED
    BY <2>1, <2>4 DEF ds, dh
<1> QED
  BY <1>4, <1>5

(* The path condition is the conjunction of all the conditions. *)
LEMMA PathConditionFacts ==
  ASSUME PathInv
  PROVE  PathConditionAsserts /\ PathCondition = conditions
<1>1. Len(conditions) \in Nat
  BY DEF PathInv
<1>2. PathConditionAsserts
  BY <1>1 DEF PathConditionAsserts, CacheOf, PathInv
<1>3. ASSUME Len(conditions) = 0 PROVE PathCondition = conditions
  <2>1. conditions = <<>>
    BY <1>3 DEF PathInv
  <2> QED
    BY <1>3, <2>1 DEF PathCondition
<1>4. ASSUME Len(conditions) = 1 PROVE PathCondition = conditions
  <2>1. conditions = <<Head(conditions)>>
    BY <1>4 DEF PathInv
  <2> QED
    BY <1>4, <2>1 DEF PathCondition
<1>5. ASSUME Len(conditions) > 1 PROVE PathCondition = conditions
  <2> DEFINE n == Len(conditions)
  <2>1. cache \in Seq(Seq(Literal)) /\ Len(cache) = n - 1
    BY <1>1, <1>5 DEF CacheOf, PathInv
  <2>2. n - 1 \in 1 .. Len(cache) /\ cache # <<>>
    BY <1>1, <1>5, <2>1
  <2>3. Last(cache) = cache[n - 1] /\ Last(cache) \in Seq(Literal)
    BY <2>1, <2>2, FrontFacts
  <2>4. /\ Len(cache[n - 1]) = (n - 1) + 1
        /\ \A j \in 1 .. (n - 1) + 1 : cache[n - 1][j] = conditions[n - (n - 1) - 1 + j]
    BY <2>2 DEF CacheOf, PathInv
  <2>5. Last(cache) = conditions
    <3>1. Len(Last(cache)) = n
      BY <1>1, <2>3, <2>4
    <3>2. ASSUME NEW j \in 1 .. n PROVE Last(cache)[j] = conditions[j]
      <4>1. j \in 1 .. (n - 1) + 1 /\ n - (n - 1) - 1 + j = j
        BY <1>1
      <4> QED
        BY <2>3, <2>4, <4>1
    <3>3. conditions \in Seq(Literal)
      BY DEF PathInv
    <3> QED
      BY <2>3, <3>1, <3>2, <3>3
  <2>6. \A m \in Nat : m > 1 => ~(m = 0) /\ ~(m = 1)
    OBVIOUS
  <2>7. ~(n = 0) /\ ~(n = 1)
    <3> HIDE DEF n
    <3> QED BY <1>1, <1>5, <2>6 DEF n
  <2> QED
    BY <2>5, <2>7 DEF PathCondition
<1>6. \A m \in Nat : m = 0 \/ m = 1 \/ m > 1
  OBVIOUS
<1>7. Len(conditions) = 0 \/ Len(conditions) = 1 \/ Len(conditions) > 1
  BY <1>1, <1>6, Zenon
<1> QED
  BY <1>2, <1>3, <1>4, <1>5, <1>7, Zenon

-----------------------------------------------------------------------------
(* Thread's condition list and the blocks of the slice, each kept without  *)
(* a look at the other, agree: the k-th condition from the back is that of *)
(* the block of the k-th open arm.                                         *)
ConditionsInv ==
  /\ Len(conditions) = Len(open)
  /\ \A k \in 1 .. Len(open) :
       slice.blocks[ArmOf(slice, open[k])].cond = conditions[Len(open) + 1 - k]

IInv ==
  /\ slice \in SliceOf(EventType)
  /\ SliceInv(slice)
  /\ PathInv
  /\ events \in Nat
  /\ open \in ArmSeq
  /\ OnArms(slice, open)
  /\ ConditionsInv

(* A recording starts with no branch open.                                 *)
LEMMA InitIInv == Init => IInv
<1> SUFFICES ASSUME Init PROVE IInv
  OBVIOUS
<1>1. slice = EmptySlice /\ open = <<>> /\ conditions = <<>> /\ cache = <<>> /\ events = 0
  BY DEF Init
<1>2. slice \in SliceOf(EventType) /\ SliceInv(slice) /\ OnArms(slice, open)
  BY <1>1, EmptySliceFacts
<1>3. PathInv
  BY <1>1 DEF PathInv, CacheOf
<1>4. ConditionsInv
  BY <1>1 DEF ConditionsInv
<1>5. open \in ArmSeq
  BY <1>1 DEF ArmSeq
<1> QED
  BY <1>1, <1>2, <1>3, <1>4, <1>5 DEF IInv

(* What is recorded next has an event type, and the path condition as its  *)
(* guard.                                                                  *)
LEMMA EventFacts ==
  ASSUME IInv, NEW n \in Nat, NEW shared \in BOOLEAN
  PROVE  /\ Event(n, shared) \in EventType
         /\ Event(n, shared).guard = conditions
         /\ Reads(n) \in Seq(EventType)
         /\ \A i \in 1 .. Len(Reads(n)) : Reads(n)[i].guard = conditions
<1>1. PathCondition \in Seq(Literal) /\ PathCondition = conditions
  BY PathConditionFacts DEF IInv, PathInv
<1>2. ASSUME NEW i \in Nat, NEW sh \in BOOLEAN
      PROVE  Event(i, sh) \in EventType /\ Event(i, sh).guard = conditions
  BY <1>1 DEF Event, EventType
<1>3. events \in Nat
  BY DEF IInv
<1>4. ASSUME NEW i \in 1 .. n
      PROVE  Event(events + i, TRUE) \in EventType /\ Event(events + i, TRUE).guard = conditions
  <2>1. events + i \in Nat
    BY <1>3
  <2> QED
    BY <1>2, <2>1
<1>5. Reads(n) \in [1 .. n -> EventType]
  BY <1>4 DEF Reads
<1>6. Reads(n) \in Seq(EventType) /\ Len(Reads(n)) = n
  <2> HIDE <1>4
  <2> QED BY <1>5
<1>7. ASSUME NEW i \in 1 .. Len(Reads(n)) PROVE Reads(n)[i].guard = conditions
  <2>1. i \in 1 .. n
    BY <1>6
  <2>2. Reads(n)[i] = Event(events + i, TRUE)
    BY <2>1 DEF Reads
  <2> QED
    BY <1>4, <2>1, <2>2
<1> QED
  BY <1>2, <1>6, <1>7

(* With a branch open, the innermost block is that of the last open arm.   *)
LEMMA InnermostFacts ==
  ASSUME IInv, open # <<>>
  PROVE  /\ Len(open) \in Nat \ {0}
         /\ ArmBlock(slice) = ArmOf(slice, open[Len(open)])
         /\ ArmBlock(slice) \in 2 .. Len(slice.blocks)
         /\ conditions # <<>>
         /\ slice.blocks[ArmBlock(slice)].cond = Head(conditions)
         /\ Head(conditions) \in Literal
<1>1. Len(open) \in Nat /\ Len(open) # 0
  BY EmptyFacts DEF IInv, ArmSeq
<1>2. /\ ArmBlock(slice) = ArmOf(slice, open[Len(open)])
      /\ ArmBlock(slice) \in 2 .. Len(slice.blocks)
  BY <1>1 DEF IInv, OnArms, OnArm
<1>3. conditions \in Seq(Literal) /\ Len(conditions) = Len(open) /\ conditions # <<>>
  <2>1. conditions \in Seq(Literal) /\ Len(conditions) = Len(open)
    BY DEF IInv, PathInv, ConditionsInv
  <2> QED
    BY <1>1, <2>1, EmptyFacts
<1>4. Head(conditions) = conditions[1] /\ Head(conditions) \in Literal
  BY <1>3, TailFacts
<1>5. slice.blocks[ArmOf(slice, open[Len(open)])].cond = conditions[Len(open) + 1 - Len(open)]
  BY <1>1 DEF IInv, ConditionsInv
<1>6. Len(open) + 1 - Len(open) = 1
  BY <1>1
<1> QED
  BY <1>1, <1>2, <1>3, <1>4, <1>5, <1>6

(* Thread::instr gives the current block the events of the instruction.    *)
InstrEvents(n, shared) == Reads(n) \o << Event(events + n + 1, shared) >>

LEMMA InstrWrites ==
  ASSUME IInv, NEW n \in 0 .. MaxReads, NEW shared \in BOOLEAN, Instr(n, shared)
  PROVE  /\ slice' \in SliceOf(EventType) /\ SliceInv(slice') /\ slice'.cur = slice.cur
         /\ InstrEvents(n, shared) \in Seq(EventType)
         /\ Written(slice.blocks, slice'.blocks, slice.cur, InstrEvents(n, shared))
         /\ \A i \in 1 .. Len(InstrEvents(n, shared)) : InstrEvents(n, shared)[i].guard = conditions
         /\ UNCHANGED <<conditions, cache, open>>
         /\ events' \in Nat
<1> DEFINE u == AppendAll(slice, Reads(n))
           e == Event(events + n + 1, shared)
           es == Reads(n) \o <<e>>
<1>1. n \in Nat /\ events + n + 1 \in Nat
  BY BoundAssumption DEF IInv
<1>2. /\ Reads(n) \in Seq(EventType) /\ e \in EventType /\ e.guard = conditions
      /\ \A i \in 1 .. Len(Reads(n)) : Reads(n)[i].guard = conditions
  BY <1>1, EventFacts
<1>3. /\ slice' = AppendAll(u, <<e>>) /\ events' = events + n + 1
      /\ UNCHANGED <<conditions, cache, open>>
  BY DEF Instr
<1> HIDE DEF u, e
<1>4. <<e>> \in Seq(EventType)
  BY <1>2
<1>5. /\ u \in SliceOf(EventType) /\ SliceInv(u) /\ u.cur = slice.cur
      /\ Written(slice.blocks, u.blocks, slice.cur, Reads(n))
  BY <1>2, AppendAllInv DEF u, IInv
<1>6. /\ slice' \in SliceOf(EventType) /\ SliceInv(slice') /\ slice'.cur = u.cur
      /\ Written(u.blocks, slice'.blocks, u.cur, <<e>>)
  BY <1>3, <1>4, <1>5, AppendAllInv
<1>7. es \in Seq(EventType) /\ \A i \in 1 .. Len(es) : es[i].guard = conditions
  <2>1. /\ es = Append(Reads(n), e)
        /\ Append(Reads(n), e) \in Seq(EventType)
        /\ Len(Append(Reads(n), e)) = Len(Reads(n)) + 1
        /\ Append(Reads(n), e)[Len(Reads(n)) + 1] = e
        /\ \A i \in 1 .. Len(Reads(n)) : Append(Reads(n), e)[i] = Reads(n)[i]
    BY <1>2
  <2>2. Len(Reads(n)) \in Nat
    BY <1>2
  <2> HIDE DEF es
  <2>3. ASSUME NEW i \in 1 .. Len(es) PROVE es[i].guard = conditions
    <3>1. i = Len(Reads(n)) + 1 \/ i \in 1 .. Len(Reads(n))
      BY <2>1, <2>2
    <3> QED
      BY <1>2, <2>1, <3>1
  <2> QED
    BY <2>1, <2>3
<1>8. Written(slice.blocks, slice'.blocks, slice.cur, es)
  <2>1. slice.cur \in 1 .. Len(slice.blocks) /\ slice.blocks[slice.cur].body \in Seq(EventType)
    <3>1. slice.blocks \in Seq(BlockOf(EventType)) /\ slice.cur \in 2 .. Len(slice.blocks)
      BY ArmBlockFacts DEF IInv
    <3> QED
      BY <3>1, FieldTypes
  <2>2. slice'.blocks[slice.cur].body = (slice.blocks[slice.cur].body \o Reads(n)) \o <<e>>
    BY <1>5, <1>6 DEF Written
  <2>3. (slice.blocks[slice.cur].body \o Reads(n)) \o <<e>> = slice.blocks[slice.cur].body \o es
    <3> DEFINE q == slice.blocks[slice.cur].body
               r == Reads(n)
    <3>1. q \in Seq(EventType) /\ r \in Seq(EventType)
      BY <1>2, <2>1
    <3> HIDE DEF q, r
    <3>2. (q \o r) \o <<e>> = q \o (r \o <<e>>)
      BY <1>2, <3>1, ConcatTwice
    <3> QED
      BY <3>2 DEF q, r
  <2> HIDE DEF es
  <2> QED
    BY <1>5, <1>6, <2>2, <2>3 DEF Written, Kept
<1>9. InstrEvents(n, shared) = es
  BY DEF InstrEvents, e
<1> HIDE DEF es
<1> QED
  BY <1>1, <1>3, <1>5, <1>6, <1>7, <1>8, <1>9

LEMMA InstrFacts ==
  ASSUME IInv, NEW n \in 0 .. MaxReads, NEW shared \in BOOLEAN, Instr(n, shared)
  PROVE  /\ slice' \in SliceOf(EventType) /\ SliceInv(slice') /\ slice'.cur = slice.cur
         /\ \E es \in Seq(EventType) :
              /\ Written(slice.blocks, slice'.blocks, slice.cur, es)
              /\ \A i \in 1 .. Len(es) : es[i].guard = conditions
         /\ UNCHANGED <<conditions, cache, open>>
         /\ events' \in Nat
BY InstrWrites

(* Thread::instr preserves the invariant.                                  *)
LEMMA InstrIInv ==
  ASSUME IInv, NEW n \in 0 .. MaxReads, NEW shared \in BOOLEAN, Instr(n, shared)
  PROVE  IInv'
<1>1. /\ slice' \in SliceOf(EventType) /\ SliceInv(slice') /\ slice'.cur = slice.cur
      /\ UNCHANGED <<conditions, cache, open>> /\ events' \in Nat
  BY InstrFacts
<1>2. PICK es \in Seq(EventType) : Written(slice.blocks, slice'.blocks, slice.cur, es)
  BY InstrFacts
<1>3. /\ OnArms(slice', open)
      /\ \A k \in 1 .. Len(open) : ArmOf(slice', open[k]) = ArmOf(slice, open[k])
  BY <1>1, <1>2, WrittenArms DEF IInv
<1>4. ConditionsInv'
  <2>1. \A k \in 1 .. Len(open) : ArmOf(slice, open[k]) \in 1 .. Len(slice.blocks)
    BY DEF IInv, OnArms, OnArm
  <2>2. \A b \in 1 .. Len(slice.blocks) : slice'.blocks[b].cond = slice.blocks[b].cond
    BY <1>2 DEF Written, Kept
  <2> QED
    BY <1>1, <1>3, <2>1, <2>2 DEF ConditionsInv, IInv
<1>5. PathInv'
  BY <1>1 DEF IInv, PathInv
<1> QED
  BY <1>1, <1>3, <1>4, <1>5 DEF IInv

(* Thread::begin_then preserves the invariant.                             *)
LEMMA BeginThenIInv ==
  ASSUME IInv, NEW lit \in Literal, NEW n \in 0 .. MaxReads, ThreadBeginThen(lit, n)
  PROVE  IInv' /\ ThenOpened(slice, slice', lit, Reads(n)) /\ Reads(n) \in Seq(EventType)
<1>1. PICK m \in Nat : m = Len(open)
  BY DEF IInv, ArmSeq
<1> DEFINE new == slice'.cur
           last == [branch |-> new, side |-> "then"]
<1>2. n \in Nat /\ events + n \in Nat /\ Reads(n) \in Seq(EventType)
  <2>1. n \in Nat /\ events \in Nat
    BY BoundAssumption DEF IInv
  <2>2. Reads(n) \in Seq(EventType)
    BY <2>1, EventFacts, TRUE \in BOOLEAN
  <2> QED
    BY <2>1, <2>2
<1>3. /\ conditions' = <<lit>> \o conditions
      /\ cache' = RegisteredCache(lit, conditions, cache)
      /\ slice' = BeginThen(slice, lit, Reads(n))
      /\ events' = events + n
      /\ open' = Append(open, last)
  BY DEF ThreadBeginThen
<1>4. slice' \in SliceOf(EventType) /\ ThenOpened(slice, slice', lit, Reads(n)) /\ SliceInv(slice')
  <2>1. slice' \in SliceOf(EventType) /\ ThenOpened(slice, slice', lit, Reads(n))
    BY <1>2, <1>3, BeginThenFacts DEF IInv
  <2> QED
    BY <2>1 DEF ThenOpened
<1>5. /\ conditions' \in Seq(Literal) /\ Len(conditions') = m + 1 /\ conditions'[1] = lit
      /\ \A i \in 1 .. m : conditions'[i + 1] = conditions[i]
      /\ Len(conditions) = m
  BY <1>1, <1>3, PrependFacts DEF IInv, PathInv, ConditionsInv
<1>6. PathInv'
  <2>1. cache' \in Seq(Seq(Literal)) /\ CacheOf(<<lit>> \o conditions, cache')
    BY <1>3, RegisterFacts DEF IInv, PathInv
  <2> QED
    BY <1>3, <1>5, <2>1 DEF PathInv
<1>7. /\ open' \in ArmSeq /\ Len(open') = m + 1 /\ open'[m + 1] = last
      /\ \A k \in 1 .. m : open'[k] = open[k]
  <2>1. last \in [branch : Nat, side : {"then", "else"}]
    <3>1. new \in Nat
      BY <1>4 DEF SliceOf
    <3> QED
      BY <3>1
  <2>2. open \in Seq([branch : Nat, side : {"then", "else"}])
    BY DEF IInv, ArmSeq
  <2> HIDE DEF last
  <2> QED
    BY <1>1, <1>3, <2>1, <2>2, AppendFacts DEF ArmSeq
<1>8. /\ OnArms(slice', open')
      /\ \A k \in 1 .. m : /\ ArmOf(slice', open'[k]) = ArmOf(slice, open[k])
                           /\ ArmOf(slice, open[k]) \in 1 .. Len(slice.blocks) \ {new}
      /\ ArmOf(slice', open'[m + 1]) = new
  BY <1>1, <1>4, <1>7, ThenArms DEF IInv
<1>9. /\ slice'.blocks[new].cond = lit
      /\ \A b \in 1 .. Len(slice.blocks) \ {new} : slice'.blocks[b].cond = slice.blocks[b].cond
  BY <1>4 DEF ThenOpened, Current
<1>10. ConditionsInv'
  <2>1. ASSUME NEW k \in 1 .. m + 1
        PROVE  slice'.blocks[ArmOf(slice', open'[k])].cond = conditions'[(m + 1) + 1 - k]
    <3>1. CASE k = m + 1
      <4>1. (m + 1) + 1 - k = 1
        BY <3>1
      <4> QED
        BY <1>5, <1>8, <1>9, <3>1, <4>1
    <3>2. CASE k # m + 1
      <4>1. k \in 1 .. m /\ m + 1 - k \in 1 .. m /\ (m + 1) + 1 - k = (m + 1 - k) + 1
        BY <3>2
      <4>2. slice.blocks[ArmOf(slice, open[k])].cond = conditions[m + 1 - k]
        BY <1>1, <4>1 DEF IInv, ConditionsInv
      <4>3. slice'.blocks[ArmOf(slice', open'[k])].cond = conditions[m + 1 - k]
        BY <1>8, <1>9, <4>1, <4>2
      <4> QED
        BY <1>5, <4>1, <4>3
    <3> QED
      BY <3>1, <3>2
  <2> QED
    BY <1>5, <1>7, <2>1 DEF ConditionsInv
<1> QED
  BY <1>2, <1>3, <1>4, <1>6, <1>7, <1>8, <1>10 DEF IInv

(* Thread::begin_else preserves the invariant.                             *)
LEMMA BeginElseIInv ==
  ASSUME IInv, ThreadBeginElse
  PROVE  IInv' /\ ElseOpened(slice, slice')
<1> DEFINE arm == ArmBlock(slice)
           negated == Negate(Head(conditions))
           new == slice'.cur
<1>1. PICK m \in Nat \ {0} : m = Len(open)
  BY InnermostFacts DEF ThreadBeginElse
<1>2. /\ open # <<>> /\ open[m].side = "then"
      /\ conditions' = <<negated>> \o Tail(conditions)
      /\ cache' = RegisteredCache(negated, Tail(conditions), UnregisteredCache)
      /\ slice' = BeginElse(slice)
      /\ open' = [open EXCEPT ![m].side = "else"]
      /\ events' = events
  BY <1>1 DEF ThreadBeginElse, Last
<1>3. /\ arm = ArmOf(slice, open[m]) /\ arm \in 2 .. Len(slice.blocks)
      /\ conditions # <<>> /\ slice.blocks[arm].cond = Head(conditions)
      /\ Head(conditions) \in Literal
  BY <1>1, <1>2, InnermostFacts
<1>4. slice' \in SliceOf(EventType) /\ ElseOpened(slice, slice') /\ SliceInv(slice')
  <2>1. slice' \in SliceOf(EventType) /\ ElseOpened(slice, slice')
    BY <1>2, <1>3, BeginElseFacts DEF IInv
  <2> QED
    BY <2>1 DEF ElseOpened
<1>5. negated \in Literal
  BY <1>3 DEF Negate, Literal
<1>6. /\ Tail(conditions) \in Seq(Literal) /\ Len(Tail(conditions)) = m - 1
      /\ \A i \in 1 .. m - 1 : Tail(conditions)[i] = conditions[i + 1]
      /\ Len(conditions) = m
  BY <1>1, <1>3, TailFacts DEF IInv, PathInv, ConditionsInv
<1>7. PathInv'
  <2>1. UnregisteredCache \in Seq(Seq(Literal)) /\ CacheOf(Tail(conditions), UnregisteredCache)
    BY <1>3, UnregisterFacts DEF IInv
  <2>2. <<negated>> \o Tail(conditions) \in Seq(Literal)
    BY <1>5, <1>6, PrependFacts
  <2> HIDE DEF negated
  <2> QED
    BY <1>2, <1>5, <1>6, <2>1, <2>2, RegisterFacts DEF PathInv
<1>8. /\ Len(conditions') = m /\ conditions'[1] = negated
      /\ \A i \in 2 .. m : conditions'[i] = conditions[i]
  <2>1. /\ Len(conditions') = (m - 1) + 1 /\ conditions'[1] = negated
        /\ \A i \in 1 .. m - 1 : conditions'[i + 1] = Tail(conditions)[i]
    BY <1>2, <1>5, <1>6, PrependFacts
  <2>2. ASSUME NEW i \in 2 .. m PROVE conditions'[i] = conditions[i]
    <3>1. i - 1 \in 1 .. m - 1 /\ (i - 1) + 1 = i
      BY <1>1
    <3> QED
      BY <1>6, <2>1, <3>1
  <2> QED
    BY <1>1, <2>1, <2>2
<1> DEFINE last == [branch |-> open[m].branch, side |-> "else"]
<1>9. /\ open' \in ArmSeq /\ Len(open') = m /\ open'[m] = last
      /\ \A k \in 1 .. m - 1 : open'[k] = open[k]
  <2>1. open \in ArmSeq /\ m \in DOMAIN open /\ DOMAIN open = 1 .. m
    BY <1>1 DEF IInv, ArmSeq
  <2>2. open[m] \in [branch : Nat, side : {"then", "else"}]
    BY <2>1, ElementInSet DEF ArmSeq
  <2>3. /\ last \in [branch : Nat, side : {"then", "else"}]
        /\ [open[m] EXCEPT !.side = "else"] = last
    BY <2>2
  <2>4. open' = [open EXCEPT ![m] = last]
    BY <1>2, <2>3
  <2> HIDE DEF last
  <2> QED
    BY <1>1, <2>1, <2>3, <2>4, ExceptInSeq DEF ArmSeq
<1>10. /\ OnArms(slice', open')
       /\ \A k \in 1 .. m - 1 : /\ ArmOf(slice', open'[k]) = ArmOf(slice, open[k])
                                /\ ArmOf(slice, open[k]) \in 1 .. Len(slice.blocks)
       /\ ArmOf(slice', open'[m]) = new
  <2>1. SliceInv(slice) /\ slice \in SliceOf(EventType) /\ open \in ArmSeq /\ OnArms(slice, open)
    BY DEF IInv
  <2>2. Len(open) = m /\ open[m].side = "then"
    BY <1>1, <1>2
  <2>3. open'[m] = [branch |-> open[m].branch, side |-> "else"]
    BY <1>9
  <2> HIDE DEF last
  <2> QED
    BY <1>4, <1>9, <2>1, <2>2, <2>3, ElseArms
<1>11. /\ slice'.blocks[new].cond = negated
       /\ \A b \in 1 .. Len(slice.blocks) : slice'.blocks[b].cond = slice.blocks[b].cond
  BY <1>3, <1>4 DEF ElseOpened, Current
<1>12. ConditionsInv'
  <2> HIDE DEF negated, last, new
  <2>1. ASSUME NEW k \in 1 .. m
        PROVE  slice'.blocks[ArmOf(slice', open'[k])].cond = conditions'[m + 1 - k]
    <3>1. CASE k = m
      <4>1. m + 1 - k = 1
        BY <3>1
      <4> QED
        BY <1>8, <1>10, <1>11, <3>1, <4>1
    <3>2. CASE k # m
      <4>1. k \in 1 .. m - 1 /\ m + 1 - k \in 2 .. m
        BY <1>1, <3>2
      <4>2. slice.blocks[ArmOf(slice, open[k])].cond = conditions[m + 1 - k]
        BY <1>1, <4>1 DEF IInv, ConditionsInv
      <4> QED
        BY <1>8, <1>10, <1>11, <4>1, <4>2
    <3> QED
      BY <3>1, <3>2
  <2> QED
    BY <1>8, <1>9, <2>1 DEF ConditionsInv
<1> QED
  BY <1>2, <1>4, <1>7, <1>9, <1>10, <1>12 DEF IInv

(* Thread::end_branch preserves the invariant.                             *)
LEMMA EndBranchIInv ==
  ASSUME IInv, ThreadEndBranch
  PROVE  IInv' /\ BranchEnded(slice, slice')
<1>1. PICK m \in Nat \ {0} : m = Len(open)
  BY InnermostFacts DEF ThreadEndBranch
<1>2. /\ open # <<>>
      /\ conditions' = Tail(conditions)
      /\ cache' = UnregisteredCache
      /\ slice' = EndBranch(slice)
      /\ open' = Front(open)
      /\ events' = events
  BY DEF ThreadEndBranch
<1>3. ArmBlock(slice) \in 2 .. Len(slice.blocks) /\ conditions # <<>>
  BY <1>2, InnermostFacts
<1>4. slice' \in SliceOf(EventType) /\ BranchEnded(slice, slice') /\ SliceInv(slice')
  <2>1. slice' \in SliceOf(EventType) /\ BranchEnded(slice, slice')
    BY <1>2, <1>3, EndBranchFacts DEF IInv
  <2> QED
    BY <2>1 DEF BranchEnded
<1>5. /\ conditions' \in Seq(Literal) /\ Len(conditions') = m - 1
      /\ \A i \in 1 .. m - 1 : conditions'[i] = conditions[i + 1]
  BY <1>1, <1>2, <1>3, TailFacts DEF IInv, PathInv, ConditionsInv
<1>6. PathInv'
  <2>1. UnregisteredCache \in Seq(Seq(Literal)) /\ CacheOf(Tail(conditions), UnregisteredCache)
    BY <1>3, UnregisterFacts DEF IInv
  <2> QED
    BY <1>2, <1>5, <2>1 DEF PathInv
<1>7. /\ open' \in ArmSeq /\ Len(open') = m - 1
      /\ \A k \in 1 .. m - 1 : open'[k] = open[k]
  BY <1>1, <1>2, FrontFacts DEF IInv, ArmSeq
<1>8. /\ OnArms(slice', open')
      /\ \A k \in 1 .. m - 1 : /\ ArmOf(slice', open'[k]) = ArmOf(slice, open[k])
                               /\ ArmOf(slice, open[k]) \in 1 .. Len(slice.blocks)
  BY <1>1, <1>4, <1>7, EndArms DEF IInv
<1>9. \A b \in 1 .. Len(slice.blocks) : slice'.blocks[b].cond = slice.blocks[b].cond
  BY <1>4 DEF BranchEnded
<1>10. ConditionsInv'
  <2>1. ASSUME NEW k \in 1 .. m - 1
        PROVE  slice'.blocks[ArmOf(slice', open'[k])].cond = conditions'[(m - 1) + 1 - k]
    <3>1. m - k \in 1 .. m - 1 /\ (m - 1) + 1 - k = m - k /\ m + 1 - k = (m - k) + 1 /\ k \in 1 .. m
      OBVIOUS
    <3>2. slice.blocks[ArmOf(slice, open[k])].cond = conditions[(m - k) + 1]
      BY <1>1, <3>1 DEF IInv, ConditionsInv
    <3> QED
      BY <1>5, <1>8, <1>9, <3>1, <3>2
  <2> QED
    BY <1>5, <1>7, <2>1 DEF ConditionsInv
<1> QED
  BY <1>2, <1>4, <1>6, <1>7, <1>8, <1>10 DEF IInv

(* Every operation preserves the invariant.                                *)
LEMMA NextIInv == IInv /\ [Next]_vars => IInv'
<1> SUFFICES ASSUME IInv, [Next]_vars PROVE IInv'
  OBVIOUS
<1>1. ASSUME NEW n \in 0 .. MaxReads, NEW shared \in BOOLEAN, Instr(n, shared)
      PROVE  IInv'
  BY <1>1, InstrIInv
<1>2. ASSUME NEW sym \in Condition, NEW n \in 0 .. MaxReads,
             ThreadBeginThen([sym |-> sym, pos |-> TRUE], n)
      PROVE  IInv'
  <2>1. [sym |-> sym, pos |-> TRUE] \in Literal
    BY DEF Literal
  <2> QED
    BY <1>2, <2>1, BeginThenIInv
<1>3. CASE ThreadBeginElse
  BY <1>3, BeginElseIInv
<1>4. CASE ThreadEndBranch
  BY <1>4, EndBranchIInv
<1>5. CASE UNCHANGED vars
  <2>1. UNCHANGED <<slice, conditions, cache, events, open>>
    BY <1>5 DEF vars
  <2> QED
    BY <2>1 DEF IInv, PathInv, ConditionsInv
<1> QED
  BY <1>1, <1>2, <1>3, <1>4, <1>5 DEF Next

(* The strengthening is an invariant of every recording. *)
THEOREM Inductive == Spec => []IInv
<1>1. Init => IInv
  BY InitIInv
<1>2. IInv /\ [Next]_vars => IInv'
  BY NextIInv
<1> QED
  BY <1>1, <1>2, PTL DEF Spec

-----------------------------------------------------------------------------
(* The state that class Thread and class Slice keep has its type.          *)
THEOREM TypeCorrect == Spec => []TypeOK
<1>1. IInv => TypeOK
  BY DEF IInv, PathInv, TypeOK, SliceOf, BlockOf, BlockType, ArmSeq
<1> QED
  BY <1>1, Inductive, PTL

(* No assertion of slice.h and thread.cpp fails while a program opens and  *)
(* closes its branches as slice.h asks, however deep they are nested and   *)
(* however many events and conditions there are.                           *)
THEOREM AssertionsHold == Spec => []AssertsHold
<1>1. ASSUME IInv PROVE AssertsHold
  <2>1. PathConditionAsserts /\ MostOuterAsserts(slice) /\ BeginThenAsserts(slice)
    BY <1>1, PathConditionFacts, OpenAsserts DEF IInv
  <2>2. ASSUME open # <<>>
        PROVE  UnregisterAsserts /\ BeginElseAsserts(slice) /\ EndBranchAsserts(slice)
    <3>1. conditions # <<>> /\ ArmBlock(slice) \in 2 .. Len(slice.blocks)
      BY <1>1, <2>2, InnermostFacts
    <3>2. UnregisterAsserts
      BY <1>1, <3>1 DEF UnregisterAsserts, IInv, PathInv, CacheOf
    <3>3. BeginElseAsserts(slice) /\ EndBranchAsserts(slice)
      BY <1>1, <3>1, CloseAsserts DEF IInv
    <3> QED
      BY <3>2, <3>3
  <2> QED
    BY <2>1, <2>2 DEF AssertsHold
<1> QED
  BY <1>1, Inductive, PTL

(* The condition that will guard the next event is the conjunction of the  *)
(* conditions of the blocks that the event will lie in: Thread's list and  *)
(* cache of conditions never disagree with the slice.                      *)
THEOREM GuardIsNesting == Spec => []PathFollowsArms
<1>1. ASSUME IInv PROVE PathFollowsArms
  <2>1. PICK m \in Nat : m = Len(open)
    BY <1>1 DEF IInv, ArmSeq
  <2>2. /\ \A k \in 1 .. m : OnArm(slice, open, k)
        /\ m = 0 => ArmBlock(slice) = Root
        /\ \A k \in 1 .. m : k = m => ArmBlock(slice) = ArmOf(slice, open[k])
        /\ DOMAIN open = 1 .. m
    BY <1>1, <2>1 DEF IInv, OnArms, ArmSeq
  <2>3. \A k \in 1 .. m : Arm(k) = ArmOf(slice, open[k]) /\ OuterOfArm(k) = AroundArm(slice, open, k)
    BY DEF Arm, ArmOf, OuterOfArm, AroundArm
  <2>4. \A k \in DOMAIN open : slice.blocks[Arm(k)].outer = OuterOfArm(k)
    BY <2>2, <2>3 DEF OnArm
  <2>5. OuterOfArm(m + 1) = ArmBlock(slice)
    <3>1. CASE m = 0
      BY <2>2, <3>1 DEF OuterOfArm
    <3>2. CASE m # 0
      <4>1. m \in 1 .. m /\ m + 1 # 1 /\ (m + 1) - 1 = m
        BY <3>2
      <4> QED
        BY <2>2, <2>3, <4>1 DEF OuterOfArm
    <3> QED
      BY <3>1, <3>2
  <2>6. PathCondition = [i \in 1 .. m |-> slice.blocks[Arm(m + 1 - i)].cond]
    <3>1. PathCondition = conditions /\ conditions \in Seq(Literal) /\ Len(conditions) = m
      BY <1>1, <2>1, PathConditionFacts DEF IInv, PathInv, ConditionsInv
    <3>2. conditions = [i \in 1 .. m |-> conditions[i]]
      BY <3>1
    <3>3. ASSUME NEW i \in 1 .. m
          PROVE  conditions[i] = slice.blocks[Arm(m + 1 - i)].cond
      <4>1. m + 1 - i \in 1 .. m /\ m + 1 - (m + 1 - i) = i
        OBVIOUS
      <4>2. slice.blocks[ArmOf(slice, open[m + 1 - i])].cond = conditions[m + 1 - (m + 1 - i)]
        BY <1>1, <2>1, <4>1 DEF IInv, ConditionsInv
      <4> QED
        BY <2>3, <4>1, <4>2
    <3> QED
      BY <3>1, <3>2, <3>3
  <2> QED
    BY <2>1, <2>4, <2>5, <2>6 DEF PathFollowsArms, ArmBlock
<1> QED
  BY <1>1, Inductive, PTL

-----------------------------------------------------------------------------
(* What OrderSpec reads from the graph does not disturb the recording.     *)
LEMMA OrderIsRecording == OrderSpec => Spec
<1>1. OrderInit => Init
  BY DEF OrderInit
<1>2. [OrderNext]_<<vars, arms, before>> => [Next]_vars
  BY DEF OrderNext
<1> QED
  BY <1>1, <1>2, PTL DEF OrderSpec, Spec

(* The graph that is encoded has the shape block.h and slice.h describe:   *)
(* an else block has the negated condition of its then block and lies in   *)
(* the same block, an unconditional block has no block inside, and none    *)
(* but the current one is without events.                                  *)
THEOREM ShapeHolds == OrderSpec => []Shape
<1>1. ASSUME IInv PROVE Shape
  <2> SUFFICES ASSUME NEW b \in Reachable(slice) \ {Root}
               PROVE  /\ slice.blocks[b].els # Null =>
                           /\ slice.blocks[slice.blocks[b].els].cond = Negate(slice.blocks[b].cond)
                           /\ slice.blocks[slice.blocks[b].els].outer = slice.blocks[b].outer
                      /\ ~IsConditional(slice.blocks[b]) =>
                           /\ slice.blocks[b].inner = <<>> /\ slice.blocks[b].els = Null
                           /\ b # slice.cur => slice.blocks[b].body # <<>>
    BY DEF Shape, Blocks
  <2>1. /\ slice \in SliceOf(EventType) /\ SliceInv(slice)
        /\ slice.blocks \in Seq(BlockOf(EventType)) /\ Len(slice.blocks) \in Nat
        /\ GraphInv(slice.blocks, slice.cur)
    BY <1>1, ArmBlockFacts DEF IInv, SliceInv
  <2>2. b \in 1 .. Len(slice.blocks) /\ Meant(slice, b) /\ b # Root
    BY <2>1, ReachableFacts
  <2>3. ElseBeside(slice.blocks, b)
    BY <2>1, <2>2 DEF GraphInv
  <2>4. ASSUME ~IsConditional(slice.blocks[b])
        PROVE  /\ slice.blocks[b].inner = <<>> /\ slice.blocks[b].els = Null
               /\ b # slice.cur => slice.blocks[b].body # <<>>
    <3>1. slice.blocks[b].els = Null
      BY <2>3, <2>4 DEF ElseBeside
    <3>2. slice.blocks[b].inner = <<>>
      <4> DEFINE is == slice.blocks[b].inner
      <4>1. is \in Seq(Nat)
        BY <2>1, <2>2, FieldTypes
      <4> SUFFICES ASSUME is # <<>> PROVE FALSE
        OBVIOUS
      <4>2. 1 \in 1 .. Len(is)
        BY <4>1
      <4>3. Inside(slice.blocks, slice.cur, b, is[1])
        BY <2>1, <2>2, <4>2 DEF GraphInv, InnerOf
      <4>4. Lies(slice.blocks, is[1])
        BY <2>1, <4>3 DEF GraphInv, Inside
      <4> QED
        BY <2>2, <2>4, <4>3, <4>4 DEF Inside, Lies
    <3> QED
      BY <2>2, <2>4, <3>1, <3>2 DEF Meant
  <2> QED
    BY <2>3, <2>4 DEF ElseBeside
<1> QED
  BY <1>1, Inductive, OrderIsRecording, PTL

-----------------------------------------------------------------------------
(* Every event that has been recorded is guarded by the conditions of the  *)
(* blocks around it: also in the blocks that the encoding does not reach.  *)
Guarded(s) ==
  \A b \in 1 .. Len(s.blocks) : \A i \in 1 .. Len(s.blocks[b].body) :
    Range(s.blocks[b].body[i].guard) = Conditions(s, b)

(* The path condition is made of the conditions around the current block.  *)
LEMMA PathIsAround ==
  ASSUME IInv
  PROVE  Range(conditions) = Conditions(slice, slice.cur)
<1>1. PICK m \in Nat : m = Len(open)
  BY DEF IInv, ArmSeq
<1>2. Conditions(slice, slice.cur) = { slice.blocks[ArmOf(slice, open[k])].cond : k \in 1 .. m }
  BY <1>1, ConditionsOfArms DEF IInv
<1>3. \A k \in 1 .. m : slice.blocks[ArmOf(slice, open[k])].cond = conditions[m + 1 - k]
  BY <1>1 DEF IInv, ConditionsInv
<1>4. { slice.blocks[ArmOf(slice, open[k])].cond : k \in 1 .. m } = { conditions[m + 1 - k] : k \in 1 .. m }
  BY <1>3
<1>5. Range(conditions) = { conditions[i] : i \in 1 .. m }
  BY <1>1 DEF IInv, PathInv, ConditionsInv, Range
<1>6. \A i \in 1 .. m : m + 1 - i \in 1 .. m /\ m + 1 - (m + 1 - i) = i
  OBVIOUS
<1>7. { conditions[m + 1 - k] : k \in 1 .. m } = { conditions[i] : i \in 1 .. m }
  BY <1>6
<1> QED
  BY <1>2, <1>4, <1>5, <1>7

(* The events recorded so far stay guarded when new ones, guarded by the   *)
(* path condition, are put into the current block, and when blocks come    *)
(* after the present ones.                                                 *)
LEMMA StillGuarded ==
  ASSUME IInv, Guarded(slice), NEW t \in SliceOf(EventType), SliceInv(t),
         NEW es \in Seq(EventType), \A i \in 1 .. Len(es) : es[i].guard = conditions,
         NEW n \in Nat, n = Len(slice.blocks), n <= Len(t.blocks),
         \A b \in 1 .. n : t.blocks[b].outer = slice.blocks[b].outer,
         \A b \in 1 .. n : IsConditional(slice.blocks[b]) => t.blocks[b].cond = slice.blocks[b].cond,
         \A b \in 1 .. n : \/ t.blocks[b].body = <<>>
                           \/ t.blocks[b].cond = slice.blocks[b].cond,
         \A b \in 1 .. n : \/ t.blocks[b].body = slice.blocks[b].body
                           \/ b = slice.cur /\ t.blocks[b].body = slice.blocks[b].body \o es,
         \A b \in 1 .. Len(t.blocks) : b \in 1 .. n \/ t.blocks[b].body = <<>>
  PROVE  Guarded(t)
<1> SUFFICES ASSUME NEW b \in 1 .. Len(t.blocks), NEW i \in 1 .. Len(t.blocks[b].body)
             PROVE  Range(t.blocks[b].body[i].guard) = Conditions(t, b)
  BY DEF Guarded
<1>1. t.blocks[b].body # <<>>
  OBVIOUS
<1>2. b \in 1 .. n /\ t.blocks[b].cond = slice.blocks[b].cond
  BY <1>1
<1>3. Conditions(t, b) = Conditions(slice, b)
  <2>1. slice \in SliceOf(EventType) /\ SliceInv(slice)
    BY DEF IInv
  <2> QED
    BY <1>2, <2>1, ConditionsKept
<1>4. \A j \in 1 .. Len(slice.blocks[b].body) :
        Range(slice.blocks[b].body[j].guard) = Conditions(slice, b)
  BY <1>2 DEF Guarded
<1>5. CASE t.blocks[b].body = slice.blocks[b].body
  BY <1>3, <1>4, <1>5
<1>6. CASE b = slice.cur /\ t.blocks[b].body = slice.blocks[b].body \o es
  <2> DEFINE old == slice.blocks[b].body
             k == i - Len(old)
  <2>1. old \in Seq(EventType)
    <3>1. slice.blocks \in Seq(BlockOf(EventType))
      BY DEF IInv, SliceOf
    <3> QED
      BY <1>2, <3>1, FieldTypes
  <2>2. i \in 1 .. Len(old \o es)
    BY <1>6
  <2>3. \/ i \in 1 .. Len(old) /\ (old \o es)[i] = old[i]
        \/ k \in 1 .. Len(es) /\ (old \o es)[i] = es[k]
    <3> HIDE DEF old
    <3> QED
      BY <2>1, <2>2
  <2>4. Range(conditions) = Conditions(slice, b)
    BY <1>6, PathIsAround
  <2> QED
    BY <1>3, <1>4, <1>6, <2>3, <2>4
<1> QED
  BY <1>2, <1>5, <1>6

(* Every operation keeps every recorded event guarded by the conditions    *)
(* around it.                                                              *)
LEMMA NextGuarded ==
  IInv /\ IInv' /\ Guarded(slice) /\ [Next]_vars => Guarded(slice')
<1> SUFFICES ASSUME IInv, IInv', Guarded(slice), [Next]_vars PROVE Guarded(slice')
  OBVIOUS
<1> DEFINE n == Len(slice.blocks)
<1>1. /\ slice' \in SliceOf(EventType) /\ SliceInv(slice') /\ n \in Nat
      /\ slice.cur \in 1 .. n /\ ArmBlock(slice) \in 1 .. n
  <2>1. slice' \in SliceOf(EventType) /\ SliceInv(slice')
    BY DEF IInv
  <2>2. n \in Nat /\ slice.cur \in 2 .. n /\ ArmBlock(slice) \in 1 .. n
    BY ArmBlockFacts DEF IInv
  <2> QED
    BY <2>1, <2>2
<1>2. ASSUME NEW r \in 0 .. MaxReads, NEW shared \in BOOLEAN, Instr(r, shared)
      PROVE  Guarded(slice')
  <2>1. PICK es \in Seq(EventType) : /\ Written(slice.blocks, slice'.blocks, slice.cur, es)
                                     /\ \A i \in 1 .. Len(es) : es[i].guard = conditions
    BY <1>2, InstrFacts
  <2>2. /\ Len(slice'.blocks) = n
        /\ \A b \in 1 .. n : /\ slice'.blocks[b].outer = slice.blocks[b].outer
                             /\ slice'.blocks[b].cond = slice.blocks[b].cond
                             /\ \/ slice'.blocks[b].body = slice.blocks[b].body
                                \/ b = slice.cur /\ slice'.blocks[b].body = slice.blocks[b].body \o es
    BY <2>1 DEF Written, Kept
  <2>3. n <= Len(slice'.blocks)
    BY <1>1, <2>2
  <2> HIDE DEF n
  <2> QED
    BY <1>1, <2>1, <2>2, <2>3, StillGuarded DEF n
<1>3. ASSUME NEW sym \in Condition, NEW r \in 0 .. MaxReads,
             ThreadBeginThen([sym |-> sym, pos |-> TRUE], r)
      PROVE  Guarded(slice')
  <2> DEFINE lit == [sym |-> sym, pos |-> TRUE]
             es == Reads(r)
  <2>1. lit \in Literal
    BY DEF Literal
  <2> HIDE DEF lit
  <2>2. ThenOpened(slice, slice', lit, es) /\ es \in Seq(EventType)
    BY <1>3, <2>1, BeginThenIInv DEF lit
  <2>3. \A i \in 1 .. Len(es) : es[i].guard = conditions
    <3>1. r \in Nat /\ TRUE \in BOOLEAN
      BY BoundAssumption
    <3> QED
      BY <3>1, EventFacts
  <2> HIDE DEF es
  <2>4. /\ slice'.cur = n + 1 \/ (slice'.cur = slice.cur /\ ~IsConditional(slice.blocks[slice.cur]))
        /\ slice'.blocks[slice'.cur].body = <<>>
        /\ Len(slice'.blocks) = n \/ (Len(slice'.blocks) = n + 1 /\ slice'.cur = n + 1)
    BY <2>2 DEF ThenOpened, Current
  <2>5. \A b \in 1 .. n : /\ slice'.blocks[b].outer = slice.blocks[b].outer
                          /\ b # slice'.cur => slice'.blocks[b].cond = slice.blocks[b].cond
                          /\ \/ slice'.blocks[b].body = slice.blocks[b].body
                             \/ b = slice.cur /\ slice'.blocks[b].body = slice.blocks[b].body \o es
    BY <2>2 DEF ThenOpened
  <2>6. \A b \in 1 .. n : IsConditional(slice.blocks[b]) => b # slice'.cur
    BY <1>1, <2>4
  <2>7. /\ n <= Len(slice'.blocks)
        /\ \A b \in 1 .. Len(slice'.blocks) : b \in 1 .. n \/ slice'.blocks[b].body = <<>>
    BY <1>1, <2>4
  <2>8. \A b \in 1 .. n : \/ slice'.blocks[b].body = <<>>
                          \/ slice'.blocks[b].cond = slice.blocks[b].cond
    BY <2>4, <2>5
  <2>9. \A b \in 1 .. n : IsConditional(slice.blocks[b]) => slice'.blocks[b].cond = slice.blocks[b].cond
    BY <2>5, <2>6
  <2> HIDE DEF n
  <2> QED
    BY <1>1, <2>2, <2>3, <2>5, <2>7, <2>8, <2>9, StillGuarded DEF n
<1>4. CASE ThreadBeginElse \/ ThreadEndBranch
  <2>1. ElseOpened(slice, slice') \/ BranchEnded(slice, slice')
    BY <1>4, BeginElseIInv, EndBranchIInv
  <2>2. /\ Len(slice'.blocks) = n + 1 /\ slice'.blocks[n + 1].body = <<>>
        /\ \A b \in 1 .. n : /\ slice'.blocks[b].outer = slice.blocks[b].outer
                             /\ slice'.blocks[b].cond = slice.blocks[b].cond
                             /\ slice'.blocks[b].body = slice.blocks[b].body
    BY <2>1 DEF ElseOpened, BranchEnded, Current
  <2>3. /\ n <= Len(slice'.blocks)
        /\ \A b \in 1 .. Len(slice'.blocks) : b \in 1 .. n \/ slice'.blocks[b].body = <<>>
    BY <1>1, <2>2
  <2>4. <<>> \in Seq(EventType) /\ \A i \in 1 .. Len(<<>>) : <<>>[i].guard = conditions
    OBVIOUS
  <2> HIDE DEF n
  <2> QED
    BY <1>1, <2>2, <2>3, <2>4, StillGuarded DEF n
<1>5. CASE UNCHANGED vars
  BY <1>5 DEF vars
<1> QED
  BY <1>2, <1>3, <1>4, <1>5 DEF Next

(* Every event that the encoding reaches is guarded by exactly the         *)
(* conditions of the blocks it lies in, for all programs: what Thread      *)
(* cached when the event was made is what the finished graph says.         *)
THEOREM GuardsAreNesting == OrderSpec => []GuardsFollowBlocks
<1>1. Init => Guarded(slice)
  <2> SUFFICES ASSUME Init PROVE Guarded(slice)
    OBVIOUS
  <2>1. slice = EmptySlice
    BY DEF Init
  <2>2. Len(slice.blocks) = 2 /\ \A b \in 1 .. 2 : slice.blocks[b].body = <<>>
    BY <2>1, EmptySliceFacts
  <2> QED
    BY <2>2 DEF Guarded
<1>2. IInv /\ IInv' /\ Guarded(slice) /\ [Next]_vars => Guarded(slice)'
  BY NextGuarded
<1>3. IInv /\ Guarded(slice) => GuardsFollowBlocks
  <2> SUFFICES ASSUME IInv, Guarded(slice), NEW b \in Reachable(slice),
                      NEW i \in DOMAIN slice.blocks[b].body
               PROVE  Range(slice.blocks[b].body[i].guard) = ConditionsAround(b)
    BY DEF GuardsFollowBlocks, Blocks
  <2>1. b \in 1 .. Len(slice.blocks) /\ slice.blocks \in Seq(BlockOf(EventType))
    BY ReachableFacts DEF IInv, SliceOf
  <2>2. i \in 1 .. Len(slice.blocks[b].body)
    BY <2>1, FieldTypes
  <2> QED
    BY <2>1, <2>2 DEF Guarded, Conditions, ConditionsAround
<1> QED
  BY <1>1, <1>2, <1>3, Inductive, OrderIsRecording, PTL DEF Spec

-----------------------------------------------------------------------------
(* The events of an instruction, and the reads of a condition, have the    *)
(* next numbers.                                                           *)
LEMMA ReadsFacts ==
  ASSUME IInv, NEW n \in Nat
  PROVE  /\ Reads(n) \in Seq(EventType) /\ Len(Reads(n)) = n
         /\ \A i \in 1 .. Len(Reads(n)) : Reads(n)[i].id = events + i
<1>1. Reads(n) \in Seq(EventType)
  BY EventFacts
<1>2. Reads(n) = [i \in 1 .. n |-> Event(events + i, TRUE)]
  BY DEF Reads
<1>3. Len(Reads(n)) = n
  BY <1>2
<1>4. ASSUME NEW i \in 1 .. n PROVE Reads(n)[i].id = events + i
  <2>1. Reads(n)[i] = Event(events + i, TRUE)
    BY <1>2
  <2> QED
    BY <2>1 DEF Event
<1> QED
  BY <1>1, <1>3, <1>4

(* Every operation keeps the events in the order of their numbers.         *)
LEMMA NextInOrder ==
  IInv /\ InOrder(slice.blocks, events) /\ [Next]_vars => InOrder(slice'.blocks, events')
<1> SUFFICES ASSUME IInv, InOrder(slice.blocks, events), [Next]_vars
             PROVE  InOrder(slice'.blocks, events')
  OBVIOUS
<1>1. /\ slice \in SliceOf(EventType) /\ SliceInv(slice) /\ events \in Nat
      /\ open \in ArmSeq /\ OnArms(slice, open)
  BY DEF IInv
<1>2. ASSUME NEW n \in 0 .. MaxReads, NEW shared \in BOOLEAN, Instr(n, shared)
      PROVE  InOrder(slice'.blocks, events')
  <2> DEFINE u == AppendAll(slice, Reads(n))
             e == Event(events + n + 1, shared)
             v == AppendAll(u, <<e>>)
             k == events + n
  <2>1. n \in Nat /\ k \in Nat /\ events + n + 1 \in Nat /\ events + n + 1 = k + 1
    BY <1>1, BoundAssumption
  <2>2. /\ Reads(n) \in Seq(EventType) /\ Len(Reads(n)) = n
        /\ \A i \in 1 .. Len(Reads(n)) : Reads(n)[i].id = events + i
    BY <2>1, ReadsFacts
  <2>3. u \in SliceOf(EventType) /\ SliceInv(u) /\ u.cur = slice.cur
        /\ Written(slice.blocks, u.blocks, slice.cur, Reads(n))
    BY <1>1, <2>2, AppendAllInv
  <2>4. InOrder(u.blocks, k)
    <3>1. InOrder(u.blocks, events + Len(Reads(n)))
      BY <1>1, <2>2, AppendAllOrder
    <3> QED
      BY <2>2, <3>1
  <2> HIDE DEF u
  <2>5. OnArms(u, open)
    BY <1>1, <2>3, WrittenArms
  <2>6. e \in EventType /\ e.id = k + 1
    <3>1. e \in EventType
      BY <2>1, EventFacts
    <3> QED
      BY <2>1, <3>1 DEF Event
  <2> HIDE DEF e, k
  <2>7. <<e>> \in Seq(EventType) /\ Len(<<e>>) = 1 /\ \A i \in 1 .. Len(<<e>>) : <<e>>[i].id = k + i
    <3>1. <<e>> \in Seq(EventType) /\ Len(<<e>>) = 1 /\ <<e>>[1] = e
      BY <2>6
    <3>2. \A i \in 1 .. 1 : i = 1
      OBVIOUS
    <3> QED
      BY <2>6, <3>1, <3>2
  <2>8. InOrder(v.blocks, k + Len(<<e>>))
    BY <1>1, <2>1, <2>3, <2>4, <2>5, <2>7, AppendAllOrder
  <2>9. k + Len(<<e>>) = k + 1
    BY <2>7
  <2>10. slice' = v /\ events' = k + 1
    BY <1>2, <2>1 DEF Instr, u, e
  <2> QED
    BY <2>8, <2>9, <2>10
<1>3. ASSUME NEW sym \in Condition, NEW n \in 0 .. MaxReads,
             ThreadBeginThen([sym |-> sym, pos |-> TRUE], n)
      PROVE  InOrder(slice'.blocks, events')
  <2> DEFINE lit == [sym |-> sym, pos |-> TRUE]
  <2>1. lit \in Literal /\ n \in Nat
    BY BoundAssumption DEF Literal
  <2>2. /\ Reads(n) \in Seq(EventType) /\ Len(Reads(n)) = n
        /\ \A i \in 1 .. Len(Reads(n)) : Reads(n)[i].id = events + i
    BY <2>1, ReadsFacts
  <2>3. slice' = BeginThen(slice, lit, Reads(n)) /\ events' = events + Len(Reads(n))
    BY <1>3, <2>2 DEF ThreadBeginThen
  <2> HIDE DEF lit
  <2>4. InOrder(BeginThen(slice, lit, Reads(n)).blocks, events + Len(Reads(n)))
    BY <1>1, <2>1, <2>2, BeginThenOrder
  <2> QED
    BY <2>3, <2>4
<1>4. CASE ThreadBeginElse
  <2>1. /\ open # <<>> /\ Last(open).side = "then"
        /\ slice' = BeginElse(slice) /\ events' = events
    BY <1>4 DEF ThreadBeginElse
  <2>2. Len(open) \in Nat \ {0} /\ open[Len(open)].side = "then"
    BY <2>1, InnermostFacts DEF Last
  <2>3. InOrder(BeginElse(slice).blocks, events)
    BY <1>1, <2>2, BeginElseOrder
  <2> QED
    BY <2>1, <2>3
<1>5. CASE ThreadEndBranch
  <2>1. open # <<>> /\ slice' = EndBranch(slice) /\ events' = events
    BY <1>5 DEF ThreadEndBranch
  <2>2. ArmBlock(slice) \in 2 .. Len(slice.blocks)
    BY <2>1, InnermostFacts
  <2>3. InOrder(EndBranch(slice).blocks, events)
    BY <1>1, <2>2, EndBranchOrder
  <2> QED
    BY <2>1, <2>3
<1>6. CASE UNCHANGED vars
  BY <1>6 DEF vars
<1> QED
  BY <1>2, <1>3, <1>4, <1>5, <1>6 DEF Next

(* The walk that Threads::encode makes over the finished graph meets the   *)
(* events that the thread recorded, each exactly once and in the order of  *)
(* recording, for all programs: no event is lost in an unlinked block, put *)
(* after a branch it precedes, or met twice.                               *)
THEOREM WalkIsRecording == OrderSpec => []WalkIsRecordingOrder
<1>1. Init => InOrder(slice.blocks, events)
  BY EmptyOrder DEF Init
<1>2. IInv /\ InOrder(slice.blocks, events) /\ [Next]_vars => InOrder(slice.blocks, events)'
  BY NextInOrder
<1>3. IInv /\ InOrder(slice.blocks, events) => WalkIsRecordingOrder
  BY InOrderWalks DEF IInv, WalkIsRecordingOrder
<1> QED
  BY <1>1, <1>2, <1>3, Inductive, OrderIsRecording, PTL DEF Spec

-----------------------------------------------------------------------------
(* A function that is given for each block by its value for the outer one. *)
Descends(f, bs, n, a, steps) ==
  /\ n >= 1 => f[1] = a
  /\ \A b \in 2 .. n : f[b] = steps[b][f[bs[b].outer]]

(* What is defined along the outer blocks of a slice exists: each block    *)
(* has its outer block before it.                                          *)
LEMMA OuterSteps ==
  ASSUME NEW bs, NEW n \in Nat, \A b \in 2 .. n : bs[b].outer \in 1 .. b - 1,
         NEW V, NEW a \in V, NEW steps \in [2 .. n -> [V -> V]]
  PROVE  \E f \in [1 .. n -> V] : Descends(f, bs, n, a, steps)
<1> DEFINE Good(f, m) == /\ f \in [1 .. m -> V]
                         /\ m >= 1 => f[1] = a
                         /\ \A b \in 2 .. m : f[b] = steps[b][f[bs[b].outer]]
           good == { m \in Nat : m <= n => \E f : Good(f, m) }
<1>1. 0 \in good
  <2> DEFINE f == [b \in 1 .. 0 |-> a]
  <2>1. Good(f, 0)
    OBVIOUS
  <2> QED
    BY <2>1
<1>2. ASSUME NEW m \in Nat, m \in good PROVE m + 1 \in good
  <2>1. m + 1 \in Nat
    OBVIOUS
  <2> SUFFICES ASSUME m + 1 <= n PROVE \E f : Good(f, m + 1)
    BY <2>1
  <2>2. PICK old : Good(old, m)
    BY <1>2
  <2> DEFINE next == IF m = 0 THEN a ELSE steps[m + 1][old[bs[m + 1].outer]]
             new == [b \in 1 .. m + 1 |-> IF b = m + 1 THEN next ELSE old[b]]
  <2>3. next \in V
    <3>1. CASE m = 0
      BY <3>1
    <3>2. CASE m # 0
      <4>1. m + 1 \in 2 .. n
        BY <3>2
      <4>2. bs[m + 1].outer \in 1 .. m
        BY <4>1
      <4>3. old[bs[m + 1].outer] \in V /\ steps[m + 1] \in [V -> V]
        BY <2>2, <4>1, <4>2
      <4> QED
        BY <3>2, <4>3
    <3> QED
      BY <3>1, <3>2
  <2>4. new[m + 1] = next /\ \A b \in 1 .. m : new[b] = old[b]
    <3>1. m + 1 \in 1 .. m + 1 /\ \A b \in 1 .. m : b \in 1 .. m + 1 /\ b # m + 1
      BY <2>1
    <3> HIDE DEF next
    <3> QED
      BY <3>1
  <2>5. new \in [1 .. m + 1 -> V]
    <3>1. \A b \in 1 .. m + 1 : b # m + 1 => b \in 1 .. m
      OBVIOUS
    <3> HIDE DEF next
    <3> QED
      BY <2>2, <2>3, <3>1
  <2> HIDE DEF new
  <2>6. new[1] = a
    <3>1. CASE m = 0
      BY <2>4, <3>1
    <3>2. CASE m # 0
      BY <2>2, <2>4, <3>2
    <3> QED
      BY <3>1, <3>2
  <2>7. ASSUME NEW b \in 2 .. m + 1 PROVE new[b] = steps[b][new[bs[b].outer]]
    <3>1. bs[b].outer \in 1 .. b - 1
      OBVIOUS
    <3>2. bs[b].outer \in 1 .. m
      BY <3>1
    <3>3. new[bs[b].outer] = old[bs[b].outer]
      BY <2>4, <3>2
    <3>4. CASE b = m + 1
      <4>1. m # 0
        BY <3>4
      <4> QED
        BY <2>4, <3>3, <3>4, <4>1
    <3>5. CASE b # m + 1
      <4>1. b \in 2 .. m /\ b \in 1 .. m
        BY <3>5
      <4> QED
        BY <2>2, <2>4, <3>3, <4>1
    <3> QED
      BY <3>4, <3>5
  <2>8. Good(new, m + 1)
    BY <2>5, <2>6, <2>7
  <2> QED
    BY <2>8
<1>3. \A m \in Nat : m \in good
  <2> HIDE DEF good
  <2> QED BY <1>1, <1>2, SetInduction
<1>4. PICK f : Good(f, n)
  BY <1>3
<1> QED
  BY <1>4 DEF Descends

-----------------------------------------------------------------------------
(* The arm that block b is: an else block, or a then block.                *)
ArmName(bs, b) ==
  LET thens == { t \in DOMAIN bs : bs[t].els = b }
  IN  IF thens = {} THEN [branch |-> b, side |-> "then"]
      ELSE [branch |-> CHOOSE t \in thens : TRUE, side |-> "else"]

ArmsAt(bs, q, b) ==
  IF b = Root THEN <<>>
  ELSE IF ~IsConditional(bs[b]) THEN q[bs[b].outer]
  ELSE Append(q[bs[b].outer], ArmName(bs, b))

ArmType == [branch : Nat, side : {"then", "else"}]

(* An else block is the else arm of the block that has it, and any other   *)
(* block is the then arm of a branch of its own.                           *)
LEMMA ArmNameFacts ==
  ASSUME NEW E, NEW s \in SliceOf(E), SliceInv(s), Apart(s.blocks)
  PROVE  /\ \A b \in 1 .. Len(s.blocks) : ArmName(s.blocks, b) \in ArmType
         /\ \A b \in 1 .. Len(s.blocks) : \A t \in 1 .. Len(s.blocks) :
              s.blocks[t].els = b => ArmName(s.blocks, b) = [branch |-> t, side |-> "else"]
         /\ \A b \in 1 .. Len(s.blocks) : (\A t \in 1 .. Len(s.blocks) : s.blocks[t].els # b) =>
              ArmName(s.blocks, b) = [branch |-> b, side |-> "then"]
<1> DEFINE bs == s.blocks
           thens(b) == { t \in DOMAIN bs : bs[t].els = b }
<1>1. Len(bs) \in Nat /\ DOMAIN bs = 1 .. Len(bs)
  <2>1. bs \in Seq(BlockOf(E))
    BY ArmBlockFacts
  <2> QED
    BY <2>1
<1>2. \A b : ArmName(bs, b) = IF thens(b) = {} THEN [branch |-> b, side |-> "then"]
                              ELSE [branch |-> CHOOSE t \in thens(b) : TRUE, side |-> "else"]
  BY DEF ArmName
<1>3. ASSUME NEW b \in 1 .. Len(bs), NEW t \in 1 .. Len(bs), bs[t].els = b
      PROVE  ArmName(bs, b) = [branch |-> t, side |-> "else"]
  <2>1. bs[t].els # Null
    BY <1>3 DEF Null
  <2>2. \A u \in 1 .. Len(bs) : bs[u].els = b => u = t
    BY <1>3, <2>1 DEF Apart
  <2>3. thens(b) = {t}
    BY <1>1, <1>3, <2>2
  <2>4. (CHOOSE u \in {t} : TRUE) = t
    OBVIOUS
  <2> HIDE DEF thens
  <2> QED
    BY <1>2, <2>3, <2>4
<1>4. ASSUME NEW b \in 1 .. Len(bs), \A t \in 1 .. Len(bs) : bs[t].els # b
      PROVE  ArmName(bs, b) = [branch |-> b, side |-> "then"]
  <2>1. thens(b) = {}
    BY <1>1, <1>4
  <2> HIDE DEF thens
  <2> QED
    BY <1>2, <2>1
<1>5. ASSUME NEW b \in 1 .. Len(bs) PROVE ArmName(bs, b) \in ArmType
  <2>1. CASE \E t \in 1 .. Len(bs) : bs[t].els = b
    <3>1. PICK t \in 1 .. Len(bs) : bs[t].els = b
      BY <2>1
    <3>2. t \in Nat
      BY <1>1
    <3>3. [branch |-> t, side |-> "else"] \in ArmType
      BY <3>2 DEF ArmType
    <3> QED
      BY <1>3, <3>1, <3>3
  <2>2. CASE ~ \E t \in 1 .. Len(bs) : bs[t].els = b
    <3>1. b \in Nat
      BY <1>1
    <3>2. [branch |-> b, side |-> "then"] \in ArmType
      BY <3>1 DEF ArmType
    <3> QED
      BY <1>4, <2>2, <3>2
  <2> QED
    BY <2>1, <2>2
<1> QED
  BY <1>3, <1>4, <1>5

(* The arms around a block, from those around its outer block.             *)
LEMMA ArmsFacts ==
  ASSUME NEW E, NEW s \in SliceOf(E), SliceInv(s), Apart(s.blocks)
  PROVE  /\ ArmsOf(s)[Root] = <<>>
         /\ \A b \in 1 .. Len(s.blocks) : ArmsOf(s)[b] \in ArmSeq
         /\ \A b \in 2 .. Len(s.blocks) :
              ArmsOf(s)[b] = IF ~IsConditional(s.blocks[b]) THEN ArmsOf(s)[s.blocks[b].outer]
                             ELSE Append(ArmsOf(s)[s.blocks[b].outer], ArmName(s.blocks, b))
<1> DEFINE bs == s.blocks
           N == Len(bs)
           ch == CHOOSE q : q = [b \in DOMAIN bs |-> ArmsAt(bs, q, b)]
           step(b) == [q \in ArmSeq |-> IF ~IsConditional(bs[b]) THEN q ELSE Append(q, ArmName(bs, b))]
           steps == [b \in 2 .. N |-> step(b)]
<1>1. /\ N \in Nat /\ DOMAIN bs = 1 .. N /\ N >= 2
      /\ \A b \in 2 .. N : bs[b].outer \in 1 .. b - 1
  <2>1. bs \in Seq(BlockOf(E)) /\ Len(bs) \in Nat
    BY ArmBlockFacts
  <2> QED
    BY <2>1 DEF SliceInv, GraphInv, OuterMost, Lies
<1>2. ArmsOf(s) = ch
  BY DEF ArmsOf, ArmsAt, ArmName
<1>3. \A b \in 1 .. N : ArmName(bs, b) \in ArmType
  BY ArmNameFacts
<1>4. ASSUME NEW b \in 2 .. N PROVE step(b) \in [ArmSeq -> ArmSeq]
  <2>1. b \in 1 .. N
    OBVIOUS
  <2>2. ArmName(bs, b) \in ArmType
    BY <1>3, <2>1
  <2>3. \A q \in ArmSeq : Append(q, ArmName(bs, b)) \in ArmSeq
    BY <2>2 DEF ArmSeq, ArmType
  <2> QED
    BY <2>3
<1>5. \A b \in 2 .. N : \A q \in ArmSeq :
        step(b)[q] = IF ~IsConditional(bs[b]) THEN q ELSE Append(q, ArmName(bs, b))
  OBVIOUS
<1> HIDE DEF step
<1>6. steps \in [2 .. N -> [ArmSeq -> ArmSeq]] /\ \A b \in 2 .. N : steps[b] = step(b)
  BY <1>4
<1> HIDE DEF steps
<1>7. PICK f \in [1 .. N -> ArmSeq] : /\ N >= 1 => f[1] = <<>>
                                      /\ \A b \in 2 .. N : f[b] = steps[b][f[bs[b].outer]]
  <2>1. <<>> \in ArmSeq
    BY DEF ArmSeq
  <2>2. N \in Nat /\ (\A b \in 2 .. N : bs[b].outer \in 1 .. b - 1) /\ steps \in [2 .. N -> [ArmSeq -> ArmSeq]]
    BY <1>1, <1>6
  <2> DEFINE V == ArmSeq
  <2> HIDE DEF bs, N, V
  <2>3. <<>> \in V /\ steps \in [2 .. N -> [V -> V]]
    BY <2>1, <2>2 DEF V
  <2>4. N \in Nat
    BY <2>2
  <2>5. \A b \in 2 .. N : bs[b].outer \in 1 .. b - 1
    BY <2>2
  <2>6. <<>> \in V
    BY <2>3
  <2>7. steps \in [2 .. N -> [V -> V]]
    BY <2>3
  <2> DEFINE none == <<>>
  <2>8. none \in V
    BY <2>6
  <2> HIDE DEF none
  <2>9. \E f \in [1 .. N -> V] : Descends(f, bs, N, none, steps)
    BY <2>4, <2>5, <2>7, <2>8, OuterSteps
  <2> QED
    BY <2>9 DEF V, none, Descends
<1>8. \A b \in 2 .. N : bs[b].outer \in 1 .. N
  BY <1>1
<1>9. \A b \in 2 .. N : f[b] = IF ~IsConditional(bs[b]) THEN f[bs[b].outer]
                               ELSE Append(f[bs[b].outer], ArmName(bs, b))
  BY <1>5, <1>6, <1>7, <1>8
<1>10. f = [b \in DOMAIN bs |-> ArmsAt(bs, f, b)]
  <2>1. \A b \in 1 .. N : f[b] = ArmsAt(bs, f, b)
    <3> SUFFICES ASSUME NEW b \in 1 .. N PROVE f[b] = ArmsAt(bs, f, b)
      OBVIOUS
    <3>1. CASE b = Root
      BY <1>1, <1>7, <3>1 DEF ArmsAt, Root
    <3>2. CASE b # Root
      <4>1. b \in 2 .. N
        BY <3>2 DEF Root
      <4> QED
        BY <1>9, <3>2, <4>1 DEF ArmsAt
    <3> QED
      BY <3>1, <3>2
  <2>2. f = [b \in 1 .. N |-> f[b]]
    BY <1>7
  <2> QED
    BY <1>1, <2>1, <2>2
<1>11. ch = [b \in DOMAIN bs |-> ArmsAt(bs, ch, b)]
  BY <1>10, Zenon
<1> HIDE DEF ch
<1>12. \A b \in 1 .. N : ch[b] = ArmsAt(bs, ch, b)
  BY <1>1, <1>11, Zenon
<1>13. ch[Root] = <<>>
  <2>1. Root \in 1 .. N
    BY <1>1 DEF Root
  <2> QED
    BY <1>12, <2>1 DEF ArmsAt
<1>14. \A b \in 2 .. N : ch[b] = IF ~IsConditional(bs[b]) THEN ch[bs[b].outer]
                                 ELSE Append(ch[bs[b].outer], ArmName(bs, b))
  <2>1. \A b \in 2 .. N : b \in 1 .. N /\ b # Root
    BY <1>1 DEF Root
  <2> QED
    BY <1>12, <2>1 DEF ArmsAt
<1> DEFINE S == { b \in 1 .. N : ch[b] \in ArmSeq }
<1>15. Root \in S
  <2>1. Root \in 1 .. N
    BY <1>1 DEF Root
  <2>2. <<>> \in ArmSeq
    BY DEF ArmSeq
  <2> QED
    BY <1>13, <2>1, <2>2
<1>16. ASSUME NEW b \in 2 .. N, bs[b].outer \in S PROVE b \in S
  <2>1. ArmName(bs, b) \in ArmType /\ b \in 1 .. N
    BY <1>3
  <2>2. Append(ch[bs[b].outer], ArmName(bs, b)) \in ArmSeq
    BY <1>16, <2>1 DEF ArmSeq, ArmType
  <2> QED
    BY <1>14, <1>16, <2>1, <2>2
<1>17. \A b \in 1 .. N : b \in S
  <2> HIDE DEF S, bs, N
  <2> QED
    BY <1>1, <1>15, <1>16, OuterInduction
<1> QED
  BY <1>2, <1>13, <1>14, <1>17

-----------------------------------------------------------------------------
(* An element is appended to the range of a sequence.                      *)
LEMMA RangeAppend ==
  ASSUME NEW S, NEW q \in Seq(S), NEW x \in S
  PROVE  Range(Append(q, x)) = Range(q) \union {x}
<1> SUFFICES ASSUME NEW y PROVE y \in Range(Append(q, x)) <=> y \in Range(q) \union {x}
  OBVIOUS
<1>1. /\ DOMAIN q = 1 .. Len(q) /\ Len(q) \in Nat
      /\ DOMAIN Append(q, x) = 1 .. Len(q) + 1
      /\ Append(q, x)[Len(q) + 1] = x
      /\ \A i \in 1 .. Len(q) : Append(q, x)[i] = q[i]
  OBVIOUS
<1> DEFINE r == Append(q, x)
<1> HIDE DEF r
<1>2. DOMAIN r = 1 .. Len(q) + 1 /\ r[Len(q) + 1] = x /\ \A i \in 1 .. Len(q) : r[i] = q[i]
  BY <1>1 DEF r
<1>3. ASSUME y \in Range(r) PROVE y \in Range(q) \union {x}
  <2>1. PICK i \in 1 .. Len(q) + 1 : y = r[i]
    BY <1>2, <1>3 DEF Range
  <2>2. i = Len(q) + 1 \/ i \in 1 .. Len(q)
    BY <1>1
  <2> QED
    BY <1>1, <1>2, <2>1, <2>2 DEF Range
<1>4. ASSUME y \in Range(q) \union {x} PROVE y \in Range(r)
  <2>1. CASE y = x
    <3>1. Len(q) + 1 \in 1 .. Len(q) + 1
      BY <1>1
    <3> QED
      BY <1>2, <2>1, <3>1 DEF Range
  <2>2. CASE y \in Range(q)
    <3>1. PICK i \in 1 .. Len(q) : y = q[i]
      BY <1>1, <2>2 DEF Range
    <3>2. i \in 1 .. Len(q) + 1
      BY <1>1
    <3> QED
      BY <1>2, <3>1, <3>2 DEF Range
  <2> QED
    BY <1>4, <2>1, <2>2
<1> QED
  BY <1>3, <1>4 DEF r

(* The arms around a block are those that the conditional blocks around it *)
(* are.                                                                    *)
ArmsAround(s, b) ==
  { ArmName(s.blocks, c) : c \in { d \in BlocksAround(s)[b] : IsConditional(s.blocks[d]) } }

(* The arms of a block are the names of the blocks around it.              *)
LEMMA ArmsRange ==
  ASSUME NEW E, NEW s \in SliceOf(E), SliceInv(s), Apart(s.blocks)
  PROVE  \A b \in 1 .. Len(s.blocks) : Range(ArmsOf(s)[b]) = ArmsAround(s, b)
<1> DEFINE bs == s.blocks
           N == Len(bs)
           A == ArmsOf(s)
           S == { b \in 1 .. N : Range(A[b]) = ArmsAround(s, b) }
<1>1. N \in Nat /\ N >= 2 /\ \A b \in 2 .. N : bs[b].outer \in 1 .. b - 1
  <2>1. N \in Nat
    BY ArmBlockFacts
  <2> QED
    BY <2>1 DEF SliceInv, GraphInv, OuterMost, Lies
<1>2. /\ A[Root] = <<>>
      /\ \A b \in 1 .. N : A[b] \in ArmSeq
      /\ \A b \in 2 .. N : A[b] = IF ~IsConditional(bs[b]) THEN A[bs[b].outer]
                                  ELSE Append(A[bs[b].outer], ArmName(bs, b))
  BY ArmsFacts
<1>3. /\ BlocksAround(s)[Root] = {}
      /\ \A b \in 2 .. N : BlocksAround(s)[b] = {b} \union BlocksAround(s)[bs[b].outer]
  BY AroundFacts
<1>4. \A b \in 1 .. N : ArmName(bs, b) \in ArmType
  BY ArmNameFacts
<1>5. Root \in S
  <2>1. Root \in 1 .. N
    BY <1>1 DEF Root
  <2>2. Range(<<>>) = {}
    BY DEF Range
  <2>3. ArmsAround(s, Root) = {}
    BY <1>3 DEF ArmsAround
  <2> HIDE DEF A
  <2> QED
    BY <1>2, <2>1, <2>2, <2>3
<1> HIDE DEF A
<1>6. ASSUME NEW b \in 2 .. N, bs[b].outer \in S PROVE b \in S
  <2> DEFINE o == bs[b].outer
  <2>1. o \in 1 .. N /\ b \in 1 .. N /\ Range(A[o]) = ArmsAround(s, o)
    BY <1>1, <1>6
  <2>2. BlocksAround(s)[b] = {b} \union BlocksAround(s)[o]
    BY <1>3
  <2>3. A[b] = IF ~IsConditional(bs[b]) THEN A[o] ELSE Append(A[o], ArmName(bs, b))
    BY <1>2
  <2> HIDE DEF o, bs
  <2>4. CASE ~IsConditional(bs[b])
    <3>1. ArmsAround(s, b) = ArmsAround(s, o)
      BY <2>2, <2>4 DEF ArmsAround, bs
    <3> QED
      BY <2>1, <2>3, <2>4, <3>1
  <2>5. CASE IsConditional(bs[b])
    <3>1. ArmsAround(s, b) = ArmsAround(s, o) \union {ArmName(bs, b)}
      BY <2>2, <2>5 DEF ArmsAround, bs
    <3>2. Range(Append(A[o], ArmName(bs, b))) = Range(A[o]) \union {ArmName(bs, b)}
      <4>1. A[o] \in Seq(ArmType) /\ ArmName(bs, b) \in ArmType
        BY <1>2, <1>4, <2>1 DEF ArmSeq, ArmType
      <4> QED
        BY <4>1, RangeAppend
    <3> QED
      BY <2>1, <2>3, <2>5, <3>1, <3>2
  <2> QED
    BY <2>4, <2>5
<1>7. \A b \in 1 .. N : b \in S
  <2> HIDE DEF S, bs, N
  <2> QED
    BY <1>1, <1>5, <1>6, OuterInduction
<1> QED
  BY <1>7 DEF A

(* Two blocks are arms of one branch iff one is the else block of the other*)
Beside(bs, c, d) ==
  /\ ArmName(bs, c).branch = ArmName(bs, d).branch
  /\ ArmName(bs, c).side # ArmName(bs, d).side

(* Two blocks lie beside each other iff one is the else block of the       *)
(* other.                                                                  *)
LEMMA BesideFacts ==
  ASSUME NEW E, NEW s \in SliceOf(E), SliceInv(s), Apart(s.blocks),
         NEW c \in 1 .. Len(s.blocks), NEW d \in 1 .. Len(s.blocks)
  PROVE  Beside(s.blocks, c, d) <=> s.blocks[c].els = d \/ s.blocks[d].els = c
<1> DEFINE bs == s.blocks
<1>0. c # Null /\ d # Null
  BY DEF Null
<1>1. /\ \A b \in 1 .. Len(bs) : \A t \in 1 .. Len(bs) :
              bs[t].els = b => ArmName(bs, b) = [branch |-> t, side |-> "else"]
      /\ \A b \in 1 .. Len(bs) : (\A t \in 1 .. Len(bs) : bs[t].els # b) =>
              ArmName(bs, b) = [branch |-> b, side |-> "then"]
  BY ArmNameFacts
<1>2. ASSUME NEW x \in 1 .. Len(bs), NEW y \in 1 .. Len(bs), y # Null, x # Null, bs[x].els = y
      PROVE  Beside(bs, x, y) /\ Beside(bs, y, x)
  <2>1. \A t \in 1 .. Len(bs) : bs[t].els # x
    BY <1>2 DEF Apart
  <2>2. ArmName(bs, x) = [branch |-> x, side |-> "then"] /\ ArmName(bs, y) = [branch |-> x, side |-> "else"]
    BY <1>1, <1>2, <2>1
  <2> QED
    BY <2>2 DEF Beside
<1> DEFINE Named(x, a) ==
             \/ a.branch = x /\ a.side = "then"
             \/ a.branch \in 1 .. Len(bs) /\ bs[a.branch].els = x /\ a.side = "else"
<1>3. ASSUME NEW x \in 1 .. Len(bs) PROVE Named(x, ArmName(bs, x))
  <2>1. CASE \A t \in 1 .. Len(bs) : bs[t].els # x
    <3>1. ArmName(bs, x) = [branch |-> x, side |-> "then"]
      BY <1>1, <2>1
    <3> QED
      BY <3>1
  <2>2. CASE \E t \in 1 .. Len(bs) : bs[t].els = x
    <3>1. PICK t \in 1 .. Len(bs) : bs[t].els = x
      BY <2>2
    <3>2. ArmName(bs, x) = [branch |-> t, side |-> "else"]
      BY <1>1, <3>1
    <3> QED
      BY <3>1, <3>2
  <2> QED
    BY <2>1, <2>2
<1>4. ASSUME Beside(bs, c, d) PROVE bs[c].els = d \/ bs[d].els = c
  <2> DEFINE a == ArmName(bs, c)
             e == ArmName(bs, d)
  <2> HIDE DEF bs, Named
  <2>1. Named(c, a)
    BY <1>3 DEF bs
  <2>2. Named(d, e)
    BY <1>3 DEF bs
  <2>3. a.branch = e.branch /\ a.side # e.side
    BY <1>4 DEF Beside
  <2> HIDE DEF a, e
  <2> QED
    BY <2>1, <2>2, <2>3 DEF Named
<1> QED
  BY <1>0, <1>2, <1>4

(* The arms around two blocks exclude each other iff a block around one is *)
(* the else block of a block around the other.                             *)
LEMMA ExclusiveArms ==
  ASSUME NEW E, NEW s \in SliceOf(E), SliceInv(s), Apart(s.blocks),
         NEW b \in 1 .. Len(s.blocks), NEW d \in 1 .. Len(s.blocks)
  PROVE  Program!Exclusive(ArmsOf(s)[b], ArmsOf(s)[d]) <=>
           \E i \in BlocksAround(s)[b], j \in BlocksAround(s)[d] :
             s.blocks[i].els = j \/ s.blocks[j].els = i
<1> DEFINE bs == s.blocks
           B == BlocksAround(s)[b]
           D == BlocksAround(s)[d]
<1>1. Range(ArmsOf(s)[b]) = ArmsAround(s, b) /\ Range(ArmsOf(s)[d]) = ArmsAround(s, d)
  BY ArmsRange
<1>2. /\ bs \in Seq(BlockOf(E)) /\ Len(bs) \in Nat
      /\ B \subseteq 2 .. Len(bs) /\ D \subseteq 2 .. Len(bs)
  <2>1. B \subseteq 2 .. b /\ D \subseteq 2 .. d
    BY AroundBounds
  <2>2. bs \in Seq(BlockOf(E)) /\ Len(bs) \in Nat
    BY ArmBlockFacts
  <2> QED
    BY <2>1, <2>2
<1>3. \A i \in 2 .. Len(bs), j \in 2 .. Len(bs) : Beside(bs, i, j) <=> bs[i].els = j \/ bs[j].els = i
  <2>1. \A i \in 2 .. Len(bs) : i \in 1 .. Len(bs)
    OBVIOUS
  <2> HIDE DEF bs
  <2> QED
    BY <2>1, BesideFacts DEF bs
<1>4. ASSUME NEW i \in 2 .. Len(bs), NEW j \in 2 .. Len(bs), bs[i].els = j
      PROVE  IsConditional(bs[i]) /\ IsConditional(bs[j])
  <2>1. i \in 1 .. Len(bs) /\ j # Null
    BY DEF Null
  <2>2. ElseBeside(bs, i)
    BY <2>1 DEF SliceInv, GraphInv
  <2>3. IsConditional(bs[i]) /\ bs[j].cond = Negate(bs[i].cond)
    BY <1>4, <2>1, <2>2 DEF ElseBeside
  <2>4. bs[i].cond \in Literal
    BY <1>2, <2>1, <2>3, FieldTypes DEF IsConditional
  <2>5. Negate(bs[i].cond) \in Literal
    BY <2>4 DEF Negate, Literal
  <2> QED
    BY <2>3, <2>5, NoCondAssumption DEF IsConditional
<1>5. Program!Exclusive(ArmsOf(s)[b], ArmsOf(s)[d]) <=>
        \E p \in ArmsAround(s, b), q \in ArmsAround(s, d) : p.branch = q.branch /\ p.side # q.side
  <2>1. \A x, y : Program!Exclusive(x, y) <=>
          \E p \in Range(x), q \in Range(y) : p.branch = q.branch /\ p.side # q.side
    BY DEF Program!Exclusive, Program!Range, Range
  <2> QED
    BY <1>1, <2>1
<1>6. (\E p \in ArmsAround(s, b), q \in ArmsAround(s, d) : p.branch = q.branch /\ p.side # q.side) <=>
        \E i \in B, j \in D : IsConditional(bs[i]) /\ IsConditional(bs[j]) /\ Beside(bs, i, j)
  BY DEF ArmsAround, Beside
<1>7. (\E i \in B, j \in D : IsConditional(bs[i]) /\ IsConditional(bs[j]) /\ Beside(bs, i, j)) <=>
        \E i \in B, j \in D : bs[i].els = j \/ bs[j].els = i
  <2> HIDE DEF bs, B, D
  <2> QED
    BY <1>2, <1>3, <1>4
<1> QED
  BY <1>5, <1>6, <1>7

-----------------------------------------------------------------------------
(* What the clocks entail is the order of recording on the events whose    *)
(* arms do not exclude each other.                                         *)
LEMMA EntailedArms ==
  ASSUME NEW E, \A e \in E : e.id \in Nat, NEW s \in SliceOf(E), SliceInv(s), NEW n \in Nat,
         NEW lo, NEW hi, NEW h, Placed(s.blocks, lo, hi, h, n),
         NEW x \in SharedIds(s.blocks, lo, h, n), NEW y \in SharedIds(s.blocks, lo, h, n)
  PROVE  <<EventAt(x), EventAt(y)>> \in Entailed(SpoConstraints(s)) <=>
           x < y /\ ~Program!Exclusive(ArmsOf(s)[h[x]], ArmsOf(s)[h[y]])
<1> DEFINE bs == s.blocks
           sh == SharedIds(bs, lo, h, n)
           B == BlocksAround(s)[h[x]]
           D == BlocksAround(s)[h[y]]
           Crossed == \E i \in B : bs[i].els # Null /\ y \in Interval(lo, hi, bs[i].els)
<1>1. /\ x \in 1 .. n /\ y \in 1 .. n /\ sh \in SUBSET Nat /\ x \in Nat /\ y \in Nat
      /\ x \in sh /\ y \in sh
  BY DEF SharedIds
<1>2. /\ Apart(bs) /\ h[x] \in 1 .. Len(bs) /\ h[y] \in 1 .. Len(bs)
      /\ \A b \in 1 .. Len(bs) : NumberedAt(bs, lo, hi, b)
  BY <1>1 DEF Placed, Homes, Numbered
<1>3. /\ bs \in Seq(BlockOf(E)) /\ Len(bs) \in Nat
      /\ B \subseteq 2 .. Len(bs) /\ D \subseteq 2 .. Len(bs)
  <2>1. B \subseteq 2 .. h[x] /\ D \subseteq 2 .. h[y]
    BY <1>2, AroundBounds
  <2>2. bs \in Seq(BlockOf(E)) /\ Len(bs) \in Nat
    BY ArmBlockFacts
  <2> QED
    BY <1>2, <2>1, <2>2
<1>4. \A i \in 2 .. Len(bs) : /\ i \in B <=> x \in Interval(lo, hi, i)
                              /\ i \in D <=> y \in Interval(lo, hi, i)
  BY <1>1, AroundHome
<1>5. Program!Exclusive(ArmsOf(s)[h[x]], ArmsOf(s)[h[y]]) <=>
        \E i \in B, j \in D : bs[i].els = j \/ bs[j].els = i
  BY <1>2, ExclusiveArms
<1>6. \A i \in 2 .. Len(bs) : bs[i].els # Null =>
        /\ bs[i].els \in 2 .. Len(bs)
        /\ lo[bs[i].els] = hi[i] /\ hi[i] \in Nat
  <2> SUFFICES ASSUME NEW i \in 2 .. Len(bs), bs[i].els # Null
               PROVE  bs[i].els \in 2 .. Len(bs) /\ lo[bs[i].els] = hi[i] /\ hi[i] \in Nat
    OBVIOUS
  <2>1. i \in 1 .. Len(bs)
    OBVIOUS
  <2>2. ElseBeside(bs, i)
    BY <2>1 DEF SliceInv, GraphInv
  <2>3. bs[i].els \in i + 1 .. Len(bs)
    BY <2>2 DEF ElseBeside
  <2>4. lo[bs[i].els] = hi[i] /\ hi[i] \in Nat
    BY <1>2, <2>1 DEF NumberedAt
  <2> QED
    BY <1>3, <2>3, <2>4
<1>7. <<EventAt(x), EventAt(y)>> \in Entailed(SpoConstraints(s)) <=> <<x, y>> \in Ordered(s, lo, hi, h, sh)
  BY <1>1, EntailedOrdered
<1>8. <<x, y>> \in Ordered(s, lo, hi, h, sh) <=> x < y /\ y \in Free(s, lo, hi, sh, h[x], x)
  BY <1>1, OrderedFacts
<1>9. y \in Free(s, lo, hi, sh, h[x], x) <=> x < y /\ ~Crossed
  BY <1>1 DEF Free
<1>10. ASSUME x < y PROVE Crossed <=> \E i \in B, j \in D : bs[i].els = j \/ bs[j].els = i
  <2>1. ASSUME Crossed PROVE \E i \in B, j \in D : bs[i].els = j \/ bs[j].els = i
    <3>1. PICK i \in B : bs[i].els # Null /\ y \in Interval(lo, hi, bs[i].els)
      BY <2>1
    <3>2. bs[i].els \in D
      BY <1>3, <1>4, <1>6, <3>1
    <3> QED
      BY <3>2
  <2>2. ASSUME NEW i \in B, NEW j \in D, bs[i].els = j PROVE Crossed
    <3>1. j # Null /\ y \in Interval(lo, hi, j)
      BY <1>3, <1>4 DEF Null
    <3> QED
      BY <2>2, <3>1
  <2>3. ASSUME NEW i \in B, NEW j \in D, bs[j].els = i PROVE FALSE
    <3>1. i # Null /\ i \in 2 .. Len(bs) /\ j \in 2 .. Len(bs)
      BY <1>3 DEF Null
    <3>2. lo[i] = hi[j] /\ hi[j] \in Nat
      BY <1>6, <2>3, <3>1
    <3>3. x \in Interval(lo, hi, i) /\ y \in Interval(lo, hi, j)
      BY <1>4, <3>1
    <3>4. i \in 1 .. Len(bs) /\ j \in 1 .. Len(bs)
      BY <3>1
    <3>5. lo[j] \in Nat /\ hi[i] \in Nat
      BY <1>2, <3>4 DEF NumberedAt
    <3>6. x >= lo[i] + 1 /\ y <= hi[j]
      BY <3>2, <3>3, <3>5 DEF Interval
    <3> QED
      BY <1>1, <1>10, <3>2, <3>6
  <2> QED
    BY <2>1, <2>2, <2>3
<1> HIDE DEF Crossed, sh, B, D
<1> QED
  BY <1>5, <1>7, <1>8, <1>9, <1>10

(* The arms around the current block are those that the program is in.     *)
LEMMA OpenArms ==
  ASSUME NEW E, NEW s \in SliceOf(E), SliceInv(s), Apart(s.blocks),
         NEW q0 \in ArmSeq, OnArms(s, q0)
  PROVE  ArmsOf(s)[s.cur] = q0
<1> DEFINE bs == s.blocks
           N == Len(bs)
           A == ArmsOf(s)
           q == q0
           m == Len(q)
           good == { k \in Nat : k \in 1 .. m => A[ArmOf(s, q[k])] = SubSeq(q, 1, k) }
<1>1. /\ bs \in Seq(BlockOf(E)) /\ N \in Nat /\ s.cur \in 2 .. N /\ m \in Nat
      /\ q \in Seq(ArmType) /\ \A k \in 1 .. m : q[k] \in ArmType
  <2>1. bs \in Seq(BlockOf(E)) /\ N \in Nat /\ s.cur \in 2 .. N
    BY ArmBlockFacts
  <2>2. q \in Seq(ArmType)
    BY DEF ArmSeq, ArmType
  <2> HIDE DEF q
  <2>3. m \in Nat /\ \A k \in 1 .. m : q[k] \in ArmType
    BY <2>2
  <2> QED
    BY <2>1, <2>2, <2>3
<1>2. /\ A[Root] = <<>>
      /\ \A b \in 2 .. N : A[b] = IF ~IsConditional(bs[b]) THEN A[bs[b].outer]
                                  ELSE Append(A[bs[b].outer], ArmName(bs, b))
  BY ArmsFacts
<1> HIDE DEF A
<1>3. ASSUME NEW k \in 1 .. m
      PROVE  /\ ArmOf(s, q[k]) \in 2 .. N /\ IsConditional(bs[ArmOf(s, q[k])])
             /\ bs[ArmOf(s, q[k])].outer = AroundArm(s, q, k)
             /\ ArmName(bs, ArmOf(s, q[k])) = q[k]
  <2>1. OnArm(s, q, k)
    BY DEF OnArms
  <2>2. /\ q[k].branch \in 2 .. N /\ ArmOf(s, q[k]) \in 2 .. N
        /\ IsConditional(bs[ArmOf(s, q[k])]) /\ bs[ArmOf(s, q[k])].outer = AroundArm(s, q, k)
        /\ bs[AroundArm(s, q, k)].inner # <<>> /\ Last(bs[AroundArm(s, q, k)].inner) = q[k].branch
    BY <2>1 DEF OnArm
  <2>3. q[k] = [branch |-> q[k].branch, side |-> q[k].side] /\ q[k].side \in {"then", "else"}
    BY <1>1 DEF ArmType
  <2>4. q[k].branch \in 1 .. N /\ ArmOf(s, q[k]) \in 1 .. N
    BY <2>2
  <2>5. CASE q[k].side = "then"
    <3>1. ArmOf(s, q[k]) = q[k].branch
      BY <2>5 DEF ArmOf
    <3>2. AroundArm(s, q, k) \in 1 .. N
      <4>1. N \in Nat
        BY <1>1
      <4> QED
        BY <4>1, ArmsAscend DEF N
    <3>3. bs[AroundArm(s, q, k)].inner \in Seq(Nat)
      BY <1>1, <3>2, FieldTypes
    <3>4. PICK j \in 1 .. Len(bs[AroundArm(s, q, k)].inner) : bs[AroundArm(s, q, k)].inner[j] = q[k].branch
      <4> DEFINE is == bs[AroundArm(s, q, k)].inner
      <4>1. is \in Seq(Nat) /\ is # <<>> /\ Last(is) = q[k].branch
        BY <2>2, <3>3
      <4> HIDE DEF is
      <4>2. Len(is) \in 1 .. Len(is)
        BY <4>1, EmptyFacts
      <4>3. is[Len(is)] = q[k].branch
        BY <4>1 DEF Last
      <4> QED
        BY <4>2, <4>3 DEF is
    <3>5. \A t \in 1 .. N : bs[t].els # q[k].branch
      <4> SUFFICES ASSUME NEW t \in 1 .. N, bs[t].els = q[k].branch PROVE FALSE
        OBVIOUS
      <4>1. bs[t].els # Null
        BY <2>4 DEF Null
      <4> QED
        BY <3>2, <3>4, <4>1 DEF Apart
    <3>6. ArmName(bs, q[k].branch) = [branch |-> q[k].branch, side |-> "then"]
      BY <2>4, <3>5, ArmNameFacts
    <3> QED
      BY <2>2, <2>3, <2>5, <3>1, <3>6
  <2>6. CASE q[k].side = "else"
    <3>1. ArmOf(s, q[k]) = bs[q[k].branch].els
      BY <2>6 DEF ArmOf
    <3>2. ArmName(bs, ArmOf(s, q[k])) = [branch |-> q[k].branch, side |-> "else"]
      BY <2>4, <3>1, ArmNameFacts
    <3> QED
      BY <2>2, <2>3, <2>6, <3>2
  <2> QED
    BY <2>3, <2>5, <2>6
<1>4. 0 \in good
  OBVIOUS
<1>5. ASSUME NEW k \in Nat, k \in good PROVE k + 1 \in good
  <2>1. k + 1 \in Nat /\ (k + 1) - 1 = k
    OBVIOUS
  <2> SUFFICES ASSUME k + 1 \in 1 .. m PROVE A[ArmOf(s, q[k + 1])] = SubSeq(q, 1, k + 1)
    BY <2>1
  <2>2. A[ArmOf(s, q[k + 1])] = Append(A[AroundArm(s, q, k + 1)], q[k + 1])
    BY <1>2, <1>3
  <2>3. A[AroundArm(s, q, k + 1)] = SubSeq(q, 1, k)
    <3>1. CASE k = 0
      <4>1. SubSeq(q, 1, 0) = <<>>
        BY <1>1
      <4>2. k + 1 = 1
        BY <3>1
      <4>3. AroundArm(s, q, k + 1) = Root
        BY <4>2 DEF AroundArm
      <4> QED
        BY <1>2, <3>1, <4>1, <4>3
    <3>2. CASE k # 0
      <4>1. k \in 1 .. m /\ k + 1 # 1
        BY <3>2
      <4> QED
        BY <1>5, <2>1, <4>1 DEF AroundArm
    <3> QED
      BY <3>1, <3>2
  <2>4. Append(SubSeq(q, 1, k), q[k + 1]) = SubSeq(q, 1, k + 1)
    <3> HIDE DEF q
    <3> QED
      BY <1>1
  <2> QED
    BY <2>2, <2>3, <2>4
<1>6. \A k \in Nat : k \in good
  <2> HIDE DEF good
  <2> QED BY <1>4, <1>5, SetInduction
<1>7. A[ArmBlock(s)] = q
  <2>1. CASE m = 0
    <3>1. ArmBlock(s) = Root /\ q = <<>>
      BY <1>1, <2>1 DEF OnArms
    <3> QED
      BY <1>2, <3>1
  <2>2. CASE m # 0
    <3>1. m \in 1 .. m /\ m \in Nat
      BY <1>1, <2>2
    <3>2. ArmBlock(s) = ArmOf(s, q[m])
      BY <3>1 DEF OnArms
    <3>3. SubSeq(q, 1, m) = q
      BY <1>1
    <3>4. A[ArmOf(s, q[m])] = SubSeq(q, 1, m)
      BY <1>6, <3>1
    <3> QED
      BY <3>2, <3>3, <3>4
  <2> QED
    BY <2>1, <2>2
<1>8. CASE IsConditional(bs[s.cur])
  BY <1>7, <1>8 DEF ArmBlock, Current, A
<1>9. CASE ~IsConditional(bs[s.cur])
  BY <1>1, <1>2, <1>7, <1>9 DEF ArmBlock, Current, A
<1> QED
  BY <1>8, <1>9

-----------------------------------------------------------------------------
(* Block b is an arm of the same branch in the blocks cs as in bs, if the  *)
(* same block has it as its else block.                                    *)
SameElse(bs, cs, n) ==
  \A b \in 1 .. n : \A x \in 1 .. Len(cs) : cs[x].els = b <=> x \in 1 .. n /\ bs[x].els = b

(* A block keeps its name while no other block gets it as its else block.  *)
LEMMA ArmNameKept ==
  ASSUME NEW E, NEW bs \in Seq(BlockOf(E)), NEW cs \in Seq(BlockOf(E)),
         Len(bs) <= Len(cs), SameElse(bs, cs, Len(bs))
  PROVE  \A b \in 1 .. Len(bs) : ArmName(cs, b) = ArmName(bs, b)
<1> SUFFICES ASSUME NEW b \in 1 .. Len(bs) PROVE ArmName(cs, b) = ArmName(bs, b)
  OBVIOUS
<1> DEFINE B == { x \in DOMAIN bs : bs[x].els = b }
           C == { x \in DOMAIN cs : cs[x].els = b }
<1>1. /\ DOMAIN bs = 1 .. Len(bs) /\ DOMAIN cs = 1 .. Len(cs)
      /\ Len(bs) \in Nat /\ Len(cs) \in Nat
  OBVIOUS
<1>2. B = C
  BY <1>1 DEF SameElse
<1> QED
  BY <1>2 DEF ArmName

(* The arms around a block stay while blocks stay where they lie and       *)
(* conditional ones remain so, unless the block becomes conditional.       *)
LEMMA ArmsKept ==
  ASSUME NEW E, NEW s \in SliceOf(E), SliceInv(s), Apart(s.blocks),
         NEW t \in SliceOf(E), SliceInv(t), Apart(t.blocks),
         NEW n \in Nat, n = Len(s.blocks), n <= Len(t.blocks),
         \A b \in 1 .. n : t.blocks[b].outer = s.blocks[b].outer,
         \A b \in 1 .. n : IsConditional(s.blocks[b]) => IsConditional(t.blocks[b]),
         SameElse(s.blocks, t.blocks, n)
  PROVE  \A b \in 1 .. n : (IsConditional(t.blocks[b]) => IsConditional(s.blocks[b])) =>
           ArmsOf(t)[b] = ArmsOf(s)[b]
<1> DEFINE bs == s.blocks
           cs == t.blocks
           A == ArmsOf(s)
           C == ArmsOf(t)
           S == { b \in 1 .. n : (IsConditional(cs[b]) => IsConditional(bs[b])) => C[b] = A[b] }
<1>1. /\ bs \in Seq(BlockOf(E)) /\ cs \in Seq(BlockOf(E)) /\ n >= 2 /\ Len(cs) \in Nat
      /\ \A b \in 2 .. n : Lies(bs, b)
  <2>1. bs \in Seq(BlockOf(E)) /\ cs \in Seq(BlockOf(E)) /\ Len(cs) \in Nat
    BY ArmBlockFacts
  <2> QED
    BY <2>1 DEF SliceInv, GraphInv, OuterMost
<1>2. /\ A[Root] = <<>>
      /\ \A b \in 2 .. n : A[b] = IF ~IsConditional(bs[b]) THEN A[bs[b].outer]
                                  ELSE Append(A[bs[b].outer], ArmName(bs, b))
  BY ArmsFacts
<1>3. /\ C[Root] = <<>>
      /\ \A b \in 2 .. Len(cs) : C[b] = IF ~IsConditional(cs[b]) THEN C[cs[b].outer]
                                        ELSE Append(C[cs[b].outer], ArmName(cs, b))
  BY ArmsFacts
<1>4. \A b \in 1 .. n : ArmName(cs, b) = ArmName(bs, b)
  <2> HIDE DEF bs, cs
  <2>1. Len(bs) <= Len(cs) /\ SameElse(bs, cs, Len(bs))
    BY DEF bs, cs
  <2>2. \A b \in 1 .. Len(bs) : ArmName(cs, b) = ArmName(bs, b)
    BY <1>1, <2>1, ArmNameKept
  <2> QED
    BY <2>2 DEF bs
<1> HIDE DEF A, C
<1>5. Root \in S
  <2>1. Root \in 1 .. n
    BY <1>1 DEF Root
  <2> QED
    BY <1>2, <1>3, <2>1
<1>6. ASSUME NEW b \in 2 .. n, bs[b].outer \in S PROVE b \in S
  <2> DEFINE o == bs[b].outer
  <2>1. b \in 1 .. n /\ b \in 2 .. Len(cs) /\ cs[b].outer = o
    BY <1>1
  <2>2. o \in 1 .. n /\ (o = Root \/ IsConditional(bs[o]))
    BY <1>1, <1>6 DEF Lies
  <2>3. (IsConditional(cs[o]) => IsConditional(bs[o])) => C[o] = A[o]
    BY <1>6
  <2>4. C[o] = A[o]
    BY <1>2, <1>3, <2>2, <2>3
  <2>5. /\ A[b] = IF ~IsConditional(bs[b]) THEN A[o] ELSE Append(A[o], ArmName(bs, b))
        /\ C[b] = IF ~IsConditional(cs[b]) THEN C[o] ELSE Append(C[o], ArmName(cs, b))
        /\ ArmName(cs, b) = ArmName(bs, b)
        /\ IsConditional(bs[b]) => IsConditional(cs[b])
    BY <1>2, <1>3, <1>4, <2>1
  <2> HIDE DEF bs, cs, o
  <2>6. (IsConditional(cs[b]) => IsConditional(bs[b])) => C[b] = A[b]
    BY <2>4, <2>5
  <2> QED
    BY <2>1, <2>6
<1>7. \A b \in 1 .. n : b \in S
  <2>1. \A b \in 2 .. n : bs[b].outer \in 1 .. b - 1
    BY <1>1 DEF Lies
  <2> HIDE DEF S, bs, cs
  <2> QED
    BY <1>5, <1>6, <2>1, OuterInduction
<1> QED
  BY <1>7 DEF A, C

(* The branches that arms name are blocks with a condition.                *)
LEMMA ArmBranches ==
  ASSUME NEW E, NEW s \in SliceOf(E), SliceInv(s), Apart(s.blocks)
  PROVE  \A b \in 1 .. Len(s.blocks) : \A a \in Range(ArmsOf(s)[b]) :
           a.branch \in 1 .. Len(s.blocks) /\ IsConditional(s.blocks[a.branch])
<1> SUFFICES ASSUME NEW b \in 1 .. Len(s.blocks), NEW a \in Range(ArmsOf(s)[b])
             PROVE  a.branch \in 1 .. Len(s.blocks) /\ IsConditional(s.blocks[a.branch])
  OBVIOUS
<1> DEFINE bs == s.blocks
<1>1. a \in ArmsAround(s, b)
  BY ArmsRange
<1>2. PICK c \in BlocksAround(s)[b] : IsConditional(bs[c]) /\ a = ArmName(bs, c)
  BY <1>1 DEF ArmsAround
<1>3. c \in 1 .. Len(bs)
  <2>1. BlocksAround(s)[b] \subseteq 2 .. b
    BY AroundBounds
  <2>2. Len(bs) \in Nat
    BY ArmBlockFacts
  <2> QED
    BY <2>1, <2>2
<1>4. CASE \A t \in 1 .. Len(bs) : bs[t].els # c
  <2>1. a = [branch |-> c, side |-> "then"]
    BY <1>2, <1>3, <1>4, ArmNameFacts
  <2> QED
    BY <1>2, <1>3, <2>1
<1>5. CASE \E t \in 1 .. Len(bs) : bs[t].els = c
  <2>1. PICK t \in 1 .. Len(bs) : bs[t].els = c
    BY <1>5
  <2>2. a = [branch |-> t, side |-> "else"]
    BY <1>2, <1>3, <2>1, ArmNameFacts
  <2>3. bs[t].els # Null
    BY <1>3, <2>1 DEF Null
  <2>4. ElseBeside(bs, t)
    BY DEF SliceInv, GraphInv
  <2>5. IsConditional(bs[t])
    BY <2>3, <2>4 DEF ElseBeside
  <2> QED
    BY <2>2, <2>5
<1> QED
  BY <1>4, <1>5

-----------------------------------------------------------------------------
(* Threads::encode reaches what lies one link further down than a block it *)
(* reaches: links lead to later blocks, so that a block is reached in as   *)
(* many steps as there are blocks before it.                               *)
Closed(bs, R) ==
  \A b \in R : /\ \A k \in 1 .. Len(bs[b].inner) : bs[b].inner[k] \in R
               /\ bs[b].els # Null => bs[b].els \in R

(* The blocks that a walk reaches include a set with the first block that  *)
(* is closed under the links.                                              *)
LEMMA ReachableClosed ==
  ASSUME NEW E, NEW s \in SliceOf(E), SliceInv(s)
  PROVE  \E R \in SUBSET (1 .. Len(s.blocks)) :
           R \subseteq Reachable(s) /\ Root \in R /\ Closed(s.blocks, R)
<1> DEFINE bs == s.blocks
           n == Len(bs)
           C == 1 .. n
<1>1. bs \in Seq(BlockOf(E)) /\ n \in Nat /\ n >= 2 /\ GraphInv(bs, s.cur)
  BY ArmBlockFacts DEF SliceInv, GraphInv, OuterMost
<1>2. Root \in C
  BY <1>1 DEF Root
<1>3. ASSUME NEW x \in C
      PROVE  /\ x \in Nat /\ bs[x].inner \in Seq(Nat)
             /\ \A k \in 1 .. Len(bs[x].inner) : bs[x].inner[k] \in x + 1 .. n
             /\ bs[x].els # Null => bs[x].els \in x + 1 .. n
  <2>1. x \in 1 .. Len(bs)
    OBVIOUS
  <2>2. bs[x].inner \in Seq(Nat)
    BY <1>1, <2>1, FieldTypes
  <2>3. \A k \in 1 .. Len(bs[x].inner) : bs[x].inner[k] \in x + 1 .. n
    <3> HIDE DEF bs
    <3> QED
      BY <1>1, <2>1, InnerAfter
  <2>4. ElseBeside(bs, x)
    BY <1>1, <2>1 DEF GraphInv
  <2> QED
    BY <1>1, <2>2, <2>3, <2>4 DEF ElseBeside
<1>4. \A B \in SUBSET C : Inward(s, B) \subseteq C
  <2> SUFFICES ASSUME NEW B \in SUBSET C, NEW c \in Inward(s, B) PROVE c \in C
    OBVIOUS
  <2>1. PICK b \in B : c \in Range(bs[b].inner) \union ({bs[b].els} \ {Null})
    BY DEF Inward
  <2>2. b \in C
    OBVIOUS
  <2>3. CASE c \in Range(bs[b].inner)
    <3>1. PICK k \in 1 .. Len(bs[b].inner) : c = bs[b].inner[k]
      BY <1>3, <2>2, <2>3 DEF Range
    <3> QED
      BY <1>3, <2>2, <3>1
  <2>4. CASE c = bs[b].els /\ c # Null
    BY <1>3, <2>2, <2>4
  <2> QED
    BY <2>1, <2>3, <2>4
<1>5. PICK f \in [0 .. n -> SUBSET C] : Follow(f, s, n) /\ Reachable(s) = f[n]
  <2> HIDE DEF C
  <2> QED
    BY <1>1, <1>2, <1>4, ReachableSteps
<1>6. f[0] = {Root} /\ \A k \in 1 .. n : f[k] = f[k - 1] \union Inward(s, f[k - 1])
  BY <1>5 DEF Follow, Links
<1>7. ASSUME NEW k \in 0 .. n PROVE \A j \in k .. n : f[k] \subseteq f[j]
  <2> DEFINE good == { d \in Nat : k + d <= n => f[k] \subseteq f[k + d] }
  <2>1. 0 \in good
    OBVIOUS
  <2>2. ASSUME NEW d \in Nat, d \in good PROVE d + 1 \in good
    <3>1. d + 1 \in Nat
      OBVIOUS
    <3> SUFFICES ASSUME k + (d + 1) <= n PROVE f[k] \subseteq f[k + (d + 1)]
      BY <3>1
    <3>2. k + (d + 1) \in 1 .. n /\ k + (d + 1) - 1 = k + d /\ k + d <= n
      OBVIOUS
    <3> QED
      BY <1>6, <2>2, <3>2
  <2>3. \A d \in Nat : d \in good
    <3> HIDE DEF good
    <3> QED BY <2>1, <2>2, SetInduction
  <2>4. ASSUME NEW j \in k .. n PROVE f[k] \subseteq f[j]
    <3>1. j - k \in Nat /\ k + (j - k) = j /\ j <= n
      OBVIOUS
    <3> QED
      BY <2>3, <3>1
  <2> QED
    BY <2>4
<1> DEFINE R == { b \in 1 .. n : b \in f[b - 1] }
<1>8. R \subseteq Reachable(s)
  <2> SUFFICES ASSUME NEW b \in R PROVE b \in f[n]
    BY <1>5
  <2>1. b - 1 \in 0 .. n /\ n \in b - 1 .. n
    BY <1>1
  <2> QED
    BY <1>7, <2>1
<1>9. Root \in R
  BY <1>2, <1>6 DEF Root
<1>10. ASSUME NEW b \in R, NEW c \in b + 1 .. n,
              c \in Range(bs[b].inner) \union ({bs[b].els} \ {Null})
       PROVE  c \in R
  <2>1. b \in 1 .. n /\ b - 1 \in 0 .. n /\ (b + 1) - 1 = b /\ c \in 1 .. n
    BY <1>1
  <2>2. b \in f[b - 1]
    OBVIOUS
  <2>3. c \in Inward(s, f[b - 1])
    BY <1>10, <2>2 DEF Inward
  <2>4. c \in f[b]
    BY <1>6, <2>1, <2>3
  <2>5. b \in 0 .. n /\ c - 1 \in b .. n
    BY <2>1
  <2>6. f[b] \subseteq f[c - 1]
    BY <1>7, <2>5
  <2> QED
    BY <2>1, <2>4, <2>6
<1>11. Closed(bs, R)
  <2> SUFFICES ASSUME NEW b \in R
               PROVE  /\ \A k \in 1 .. Len(bs[b].inner) : bs[b].inner[k] \in R
                      /\ bs[b].els # Null => bs[b].els \in R
    BY DEF Closed
  <2>1. b \in C
    OBVIOUS
  <2>2. ASSUME NEW k \in 1 .. Len(bs[b].inner) PROVE bs[b].inner[k] \in R
    <3>1. bs[b].inner[k] \in Range(bs[b].inner)
      BY <1>3, <2>1 DEF Range
    <3>2. bs[b].inner[k] \in b + 1 .. n
      BY <1>3, <2>1
    <3> HIDE DEF R
    <3> QED
      BY <1>10, <3>1, <3>2
  <2>3. ASSUME bs[b].els # Null PROVE bs[b].els \in R
    <3>1. bs[b].els \in b + 1 .. n
      BY <1>3, <2>1, <2>3
    <3> HIDE DEF R
    <3> QED
      BY <1>10, <2>3, <3>1
  <2> QED
    BY <2>2, <2>3
<1> HIDE DEF R
<1> QED
  BY <1>8, <1>9, <1>11 DEF R

(* Every event is in a block that Threads::encode reaches.                 *)
LEMMA HomesReached ==
  ASSUME NEW E, NEW s \in SliceOf(E), SliceInv(s), NEW n \in Nat,
         NEW lo, NEW hi, NEW h, Placed(s.blocks, lo, hi, h, n)
  PROVE  \A x \in 1 .. n : h[x] \in Reachable(s)
<1> DEFINE bs == s.blocks
           N == Len(bs)
<1>1. PICK R \in SUBSET (1 .. N) : R \subseteq Reachable(s) /\ Root \in R /\ Closed(bs, R)
  BY ReachableClosed
<1>2. /\ N \in Nat /\ \A b \in 1 .. N : NumberedAt(bs, lo, hi, b)
      /\ lo[Root] = 0 /\ hi[Root] = n
  BY ArmBlockFacts DEF Placed, Numbered
<1> DEFINE S == { b \in 1 .. N : b \in R => \A x \in Interval(lo, hi, b) : h[x] \in R }
<1>3. ASSUME NEW b \in 1 .. N, \A c \in 1 .. N : c > b => c \in S PROVE b \in S
  <2> SUFFICES ASSUME b \in R, NEW x \in Interval(lo, hi, b) PROVE h[x] \in R
    OBVIOUS
  <2> DEFINE m == Len(bs[b].inner)
  <2>1. m \in Nat
    <3>1. bs \in Seq(BlockOf(E))
      BY ArmBlockFacts
    <3>2. bs[b].inner \in Seq(Nat)
      BY <3>1, FieldTypes
    <3> QED
      BY <3>2
  <2>2. hi[b] = StartOf(bs, lo, hi, b, m + 1)
    BY <1>2 DEF NumberedAt
  <2>3. x \in lo[b] + 1 .. StartOf(bs, lo, hi, b, m + 1)
    BY <2>2 DEF Interval
  <2>4. m \in 0 .. m
    BY <2>1
  <2>5. \/ x <= lo[b] + Len(bs[b].body)
        \/ \E j \in 1 .. m : LET i == bs[b].inner[j]
                             IN  \/ x \in Interval(lo, hi, i)
                                 \/ /\ bs[i].els # Null
                                    /\ x \in Interval(lo, hi, bs[i].els)
    BY <1>2, <2>3, <2>4, IntervalCases
  <2>6. CASE x <= lo[b] + Len(bs[b].body)
    <3>1. lo[b] \in Nat /\ Len(bs[b].body) \in Nat
      <4>1. bs \in Seq(BlockOf(E))
        BY ArmBlockFacts
      <4>2. bs[b].body \in Seq(E)
        BY <4>1, FieldTypes
      <4> QED
        BY <1>2, <4>2 DEF NumberedAt
    <3>2. x \in lo[b] + 1 .. lo[b] + Len(bs[b].body)
      BY <2>6, <3>1, <1>2 DEF Interval, NumberedAt
    <3>3. AtHome(bs, lo, h, n, b, x)
      BY <3>2, HomeOfBody
    <3> QED
      BY <3>3 DEF AtHome
  <2>7. ASSUME NEW j \in 1 .. m PROVE
          /\ x \in Interval(lo, hi, bs[b].inner[j]) => h[x] \in R
          /\ bs[bs[b].inner[j]].els # Null /\ x \in Interval(lo, hi, bs[bs[b].inner[j]].els) => h[x] \in R
    <3> DEFINE i == bs[b].inner[j]
    <3>1. InnerBounds(bs, lo, hi, b, j, i)
      BY <1>2, InnerIntervals
    <3>2. i \in R /\ (bs[i].els # Null => bs[i].els \in R)
      BY <1>1 DEF Closed
    <3> HIDE DEF i, bs, m, N
    <3>3. i \in 1 .. N /\ i > b /\ (bs[i].els # Null => bs[i].els \in 1 .. N /\ bs[i].els > b)
      BY <3>1, <1>2 DEF InnerBounds, N
    <3>4. i \in S /\ (bs[i].els # Null => bs[i].els \in S)
      BY <1>3, <3>3
    <3> QED
      BY <3>2, <3>4 DEF i
  <2> QED
    BY <2>5, <2>6, <2>7
<1>4. \A b \in 1 .. N : b \in S
  <2> HIDE DEF S
  <2> QED
    BY <1>2, <1>3, DownInduction
<1>5. \A x \in 1 .. n : x \in Interval(lo, hi, Root)
  BY <1>2 DEF Interval
<1> QED
  BY <1>1, <1>4, <1>5

-----------------------------------------------------------------------------
(* The walk, event by event: where it is, and that the events of the       *)
(* blocks are all there.                                                   *)
Found(bs, e) == \E b \in 1 .. Len(bs) : \E j \in 1 .. Len(bs[b].body) : e = bs[b].body[j]

(* The walk has all events of the placed blocks, each at its number.       *)
LEMMA WalkEvents ==
  ASSUME NEW E, NEW s \in SliceOf(E), SliceInv(s), NEW n \in Nat,
         NEW lo, NEW hi, NEW h, Placed(s.blocks, lo, hi, h, n)
  PROVE  /\ Walk(s)[Root] \in Seq(E) /\ Len(Walk(s)[Root]) = n
         /\ \A i \in 1 .. n : Walk(s)[Root][i].id = i /\ Found(s.blocks, Walk(s)[Root][i])
<1> DEFINE bs == s.blocks
           N == Len(bs)
           F == { e \in E : Found(bs, e) }
           walk == Walk(s)[Root]
<1>1. bs \in Seq(BlockOf(E)) /\ N \in Nat /\ Root \in 1 .. N
  BY ArmBlockFacts DEF SliceInv, GraphInv, OuterMost, Root
<1>2. ASSUME NEW b \in 1 .. N PROVE bs[b] \in BlockOf(F)
  <2>1. bs[b] \in BlockOf(E)
    BY <1>1
  <2>2. bs[b].body \in Seq(F)
    <3> DEFINE q == bs[b].body
    <3>1. q \in Seq(E)
      BY <1>1, FieldTypes
    <3>2. \A j \in 1 .. Len(q) : q[j] \in F
      <4>1. \A j \in 1 .. Len(q) : Found(bs, q[j])
        BY DEF Found
      <4> HIDE DEF q
      <4>2. \A j \in 1 .. Len(q) : q[j] \in E
        BY <3>1
      <4> QED
        BY <4>1, <4>2
    <3> HIDE DEF q, F
    <3> QED
      BY <3>1, <3>2 DEF q
  <2> HIDE DEF F
  <2> QED
    BY <2>1, <2>2 DEF BlockOf
<1>3. s \in SliceOf(F)
  <2>1. bs \in Seq(BlockOf(F))
    <3> HIDE DEF F, bs
    <3>1. bs \in Seq(BlockOf(E)) /\ \A b \in 1 .. Len(bs) : bs[b] \in BlockOf(F)
      BY <1>1, <1>2
    <3> DEFINE G == BlockOf(F)
               H == BlockOf(E)
    <3>2. bs \in Seq(H) /\ \A b \in 1 .. Len(bs) : bs[b] \in G
      BY <3>1
    <3> HIDE DEF G, H
    <3>3. bs \in Seq(G)
      BY <3>2
    <3> QED
      BY <3>3 DEF G
  <2> HIDE DEF F
  <2> QED
    BY <2>1 DEF SliceOf
<1> HIDE DEF F
<1>4. /\ \A b \in 1 .. N : NumberedAt(bs, lo, hi, b)
      /\ lo[Root] = 0 /\ hi[Root] = n
  BY DEF Placed, Numbered
<1>5. walk \in Seq(F) /\ Numbers(walk, lo[Root], hi[Root])
  BY <1>1, <1>3, <1>4, WalkNumbers
<1> HIDE DEF walk
<1>6. walk \in Seq(E) /\ \A i \in 1 .. Len(walk) : Found(bs, walk[i])
  <2>1. \A i \in 1 .. Len(walk) : walk[i] \in F
    BY <1>5
  <2>2. \A i \in 1 .. Len(walk) : walk[i] \in E /\ Found(bs, walk[i])
    BY <2>1 DEF F
  <2> QED
    BY <1>5, <2>2
<1>7. Len(walk) = n /\ \A i \in 1 .. n : walk[i].id = i
  <2>1. Len(walk) \in Nat
    BY <1>6
  <2> QED
    BY <1>4, <1>5, <2>1 DEF Numbers
<1> QED
  BY <1>6, <1>7 DEF walk

(* An event is found at one place only.                                    *)
LEMMA FoundOnce ==
  ASSUME NEW E, NEW s \in SliceOf(E), SliceInv(s), NEW n \in Nat,
         NEW lo, NEW hi, NEW h, Placed(s.blocks, lo, hi, h, n),
         NEW b \in 1 .. Len(s.blocks), NEW j \in 1 .. Len(s.blocks[b].body),
         NEW e, Found(s.blocks, e), e.id = s.blocks[b].body[j].id
  PROVE  e = s.blocks[b].body[j]
<1> DEFINE bs == s.blocks
<1>1. PICK c \in 1 .. Len(bs) : \E k \in 1 .. Len(bs[c].body) : e = bs[c].body[k]
  BY DEF Found
<1>2. PICK k \in 1 .. Len(bs[c].body) : e = bs[c].body[k]
  BY <1>1
<1>3. h[bs[c].body[k].id] = c /\ h[bs[b].body[j].id] = b
  BY <1>1, <1>2 DEF Placed, Homes
<1>4. c = b
  BY <1>2, <1>3
<1>5. bs[b].body[j].id = lo[b] + j /\ bs[b].body[k].id = lo[b] + k /\ lo[b] \in Nat
  BY <1>2, <1>4 DEF Placed, Numbered, NumberedAt
<1>6. j \in Nat /\ k \in Nat
  <2>1. bs \in Seq(BlockOf(E))
    BY ArmBlockFacts
  <2>2. bs[b].body \in Seq(E)
    BY <2>1, FieldTypes
  <2> QED
    BY <1>2, <1>4, <2>2
<1>7. j = k
  <2>1. bs[b].body[k].id = bs[b].body[j].id
    BY <1>2, <1>4
  <2>2. lo[b] + k = lo[b] + j
    BY <1>5, <2>1
  <2> QED
    BY <1>5, <1>6, <2>2
<1> QED
  BY <1>2, <1>4, <1>7

(* The event with number i is the i-th of the walk.                        *)
LEMMA WalkAt ==
  ASSUME NEW E, NEW s \in SliceOf(E), SliceInv(s), NEW n \in Nat,
         NEW lo, NEW hi, NEW h, Placed(s.blocks, lo, hi, h, n),
         NEW b \in 1 .. Len(s.blocks), NEW j \in 1 .. Len(s.blocks[b].body)
  PROVE  Walk(s)[Root][s.blocks[b].body[j].id] = s.blocks[b].body[j]
<1> DEFINE i == s.blocks[b].body[j].id
<1>1. i \in 1 .. n
  BY DEF Placed, Homes
<1>2. Walk(s)[Root][i].id = i /\ Found(s.blocks, Walk(s)[Root][i])
  BY <1>1, WalkEvents
<1> QED
  BY <1>2, FoundOnce

(* The home of an event of the walk is the block that SharedArms chooses,  *)
(* and IsShared says of it what it says of its number.                     *)
BlockWith(s, e) == CHOOSE b \in Reachable(s) : e \in Range(s.blocks[b].body)

FoundIn(s, e, b, shared) ==
  /\ BlockWith(s, e) = b
  /\ b \in 1 .. Len(s.blocks)
  /\ s.blocks[b].body # <<>>
  /\ IsShared(e) <=> shared

(* The i-th event of the walk is found in the block that is its home.      *)
LEMMA WalkHomes ==
  ASSUME NEW E, NEW s \in SliceOf(E), SliceInv(s), NEW n \in Nat,
         NEW lo, NEW hi, NEW h, Placed(s.blocks, lo, hi, h, n), NEW i \in 1 .. n
  PROVE  FoundIn(s, Walk(s)[Root][i], h[i], i \in SharedIds(s.blocks, lo, h, n))
<1> DEFINE bs == s.blocks
           e == Walk(s)[Root][i]
<1>1. e.id = i /\ Found(bs, e)
  BY WalkEvents
<1> HIDE DEF e
<1>2. PICK b \in 1 .. Len(bs) : \E j \in 1 .. Len(bs[b].body) : e = bs[b].body[j]
  BY <1>1 DEF Found
<1>3. PICK j \in 1 .. Len(bs[b].body) : e = bs[b].body[j]
  BY <1>2
<1>4. h[i] = b
  BY <1>1, <1>3 DEF Placed, Homes
<1>5. /\ bs \in Seq(BlockOf(E)) /\ bs[b].body \in Seq(E)
      /\ \A c \in 1 .. Len(bs) : DOMAIN bs[c].body = 1 .. Len(bs[c].body)
  <2>1. bs \in Seq(BlockOf(E))
    BY ArmBlockFacts
  <2>2. \A c \in 1 .. Len(bs) : bs[c].body \in Seq(E)
    BY <2>1, FieldTypes
  <2>3. \A c \in 1 .. Len(bs) : DOMAIN bs[c].body = 1 .. Len(bs[c].body)
    BY <2>2
  <2> QED
    BY <2>1, <2>2, <2>3
<1>6. BlockWith(s, e) = b
  <2>1. b \in Reachable(s)
    BY <1>4, HomesReached
  <2>2. e \in Range(bs[b].body)
    BY <1>3, <1>5 DEF Range
  <2>3. ASSUME NEW c \in Reachable(s), e \in Range(bs[c].body) PROVE c = b
    <3>1. c \in 1 .. Len(bs)
      BY ReachableFacts
    <3>2. PICK k \in 1 .. Len(bs[c].body) : e = bs[c].body[k]
      BY <1>5, <2>3, <3>1 DEF Range
    <3>3. h[i] = c
      BY <1>1, <3>1, <3>2 DEF Placed, Homes
    <3> QED
      BY <1>4, <3>3
  <2> DEFINE P(c) == e \in Range(bs[c].body)
  <2>4. P(b) /\ \A c \in Reachable(s) : P(c) => c = b
    BY <2>2, <2>3
  <2>5. BlockWith(s, e) = CHOOSE c \in Reachable(s) : P(c)
    BY DEF BlockWith
  <2> HIDE DEF P
  <2> QED
    BY <2>1, <2>4, <2>5
<1>7. bs[b].body # <<>>
  BY <1>3, <1>5
<1>8. IsShared(e) <=> i \in SharedIds(bs, lo, h, n)
  <2>1. e.id = lo[b] + j /\ lo[b] \in Nat
    BY <1>3 DEF Placed, Numbered, NumberedAt
  <2>2. i - lo[h[i]] = j
    <3>1. j \in Nat
      BY <1>5
    <3> QED
      BY <1>1, <1>4, <2>1, <3>1
  <2>3. bs[h[i]].body[i - lo[h[i]]] = e
    BY <1>3, <1>4, <2>2
  <2> QED
    BY <2>3 DEF SharedIds
<1> QED
  <2>1. FoundIn(s, e, h[i], i \in SharedIds(bs, lo, h, n))
    BY <1>4, <1>6, <1>7, <1>8 DEF FoundIn
  <2> QED
    BY <2>1 DEF e

-----------------------------------------------------------------------------
(* The shared ones of the events q, in their order.                        *)
Picked(q) == FlattenSeq([i \in DOMAIN q |-> IF IsShared(q[i]) THEN <<q[i]>> ELSE <<>>])

(* The shared events of a slice are picked from the walk over it.          *)
LEMMA SharedArePicked == ASSUME NEW s PROVE SharedEvents(s) = Picked(Walk(s)[Root])
BY DEF SharedEvents, Picked

(* Nothing is picked from nothing.                                         *)
LEMMA PickedNone == Picked(<<>>) = <<>>
<1> DEFINE seqs == [i \in DOMAIN <<>> |-> IF IsShared(<<>>[i]) THEN <<<<>>[i]>> ELSE <<>>]
<1>1. seqs = <<>>
  OBVIOUS
<1>2. Picked(<<>>) = FlattenSeq(seqs)
  BY DEF Picked
<1> HIDE DEF seqs
<1>3. Len(<<>>) = 0
  OBVIOUS
<1> QED
  BY <1>1, <1>2, <1>3 DEF FlattenSeq

(* Another event is picked iff it is shared.                               *)
LEMMA PickedAppend ==
  ASSUME NEW E, NEW q \in Seq(E), NEW e \in E
  PROVE  Picked(Append(q, e)) = IF IsShared(e) THEN Picked(q) \o <<e>> ELSE Picked(q) \o <<>>
<1> DEFINE part(x) == IF IsShared(x) THEN <<x>> ELSE <<>>
           seqs(r) == [i \in DOMAIN r |-> part(r[i])]
           r == Append(q, e)
           T == Seq(E)
<1>1. /\ Len(q) \in Nat /\ DOMAIN q = 1 .. Len(q) /\ DOMAIN r = 1 .. Len(q) + 1
      /\ r[Len(q) + 1] = e /\ \A i \in 1 .. Len(q) : r[i] = q[i] /\ q[i] \in E
  OBVIOUS
<1>2. \A x \in E : part(x) \in T
  OBVIOUS
<1>3. \A x : Picked(x) = FlattenSeq(seqs(x))
  BY DEF Picked
<1>4. part(e) \in T
  BY <1>2
<1> HIDE DEF part, T, r
<1>5. seqs(q) \in Seq(T)
  <2>1. \A i \in 1 .. Len(q) : part(q[i]) \in T
    BY <1>1, <1>2
  <2> QED
    BY <1>1, <2>1
<1>6. seqs(r) = Append(seqs(q), part(e))
  <2>1. /\ Append(seqs(q), part(e)) \in Seq(T) /\ Len(seqs(q)) = Len(q)
        /\ Len(Append(seqs(q), part(e))) = Len(q) + 1
        /\ Append(seqs(q), part(e))[Len(q) + 1] = part(e)
        /\ \A i \in 1 .. Len(q) : Append(seqs(q), part(e))[i] = part(q[i])
    BY <1>1, <1>4, <1>5
  <2> DEFINE a == Append(seqs(q), part(e))
  <2> HIDE DEF a
  <2>2. a \in Seq(T) /\ Len(a) = Len(q) + 1 /\ a[Len(q) + 1] = part(e) /\ \A i \in 1 .. Len(q) : a[i] = part(q[i])
    BY <2>1 DEF a
  <2>3. \A i \in 1 .. Len(q) + 1 : i = Len(q) + 1 \/ i \in 1 .. Len(q)
    BY <1>1
  <2>4. \A i \in 1 .. Len(q) + 1 : a[i] = part(r[i])
    BY <1>1, <2>2, <2>3
  <2>5. a = [i \in 1 .. Len(q) + 1 |-> a[i]]
    BY <2>2
  <2>6. a = seqs(r)
    BY <1>1, <2>4, <2>5
  <2> QED
    BY <2>6 DEF a
<1>7. FlattenSeq(seqs(r)) = FlattenSeq(seqs(q)) \o part(e)
  <2> HIDE DEF seqs
  <2> QED
    BY <1>4, <1>5, <1>6, FlattenAppend DEF T
<1> HIDE DEF seqs
<1> QED
  BY <1>3, <1>7 DEF part, r

(* Each of them is one of q, and their numbers grow as those of q do.      *)
Picks(p, q, k) ==
  \A j \in 1 .. Len(p) :
    /\ p[j].id \in 1 .. k /\ p[j] = q[p[j].id] /\ IsShared(p[j])
    /\ \A l \in 1 .. j - 1 : p[l].id < p[j].id

(* What is picked are the shared events, in the order of their numbers.    *)
LEMMA PickedFacts ==
  ASSUME NEW E, NEW q \in Seq(E), \A i \in 1 .. Len(q) : q[i].id = i
  PROVE  Picked(q) \in Seq(E) /\ Picks(Picked(q), q, Len(q))
<1> DEFINE up(k) == SubSeq(q, 1, k)
           good == { k \in Nat : k <= Len(q) => Picked(up(k)) \in Seq(E) /\ Picks(Picked(up(k)), q, k) }
<1>0. Len(q) \in Nat
  OBVIOUS
<1>1. 0 \in good
  <2>1. up(0) = <<>>
    OBVIOUS
  <2>2. Picked(up(0)) = <<>>
    BY <2>1, PickedNone
  <2>3. <<>> \in Seq(E) /\ Picks(<<>>, q, 0)
    BY DEF Picks
  <2> HIDE DEF up
  <2> QED
    BY <2>2, <2>3
<1>2. ASSUME NEW k \in Nat, k \in good PROVE k + 1 \in good
  <2>1. k + 1 \in Nat
    OBVIOUS
  <2> SUFFICES ASSUME k + 1 <= Len(q)
               PROVE  Picked(up(k + 1)) \in Seq(E) /\ Picks(Picked(up(k + 1)), q, k + 1)
    BY <2>1
  <2> DEFINE p == Picked(up(k))
             e == q[k + 1]
  <2>2. e \in E /\ up(k) \in Seq(E) /\ up(k + 1) = Append(up(k), e) /\ e.id = k + 1
    <3>1. e \in E /\ up(k) \in Seq(E) /\ up(k + 1) = Append(up(k), e)
      BY PrefixStep
    <3>2. k + 1 \in 1 .. Len(q)
      BY <1>0
    <3> QED
      BY <3>1, <3>2
  <2>3. p \in Seq(E) /\ Picks(p, q, k)
    <3>1. k <= Len(q)
      BY <1>0
    <3> QED
      BY <1>2, <3>1
  <2>4. Picked(up(k + 1)) = IF IsShared(e) THEN p \o <<e>> ELSE p \o <<>>
    BY <2>2, PickedAppend
  <2> HIDE DEF p, e, up
  <2>5. CASE IsShared(e)
    <3> DEFINE r == p \o <<e>>
    <3>1. /\ r \in Seq(E) /\ Len(r) = Len(p) + 1 /\ r[Len(p) + 1] = e /\ Len(p) \in Nat
          /\ \A j \in 1 .. Len(p) : r[j] = p[j]
      BY <2>2, <2>3
    <3> HIDE DEF r
    <3>2. ASSUME NEW j \in 1 .. Len(r)
          PROVE  /\ r[j].id \in 1 .. k + 1 /\ r[j] = q[r[j].id] /\ IsShared(r[j])
                 /\ \A l \in 1 .. j - 1 : r[l].id < r[j].id
      <4>1. CASE j = Len(p) + 1
        <5>1. r[j] = e /\ q[e.id] = e /\ e.id = k + 1
          BY <2>2, <3>1, <4>1 DEF e
        <5>2. \A l \in 1 .. Len(p) : r[l] = p[l] /\ p[l].id \in 1 .. k
          BY <2>3, <3>1 DEF Picks
        <5>3. \A l \in 1 .. j - 1 : r[l].id \in 1 .. k
          BY <3>1, <4>1, <5>2
        <5> QED
          BY <2>5, <5>1, <5>3
      <4>2. CASE j # Len(p) + 1
        <5>1. j \in 1 .. Len(p)
          BY <3>1, <4>2
        <5>2. /\ p[j].id \in 1 .. k /\ p[j] = q[p[j].id] /\ IsShared(p[j])
              /\ \A l \in 1 .. j - 1 : p[l].id < p[j].id
          BY <2>3, <5>1 DEF Picks
        <5>3. r[j] = p[j] /\ \A l \in 1 .. j - 1 : r[l] = p[l]
          BY <3>1, <5>1
        <5>4. p[j].id \in 1 .. k + 1
          BY <5>2
        <5> QED
          BY <5>2, <5>3, <5>4
      <4> QED
        BY <4>1, <4>2
    <3>3. Picks(r, q, k + 1)
      BY <3>2 DEF Picks
    <3> QED
      BY <2>4, <2>5, <3>1, <3>3 DEF r
  <2>6. CASE ~IsShared(e)
    <3>1. p \o <<>> = p
      BY <2>3
    <3>2. \A x \in 1 .. k : x \in 1 .. k + 1
      OBVIOUS
    <3>3. Picks(p, q, k + 1)
      BY <2>3, <3>2 DEF Picks
    <3> QED
      BY <2>3, <2>4, <2>6, <3>1, <3>3
  <2> QED
    BY <2>5, <2>6
<1>3. \A k \in Nat : k \in good
  <2> HIDE DEF good
  <2> QED BY <1>1, <1>2, SetInduction
<1>4. up(Len(q)) = q
  OBVIOUS
<1>5. Picked(up(Len(q))) \in Seq(E) /\ Picks(Picked(up(Len(q))), q, Len(q))
  <2> HIDE DEF up
  <2> QED
    BY <1>0, <1>3
<1> HIDE DEF up
<1> QED
  BY <1>4, <1>5

(* What is picked has the type of what it is picked from.                  *)
LEMMA PickedInSeq ==
  ASSUME NEW E, NEW q \in Seq(E)
  PROVE  Picked(q) \in Seq(E)
<1> DEFINE part(x) == IF IsShared(x) THEN <<x>> ELSE <<>>
           up(k) == SubSeq(q, 1, k)
           good == { k \in Nat : k <= Len(q) => Picked(up(k)) \in Seq(E) }
<1>0. Len(q) \in Nat
  OBVIOUS
<1>1. 0 \in good
  <2>1. up(0) = <<>>
    OBVIOUS
  <2>2. Picked(up(0)) = <<>>
    BY <2>1, PickedNone
  <2>3. <<>> \in Seq(E)
    OBVIOUS
  <2> HIDE DEF up
  <2> QED
    BY <2>2, <2>3
<1>2. ASSUME NEW k \in Nat, k \in good PROVE k + 1 \in good
  <2>1. k + 1 \in Nat
    OBVIOUS
  <2> SUFFICES ASSUME k + 1 <= Len(q) PROVE Picked(up(k + 1)) \in Seq(E)
    BY <2>1
  <2> DEFINE p == Picked(up(k))
             e == q[k + 1]
  <2>2. e \in E /\ up(k) \in Seq(E) /\ up(k + 1) = Append(up(k), e)
    BY PrefixStep
  <2>3. p \in Seq(E)
    <3>1. k <= Len(q)
      BY <1>0
    <3> QED
      BY <1>2, <3>1
  <2>4. Picked(up(k + 1)) = IF IsShared(e) THEN p \o <<e>> ELSE p \o <<>>
    BY <2>2, PickedAppend
  <2> HIDE DEF p, e, up
  <2>5. p \o <<e>> \in Seq(E)
    BY <2>2, <2>3
  <2>6. p \o <<>> \in Seq(E)
    BY <2>3
  <2> QED
    BY <2>4, <2>5, <2>6
<1>3. \A k \in Nat : k \in good
  <2> HIDE DEF good
  <2> QED BY <1>1, <1>2, SetInduction
<1>4. up(Len(q)) = q
  OBVIOUS
<1>5. Picked(up(Len(q))) \in Seq(E)
  <2> HIDE DEF up
  <2> QED
    BY <1>0, <1>3
<1> HIDE DEF up
<1> QED
  BY <1>4, <1>5

(* Picking from two sequences of events is picking from one, then the      *)
(* other.                                                                  *)
LEMMA PickedConcat ==
  ASSUME NEW E, NEW q \in Seq(E), NEW r \in Seq(E)
  PROVE  Picked(q \o r) = Picked(q) \o Picked(r)
<1> DEFINE up(k) == SubSeq(r, 1, k)
           good == { k \in Nat : k <= Len(r) => Picked(q \o up(k)) = Picked(q) \o Picked(up(k)) }
<1>0. Len(r) \in Nat /\ Picked(q) \in Seq(E)
  <2>1. Len(r) \in Nat
    OBVIOUS
  <2> QED
    BY <2>1, PickedInSeq
<1>1. 0 \in good
  <2>1. up(0) = <<>>
    OBVIOUS
  <2>2. Picked(up(0)) = <<>> /\ q \o up(0) = q
    <3>1. Picked(<<>>) = <<>>
      BY PickedNone
    <3>2. q \o <<>> = q
      OBVIOUS
    <3> HIDE DEF up
    <3> QED
      BY <2>1, <3>1, <3>2
  <2> DEFINE A == Picked(q)
  <2>3. A \in Seq(E)
    BY <1>0
  <2> HIDE DEF up, A
  <2>4. A \o <<>> = A
    BY <2>3
  <2>5. Picked(q \o up(0)) = Picked(q) \o Picked(up(0))
    BY <2>2, <2>4 DEF A
  <2> QED
    BY <2>5
<1>2. ASSUME NEW k \in Nat, k \in good PROVE k + 1 \in good
  <2>1. k + 1 \in Nat
    OBVIOUS
  <2> SUFFICES ASSUME k + 1 <= Len(r) PROVE Picked(q \o up(k + 1)) = Picked(q) \o Picked(up(k + 1))
    BY <2>1
  <2> DEFINE a == up(k)
             e == r[k + 1]
             new == IF IsShared(e) THEN <<e>> ELSE <<>>
  <2>2. e \in E /\ a \in Seq(E) /\ up(k + 1) = Append(a, e)
    BY PrefixStep
  <2>3. k <= Len(r)
    BY <1>0
  <2> HIDE DEF a, e
  <2>4. q \o Append(a, e) = Append(q \o a, e) /\ q \o a \in Seq(E)
    BY <2>2, ConcatAppend
  <2>5. Picked(Append(a, e)) = Picked(a) \o new /\ Picked(Append(q \o a, e)) = Picked(q \o a) \o new
    BY <2>2, <2>4, PickedAppend
  <2>6. Picked(q \o a) = Picked(q) \o Picked(a)
    BY <1>2, <2>3 DEF a
  <2>7. Picked(a) \in Seq(E) /\ new \in Seq(E)
    BY <2>2, PickedInSeq
  <2> HIDE DEF new, up
  <2>8. (Picked(q) \o Picked(a)) \o new = Picked(q) \o (Picked(a) \o new)
    <3> DEFINE A == Picked(q)
               B == Picked(a)
    <3>1. A \in Seq(E) /\ B \in Seq(E)
      BY <1>0, <2>7
    <3> HIDE DEF A, B
    <3>2. (A \o B) \o new = A \o (B \o new)
      BY <2>7, <3>1
    <3> QED
      BY <3>2 DEF A, B
  <2> QED
    BY <2>2, <2>4, <2>5, <2>6, <2>8
<1>3. \A k \in Nat : k \in good
  <2> HIDE DEF good
  <2> QED BY <1>1, <1>2, SetInduction
<1>4. up(Len(r)) = r
  OBVIOUS
<1>5. Picked(q \o up(Len(r))) = Picked(q) \o Picked(up(Len(r)))
  <2> HIDE DEF up
  <2> QED
    BY <1>0, <1>3
<1> HIDE DEF up
<1> QED
  BY <1>4, <1>5

(* Events that are all shared are all picked.                              *)
LEMMA PickedAll ==
  ASSUME NEW E, NEW q \in Seq(E), \A i \in 1 .. Len(q) : IsShared(q[i])
  PROVE  Picked(q) = q
<1> DEFINE up(k) == SubSeq(q, 1, k)
           good == { k \in Nat : k <= Len(q) => Picked(up(k)) = up(k) }
<1>0. Len(q) \in Nat
  OBVIOUS
<1>1. 0 \in good
  <2>1. up(0) = <<>>
    OBVIOUS
  <2>2. Picked(up(0)) = up(0)
    BY <2>1, PickedNone
  <2> HIDE DEF up
  <2> QED
    BY <2>2
<1>2. ASSUME NEW k \in Nat, k \in good PROVE k + 1 \in good
  <2>1. k + 1 \in Nat
    OBVIOUS
  <2> SUFFICES ASSUME k + 1 <= Len(q) PROVE Picked(up(k + 1)) = up(k + 1)
    BY <2>1
  <2> DEFINE a == up(k)
             e == q[k + 1]
  <2>2. e \in E /\ a \in Seq(E) /\ up(k + 1) = Append(a, e) /\ IsShared(e)
    <3>1. e \in E /\ a \in Seq(E) /\ up(k + 1) = Append(a, e)
      BY PrefixStep
    <3>2. k + 1 \in 1 .. Len(q)
      BY <1>0
    <3> QED
      BY <3>1, <3>2
  <2>3. Picked(a) = a
    <3>1. k <= Len(q)
      BY <1>0
    <3> QED
      BY <1>2, <3>1
  <2> HIDE DEF a, e, up
  <2>4. Picked(Append(a, e)) = a \o <<e>>
    BY <2>2, <2>3, PickedAppend
  <2>5. a \o <<e>> = Append(a, e)
    BY <2>2
  <2> QED
    BY <2>2, <2>4, <2>5
<1>3. \A k \in Nat : k \in good
  <2> HIDE DEF good
  <2> QED BY <1>1, <1>2, SetInduction
<1>4. up(Len(q)) = q
  OBVIOUS
<1>5. Picked(up(Len(q))) = up(Len(q))
  <2> HIDE DEF up
  <2> QED
    BY <1>0, <1>3
<1> HIDE DEF up
<1> QED
  BY <1>4, <1>5

-----------------------------------------------------------------------------
(* Slice t is slice s after the events es are recorded in its current      *)
(* block: what the arms are read from stays, but that a block without      *)
(* events may get a condition, and that new blocks have no events.         *)
Grown(s, t, es) ==
  /\ Len(s.blocks) <= Len(t.blocks)
  /\ \A b \in 1 .. Len(s.blocks) :
       /\ t.blocks[b].outer = s.blocks[b].outer
       /\ IsConditional(s.blocks[b]) => IsConditional(t.blocks[b])
       /\ IsConditional(t.blocks[b]) => IsConditional(s.blocks[b]) \/ t.blocks[b].body = <<>>
       /\ b # s.cur => t.blocks[b].body = s.blocks[b].body
  /\ t.blocks[s.cur].body = s.blocks[s.cur].body \o es
  /\ \A b \in 1 .. Len(t.blocks) : b \in 1 .. Len(s.blocks) \/ t.blocks[b].body = <<>>
  /\ SameElse(s.blocks, t.blocks, Len(s.blocks))

(* The events are where they were, and the new ones in the block that was  *)
(* the current one.                                                        *)
GrownBodies(bs, cs, c, es) ==
  /\ \A b \in 1 .. Len(bs) : \A j \in 1 .. Len(bs[b].body) :
       b \in 1 .. Len(cs) /\ j \in 1 .. Len(cs[b].body) /\ cs[b].body[j] = bs[b].body[j]
  /\ \A k \in 1 .. Len(es) :
       /\ c \in 1 .. Len(cs) /\ Len(bs[c].body) + k \in 1 .. Len(cs[c].body)
       /\ cs[c].body[Len(bs[c].body) + k] = es[k]
  /\ \A b \in 1 .. Len(cs) : \A j \in 1 .. Len(cs[b].body) :
       \/ b \in 1 .. Len(bs) /\ j \in 1 .. Len(bs[b].body) /\ cs[b].body[j] = bs[b].body[j]
       \/ b = c /\ \E k \in 1 .. Len(es) : cs[b].body[j] = es[k]

(* When a slice has grown, so have its bodies: by the events es, in the    *)
(* current block.                                                          *)
LEMMA BodiesGrown ==
  ASSUME NEW E, NEW s \in SliceOf(E), SliceInv(s), NEW t \in SliceOf(E), SliceInv(t),
         NEW es \in Seq(E), Grown(s, t, es)
  PROVE  GrownBodies(s.blocks, t.blocks, s.cur, es)
<1> DEFINE bs == s.blocks
           cs == t.blocks
           c == s.cur
           N == Len(bs)
           M == Len(cs)
           q == bs[c].body
<1>1. /\ bs \in Seq(BlockOf(E)) /\ cs \in Seq(BlockOf(E)) /\ N \in Nat /\ M \in Nat /\ c \in 2 .. N
  BY ArmBlockFacts
<1>2. c \in 1 .. N /\ N <= M
  BY <1>1 DEF Grown
<1>3. /\ \A b \in 1 .. N : b \in 1 .. M
      /\ \A b \in 1 .. N : b # c => cs[b].body = bs[b].body
      /\ cs[c].body = q \o es
      /\ \A b \in 1 .. M : b \in 1 .. N \/ cs[b].body = <<>>
  BY <1>1, <1>2 DEF Grown
<1>4. q \in Seq(E)
  BY <1>1, <1>2, FieldTypes
<1>5. /\ Len(cs[c].body) = Len(q) + Len(es)
      /\ \A j \in 1 .. Len(q) : j \in 1 .. Len(cs[c].body) /\ cs[c].body[j] = q[j]
      /\ \A k \in 1 .. Len(es) : Len(q) + k \in 1 .. Len(cs[c].body) /\ cs[c].body[Len(q) + k] = es[k]
      /\ \A j \in 1 .. Len(cs[c].body) : j \in 1 .. Len(q) \/ \E k \in 1 .. Len(es) : j = Len(q) + k
  <2> DEFINE r == q \o es
  <2> HIDE DEF q
  <2>1. /\ Len(r) = Len(q) + Len(es) /\ Len(q) \in Nat /\ Len(es) \in Nat
        /\ \A j \in 1 .. Len(q) : r[j] = q[j]
        /\ \A k \in 1 .. Len(es) : r[Len(q) + k] = es[k]
    BY <1>4
  <2> HIDE DEF r
  <2>2. /\ \A j \in 1 .. Len(q) : j \in 1 .. Len(r)
        /\ \A k \in 1 .. Len(es) : Len(q) + k \in 1 .. Len(r)
    BY <2>1
  <2>3. ASSUME NEW j \in 1 .. Len(r), j \notin 1 .. Len(q)
        PROVE  \E k \in 1 .. Len(es) : j = Len(q) + k
    <3>1. j - Len(q) \in 1 .. Len(es) /\ j = Len(q) + (j - Len(q))
      BY <2>1, <2>3
    <3> QED
      BY <3>1
  <2>4. cs[c].body = r
    BY <1>3 DEF r
  <2> HIDE DEF cs
  <2> QED
    BY <2>1, <2>2, <2>3, <2>4
<1> HIDE DEF bs, cs, c, N, M, q
<1>6. \A b \in 1 .. N : \A j \in 1 .. Len(bs[b].body) :
        b \in 1 .. M /\ j \in 1 .. Len(cs[b].body) /\ cs[b].body[j] = bs[b].body[j]
  <2> SUFFICES ASSUME NEW b \in 1 .. N, NEW j \in 1 .. Len(bs[b].body)
               PROVE  b \in 1 .. M /\ j \in 1 .. Len(cs[b].body) /\ cs[b].body[j] = bs[b].body[j]
    OBVIOUS
  <2>1. CASE b = c
    BY <1>3, <1>5, <2>1 DEF q
  <2>2. CASE b # c
    BY <1>3, <2>2
  <2> QED
    BY <2>1, <2>2
<1>7. \A b \in 1 .. M : \A j \in 1 .. Len(cs[b].body) :
        \/ b \in 1 .. N /\ j \in 1 .. Len(bs[b].body) /\ cs[b].body[j] = bs[b].body[j]
        \/ b = c /\ \E k \in 1 .. Len(es) : cs[b].body[j] = es[k]
  <2> SUFFICES ASSUME NEW b \in 1 .. M, NEW j \in 1 .. Len(cs[b].body)
               PROVE  \/ b \in 1 .. N /\ j \in 1 .. Len(bs[b].body) /\ cs[b].body[j] = bs[b].body[j]
                      \/ b = c /\ \E k \in 1 .. Len(es) : cs[b].body[j] = es[k]
    OBVIOUS
  <2>1. CASE b = c
    <3>1. CASE j \in 1 .. Len(q)
      BY <1>2, <1>5, <2>1, <3>1 DEF q
    <3>2. CASE j \notin 1 .. Len(q)
      <4>1. PICK k \in 1 .. Len(es) : j = Len(q) + k
        BY <1>5, <2>1, <3>2
      <4> QED
        BY <1>5, <2>1, <4>1
    <3> QED
      BY <3>1, <3>2
  <2>2. CASE b # c
    <3>1. CASE b \in 1 .. N
      BY <1>3, <2>2, <3>1
    <3>2. CASE b \notin 1 .. N
      <4>1. cs[b].body = <<>>
        BY <1>3, <3>2
      <4>2. Len(cs[b].body) = 0
        BY <4>1
      <4>3. j \in 1 .. 0
        BY <4>2
      <4> QED
        BY <4>3
    <3> QED
      BY <3>1, <3>2
  <2> QED
    BY <2>1, <2>2
<1>8. \A k \in 1 .. Len(es) :
        c \in 1 .. M /\ Len(q) + k \in 1 .. Len(cs[c].body) /\ cs[c].body[Len(q) + k] = es[k]
  BY <1>2, <1>3, <1>5
<1>9. GrownBodies(bs, cs, c, es)
  BY <1>6, <1>7, <1>8 DEF N, M, q, GrownBodies
<1> QED
  BY <1>9 DEF bs, cs, c

(* Where the events are then.                                              *)
HomesThen(h, n, m, c) == [x \in 1 .. n + m |-> IF x <= n THEN h[x] ELSE c]

(* The new events have the current block as their home, the others keep    *)
(* theirs.                                                                 *)
LEMMA HomesGrown ==
  ASSUME NEW E, NEW s \in SliceOf(E), SliceInv(s), NEW t \in SliceOf(E), SliceInv(t),
         NEW n \in Nat, NEW es \in Seq(E), \A i \in 1 .. Len(es) : es[i].id = n + i,
         Grown(s, t, es), NEW h, Homes(s.blocks, h, n)
  PROVE  /\ Homes(t.blocks, HomesThen(h, n, Len(es), s.cur), n + Len(es))
         /\ \A x \in 1 .. n : HomesThen(h, n, Len(es), s.cur)[x] = h[x]
         /\ \A i \in 1 .. Len(es) : HomesThen(h, n, Len(es), s.cur)[n + i] = s.cur
<1> DEFINE bs == s.blocks
           cs == t.blocks
           N == Len(bs)
           M == Len(cs)
           m == Len(es)
           g == HomesThen(h, n, m, s.cur)
<1>1. N \in Nat /\ M \in Nat /\ s.cur \in 1 .. N /\ N <= M /\ m \in Nat
  <2>1. N \in Nat /\ M \in Nat /\ s.cur \in 2 .. N
    BY ArmBlockFacts
  <2>2. N <= M /\ m \in Nat
    BY DEF Grown
  <2> QED
    BY <2>1, <2>2
<1>2. g = [x \in 1 .. n + m |-> IF x <= n THEN h[x] ELSE s.cur]
  BY DEF HomesThen
<1> HIDE DEF g, m
<1>3. /\ \A x \in 1 .. n : x \in 1 .. n + m /\ x <= n
      /\ \A i \in 1 .. m : n + i \in 1 .. n + m /\ ~(n + i <= n)
      /\ \A x \in 1 .. n + m : x \in 1 .. n \/ ~(x <= n)
  BY <1>1
<1>4. (\A x \in 1 .. n : g[x] = h[x]) /\ \A i \in 1 .. m : g[n + i] = s.cur
  BY <1>2, <1>3
<1>5. g \in [1 .. n + m -> 1 .. M]
  <2>1. \A b \in 1 .. N : b \in 1 .. M
    BY <1>1
  <2>2. \A x \in 1 .. n : h[x] \in 1 .. N
    BY DEF Homes
  <2>3. \A x \in 1 .. n + m : (IF x <= n THEN h[x] ELSE s.cur) \in 1 .. M
    <3> HIDE DEF N, M
    <3> QED
      BY <1>1, <1>3, <2>1, <2>2
  <2> HIDE DEF N, M
  <2> QED
    BY <1>2, <2>3
<1>6. ASSUME NEW b \in 1 .. M, NEW j \in 1 .. Len(cs[b].body)
      PROVE  cs[b].body[j].id \in 1 .. n + m /\ g[cs[b].body[j].id] = b
  <2>1. CASE b \in 1 .. N /\ j \in 1 .. Len(bs[b].body) /\ cs[b].body[j] = bs[b].body[j]
    <3>1. bs[b].body[j].id \in 1 .. n /\ h[bs[b].body[j].id] = b
      BY <2>1 DEF Homes
    <3> QED
      BY <1>3, <1>4, <2>1, <3>1
  <2>2. ASSUME b = s.cur, NEW k \in 1 .. m, cs[b].body[j] = es[k]
        PROVE  cs[b].body[j].id \in 1 .. n + m /\ g[cs[b].body[j].id] = b
    <3>1. es[k].id = n + k
      BY DEF m
    <3> QED
      BY <1>3, <1>4, <2>2, <3>1
  <2>3. \/ b \in 1 .. N /\ j \in 1 .. Len(bs[b].body) /\ cs[b].body[j] = bs[b].body[j]
        \/ b = s.cur /\ \E k \in 1 .. m : cs[b].body[j] = es[k]
    <3>1. GrownBodies(bs, cs, s.cur, es)
      BY BodiesGrown
    <3> QED
      BY <3>1 DEF m, GrownBodies
  <2> QED
    BY <2>1, <2>2, <2>3
<1> QED
  BY <1>4, <1>5, <1>6 DEF Homes, g, m

(* The walk goes on with the new events.                                   *)
LEMMA WalkGrown ==
  ASSUME NEW E, NEW s \in SliceOf(E), SliceInv(s), NEW t \in SliceOf(E), SliceInv(t),
         NEW n \in Nat, NEW es \in Seq(E), \A i \in 1 .. Len(es) : es[i].id = n + i,
         Grown(s, t, es), NEW h, NEW lo, NEW hi, Placed(s.blocks, lo, hi, h, n),
         NEW g, NEW lp, NEW hp, Placed(t.blocks, lp, hp, g, n + Len(es))
  PROVE  Walk(t)[Root] = Walk(s)[Root] \o es
<1> DEFINE bs == s.blocks
           cs == t.blocks
           m == Len(es)
           V == Walk(s)[Root]
           W == Walk(t)[Root]
<1>1. m \in Nat /\ n + m \in Nat
  OBVIOUS
<1>2. /\ V \in Seq(E) /\ Len(V) = n
      /\ \A i \in 1 .. n : V[i].id = i /\ Found(bs, V[i])
  BY WalkEvents
<1>3. W \in Seq(E) /\ Len(W) = n + m
  <2> HIDE DEF m, W
  <2>1. Placed(cs, lp, hp, g, n + m)
    BY DEF m
  <2> QED
    BY <1>1, <2>1, WalkEvents DEF W
<1>4. ASSUME NEW b \in 1 .. Len(cs), NEW j \in 1 .. Len(cs[b].body)
      PROVE  W[cs[b].body[j].id] = cs[b].body[j]
  <2> DEFINE k == n + m
  <2>1. k \in Nat /\ Placed(cs, lp, hp, g, k)
    BY <1>1
  <2> HIDE DEF k
  <2> QED
    BY <2>1, WalkAt
<1>8. GrownBodies(bs, cs, s.cur, es)
  BY BodiesGrown
<1> HIDE DEF V, W
<1>5. ASSUME NEW i \in 1 .. n PROVE W[i] = V[i]
  <2>1. V[i].id = i /\ Found(bs, V[i])
    BY <1>2
  <2>2. PICK b \in 1 .. Len(bs) : \E j \in 1 .. Len(bs[b].body) : V[i] = bs[b].body[j]
    BY <2>1 DEF Found
  <2>3. PICK j \in 1 .. Len(bs[b].body) : V[i] = bs[b].body[j]
    BY <2>2
  <2>4. b \in 1 .. Len(cs) /\ j \in 1 .. Len(cs[b].body) /\ cs[b].body[j] = bs[b].body[j]
    BY <1>8 DEF GrownBodies
  <2>5. W[cs[b].body[j].id] = cs[b].body[j]
    BY <1>4, <2>4
  <2> QED
    BY <2>1, <2>3, <2>4, <2>5
<1>6. ASSUME NEW k \in 1 .. m PROVE W[n + k] = es[k]
  <2> DEFINE c == s.cur
             j == Len(bs[c].body) + k
  <2>1. c \in 1 .. Len(cs) /\ j \in 1 .. Len(cs[c].body) /\ cs[c].body[j] = es[k]
    BY <1>8 DEF GrownBodies
  <2>2. es[k].id = n + k
    OBVIOUS
  <2> HIDE DEF c, j
  <2>3. W[cs[c].body[j].id] = cs[c].body[j]
    BY <1>4, <2>1
  <2> QED
    BY <2>1, <2>2, <2>3
<1>7. W = V \o es
  <2> DEFINE X == V \o es
  <2>1. X \in Seq(E) /\ Len(X) = n + m /\ (\A i \in 1 .. n : X[i] = V[i]) /\ \A k \in 1 .. m : X[n + k] = es[k]
    <3>1. V \in Seq(E) /\ Len(V) = n
      BY <1>2
    <3>2. /\ X \in Seq(E) /\ Len(X) = Len(V) + m /\ (\A i \in 1 .. Len(V) : X[i] = V[i])
          /\ \A k \in 1 .. m : X[Len(V) + k] = es[k]
      BY <3>1
    <3> QED
      BY <3>1, <3>2
  <2> HIDE DEF X, m
  <2>2. \A i \in 1 .. n + m : i \in 1 .. n \/ (i - n \in 1 .. m /\ n + (i - n) = i)
    BY <1>1
  <2>3. \A i \in 1 .. n + m : W[i] = X[i]
    <3> SUFFICES ASSUME NEW i \in 1 .. n + m PROVE W[i] = X[i]
      OBVIOUS
    <3>1. CASE i \in 1 .. n
      BY <1>5, <2>1, <3>1
    <3>2. CASE i - n \in 1 .. m /\ n + (i - n) = i
      <4>1. W[n + (i - n)] = es[i - n] /\ X[n + (i - n)] = es[i - n]
        BY <1>6, <2>1, <3>2
      <4> QED
        BY <3>2, <4>1
    <3> QED
      BY <2>2, <3>1, <3>2
  <2>4. W = [i \in 1 .. n + m |-> W[i]] /\ X = [i \in 1 .. n + m |-> X[i]]
    BY <1>3, <2>1
  <2>5. W = X
    BY <2>3, <2>4
  <2> QED
    BY <2>5 DEF X
<1> QED
  BY <1>7 DEF V, W

-----------------------------------------------------------------------------
(* The order that arms give: what ProgramOrder has recorded when the arms  *)
(* of the shared events are these.                                         *)
BeforeOf(qs) ==
  { c \in (DOMAIN qs) \X (DOMAIN qs) : c[1] < c[2] /\ ~Program!Exclusive(qs[c[1]], qs[c[2]]) }

(* The shared events of a slice, their arms and their order.               *)
SharedAt(s, lo, h, n, p) ==
  /\ \A k \in 1 .. Len(p) :
       /\ p[k].id \in SharedIds(s.blocks, lo, h, n)
       /\ p[k] = Walk(s)[Root][p[k].id]
       /\ \A l \in 1 .. k - 1 : p[l].id < p[k].id
  /\ SharedArms(s) = [k \in 1 .. Len(p) |-> ArmsOf(s)[h[p[k].id]]]

(* The shared events of a placed slice are as described by SharedAt.       *)
LEMMA SharedFacts ==
  ASSUME NEW E, NEW s \in SliceOf(E), SliceInv(s), NEW n \in Nat,
         NEW lo, NEW hi, NEW h, Placed(s.blocks, lo, hi, h, n)
  PROVE  SharedEvents(s) \in Seq(E) /\ SharedAt(s, lo, h, n, SharedEvents(s))
<1> DEFINE V == Walk(s)[Root]
           p == SharedEvents(s)
           sh == SharedIds(s.blocks, lo, h, n)
<1>1. V \in Seq(E) /\ Len(V) = n /\ \A i \in 1 .. n : V[i].id = i
  BY WalkEvents
<1>2. p = Picked(V)
  BY SharedArePicked
<1>3. \A i \in 1 .. n : BlockWith(s, V[i]) = h[i] /\ (IsShared(V[i]) <=> i \in sh)
  <2> SUFFICES ASSUME NEW i \in 1 .. n PROVE BlockWith(s, V[i]) = h[i] /\ (IsShared(V[i]) <=> i \in sh)
    OBVIOUS
  <2>1. FoundIn(s, V[i], h[i], i \in sh)
    BY WalkHomes
  <2> QED
    BY <2>1 DEF FoundIn
<1> HIDE DEF V, p
<1>4. p \in Seq(E) /\ Picks(p, V, n)
  <2>1. \A i \in 1 .. Len(V) : V[i].id = i
    BY <1>1
  <2>2. Picked(V) \in Seq(E) /\ Picks(Picked(V), V, Len(V))
    BY <1>1, <2>1, PickedFacts
  <2> QED
    BY <1>1, <1>2, <2>2
<1>5. DOMAIN p = 1 .. Len(p)
  BY <1>4
<1>6. \A k \in 1 .. Len(p) :
        /\ p[k].id \in 1 .. n /\ p[k] = V[p[k].id] /\ IsShared(p[k])
        /\ \A l \in 1 .. k - 1 : p[l].id < p[k].id
  BY <1>4 DEF Picks
<1>7. \A k \in 1 .. Len(p) : BlockWith(s, p[k]) = h[p[k].id] /\ p[k].id \in sh
  <2> HIDE DEF sh
  <2> SUFFICES ASSUME NEW k \in 1 .. Len(p) PROVE BlockWith(s, p[k]) = h[p[k].id] /\ p[k].id \in sh
    OBVIOUS
  <2>1. p[k].id \in 1 .. n /\ V[p[k].id] = p[k] /\ IsShared(p[k])
    BY <1>6
  <2>2. BlockWith(s, V[p[k].id]) = h[p[k].id] /\ (IsShared(V[p[k].id]) <=> p[k].id \in sh)
    BY <1>3, <2>1
  <2> QED
    BY <2>1, <2>2
<1>8. SharedArms(s) = [k \in 1 .. Len(p) |-> ArmsOf(s)[h[p[k].id]]]
  <2>1. SharedArms(s) = [k \in DOMAIN p |-> ArmsOf(s)[BlockWith(s, p[k])]]
    BY DEF SharedArms, BlockWith, p
  <2> QED
    BY <1>5, <1>7, <2>1
<1> QED
  BY <1>4, <1>6, <1>7, <1>8 DEF SharedAt, V, p

(* The order that Threads::encode would read is the one that the arms give.*)
LEMMA BeforeFacts ==
  ASSUME NEW E, \A e \in E : e.id \in Nat, NEW s \in SliceOf(E), SliceInv(s), NEW n \in Nat,
         NEW lo, NEW hi, NEW h, Placed(s.blocks, lo, hi, h, n)
  PROVE  SharedBefore(s) = BeforeOf(SharedArms(s))
<1> DEFINE p == SharedEvents(s)
           A == SharedArms(s)
           D == 1 .. Len(p)
           T == Entailed(SpoConstraints(s))
           sh == SharedIds(s.blocks, lo, h, n)
<1>1. p \in Seq(E) /\ SharedAt(s, lo, h, n, p)
  BY SharedFacts
<1>2. SharedBefore(s) =
        { c \in (DOMAIN p) \X (DOMAIN p) : <<EventClock(p[c[1]]), EventClock(p[c[2]])>> \in T }
  BY DEF SharedBefore
<1>3. \A x \in sh, y \in sh :
        <<EventAt(x), EventAt(y)>> \in T <=> x < y /\ ~Program!Exclusive(ArmsOf(s)[h[x]], ArmsOf(s)[h[y]])
  BY EntailedArms
<1>4. \A k \in D : EventClock(p[k]) = EventAt(p[k].id)
  BY DEF EventClock, EventAt
<1> HIDE DEF p, A, T
<1>5. DOMAIN p = D /\ Len(p) \in Nat
  BY <1>1
<1>6. /\ \A k \in D : p[k].id \in sh /\ A[k] = ArmsOf(s)[h[p[k].id]]
      /\ DOMAIN A = D
      /\ \A k \in D : \A l \in 1 .. k - 1 : p[l].id < p[k].id
  BY <1>1 DEF SharedAt, A
<1>7. \A x \in sh : x \in Nat
  BY DEF SharedIds
<1>8. \A k \in D : \A l \in D : p[k].id < p[l].id <=> k < l
  <2> SUFFICES ASSUME NEW k \in D, NEW l \in D PROVE p[k].id < p[l].id <=> k < l
    OBVIOUS
  <2>1. p[k].id \in Nat /\ p[l].id \in Nat
    BY <1>6, <1>7
  <2>2. CASE k < l
    <3>1. k \in 1 .. l - 1
      BY <1>5, <2>2
    <3> QED
      BY <1>6, <2>2, <3>1
  <2>3. CASE k = l
    BY <2>1, <2>3, <1>5
  <2>4. CASE l < k
    <3>1. l \in 1 .. k - 1
      BY <1>5, <2>4
    <3>2. p[l].id < p[k].id
      BY <1>6, <3>1
    <3> QED
      BY <1>5, <2>1, <2>4, <3>2
  <2> QED
    BY <1>5, <2>2, <2>3, <2>4
<1>9. \A k \in D : \A l \in D :
        <<EventClock(p[k]), EventClock(p[l])>> \in T <=> k < l /\ ~Program!Exclusive(A[k], A[l])
  <2> SUFFICES ASSUME NEW k \in D, NEW l \in D
               PROVE  <<EventClock(p[k]), EventClock(p[l])>> \in T <=> k < l /\ ~Program!Exclusive(A[k], A[l])
    OBVIOUS
  <2>1. p[k].id \in sh /\ p[l].id \in sh
    BY <1>6
  <2>2. <<EventAt(p[k].id), EventAt(p[l].id)>> \in T <=>
          p[k].id < p[l].id /\ ~Program!Exclusive(ArmsOf(s)[h[p[k].id]], ArmsOf(s)[h[p[l].id]])
    BY <1>3, <2>1
  <2>3. A[k] = ArmsOf(s)[h[p[k].id]] /\ A[l] = ArmsOf(s)[h[p[l].id]]
    BY <1>6
  <2>4. p[k].id < p[l].id <=> k < l
    BY <1>8
  <2>5. EventClock(p[k]) = EventAt(p[k].id) /\ EventClock(p[l]) = EventAt(p[l].id)
    BY <1>4
  <2> QED
    BY <2>2, <2>3, <2>4, <2>5
<1>10. SharedBefore(s) = { c \in D \X D : <<EventClock(p[c[1]]), EventClock(p[c[2]])>> \in T }
  BY <1>2, <1>5
<1>11. BeforeOf(A) = { c \in D \X D : c[1] < c[2] /\ ~Program!Exclusive(A[c[1]], A[c[2]]) }
  BY <1>6 DEF BeforeOf
<1> HIDE DEF D
<1>12. \A c \in D \X D : c[1] \in D /\ c[2] \in D
  OBVIOUS
<1>13. SharedBefore(s) = BeforeOf(A)
  BY <1>9, <1>10, <1>11, <1>12
<1> QED
  BY <1>13 DEF A

-----------------------------------------------------------------------------
(* What is picked is among what it is picked from.                         *)
LEMMA PickedFrom ==
  ASSUME NEW E, NEW q \in Seq(E)
  PROVE  \A k \in 1 .. Len(Picked(q)) : \E i \in 1 .. Len(q) : Picked(q)[k] = q[i]
<1> DEFINE F == { q[i] : i \in 1 .. Len(q) }
<1>1. q \in Seq(F)
  <2>1. \A i \in 1 .. Len(q) : q[i] \in F
    OBVIOUS
  <2> HIDE DEF F
  <2> QED
    BY <2>1
<1> HIDE DEF F
<1>2. Picked(q) \in Seq(F)
  BY <1>1, PickedInSeq
<1>3. \A k \in 1 .. Len(Picked(q)) : Picked(q)[k] \in F
  BY <1>2
<1> QED
  BY <1>3 DEF F

(* The arms around the blocks that have events stay.                       *)
LEMMA ArmsGrown ==
  ASSUME NEW E, NEW s \in SliceOf(E), SliceInv(s), Apart(s.blocks),
         NEW t \in SliceOf(E), SliceInv(t), Apart(t.blocks),
         NEW es \in Seq(E), Grown(s, t, es)
  PROVE  \A b \in 1 .. Len(s.blocks) : t.blocks[b].body # <<>> => ArmsOf(t)[b] = ArmsOf(s)[b]
<1> DEFINE N == Len(s.blocks)
<1>1. /\ N <= Len(t.blocks)
      /\ \A b \in 1 .. N : t.blocks[b].outer = s.blocks[b].outer
      /\ \A b \in 1 .. N : IsConditional(s.blocks[b]) => IsConditional(t.blocks[b])
      /\ SameElse(s.blocks, t.blocks, N)
      /\ \A b \in 1 .. N : IsConditional(t.blocks[b]) => IsConditional(s.blocks[b]) \/ t.blocks[b].body = <<>>
  BY DEF Grown
<1>2. N \in Nat
  BY ArmBlockFacts
<1>3. \A b \in 1 .. N : (IsConditional(t.blocks[b]) => IsConditional(s.blocks[b])) =>
        ArmsOf(t)[b] = ArmsOf(s)[b]
  <2> DEFINE m == N
  <2>1. /\ m \in Nat /\ m = Len(s.blocks) /\ m <= Len(t.blocks)
        /\ \A b \in 1 .. m : t.blocks[b].outer = s.blocks[b].outer
        /\ \A b \in 1 .. m : IsConditional(s.blocks[b]) => IsConditional(t.blocks[b])
        /\ SameElse(s.blocks, t.blocks, m)
    BY <1>1, <1>2
  <2> HIDE DEF m
  <2>2. \A b \in 1 .. m : (IsConditional(t.blocks[b]) => IsConditional(s.blocks[b])) =>
          ArmsOf(t)[b] = ArmsOf(s)[b]
    BY <2>1, ArmsKept
  <2> QED
    BY <2>2 DEF m
<1> QED
  BY <1>1, <1>3

(* The arms of the shared events are those they had, and those of the new  *)
(* ones are the open ones.                                                 *)
ArmsAdded(s, t, q, r) == SharedArms(t) = SharedArms(s) \o [i \in 1 .. r |-> q]

(* When a slice has grown by the events es, the shared ones of them come   *)
(* last, each under the arms that are open.                                *)
LEMMA SharedGrown ==
  ASSUME NEW E, NEW s \in SliceOf(E), SliceInv(s), NEW t \in SliceOf(E), SliceInv(t),
         NEW n \in Nat, NEW es \in Seq(E), \A i \in 1 .. Len(es) : es[i].id = n + i,
         Grown(s, t, es), NEW h, NEW lo, NEW hi, Placed(s.blocks, lo, hi, h, n),
         NEW lp, NEW hp, Placed(t.blocks, lp, hp, HomesThen(h, n, Len(es), s.cur), n + Len(es)),
         NEW q0 \in ArmSeq, OnArms(s, q0)
  PROVE  ArmsAdded(s, t, q0, Len(Picked(es)))
<1> DEFINE bs == s.blocks
           cs == t.blocks
           m == Len(es)
           g == HomesThen(h, n, m, s.cur)
           p == SharedEvents(s)
           r == Picked(es)
           q == SharedEvents(t)
           A == ArmsOf(s)
           C == ArmsOf(t)
           added == [i \in 1 .. Len(r) |-> q0]
<1>1. /\ m \in Nat /\ n + m \in Nat /\ Apart(bs) /\ Apart(cs) /\ s.cur \in 1 .. Len(bs)
  <2>1. s.cur \in 2 .. Len(bs) /\ Len(bs) \in Nat
    BY ArmBlockFacts
  <2> QED
    BY <2>1 DEF Placed
<1>2. p \in Seq(E) /\ SharedAt(s, lo, h, n, p)
  BY SharedFacts
<1>3. q \in Seq(E) /\ SharedAt(t, lp, g, n + m, q)
  <2> DEFINE k == n + m
  <2>1. k \in Nat /\ Placed(cs, lp, hp, g, k)
    BY <1>1
  <2> HIDE DEF k, g
  <2>2. q \in Seq(E) /\ SharedAt(t, lp, g, k, q)
    BY <2>1, SharedFacts
  <2> QED
    BY <2>2 DEF k
<1>4. q = p \o r
  <2>1. Walk(t)[Root] = Walk(s)[Root] \o es
    BY WalkGrown
  <2>2. Walk(s)[Root] \in Seq(E)
    BY WalkEvents
  <2>3. Picked(Walk(s)[Root] \o es) = Picked(Walk(s)[Root]) \o r
    BY <2>2, PickedConcat
  <2>4. p = Picked(Walk(s)[Root]) /\ q = Picked(Walk(t)[Root])
    BY SharedArePicked
  <2> QED
    BY <2>1, <2>3, <2>4
<1>5. r \in Seq(E) /\ \A k \in 1 .. Len(r) : \E i \in 1 .. m : r[k] = es[i]
  <2>1. r \in Seq(E)
    BY PickedInSeq
  <2>2. \A k \in 1 .. Len(Picked(es)) : \E i \in 1 .. Len(es) : Picked(es)[k] = es[i]
    BY PickedFrom
  <2> QED
    BY <2>1, <2>2
<1>6. /\ \A x \in 1 .. n : g[x] = h[x]
      /\ \A i \in 1 .. m : g[n + i] = s.cur
  <2>1. Homes(bs, h, n)
    BY DEF Placed
  <2> QED
    BY <2>1, HomesGrown
<1>7. /\ \A x \in 1 .. n : h[x] \in 1 .. Len(bs) /\ bs[h[x]].body # <<>>
  <2> SUFFICES ASSUME NEW x \in 1 .. n PROVE h[x] \in 1 .. Len(bs) /\ bs[h[x]].body # <<>>
    OBVIOUS
  <2>1. FoundIn(s, Walk(s)[Root][x], h[x], x \in SharedIds(s.blocks, lo, h, n))
    BY WalkHomes
  <2> QED
    BY <2>1 DEF FoundIn
<1>8. GrownBodies(bs, cs, s.cur, es)
  BY BodiesGrown
<1>9. \A b \in 1 .. Len(bs) : cs[b].body # <<>> => C[b] = A[b]
  BY <1>1, ArmsGrown
<1>10. A[s.cur] = q0
  BY <1>1, OpenArms
<1>11. \A b \in 1 .. Len(bs) : bs[b].body # <<>> => cs[b].body # <<>>
  <2> SUFFICES ASSUME NEW b \in 1 .. Len(bs), bs[b].body # <<>> PROVE cs[b].body # <<>>
    OBVIOUS
  <2>1. bs[b].body \in Seq(E) /\ bs \in Seq(BlockOf(E))
    <3>1. bs \in Seq(BlockOf(E))
      BY ArmBlockFacts
    <3> QED
      BY <3>1, FieldTypes
  <2>2. 1 \in 1 .. Len(bs[b].body)
    BY <2>1
  <2>3. 1 \in 1 .. Len(cs[b].body)
    BY <1>8, <2>2 DEF GrownBodies
  <2>4. cs[b].body = <<>> => Len(cs[b].body) = 0
    OBVIOUS
  <2> QED
    BY <2>3, <2>4
<1> HIDE DEF bs, cs, m, g, p, r, q, A, C
<1>12. ASSUME NEW k \in 1 .. Len(p) PROVE C[g[p[k].id]] = A[h[p[k].id]]
  <2>1. p[k].id \in 1 .. n
    BY <1>2 DEF SharedAt, SharedIds
  <2>2. g[p[k].id] = h[p[k].id] /\ h[p[k].id] \in 1 .. Len(bs) /\ bs[h[p[k].id]].body # <<>>
    BY <1>6, <1>7, <2>1
  <2> QED
    BY <1>9, <1>11, <2>2
<1>13. ASSUME NEW k \in 1 .. Len(r) PROVE C[g[r[k].id]] = q0
  <2>1. PICK i \in 1 .. m : r[k] = es[i]
    BY <1>5
  <2>2. es[i].id = n + i
    BY DEF m
  <2>3. g[r[k].id] = s.cur
    BY <1>6, <2>1, <2>2
  <2>4. s.cur \in 1 .. Len(cs) /\ Len(bs[s.cur].body) + i \in 1 .. Len(cs[s.cur].body)
    BY <1>8 DEF GrownBodies, m
  <2>5. cs[s.cur].body # <<>>
    <3>1. cs[s.cur].body = <<>> => Len(cs[s.cur].body) = 0
      OBVIOUS
    <3>2. Len(cs[s.cur].body) # 0
      BY <2>4
    <3> QED
      BY <3>1, <3>2
  <2> QED
    BY <1>1, <1>9, <1>10, <2>3, <2>5
<1>14. /\ Len(p) \in Nat /\ Len(r) \in Nat /\ Len(q) = Len(p) + Len(r)
       /\ \A k \in 1 .. Len(p) : q[k] = p[k]
       /\ \A k \in 1 .. Len(r) : q[Len(p) + k] = r[k]
  BY <1>2, <1>4, <1>5
<1> DEFINE sa == SharedArms(s)
           ta == SharedArms(t)
<1>15. /\ sa = [k \in 1 .. Len(p) |-> A[h[p[k].id]]]
       /\ ta = [k \in 1 .. Len(q) |-> C[g[q[k].id]]]
  BY <1>2, <1>3 DEF SharedAt, A, C
<1> HIDE DEF sa, ta
<1>16. ta = sa \o added
  <2> DEFINE l == Len(p)
             d == Len(r)
             V == { sa[k] : k \in 1 .. l } \union {q0}
  <2>1. sa \in Seq(V) /\ Len(sa) = l /\ added \in Seq(V) /\ Len(added) = d
        /\ \A i \in 1 .. d : added[i] = q0
    <3>1. \A k \in 1 .. l : sa[k] \in V
      OBVIOUS
    <3>2. q0 \in V
      OBVIOUS
    <3>3. sa = [k \in 1 .. l |-> sa[k]] /\ l \in Nat /\ d \in Nat
      BY <1>14, <1>15
    <3> HIDE DEF V, l, d
    <3>4. sa \in Seq(V) /\ Len(sa) = l
      BY <3>1, <3>3
    <3>5. added = [i \in 1 .. d |-> q0]
      BY DEF d
    <3> HIDE DEF added
    <3>6. added \in Seq(V)
      <4>1. d \in Nat
        BY <3>3
      <4>2. [i \in 1 .. d |-> q0] \in Seq(V)
        BY <3>2, <4>1
      <4> QED
        BY <3>5, <4>2
    <3>7. Len(added) = d
      BY <3>3, <3>5
    <3>8. \A i \in 1 .. d : added[i] = q0
      BY <3>5
    <3> QED
      BY <3>4, <3>6, <3>7, <3>8
  <2> DEFINE x == sa \o added
  <2>2. l \in Nat /\ d \in Nat
    BY <1>14
  <2> HIDE DEF V, l, d, added
  <2>3. Len(x) = l + d /\ x \in Seq(V) /\ (\A k \in 1 .. l : x[k] = sa[k]) /\ \A k \in 1 .. d : x[l + k] = added[k]
    <3>1. Len(x) = Len(sa) + Len(added) /\ x \in Seq(V)
          /\ (\A k \in 1 .. Len(sa) : x[k] = sa[k]) /\ \A k \in 1 .. Len(added) : x[Len(sa) + k] = added[k]
      <4>1. sa \in Seq(V) /\ added \in Seq(V)
        BY <2>1
      <4> QED
        BY <4>1, ConcatAt
    <3> HIDE DEF x
    <3> QED
      BY <2>1, <3>1
  <2> HIDE DEF x
  <2>4. \A k \in 1 .. l + d : k \in 1 .. l \/ (k - l \in 1 .. d /\ l + (k - l) = k)
    BY <2>2
  <2>5. ASSUME NEW k \in 1 .. l + d PROVE ta[k] = x[k]
    <3>1. k \in 1 .. Len(q)
      BY <1>14 DEF l, d
    <3>2. ta[k] = C[g[q[k].id]]
      BY <1>15, <3>1
    <3>3. CASE k \in 1 .. l
      <4>1. q[k] = p[k] /\ C[g[p[k].id]] = A[h[p[k].id]] /\ sa[k] = A[h[p[k].id]]
        BY <1>12, <1>14, <1>15, <3>3 DEF l
      <4> QED
        BY <2>3, <3>2, <3>3, <4>1
    <3>4. CASE k - l \in 1 .. d /\ l + (k - l) = k
      <4> DEFINE j == k - l
      <4>1. j \in 1 .. d /\ l + j = k
        BY <3>4
      <4> HIDE DEF j
      <4>2. q[l + j] = r[j] /\ C[g[r[j].id]] = q0
        BY <1>13, <1>14, <4>1 DEF l, d
      <4>3. x[l + j] = added[j] /\ added[j] = q0
        BY <2>1, <2>3, <4>1
      <4> QED
        BY <3>2, <4>1, <4>2, <4>3
    <3> QED
      BY <2>4, <3>3, <3>4
  <2>6. ta = [k \in 1 .. l + d |-> ta[k]]
    BY <1>14, <1>15 DEF l, d
  <2>7. x = [k \in 1 .. l + d |-> x[k]]
    BY <2>3
  <2>8. ta = x
    BY <2>5, <2>6, <2>7
  <2> QED
    BY <2>8 DEF x
<1> QED
  BY <1>16 DEF sa, ta, r, ArmsAdded

-----------------------------------------------------------------------------
(* Each operation of Slice records events in the current block, or none.   *)
LEMMA WrittenGrown ==
  ASSUME NEW E, NEW s \in SliceOf(E), SliceInv(s), NEW t \in SliceOf(E), SliceInv(t),
         NEW es \in Seq(E), Written(s.blocks, t.blocks, s.cur, es)
  PROVE  Grown(s, t, es)
<1> DEFINE N == Len(s.blocks)
<1>1. N \in Nat
  BY ArmBlockFacts
<1>2. /\ Len(t.blocks) = N
      /\ \A b \in 1 .. N : /\ t.blocks[b].outer = s.blocks[b].outer
                           /\ t.blocks[b].cond = s.blocks[b].cond
                           /\ t.blocks[b].els = s.blocks[b].els
                           /\ b # s.cur => t.blocks[b].body = s.blocks[b].body
      /\ t.blocks[s.cur].body = s.blocks[s.cur].body \o es
  BY DEF Written, Kept
<1>3. SameElse(s.blocks, t.blocks, N)
  BY <1>2 DEF SameElse
<1> HIDE DEF N
<1>4. /\ N <= Len(t.blocks)
      /\ \A b \in 1 .. N : IsConditional(t.blocks[b]) <=> IsConditional(s.blocks[b])
      /\ \A b \in 1 .. Len(t.blocks) : b \in 1 .. N
  BY <1>1, <1>2 DEF IsConditional
<1> QED
  BY <1>2, <1>3, <1>4 DEF Grown, N

(* Slice::begin_then records the events es.                                *)
LEMMA ThenGrown ==
  ASSUME NEW E, NEW s \in SliceOf(E), SliceInv(s), NEW t \in SliceOf(E),
         NEW lit \in Literal, NEW es \in Seq(E), ThenOpened(s, t, lit, es)
  PROVE  Grown(s, t, es)
<1> DEFINE N == Len(s.blocks)
           M == Len(t.blocks)
<1>1. N \in Nat /\ s.cur \in 2 .. N
  BY ArmBlockFacts
<1>2. /\ SliceInv(t)
      /\ \A b \in 1 .. N : /\ t.blocks[b].outer = s.blocks[b].outer
                           /\ t.blocks[b].els = s.blocks[b].els
                           /\ b # t.cur => t.blocks[b].cond = s.blocks[b].cond
                           /\ b # s.cur => t.blocks[b].body = s.blocks[b].body
      /\ t.blocks[s.cur].body = s.blocks[s.cur].body \o es
      /\ \/ M = N + 1 /\ t.cur = N + 1 /\ t.blocks[t.cur].body = <<>>
         \/ /\ M = N /\ t.cur = s.cur
            /\ ~IsConditional(s.blocks[s.cur]) /\ t.blocks[t.cur].body = <<>>
  BY DEF ThenOpened, Current
<1>3. t.blocks[t.cur].els = Null
  BY <1>2 DEF SliceInv, Current
<1> HIDE DEF N, M
<1>4. N <= M
  BY <1>1, <1>2
<1>5. \A b \in 1 .. M : b \in 1 .. N \/ (b = t.cur /\ b = N + 1)
  BY <1>1, <1>2
<1>6. SameElse(s.blocks, t.blocks, N)
  <2> SUFFICES ASSUME NEW b \in 1 .. N, NEW x \in 1 .. M
               PROVE  t.blocks[x].els = b <=> x \in 1 .. N /\ s.blocks[x].els = b
    BY DEF SameElse, M
  <2>1. CASE x \in 1 .. N
    BY <1>2, <2>1
  <2>2. CASE x = t.cur /\ x = N + 1
    <3>1. t.blocks[x].els = 0 /\ b # 0 /\ x \notin 1 .. N
      BY <1>1, <1>3, <2>2 DEF Null
    <3> QED
      BY <3>1
  <2> QED
    BY <1>5, <2>1, <2>2
<1>7. ASSUME NEW b \in 1 .. N
      PROVE  /\ IsConditional(s.blocks[b]) => IsConditional(t.blocks[b])
             /\ IsConditional(t.blocks[b]) => IsConditional(s.blocks[b]) \/ t.blocks[b].body = <<>>
  <2>1. CASE b # t.cur
    BY <1>2, <2>1 DEF IsConditional
  <2>2. CASE b = t.cur
    <3>1. b # N + 1
      BY <1>1
    <3>2. t.cur = s.cur /\ ~IsConditional(s.blocks[s.cur]) /\ t.blocks[t.cur].body = <<>>
      BY <1>2, <2>2, <3>1
    <3> QED
      BY <2>2, <3>2
  <2> QED
    BY <2>1, <2>2
<1>8. \A b \in 1 .. M : b \in 1 .. N \/ t.blocks[b].body = <<>>
  <2> SUFFICES ASSUME NEW b \in 1 .. M, b \notin 1 .. N PROVE t.blocks[b].body = <<>>
    OBVIOUS
  <2>1. b = t.cur
    BY <1>5
  <2> QED
    BY <1>2, <2>1
<1> QED
  BY <1>2, <1>4, <1>6, <1>7, <1>8 DEF Grown, N, M

(* begin_else and end_branch add one block and record nothing.             *)
LEMMA AddedGrown ==
  ASSUME NEW E, NEW s \in SliceOf(E), SliceInv(s), NEW t \in SliceOf(E), SliceInv(t),
         t.cur = Len(s.blocks) + 1, Len(t.blocks) = Len(s.blocks) + 1,
         \A b \in 1 .. Len(s.blocks) : /\ t.blocks[b].outer = s.blocks[b].outer
                                       /\ t.blocks[b].cond = s.blocks[b].cond
                                       /\ t.blocks[b].body = s.blocks[b].body,
         \A b \in 1 .. Len(s.blocks) : \/ t.blocks[b].els = s.blocks[b].els
                                       \/ s.blocks[b].els = Null /\ t.blocks[b].els = t.cur,
         t.blocks[t.cur].body = <<>>
  PROVE  Grown(s, t, <<>>)
<1> DEFINE N == Len(s.blocks)
           M == Len(t.blocks)
<1>1. N \in Nat /\ s.cur \in 2 .. N /\ M = N + 1 /\ s.blocks \in Seq(BlockOf(E))
  BY ArmBlockFacts
<1>2. t.blocks[s.cur].body = s.blocks[s.cur].body \o <<>>
  <2>1. s.cur \in 1 .. N
    BY <1>1
  <2>2. s.blocks[s.cur].body \in Seq(E)
    BY <1>1, <2>1, FieldTypes
  <2>3. t.blocks[s.cur].body = s.blocks[s.cur].body
    BY <2>1
  <2> QED
    BY <2>2, <2>3
<1>3. t.blocks[t.cur].els = Null
  BY DEF SliceInv, Current
<1>4. \A b \in 1 .. M : b \in 1 .. N \/ (b = t.cur /\ b = N + 1)
  <2>1. t.cur = N + 1
    OBVIOUS
  <2> HIDE DEF N, M
  <2> QED
    BY <1>1, <2>1
<1>5. SameElse(s.blocks, t.blocks, N)
  <2> SUFFICES ASSUME NEW b \in 1 .. N, NEW x \in 1 .. M
               PROVE  t.blocks[x].els = b <=> x \in 1 .. N /\ s.blocks[x].els = b
    BY DEF SameElse
  <2>0. b # 0 /\ b # N + 1 /\ Null = 0 /\ t.cur = N + 1
    BY <1>1 DEF Null
  <2>1. CASE x \in 1 .. N
    BY <2>0, <2>1
  <2>2. CASE x = t.cur /\ x = N + 1
    <3>1. t.blocks[x].els = 0 /\ x \notin 1 .. N
      BY <1>1, <1>3, <2>0, <2>2
    <3> QED
      BY <2>0, <3>1
  <2> QED
    BY <1>4, <2>1, <2>2
<1>6. N <= M
  BY <1>1
<1>7. \A b \in 1 .. N : IsConditional(t.blocks[b]) <=> IsConditional(s.blocks[b])
  BY DEF IsConditional
<1>8. \A b \in 1 .. M : b \in 1 .. N \/ t.blocks[b].body = <<>>
  BY <1>4
<1> QED
  BY <1>2, <1>5, <1>6, <1>7, <1>8 DEF Grown

(* Slice::begin_else records no event.                                     *)
LEMMA ElseGrown ==
  ASSUME NEW E, NEW s \in SliceOf(E), SliceInv(s), NEW t \in SliceOf(E), ElseOpened(s, t),
         ArmBlock(s) \in 2 .. Len(s.blocks), s.blocks[ArmBlock(s)].els = Null
  PROVE  Grown(s, t, <<>>)
<1>1. /\ SliceInv(t) /\ t.cur = Len(s.blocks) + 1 /\ Len(t.blocks) = Len(s.blocks) + 1
      /\ \A b \in 1 .. Len(s.blocks) : /\ t.blocks[b].outer = s.blocks[b].outer
                                       /\ t.blocks[b].cond = s.blocks[b].cond
                                       /\ t.blocks[b].body = s.blocks[b].body
      /\ t.blocks[t.cur].body = <<>>
      /\ \A b \in 1 .. Len(s.blocks) : \/ t.blocks[b].els = s.blocks[b].els
                                       \/ s.blocks[b].els = Null /\ t.blocks[b].els = t.cur
  BY DEF ElseOpened, Current
<1> QED
  BY <1>1, AddedGrown

(* Slice::end_branch records no event.                                     *)
LEMMA EndGrown ==
  ASSUME NEW E, NEW s \in SliceOf(E), SliceInv(s), NEW t \in SliceOf(E), BranchEnded(s, t)
  PROVE  Grown(s, t, <<>>)
<1>1. /\ SliceInv(t) /\ t.cur = Len(s.blocks) + 1 /\ Len(t.blocks) = Len(s.blocks) + 1
      /\ \A b \in 1 .. Len(s.blocks) : /\ t.blocks[b].outer = s.blocks[b].outer
                                       /\ t.blocks[b].cond = s.blocks[b].cond
                                       /\ t.blocks[b].body = s.blocks[b].body
      /\ t.blocks[t.cur].body = <<>>
      /\ \A b \in 1 .. Len(s.blocks) : \/ t.blocks[b].els = s.blocks[b].els
                                       \/ s.blocks[b].els = Null /\ t.blocks[b].els = t.cur
  BY DEF BranchEnded, Current
<1> QED
  BY <1>1, AddedGrown

-----------------------------------------------------------------------------
(* The order that the arms of more events add to.                          *)
LEMMA BeforeGrown ==
  ASSUME NEW S, NEW qs \in Seq(S), NEW more \in Seq(S)
  PROVE  BeforeOf(qs \o more) =
           BeforeOf(qs) \union
             { c \in (DOMAIN (qs \o more)) \X (Len(qs) + 1 .. Len(qs \o more)) :
                 c[1] < c[2] /\ ~Program!Exclusive((qs \o more)[c[1]], (qs \o more)[c[2]]) }
<1> DEFINE all == qs \o more
           l == Len(qs)
           n == Len(all)
           X == { c \in (DOMAIN all) \X (l + 1 .. n) : c[1] < c[2] /\ ~Program!Exclusive(all[c[1]], all[c[2]]) }
<1>1. /\ all \in Seq(S) /\ l \in Nat /\ Len(more) \in Nat /\ n = l + Len(more)
      /\ \A k \in 1 .. l : all[k] = qs[k]
      /\ DOMAIN qs = 1 .. l /\ DOMAIN all = 1 .. n
  <2>1. /\ all \in Seq(S) /\ l \in Nat /\ Len(more) \in Nat /\ n = l + Len(more)
        /\ \A k \in 1 .. l : all[k] = qs[k]
    BY ConcatAt
  <2> HIDE DEF all
  <2>2. DOMAIN qs = 1 .. l /\ DOMAIN all = 1 .. n
    <3>1. all \in Seq(S)
      BY <2>1
    <3> QED
      BY <3>1, SeqDomain
  <2> QED
    BY <2>1, <2>2
<1> HIDE DEF all, l, n
<1>2. n \in Nat /\ l <= n
  BY <1>1
<1>3. BeforeOf(all) = { c \in (1 .. n) \X (1 .. n) : c[1] < c[2] /\ ~Program!Exclusive(all[c[1]], all[c[2]]) }
  BY <1>1 DEF BeforeOf
<1>4. BeforeOf(qs) = { c \in (1 .. l) \X (1 .. l) : c[1] < c[2] /\ ~Program!Exclusive(qs[c[1]], qs[c[2]]) }
  BY <1>1 DEF BeforeOf
<1>5. ASSUME NEW i \in 1 .. n, NEW j \in 1 .. n
      PROVE  <<i, j>> \in BeforeOf(all) <=> <<i, j>> \in BeforeOf(qs) \/ <<i, j>> \in X
  <2>1. CASE j \in 1 .. l
    <3>1. j \notin l + 1 .. n
      BY <1>1, <2>1
    <3>2. <<i, j>> \notin X
      BY <3>1
    <3>3. i < j => i \in 1 .. l
      BY <1>1, <2>1
    <3>4. i < j => all[i] = qs[i] /\ all[j] = qs[j]
      BY <1>1, <2>1, <3>3
    <3> HIDE DEF X
    <3> QED
      BY <1>3, <1>4, <2>1, <3>2, <3>3, <3>4
  <2>2. CASE j \in l + 1 .. n
    <3>1. j \notin 1 .. l
      BY <1>1, <2>2
    <3>2. <<i, j>> \notin BeforeOf(qs)
      BY <1>4, <3>1
    <3> QED
      BY <1>1, <1>3, <2>2, <3>2
  <2>3. j \in 1 .. l \/ j \in l + 1 .. n
    BY <1>1, <1>2
  <2> QED
    BY <2>1, <2>2, <2>3
<1>6. /\ BeforeOf(all) \subseteq (1 .. n) \X (1 .. n)
      /\ BeforeOf(qs) \subseteq (1 .. n) \X (1 .. n)
      /\ X \subseteq (1 .. n) \X (1 .. n)
  <2>1. 1 .. l \subseteq 1 .. n /\ l + 1 .. n \subseteq 1 .. n
    BY <1>1, <1>2
  <2> QED
    BY <1>1, <1>3, <1>4, <2>1
<1> HIDE DEF X
<1>7. BeforeOf(all) = BeforeOf(qs) \union X
  <2> DEFINE A == BeforeOf(all)
             B == BeforeOf(qs)
             D == 1 .. n
  <2>1. A \subseteq D \X D /\ B \subseteq D \X D /\ X \subseteq D \X D
    BY <1>6
  <2>2. \A i \in D, j \in D : <<i, j>> \in A <=> <<i, j>> \in B \/ <<i, j>> \in X
    BY <1>5
  <2> HIDE DEF A, B, D
  <2>3. \A c : c \in A <=> c \in B \union X
    <3> SUFFICES ASSUME NEW c PROVE c \in A <=> c \in B \union X
      OBVIOUS
    <3>1. CASE c \in D \X D
      <4>1. PICK i \in D, j \in D : c = <<i, j>>
        BY <3>1
      <4> QED
        BY <2>2, <4>1
    <3>2. CASE c \notin D \X D
      BY <2>1, <3>2
    <3> QED
      BY <3>1, <3>2
  <2>4. A = B \union X
    BY <2>3
  <2> QED
    BY <2>4 DEF A, B
<1> QED
  BY <1>7 DEF X, all, l, n

-----------------------------------------------------------------------------
(* What ProgramOrder records, in the state of the slice: r more shared     *)
(* events, all under the open branches q.                                  *)
Records(s, t, q, r) ==
  LET all == SharedArms(s) \o [i \in 1 .. r |-> q]
  IN  /\ SharedArms(t) = all
      /\ SharedBefore(t) = SharedBefore(s) \union
           { c \in (DOMAIN all) \X (Len(SharedArms(s)) + 1 .. Len(all)) :
               c[1] < c[2] /\ ~Program!Exclusive(all[c[1]], all[c[2]]) }

(* A slice that has grown by the events es has recorded the shared ones of *)
(* them as the program order has it.                                       *)
LEMMA GrownRecords ==
  ASSUME NEW E, \A e \in E : e.id \in Nat,
         NEW s \in SliceOf(E), SliceInv(s), NEW t \in SliceOf(E), SliceInv(t),
         NEW n \in Nat, NEW es \in Seq(E), \A i \in 1 .. Len(es) : es[i].id = n + i,
         Grown(s, t, es), InOrder(s.blocks, n), InOrder(t.blocks, n + Len(es)),
         NEW h, Homes(s.blocks, h, n), NEW q \in ArmSeq, OnArms(s, q)
  PROVE  /\ \E g : Homes(t.blocks, g, n + Len(es))
         /\ Records(s, t, q, Len(Picked(es)))
<1> DEFINE m == Len(es)
           g == HomesThen(h, n, m, s.cur)
           r == Len(Picked(es))
<1>1. PICK lo, hi : Numbered(s.blocks, lo, hi, n)
  BY DEF InOrder
<1>2. PICK lp, hp : Numbered(t.blocks, lp, hp, n + m)
  BY DEF InOrder
<1>3. Homes(t.blocks, g, n + m)
  BY HomesGrown
<1>4. Placed(s.blocks, lo, hi, h, n)
  BY <1>1 DEF Placed, InOrder
<1>5. Placed(t.blocks, lp, hp, g, n + m)
  <2> HIDE DEF g
  <2> QED
    BY <1>2, <1>3 DEF Placed, InOrder
<1>6. SharedArms(t) = SharedArms(s) \o [i \in 1 .. r |-> q]
  <2>1. Placed(t.blocks, lp, hp, HomesThen(h, n, Len(es), s.cur), n + Len(es))
    BY <1>5
  <2>2. ArmsAdded(s, t, q, Len(Picked(es)))
    BY <1>4, <2>1, SharedGrown
  <2> QED
    BY <2>2 DEF ArmsAdded
<1>7. SharedBefore(s) = BeforeOf(SharedArms(s))
  BY <1>4, BeforeFacts
<1>8. SharedBefore(t) = BeforeOf(SharedArms(t))
  <2> DEFINE k == n + m
  <2>1. k \in Nat
    OBVIOUS
  <2>2. Placed(t.blocks, lp, hp, g, k)
    BY <1>5
  <2> HIDE DEF k, g
  <2> QED
    BY <2>1, <2>2, BeforeFacts
<1>9. r \in Nat
  <2>1. Picked(es) \in Seq(E)
    BY PickedInSeq
  <2> QED
    BY <2>1
<1> DEFINE sa == SharedArms(s)
           more == [i \in 1 .. r |-> q]
           l == Len(SharedEvents(s))
           S == { sa[k] : k \in 1 .. l } \union {q}
<1>10. sa \in Seq(S)
  <2>1. SharedEvents(s) \in Seq(E) /\ SharedAt(s, lo, h, n, SharedEvents(s))
    BY <1>4, SharedFacts
  <2>2. l \in Nat
    BY <2>1
  <2>3. sa = [k \in 1 .. l |-> ArmsOf(s)[h[SharedEvents(s)[k].id]]]
    BY <2>1 DEF SharedAt
  <2>4. \A k \in 1 .. l : sa[k] \in S
    OBVIOUS
  <2> HIDE DEF sa, l, S
  <2>5. sa = [k \in 1 .. l |-> sa[k]]
    BY <2>3
  <2> QED
    BY <2>2, <2>4, <2>5
<1>11. more \in Seq(S)
  <2>1. q \in S
    OBVIOUS
  <2> HIDE DEF S, r
  <2> QED
    BY <1>9, <2>1
<1> HIDE DEF sa, more, S, r
<1>12. BeforeOf(sa \o more) =
         BeforeOf(sa) \union
           { c \in (DOMAIN (sa \o more)) \X (Len(sa) + 1 .. Len(sa \o more)) :
               c[1] < c[2] /\ ~Program!Exclusive((sa \o more)[c[1]], (sa \o more)[c[2]]) }
  BY <1>10, <1>11, BeforeGrown
<1>13. Records(s, t, q, r)
  BY <1>6, <1>7, <1>8, <1>12 DEF Records, sa, more
<1> QED
  BY <1>3, <1>13 DEF r

-----------------------------------------------------------------------------
(* arms and before are what the graph says, and the graph is a recording.  *)
Recorded ==
  /\ InOrder(slice.blocks, events)
  /\ \E h : Homes(slice.blocks, h, events)
  /\ arms = SharedArms(slice)
  /\ before = SharedBefore(slice)

(* A step of the thread that records the events es is a step that records  *)
(* the shared ones of them in program order.                               *)
LEMMA StepRecords ==
  ASSUME IInv, Recorded, NEW es \in Seq(EventType), \A i \in 1 .. Len(es) : es[i].id = events + i,
         slice' \in SliceOf(EventType), SliceInv(slice'), Grown(slice, slice', es),
         events' = events + Len(es), InOrder(slice'.blocks, events'),
         arms' = SharedArms(slice'), before' = SharedBefore(slice')
  PROVE  Recorded' /\ Program!Recording(Len(Picked(es)))
<1>1. /\ slice \in SliceOf(EventType) /\ SliceInv(slice) /\ events \in Nat
      /\ open \in ArmSeq /\ OnArms(slice, open)
  BY DEF IInv
<1>2. \A e \in EventType : e.id \in Nat
  BY DEF EventType
<1>3. PICK h : Homes(slice.blocks, h, events)
  BY DEF Recorded
<1>4. InOrder(slice.blocks, events) /\ InOrder(slice'.blocks, events + Len(es))
  BY DEF Recorded
<1> DEFINE E == EventType
           s == slice
           t == slice'
           n == events
           q == open
<1>5. /\ \A e \in E : e.id \in Nat
      /\ s \in SliceOf(E) /\ SliceInv(s) /\ t \in SliceOf(E) /\ SliceInv(t)
      /\ n \in Nat /\ es \in Seq(E) /\ (\A i \in 1 .. Len(es) : es[i].id = n + i)
      /\ Grown(s, t, es) /\ InOrder(s.blocks, n) /\ InOrder(t.blocks, n + Len(es))
      /\ Homes(s.blocks, h, n) /\ q \in ArmSeq /\ OnArms(s, q)
  BY <1>1, <1>2, <1>3, <1>4
<1>6. /\ \E g : Homes(t.blocks, g, n + Len(es))
      /\ Records(s, t, q, Len(Picked(es)))
  <2> HIDE DEF E, s, t, n, q
  <2> QED
    BY <1>5, GrownRecords
<1>7. Recorded'
  BY <1>6 DEF Recorded
<1>8. Program!Recording(Len(Picked(es)))
  BY <1>6 DEF Records, Recorded, Program!Recording
<1> QED
  BY <1>7, <1>8

(* To record nothing changes nothing.                                      *)
LEMMA NothingRecorded ==
  ASSUME IInv, Recorded, Program!Recording(0)
  PROVE  UNCHANGED <<arms, before>>
<1> DEFINE all == arms \o [i \in 1 .. 0 |-> open]
<1>1. /\ arms' = all
      /\ before' = before \union
           { c \in (DOMAIN all) \X (Len(arms) + 1 .. Len(all)) :
               c[1] < c[2] /\ ~Program!Exclusive(all[c[1]], all[c[2]]) }
  BY DEF Program!Recording
<1>2. PICK S : arms \in Seq(S)
  <2> DEFINE p == SharedEvents(slice)
             f == SharedArms(slice)
             l == Len(p)
             V == { f[k] : k \in 1 .. l }
  <2>1. PICK h, lo, hi : Placed(slice.blocks, lo, hi, h, events)
    BY DEF Recorded, InOrder, Placed
  <2>2. p \in Seq(EventType) /\ SharedAt(slice, lo, h, events, p)
    BY <2>1, SharedFacts DEF IInv
  <2>3. f = [k \in 1 .. l |-> ArmsOf(slice)[h[p[k].id]]] /\ l \in Nat
    BY <2>2 DEF SharedAt
  <2>4. \A k \in 1 .. l : f[k] \in V
    OBVIOUS
  <2> HIDE DEF f, l, V
  <2>5. f \in Seq(V)
    <3>1. f = [k \in 1 .. l |-> f[k]]
      BY <2>3
    <3> QED
      BY <2>3, <2>4, <3>1
  <2> QED
    BY <2>5 DEF Recorded, f
<1>3. [i \in 1 .. 0 |-> open] = <<>>
  OBVIOUS
<1>4. all = arms
  <2>1. arms \o <<>> = arms
    BY <1>2
  <2> QED
    BY <1>3, <2>1
<1> HIDE DEF all
<1>5. Len(arms) + 1 .. Len(arms) = {}
  <2>1. Len(arms) \in Nat
    BY <1>2
  <2> QED
    BY <2>1
<1>6. before' = before
  <2>1. { c \in (DOMAIN all) \X (Len(arms) + 1 .. Len(all)) :
               c[1] < c[2] /\ ~Program!Exclusive(all[c[1]], all[c[2]]) } = {}
    BY <1>4, <1>5
  <2> QED
    BY <1>1, <2>1
<1> QED
  BY <1>1, <1>4, <1>6

-----------------------------------------------------------------------------
(* The shared ones of the events that an instruction makes.                *)
LEMMA InstrPicked ==
  ASSUME IInv, NEW n \in 0 .. MaxReads, NEW shared \in BOOLEAN
  PROVE  /\ InstrEvents(n, shared) \in Seq(EventType) /\ Len(InstrEvents(n, shared)) = n + 1
         /\ \A i \in 1 .. Len(InstrEvents(n, shared)) : InstrEvents(n, shared)[i].id = events + i
         /\ Len(Picked(InstrEvents(n, shared))) \in 0 .. MaxReads + 1
         /\ Reads(n) \in Seq(EventType) /\ Len(Reads(n)) = n
         /\ \A i \in 1 .. Len(Reads(n)) : Reads(n)[i].id = events + i
         /\ Picked(Reads(n)) = Reads(n)
<1> DEFINE e == Event(events + n + 1, shared)
           q == Reads(n)
           es == InstrEvents(n, shared)
<1>1. n \in Nat /\ events \in Nat /\ events + n + 1 \in Nat /\ MaxReads \in Nat
  BY BoundAssumption DEF IInv
<1>2. /\ q \in Seq(EventType) /\ Len(q) = n /\ \A i \in 1 .. Len(q) : q[i].id = events + i
  BY <1>1, ReadsFacts
<1>3. e \in EventType /\ e.id = events + n + 1
  <2>1. e \in EventType
    BY <1>1, EventFacts
  <2> QED
    BY <2>1 DEF Event
<1>4. \A i \in 1 .. Len(q) : IsShared(q[i])
  <2>1. \A i \in 1 .. n : q[i] = Event(events + i, TRUE)
    BY DEF Reads
  <2>2. ASSUME NEW i \in 1 .. n PROVE IsShared(q[i])
    <3>1. q[i] = Event(events + i, TRUE)
      BY <2>1
    <3>2. Event(events + i, TRUE).shared = TRUE
      BY Zenon DEF Event
    <3>3. q[i].shared = TRUE
      BY <3>1, <3>2, Zenon
    <3> QED
      BY <3>3, Zenon DEF IsShared
  <2> HIDE DEF q
  <2>3. 1 .. Len(q) = 1 .. n
    BY <1>2
  <2> QED
    BY <2>2, <2>3, Zenon
<1>5. es = q \o <<e>>
  BY DEF InstrEvents
<1> HIDE DEF e, q, es
<1>61. q \in Seq(EventType) /\ Len(q) = n /\ DOMAIN q = 1 .. n
  <2>1. q \in Seq(EventType) /\ Len(q) = n
    BY <1>2
  <2> QED
    BY <2>1, SeqDomain
<1>62. e \in EventType
  BY <1>3
<1> HIDE DEF EventType
<1>63. q \o <<e>> = Append(q, e)
  <2> DEFINE T == EventType
  <2>1. q \in Seq(T) /\ e \in T
    BY <1>61, <1>62
  <2> HIDE DEF T
  <2> QED
    BY <2>1
<1>64. /\ Append(q, e) \in Seq(EventType) /\ Len(Append(q, e)) = Len(q) + 1
       /\ Append(q, e)[Len(q) + 1] = e /\ \A i \in DOMAIN q : Append(q, e)[i] = q[i]
  BY <1>61, <1>62, AppendFacts
<1>6. es = Append(q, e) /\ es \in Seq(EventType) /\ Len(es) = n + 1
      /\ es[n + 1] = e /\ \A i \in 1 .. n : es[i] = q[i]
  BY <1>5, <1>61, <1>63, <1>64, Zenon
<1>7. \A i \in 1 .. n + 1 : es[i].id = events + i
  <2>1. \A i \in 1 .. n + 1 : i = n + 1 \/ i \in 1 .. n
    BY <1>1
  <2>2. e.id = events + (n + 1)
    BY <1>1, <1>3
  <2> SUFFICES ASSUME NEW i \in 1 .. n + 1 PROVE es[i].id = events + i
    OBVIOUS
  <2>3. CASE i = n + 1
    BY <1>6, <2>2, <2>3
  <2>4. CASE i \in 1 .. n
    BY <1>2, <1>6, <2>4
  <2> QED
    BY <2>1, <2>3, <2>4
<1>8. Picked(q) = q
  BY <1>2, <1>4, PickedAll
<1>9. Picked(es) = IF IsShared(e) THEN q \o <<e>> ELSE q \o <<>>
  BY <1>2, <1>3, <1>6, <1>8, PickedAppend
<1>10. Len(q \o <<e>>) = n + 1 /\ Len(q \o <<>>) = n
  BY <1>1, <1>2, <1>3
<1>11. Len(Picked(es)) = n + 1 \/ Len(Picked(es)) = n
  BY <1>9, <1>10
<1>12. Len(Picked(es)) \in 0 .. MaxReads + 1
  BY <1>1, <1>11
<1> QED
  BY <1>2, <1>6, <1>7, <1>8, <1>12 DEF q, es

(* No arm is that of the branch whose block begin_then makes or takes.     *)
LEMMA FreshBranch ==
  ASSUME IInv, Recorded, NEW lit, NEW es, ThenOpened(slice, slice', lit, es)
  PROVE  Program!Fresh(slice'.cur)
<1> DEFINE bs == slice.blocks
           N == Len(bs)
           A == ArmsOf(slice)
           Old(q) == \A a \in Range(q) : a.branch \in 1 .. N /\ IsConditional(bs[a.branch])
<1>1. /\ slice \in SliceOf(EventType) /\ SliceInv(slice) /\ Apart(bs)
      /\ open \in ArmSeq /\ OnArms(slice, open)
  BY DEF IInv, Recorded, InOrder
<1>2. N \in Nat /\ slice.cur \in 2 .. N
  BY <1>1, ArmBlockFacts
<1>3. \A b \in 1 .. N : Old(A[b])
  BY <1>1, ArmBranches
<1>4. slice'.cur = N + 1 \/ (slice'.cur = slice.cur /\ ~IsConditional(bs[slice.cur]))
  BY DEF ThenOpened, Current
<1>5. open = A[slice.cur] /\ slice.cur \in 1 .. N
  BY <1>1, <1>2, OpenArms
<1> HIDE DEF Old, A
<1>6. Old(open)
  BY <1>3, <1>5
<1>7. ASSUME NEW q \in Range(arms) PROVE Old(q)
  <2> DEFINE p == SharedEvents(slice)
  <2>1. PICK h, lo, hi : Placed(bs, lo, hi, h, events)
    BY DEF Recorded, InOrder, Placed
  <2>2. p \in Seq(EventType) /\ SharedAt(slice, lo, h, events, p)
    BY <1>1, <2>1, SharedFacts DEF IInv
  <2> HIDE DEF p
  <2>3. arms = [k \in 1 .. Len(p) |-> A[h[p[k].id]]]
    BY <2>2 DEF SharedAt, Recorded, A, p
  <2>4. PICK k \in 1 .. Len(p) : q = A[h[p[k].id]]
    <3>1. PICK k \in DOMAIN arms : q = arms[k]
      BY DEF Range
    <3>2. k \in 1 .. Len(p)
      BY <2>3
    <3> QED
      BY <2>3, <3>1, <3>2
  <2>5. p[k].id \in 1 .. events
    BY <2>2 DEF SharedAt, SharedIds
  <2>6. h[p[k].id] \in 1 .. N
    BY <2>1, <2>5 DEF Placed, Homes
  <2> QED
    BY <1>3, <2>4, <2>6
<1>8. ASSUME NEW q, Old(q), NEW a \in Range(q) PROVE a.branch # slice'.cur
  <2>1. a.branch \in 1 .. N /\ IsConditional(bs[a.branch])
    BY <1>8 DEF Old
  <2>2. a.branch # N + 1
    BY <1>2, <2>1
  <2> QED
    BY <1>4, <2>1, <2>2
<1> QED
  BY <1>6, <1>7, <1>8 DEF Program!Fresh, Program!Range, Range

-----------------------------------------------------------------------------
(* Each operation of the thread is one of ProgramOrder, or leaves its      *)
(* variables alone.                                                        *)
LEMMA InstrRefines ==
  ASSUME IInv, Recorded, NEW n \in 0 .. MaxReads, NEW shared \in BOOLEAN, Instr(n, shared),
         InOrder(slice'.blocks, events'),
         arms' = SharedArms(slice'), before' = SharedBefore(slice')
  PROVE  Recorded' /\ [Program!Next]_<<open, arms, before>>
<1> DEFINE es == InstrEvents(n, shared)
           m == Len(Picked(es))
<1>1. /\ slice' \in SliceOf(EventType) /\ SliceInv(slice')
      /\ Written(slice.blocks, slice'.blocks, slice.cur, es)
      /\ open' = open
  BY InstrWrites
<1>2. /\ es \in Seq(EventType) /\ Len(es) = n + 1 /\ (\A i \in 1 .. Len(es) : es[i].id = events + i)
      /\ m \in 0 .. MaxReads + 1
  BY InstrPicked
<1> HIDE DEF es
<1>3. Grown(slice, slice', es)
  BY <1>1, <1>2, WrittenGrown DEF IInv
<1>4. events' = events + Len(es)
  <2>1. events' = events + n + 1 /\ n \in Nat /\ events \in Nat
    BY BoundAssumption DEF Instr, IInv
  <2> QED
    BY <1>2, <2>1
<1>5. Recorded' /\ Program!Recording(m)
  BY <1>1, <1>2, <1>3, <1>4, StepRecords
<1> HIDE DEF m
<1>6. CASE m = 0
  BY <1>1, <1>5, <1>6, NothingRecorded
<1>7. CASE m # 0
  <2>1. m \in 1 .. MaxReads + 1
    BY <1>2, <1>7, BoundAssumption
  <2>2. Program!Record(m)
    BY <1>1, <1>5 DEF Program!Record
  <2> QED
    BY <1>5, <2>1, <2>2 DEF Program!Next
<1> QED
  BY <1>6, <1>7

(* Thread::begin_then records the condition's reads and opens an arm.      *)
LEMMA ThenRefines ==
  ASSUME IInv, Recorded, NEW lit \in Literal, NEW n \in 0 .. MaxReads, ThreadBeginThen(lit, n),
         InOrder(slice'.blocks, events'),
         arms' = SharedArms(slice'), before' = SharedBefore(slice')
  PROVE  Recorded' /\ [Program!Next]_<<open, arms, before>>
<1> DEFINE es == Reads(n)
<1>1. IInv' /\ ThenOpened(slice, slice', lit, es)
  BY BeginThenIInv
<1>2. /\ es \in Seq(EventType) /\ Len(es) = n /\ (\A i \in 1 .. Len(es) : es[i].id = events + i)
      /\ Picked(es) = es
  BY InstrPicked, TRUE \in BOOLEAN
<1> HIDE DEF es
<1>3. slice' \in SliceOf(EventType) /\ SliceInv(slice')
  BY <1>1 DEF IInv
<1>4. Grown(slice, slice', es)
  BY <1>1, <1>2, <1>3, ThenGrown DEF IInv
<1>5. /\ events' = events + Len(es) /\ Len(slice.blocks) < MaxBlocks
      /\ open' = Append(open, [branch |-> slice'.cur, side |-> "then"])
  BY <1>2 DEF ThreadBeginThen
<1>6. Recorded' /\ Program!Recording(Len(Picked(es)))
  BY <1>2, <1>3, <1>4, <1>5, StepRecords
<1>7. Program!Fresh(slice'.cur)
  BY <1>1, FreshBranch
<1>8. Program!Then(slice'.cur, n)
  <2>1. Program!Recording(n)
    BY <1>2, <1>6
  <2> QED
    BY <1>5, <1>7, <2>1 DEF Program!Then
<1>9. slice'.cur \in 1 .. MaxBlocks
  <2>1. Len(slice.blocks) \in Nat /\ slice.cur \in 2 .. Len(slice.blocks)
    BY ArmBlockFacts DEF IInv
  <2>2. slice'.cur = Len(slice.blocks) + 1 \/ slice'.cur = slice.cur
    BY <1>1 DEF ThenOpened
  <2> QED
    BY <1>5, <2>1, <2>2, BoundAssumption
<1>10. n \in 0 .. MaxReads + 1
  BY BoundAssumption
<1> QED
  BY <1>6, <1>8, <1>9, <1>10 DEF Program!Next

(* A step that records no event leaves what is recorded in program order.  *)
LEMMA NoneRecorded ==
  ASSUME IInv, Recorded,
         slice' \in SliceOf(EventType), SliceInv(slice'), Grown(slice, slice', <<>>),
         events' = events, InOrder(slice'.blocks, events'),
         arms' = SharedArms(slice'), before' = SharedBefore(slice')
  PROVE  Recorded' /\ UNCHANGED <<arms, before>>
<1> DEFINE es == <<>>
<1>1. Picked(es) = <<>>
  BY PickedNone
<1>2. /\ es \in Seq(EventType) /\ Len(es) = 0 /\ \A i \in 1 .. Len(es) : es[i].id = events + i
  OBVIOUS
<1>3. Len(Picked(es)) = 0
  BY <1>1
<1>4. Grown(slice, slice', es)
  OBVIOUS
<1> HIDE DEF es
<1>5. events' = events + Len(es)
  BY <1>2 DEF IInv
<1>6. Recorded' /\ Program!Recording(Len(Picked(es)))
  BY <1>2, <1>4, <1>5, StepRecords
<1>7. Program!Recording(0)
  BY <1>3, <1>6
<1> QED
  BY <1>6, <1>7, NothingRecorded

(* Thread::begin_else moves to the other arm of the innermost branch.      *)
LEMMA ElseRefines ==
  ASSUME IInv, Recorded, ThreadBeginElse, InOrder(slice'.blocks, events'),
         arms' = SharedArms(slice'), before' = SharedBefore(slice')
  PROVE  Recorded' /\ [Program!Next]_<<open, arms, before>>
<1>1. IInv' /\ ElseOpened(slice, slice')
  BY BeginElseIInv
<1>2. /\ open # <<>> /\ Last(open).side = "then" /\ events' = events
      /\ open' = [open EXCEPT ![Len(open)].side = "else"]
  BY DEF ThreadBeginElse
<1>3. ArmBlock(slice) \in 2 .. Len(slice.blocks) /\ slice.blocks[ArmBlock(slice)].els = Null
  <2>1. /\ Len(open) \in Nat \ {0} /\ ArmBlock(slice) = ArmOf(slice, open[Len(open)])
        /\ ArmBlock(slice) \in 2 .. Len(slice.blocks)
    BY <1>2, InnermostFacts
  <2>2. Len(open) \in 1 .. Len(open) /\ open[Len(open)].side = "then"
    BY <1>2, <2>1 DEF Last
  <2>3. OnArm(slice, open, Len(open))
    BY <2>2 DEF IInv, OnArms
  <2> QED
    BY <2>1, <2>2, <2>3 DEF OnArm, ArmOf
<1>4. slice' \in SliceOf(EventType) /\ SliceInv(slice')
  BY <1>1 DEF IInv
<1>5. Grown(slice, slice', <<>>)
  BY <1>1, <1>3, <1>4, ElseGrown DEF IInv
<1>6. Recorded' /\ UNCHANGED <<arms, before>>
  BY <1>2, <1>4, <1>5, NoneRecorded
<1>7. Program!Else
  BY <1>2, <1>6 DEF Program!Else, Program!Last, Last
<1> QED
  BY <1>6, <1>7 DEF Program!Next

(* Thread::end_branch closes the innermost branch.                         *)
LEMMA EndRefines ==
  ASSUME IInv, Recorded, ThreadEndBranch, InOrder(slice'.blocks, events'),
         arms' = SharedArms(slice'), before' = SharedBefore(slice')
  PROVE  Recorded' /\ [Program!Next]_<<open, arms, before>>
<1>1. IInv' /\ BranchEnded(slice, slice')
  BY EndBranchIInv
<1>2. open # <<>> /\ events' = events /\ open' = Front(open)
  BY DEF ThreadEndBranch
<1>3. slice' \in SliceOf(EventType) /\ SliceInv(slice')
  BY <1>1 DEF IInv
<1>4. Grown(slice, slice', <<>>)
  BY <1>1, <1>3, EndGrown DEF IInv
<1>5. Recorded' /\ UNCHANGED <<arms, before>>
  BY <1>2, <1>3, <1>4, NoneRecorded
<1>6. Program!End
  BY <1>2, <1>5 DEF Program!End, Program!Front, Front
<1> QED
  BY <1>5, <1>6 DEF Program!Next

(* Each step of the thread is a step of the program order, or leaves what  *)
(* it is about.                                                            *)
LEMMA NextRefines ==
  IInv /\ Recorded /\ [OrderNext]_<<vars, arms, before>> =>
    Recorded' /\ [Program!Next]_<<open, arms, before>>
<1> SUFFICES ASSUME IInv, Recorded, [OrderNext]_<<vars, arms, before>>
             PROVE  Recorded' /\ [Program!Next]_<<open, arms, before>>
  OBVIOUS
<1>1. CASE UNCHANGED <<vars, arms, before>>
  <2>1. /\ slice' = slice /\ events' = events /\ open' = open /\ arms' = arms /\ before' = before
    BY <1>1 DEF vars
  <2> QED
    BY <2>1 DEF Recorded
<1>2. CASE OrderNext
  <2>1. Next /\ arms' = SharedArms(slice') /\ before' = SharedBefore(slice')
    BY <1>2 DEF OrderNext
  <2>2. InOrder(slice'.blocks, events')
    BY <2>1, NextInOrder DEF Recorded
  <2>3. ASSUME NEW n \in 0 .. MaxReads, NEW shared \in BOOLEAN, Instr(n, shared)
        PROVE  Recorded' /\ [Program!Next]_<<open, arms, before>>
    BY <2>1, <2>2, <2>3, InstrRefines
  <2>4. ASSUME NEW sym \in Condition, NEW n \in 0 .. MaxReads,
               ThreadBeginThen([sym |-> sym, pos |-> TRUE], n)
        PROVE  Recorded' /\ [Program!Next]_<<open, arms, before>>
    <3> DEFINE lit == [sym |-> sym, pos |-> TRUE]
    <3>1. lit \in Literal /\ ThreadBeginThen(lit, n)
      BY <2>4 DEF Literal
    <3> HIDE DEF lit
    <3> QED
      BY <2>1, <2>2, <3>1, ThenRefines
  <2>5. CASE ThreadBeginElse
    BY <2>1, <2>2, <2>5, ElseRefines
  <2>6. CASE ThreadEndBranch
    BY <2>1, <2>2, <2>6, EndRefines
  <2> QED
    BY <2>1, <2>3, <2>4, <2>5, <2>6 DEF Next
<1> QED
  BY <1>1, <1>2

(* At the start the graph has no events.                                   *)
LEMMA InitRecorded == OrderInit => Recorded /\ Program!Init
<1> SUFFICES ASSUME OrderInit PROVE Recorded /\ Program!Init
  OBVIOUS
<1>1. slice = EmptySlice /\ events = 0 /\ open = <<>> /\ arms = <<>> /\ before = {}
  BY DEF OrderInit, Init
<1>2. IInv
  BY InitIInv DEF OrderInit
<1>3. InOrder(slice.blocks, events)
  BY <1>1, EmptyOrder
<1> DEFINE bs == slice.blocks
           h == [x \in 1 .. 0 |-> 1]
<1>4. Homes(bs, h, 0)
  <2>1. \A b \in 1 .. Len(bs) : Len(bs[b].body) = 0
    <3>1. Len(bs) = 2 /\ \A b \in 1 .. 2 : bs[b].body = <<>>
      BY <1>1, EmptySliceFacts
    <3> QED
      BY <3>1
  <2>2. h \in [1 .. 0 -> 1 .. Len(bs)]
    OBVIOUS
  <2> QED
    BY <2>1, <2>2 DEF Homes
<1> HIDE DEF h
<1>5. PICK lo, hi : Placed(bs, lo, hi, h, 0)
  BY <1>1, <1>3, <1>4 DEF InOrder, Placed
<1>6. SharedEvents(slice) \in Seq(EventType) /\ SharedAt(slice, lo, h, 0, SharedEvents(slice))
  <2>1. slice \in SliceOf(EventType) /\ SliceInv(slice) /\ 0 \in Nat
    BY <1>2 DEF IInv
  <2> QED
    BY <1>5, <2>1, SharedFacts
<1>7. Len(SharedEvents(slice)) = 0
  <2> DEFINE p == SharedEvents(slice)
  <2> HIDE DEF p
  <2>1. p \in Seq(EventType) /\ SharedAt(slice, lo, h, 0, p)
    BY <1>6 DEF p
  <2>2. \A k \in 1 .. Len(p) : p[k].id \in 1 .. 0
    BY <2>1 DEF SharedAt, SharedIds
  <2>3. Len(p) \in Nat
    BY <2>1
  <2>4. Len(p) = 0
    BY <2>2, <2>3
  <2> QED
    BY <2>4 DEF p
<1>8. SharedArms(slice) = <<>>
  <2>1. SharedArms(slice) = [k \in 1 .. 0 |-> ArmsOf(slice)[h[SharedEvents(slice)[k].id]]]
    BY <1>6, <1>7 DEF SharedAt
  <2> QED
    BY <2>1
<1>9. SharedBefore(slice) = {}
  <2>1. SharedBefore(slice) = BeforeOf(SharedArms(slice))
    <3>1. slice \in SliceOf(EventType) /\ SliceInv(slice) /\ 0 \in Nat /\ \A e \in EventType : e.id \in Nat
      BY <1>2 DEF IInv, EventType
    <3> QED
      BY <1>5, <3>1, BeforeFacts
  <2> QED
    BY <1>8, <2>1 DEF BeforeOf
<1>10. Recorded
  BY <1>1, <1>3, <1>4, <1>8, <1>9 DEF Recorded
<1> QED
  BY <1>1, <1>10 DEF Program!Init

(* At every point of a recording, for all programs and all bounds, the     *)
(* order that the clocks of internal_encode_spo entail on the shared       *)
(* events is the program order: two of them are ordered, as recorded,      *)
(* unless they are in the two arms of one branch.                          *)
THEOREM ProgramOrderImplemented == OrderSpec => ImplementsProgramOrder
<1>1. OrderInit => Recorded /\ Program!Init
  BY InitRecorded
<1>2. IInv /\ Recorded /\ [OrderNext]_<<vars, arms, before>> => Recorded' /\ [Program!Next]_<<open, arms, before>>
  BY NextRefines
<1>3. OrderSpec => []IInv
  BY Inductive, OrderIsRecording, PTL
<1>4. <<open, arms, before>> = Program!povars
  BY DEF Program!povars
<1> QED
  BY <1>1, <1>2, <1>3, <1>4, PTL DEF OrderSpec, ImplementsProgramOrder, Program!Spec, Program!povars
=============================================================================
