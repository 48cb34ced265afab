--------------------------- MODULE VariablesProofs ---------------------------
(***************************************************************************)
(* Proofs about module Variables, for any number of variables, writes and  *)
(* branches.  First what the constructor of class BinaryReadInstr relies   *)
(* on: instructions carry one condition pointer exactly when they were     *)
(* made in one arm.  Then that the formula gives the writes the values of  *)
(* the program: an execution and the meaning of the events are unfolded,   *)
(* and grow by the same value with each write.                             *)
(***************************************************************************)
EXTENDS Integers, Variables, DataLemmas

-----------------------------------------------------------------------------
(* The condition of the d-th open arm, the outermost being the first, in a *)
(* list c of conditions; and the path condition in that arm.               *)
Own(c, d) == c[Len(c) + 1 - d]

Path(c, d) == IF d = 0 THEN Null ELSE IF d = 1 THEN Own(c, 1) ELSE Own(c, d) + 1

(* A condition and its conjunction with those around it are allocated one  *)
(* after the other; next is the next pointer.                              *)
Allocated(c, next) ==
  /\ c \in Seq(Nat) /\ next \in Nat \ {0}
  /\ \A i \in DOMAIN c : 0 < c[i] /\ c[i] + 1 < next
  /\ \A i, j \in DOMAIN c : i < j => c[j] + 1 < c[i]

(* The cache has the conjunctions of the arms but for the outermost.       *)
Cached(c, h) ==
  /\ h \in Seq(Nat)
  /\ Len(h) = (IF Len(c) = 0 THEN 0 ELSE Len(c) - 1)
  /\ \A d \in DOMAIN h : h[d] = Own(c, d + 1) + 1

(* The domain of what Put returns.                                         *)
LEMMA PutDomain ==
  ASSUME NEW f, NEW x, NEW y
  PROVE  DOMAIN Put(f, x, y) = DOMAIN f \union {x}
BY DEF Put

(* A sequence has the type of its elements.                                *)
LEMMA InSeq ==
  ASSUME NEW S, NEW T, NEW q \in Seq(T), \A i \in DOMAIN q : q[i] \in S
  PROVE  q \in Seq(S)
OBVIOUS

(* One arm more.                                                           *)
LEMMA PushedPath ==
  ASSUME NEW c \in Seq(Nat), NEW p \in Nat, NEW d \in 0 .. Len(c)
  PROVE  Path(<<p>> \o c, d) = Path(c, d)
<1>1. /\ Len(c) \in Nat /\ Len(<<p>> \o c) = Len(c) + 1
      /\ \A i \in 1 .. Len(c) : (<<p>> \o c)[i + 1] = c[i]
  BY PrependFacts
<1>2. CASE d = 0
  BY <1>2 DEF Path
<1>3. CASE d # 0
  <2>1. Len(c) + 1 - d \in 1 .. Len(c) /\ Len(c) + 1 - 1 \in 1 .. Len(c)
    BY <1>1, <1>3
  <2>2. (<<p>> \o c)[(Len(c) + 1 - d) + 1] = c[Len(c) + 1 - d]
    BY <1>1, <2>1
  <2>3. (Len(c) + 1 - d) + 1 = Len(<<p>> \o c) + 1 - d
    BY <1>1
  <2>4. Own(<<p>> \o c, d) = Own(c, d)
    BY <2>2, <2>3 DEF Own
  <2> QED
    BY <1>3, <2>4 DEF Path
<1> QED
  BY <1>2, <1>3

LEMMA PushedOwn ==
  ASSUME NEW c \in Seq(Nat), NEW p \in Nat
  PROVE  Own(<<p>> \o c, Len(c) + 1) = p
<1>1. Len(c) \in Nat /\ Len(<<p>> \o c) = Len(c) + 1 /\ (<<p>> \o c)[1] = p
  BY PrependFacts
<1>2. Len(<<p>> \o c) + 1 - (Len(c) + 1) = 1
  BY <1>1
<1> QED
  BY <1>1, <1>2 DEF Own

LEMMA PushedAllocated ==
  ASSUME NEW c, NEW p, Allocated(c, p)
  PROVE  Allocated(<<p>> \o c, p + 2)
<1> DEFINE q == <<p>> \o c
<1>1. c \in Seq(Nat) /\ p \in Nat /\ p > 0
  BY DEF Allocated
<1>2. /\ q \in Seq(Nat) /\ Len(q) = Len(c) + 1 /\ q[1] = p
      /\ \A i \in 1 .. Len(c) : q[i + 1] = c[i]
  BY <1>1, PrependFacts
<1>3. Len(c) \in Nat /\ DOMAIN c = 1 .. Len(c) /\ DOMAIN q = 1 .. Len(c) + 1
  BY <1>1, <1>2
<1> HIDE DEF q
<1>4. ASSUME NEW i \in DOMAIN q, i # 1
      PROVE  i - 1 \in DOMAIN c /\ q[i] = c[i - 1]
  <2>1. i - 1 \in 1 .. Len(c) /\ (i - 1) + 1 = i
    BY <1>3, <1>4
  <2> QED
    BY <1>2, <1>3, <2>1
<1>5. \A i \in DOMAIN c : c[i] \in Nat /\ 0 < c[i] /\ c[i] + 1 < p
  BY <1>1, ElementInSet DEF Allocated
<1>6. ASSUME NEW i \in DOMAIN q
      PROVE  0 < q[i] /\ q[i] + 1 < p + 2
  <2>1. CASE i = 1
    BY <1>1, <1>2, <2>1
  <2>2. CASE i # 1
    BY <1>1, <1>4, <1>5, <2>2
  <2> QED
    BY <2>1, <2>2
<1>7. ASSUME NEW i \in DOMAIN q, NEW j \in DOMAIN q, i < j
      PROVE  q[j] + 1 < q[i]
  <2>1. j # 1 /\ i \in Nat /\ j \in Nat
    BY <1>3, <1>7
  <2>2. j - 1 \in DOMAIN c /\ q[j] = c[j - 1]
    BY <1>4, <2>1
  <2>3. CASE i = 1
    BY <1>2, <1>5, <2>2, <2>3
  <2>4. CASE i # 1
    <3>1. i - 1 \in DOMAIN c /\ q[i] = c[i - 1] /\ i - 1 < j - 1
      BY <1>4, <1>7, <2>1, <2>4
    <3> QED
      BY <2>2, <3>1 DEF Allocated
  <2> QED
    BY <2>3, <2>4
<1> QED
  BY <1>1, <1>2, <1>6, <1>7 DEF Allocated, q

LEMMA PushedCached ==
  ASSUME NEW c \in Seq(Nat), NEW h, NEW p \in Nat, Cached(c, h)
  PROVE  Cached(<<p>> \o c, Registered(c, p + 1, h))
<1> DEFINE q == <<p>> \o c
           g == Registered(c, p + 1, h)
<1>1. Len(c) \in Nat /\ Len(q) = Len(c) + 1 /\ q \in Seq(Nat)
  BY PrependFacts
<1>2. CASE c = <<>>
  <2>1. Len(c) = 0 /\ g = h
    BY <1>2, EmptyFacts DEF Registered
  <2>2. h \in Seq(Nat) /\ Len(h) = 0
    BY <2>1 DEF Cached
  <2>3. DOMAIN h = {}
    BY <2>2
  <2> HIDE DEF q, g
  <2>4. Len(h) = (IF Len(q) = 0 THEN 0 ELSE Len(q) - 1)
    BY <1>1, <2>1, <2>2
  <2> QED
    BY <2>1, <2>2, <2>3, <2>4 DEF Cached, q, g
<1>3. CASE c # <<>>
  <2>1. Len(c) # 0 /\ g = Append(h, p + 1)
    BY <1>3, EmptyFacts DEF Registered
  <2>2. /\ h \in Seq(Nat) /\ Len(h) = Len(c) - 1
        /\ \A d \in DOMAIN h : h[d] = Own(c, d + 1) + 1
    BY <1>1, <2>1 DEF Cached
  <2>3. /\ Append(h, p + 1) \in Seq(Nat) /\ Len(Append(h, p + 1)) = Len(h) + 1
        /\ Append(h, p + 1)[Len(h) + 1] = p + 1
        /\ \A d \in DOMAIN h : Append(h, p + 1)[d] = h[d]
    BY <2>2, AppendFacts
  <2>4. g \in Seq(Nat) /\ Len(g) = Len(c) /\ DOMAIN g = 1 .. Len(c) /\ DOMAIN h = 1 .. Len(c) - 1
    <3>1. g \in Seq(Nat) /\ Len(g) = Len(c)
      <4> HIDE DEF g
      <4> QED BY <1>1, <2>1, <2>2, <2>3
    <3> HIDE DEF g
    <3>2. DOMAIN g = 1 .. Len(c)
      BY <3>1
    <3>3. DOMAIN h = 1 .. Len(c) - 1
      BY <2>2
    <3> QED
      BY <3>1, <3>2, <3>3
  <2>5. ASSUME NEW d \in DOMAIN g
        PROVE  g[d] = Own(q, d + 1) + 1
    <3>1. CASE d = Len(c)
      <4>1. g[d] = p + 1
        BY <1>1, <2>1, <2>2, <2>3, <3>1
      <4>2. Own(q, d + 1) = p
        BY <3>1, PushedOwn
      <4> QED
        BY <4>1, <4>2
    <3>2. CASE d # Len(c)
      <4>1. d \in DOMAIN h /\ d + 1 \in 0 .. Len(c) /\ d + 1 # 0 /\ d + 1 # 1
        BY <1>1, <2>4, <3>2
      <4>2. Path(q, d + 1) = Path(c, d + 1)
        BY <4>1, PushedPath
      <4> HIDE DEF q, g
      <4>3. Own(q, d + 1) + 1 = Own(c, d + 1) + 1
        BY <4>1, <4>2 DEF Path
      <4> QED
        BY <2>1, <2>2, <2>3, <4>1, <4>3
    <3> QED
      BY <3>1, <3>2
  <2> HIDE DEF q, g
  <2>6. Len(g) = (IF Len(q) = 0 THEN 0 ELSE Len(q) - 1)
    BY <1>1, <2>4
  <2> QED
    BY <2>4, <2>5, <2>6 DEF Cached, q, g
<1> QED
  BY <1>2, <1>3

(* One arm less.                                                           *)
LEMMA PoppedPath ==
  ASSUME NEW c \in Seq(Nat), c # <<>>, NEW d \in 0 .. Len(c) - 1
  PROVE  Path(Tail(c), d) = Path(c, d)
<1>1. Len(c) \in Nat /\ Len(Tail(c)) = Len(c) - 1
  BY EmptyFacts, TailFacts
<1>2. \A i \in 1 .. Len(c) - 1 : Tail(c)[i] = c[i + 1]
  BY TailFacts
<1>3. CASE d = 0
  BY <1>3 DEF Path
<1>4. CASE d # 0
  <2>1. /\ Len(c) - d \in 1 .. Len(c) - 1 /\ Len(Tail(c)) + 1 - d = Len(c) - d
        /\ (Len(c) - d) + 1 = Len(c) + 1 - d
    BY <1>1, <1>4
  <2>2. Tail(c)[Len(c) - d] = c[(Len(c) - d) + 1]
    BY <1>2, <2>1
  <2>3. Own(Tail(c), d) = Own(c, d)
    BY <2>1, <2>2 DEF Own
  <2> QED
    BY <1>4, <2>3 DEF Path
<1> QED
  BY <1>3, <1>4

LEMMA PoppedAllocated ==
  ASSUME NEW c, NEW p, Allocated(c, p), c # <<>>
  PROVE  Allocated(Tail(c), p)
<1>1. c \in Seq(Nat) /\ p \in Nat \ {0}
  BY DEF Allocated
<1>2. /\ Tail(c) \in Seq(Nat) /\ Len(Tail(c)) = Len(c) - 1
      /\ \A i \in 1 .. Len(c) - 1 : Tail(c)[i] = c[i + 1]
  BY <1>1, TailFacts
<1>3. Len(c) \in Nat /\ DOMAIN c = 1 .. Len(c) /\ DOMAIN Tail(c) = 1 .. Len(c) - 1
  BY <1>1, <1>2
<1>4. \A i \in DOMAIN Tail(c) : i \in Nat /\ i + 1 \in DOMAIN c /\ Tail(c)[i] = c[i + 1]
  BY <1>2, <1>3
<1>5. \A i \in DOMAIN Tail(c) : 0 < Tail(c)[i] /\ Tail(c)[i] + 1 < p
  BY <1>4 DEF Allocated
<1>6. ASSUME NEW i \in DOMAIN Tail(c), NEW j \in DOMAIN Tail(c), i < j
      PROVE  Tail(c)[j] + 1 < Tail(c)[i]
  <2>1. i + 1 < j + 1
    BY <1>4, <1>6
  <2> QED
    BY <1>4, <2>1 DEF Allocated
<1> QED
  BY <1>1, <1>2, <1>5, <1>6 DEF Allocated

LEMMA PoppedCached ==
  ASSUME NEW c \in Seq(Nat), c # <<>>, NEW h, Cached(c, h)
  PROVE  Cached(Tail(c), IF h # <<>> THEN Front(h) ELSE h)
<1>1. Len(c) \in Nat /\ Len(c) # 0 /\ Len(Tail(c)) = Len(c) - 1
  BY EmptyFacts, TailFacts
<1>2. /\ h \in Seq(Nat) /\ Len(h) = Len(c) - 1
      /\ \A d \in DOMAIN h : h[d] = Own(c, d + 1) + 1
  BY <1>1 DEF Cached
<1>3. CASE h = <<>>
  <2>1. Len(h) = 0
    BY <1>2, <1>3, EmptyFacts
  <2>2. DOMAIN h = {}
    BY <1>3
  <2>3. Len(Tail(c)) = 0
    BY <1>1, <1>2, <2>1
  <2> QED
    BY <1>2, <1>3, <2>1, <2>2, <2>3 DEF Cached
<1>4. CASE h # <<>>
  <2>1. /\ Front(h) \in Seq(Nat) /\ Len(Front(h)) = Len(h) - 1
        /\ \A i \in 1 .. Len(h) - 1 : Front(h)[i] = h[i]
    BY <1>2, <1>4, FrontFacts
  <2>2. Len(h) # 0
    BY <1>2, <1>4, EmptyFacts
  <2>3. DOMAIN Front(h) = 1 .. Len(h) - 1 /\ DOMAIN h = 1 .. Len(h) /\ Len(h) \in Nat
    BY <1>2, <2>1
  <2>4. ASSUME NEW d \in DOMAIN Front(h)
        PROVE  Front(h)[d] = Own(Tail(c), d + 1) + 1
    <3>1. d \in DOMAIN h /\ d \in 1 .. Len(h) - 1
      BY <2>3
    <3>2. d + 1 \in 0 .. Len(c) - 1 /\ d + 1 # 0 /\ d + 1 # 1
      <4>1. d \in 1 .. Len(h) - 1 /\ Len(h) \in Nat /\ Len(h) = Len(c) - 1
        BY <1>2, <2>3, <3>1
      <4>2. Len(c) \in Nat
        OBVIOUS
      <4> QED
        BY <4>1, <4>2
    <3>3. Path(Tail(c), d + 1) = Path(c, d + 1)
      BY <3>2, PoppedPath
    <3>4. Own(Tail(c), d + 1) + 1 = Own(c, d + 1) + 1
      BY <3>2, <3>3 DEF Path
    <3> QED
      BY <1>2, <2>1, <3>1, <3>4
  <2>5. Len(Front(h)) = (IF Len(Tail(c)) = 0 THEN 0 ELSE Len(Tail(c)) - 1)
    BY <1>1, <1>2, <2>1, <2>2
  <2> QED
    BY <1>4, <2>1, <2>4, <2>5 DEF Cached
<1> QED
  BY <1>3, <1>4

(* What Thread::path_condition_ptr returns.                                *)
LEMMA TopOfPath ==
  ASSUME NEW c \in Seq(Nat), NEW h, Cached(c, h)
  PROVE  (CASE Len(c) = 0 -> Null [] Len(c) = 1 -> Head(c) [] OTHER -> Last(h))
           = Path(c, Len(c))
<1>1. Len(c) \in Nat
  OBVIOUS
<1>2. CASE Len(c) = 0
  BY <1>2 DEF Path
<1>3. CASE Len(c) = 1
  <2>1. c # <<>>
    BY <1>3
  <2>2. Head(c) = c[1]
    BY <2>1, TailFacts
  <2> QED
    BY <1>3, <2>2 DEF Path, Own
<1>4. CASE Len(c) # 0 /\ Len(c) # 1
  <2>1. h \in Seq(Nat) /\ Len(h) = Len(c) - 1 /\ \A d \in DOMAIN h : h[d] = Own(c, d + 1) + 1
    BY <1>4 DEF Cached
  <2>2. Len(h) # 0 /\ DOMAIN h = 1 .. Len(h)
    BY <1>1, <1>4, <2>1
  <2>3. h # <<>>
    BY <2>1, <2>2, EmptyFacts
  <2>4. Last(h) = h[Len(h)]
    BY <2>1, <2>3, FrontFacts
  <2>5. Len(h) \in DOMAIN h /\ Len(h) + 1 = Len(c)
    BY <1>1, <1>4, <2>1, <2>2
  <2> QED
    BY <1>4, <2>1, <2>4, <2>5 DEF Path
<1> QED
  BY <1>2, <1>3, <1>4

(* The path conditions of two open arms are different objects.             *)
LEMMA PathsDiffer ==
  ASSUME NEW c, NEW p, Allocated(c, p), NEW d \in 0 .. Len(c), NEW e \in 0 .. Len(c), d < e
  PROVE  Path(c, d) # Path(c, e)
<1>1. c \in Seq(Nat) /\ Len(c) \in Nat /\ DOMAIN c = 1 .. Len(c)
  BY DEF Allocated
<1>2. e # 0 /\ Len(c) + 1 - e \in DOMAIN c
  BY <1>1
<1>3. Own(c, e) \in Nat /\ Own(c, e) > 0
  BY <1>1, <1>2, ElementInSet DEF Own, Allocated
<1>4. CASE d = 0
  BY <1>2, <1>3, <1>4 DEF Path, Null
<1>5. CASE d # 0
  <2>1. Len(c) + 1 - d \in DOMAIN c /\ Len(c) + 1 - e < Len(c) + 1 - d /\ e # 1
    BY <1>1, <1>5
  <2>2. Own(c, d) \in Nat /\ Own(c, d) + 1 < Own(c, e)
    BY <1>1, <1>2, <2>1, ElementInSet DEF Own, Allocated
  <2> QED
    BY <1>2, <1>3, <1>5, <2>1, <2>2 DEF Path
<1> QED
  BY <1>4, <1>5

LEMMA PathInType ==
  ASSUME NEW c, NEW p, Allocated(c, p), NEW d \in 0 .. Len(c)
  PROVE  Path(c, d) \in 0 .. p - 1
<1>1. c \in Seq(Nat) /\ Len(c) \in Nat /\ DOMAIN c = 1 .. Len(c) /\ p \in Nat \ {0}
  BY DEF Allocated
<1>2. CASE d = 0
  BY <1>1, <1>2 DEF Path, Null
<1>3. CASE d # 0
  <2>1. Len(c) + 1 - d \in DOMAIN c
    BY <1>1, <1>3
  <2>2. Own(c, d) \in Nat /\ Own(c, d) + 1 < p
    BY <1>1, <2>1, ElementInSet DEF Own, Allocated
  <2>3. Path(c, d) = Own(c, d) \/ Path(c, d) = Own(c, d) + 1
    BY <1>3 DEF Path
  <2> QED
    BY <1>1, <2>2, <2>3
<1> QED
  BY <1>2, <1>3

-----------------------------------------------------------------------------
(* The inductive invariant.  A local variable was assigned in the arm that *)
(* declares it, which is open, and carries the path condition of that arm. *)
ArmType == [branch : Nat, taken : BOOLEAN]

Prefix(a, b) == Len(a) <= Len(b) /\ \A i \in DOMAIN a : a[i] = b[i]

InArm(s, cond, c, o) ==
  /\ s \in [declared : Seq(ArmType), assigned : Seq(ArmType)]
  /\ s.assigned = s.declared
  /\ Prefix(s.declared, o)
  /\ cond = Path(c, Len(s.declared))

PointersInv == Allocated(conditions, nextPtr) /\ Cached(conditions, cache)

ArmsInv ==
  /\ branches \in Nat
  /\ open \in Seq(ArmType)
  /\ Len(open) = Len(conditions)
  /\ \A i \in DOMAIN open : open[i].branch \in 1 .. branches

EventsInv ==
  /\ nextId \in Nat
  /\ DOMAIN written \subseteq 0 .. nextId - 1

LocalsInv ==
  /\ DOMAIN locals \subseteq Local
  /\ DOMAIN scope = DOMAIN locals
  /\ \A l \in DOMAIN locals :
       locals[l].id \in DOMAIN written /\ InArm(scope[l], locals[l].cond, conditions, open)

IInv == PointersInv /\ ArmsInv /\ EventsInv /\ LocalsInv

-----------------------------------------------------------------------------
LEMMA InitInv == Init => IInv
<1> SUFFICES ASSUME Init PROVE IInv
  OBVIOUS
<1>1. /\ conditions = <<>> /\ cache = <<>> /\ nextPtr = 1 /\ nextId = 0
      /\ locals = <<>> /\ written = <<>> /\ open = <<>> /\ branches = 0 /\ scope = <<>>
  BY DEF Init
<1>2. <<>> \in Seq(Nat) /\ <<>> \in Seq(ArmType) /\ Len(<<>>) = 0 /\ DOMAIN <<>> = {}
  OBVIOUS
<1>3. PointersInv
  BY <1>1, <1>2 DEF PointersInv, Allocated, Cached
<1>4. ArmsInv
  BY <1>1, <1>2 DEF ArmsInv
<1>5. EventsInv
  BY <1>1, <1>2 DEF EventsInv
<1>6. LocalsInv
  BY <1>1, <1>2 DEF LocalsInv
<1> QED
  BY <1>3, <1>4, <1>5, <1>6 DEF IInv

(* The path condition is that of the innermost open arm.                   *)
LEMMA PathIsTop ==
  ASSUME IInv
  PROVE  PathCondition = Path(conditions, Len(open))
<1>1. conditions \in Seq(Nat) /\ Cached(conditions, cache) /\ Len(open) = Len(conditions)
  BY DEF IInv, PointersInv, ArmsInv, Allocated
<1> QED
  BY <1>1, TopOfPath DEF PathCondition

(* A read of a local variable made here belongs to the innermost open arm. *)
LEMMA HereInArm ==
  ASSUME IInv
  PROVE  InArm([declared |-> open, assigned |-> open], PathCondition, conditions, open)
<1>1. open \in Seq(ArmType) /\ Len(open) \in Nat
  BY DEF IInv, ArmsInv
<1>2. Prefix(open, open)
  BY <1>1 DEF Prefix
<1> QED
  BY <1>1, <1>2, PathIsTop DEF InArm

(* The identifier of a write is new.                                       *)
LEMMA WriteIdIsNew ==
  ASSUME IInv, NEW source
  PROVE  WriteId(source) \in Nat /\ WriteId(source) >= nextId
BY DEF IInv, EventsInv, WriteId

(* A write of a local variable.                                            *)
LEMMA LocalWritten ==
  ASSUME IInv, NEW l \in Local, NEW id \in Nat, id >= nextId, NEW w,
         nextId' = id + 1,
         written' = Put(written, id, w),
         locals' = Put(locals, l, ReadEvent(id)),
         DOMAIN scope' = DOMAIN scope \union {l},
         scope'[l] = [declared |-> open, assigned |-> open],
         \A m \in DOMAIN scope \ {l} : scope'[m] = scope[m],
         UNCHANGED <<conditions, cache, nextPtr, open, branches>>
  PROVE  IInv'
<1>1. PointersInv' /\ ArmsInv'
  BY DEF IInv, PointersInv, ArmsInv
<1>2. DOMAIN written' = DOMAIN written \union {id}
  BY PutDomain
<1>3. EventsInv'
  BY <1>2 DEF IInv, EventsInv
<1>4. /\ DOMAIN locals' = DOMAIN locals \union {l}
      /\ locals'[l] = ReadEvent(id)
      /\ \A m \in DOMAIN locals \ {l} : locals'[m] = locals[m]
  BY DEF Put
<1>5. DOMAIN locals \subseteq Local /\ DOMAIN scope = DOMAIN locals
  BY DEF IInv, LocalsInv
<1>6. ASSUME NEW m \in DOMAIN locals'
      PROVE  locals'[m].id \in DOMAIN written' /\ InArm(scope'[m], locals'[m].cond, conditions', open')
  <2>1. CASE m = l
    <3>1. locals'[m].id = id /\ locals'[m].cond = PathCondition
      BY <1>4, <2>1 DEF ReadEvent
    <3> QED
      BY <1>2, <2>1, <3>1, HereInArm
  <2>2. CASE m # l
    <3>1. m \in DOMAIN locals /\ locals'[m] = locals[m] /\ scope'[m] = scope[m]
      BY <1>4, <1>5, <2>2
    <3> QED
      BY <1>2, <3>1 DEF IInv, LocalsInv
  <2> QED
    BY <2>1, <2>2
<1>7. LocalsInv'
  BY <1>4, <1>5, <1>6 DEF LocalsInv
<1> QED
  BY <1>1, <1>3, <1>7 DEF IInv

LEMMA DeclarePreserves ==
  ASSUME IInv, NEW l \in Scalar, NEW x, Declare(l, x)
  PROVE  IInv'
<1>1. WriteId(<<x>>) \in Nat /\ WriteId(<<x>>) >= nextId
  BY WriteIdIsNew
<1>2. /\ nextId' = WriteId(<<x>>) + 1
      /\ written' = Put(written, WriteId(<<x>>), <<"direct", Terms(<<x>>)>>)
      /\ locals' = Put(locals, l, ReadEvent(WriteId(<<x>>)))
      /\ scope' = Put(scope, l, [declared |-> open, assigned |-> open])
      /\ UNCHANGED <<conditions, cache, nextPtr, open, branches>>
  BY DEF Declare, Writing
<1>3. /\ DOMAIN scope' = DOMAIN scope \union {l}
      /\ scope'[l] = [declared |-> open, assigned |-> open]
      /\ \A m \in DOMAIN scope \ {l} : scope'[m] = scope[m]
  BY <1>2 DEF Put
<1>4. l \in Local
  BY DEF Local
<1> QED
  BY <1>1, <1>2, <1>3, <1>4, LocalWritten

LEMMA DeclareArrayPreserves ==
  ASSUME IInv, NEW a \in Array, DeclareArray(a)
  PROVE  IInv'
<1>1. nextId \in Nat /\ nextId >= nextId
  BY DEF IInv, EventsInv
<1>2. /\ nextId' = nextId + 1
      /\ written' = Put(written, nextId, <<"fill", Literal>>)
      /\ locals' = Put(locals, a, ReadEvent(nextId))
      /\ scope' = Put(scope, a, [declared |-> open, assigned |-> open])
      /\ UNCHANGED <<conditions, cache, nextPtr, open, branches>>
  BY DEF DeclareArray, Writing
<1>3. /\ DOMAIN scope' = DOMAIN scope \union {a}
      /\ scope'[a] = [declared |-> open, assigned |-> open]
      /\ \A m \in DOMAIN scope \ {a} : scope'[m] = scope[m]
  BY <1>2 DEF Put
<1>4. a \in Local
  BY DEF Local
<1> QED
  BY <1>1, <1>2, <1>3, <1>4, LocalWritten

(* An assignment in the declaring arm changes nothing about scopes.        *)
LEMMA AssignedScope ==
  ASSUME IInv, NEW l, Assignable(l), scope' = [scope EXCEPT ![l].assigned = open]
  PROVE  /\ l \in Local
         /\ DOMAIN scope' = DOMAIN scope \union {l}
         /\ scope'[l] = [declared |-> open, assigned |-> open]
         /\ \A m \in DOMAIN scope \ {l} : scope'[m] = scope[m]
<1>1. l \in DOMAIN locals /\ scope[l].declared = open
  BY DEF Assignable
<1>2. /\ DOMAIN locals \subseteq Local /\ DOMAIN scope = DOMAIN locals
      /\ scope[l] \in [declared : Seq(ArmType), assigned : Seq(ArmType)]
  BY <1>1 DEF IInv, LocalsInv, InArm
<1>3. scope'[l] = [scope[l] EXCEPT !.assigned = open]
  BY <1>1, <1>2
<1>4. [scope[l] EXCEPT !.assigned = open] = [declared |-> open, assigned |-> open]
  BY <1>1, <1>2
<1> QED
  BY <1>1, <1>2, <1>3, <1>4

LEMMA AssignPreserves ==
  ASSUME IInv, NEW l \in Scalar, NEW source, Assign(l, source)
  PROVE  IInv'
<1>1. WriteId(source) \in Nat /\ WriteId(source) >= nextId
  BY WriteIdIsNew
<1>2. /\ nextId' = WriteId(source) + 1
      /\ written' = Put(written, WriteId(source), <<"direct", Terms(source)>>)
      /\ locals' = Put(locals, l, ReadEvent(WriteId(source)))
      /\ UNCHANGED <<conditions, cache, nextPtr, open, branches>>
      /\ Assignable(l) /\ scope' = [scope EXCEPT ![l].assigned = open]
  BY DEF Assign, Writing
<1>3. /\ l \in Local
      /\ DOMAIN scope' = DOMAIN scope \union {l}
      /\ scope'[l] = [declared |-> open, assigned |-> open]
      /\ \A m \in DOMAIN scope \ {l} : scope'[m] = scope[m]
  BY <1>2, AssignedScope
<1> QED
  BY <1>1, <1>2, <1>3, LocalWritten

LEMMA StorePreserves ==
  ASSUME IInv, NEW a \in Array, NEW i, NEW source, Store(a, i, source)
  PROVE  IInv'
<1>1. WriteId(source) \in Nat /\ WriteId(source) >= nextId
  BY WriteIdIsNew
<1>2. /\ nextId' = WriteId(source) + 1
      /\ written' = Put(written, WriteId(source), <<"store", locals[a].id, i, Terms(source)>>)
      /\ locals' = Put(locals, a, ReadEvent(WriteId(source)))
      /\ UNCHANGED <<conditions, cache, nextPtr, open, branches>>
      /\ Assignable(a) /\ scope' = [scope EXCEPT ![a].assigned = open]
  BY DEF Store, Writing
<1>3. /\ a \in Local
      /\ DOMAIN scope' = DOMAIN scope \union {a}
      /\ scope'[a] = [declared |-> open, assigned |-> open]
      /\ \A m \in DOMAIN scope \ {a} : scope'[m] = scope[m]
  BY <1>2, AssignedScope
<1> QED
  BY <1>1, <1>2, <1>3, LocalWritten

LEMMA WriteSharedPreserves ==
  ASSUME IInv, NEW source, WriteShared(source)
  PROVE  IInv'
<1> DEFINE id == WriteId(source)
<1>1. id \in Nat /\ id >= nextId
  BY WriteIdIsNew
<1>2. /\ nextId' = id + 1
      /\ written' = Put(written, id, <<"direct", Terms(source)>>)
      /\ UNCHANGED <<locals, scope, conditions, cache, nextPtr, open, branches>>
  BY DEF WriteShared, Writing
<1>3. DOMAIN written' = DOMAIN written \union {id}
  BY <1>2, PutDomain
<1> HIDE DEF id
<1>4. PointersInv' /\ ArmsInv'
  BY <1>2 DEF IInv, PointersInv, ArmsInv
<1>5. EventsInv'
  BY <1>1, <1>2, <1>3 DEF IInv, EventsInv
<1>6. LocalsInv'
  BY <1>2, <1>3 DEF IInv, LocalsInv
<1> QED
  BY <1>4, <1>5, <1>6 DEF IInv

-----------------------------------------------------------------------------
(* The variables that stay in scope keep the condition of their arm if the *)
(* arms around the one that ends stay open.                                *)
LEMMA ScopeLeft ==
  ASSUME IInv, open # <<>>, LeaveScope,
         open' \in Seq(ArmType), Len(open') >= Len(open) - 1,
         \A i \in 1 .. Len(open) - 1 : open'[i] = open[i],
         \A d \in 0 .. Len(open) - 1 : Path(conditions', d) = Path(conditions, d),
         UNCHANGED written
  PROVE  LocalsInv'
<1> DEFINE left == { l \in DOMAIN locals : Len(scope[l].declared) < Len(open) }
<1>1. /\ DOMAIN locals \subseteq Local /\ DOMAIN scope = DOMAIN locals
      /\ \A l \in DOMAIN locals :
           locals[l].id \in DOMAIN written /\ InArm(scope[l], locals[l].cond, conditions, open)
  BY DEF IInv, LocalsInv
<1>2. locals' = [l \in left |-> locals[l]] /\ scope' = [l \in left |-> scope[l]]
  BY DEF LeaveScope, Restrict
<1>3. DOMAIN locals' = left /\ DOMAIN scope' = left
  BY <1>2
<1>4. ASSUME NEW l \in left
      PROVE  /\ locals'[l].id \in DOMAIN written'
             /\ InArm(scope'[l], locals'[l].cond, conditions', open')
  <2>1. locals'[l] = locals[l] /\ scope'[l] = scope[l] /\ l \in DOMAIN locals
    BY <1>2
  <2> DEFINE a == scope[l].declared
  <2>2. /\ scope[l] \in [declared : Seq(ArmType), assigned : Seq(ArmType)]
        /\ scope[l].assigned = a /\ Prefix(a, open) /\ locals[l].cond = Path(conditions, Len(a))
    BY <1>1, <2>1 DEF InArm
  <2>3. a \in Seq(ArmType) /\ Len(a) < Len(open)
    BY <2>2
  <2> HIDE DEF a
  <2>4. Len(a) \in Nat /\ DOMAIN a = 1 .. Len(a) /\ open \in Seq(ArmType) /\ Len(open) \in Nat
    BY <2>3 DEF IInv, ArmsInv
  <2>5. Len(a) <= Len(open')
    BY <2>3, <2>4
  <2>6. ASSUME NEW i \in DOMAIN a
        PROVE  a[i] = open'[i]
    <3>1. i \in 1 .. Len(open) - 1
      BY <2>3, <2>4
    <3> QED
      BY <2>2, <3>1 DEF Prefix
  <2>7. Prefix(a, open')
    BY <2>5, <2>6 DEF Prefix
  <2>8. Len(a) \in 0 .. Len(open) - 1
    BY <2>3, <2>4
  <2>9. locals[l].cond = Path(conditions', Len(a))
    BY <2>2, <2>8
  <2> QED
    BY <1>1, <2>1, <2>2, <2>7, <2>9 DEF InArm, a
<1> HIDE DEF left
<1>5. left \subseteq Local
  BY <1>1 DEF left
<1> QED
  BY <1>3, <1>4, <1>5 DEF LocalsInv

LEMMA BeginThenPreserves ==
  ASSUME IInv, BeginThen
  PROVE  IInv'
<1> DEFINE arm == [branch |-> branches + 1, taken |-> TRUE]
<1>1. /\ conditions' = <<nextPtr>> \o conditions
      /\ cache' = Registered(conditions, nextPtr + 1, cache)
      /\ nextPtr' = nextPtr + 2 /\ nextId' = nextId + 1
      /\ open' = Append(open, arm) /\ branches' = branches + 1
      /\ UNCHANGED <<locals, written, scope>>
  BY DEF BeginThen
<1>2. conditions \in Seq(Nat) /\ nextPtr \in Nat /\ Len(conditions) \in Nat
  BY DEF IInv, PointersInv, Allocated
<1>3. PointersInv'
  <2>1. Allocated(conditions', nextPtr')
    BY <1>1, PushedAllocated DEF IInv, PointersInv
  <2>2. Cached(conditions', cache')
    BY <1>1, <1>2, PushedCached DEF IInv, PointersInv
  <2> QED
    BY <2>1, <2>2 DEF PointersInv
<1>4. /\ branches \in Nat /\ open \in Seq(ArmType) /\ Len(open) = Len(conditions)
      /\ \A i \in DOMAIN open : open[i].branch \in 1 .. branches
  BY DEF IInv, ArmsInv
<1>5. arm \in ArmType /\ arm.branch = branches + 1
  BY <1>4 DEF ArmType
<1> HIDE DEF arm
<1>6. /\ open' \in Seq(ArmType) /\ Len(open') = Len(open) + 1
      /\ open'[Len(open) + 1] = arm
      /\ \A i \in DOMAIN open : open'[i] = open[i]
  BY <1>1, <1>4, <1>5, AppendFacts
<1>7. ArmsInv'
  <2>1. Len(conditions') = Len(conditions) + 1
    BY <1>1, <1>2, PrependFacts
  <2>2. DOMAIN open = 1 .. Len(open) /\ DOMAIN open' = 1 .. Len(open) + 1
    BY <1>4, <1>6
  <2>3. ASSUME NEW i \in DOMAIN open'
        PROVE  open'[i].branch \in 1 .. branches'
    <3>1. CASE i = Len(open) + 1
      BY <1>1, <1>4, <1>5, <1>6, <3>1
    <3>2. CASE i # Len(open) + 1
      <4>1. i \in DOMAIN open
        BY <1>2, <1>4, <2>2, <3>2
      <4>2. open'[i].branch \in 1 .. branches
        BY <1>4, <1>6, <4>1
      <4> QED
        BY <1>1, <1>4, <4>2
    <3> QED
      BY <3>1, <3>2
  <2> QED
    BY <1>1, <1>4, <1>6, <2>1, <2>3 DEF ArmsInv
<1>8. EventsInv'
  BY <1>1 DEF IInv, EventsInv
<1>9. LocalsInv'
  <2>1. ASSUME NEW l \in DOMAIN locals
        PROVE  InArm(scope[l], locals[l].cond, conditions', open')
    <3> DEFINE a == scope[l].declared
    <3>1. InArm(scope[l], locals[l].cond, conditions, open)
      BY DEF IInv, LocalsInv
    <3>2. /\ scope[l] \in [declared : Seq(ArmType), assigned : Seq(ArmType)]
          /\ scope[l].assigned = a /\ Prefix(a, open) /\ locals[l].cond = Path(conditions, Len(a))
      BY <3>1 DEF InArm
    <3>3. a \in Seq(ArmType)
      BY <3>2
    <3> HIDE DEF a
    <3>4. Len(a) \in Nat /\ Len(a) <= Len(open) /\ DOMAIN a = 1 .. Len(a) /\ DOMAIN open = 1 .. Len(open)
      BY <1>4, <3>2, <3>3 DEF Prefix
    <3>5. Len(a) \in 0 .. Len(conditions) /\ DOMAIN a \subseteq DOMAIN open
      BY <1>2, <1>4, <3>4
    <3>6. Path(conditions', Len(a)) = Path(conditions, Len(a))
      BY <1>1, <1>2, <3>5, PushedPath
    <3>7. Len(a) <= Len(open')
      BY <1>2, <1>4, <1>6, <3>4
    <3>8. Prefix(a, open')
      BY <1>6, <3>2, <3>5, <3>7 DEF Prefix
    <3> QED
      BY <3>2, <3>6, <3>8 DEF InArm, a
  <2> QED
    BY <1>1, <2>1 DEF IInv, LocalsInv
<1> QED
  BY <1>3, <1>7, <1>8, <1>9 DEF IInv

LEMMA BeginElsePreserves ==
  ASSUME IInv, BeginElse
  PROVE  IInv'
<1> DEFINE arm == [open[Len(open)] EXCEPT !.taken = FALSE]
<1>1. /\ conditions' = <<nextPtr>> \o Tail(conditions)
      /\ cache' = Registered(Tail(conditions), nextPtr + 1, Unregistered)
      /\ nextPtr' = nextPtr + 2 /\ open # <<>>
      /\ open' = [open EXCEPT ![Len(open)] = arm]
      /\ LeaveScope /\ UNCHANGED <<nextId, written, branches>>
  BY DEF BeginElse
<1>2. /\ branches \in Nat /\ open \in Seq(ArmType) /\ Len(open) = Len(conditions)
      /\ \A i \in DOMAIN open : open[i].branch \in 1 .. branches
  BY DEF IInv, ArmsInv
<1>3. conditions \in Seq(Nat) /\ nextPtr \in Nat
  BY DEF IInv, PointersInv, Allocated
<1>4. Len(open) \in Nat /\ Len(open) # 0 /\ Len(open) \in DOMAIN open
  <2>1. Len(open) \in Nat /\ Len(open) # 0
    BY <1>1, <1>2, EmptyFacts
  <2> QED
    BY <1>2, <2>1
<1>5. conditions # <<>>
  BY <1>2, <1>3, <1>4, EmptyFacts
<1>6. Tail(conditions) \in Seq(Nat) /\ Len(Tail(conditions)) = Len(conditions) - 1
  BY <1>3, <1>5, TailFacts
<1>7. PointersInv'
  <2>1. Allocated(Tail(conditions), nextPtr)
    BY <1>5, PoppedAllocated DEF IInv, PointersInv
  <2>2. Cached(Tail(conditions), Unregistered)
    BY <1>3, <1>5, PoppedCached DEF IInv, PointersInv, Unregistered
  <2>3. Allocated(conditions', nextPtr')
    BY <1>1, <2>1, PushedAllocated
  <2>4. Cached(conditions', cache')
    BY <1>1, <1>3, <1>6, <2>2, PushedCached
  <2> QED
    BY <2>3, <2>4 DEF PointersInv
<1>8. open[Len(open)] \in ArmType /\ open[Len(open)].branch \in 1 .. branches
  BY <1>2, <1>4, ElementInSet
<1>9. arm \in ArmType /\ arm.branch \in 1 .. branches
  BY <1>8 DEF ArmType
<1> HIDE DEF arm
<1>10. /\ open' \in Seq(ArmType) /\ Len(open') = Len(open)
       /\ open'[Len(open)] = arm
       /\ \A i \in DOMAIN open \ {Len(open)} : open'[i] = open[i]
  BY <1>1, <1>2, <1>4, <1>9, ExceptInSeq
<1>11. DOMAIN open = 1 .. Len(open) /\ DOMAIN open' = 1 .. Len(open)
  BY <1>2, <1>10
<1>12. ArmsInv'
  <2>1. Len(conditions') = Len(Tail(conditions)) + 1
    BY <1>1, <1>3, <1>6, PrependFacts
  <2>2. Len(open') = Len(conditions')
    BY <1>2, <1>4, <1>6, <1>10, <2>1
  <2>3. ASSUME NEW i \in DOMAIN open'
        PROVE  open'[i].branch \in 1 .. branches
    <3>1. CASE i = Len(open)
      BY <1>9, <1>10, <3>1
    <3>2. CASE i # Len(open)
      BY <1>2, <1>10, <1>11, <3>2
    <3> QED
      BY <3>1, <3>2
  <2> QED
    BY <1>1, <1>2, <1>10, <2>2, <2>3 DEF ArmsInv
<1>13. EventsInv'
  BY <1>1 DEF IInv, EventsInv
<1>14. ASSUME NEW d \in 0 .. Len(open) - 1
       PROVE  Path(conditions', d) = Path(conditions, d)
  <2>1. d \in 0 .. Len(Tail(conditions)) /\ d \in 0 .. Len(conditions) - 1
    BY <1>2, <1>6
  <2>2. Path(conditions', d) = Path(Tail(conditions), d)
    BY <1>1, <1>3, <1>6, <2>1, PushedPath
  <2>3. Path(Tail(conditions), d) = Path(conditions, d)
    BY <1>3, <1>5, <2>1, PoppedPath
  <2> QED
    BY <2>2, <2>3
<1>15. LocalsInv'
  <2>1. \A i \in 1 .. Len(open) - 1 : open'[i] = open[i]
    BY <1>4, <1>10, <1>11
  <2>2. Len(open') >= Len(open) - 1
    BY <1>4, <1>10
  <2> QED
    BY <1>1, <1>10, <1>14, <2>1, <2>2, ScopeLeft
<1> QED
  BY <1>7, <1>12, <1>13, <1>15 DEF IInv

LEMMA EndBranchPreserves ==
  ASSUME IInv, EndBranch
  PROVE  IInv'
<1>1. /\ conditions' = Tail(conditions) /\ cache' = Unregistered
      /\ open # <<>> /\ open' = Front(open)
      /\ LeaveScope /\ UNCHANGED <<nextPtr, nextId, written, branches>>
  BY DEF EndBranch
<1>2. /\ branches \in Nat /\ open \in Seq(ArmType) /\ Len(open) = Len(conditions)
      /\ \A i \in DOMAIN open : open[i].branch \in 1 .. branches
  BY DEF IInv, ArmsInv
<1>3. conditions \in Seq(Nat)
  BY DEF IInv, PointersInv, Allocated
<1>4. Len(open) \in Nat /\ Len(open) # 0
  BY <1>1, <1>2, EmptyFacts
<1>5. conditions # <<>>
  BY <1>2, <1>3, <1>4, EmptyFacts
<1>6. Len(Tail(conditions)) = Len(conditions) - 1
  BY <1>3, <1>5, TailFacts
<1>7. PointersInv'
  <2>1. Allocated(conditions', nextPtr')
    BY <1>1, <1>5, PoppedAllocated DEF IInv, PointersInv
  <2>2. Cached(conditions', cache')
    BY <1>1, <1>3, <1>5, PoppedCached DEF IInv, PointersInv, Unregistered
  <2> QED
    BY <2>1, <2>2 DEF PointersInv
<1>8. /\ open' \in Seq(ArmType) /\ Len(open') = Len(open) - 1
      /\ \A i \in 1 .. Len(open) - 1 : open'[i] = open[i]
  BY <1>1, <1>2, FrontFacts
<1>9. DOMAIN open = 1 .. Len(open) /\ DOMAIN open' = 1 .. Len(open) - 1
  BY <1>2, <1>8
<1>10. ArmsInv'
  <2>1. \A i \in DOMAIN open' : open'[i].branch \in 1 .. branches
    BY <1>2, <1>4, <1>8, <1>9
  <2> QED
    BY <1>1, <1>2, <1>6, <1>8, <2>1 DEF ArmsInv
<1>11. EventsInv'
  BY <1>1 DEF IInv, EventsInv
<1>12. \A d \in 0 .. Len(open) - 1 : Path(conditions', d) = Path(conditions, d)
  BY <1>1, <1>2, <1>3, <1>5, PoppedPath
<1>13. LocalsInv'
  <2>1. Len(open') >= Len(open) - 1
    BY <1>4, <1>8
  <2> QED
    BY <1>1, <1>8, <1>12, <2>1, ScopeLeft
<1> QED
  BY <1>7, <1>10, <1>11, <1>13 DEF IInv

LEMMA StepPreserves == IInv /\ [Next]_vars => IInv'
<1> SUFFICES ASSUME IInv, [Next]_vars PROVE IInv'
  OBVIOUS
<1>1. CASE UNCHANGED vars
  BY <1>1 DEF vars, IInv, PointersInv, ArmsInv, EventsInv, LocalsInv
<1>2. CASE Next
  <2>1. ASSUME NEW l \in Scalar, NEW x, Declare(l, x) PROVE IInv'
    BY <2>1, DeclarePreserves
  <2>2. ASSUME NEW a \in Array, DeclareArray(a) PROVE IInv'
    BY <2>2, DeclareArrayPreserves
  <2>3. ASSUME NEW l \in Scalar, NEW source, Assign(l, source) PROVE IInv'
    BY <2>3, AssignPreserves
  <2>4. ASSUME NEW a \in Array, NEW i, NEW source, Store(a, i, source) PROVE IInv'
    BY <2>4, StorePreserves
  <2>5. ASSUME NEW source, WriteShared(source) PROVE IInv'
    BY <2>5, WriteSharedPreserves
  <2>6. CASE BeginThen
    BY <2>6, BeginThenPreserves
  <2>7. CASE BeginElse
    BY <2>7, BeginElsePreserves
  <2>8. CASE EndBranch
    BY <2>8, EndBranchPreserves
  <2> QED
    BY <1>2, <2>1, <2>2, <2>3, <2>4, <2>5, <2>6, <2>7, <2>8 DEF Next
<1> QED
  BY <1>1, <1>2

-----------------------------------------------------------------------------
(* The invariant from which the other theorems follow: the pointers of     *)
(* open arms are allocated outside in, and a variable in scope has the     *)
(* path condition of the arm that declares it.                             *)
THEOREM Inductive == Spec => []IInv
BY InitInv, StepPreserves, PTL DEF Spec

(* Type correctness.                                                       *)
THEOREM TypeCorrect == Spec => []TypeOK
<1>1. ASSUME IInv PROVE TypeOK
  <2>1. /\ conditions \in Seq(Nat) /\ nextPtr \in Nat \ {0}
        /\ \A i \in DOMAIN conditions : 0 < conditions[i] /\ conditions[i] + 1 < nextPtr
        /\ cache \in Seq(Nat) /\ \A d \in DOMAIN cache : cache[d] = Own(conditions, d + 1) + 1
        /\ Len(cache) = (IF Len(conditions) = 0 THEN 0 ELSE Len(conditions) - 1)
    BY <1>1 DEF IInv, PointersInv, Allocated, Cached
  <2>2. conditions \in Seq(1 .. nextPtr - 1)
    <3>1. \A i \in DOMAIN conditions : conditions[i] \in 1 .. nextPtr - 1
      BY <2>1, ElementInSet
    <3> QED
      BY <2>1, <3>1, InSeq
  <2>3. cache \in Seq(1 .. nextPtr - 1)
    <3>1. ASSUME NEW d \in DOMAIN cache
          PROVE  cache[d] \in 1 .. nextPtr - 1
      <4>1. Len(conditions) + 1 - (d + 1) \in DOMAIN conditions
        BY <2>1
      <4>2. Own(conditions, d + 1) \in Nat /\ Own(conditions, d + 1) + 1 < nextPtr
        BY <2>1, <4>1, ElementInSet DEF Own
      <4> QED
        BY <2>1, <4>2
    <3> QED
      BY <2>1, <3>1, InSeq
  <2>4. open \in Seq([branch : 1 .. branches, taken : BOOLEAN])
    <3>1. open \in Seq(ArmType) /\ \A i \in DOMAIN open : open[i].branch \in 1 .. branches
      BY <1>1 DEF IInv, ArmsInv
    <3>2. \A i \in DOMAIN open : open[i] \in [branch : 1 .. branches, taken : BOOLEAN]
      <4>1. \A i \in DOMAIN open : open[i] \in ArmType
        BY <3>1, ElementInSet
      <4> QED
        BY <3>1, <4>1 DEF ArmType
    <3> QED
      BY <3>1, <3>2, InSeq
  <2>5. ASSUME NEW l \in DOMAIN locals
        PROVE  locals[l].id \in DOMAIN written /\ locals[l].cond \in 0 .. nextPtr - 1
    <3>1. locals[l].id \in DOMAIN written /\ InArm(scope[l], locals[l].cond, conditions, open)
      BY <1>1 DEF IInv, LocalsInv
    <3>2. /\ scope[l].declared \in Seq(ArmType) /\ Len(scope[l].declared) <= Len(open)
          /\ locals[l].cond = Path(conditions, Len(scope[l].declared))
      BY <3>1 DEF InArm, Prefix
    <3>3. Len(scope[l].declared) \in 0 .. Len(conditions)
      BY <1>1, <3>2 DEF IInv, ArmsInv
    <3> QED
      BY <1>1, <3>1, <3>2, <3>3, PathInType DEF IInv, PointersInv
  <2> QED
    BY <1>1, <2>2, <2>3, <2>4, <2>5 DEF TypeOK, IInv, EventsInv, LocalsInv
<1> QED
  BY <1>1, Inductive, PTL

(* instr.h: operands made in one arm have one condition object, whatever   *)
(* nested branches lie between them, so the assertion of BinaryReadInstr   *)
(* holds for them; those of different arms have different ones.            *)
THEOREM OperandsAgree == Spec => []ConditionsAreArms
<1>1. ASSUME IInv PROVE ConditionsAreArms
  <2> DEFINE Arm(p) ==
        /\ p[1] \in Seq(ArmType) /\ Prefix(p[1], open)
        /\ p[2] = Path(conditions, Len(p[1]))
  <2>1. open \in Seq(ArmType) /\ Len(open) \in Nat /\ Len(open) = Len(conditions)
    BY <1>1 DEF IInv, ArmsInv
  <2>2. Arm(<<open, PathCondition>>)
    BY <1>1, <2>1, PathIsTop DEF Prefix
  <2>3. ASSUME NEW l \in DOMAIN locals
        PROVE  Arm(<<scope[l].assigned, locals[l].cond>>)
    <3>1. InArm(scope[l], locals[l].cond, conditions, open)
      BY <1>1 DEF IInv, LocalsInv
    <3> QED
      BY <3>1 DEF InArm
  <2>4. ASSUME NEW p, NEW q, Arm(p), Arm(q)
        PROVE  p[1] = q[1] <=> p[2] = q[2]
    <3> DEFINE a == p[1]
               b == q[1]
    <3>1. /\ a \in Seq(ArmType) /\ b \in Seq(ArmType)
          /\ Prefix(a, open) /\ Prefix(b, open)
          /\ p[2] = Path(conditions, Len(a)) /\ q[2] = Path(conditions, Len(b))
      BY <2>4
    <3> HIDE DEF a, b
    <3>2. Len(a) \in 0 .. Len(conditions) /\ Len(b) \in 0 .. Len(conditions)
      BY <2>1, <3>1 DEF Prefix
    <3>3. ASSUME Len(a) = Len(b) PROVE a = b
      BY <3>1, <3>3 DEF Prefix
    <3>4. ASSUME Len(a) # Len(b) PROVE Path(conditions, Len(a)) # Path(conditions, Len(b))
      <4>1. Len(a) < Len(b) \/ Len(b) < Len(a)
        BY <3>2, <3>4
      <4> QED
        BY <1>1, <3>2, <4>1, PathsDiffer DEF IInv, PointersInv
    <3>5. a = b <=> p[2] = q[2]
      BY <3>1, <3>3, <3>4
    <3> QED
      BY <3>5 DEF a, b
  <2> HIDE DEF Arm
  <2> QED
    BY <2>2, <2>3, <2>4 DEF ConditionsAreArms
<1> QED
  BY <1>1, Inductive, PTL

-----------------------------------------------------------------------------
(* Meaning, as the recursive function it is, of any events w.              *)
TermValue(f, t) ==
  CASE t[1] = "event"  -> f[t[2]]
    [] t[1] = "select" -> f[t[2]][t[3]]
    [] OTHER           -> t

TermsValue(f, ts) == Instruction([j \in DOMAIN ts |-> TermValue(f, ts[j])])

EventValue(f, w, id) ==
  IF id \notin DOMAIN w THEN <<"event", id>>
  ELSE CASE w[id][1] = "direct" -> TermsValue(f, w[id][2])
         [] w[id][1] = "fill"   -> [i \in Index |-> w[id][2]]
         [] w[id][1] = "store"  -> Updated(f[w[id][2]], w[id][3], TermsValue(f, w[id][4]))

MeaningOf(w, n) == CHOOSE f : f = [id \in 0 .. n |-> EventValue(f, w, id)]

(* So is Meaning, of the events written.                                   *)
LEMMA MeaningUnfolded == Meaning = MeaningOf(written, nextId)
BY DEF Meaning, MeaningOf, EventValue, TermsValue, TermValue

(* What an event is equal to refers to events before it only.              *)
TermsBefore(ts, id) == \A j \in DOMAIN ts : ts[j][1] \in {"event", "select"} => ts[j][2] \in 0 .. id - 1

ReadsBefore(x, id) ==
  \/ x[1] = "direct" /\ TermsBefore(x[2], id)
  \/ x[1] = "fill"
  \/ x[1] = "store" /\ x[2] \in 0 .. id - 1 /\ TermsBefore(x[4], id)

(* An instruction means the same where the events it reads do.             *)
LEMMA TermsDepend ==
  ASSUME NEW f, NEW g, NEW id \in Nat, \A i \in 0 .. id - 1 : f[i] = g[i], NEW ts, TermsBefore(ts, id)
  PROVE  TermsValue(f, ts) = TermsValue(g, ts)
<1>1. ASSUME NEW j \in DOMAIN ts PROVE TermValue(f, ts[j]) = TermValue(g, ts[j])
  <2>1. ts[j][1] \in {"event", "select"} => ts[j][2] \in 0 .. id - 1
    BY DEF TermsBefore
  <2>2. CASE ts[j][1] = "event"
    BY <2>1, <2>2 DEF TermValue
  <2>3. CASE ts[j][1] = "select"
    BY <2>1, <2>3 DEF TermValue
  <2>4. CASE ts[j][1] # "event" /\ ts[j][1] # "select"
    BY <2>4 DEF TermValue
  <2> QED
    BY <2>2, <2>3, <2>4
<1> HIDE DEF TermValue
<1>2. [j \in DOMAIN ts |-> TermValue(f, ts[j])] = [j \in DOMAIN ts |-> TermValue(g, ts[j])]
  BY <1>1
<1> QED
  BY <1>2 DEF TermsValue

(* So does an event.                                                       *)
LEMMA EventDepends ==
  ASSUME NEW f, NEW g, NEW id \in Nat, \A i \in 0 .. id - 1 : f[i] = g[i], NEW w, NEW y,
         id \in DOMAIN w <=> id \in DOMAIN y, id \in DOMAIN w => w[id] = y[id] /\ ReadsBefore(w[id], id)
  PROVE  EventValue(f, w, id) = EventValue(g, y, id)
<1>1. CASE id \notin DOMAIN w
  BY <1>1 DEF EventValue
<1>2. CASE id \in DOMAIN w
  <2> DEFINE x == w[id]
  <2>1. id \in DOMAIN w /\ id \in DOMAIN y /\ y[id] = x /\ ReadsBefore(x, id)
    BY <1>2
  <2>2. CASE x[1] = "direct"
    <3>1. TermsBefore(x[2], id)
      BY <2>1, <2>2 DEF ReadsBefore
    <3>2. TermsValue(f, x[2]) = TermsValue(g, x[2])
      BY <3>1, TermsDepend
    <3>3. EventValue(f, w, id) = TermsValue(f, x[2]) /\ EventValue(g, y, id) = TermsValue(g, x[2])
      BY <2>1, <2>2 DEF EventValue
    <3> QED
      BY <3>2, <3>3
  <2>3. CASE x[1] = "fill"
    BY <2>1, <2>3 DEF EventValue
  <2>4. CASE x[1] = "store"
    <3>1. TermsBefore(x[4], id) /\ x[2] \in 0 .. id - 1
      BY <2>1, <2>4 DEF ReadsBefore
    <3>2. TermsValue(f, x[4]) = TermsValue(g, x[4]) /\ f[x[2]] = g[x[2]]
      BY <3>1, TermsDepend
    <3>3. /\ EventValue(f, w, id) = Updated(f[x[2]], x[3], TermsValue(f, x[4]))
          /\ EventValue(g, y, id) = Updated(g[x[2]], x[3], TermsValue(g, x[4]))
      BY <2>1, <2>4 DEF EventValue
    <3> QED
      BY <3>2, <3>3
  <2> QED
    BY <2>1, <2>2, <2>3, <2>4 DEF ReadsBefore
<1> QED
  BY <1>1, <1>2

WellFormed(w) == \A id \in DOMAIN w : ReadsBefore(w[id], id)

(* The recursion is well-founded.                                          *)
LEMMA MeaningExists ==
  ASSUME NEW w, WellFormed(w), NEW n \in Nat
  PROVE  MeaningOf(w, n) = [id \in 0 .. n |-> EventValue(MeaningOf(w, n), w, id)]
<1> DEFINE Is(m, f) == f = [id \in 0 .. m |-> EventValue(f, w, id)]
           good == { m \in Nat : \E f : Is(m, f) }
<1>0. ASSUME NEW f, NEW g, NEW id \in Nat, \A i \in 0 .. id - 1 : f[i] = g[i]
      PROVE  EventValue(f, w, id) = EventValue(g, w, id)
  <2>1. id \in DOMAIN w => ReadsBefore(w[id], id)
    BY DEF WellFormed
  <2>2. id \in DOMAIN w <=> id \in DOMAIN w
    OBVIOUS
  <2>3. id \in DOMAIN w => w[id] = w[id] /\ ReadsBefore(w[id], id)
    BY <2>1
  <2> QED
    BY <1>0, <2>2, <2>3, EventDepends
<1>1. 0 \in good
  <2> DEFINE f == [id \in 0 .. 0 |-> EventValue(<<>>, w, 0)]
  <2>1. \A id \in 0 .. 0 : id = 0
    OBVIOUS
  <2>2. 0 .. 0 - 1 = {}
    OBVIOUS
  <2>3. f = [id \in 0 .. 0 |-> f[id]]
    OBVIOUS
  <2>4. \A id \in 0 .. 0 : f[id] = EventValue(<<>>, w, 0)
    OBVIOUS
  <2> HIDE DEF f
  <2>5. EventValue(<<>>, w, 0) = EventValue(f, w, 0)
    BY <1>0, <2>2
  <2>6. \A id \in 0 .. 0 : f[id] = EventValue(f, w, id)
    BY <2>1, <2>4, <2>5
  <2>7. Is(0, f)
    BY <2>3, <2>6
  <2> QED
    BY <2>7
<1>2. ASSUME NEW m \in Nat, m \in good PROVE m + 1 \in good
  <2>1. PICK f : Is(m, f)
    BY <1>2
  <2> DEFINE g == [id \in 0 .. m + 1 |-> IF id = m + 1 THEN EventValue(f, w, m + 1) ELSE f[id]]
  <2>2. g[m + 1] = EventValue(f, w, m + 1) /\ \A id \in 0 .. m : g[id] = f[id]
    OBVIOUS
  <2>3. g = [id \in 0 .. m + 1 |-> g[id]]
    OBVIOUS
  <2> HIDE DEF g
  <2>4. ASSUME NEW id \in 0 .. m + 1 PROVE g[id] = EventValue(g, w, id)
    <3>1. \A i \in 0 .. id - 1 : i \in 0 .. m /\ g[i] = f[i]
      BY <2>2
    <3>2. EventValue(g, w, id) = EventValue(f, w, id)
      BY <1>0, <3>1
    <3>3. CASE id = m + 1
      BY <2>2, <3>2, <3>3
    <3>4. CASE id # m + 1
      <4>1. id \in 0 .. m
        BY <3>4
      <4>2. f[id] = EventValue(f, w, id)
        BY <2>1, <4>1
      <4> QED
        BY <2>2, <3>2, <4>1, <4>2
    <3> QED
      BY <3>3, <3>4
  <2>5. Is(m + 1, g)
    BY <2>3, <2>4
  <2> QED
    BY <2>5
<1>3. n \in good
  <2> HIDE DEF good
  <2> QED BY <1>1, <1>2, SetInduction
<1>4. \E f : Is(n, f)
  BY <1>3
<1> QED
  BY <1>4, Zenon DEF MeaningOf

(* Events that have not changed keep their meaning.                        *)
LEMMA MeaningKept ==
  ASSUME NEW w, WellFormed(w), NEW y, WellFormed(y), NEW n \in Nat, NEW m \in Nat,
         NEW k \in Nat, k <= n + 1, k <= m + 1,
         \A id \in Nat : id < k => (id \in DOMAIN w <=> id \in DOMAIN y) /\ (id \in DOMAIN w => w[id] = y[id])
  PROVE  \A id \in Nat : id < k => MeaningOf(w, n)[id] = MeaningOf(y, m)[id]
<1> DEFINE f == MeaningOf(w, n)
           g == MeaningOf(y, m)
           same == { j \in Nat : j <= k => \A id \in 0 .. j - 1 : f[id] = g[id] }
<1>1. /\ f = [id \in 0 .. n |-> EventValue(f, w, id)]
      /\ g = [id \in 0 .. m |-> EventValue(g, y, id)]
  BY MeaningExists
<1> HIDE DEF f, g
<1>2. 0 \in same
  OBVIOUS
<1>3. ASSUME NEW j \in Nat, j \in same PROVE j + 1 \in same
  <2> SUFFICES ASSUME j + 1 <= k, NEW id \in 0 .. (j + 1) - 1 PROVE f[id] = g[id]
    OBVIOUS
  <2>1. \A i \in 0 .. j - 1 : f[i] = g[i]
    BY <1>3
  <2>2. CASE id \in 0 .. j - 1
    BY <2>1, <2>2
  <2>3. CASE id = j
    <3>1. id \in 0 .. n /\ id \in 0 .. m /\ id \in Nat /\ id < k
      BY <2>3
    <3>2. f[id] = EventValue(f, w, id) /\ g[id] = EventValue(g, y, id)
      BY <1>1, <3>1
    <3>3. \A i \in 0 .. id - 1 : f[i] = g[i]
      BY <2>1, <2>3
    <3>4. (id \in DOMAIN w <=> id \in DOMAIN y) /\ (id \in DOMAIN w => w[id] = y[id] /\ ReadsBefore(w[id], id))
      BY <3>1 DEF WellFormed
    <3>5. EventValue(f, w, id) = EventValue(g, y, id)
      BY <3>1, <3>3, <3>4, EventDepends
    <3> QED
      BY <3>2, <3>5
  <2> QED
    BY <2>2, <2>3
<1>4. \A j \in Nat : j \in same
  <2> HIDE DEF same
  <2> QED BY <1>2, <1>3, SetInduction
<1>5. k \in same
  BY <1>4
<1> QED
  BY <1>5 DEF f, g

-----------------------------------------------------------------------------
(* Execution, as the recursive function it is, of any history h.           *)
Start == [env |-> <<>>, writes |-> <<>>]

Performed(h, taken, f, n) == IF n = 0 THEN Start ELSE Perform(f[n - 1], h[n], taken)

ExecutionOf(h, taken) == (CHOOSE f : f = [n \in 0 .. Len(h) |-> Performed(h, taken, f, n)])[Len(h)]

(* Execution, as the recursive function it is.                             *)
LEMMA ExecutionUnfolded ==
  ASSUME NEW taken
  PROVE  Execution(taken) = ExecutionOf(log, taken)
BY DEF Execution, ExecutionOf, Performed, Start

(* An execution performs one write of the program after the other.         *)
LEMMA ExecutionFollows ==
  ASSUME NEW h, Len(h) \in Nat, NEW taken
  PROVE  \E f : /\ f[0] = Start
                /\ \A i \in 1 .. Len(h) : f[i] = Perform(f[i - 1], h[i], taken)
                /\ ExecutionOf(h, taken) = f[Len(h)]
<1> DEFINE n == Len(h)
           Is(m, f) == f = [i \in 0 .. m |-> Performed(h, taken, f, i)]
           good == { m \in Nat : \E f : Is(m, f) }
<1>1. 0 \in good
  <2> DEFINE f == [i \in 0 .. 0 |-> Start]
  <2>1. \A i \in 0 .. 0 : i = 0
    OBVIOUS
  <2>2. ASSUME NEW i \in 0 .. 0 PROVE Performed(h, taken, f, i) = Start
    BY <2>1 DEF Performed
  <2> HIDE DEF Performed
  <2>3. Is(0, f)
    BY <2>2
  <2> QED
    BY <2>3
<1>2. ASSUME NEW m \in Nat, m \in good PROVE m + 1 \in good
  <2>1. PICK f : Is(m, f)
    BY <1>2
  <2> DEFINE g == [i \in 0 .. m + 1 |-> IF i = m + 1 THEN Perform(f[m], h[m + 1], taken) ELSE f[i]]
  <2>2. g[m + 1] = Perform(f[m], h[m + 1], taken) /\ \A i \in 0 .. m : g[i] = f[i]
    OBVIOUS
  <2>3. g = [i \in 0 .. m + 1 |-> g[i]]
    OBVIOUS
  <2> HIDE DEF g
  <2>4. ASSUME NEW i \in 0 .. m + 1 PROVE g[i] = Performed(h, taken, g, i)
    <3>1. i = 0 \/ i = m + 1 \/ (i \in 1 .. m /\ i - 1 \in 0 .. m /\ i # 0)
      OBVIOUS
    <3>2. 0 \in 0 .. m /\ m \in 0 .. m /\ (m + 1) - 1 = m /\ m + 1 # 0 /\ \A j \in 1 .. m : j \in 0 .. m
      OBVIOUS
    <3>3. CASE i = 0
      <4>1. f[0] = Start
        BY <2>1, <3>2 DEF Performed
      <4> QED
        BY <2>2, <3>2, <3>3, <4>1 DEF Performed
    <3>4. CASE i = m + 1
      BY <2>2, <3>2, <3>4 DEF Performed
    <3>5. CASE i \in 1 .. m /\ i - 1 \in 0 .. m /\ i # 0
      <4>1. f[i] = Performed(h, taken, f, i)
        BY <2>1, <3>2, <3>5
      <4>2. g[i] = f[i] /\ g[i - 1] = f[i - 1]
        BY <2>2, <3>2, <3>5
      <4> QED
        BY <3>5, <4>1, <4>2 DEF Performed
    <3> QED
      BY <3>1, <3>3, <3>4, <3>5
  <2> HIDE DEF Performed
  <2>5. Is(m + 1, g)
    BY <2>3, <2>4
  <2> QED
    BY <2>5
<1>3. n \in good
  <2> HIDE DEF good
  <2> QED BY <1>1, <1>2, SetInduction
<1> DEFINE f == CHOOSE f : Is(n, f)
<1>4. Is(n, f)
  BY <1>3
<1>5. ExecutionOf(h, taken) = f[n]
  BY DEF ExecutionOf
<1> HIDE DEF f
<1>6. f[0] = Start
  BY <1>4 DEF Performed
<1>7. ASSUME NEW i \in 1 .. n PROVE f[i] = Perform(f[i - 1], h[i], taken)
  <2>1. i \in 0 .. n /\ i # 0
    OBVIOUS
  <2> QED
    BY <1>4, <2>1 DEF Performed
<1> QED
  BY <1>5, <1>6, <1>7

(* The empty history.                                                      *)
LEMMA ExecutionOfNone ==
  ASSUME NEW taken
  PROVE  ExecutionOf(<<>>, taken) = Start
<1>1. Len(<<>>) = 0 /\ Len(<<>>) \in Nat
  OBVIOUS
<1>2. PICK f : f[0] = Start /\ ExecutionOf(<<>>, taken) = f[Len(<<>>)]
  BY <1>1, ExecutionFollows
<1> QED
  BY <1>1, <1>2

(* One write more.                                                         *)
LEMMA ExecutionAppended ==
  ASSUME NEW S, NEW h \in Seq(S), NEW w \in S, NEW taken
  PROVE  ExecutionOf(Append(h, w), taken) = Perform(ExecutionOf(h, taken), w, taken)
<1> DEFINE g == Append(h, w)
           n == Len(h)
           m == n + 1
<1>1. n \in Nat /\ DOMAIN h = 1 .. n
  OBVIOUS
<1>2. Len(g) = m /\ g[m] = w /\ \A i \in DOMAIN h : g[i] = h[i]
  BY AppendFacts
<1> HIDE DEF g
<1>3. PICK a : /\ a[0] = Start
               /\ \A i \in 1 .. Len(h) : a[i] = Perform(a[i - 1], h[i], taken)
               /\ ExecutionOf(h, taken) = a[Len(h)]
  BY <1>1, ExecutionFollows
<1>4. Len(g) \in Nat
  BY <1>1, <1>2
<1>5. PICK b : /\ b[0] = Start
               /\ \A i \in 1 .. Len(g) : b[i] = Perform(b[i - 1], g[i], taken)
               /\ ExecutionOf(g, taken) = b[Len(g)]
  BY <1>4, ExecutionFollows
<1> DEFINE same == { j \in Nat : j <= n => a[j] = b[j] }
<1> HIDE DEF n
<1>6. 0 \in same
  BY <1>3, <1>5
<1>7. ASSUME NEW j \in Nat, j \in same PROVE j + 1 \in same
  <2> SUFFICES ASSUME j + 1 <= n PROVE a[j + 1] = b[j + 1]
    OBVIOUS
  <2> DEFINE i == j + 1
  <2>1. i \in 1 .. n /\ i \in 1 .. m /\ i - 1 = j /\ j <= n
    BY <1>1
  <2>2. a[j] = b[j]
    BY <1>7, <2>1
  <2> HIDE DEF i, m
  <2>3. g[i] = h[i]
    BY <1>1, <1>2, <2>1
  <2>4. a[i] = Perform(a[i - 1], h[i], taken)
    BY <1>3, <2>1 DEF n
  <2>5. b[i] = Perform(b[i - 1], g[i], taken)
    BY <1>2, <1>5, <2>1
  <2>6. a[i] = b[i]
    BY <2>1, <2>2, <2>3, <2>4, <2>5
  <2> QED
    BY <2>6 DEF i
<1>8. \A j \in Nat : j \in same
  <2> HIDE DEF same
  <2> QED BY <1>6, <1>7, SetInduction
<1>9. a[n] = b[n]
  BY <1>1, <1>8
<1>10. m \in 1 .. m /\ m - 1 = n
  BY <1>1
<1> HIDE DEF m
<1>11. b[m] = Perform(b[m - 1], g[m], taken)
  BY <1>2, <1>5, <1>10
<1>12. ExecutionOf(g, taken) = b[m] /\ ExecutionOf(h, taken) = a[n]
  BY <1>2, <1>3, <1>5 DEF n
<1>13. ExecutionOf(g, taken) = Perform(ExecutionOf(h, taken), w, taken)
  BY <1>2, <1>9, <1>10, <1>11, <1>12
<1> QED
  BY <1>13 DEF g

-----------------------------------------------------------------------------
(* The invariant of the executions.  A write of an execution has the       *)
(* meaning of its event, and so does a local variable that is declared in  *)
(* arms that the execution goes through.                                   *)
Reached(arms, taken) == \A i \in DOMAIN arms : taken[arms[i].branch] = arms[i].taken

WritesMean(f, w, run) == \A id \in DOMAIN run.writes : id \in DOMAIN w /\ run.writes[id] = f[id]

LocalMeans(f, l, run) == l \in DOMAIN run.env /\ run.env[l] = f[locals[l].id]

LocalsMean(f, run, taken) ==
  \A l \in DOMAIN locals : Reached(scope[l].declared, taken) => LocalMeans(f, l, run)

Agrees(taken) ==
  /\ WritesMean(MeaningOf(written, nextId), written, ExecutionOf(log, taken))
  /\ LocalsMean(MeaningOf(written, nextId), ExecutionOf(log, taken), taken)

HistoryInv == \E S : log \in Seq(S)

ExecutionsInv == WellFormed(written) /\ HistoryInv /\ \A taken : Agrees(taken)

(* The operands that the program can give to an instruction.               *)
AreOperands(source) == \A j \in DOMAIN source : source[j] \in {Literal, Shared} \union LocalOperands

-----------------------------------------------------------------------------
(* The event of a local variable is written.                               *)
LEMMA LocalEvent ==
  ASSUME IInv, NEW l \in DOMAIN locals
  PROVE  locals[l].id \in DOMAIN written /\ locals[l].id \in 0 .. nextId - 1
BY DEF IInv, LocalsInv, EventsInv

(* A local operand names a local variable in scope.                        *)
LEMMA OperandKinds ==
  ASSUME NEW x \in {Literal, Shared} \union LocalOperands
  PROVE  \/ x = Literal
         \/ x = Shared
         \/ x[2] \in DOMAIN locals /\ x[1] = "local" /\ Term(x) = <<"event", locals[x[2]].id>>
         \/ x[2] \in DOMAIN locals /\ x[1] = "element" /\ Term(x) = <<"select", locals[x[2]].id, x[3]>>
<1>1. CASE x \in {Literal, Shared}
  BY <1>1
<1>2. CASE x \in { <<"local", l>> : l \in DOMAIN locals \intersect Scalar }
  <2>1. PICK l \in DOMAIN locals : x = <<"local", l>>
    BY <1>2
  <2> QED
    BY <2>1 DEF Term
<1>3. CASE x \in { <<"element", a, i>> : a \in DOMAIN locals \intersect Array, i \in Index }
  <2>1. PICK a \in DOMAIN locals, i \in Index : x = <<"element", a, i>>
    BY <1>3
  <2> QED
    BY <2>1 DEF Term
<1> QED
  BY <1>1, <1>2, <1>3 DEF LocalOperands

(* The identifier of a write is past the events that it reads.             *)
LEMMA WriteIdBounds ==
  ASSUME IInv, NEW source
  PROVE  /\ WriteId(source) \in {nextId, nextId + 1} /\ nextId \in Nat
         /\ \A j \in DOMAIN source : source[j] = Shared => WriteId(source) = nextId + 1
<1>1. nextId \in Nat
  BY DEF IInv, EventsInv
<1>2. ASSUME NEW j \in DOMAIN source, source[j] = Shared PROVE Shared \in Range(source)
  BY <1>2 DEF Range
<1> QED
  BY <1>1, <1>2 DEF WriteId

(* The instruction of a write reads events before the write.               *)
LEMMA SourceBefore ==
  ASSUME IInv, NEW source, AreOperands(source)
  PROVE  TermsBefore(Terms(source), WriteId(source))
<1> DEFINE id == WriteId(source)
<1>1. /\ id \in {nextId, nextId + 1} /\ nextId \in Nat
      /\ \A j \in DOMAIN source : source[j] = Shared => id = nextId + 1
  BY WriteIdBounds
<1> HIDE DEF id
<1>2. ASSUME NEW j \in DOMAIN source, Term(source[j])[1] \in {"event", "select"}
      PROVE  Term(source[j])[2] \in 0 .. id - 1
  <2> DEFINE x == source[j]
  <2>1. x \in {Literal, Shared} \union LocalOperands
    BY DEF AreOperands
  <2>2. CASE x = Literal
    <3>1. Term(x) = x
      BY <2>2 DEF Term, Literal
    <3>2. Term(x)[1] = "literal"
      BY <2>2, <3>1 DEF Literal
    <3> QED
      BY <1>2, <3>2
  <2>3. CASE x = Shared
    <3>1. Term(x) = x /\ id = nextId + 1
      BY <1>1, <2>3 DEF Term, Shared
    <3>2. Term(x)[2] = nextId
      BY <2>3, <3>1 DEF Shared
    <3> QED
      BY <1>1, <3>1, <3>2
  <2>4. CASE /\ x[2] \in DOMAIN locals
             /\ \/ Term(x) = <<"event", locals[x[2]].id>>
                \/ Term(x) = <<"select", locals[x[2]].id, x[3]>>
    <3>1. locals[x[2]].id \in 0 .. nextId - 1
      BY <2>4, LocalEvent
    <3>2. Term(x)[2] = locals[x[2]].id
      BY <2>4
    <3> HIDE DEF x
    <3>3. Term(x)[2] \in 0 .. id - 1
      BY <1>1, <3>1, <3>2
    <3> QED
      BY <3>3 DEF x
  <2> HIDE DEF x
  <2>5. \/ x = Literal
        \/ x = Shared
        \/ x[2] \in DOMAIN locals /\ x[1] = "local" /\ Term(x) = <<"event", locals[x[2]].id>>
        \/ x[2] \in DOMAIN locals /\ x[1] = "element" /\ Term(x) = <<"select", locals[x[2]].id, x[3]>>
    BY <2>1, OperandKinds
  <2>6. Term(x)[2] \in 0 .. id - 1
    BY <2>2, <2>3, <2>4, <2>5 DEF x
  <2> QED
    BY <2>6 DEF x
<1>3. /\ DOMAIN Terms(source) = DOMAIN source
      /\ \A j \in DOMAIN source : Terms(source)[j] = Term(source[j])
  BY DEF Terms
<1>4. TermsBefore(Terms(source), id)
  BY <1>2, <1>3 DEF TermsBefore
<1> QED
  BY <1>4 DEF id

(* A local variable in scope is declared in arms that are open.            *)
LEMMA ScopeReached ==
  ASSUME IInv, NEW l \in DOMAIN locals, NEW taken, Reached(open, taken)
  PROVE  Reached(scope[l].declared, taken)
<1>1. Prefix(scope[l].declared, open) /\ scope[l].declared \in Seq(ArmType)
  BY DEF IInv, LocalsInv, InArm
<1> DEFINE d == scope[l].declared
<1>2. open \in Seq(ArmType)
  BY DEF IInv, ArmsInv
<1>3. d \in Seq(ArmType) /\ Len(d) <= Len(open) /\ \A i \in DOMAIN d : d[i] = open[i]
  BY <1>1 DEF Prefix
<1> HIDE DEF d
<1>4. \A i \in DOMAIN d : i \in DOMAIN open
  BY <1>2, <1>3
<1>5. Reached(d, taken)
  BY <1>3, <1>4 DEF Reached
<1> QED
  BY <1>5 DEF d

(* What the execution reads is what the formula says of it.                *)
OldMeaning(f) == \A l \in DOMAIN locals : f[locals[l].id] = MeaningOf(written, nextId)[locals[l].id]

(* The execution reads in an operand what the formula says of it.          *)
LEMMA OperandMeans ==
  ASSUME IInv, ExecutionsInv, NEW taken, Reached(open, taken),
         NEW x \in {Literal, Shared} \union LocalOperands,
         NEW f, OldMeaning(f), x = Shared => f[nextId] = Shared
  PROVE  Operand(ExecutionOf(log, taken).env, x) = TermValue(f, Term(x))
<1> DEFINE env == ExecutionOf(log, taken).env
<1>1. ASSUME NEW l \in DOMAIN locals PROVE env[l] = f[locals[l].id]
  <2>1. Reached(scope[l].declared, taken)
    BY ScopeReached
  <2>2. LocalsMean(MeaningOf(written, nextId), ExecutionOf(log, taken), taken)
    BY DEF ExecutionsInv, Agrees
  <2>3. env[l] = MeaningOf(written, nextId)[locals[l].id]
    BY <2>1, <2>2 DEF LocalsMean, LocalMeans
  <2> QED
    BY <2>3 DEF OldMeaning
<1> HIDE DEF env
<1>2. CASE x = Literal
  BY <1>2 DEF Operand, Term, TermValue, Literal
<1>3. CASE x = Shared
  <2>1. Term(x) = x /\ Operand(env, x) = x /\ x[1] = "event" /\ x[2] = nextId
    BY <1>3 DEF Operand, Term, Shared
  <2>2. TermValue(f, x) = f[nextId]
    BY <2>1 DEF TermValue
  <2> QED
    BY <1>3, <2>1, <2>2 DEF env
<1>4. CASE x[2] \in DOMAIN locals /\ x[1] = "local" /\ Term(x) = <<"event", locals[x[2]].id>>
  <2>1. Operand(env, x) = env[x[2]]
    BY <1>4 DEF Operand
  <2>2. TermValue(f, Term(x)) = f[locals[x[2]].id]
    BY <1>4 DEF TermValue
  <2> QED
    BY <1>1, <1>4, <2>1, <2>2 DEF env
<1>5. CASE x[2] \in DOMAIN locals /\ x[1] = "element" /\ Term(x) = <<"select", locals[x[2]].id, x[3]>>
  <2>1. Operand(env, x) = env[x[2]][x[3]]
    BY <1>5 DEF Operand
  <2>2. TermValue(f, Term(x)) = f[locals[x[2]].id][x[3]]
    BY <1>5 DEF TermValue
  <2> QED
    BY <1>1, <1>5, <2>1, <2>2 DEF env
<1>6. \/ x = Literal
      \/ x = Shared
      \/ x[2] \in DOMAIN locals /\ x[1] = "local" /\ Term(x) = <<"event", locals[x[2]].id>>
      \/ x[2] \in DOMAIN locals /\ x[1] = "element" /\ Term(x) = <<"select", locals[x[2]].id, x[3]>>
  BY OperandKinds
<1> QED
  BY <1>2, <1>3, <1>4, <1>5, <1>6 DEF env

ReadsShared(f, source) == \A j \in DOMAIN source : source[j] = Shared => f[nextId] = Shared

(* The instruction has the value that the execution computes.              *)
LEMMA SourceMeans ==
  ASSUME IInv, ExecutionsInv, NEW taken, Reached(open, taken), NEW source, AreOperands(source),
         NEW f, OldMeaning(f), ReadsShared(f, source)
  PROVE  Instruction([j \in DOMAIN source |-> Operand(ExecutionOf(log, taken).env, source[j])])
           = TermsValue(f, Terms(source))
<1>1. ASSUME NEW j \in DOMAIN source
      PROVE  Operand(ExecutionOf(log, taken).env, source[j]) = TermValue(f, Terms(source)[j])
  <2>1. source[j] \in {Literal, Shared} \union LocalOperands
    BY DEF AreOperands
  <2>2. source[j] = Shared => f[nextId] = Shared
    BY DEF ReadsShared
  <2>3. Terms(source)[j] = Term(source[j])
    BY DEF Terms
  <2>4. Operand(ExecutionOf(log, taken).env, source[j]) = TermValue(f, Term(source[j]))
    BY <2>1, <2>2, OperandMeans
  <2> QED
    BY <2>3, <2>4
<1>2. DOMAIN Terms(source) = DOMAIN source
  BY DEF Terms
<1>3. [j \in DOMAIN source |-> Operand(ExecutionOf(log, taken).env, source[j])]
        = [j \in DOMAIN Terms(source) |-> TermValue(f, Terms(source)[j])]
  BY <1>1, <1>2
<1> QED
  BY <1>3, Zenon DEF TermsValue

-----------------------------------------------------------------------------
(* A write takes a new identifier and refers to events before it.          *)
Entry(target, source, id) == [target |-> target, source |-> source, id |-> id, arms |-> open]

Added(target, source, id, x) ==
  /\ nextId' = id + 1
  /\ written' = Put(written, id, x)
  /\ log' = Append(log, Entry(target, source, id))
  /\ id = WriteId(source)
  /\ ReadsBefore(x, id)

(* The new event, and those before it.                                     *)
LEMMA AddedMeaning ==
  ASSUME IInv, ExecutionsInv, NEW target, NEW source, NEW id, NEW x, Added(target, source, id, x),
         NEW f, f = MeaningOf(written', nextId')
  PROVE  /\ WellFormed(written')
         /\ f[id] = EventValue(f, written', id)
         /\ \A i \in DOMAIN written : i # id /\ f[i] = MeaningOf(written, nextId)[i]
         /\ ReadsShared(f, source)
<1>1. /\ id \in {nextId, nextId + 1} /\ nextId \in Nat
      /\ \A j \in DOMAIN source : source[j] = Shared => id = nextId + 1
  BY WriteIdBounds DEF Added
<1> DEFINE w == written
           y == written'
           m == nextId'
<1>2. WellFormed(w) /\ DOMAIN w \subseteq 0 .. nextId - 1
  BY DEF ExecutionsInv, IInv, EventsInv
<1>3. /\ DOMAIN y = DOMAIN w \union {id} /\ y[id] = x
      /\ \A i \in DOMAIN w : i # id => y[i] = w[i]
  BY DEF Added, Put
<1>4. m = id + 1 /\ ReadsBefore(x, id)
  BY DEF Added
<1>5. f = MeaningOf(y, m)
  OBVIOUS
<1> HIDE DEF w, y, m
<1>6. id \notin DOMAIN w /\ id \in Nat /\ m \in Nat
  BY <1>1, <1>2, <1>4
<1>7. WellFormed(y)
  <2> SUFFICES ASSUME NEW i \in DOMAIN y PROVE ReadsBefore(y[i], i)
    BY DEF WellFormed
  <2>1. CASE i = id
    BY <1>3, <1>4, <2>1
  <2>2. CASE i # id
    BY <1>2, <1>3, <2>2 DEF WellFormed
  <2> QED
    BY <2>1, <2>2
<1>8. MeaningOf(y, m) = [i \in 0 .. m |-> EventValue(MeaningOf(y, m), y, i)]
  BY <1>6, <1>7, MeaningExists
<1>9. f = [i \in 0 .. m |-> EventValue(f, y, i)]
  BY <1>5, <1>8
<1>10. id \in 0 .. m /\ nextId \in 0 .. m
  BY <1>1, <1>4
<1>11. f[id] = EventValue(f, y, id)
  BY <1>9, <1>10
<1>12. ReadsShared(f, source)
  <2> SUFFICES ASSUME NEW j \in DOMAIN source, source[j] = Shared PROVE f[nextId] = Shared
    BY DEF ReadsShared
  <2>1. nextId \notin DOMAIN y
    BY <1>1, <1>2, <1>3
  <2>2. f[nextId] = EventValue(f, y, nextId)
    BY <1>9, <1>10
  <2> QED
    BY <2>1, <2>2 DEF EventValue, Shared
<1>13. ASSUME NEW i \in DOMAIN w PROVE i # id /\ f[i] = MeaningOf(w, nextId)[i]
  <2>1. id <= nextId + 1 /\ id <= m + 1
    BY <1>1, <1>4
  <2>2. \A k \in Nat : k < id => (k \in DOMAIN w <=> k \in DOMAIN y) /\ (k \in DOMAIN w => w[k] = y[k])
    BY <1>3, <1>6
  <2>3. \A k \in Nat : k < id => MeaningOf(w, nextId)[k] = MeaningOf(y, m)[k]
    BY <1>1, <1>2, <1>6, <1>7, <2>1, <2>2, MeaningKept
  <2>4. i \in Nat /\ i < id
    BY <1>1, <1>2
  <2> QED
    BY <1>5, <2>3, <2>4
<1> QED
  BY <1>7, <1>11, <1>12, <1>13 DEF w, y

(* The variable that a write assigns, if it assigns a local one.           *)
AssignsLocal(target, id) ==
  \/ /\ ~IsLocal(target)
     /\ UNCHANGED <<locals, scope>>
  \/ /\ IsLocal(target)
     /\ locals' = Put(locals, target[2], ReadEvent(id))
     /\ scope'[target[2]].declared = open
     /\ \A l \in DOMAIN locals : l # target[2] => scope'[l] = scope[l]

(* An execution that goes through the open arms writes what the formula    *)
(* says.                                                                   *)
ValueAgrees(target, source, id, x, f) ==
  \A taken : Reached(open, taken) =>
     NewValue(ExecutionOf(log, taken).env, Entry(target, source, id)) = EventValue(f, Put(written, id, x), id)

(* A write more is the last one that the execution performs.               *)
LEMMA LogAppended ==
  ASSUME HistoryInv, NEW e, log' = Append(log, e)
  PROVE  /\ HistoryInv'
         /\ \A taken : ExecutionOf(log, taken)' = Perform(ExecutionOf(log, taken), e, taken)
<1>1. PICK S : log \in Seq(S)
  BY DEF HistoryInv
<1> DEFINE T == S \union {e}
<1>2. log \in Seq(T) /\ e \in T
  BY <1>1
<1> HIDE DEF T
<1>3. log' \in Seq(T)
  BY <1>2, AppendFacts
<1>4. \A taken : ExecutionOf(Append(log, e), taken) = Perform(ExecutionOf(log, taken), e, taken)
  BY <1>2, ExecutionAppended
<1>5. \A taken : ExecutionOf(log, taken)' = ExecutionOf(Append(log, e), taken)
  BY Zenon DEF ExecutionOf, Performed
<1> QED
  BY <1>3, <1>4, <1>5 DEF HistoryInv

(* Each write keeps the executions in agreement with the formula.          *)
LEMMA WriteAgrees ==
  ASSUME IInv, ExecutionsInv, NEW target, NEW source, NEW id, NEW x, Added(target, source, id, x),
         UNCHANGED open, AssignsLocal(target, id),
         ValueAgrees(target, source, id, x, MeaningOf(written', nextId'))
  PROVE  ExecutionsInv'
<1> DEFINE f == MeaningOf(written', nextId')
           g == MeaningOf(written, nextId)
           e == Entry(target, source, id)
<1>1. /\ WellFormed(written')
      /\ f[id] = EventValue(f, written', id)
      /\ \A i \in DOMAIN written : i # id /\ f[i] = g[i]
  BY AddedMeaning
<1>2. written' = Put(written, id, x) /\ log' = Append(log, e)
  BY DEF Added
<1>3. DOMAIN written' = DOMAIN written \union {id}
  BY <1>2, PutDomain
<1>4. /\ HistoryInv'
      /\ \A taken : ExecutionOf(log, taken)' = Perform(ExecutionOf(log, taken), e, taken)
  BY <1>2, LogAppended DEF ExecutionsInv
<1>5. /\ e.target = target /\ e.id = id /\ e.arms = open
  BY DEF Entry
<1>6. \A taken : Reached(open, taken) => NewValue(ExecutionOf(log, taken).env, e) = f[id]
  BY <1>1, <1>2 DEF ValueAgrees
<1> HIDE DEF e
<1>7. ASSUME NEW taken PROVE Agrees(taken)'
  <2> DEFINE run == ExecutionOf(log, taken)
             next == ExecutionOf(log, taken)'
             v == NewValue(run.env, e)
  <2>1. next = Perform(run, e, taken)
    BY <1>4
  <2>2. WritesMean(g, written, run) /\ LocalsMean(g, run, taken)
    BY DEF ExecutionsInv, Agrees
  <2>3. CASE ~Reached(open, taken)
    <3>1. next = run
      BY <1>5, <2>1, <2>3 DEF Perform, Executed, Reached
    <3> HIDE DEF f, g, run, next
    <3>2. WritesMean(f, written', next)
      BY <1>1, <1>3, <2>2, <3>1 DEF WritesMean
    <3>3. ASSUME NEW l \in DOMAIN locals', Reached(scope'[l].declared, taken)
          PROVE  l \in DOMAIN next.env /\ next.env[l] = f[locals'[l].id]
      <4>1. ~IsLocal(target) \/ l # target[2]
        BY <2>3, <3>3 DEF AssignsLocal
      <4>2. l \in DOMAIN locals /\ locals'[l] = locals[l] /\ scope'[l] = scope[l]
        BY <4>1 DEF AssignsLocal, Put
      <4>3. l \in DOMAIN run.env /\ run.env[l] = g[locals[l].id]
        BY <2>2, <3>3, <4>2 DEF LocalsMean, LocalMeans
      <4>4. f[locals[l].id] = g[locals[l].id]
        BY <1>1, <4>2, LocalEvent
      <4> QED
        BY <3>1, <4>2, <4>3, <4>4
    <3> QED
      BY <3>2, <3>3 DEF Agrees, LocalsMean, LocalMeans, f, next
  <2>4. CASE Reached(open, taken)
    <3>1. v = f[id]
      BY <1>6, <2>4
    <3>2. next = [env    |-> IF IsLocal(target) THEN Put(run.env, target[2], v) ELSE run.env,
                  writes |-> Put(run.writes, id, v)]
      BY <1>5, <2>1, <2>4 DEF Perform, Executed, Reached
    <3> HIDE DEF f, g, run, next, v
    <3>3. /\ next.env = (IF IsLocal(target) THEN Put(run.env, target[2], v) ELSE run.env)
          /\ next.writes = Put(run.writes, id, v)
      BY <3>2
    <3>4. WritesMean(f, written', next)
      <4>1. DOMAIN next.writes = DOMAIN run.writes \union {id} /\ next.writes[id] = v
        BY <3>3 DEF Put
      <4>2. \A i \in DOMAIN run.writes : i # id => next.writes[i] = run.writes[i]
        BY <3>3 DEF Put
      <4>3. \A i \in DOMAIN run.writes : i \in DOMAIN written /\ run.writes[i] = g[i]
        BY <2>2 DEF WritesMean
      <4> QED
        BY <1>1, <1>3, <3>1, <4>1, <4>2, <4>3 DEF WritesMean
    <3>5. ASSUME NEW l \in DOMAIN locals', Reached(scope'[l].declared, taken)
          PROVE  l \in DOMAIN next.env /\ next.env[l] = f[locals'[l].id]
      <4>1. CASE IsLocal(target) /\ l = target[2]
        <5>1. locals'[l].id = id
          BY <4>1 DEF AssignsLocal, Put, ReadEvent
        <5>2. l \in DOMAIN next.env /\ next.env[l] = v
          BY <3>3, <4>1 DEF Put
        <5> QED
          BY <3>1, <5>1, <5>2
      <4>2. CASE ~IsLocal(target) \/ l # target[2]
        <5>1. l \in DOMAIN locals /\ locals'[l] = locals[l] /\ scope'[l] = scope[l]
          BY <4>2 DEF AssignsLocal, Put
        <5>2. l \in DOMAIN run.env /\ run.env[l] = g[locals[l].id]
          BY <2>2, <3>5, <5>1 DEF LocalsMean, LocalMeans
        <5>3. f[locals[l].id] = g[locals[l].id]
          BY <1>1, <5>1, LocalEvent
        <5>4. l \in DOMAIN next.env /\ next.env[l] = run.env[l]
          BY <3>3, <4>2, <5>2 DEF Put
        <5> QED
          BY <5>1, <5>2, <5>3, <5>4
      <4> QED
        BY <4>1, <4>2
    <3> QED
      BY <3>4, <3>5 DEF Agrees, LocalsMean, LocalMeans, f, next
  <2> QED
    BY <2>3, <2>4
<1> QED
  BY <1>1, <1>4, <1>7 DEF ExecutionsInv

-----------------------------------------------------------------------------
(* The meaning of the local variables after a write.                       *)
LEMMA AddedSource ==
  ASSUME IInv, ExecutionsInv, NEW target, NEW source, AreOperands(source), NEW id, NEW x,
         Added(target, source, id, x), NEW f, f = MeaningOf(written', nextId'),
         NEW taken, Reached(open, taken)
  PROVE  Instruction([j \in DOMAIN source |-> Operand(ExecutionOf(log, taken).env, source[j])])
           = TermsValue(f, Terms(source))
<1>1. /\ \A i \in DOMAIN written : f[i] = MeaningOf(written, nextId)[i]
      /\ ReadsShared(f, source)
  BY AddedMeaning
<1>2. OldMeaning(f)
  BY <1>1, LocalEvent DEF OldMeaning
<1> QED
  BY <1>1, <1>2, SourceMeans

(* What a direct write of anything but an array means.                     *)
LEMMA DirectAgrees ==
  ASSUME IInv, ExecutionsInv, NEW target, NEW source, AreOperands(source), NEW id,
         Added(target, source, id, <<"direct", Terms(source)>>),
         target[1] # "element", ~(target[1] = "local" /\ target[2] \in Array)
  PROVE  ValueAgrees(target, source, id, <<"direct", Terms(source)>>, MeaningOf(written', nextId'))
<1> DEFINE f == MeaningOf(written', nextId')
           x == <<"direct", Terms(source)>>
           e == Entry(target, source, id)
<1> SUFFICES ASSUME NEW taken, Reached(open, taken)
             PROVE  NewValue(ExecutionOf(log, taken).env, e) = EventValue(f, Put(written, id, x), id)
  BY DEF ValueAgrees
<1> DEFINE env == ExecutionOf(log, taken).env
           v == Instruction([j \in DOMAIN source |-> Operand(env, source[j])])
<1>1. v = TermsValue(f, Terms(source))
  BY AddedSource
<1>2. e.target = target /\ e.source = source
  BY DEF Entry
<1>3. id \in DOMAIN Put(written, id, x) /\ Put(written, id, x)[id] = x
  BY DEF Put
<1>4. x[1] = "direct" /\ x[2] = Terms(source)
  OBVIOUS
<1> HIDE DEF e, x, f, env
<1>5. Instruction([j \in DOMAIN e.source |-> Operand(env, e.source[j])]) = v
  BY <1>2
<1> HIDE DEF v
<1>6. NewValue(env, e) = v
  BY <1>2, <1>5 DEF NewValue
<1>7. EventValue(f, Put(written, id, x), id) = TermsValue(f, Terms(source))
  BY <1>3, <1>4 DEF EventValue
<1> QED
  BY <1>1, <1>6, <1>7 DEF env

(* The read event of a direct write is past what it refers to.             *)
LEMMA DirectAdded ==
  ASSUME IInv, NEW target, NEW source, AreOperands(source),
         nextId' = WriteId(source) + 1,
         written' = Put(written, WriteId(source), <<"direct", Terms(source)>>),
         log' = Append(log, [target |-> target, source |-> source, id |-> WriteId(source), arms |-> open])
  PROVE  Added(target, source, WriteId(source), <<"direct", Terms(source)>>)
<1>1. ReadsBefore(<<"direct", Terms(source)>>, WriteId(source))
  BY SourceBefore DEF ReadsBefore
<1> QED
  BY <1>1 DEF Added, Entry

(* The sources of the assignments are made of operands.                    *)
LEMMA OneOperand ==
  ASSUME NEW x \in {Literal, Shared} \union LocalOperands
  PROVE  AreOperands(<<x>>)
BY DEF AreOperands

LEMMA SourceOperands ==
  ASSUME NEW source \in Sources
  PROVE  AreOperands(source)
<1>1. CASE \E x \in {Literal, Shared} \union LocalOperands : source = <<x>>
  BY <1>1, OneOperand
<1>2. CASE \E x \in LocalOperands : source = <<Shared, x>>
  <2>1. PICK x \in LocalOperands : source = <<Shared, x>>
    BY <1>2
  <2>2. DOMAIN source = 1 .. 2 /\ source[1] = Shared /\ source[2] = x
    BY <2>1
  <2>3. ASSUME NEW j \in DOMAIN source PROVE source[j] \in {Literal, Shared} \union LocalOperands
    <3>1. j = 1 \/ j = 2
      BY <2>2
    <3> QED
      BY <2>2, <3>1
  <2> QED
    BY <2>3 DEF AreOperands
<1> QED
  BY <1>1, <1>2 DEF Sources

(* The writes, one by one.                                                 *)
LEMMA DeclareAgrees ==
  ASSUME IInv, ExecutionsInv, NEW l \in Scalar, NEW x \in {Literal, Shared} \union LocalOperands, Declare(l, x)
  PROVE  ExecutionsInv'
<1> DEFINE source == <<x>>
           id == WriteId(source)
           target == <<"local", l>>
           y == <<"direct", Terms(source)>>
<1>1. /\ l \notin DOMAIN locals
      /\ nextId' = id + 1
      /\ log' = Append(log, [target |-> target, source |-> source, id |-> id, arms |-> open])
      /\ UNCHANGED open
      /\ written' = Put(written, id, y)
      /\ locals' = Put(locals, l, ReadEvent(id))
      /\ scope' = Put(scope, l, [declared |-> open, assigned |-> open])
  BY DEF Declare, Writing
<1>2. AreOperands(source)
  BY OneOperand
<1>3. target[1] = "local" /\ target[2] = l /\ IsLocal(target)
  BY DEF IsLocal
<1>4. l \notin Array /\ DOMAIN scope = DOMAIN locals
  BY VariablesAssumption DEF IInv, LocalsInv
<1> HIDE DEF source, target
<1>5. Added(target, source, id, y)
  BY <1>1, <1>2, DirectAdded
<1>6. ValueAgrees(target, source, id, y, MeaningOf(written', nextId'))
  BY <1>2, <1>3, <1>4, <1>5, DirectAgrees
<1>7. AssignsLocal(target, id)
  <2>1. scope'[l].declared = open /\ \A m \in DOMAIN locals : m # l => scope'[m] = scope[m]
    BY <1>1, <1>4 DEF Put
  <2> QED
    BY <1>1, <1>3, <2>1 DEF AssignsLocal
<1> HIDE DEF id, y
<1> QED
  BY <1>1, <1>5, <1>6, <1>7, WriteAgrees

LEMMA DeclareArrayAgrees ==
  ASSUME IInv, ExecutionsInv, NEW a \in Array, DeclareArray(a)
  PROVE  ExecutionsInv'
<1> DEFINE source == <<Literal>>
           id == nextId
           target == <<"local", a>>
           y == <<"fill", Literal>>
<1>1. /\ nextId' = id + 1
      /\ log' = Append(log, [target |-> target, source |-> source, id |-> id, arms |-> open])
      /\ UNCHANGED open
      /\ written' = Put(written, id, y)
      /\ locals' = Put(locals, a, ReadEvent(id))
      /\ scope' = Put(scope, a, [declared |-> open, assigned |-> open])
  BY DEF DeclareArray, Writing
<1>2. DOMAIN source = 1 .. 1 /\ source[1] = Literal
  OBVIOUS
<1>3. target[1] = "local" /\ target[2] = a /\ IsLocal(target)
  BY DEF IsLocal
<1>4. DOMAIN scope = DOMAIN locals
  BY DEF IInv, LocalsInv
<1>5. y[1] = "fill" /\ y[2] = Literal
  OBVIOUS
<1> HIDE DEF source, target, y
<1>6. Added(target, source, id, y)
  <2>1. Shared # Literal
    BY DEF Shared, Literal
  <2>2. \A j \in DOMAIN source : source[j] = Literal
    BY <1>2
  <2>3. Shared \notin Range(source)
    BY <2>1, <2>2 DEF Range
  <2>4. WriteId(source) = id
    BY <2>3 DEF WriteId
  <2> QED
    BY <1>1, <1>5, <2>4 DEF Added, Entry, ReadsBefore
<1>7. ValueAgrees(target, source, id, y, MeaningOf(written', nextId'))
  <2> DEFINE f == MeaningOf(written', nextId')
             e == Entry(target, source, id)
  <2> SUFFICES ASSUME NEW taken, Reached(open, taken)
               PROVE  NewValue(ExecutionOf(log, taken).env, e) = EventValue(f, Put(written, id, y), id)
    BY DEF ValueAgrees
  <2> DEFINE env == ExecutionOf(log, taken).env
             values == [j \in DOMAIN source |-> Operand(env, source[j])]
  <2>1. e.target = target /\ e.source = source
    BY DEF Entry
  <2>2. id \in DOMAIN Put(written, id, y) /\ Put(written, id, y)[id] = y
    BY DEF Put
  <2> HIDE DEF e, f, env
  <2>3. Operand(env, Literal) = Literal
    BY DEF Operand, Literal
  <2>4. \A j \in 1 .. 1 : j = 1
    OBVIOUS
  <2>5. values = [j \in 1 .. 1 |-> Literal]
    BY <1>2, <2>3, <2>4
  <2>6. Len([j \in 1 .. 1 |-> Literal]) = 1 /\ Head([j \in 1 .. 1 |-> Literal]) = Literal
    BY DEF Literal
  <2>7. Instruction(values) = Literal
    BY <2>5, <2>6 DEF Instruction
  <2>8. Instruction([j \in DOMAIN e.source |-> Operand(env, e.source[j])]) = Instruction(values)
    BY <2>1
  <2> HIDE DEF values
  <2>9. NewValue(env, e) = [i \in Index |-> Literal]
    BY <1>3, <2>1, <2>7, <2>8 DEF NewValue
  <2>10. EventValue(f, Put(written, id, y), id) = [i \in Index |-> Literal]
    BY <1>5, <2>2 DEF EventValue
  <2> QED
    BY <2>9, <2>10 DEF env
<1>8. AssignsLocal(target, id)
  <2>1. scope'[a].declared = open /\ \A m \in DOMAIN locals : m # a => scope'[m] = scope[m]
    BY <1>1, <1>4 DEF Put
  <2> QED
    BY <1>1, <1>3, <2>1 DEF AssignsLocal
<1> HIDE DEF id
<1> QED
  BY <1>1, <1>6, <1>7, <1>8, WriteAgrees

(* An assignment leaves the arms of a declaration.                         *)
LEMMA AssignedDeclared ==
  ASSUME IInv, NEW l, Assignable(l), scope' = [scope EXCEPT ![l].assigned = open]
  PROVE  scope'[l].declared = open /\ \A m \in DOMAIN locals : m # l => scope'[m] = scope[m]
<1>1. DOMAIN scope = DOMAIN locals
  BY DEF IInv, LocalsInv
<1>2. /\ scope'[l] = [declared |-> open, assigned |-> open]
      /\ \A m \in DOMAIN scope \ {l} : scope'[m] = scope[m]
  BY AssignedScope
<1>3. scope'[l].declared = open
  BY <1>2
<1> QED
  BY <1>1, <1>2, <1>3

LEMMA AssignAgrees ==
  ASSUME IInv, ExecutionsInv, NEW l \in Scalar, NEW source \in Sources, Assign(l, source)
  PROVE  ExecutionsInv'
<1> DEFINE id == WriteId(source)
           target == <<"local", l>>
           y == <<"direct", Terms(source)>>
<1>1. /\ Assignable(l)
      /\ nextId' = id + 1
      /\ log' = Append(log, [target |-> target, source |-> source, id |-> id, arms |-> open])
      /\ UNCHANGED open
      /\ written' = Put(written, id, y)
      /\ locals' = Put(locals, l, ReadEvent(id))
      /\ scope' = [scope EXCEPT ![l].assigned = open]
  BY DEF Assign, Writing
<1>2. AreOperands(source)
  BY SourceOperands
<1>3. target[1] = "local" /\ target[2] = l /\ IsLocal(target)
  BY DEF IsLocal
<1>4. l \notin Array
  BY VariablesAssumption
<1> HIDE DEF target
<1>5. Added(target, source, id, y)
  BY <1>1, <1>2, DirectAdded
<1>6. ValueAgrees(target, source, id, y, MeaningOf(written', nextId'))
  BY <1>2, <1>3, <1>4, <1>5, DirectAgrees
<1>7. AssignsLocal(target, id)
  BY <1>1, <1>3, AssignedDeclared DEF AssignsLocal
<1> HIDE DEF id, y
<1> QED
  BY <1>1, <1>5, <1>6, <1>7, WriteAgrees

LEMMA WriteSharedAgrees ==
  ASSUME IInv, ExecutionsInv, NEW source \in Sources, WriteShared(source)
  PROVE  ExecutionsInv'
<1> DEFINE id == WriteId(source)
           target == <<"shared">>
           y == <<"direct", Terms(source)>>
<1>1. /\ nextId' = id + 1
      /\ log' = Append(log, [target |-> target, source |-> source, id |-> id, arms |-> open])
      /\ UNCHANGED open
      /\ written' = Put(written, id, y)
      /\ UNCHANGED <<locals, scope>>
  BY DEF WriteShared, Writing
<1>2. AreOperands(source)
  BY SourceOperands
<1>3. target[1] = "shared"
  OBVIOUS
<1> HIDE DEF target
<1>4. ~IsLocal(target) /\ target[1] # "element" /\ ~(target[1] = "local" /\ target[2] \in Array)
  BY <1>3 DEF IsLocal
<1>5. Added(target, source, id, y)
  BY <1>1, <1>2, DirectAdded
<1>6. ValueAgrees(target, source, id, y, MeaningOf(written', nextId'))
  BY <1>2, <1>4, <1>5, DirectAgrees
<1>7. AssignsLocal(target, id)
  BY <1>1, <1>4 DEF AssignsLocal
<1> HIDE DEF id, y
<1> QED
  BY <1>1, <1>5, <1>6, <1>7, WriteAgrees

LEMMA StoreAgrees ==
  ASSUME IInv, ExecutionsInv, NEW a \in Array, NEW i \in Index, NEW source \in Sources, Store(a, i, source)
  PROVE  ExecutionsInv'
<1> DEFINE id == WriteId(source)
           target == <<"element", a, i>>
           y == <<"store", locals[a].id, i, Terms(source)>>
<1>1. /\ Assignable(a)
      /\ nextId' = id + 1
      /\ log' = Append(log, [target |-> target, source |-> source, id |-> id, arms |-> open])
      /\ UNCHANGED open
      /\ written' = Put(written, id, y)
      /\ locals' = Put(locals, a, ReadEvent(id))
      /\ scope' = [scope EXCEPT ![a].assigned = open]
  BY DEF Store, Writing
<1>2. AreOperands(source)
  BY SourceOperands
<1>3. target[1] = "element" /\ target[2] = a /\ target[3] = i /\ IsLocal(target)
  BY DEF IsLocal
<1>4. y[1] = "store" /\ y[2] = locals[a].id /\ y[3] = i /\ y[4] = Terms(source)
  OBVIOUS
<1>5. a \in DOMAIN locals
  BY <1>1 DEF Assignable
<1> HIDE DEF target, y
<1>6. Added(target, source, id, y)
  <2>1. TermsBefore(y[4], id)
    BY <1>2, <1>4, SourceBefore
  <2>2. locals[a].id \in 0 .. nextId - 1
    BY <1>5, LocalEvent
  <2>3. id \in {nextId, nextId + 1} /\ nextId \in Nat
    BY WriteIdBounds
  <2> HIDE DEF id
  <2>4. y[2] \in 0 .. id - 1
    BY <1>4, <2>2, <2>3
  <2> QED
    BY <1>1, <1>4, <2>1, <2>4 DEF Added, Entry, ReadsBefore, id
<1>7. ValueAgrees(target, source, id, y, MeaningOf(written', nextId'))
  <2> DEFINE f == MeaningOf(written', nextId')
             e == Entry(target, source, id)
  <2> SUFFICES ASSUME NEW taken, Reached(open, taken)
               PROVE  NewValue(ExecutionOf(log, taken).env, e) = EventValue(f, Put(written, id, y), id)
    BY DEF ValueAgrees
  <2> DEFINE env == ExecutionOf(log, taken).env
             v == Instruction([j \in DOMAIN source |-> Operand(env, source[j])])
  <2>1. v = TermsValue(f, Terms(source))
    BY <1>2, <1>6, AddedSource
  <2>2. e.target = target /\ e.source = source
    BY DEF Entry
  <2>3. id \in DOMAIN Put(written, id, y) /\ Put(written, id, y)[id] = y
    BY DEF Put
  <2>4. env[a] = f[locals[a].id]
    <3>1. Reached(scope[a].declared, taken)
      BY <1>5, ScopeReached
    <3>2. LocalsMean(MeaningOf(written, nextId), ExecutionOf(log, taken), taken)
      BY DEF ExecutionsInv, Agrees
    <3>3. ExecutionOf(log, taken).env[a] = MeaningOf(written, nextId)[locals[a].id]
      BY <1>5, <3>1, <3>2 DEF LocalsMean, LocalMeans
    <3>4. \A k \in DOMAIN written : f[k] = MeaningOf(written, nextId)[k]
      BY <1>6, AddedMeaning
    <3> QED
      BY <1>5, <3>3, <3>4, LocalEvent
  <2> HIDE DEF e, f, env
  <2>5. Instruction([j \in DOMAIN e.source |-> Operand(env, e.source[j])]) = v
    BY <2>2
  <2> HIDE DEF v
  <2>6. NewValue(env, e) = Updated(env[a], i, v)
    BY <1>3, <2>2, <2>5 DEF NewValue
  <2>7. EventValue(f, Put(written, id, y), id) = Updated(f[locals[a].id], i, TermsValue(f, Terms(source)))
    BY <1>4, <2>3 DEF EventValue
  <2> QED
    BY <2>1, <2>4, <2>6, <2>7 DEF env
<1>8. AssignsLocal(target, id)
  BY <1>1, <1>3, AssignedDeclared DEF AssignsLocal
<1> HIDE DEF id
<1> QED
  BY <1>1, <1>6, <1>7, <1>8, WriteAgrees

-----------------------------------------------------------------------------
(* At the start there are no writes and no variables.                      *)
LEMMA InitAgrees == Init => ExecutionsInv
<1> SUFFICES ASSUME Init PROVE ExecutionsInv
  OBVIOUS
<1>1. locals = <<>> /\ written = <<>> /\ log = <<>>
  BY DEF Init
<1>2. DOMAIN written = {} /\ DOMAIN locals = {} /\ log \in Seq({})
  BY <1>1
<1>3. WellFormed(written) /\ HistoryInv
  BY <1>2 DEF WellFormed, HistoryInv
<1>4. ASSUME NEW taken PROVE Agrees(taken)
  <2>1. ExecutionOf(log, taken) = Start
    BY <1>1, ExecutionOfNone
  <2>2. DOMAIN Start.writes = {}
    BY DEF Start
  <2> QED
    BY <1>2, <2>1, <2>2 DEF Agrees, WritesMean, LocalsMean
<1> QED
  BY <1>3, <1>4 DEF ExecutionsInv

(* What a branch leaves alone: the writes and their meaning.  Of the local *)
(* variables some go out of scope.                                         *)
LEMMA BranchAgrees ==
  ASSUME IInv, ExecutionsInv, nextId' \in Nat, nextId' >= nextId, UNCHANGED <<written, log>>,
         DOMAIN locals' \subseteq DOMAIN locals,
         \A l \in DOMAIN locals' : locals'[l] = locals[l] /\ scope'[l] = scope[l]
  PROVE  ExecutionsInv'
<1> DEFINE f == MeaningOf(written, nextId')
           g == MeaningOf(written, nextId)
<1>1. nextId \in Nat /\ DOMAIN written \subseteq 0 .. nextId - 1
  BY DEF IInv, EventsInv
<1>2. WellFormed(written) /\ HistoryInv /\ \A taken : Agrees(taken)
  BY DEF ExecutionsInv
<1>3. WellFormed(written') /\ HistoryInv'
  BY <1>2 DEF WellFormed, HistoryInv
<1>4. \A i \in DOMAIN written : f[i] = g[i]
  <2> DEFINE w == written
             k == nextId
             m == nextId'
  <2>1. WellFormed(w) /\ DOMAIN w \subseteq 0 .. k - 1 /\ k \in Nat /\ m \in Nat /\ k <= m
    BY <1>1, <1>2
  <2> HIDE DEF w, k, m
  <2>2. k <= k + 1 /\ k <= m + 1
    BY <2>1
  <2>3. \A i \in Nat : i < k => (i \in DOMAIN w <=> i \in DOMAIN w) /\ (i \in DOMAIN w => w[i] = w[i])
    OBVIOUS
  <2>4. \A i \in Nat : i < k => MeaningOf(w, k)[i] = MeaningOf(w, m)[i]
    BY <2>1, <2>2, <2>3, MeaningKept
  <2>5. \A i \in DOMAIN w : MeaningOf(w, m)[i] = MeaningOf(w, k)[i]
    BY <2>1, <2>4
  <2> QED
    BY <2>5 DEF w, k, m
<1>5. MeaningOf(written', nextId') = f
  OBVIOUS
<1>6. ASSUME NEW taken PROVE Agrees(taken)'
  <2> DEFINE run == ExecutionOf(log, taken)
  <2>1. ExecutionOf(log, taken)' = run
    BY Zenon DEF ExecutionOf, Performed
  <2>2. WritesMean(g, written, run) /\ LocalsMean(g, run, taken)
    BY <1>2 DEF Agrees
  <2> HIDE DEF f, g, run
  <2>3. WritesMean(f, written', run)
    BY <1>4, <2>2 DEF WritesMean
  <2>4. ASSUME NEW l \in DOMAIN locals', Reached(scope'[l].declared, taken)
        PROVE  l \in DOMAIN run.env /\ run.env[l] = f[locals'[l].id]
    <3>1. l \in DOMAIN locals /\ locals'[l] = locals[l] /\ scope'[l] = scope[l]
      OBVIOUS
    <3>2. l \in DOMAIN run.env /\ run.env[l] = g[locals[l].id]
      BY <2>2, <2>4, <3>1 DEF LocalsMean, LocalMeans
    <3>3. f[locals[l].id] = g[locals[l].id]
      BY <1>4, <3>1, LocalEvent
    <3> QED
      BY <3>1, <3>2, <3>3
  <2> QED
    BY <1>5, <2>1, <2>3, <2>4 DEF Agrees, LocalsMean, LocalMeans
<1> QED
  BY <1>3, <1>6 DEF ExecutionsInv

(* The local variables that the end of an arm leaves in scope.             *)
LEMMA LeaveScopeKeeps ==
  ASSUME LeaveScope
  PROVE  /\ DOMAIN locals' \subseteq DOMAIN locals
         /\ \A l \in DOMAIN locals' : locals'[l] = locals[l] /\ scope'[l] = scope[l]
<1> DEFINE left == { l \in DOMAIN locals : Len(scope[l].declared) < Len(open) }
<1>1. locals' = [l \in left |-> locals[l]] /\ scope' = [l \in left |-> scope[l]]
  BY DEF LeaveScope, Restrict
<1>2. left \subseteq DOMAIN locals
  OBVIOUS
<1> HIDE DEF left
<1> QED
  BY <1>1, <1>2

(* Every step keeps the executions in agreement with the formula.          *)
LEMMA StepAgrees == IInv /\ ExecutionsInv /\ [Next]_vars => ExecutionsInv'
<1> SUFFICES ASSUME IInv, ExecutionsInv, [Next]_vars PROVE ExecutionsInv'
  OBVIOUS
<1>0. nextId \in Nat
  BY DEF IInv, EventsInv
<1>1. ASSUME NEW l \in Scalar, NEW x \in {Literal, Shared} \union LocalOperands, Declare(l, x)
      PROVE  ExecutionsInv'
  BY <1>1, DeclareAgrees
<1>2. ASSUME NEW a \in Array, DeclareArray(a) PROVE ExecutionsInv'
  BY <1>2, DeclareArrayAgrees
<1>3. ASSUME NEW source \in Sources, NEW l \in Scalar, Assign(l, source) PROVE ExecutionsInv'
  BY <1>3, AssignAgrees
<1>4. ASSUME NEW source \in Sources, NEW a \in Array, NEW i \in Index, Store(a, i, source) PROVE ExecutionsInv'
  BY <1>4, StoreAgrees
<1>5. ASSUME NEW source \in Sources, WriteShared(source) PROVE ExecutionsInv'
  BY <1>5, WriteSharedAgrees
<1>6. CASE BeginThen
  <2>1. nextId' = nextId + 1 /\ UNCHANGED <<written, log, locals, scope>>
    BY <1>6 DEF BeginThen
  <2>2. nextId' \in Nat /\ nextId' >= nextId
    BY <1>0, <2>1
  <2>3. /\ DOMAIN locals' \subseteq DOMAIN locals
        /\ \A l \in DOMAIN locals' : locals'[l] = locals[l] /\ scope'[l] = scope[l]
    BY <2>1
  <2> QED
    BY <2>1, <2>2, <2>3, BranchAgrees
<1>7. CASE BeginElse \/ EndBranch
  <2>1. nextId' = nextId /\ UNCHANGED <<written, log>> /\ LeaveScope
    BY <1>7 DEF BeginElse, EndBranch
  <2>2. nextId' \in Nat /\ nextId' >= nextId
    BY <1>0, <2>1
  <2> QED
    BY <2>1, <2>2, LeaveScopeKeeps, BranchAgrees
<1>8. CASE UNCHANGED vars
  <2>1. UNCHANGED <<nextId, written, log, locals, scope>>
    BY <1>8 DEF vars
  <2>2. nextId' \in Nat /\ nextId' >= nextId
    BY <1>0, <2>1
  <2>3. /\ DOMAIN locals' \subseteq DOMAIN locals
        /\ \A l \in DOMAIN locals' : locals'[l] = locals[l] /\ scope'[l] = scope[l]
    BY <2>1
  <2> QED
    BY <2>1, <2>2, <2>3, BranchAgrees
<1> QED
  BY <1>1, <1>2, <1>3, <1>4, <1>5, <1>6, <1>7, <1>8 DEF Next

(* The agreement is about the writes of the property.                      *)
LEMMA InvAgrees == ExecutionsInv => WritesAreTheProgram
<1> SUFFICES ASSUME ExecutionsInv, NEW taken, NEW id \in DOMAIN Execution(taken).writes
             PROVE  Meaning[id] = Execution(taken).writes[id]
  BY DEF WritesAreTheProgram
<1>1. Execution(taken) = ExecutionOf(log, taken)
  BY ExecutionUnfolded
<1>2. WritesMean(MeaningOf(written, nextId), written, ExecutionOf(log, taken))
  BY DEF ExecutionsInv, Agrees
<1>3. ExecutionOf(log, taken).writes[id] = MeaningOf(written, nextId)[id]
  BY <1>1, <1>2 DEF WritesMean
<1> QED
  BY <1>1, <1>3, MeaningUnfolded

(* Whatever branches an execution takes, and however many writes,          *)
(* variables and branches the program has, each write event has in the     *)
(* formula the value that the execution writes there.                      *)
THEOREM WritesCorrect == Spec => []WritesAreTheProgram
<1>1. IInv /\ ExecutionsInv /\ [Next]_vars => (IInv /\ ExecutionsInv)'
  BY StepPreserves, StepAgrees
<1>2. Init => IInv /\ ExecutionsInv
  BY InitInv, InitAgrees
<1>3. IInv /\ ExecutionsInv => WritesAreTheProgram
  BY InvAgrees
<1> QED
  BY <1>1, <1>2, <1>3, PTL DEF Spec
=============================================================================
