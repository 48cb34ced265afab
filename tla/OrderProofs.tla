---------------------------- MODULE OrderProofs -----------------------------
(***************************************************************************)
(* Proofs about module OrderEncoder: the models of the encoding are what a *)
(* stack per zone can do, as far as the two invariants say so, for any     *)
(* number of threads, events, zones and conditions.                        *)
(*                                                                         *)
(* From a model to a run: the enabled events, and the pops of others that  *)
(* read from a push, are executed in the order of the clocks, and each pop *)
(* finds on top what the model has it read.  From a run to a model: an     *)
(* unblocked run pops last in, first out, its order extends to one of all  *)
(* events, and there are clocks in that order.                             *)
(***************************************************************************)
EXTENDS OrderEncoder, DataLemmas

(* The types of the events that Next relates.                              *)
EventType == [thread : 0 .. MaxThread, zone : Zone, read : BOOLEAN,
              guard : Condition \union {NoCond}, expect : BOOLEAN]

IInv == relation \in Seq(EventType)

-----------------------------------------------------------------------------
(* One event more among the clocks of those before it, see Clocks.         *)
Above(c, k) == [d \in DOMAIN c |-> IF c[d] >= k THEN c[d] + 1 ELSE c[d]]

Inserted(c) == { Append(c, k) : k \in Range(c) } \union
               { Append(Above(c, k), k) : k \in 1 .. Cardinality(Range(c)) + 1 }

Respects(before, c) == \A p \in before : {p[1], p[2]} \subseteq DOMAIN c => c[p[1]] < c[p[2]]

Timed(before, cs) == { c \in UNION { Inserted(b) : b \in cs } : Respects(before, c) }

TimedUpTo(before, f, n) == IF n = 0 THEN {<<>>} ELSE Timed(before, f[n - 1])

(* Clocks, as the recursive function it is.                                *)
LEMMA ClocksUnfolded ==
  ASSUME NEW before
  PROVE  Clocks(before) = (CHOOSE f : f = [n \in 0 .. Len(relation) |-> TimedUpTo(before, f, n)])[Len(relation)]
BY DEF Clocks, TimedUpTo, Timed, Respects, Inserted, Above

(* One event more gives clocks again.                                      *)
LEMMA InsertedInSeq ==
  ASSUME NEW c \in Seq(Nat)
  PROVE  Inserted(c) \subseteq Seq(Nat)
<1>1. ASSUME NEW k \in Range(c) PROVE Append(c, k) \in Seq(Nat)
  <2>1. k \in Nat
    BY DEF Range
  <2> QED
    BY <2>1
<1>2. ASSUME NEW k \in 1 .. Cardinality(Range(c)) + 1 PROVE Append(Above(c, k), k) \in Seq(Nat)
  <2>1. k \in Nat
    OBVIOUS
  <2>2. Above(c, k) \in Seq(Nat)
    <3>1. DOMAIN c = 1 .. Len(c) /\ Len(c) \in Nat
      OBVIOUS
    <3>2. \A d \in 1 .. Len(c) : c[d] \in Nat
      OBVIOUS
    <3> QED
      BY <2>1, <3>1, <3>2 DEF Above
  <2> HIDE DEF Above
  <2> QED
    BY <2>1, <2>2
<1> QED
  BY <1>1, <1>2 DEF Inserted

(* The clocks of the events are made event after event.                    *)
LEMMA ClocksFollow ==
  ASSUME NEW before, Len(relation) \in Nat
  PROVE  \E f \in [0 .. Len(relation) -> SUBSET Seq(Nat)] :
           /\ f[0] = {<<>>}
           /\ \A n \in 1 .. Len(relation) : f[n] = Timed(before, f[n - 1])
           /\ Clocks(before) = f[Len(relation)]
<1> DEFINE V == SUBSET Seq(Nat)
           N == Len(relation)
           step == [cs \in V |-> Timed(before, cs)]
<1>1. ASSUME NEW cs \in V PROVE Timed(before, cs) \in V
  BY InsertedInSeq DEF Timed
<1>2. {<<>>} \in V
  OBVIOUS
<1>3. step \in [V -> V] /\ \A cs \in V : step[cs] = Timed(before, cs)
  BY <1>1
<1> HIDE DEF V, step
<1>4. PICK f \in [0 .. N -> V] : Iterates(f, {<<>>}, step, N)
  BY <1>2, <1>3, IterationExists
<1>5. f[0] = {<<>>} /\ \A n \in 1 .. N : f[n] = Timed(before, f[n - 1])
  <2>1. \A n \in 1 .. N : n - 1 \in 0 .. N
    OBVIOUS
  <2> QED
    BY <1>3, <1>4, <2>1 DEF Iterates
<1> DEFINE g == CHOOSE g : g = [n \in 0 .. N |-> TimedUpTo(before, g, n)]
<1>6. f = [n \in 0 .. N |-> TimedUpTo(before, f, n)]
  <2>1. ASSUME NEW n \in 0 .. N PROVE f[n] = TimedUpTo(before, f, n)
    <3>1. n = 0 \/ n \in 1 .. N
      OBVIOUS
    <3> QED
      BY <1>5, <3>1 DEF TimedUpTo
  <2> QED
    BY <2>1
<1>7. g = [n \in 0 .. N |-> TimedUpTo(before, g, n)]
  BY <1>6, Zenon
<1> HIDE DEF g
<1> DEFINE same == { n \in Nat : n <= N => g[n] = f[n] }
<1>8. 0 \in same
  BY <1>5, <1>7 DEF TimedUpTo
<1>9. ASSUME NEW n \in Nat, n \in same PROVE n + 1 \in same
  <2> SUFFICES ASSUME n + 1 <= N PROVE g[n + 1] = f[n + 1]
    OBVIOUS
  <2>1. n + 1 \in 1 .. N /\ (n + 1) - 1 = n /\ n + 1 # 0 /\ n <= N
    OBVIOUS
  <2>2. g[n + 1] = TimedUpTo(before, g, n + 1)
    BY <1>7, <2>1
  <2>3. g[n + 1] = Timed(before, g[n])
    BY <2>1, <2>2 DEF TimedUpTo
  <2> QED
    BY <1>5, <1>9, <2>1, <2>3
<1>10. \A n \in Nat : n \in same
  <2> HIDE DEF same
  <2> QED BY <1>8, <1>9, SetInduction
<1>11. Clocks(before) = g[N]
  BY ClocksUnfolded DEF g
<1> QED
  BY <1>4, <1>5, <1>10, <1>11 DEF V

-----------------------------------------------------------------------------
(* The clocks respect the constraints.                                     *)
LEMMA InsertedLength ==
  ASSUME NEW c \in Seq(Nat), NEW d \in Inserted(c)
  PROVE  Len(d) = Len(c) + 1
<1>1. ASSUME NEW k \in Range(c) PROVE Len(Append(c, k)) = Len(c) + 1
  <2>1. k \in Nat
    BY DEF Range
  <2> QED
    BY <2>1
<1>2. ASSUME NEW k \in 1 .. Cardinality(Range(c)) + 1 PROVE Len(Append(Above(c, k), k)) = Len(c) + 1
  <2>1. k \in Nat
    OBVIOUS
  <2>2. Above(c, k) \in Seq(Nat) /\ Len(Above(c, k)) = Len(c)
    <3>1. DOMAIN c = 1 .. Len(c) /\ Len(c) \in Nat
      OBVIOUS
    <3>2. \A d1 \in 1 .. Len(c) : c[d1] \in Nat
      OBVIOUS
    <3> QED
      BY <2>1, <3>1, <3>2 DEF Above
  <2> HIDE DEF Above
  <2> QED
    BY <2>1, <2>2
<1> QED
  BY <1>1, <1>2 DEF Inserted

(* There is a clock for each event, and the constraints hold among them.   *)
LEMMA ClocksRespect ==
  ASSUME NEW before, Len(relation) \in Nat, NEW c \in Clocks(before)
  PROVE  /\ c \in Seq(Nat) /\ Len(c) = Len(relation)
         /\ \A p \in before : p[1] \in 1 .. Len(relation) /\ p[2] \in 1 .. Len(relation) => c[p[1]] < c[p[2]]
<1> DEFINE N == Len(relation)
<1>1. PICK f \in [0 .. N -> SUBSET Seq(Nat)] :
           /\ f[0] = {<<>>}
           /\ \A n \in 1 .. N : f[n] = Timed(before, f[n - 1])
           /\ Clocks(before) = f[N]
  BY ClocksFollow
<1> DEFINE good == { n \in Nat : n <= N => \A d \in f[n] : Len(d) = n }
<1>2. 0 \in good
  BY <1>1
<1>3. ASSUME NEW n \in Nat, n \in good PROVE n + 1 \in good
  <2> SUFFICES ASSUME n + 1 <= N, NEW d \in f[n + 1] PROVE Len(d) = n + 1
    OBVIOUS
  <2>1. n + 1 \in 1 .. N /\ (n + 1) - 1 = n /\ n <= N /\ n \in 0 .. N
    OBVIOUS
  <2>2. d \in Timed(before, f[n])
    BY <1>1, <2>1
  <2>3. PICK e \in f[n] : d \in Inserted(e)
    BY <2>2 DEF Timed
  <2>4. e \in Seq(Nat) /\ Len(e) = n
    BY <1>3, <2>1, <2>3
  <2> QED
    BY <2>3, <2>4, InsertedLength
<1>4. \A n \in Nat : n \in good
  <2> HIDE DEF good
  <2> QED BY <1>2, <1>3, SetInduction
<1>5. c \in Seq(Nat) /\ Len(c) = N
  BY <1>1, <1>4
<1>6. CASE N = 0
  BY <1>5, <1>6
<1>7. CASE N # 0
  <2>1. N \in 1 .. N
    BY <1>7
  <2>2. c \in Timed(before, f[N - 1])
    BY <1>1, <2>1
  <2>3. Respects(before, c)
    BY <2>2 DEF Timed
  <2>4. DOMAIN c = 1 .. N
    BY <1>5
  <2> QED
    BY <1>5, <2>3, <2>4 DEF Respects
<1> QED
  BY <1>6, <1>7

-----------------------------------------------------------------------------
(* What an event may read from; a write reads from nothing.                *)
MayRead(n, v) == IF n \in Reads THEN RfEnc(n, v) ELSE {NoWrite}

Chosen(v, rfs, n) == { Append(p[1], p[2]) : p \in rfs \X MayRead(n, v) }

ChosenUpTo(v, f, n) == IF n = 0 THEN {<<>>} ELSE Chosen(v, f[n - 1], n)

(* Rfs, as the recursive function it is.                                   *)
LEMMA RfsUnfolded ==
  ASSUME NEW v
  PROVE  Rfs(v) = (CHOOSE f : f = [n \in 0 .. Len(relation) |-> ChosenUpTo(v, f, n)])[Len(relation)]
BY DEF Rfs, ChosenUpTo, Chosen, MayRead

(* What is read from is an event, or none.                                 *)
LEMMA MayReadType ==
  ASSUME NEW v, NEW n
  PROVE  MayRead(n, v) \subseteq Ids \union {NoWrite}
BY DEF MayRead, RfEnc, Writes

(* Every read chooses by itself.                                           *)
LEMMA RfsFacts ==
  ASSUME NEW v, Len(relation) \in Nat
  PROVE  \A rf : rf \in Rfs(v) <=> /\ rf \in Seq(Ids \union {NoWrite})
                                   /\ Len(rf) = Len(relation)
                                   /\ \A n \in 1 .. Len(relation) : rf[n] \in MayRead(n, v)
<1> DEFINE W == Ids \union {NoWrite}
           N == Len(relation)
           all(n) == { q \in Seq(W) : Len(q) = n /\ \A i \in 1 .. n : q[i] \in MayRead(i, v) }
           f == [n \in 0 .. N |-> all(n)]
           g == CHOOSE g : g = [n \in 0 .. N |-> ChosenUpTo(v, g, n)]
<1>0. \A n : MayRead(n, v) \subseteq W
  BY MayReadType
<1> HIDE DEF W
<1>1. ASSUME NEW n \in 1 .. N PROVE all(n) = Chosen(v, all(n - 1), n)
  <2>1. ASSUME NEW q \in all(n) PROVE q \in Chosen(v, all(n - 1), n)
    <3>1. q # <<>> /\ n - 1 \in Nat
      OBVIOUS
    <3>2. /\ Front(q) \in Seq(W) /\ Len(Front(q)) = n - 1 /\ Last(q) = q[n]
          /\ \A i \in 1 .. n - 1 : Front(q)[i] = q[i]
      BY <3>1, FrontFacts
    <3>3. q = Append(Front(q), Last(q))
      BY <3>1 DEF Front, Last
    <3>4. \A i \in 1 .. n - 1 : q[i] \in MayRead(i, v)
      OBVIOUS
    <3>5. Front(q) \in all(n - 1) /\ Last(q) \in MayRead(n, v)
      BY <3>2, <3>4
    <3> DEFINE p == <<Front(q), Last(q)>>
    <3>6. p \in all(n - 1) \X MayRead(n, v) /\ p[1] = Front(q) /\ p[2] = Last(q)
      BY <3>5
    <3> QED
      BY <3>3, <3>6 DEF Chosen
  <2>2. ASSUME NEW q \in Chosen(v, all(n - 1), n) PROVE q \in all(n)
    <3>1. PICK p \in all(n - 1) \X MayRead(n, v) : q = Append(p[1], p[2])
      BY DEF Chosen
    <3> DEFINE r == p[1]
               x == p[2]
    <3>2. r \in Seq(W) /\ Len(r) = n - 1 /\ x \in MayRead(n, v) /\ \A i \in 1 .. n - 1 : r[i] \in MayRead(i, v)
      BY <3>1
    <3>3. x \in W /\ n - 1 \in Nat /\ (n - 1) + 1 = n
      BY <1>0, <3>2
    <3> HIDE DEF r, x
    <3>4. /\ Append(r, x) \in Seq(W) /\ Len(Append(r, x)) = n /\ Append(r, x)[n] = x
          /\ \A i \in 1 .. n - 1 : Append(r, x)[i] = r[i]
      BY <3>2, <3>3
    <3>5. q = Append(r, x)
      BY <3>1 DEF r, x
    <3>6. \A i \in 1 .. n : q[i] \in MayRead(i, v)
      <4>1. \A i \in 1 .. n : i = n \/ i \in 1 .. n - 1
        BY <3>3
      <4> QED
        BY <3>2, <3>4, <3>5, <4>1
    <3> QED
      BY <3>4, <3>5, <3>6
  <2> QED
    BY <2>1, <2>2
<1>2. all(0) = {<<>>}
  <2>1. \A q \in Seq(W) : Len(q) = 0 <=> q = <<>>
    BY EmptyFacts
  <2>2. <<>> \in Seq(W) /\ \A i : i \notin 1 .. 0
    OBVIOUS
  <2>3. \A q \in all(0) : q = <<>>
    BY <2>1
  <2>4. <<>> \in all(0)
    BY <2>1, <2>2
  <2> QED
    BY <2>3, <2>4
<1> HIDE DEF all
<1>3. f = [n \in 0 .. N |-> ChosenUpTo(v, f, n)]
  <2>1. ASSUME NEW n \in 0 .. N PROVE f[n] = ChosenUpTo(v, f, n)
    <3>1. CASE n = 0
      BY <1>2, <3>1 DEF ChosenUpTo
    <3>2. CASE n # 0
      <4>1. n \in 1 .. N /\ n - 1 \in 0 .. N
        BY <3>2
      <4>2. f[n - 1] = all(n - 1) /\ f[n] = all(n)
        BY <4>1
      <4> HIDE DEF f
      <4> QED
        BY <1>1, <3>2, <4>1, <4>2 DEF ChosenUpTo
    <3> QED
      BY <3>1, <3>2
  <2> HIDE DEF ChosenUpTo
  <2>2. f = [n \in 0 .. N |-> f[n]]
    OBVIOUS
  <2> HIDE DEF f
  <2> QED
    BY <2>1, <2>2
<1> HIDE DEF f
<1>4. g = [n \in 0 .. N |-> ChosenUpTo(v, g, n)]
  BY <1>3, Zenon
<1> HIDE DEF g
<1> DEFINE same == { n \in Nat : n <= N => g[n] = all(n) }
<1>5. 0 \in same
  BY <1>2, <1>4 DEF ChosenUpTo
<1>6. ASSUME NEW n \in Nat, n \in same PROVE n + 1 \in same
  <2> SUFFICES ASSUME n + 1 <= N PROVE g[n + 1] = all(n + 1)
    OBVIOUS
  <2>1. n + 1 \in 1 .. N /\ (n + 1) - 1 = n /\ n + 1 # 0 /\ n <= N
    OBVIOUS
  <2>2. g[n + 1] = ChosenUpTo(v, g, n + 1)
    BY <1>4, <2>1
  <2>3. g[n + 1] = Chosen(v, g[n], n + 1)
    BY <2>1, <2>2 DEF ChosenUpTo
  <2>4. g[n] = all(n)
    BY <1>6, <2>1
  <2>5. all(n + 1) = Chosen(v, all((n + 1) - 1), n + 1)
    BY <1>1, <2>1
  <2> QED
    BY <2>1, <2>3, <2>4, <2>5
<1>7. \A n \in Nat : n \in same
  <2> HIDE DEF same
  <2> QED BY <1>5, <1>6, SetInduction
<1>8. Rfs(v) = all(N)
  <2>1. Rfs(v) = g[N]
    BY RfsUnfolded DEF g
  <2> QED
    BY <1>7, <2>1
<1> QED
  BY <1>8 DEF all, W

-----------------------------------------------------------------------------
(* A sequence in SetToSeqs(E) has each element of E at one place.          *)
LEMMA AllOnce ==
  ASSUME NEW E, IsFiniteSet(E), NEW q \in SetToSeqs(E)
  PROVE  /\ q \in Seq(E) /\ Len(q) \in Nat /\ DOMAIN q = 1 .. Len(q)
         /\ \A i, j \in 1 .. Len(q) : q[i] = q[j] => i = j
         /\ \A e \in E : \E i \in 1 .. Len(q) : q[i] = e
<1> DEFINE n == Cardinality(E)
<1>1. n \in Nat
  BY FS_CardinalityType
<1>2. q \in [1 .. n -> E] /\ \A i, j \in 1 .. n : i # j => q[i] # q[j]
  BY DEF SetToSeqs
<1> HIDE DEF n
<1>3. q \in Injection(1 .. n, E)
  BY <1>2 DEF Injection, IsInjective
<1>4. Cardinality(1 .. n) = n
  BY <1>1, FS_Interval
<1>5. Cardinality(1 .. n) = Cardinality(E) <=> q \in Surjection(1 .. n, E)
  BY <1>3, FS_Injection
<1>6. q \in Surjection(1 .. n, E)
  BY <1>4, <1>5 DEF n
<1>7. \A e \in E : \E i \in 1 .. n : q[i] = e
  BY <1>6 DEF Surjection
<1>8. q \in Seq(E) /\ Len(q) = n
  BY <1>1, <1>2
<1> QED
  BY <1>1, <1>2, <1>7, <1>8

(* A strict total order on the set E.                                      *)
Orders(R, E) ==
  /\ \A a \in E : <<a, a>> \notin R
  /\ \A a, b \in E : a # b => <<a, b>> \in R \/ <<b, a>> \in R
  /\ \A a, b, c \in E : <<a, b>> \in R /\ <<b, c>> \in R => <<a, c>> \in R

Sorted(R, q) == \A i, j \in DOMAIN q : i < j => <<q[i], q[j]>> \in R

(* One element more, put where it belongs.                                 *)
LEMMA SortedInsert ==
  ASSUME NEW E, NEW R, Orders(R, E), NEW k \in Nat, NEW q \in [1 .. k -> E],
         \A i, j \in 1 .. k : i # j => q[i] # q[j], Sorted(R, q),
         NEW e \in E, \A i \in 1 .. k : q[i] # e
  PROVE  \E r \in [1 .. k + 1 -> {q[i] : i \in 1 .. k} \union {e}] :
           (\A i, j \in 1 .. k + 1 : i # j => r[i] # r[j]) /\ Sorted(R, r)
<1> DEFINE after == { j \in 1 .. k : <<e, q[j]>> \in R } \union {k + 1}
<1>1. after \in SUBSET Nat /\ after # {}
  OBVIOUS
<1>2. PICK p \in after : \A j \in after : p <= j
  BY <1>1, LeastNat
<1>3. p \in 1 .. k + 1
  OBVIOUS
<1>4. \A j \in 1 .. k : j < p => <<q[j], e>> \in R
  <2> SUFFICES ASSUME NEW j \in 1 .. k, j < p PROVE <<q[j], e>> \in R
    OBVIOUS
  <2>1. ~ (<<e, q[j]>> \in R)
    <3> SUFFICES ASSUME <<e, q[j]>> \in R PROVE FALSE
      OBVIOUS
    <3>1. j \in after
      OBVIOUS
    <3>2. p <= j
      BY <1>2, <3>1
    <3> QED
      BY <1>3, <3>2
  <2>2. q[j] \in E /\ q[j] # e
    OBVIOUS
  <2> QED
    BY <2>1, <2>2 DEF Orders
<1>5. \A j \in 1 .. k : p <= j => <<e, q[j]>> \in R
  <2> SUFFICES ASSUME NEW j \in 1 .. k, p <= j PROVE <<e, q[j]>> \in R
    OBVIOUS
  <2>1. p \in 1 .. k /\ <<e, q[p]>> \in R
    BY <1>2, <1>3
  <2>2. CASE p = j
    BY <2>1, <2>2
  <2>3. CASE p # j
    <3>1. <<q[p], q[j]>> \in R
      <4>1. p < j /\ p \in DOMAIN q /\ j \in DOMAIN q
        BY <2>1, <2>3
      <4> QED
        BY <4>1 DEF Sorted
    <3>2. q[p] \in E /\ q[j] \in E
      BY <2>1
    <3> QED
      BY <2>1, <3>1, <3>2 DEF Orders
  <2> QED
    BY <2>2, <2>3
<1> DEFINE r == [i \in 1 .. k + 1 |-> IF i < p THEN q[i] ELSE IF i = p THEN e ELSE q[i - 1]]
<1> HIDE DEF after
<1>6. \A i \in 1 .. k + 1 : \/ i < p /\ i \in 1 .. k /\ r[i] = q[i]
                            \/ i = p /\ r[i] = e
                            \/ i > p /\ i - 1 \in 1 .. k /\ p <= i - 1 /\ r[i] = q[i - 1]
  BY <1>3
<1>7. r \in [1 .. k + 1 -> {q[i] : i \in 1 .. k} \union {e}]
  <2>1. \A i \in 1 .. k + 1 : r[i] \in {q[j] : j \in 1 .. k} \union {e}
    BY <1>6
  <2> QED
    BY <2>1
<1>8. DOMAIN r = 1 .. k + 1
  OBVIOUS
<1> HIDE DEF r
<1>9. ASSUME NEW i \in 1 .. k + 1, NEW j \in 1 .. k + 1, i # j PROVE r[i] # r[j]
  <2>1. i \in Nat /\ j \in Nat /\ p \in Nat
    BY <1>3
  <2>2. CASE i < p
    <3>1. i \in 1 .. k /\ r[i] = q[i]
      BY <1>6, <2>1, <2>2
    <3> QED
      BY <1>6, <1>9, <2>1, <2>2, <3>1
  <2>3. CASE i = p
    <3>1. r[i] = e
      BY <1>6, <2>1, <2>3
    <3> QED
      BY <1>6, <1>9, <2>1, <2>3, <3>1
  <2>4. CASE i > p
    <3>1. i - 1 \in 1 .. k /\ r[i] = q[i - 1]
      BY <1>6, <2>1, <2>4
    <3> QED
      BY <1>6, <1>9, <2>1, <2>4, <3>1
  <2> QED
    BY <2>1, <2>2, <2>3, <2>4
<1>10. ASSUME NEW i \in 1 .. k + 1, NEW j \in 1 .. k + 1, i < j PROVE <<r[i], r[j]>> \in R
  <2>1. i \in Nat /\ j \in Nat /\ p \in Nat
    BY <1>3
  <2>2. \A a, b \in 1 .. k : a < b => <<q[a], q[b]>> \in R
    BY DEF Sorted
  <2>3. \A a \in 1 .. k : q[a] \in E
    OBVIOUS
  <2>4. CASE i < p
    <3>1. i \in 1 .. k /\ r[i] = q[i] /\ <<q[i], e>> \in R
      BY <1>4, <1>6, <2>1, <2>4
    <3>2. CASE j < p
      BY <1>6, <1>10, <2>1, <2>2, <3>1, <3>2
    <3>3. CASE j = p
      BY <1>6, <1>10, <2>1, <2>2, <3>1, <3>3
    <3>4. CASE j > p
      <4>1. j - 1 \in 1 .. k /\ i < j - 1 /\ r[j] = q[j - 1]
        BY <1>6, <2>1, <2>4, <3>4
      <4> QED
        BY <2>2, <3>1, <4>1
    <3> QED
      BY <2>1, <3>2, <3>3, <3>4
  <2>5. CASE i = p
    <3>1. j - 1 \in 1 .. k /\ p <= j - 1 /\ r[j] = q[j - 1] /\ r[i] = e
      BY <1>6, <1>10, <2>1, <2>5
    <3> QED
      BY <1>5, <3>1
  <2>6. CASE i > p
    <3>1. i - 1 \in 1 .. k /\ r[i] = q[i - 1] /\ j - 1 \in 1 .. k /\ r[j] = q[j - 1] /\ i - 1 < j - 1
      BY <1>6, <1>10, <2>1, <2>6
    <3> QED
      BY <2>2, <3>1
  <2> QED
    BY <2>1, <2>4, <2>5, <2>6
<1> QED
  BY <1>7, <1>8, <1>9, <1>10 DEF Sorted

(* A finite set can be listed in a given order.                            *)
LEMMA SortedExists ==
  ASSUME NEW E, IsFiniteSet(E), NEW R, Orders(R, E)
  PROVE  \E q \in SetToSeqs(E) : Sorted(R, q)
<1> DEFINE Lists(F, q) == /\ q \in [1 .. Cardinality(F) -> F]
                          /\ \A i, j \in 1 .. Cardinality(F) : i # j => q[i] # q[j]
                          /\ Sorted(R, q)
           good == { k \in Nat : \A F \in SUBSET E : Cardinality(F) = k => \E q : Lists(F, q) }
<1>1. 0 \in good
  <2> SUFFICES ASSUME NEW F \in SUBSET E, Cardinality(F) = 0 PROVE \E q : Lists(F, q)
    OBVIOUS
  <2> DEFINE q == [i \in 1 .. 0 |-> i]
  <2>1. 1 .. 0 = {} /\ q \in [1 .. 0 -> F] /\ Sorted(R, q)
    BY DEF Sorted
  <2>2. Lists(F, q)
    BY <2>1
  <2> QED
    BY <2>2
<1>2. ASSUME NEW k \in Nat, k \in good PROVE k + 1 \in good
  <2> SUFFICES ASSUME NEW F \in SUBSET E, Cardinality(F) = k + 1 PROVE \E q : Lists(F, q)
    OBVIOUS
  <2>1. IsFiniteSet(F)
    BY FS_Subset
  <2>2. PICK e : e \in F
    <3>1. F # {}
      BY <2>1, FS_EmptySet
    <3> QED
      BY <3>1
  <2> DEFINE G == F \ {e}
  <2>3. Cardinality(G) = k
    <3>1. Cardinality(F \ {e}) = IF e \in F THEN Cardinality(F) - 1 ELSE Cardinality(F)
      BY <2>1, FS_RemoveElement
    <3>2. (k + 1) - 1 = k
      OBVIOUS
    <3> QED
      BY <2>2, <3>1, <3>2
  <2>4. G \in SUBSET E
    OBVIOUS
  <2>5. PICK q : Lists(G, q)
    BY <1>2, <2>3, <2>4
  <2>6. /\ q \in [1 .. k -> G] /\ Sorted(R, q)
        /\ \A i, j \in 1 .. k : i # j => q[i] # q[j]
    BY <2>3, <2>5
  <2>7. q \in [1 .. k -> E] /\ e \in E /\ \A i \in 1 .. k : q[i] # e
    BY <2>2, <2>6
  <2> DEFINE T == {q[i] : i \in 1 .. k} \union {e}
  <2> HIDE DEF G, T
  <2>8. PICK r \in [1 .. k + 1 -> T] :
           (\A i, j \in 1 .. k + 1 : i # j => r[i] # r[j]) /\ Sorted(R, r)
    BY <2>6, <2>7, SortedInsert DEF T
  <2>9. T \subseteq F
    BY <2>2, <2>6 DEF T, G
  <2>10. r \in [1 .. k + 1 -> F]
    BY <2>9
  <2>11. Lists(F, r)
    BY <2>8, <2>10
  <2> QED
    BY <2>11
<1>3. \A k \in Nat : k \in good
  <2> HIDE DEF good
  <2> QED BY <1>1, <1>2, SetInduction
<1>4. Cardinality(E) \in Nat /\ E \in SUBSET E
  BY FS_CardinalityType
<1>5. PICK q : Lists(E, q)
  BY <1>3, <1>4
<1> QED
  BY <1>5 DEF SetToSeqs

-----------------------------------------------------------------------------
(* The clock of each of the first n events is its rank in the order L.     *)
Ranks(L, n, c) ==
  /\ c \in [1 .. n -> 1 .. n]
  /\ \A j \in 1 .. n : \E d \in 1 .. n : c[d] = j
  /\ \A d, e \in 1 .. n : c[d] < c[e] <=> <<d, e>> \in L

(* One event more, put where the order L has it among the clocks.          *)
LEMMA InsertedWhere ==
  ASSUME NEW L, NEW n \in Nat, Orders(L, 1 .. n + 1), NEW c, Ranks(L, n, c)
  PROVE  \E k \in 1 .. n + 1 : \A d \in 1 .. n :
           /\ c[d] < k => <<d, n + 1>> \in L
           /\ c[d] >= k => <<n + 1, d>> \in L
<1> DEFINE low == { j \in 1 .. n + 1 : \A d \in 1 .. n : c[d] >= j => <<n + 1, d>> \in L }
<1>0. n + 1 \in 1 .. n + 1 /\ \A d \in 1 .. n : d \in 1 .. n + 1 /\ d # n + 1 /\ c[d] \in 1 .. n + 1
  <2>1. c \in [1 .. n -> 1 .. n]
    BY Zenon DEF Ranks
  <2> QED
    BY <2>1
<1>1. low \in SUBSET Nat /\ low # {}
  <2>1. \A d \in 1 .. n : ~(c[d] >= n + 1)
    <3>1. c \in [1 .. n -> 1 .. n]
      BY Zenon DEF Ranks
    <3> QED
      BY <3>1
  <2>2. \A d \in 1 .. n : c[d] >= n + 1 => <<n + 1, d>> \in L
    BY <2>1, Zenon
  <2>3. n + 1 \in low
    <3>1. n + 1 \in 1 .. n + 1
      BY <1>0, Zenon
    <3> DEFINE m == n + 1
    <3>2. m \in 1 .. m /\ \A d \in 1 .. n : c[d] >= m => <<m, d>> \in L
      BY <2>2, <3>1
    <3>3. low = { j \in 1 .. m : \A d \in 1 .. n : c[d] >= j => <<m, d>> \in L }
      OBVIOUS
    <3> HIDE DEF m
    <3>4. m \in low
      BY <3>2, <3>3
    <3> QED
      BY <3>4 DEF m
  <2>4. \A j \in low : j \in Nat
    OBVIOUS
  <2> HIDE DEF low
  <2> QED
    BY <2>3, <2>4
<1>2. PICK k \in low : \A j \in low : k <= j
  BY <1>1, LeastNat
<1>3. k \in 1 .. n + 1 /\ \A d \in 1 .. n : c[d] >= k => <<n + 1, d>> \in L
  OBVIOUS
<1>4. ASSUME NEW d \in 1 .. n, c[d] < k PROVE <<d, n + 1>> \in L
  <2> SUFFICES ASSUME ~(<<d, n + 1>> \in L) PROVE FALSE
    OBVIOUS
  <2>1. <<n + 1, d>> \in L
    BY <1>0 DEF Orders
  <2>2. ASSUME NEW e \in 1 .. n, c[e] >= c[d] PROVE <<n + 1, e>> \in L
    <3>1. CASE c[d] < c[e]
      <4>1. <<d, e>> \in L
        BY <3>1 DEF Ranks
      <4> QED
        BY <1>0, <2>1, <4>1 DEF Orders
    <3>2. CASE ~(c[d] < c[e])
      <4>1. ~(c[e] < c[d])
        <5>1. c[d] \in Nat /\ c[e] \in Nat
          BY <1>0
        <5> QED
          BY <2>2, <5>1
      <4>2. ~(<<d, e>> \in L) /\ ~(<<e, d>> \in L)
        BY <3>2, <4>1 DEF Ranks
      <4>3. d = e
        BY <1>0, <4>2 DEF Orders
      <4> QED
        BY <2>1, <4>3
    <3> QED
      BY <3>1, <3>2
  <2>3. c[d] \in low
    BY <1>0, <2>2
  <2>4. c[d] \in Nat /\ k \in Nat /\ k <= c[d]
    BY <1>0, <1>2, <1>3, <2>3
  <2> QED
    BY <1>4, <2>4
<1> QED
  BY <1>3, <1>4

(* One event more, put where the order has it, leaves the clocks the ranks *)
(* in the order.                                                           *)
LEMMA ClocksInsert ==
  ASSUME NEW L, NEW n \in Nat, Orders(L, 1 .. n + 1), NEW c, Ranks(L, n, c)
  PROVE  \E b \in Inserted(c) : Ranks(L, n + 1, b)
<1>0. n + 1 \in 1 .. n + 1 /\ \A d \in 1 .. n : d \in 1 .. n + 1 /\ d # n + 1
  OBVIOUS
<1>10. /\ c \in [1 .. n -> 1 .. n]
      /\ \A d \in 1 .. n : c[d] \in 1 .. n
  BY DEF Ranks
<1>1. PICK k \in 1 .. n + 1 : \A d \in 1 .. n :
           /\ c[d] < k => <<d, n + 1>> \in L
           /\ c[d] >= k => <<n + 1, d>> \in L
  BY InsertedWhere
<1> DEFINE a == Above(c, k)
           b == Append(a, k)
<1>2. /\ a \in [1 .. n -> 1 .. n + 1]
      /\ \A d \in 1 .. n : (c[d] < k => a[d] = c[d]) /\ (c[d] >= k => a[d] = c[d] + 1)
  BY <1>10 DEF Above
<1> HIDE DEF a
<1>3. /\ b \in [1 .. n + 1 -> 1 .. n + 1] /\ b[n + 1] = k
      /\ \A d \in 1 .. n : b[d] = a[d]
  <2>1. a \in Seq(1 .. n + 1) /\ Len(a) = n
    BY <1>2
  <2>2. /\ Append(a, k) \in Seq(1 .. n + 1) /\ Len(Append(a, k)) = n + 1 /\ Append(a, k)[n + 1] = k
        /\ \A d \in 1 .. n : Append(a, k)[d] = a[d]
    <3>1. k \in 1 .. n + 1 /\ DOMAIN a = 1 .. n
      BY <1>2
    <3> DEFINE S == 1 .. n + 1
    <3>2. k \in S /\ a \in Seq(S)
      BY <2>1, <3>1
    <3> HIDE DEF S
    <3>3. /\ Append(a, k) \in Seq(S) /\ Len(Append(a, k)) = Len(a) + 1
          /\ Append(a, k)[Len(a) + 1] = k /\ \A d \in DOMAIN a : Append(a, k)[d] = a[d]
      BY <3>2, AppendFacts
    <3>4. Append(a, k) \in Seq(1 .. n + 1)
      BY <3>3 DEF S
    <3> HIDE DEF b
    <3> QED
      BY <2>1, <3>1, <3>3, <3>4
  <2>3. b \in Seq(1 .. n + 1) /\ Len(b) = n + 1
    BY <2>2
  <2>4. b \in [1 .. n + 1 -> 1 .. n + 1]
    <3> HIDE DEF b
    <3> DEFINE m == n + 1
    <3>1. b \in Seq(1 .. m) /\ Len(b) = m
      BY <2>3
    <3> HIDE DEF m
    <3>2. b \in [1 .. m -> 1 .. m]
      BY <3>1
    <3> QED
      BY <3>2 DEF m
  <2>5. b[n + 1] = k /\ \A d \in 1 .. n : b[d] = a[d]
    BY <2>2
  <2> QED
    BY <2>4, <2>5
<1> HIDE DEF b
<1>4. b \in Inserted(c)
  <2>1. Range(c) = 1 .. n
    <3>1. \A x \in Range(c) : x \in 1 .. n
      BY <1>10 DEF Range
    <3>2. \A x \in 1 .. n : x \in Range(c)
      BY DEF Range, Ranks
    <3> QED
      BY <3>1, <3>2
  <2>2. Cardinality(1 .. n) = n
    BY FS_Interval
  <2>3. k \in 1 .. Cardinality(Range(c)) + 1
    BY <2>1, <2>2
  <2> HIDE DEF Above
  <2> QED
    BY <2>3 DEF Inserted, a, b
<1>5. ASSUME NEW j \in 1 .. n + 1 PROVE \E d \in 1 .. n + 1 : b[d] = j
  <2>1. CASE j = k
    BY <1>0, <1>3, <2>1
  <2>2. CASE j < k
    <3>1. j \in 1 .. n
      BY <2>2
    <3>2. PICK d \in 1 .. n : c[d] = j
      BY <3>1 DEF Ranks
    <3>3. b[d] = j
      BY <1>10, <1>2, <1>3, <2>2, <3>2
    <3> QED
      BY <1>0, <3>3
  <2>3. CASE j > k
    <3>1. j - 1 \in 1 .. n
      BY <2>3
    <3>2. PICK d \in 1 .. n : c[d] = j - 1
      BY <3>1 DEF Ranks
    <3>3. c[d] >= k /\ c[d] + 1 = j
      BY <2>3, <3>2
    <3>4. b[d] = j
      BY <1>2, <1>3, <3>3
    <3> QED
      BY <1>0, <3>4
  <2> QED
    BY <2>1, <2>2, <2>3
<1>6. ASSUME NEW d \in 1 .. n, NEW e \in 1 .. n PROVE b[d] < b[e] <=> <<d, e>> \in L
  <2>1. c[d] < c[e] <=> <<d, e>> \in L
    BY DEF Ranks
  <2>2. c[d] \in Nat /\ c[e] \in Nat /\ k \in Nat
    BY <1>10
  <2>3. b[d] = a[d] /\ b[e] = a[e]
    BY <1>3
  <2>4. (c[d] < k => a[d] = c[d]) /\ (c[d] >= k => a[d] = c[d] + 1)
    BY <1>2
  <2>5. (c[e] < k => a[e] = c[e]) /\ (c[e] >= k => a[e] = c[e] + 1)
    BY <1>2
  <2>6. b[d] < b[e] <=> c[d] < c[e]
    BY <2>2, <2>3, <2>4, <2>5
  <2> QED
    BY <2>1, <2>6
<1>7. ASSUME NEW d \in 1 .. n
      PROVE  /\ b[d] < b[n + 1] <=> <<d, n + 1>> \in L
             /\ b[n + 1] < b[d] <=> <<n + 1, d>> \in L
  <2>1. ~(<<d, n + 1>> \in L /\ <<n + 1, d>> \in L)
    BY <1>0 DEF Orders
  <2>2. c[d] \in Nat /\ k \in Nat
    BY <1>10
  <2>3. b[d] = a[d] /\ b[n + 1] = k
    BY <1>3
  <2>4. (c[d] < k => a[d] = c[d]) /\ (c[d] >= k => a[d] = c[d] + 1)
    BY <1>2
  <2>5. CASE c[d] < k
    <3>1. b[d] < b[n + 1] /\ ~(b[n + 1] < b[d])
      BY <2>2, <2>3, <2>4, <2>5
    <3> QED
      BY <1>1, <2>1, <2>5, <3>1
  <2>6. CASE c[d] >= k
    <3>1. b[n + 1] < b[d] /\ ~(b[d] < b[n + 1])
      BY <2>2, <2>3, <2>4, <2>6
    <3> QED
      BY <1>1, <2>1, <2>6, <3>1
  <2> QED
    BY <2>2, <2>5, <2>6
<1>8. ~(b[n + 1] < b[n + 1]) /\ ~(<<n + 1, n + 1>> \in L)
  <2>1. b[n + 1] \in Nat
    BY <1>0, <1>3
  <2> QED
    BY <1>0, <2>1 DEF Orders
<1>9. ASSUME NEW d \in 1 .. n + 1, NEW e \in 1 .. n + 1 PROVE b[d] < b[e] <=> <<d, e>> \in L
  <2>1. (d \in 1 .. n \/ d = n + 1) /\ (e \in 1 .. n \/ e = n + 1)
    OBVIOUS
  <2>2. CASE d \in 1 .. n /\ e \in 1 .. n
    BY <1>6, <2>2
  <2>3. CASE d \in 1 .. n /\ e = n + 1
    BY <1>7, <2>3
  <2>4. CASE d = n + 1 /\ e \in 1 .. n
    BY <1>7, <2>4
  <2>5. CASE d = n + 1 /\ e = n + 1
    BY <1>8, <2>5
  <2> QED
    BY <2>1, <2>2, <2>3, <2>4, <2>5
<1> QED
  BY <1>3, <1>4, <1>5, <1>9 DEF Ranks

(* For every order of the events that has the constraints there are clocks. *)
LEMMA ClocksOfOrder ==
  ASSUME NEW before, NEW L, Len(relation) \in Nat, Orders(L, 1 .. Len(relation)),
         \A p \in before : p[1] \in 1 .. Len(relation) /\ p[2] \in 1 .. Len(relation) => <<p[1], p[2]>> \in L
  PROVE  \E c \in Clocks(before) : \A d, e \in 1 .. Len(relation) : c[d] < c[e] <=> <<d, e>> \in L
<1> DEFINE N == Len(relation)
<1>1. PICK f \in [0 .. N -> SUBSET Seq(Nat)] :
           /\ f[0] = {<<>>}
           /\ \A n \in 1 .. N : f[n] = Timed(before, f[n - 1])
           /\ Clocks(before) = f[N]
  BY ClocksFollow
<1> DEFINE Has(n, c) == c \in f[n] /\ Ranks(L, n, c)
           good == { n \in Nat : n <= N => \E c : Has(n, c) }
<1>2. 0 \in good
  <2>1. <<>> \in f[0] /\ 1 .. 0 = {} /\ <<>> \in [1 .. 0 -> 1 .. 0]
    BY <1>1
  <2>2. Has(0, <<>>)
    BY <2>1 DEF Ranks
  <2> QED
    BY <2>2
<1>3. ASSUME NEW n \in Nat, n \in good PROVE n + 1 \in good
  <2> SUFFICES ASSUME n + 1 <= N PROVE \E c : Has(n + 1, c)
    OBVIOUS
  <2>1. n + 1 \in 1 .. N /\ (n + 1) - 1 = n /\ n <= N /\ \A d \in 1 .. n + 1 : d \in 1 .. N
    OBVIOUS
  <2>2. PICK c : Has(n, c)
    BY <1>3, <2>1
  <2>3. Orders(L, 1 .. n + 1)
    BY <2>1 DEF Orders
  <2>4. PICK b \in Inserted(c) : Ranks(L, n + 1, b)
    BY <2>2, <2>3, ClocksInsert
  <2>5. Respects(before, b)
    <3>1. DOMAIN b = 1 .. n + 1
      BY <2>4 DEF Ranks
    <3>2. ASSUME NEW p \in before, {p[1], p[2]} \subseteq DOMAIN b PROVE b[p[1]] < b[p[2]]
      <4>1. p[1] \in 1 .. n + 1 /\ p[2] \in 1 .. n + 1
        BY <3>1, <3>2
      <4>2. <<p[1], p[2]>> \in L
        BY <2>1, <4>1
      <4> QED
        BY <2>4, <4>1, <4>2 DEF Ranks
    <3> QED
      BY <3>2 DEF Respects
  <2>6. b \in Timed(before, f[n])
    BY <2>2, <2>4, <2>5 DEF Timed
  <2>7. f[n + 1] = Timed(before, f[n])
    BY <1>1, <2>1
  <2>8. Has(n + 1, b)
    BY <2>4, <2>6, <2>7
  <2> QED
    BY <2>8
<1>4. \A n \in Nat : n \in good
  <2> HIDE DEF good
  <2> QED BY <1>2, <1>3, SetInduction
<1>5. PICK c : Has(N, c)
  BY <1>4
<1> QED
  BY <1>1, <1>5 DEF Ranks

-----------------------------------------------------------------------------
(* A run, as the recursive function it is.                                 *)
Fresh == [stacks |-> [z \in Zone |-> <<>>], pops |-> <<>>, blocked |-> FALSE]

RunUpTo(s, f, i, v) == IF i = 0 THEN Fresh ELSE Execute(f[i - 1], s[i], v)

(* Run, as the recursive function it is.                                   *)
LEMMA RunUnfolded ==
  ASSUME NEW s, NEW v
  PROVE  Run(s, v) = (CHOOSE f : f = [i \in 0 .. Len(s) |-> RunUpTo(s, f, i, v)])[Len(s)]
BY DEF Run, RunUpTo, Fresh

(* A run executes one event of the schedule after the other.               *)
LEMMA RunFollows ==
  ASSUME NEW s, NEW v, Len(s) \in Nat
  PROVE  \E f : /\ f[0] = Fresh
                /\ \A i \in 1 .. Len(s) : f[i] = Execute(f[i - 1], s[i], v)
                /\ Run(s, v) = f[Len(s)]
<1> DEFINE n == Len(s)
           Is(m, f) == f = [i \in 0 .. m |-> RunUpTo(s, f, i, v)]
           good == { m \in Nat : \E f : Is(m, f) }
<1>1. 0 \in good
  <2> DEFINE f == [i \in 0 .. 0 |-> Fresh]
  <2>1. \A i \in 0 .. 0 : i = 0
    OBVIOUS
  <2>2. ASSUME NEW i \in 0 .. 0 PROVE RunUpTo(s, f, i, v) = Fresh
    BY <2>1 DEF RunUpTo
  <2> HIDE DEF RunUpTo
  <2>3. Is(0, f)
    BY <2>2
  <2> QED
    BY <2>3
<1>2. ASSUME NEW m \in Nat, m \in good PROVE m + 1 \in good
  <2>1. PICK f : Is(m, f)
    BY <1>2
  <2> DEFINE g == [i \in 0 .. m + 1 |-> IF i = m + 1 THEN Execute(f[m], s[m + 1], v) ELSE f[i]]
  <2>2. g[m + 1] = Execute(f[m], s[m + 1], v) /\ \A i \in 0 .. m : g[i] = f[i]
    OBVIOUS
  <2>3. g = [i \in 0 .. m + 1 |-> g[i]]
    OBVIOUS
  <2> HIDE DEF g
  <2>4. ASSUME NEW i \in 0 .. m + 1 PROVE g[i] = RunUpTo(s, g, i, v)
    <3>1. i = 0 \/ i = m + 1 \/ (i \in 1 .. m /\ i - 1 \in 0 .. m /\ i # 0)
      OBVIOUS
    <3>2. 0 \in 0 .. m /\ m \in 0 .. m /\ (m + 1) - 1 = m /\ m + 1 # 0 /\ \A j \in 1 .. m : j \in 0 .. m
      OBVIOUS
    <3>3. CASE i = 0
      <4>1. f[0] = Fresh
        BY <2>1, <3>2 DEF RunUpTo
      <4> QED
        BY <2>2, <3>2, <3>3, <4>1 DEF RunUpTo
    <3>4. CASE i = m + 1
      BY <2>2, <3>2, <3>4 DEF RunUpTo
    <3>5. CASE i \in 1 .. m /\ i - 1 \in 0 .. m /\ i # 0
      <4>1. f[i] = RunUpTo(s, f, i, v)
        BY <2>1, <3>2, <3>5
      <4>2. g[i] = f[i] /\ g[i - 1] = f[i - 1]
        BY <2>2, <3>2, <3>5
      <4> QED
        BY <3>5, <4>1, <4>2 DEF RunUpTo
    <3> QED
      BY <3>1, <3>3, <3>4, <3>5
  <2> HIDE DEF RunUpTo
  <2>5. Is(m + 1, g)
    BY <2>3, <2>4
  <2> QED
    BY <2>5
<1>3. n \in good
  <2> HIDE DEF good
  <2> QED BY <1>1, <1>2, SetInduction
<1> DEFINE f == CHOOSE f : Is(n, f)
<1>4. Is(n, f)
  BY <1>3
<1>5. Run(s, v) = f[n]
  BY RunUnfolded
<1> HIDE DEF f
<1>6. f[0] = Fresh
  BY <1>4 DEF RunUpTo
<1>7. ASSUME NEW i \in 1 .. n PROVE f[i] = Execute(f[i - 1], s[i], v)
  <2>1. i \in 0 .. n /\ i # 0
    OBVIOUS
  <2> QED
    BY <1>4, <2>1 DEF RunUpTo
<1> QED
  BY <1>5, <1>6, <1>7

(* What executing an event does: pushing, popping, or neither.             *)
States == [stacks : [Zone -> Seq(Ids)], pops : UNION { [D -> Ids] : D \in SUBSET Ids }, blocked : BOOLEAN]

CanPop(st, e, v) == LET q == st.stacks[relation[e].zone] IN q # <<>> /\ Expected(Last(q), e, v)

Pushed(st, t, e) ==
  /\ t \in States /\ t.blocked = st.blocked /\ t.pops = st.pops
  /\ t.stacks = [st.stacks EXCEPT ![relation[e].zone] = Append(st.stacks[relation[e].zone], e)]

Popped(st, t, e) ==
  /\ t \in States /\ t.blocked = st.blocked
  /\ DOMAIN t.pops = DOMAIN st.pops \union {e}
  /\ t.pops[e] = Last(st.stacks[relation[e].zone])
  /\ \A r \in DOMAIN st.pops : r # e => t.pops[r] = st.pops[r]
  /\ t.stacks = [st.stacks EXCEPT ![relation[e].zone] = Front(st.stacks[relation[e].zone])]

(* The types of the events, as the proofs use them.                        *)
LEMMA EventFacts ==
  ASSUME IInv
  PROVE  /\ Len(relation) \in Nat /\ Ids = 1 .. Len(relation)
         /\ \A e \in Ids : relation[e].zone \in Zone /\ relation[e].read \in BOOLEAN
<1>1. relation \in Seq(EventType)
  BY DEF IInv
<1>2. Len(relation) \in Nat /\ Ids = 1 .. Len(relation) /\ \A e \in Ids : relation[e] \in EventType
  BY <1>1 DEF Ids
<1>3. \A x \in EventType : x.zone \in Zone /\ x.read \in BOOLEAN
  BY DEF EventType
<1> QED
  BY <1>2, <1>3

(* A run starts with empty stacks, and nothing popped.                     *)
LEMMA FreshState ==
  Fresh \in States /\ DOMAIN Fresh.pops = {} /\ ~Fresh.blocked /\ \A z \in Zone : Fresh.stacks[z] = <<>>
<1>1. <<>> \in [{} -> Ids]
  OBVIOUS
<1>2. <<>> \in UNION { [D -> Ids] : D \in SUBSET Ids } /\ DOMAIN <<>> = {}
  BY <1>1
<1>3. [z \in Zone |-> <<>>] \in [Zone -> Seq(Ids)]
  OBVIOUS
<1> QED
  BY <1>2, <1>3 DEF Fresh, States

(* A write pushes; a read pops, or blocks the run if it cannot.            *)
LEMMA ExecuteFacts ==
  ASSUME IInv, NEW v, NEW st \in States, NEW e \in Ids
  PROVE  /\ ~relation[e].read => Pushed(st, Execute(st, e, v), e)
         /\ relation[e].read /\ CanPop(st, e, v) => Popped(st, Execute(st, e, v), e)
         /\ relation[e].read /\ ~CanPop(st, e, v) => Execute(st, e, v) \in States /\ Execute(st, e, v).blocked
<1> DEFINE z == relation[e].zone
           q == st.stacks[z]
           t == Execute(st, e, v)
<1>1. z \in Zone /\ relation[e].read \in BOOLEAN
  BY EventFacts
<1>2. q \in Seq(Ids) /\ st.stacks \in [Zone -> Seq(Ids)] /\ st.blocked \in BOOLEAN
  BY <1>1 DEF States
<1>3. PICK D \in SUBSET Ids : st.pops \in [D -> Ids]
  BY DEF States
<1>4. ASSUME ~relation[e].read PROVE Pushed(st, t, e)
  <2>1. t = [st EXCEPT !.stacks[z] = Append(q, e)]
    BY <1>4 DEF Execute
  <2>2. Append(q, e) \in Seq(Ids)
    BY <1>2
  <2> QED
    BY <1>1, <1>2, <2>1, <2>2 DEF Pushed, States
<1>5. ASSUME relation[e].read, CanPop(st, e, v) PROVE Popped(st, t, e)
  <2> DEFINE p == [r \in DOMAIN st.pops \union {e} |-> IF r = e THEN Last(q) ELSE st.pops[r]]
  <2>1. t = [st EXCEPT !.stacks[z] = Front(q), !.pops = p]
    BY <1>5 DEF Execute, CanPop
  <2>2. q # <<>>
    BY <1>5 DEF CanPop
  <2>3. Front(q) \in Seq(Ids) /\ Last(q) \in Ids
    BY <1>2, <2>2, FrontFacts, FrontInSeq
  <2>4. p \in [D \union {e} -> Ids] /\ D \union {e} \in SUBSET Ids
    BY <1>3, <2>3
  <2>5. DOMAIN p = DOMAIN st.pops \union {e} /\ p[e] = Last(q) /\ \A r \in DOMAIN st.pops : r # e => p[r] = st.pops[r]
    OBVIOUS
  <2> HIDE DEF p
  <2>6. p \in UNION { [E -> Ids] : E \in SUBSET Ids }
    BY <2>4
  <2>7. t.stacks = [st.stacks EXCEPT ![z] = Front(q)] /\ t.pops = p /\ t.blocked = st.blocked
    BY <2>1 DEF States
  <2>8. t \in States
    BY <1>1, <1>2, <2>1, <2>3, <2>6 DEF States
  <2> QED
    BY <2>5, <2>7, <2>8 DEF Popped
<1>6. ASSUME relation[e].read, ~CanPop(st, e, v) PROVE t \in States /\ t.blocked
  <2>1. t = [st EXCEPT !.blocked = TRUE]
    BY <1>6 DEF Execute, CanPop
  <2> QED
    BY <2>1 DEF States
<1> QED
  BY <1>4, <1>5, <1>6

-----------------------------------------------------------------------------
(* A schedule, as far as its first i events.                               *)
Sofar(s, i) == { s[j] : j \in 1 .. i }

(* The events of a schedule so far, and one more.                          *)
LEMMA SofarGrows ==
  ASSUME NEW s, NEW i \in Nat
  PROVE  /\ Sofar(s, 0) = {}
         /\ Sofar(s, i + 1) = Sofar(s, i) \union {s[i + 1]}
<1>1. \A j \in Nat : j \in 1 .. i + 1 <=> j \in 1 .. i \/ j = i + 1
  OBVIOUS
<1>2. 1 .. 0 = {} /\ i + 1 \in Nat /\ (\A j \in 1 .. i : j \in Nat) /\ \A j \in 1 .. i + 1 : j \in Nat
  OBVIOUS
<1>3. Sofar(s, 0) = {}
  BY <1>2 DEF Sofar
<1>4. \A x \in Sofar(s, i + 1) : x \in Sofar(s, i) \union {s[i + 1]}
  BY <1>1, <1>2, Zenon DEF Sofar
<1>5. \A x \in Sofar(s, i) \union {s[i + 1]} : x \in Sofar(s, i + 1)
  BY <1>1, <1>2 DEF Sofar
<1> QED
  BY <1>3, <1>4, <1>5

(* What comes before an event of the schedule comes before it in the order. *)
LEMMA SofarOrder ==
  ASSUME NEW E, IsFiniteSet(E), NEW s \in SetToSeqs(E), NEW R, Orders(R, E), Sorted(R, s), NEW i \in 1 .. Len(s)
  PROVE  /\ s[i] \in E /\ s[i] \notin Sofar(s, i - 1)
         /\ Sofar(s, i - 1) \subseteq E /\ Sofar(s, Len(s)) = E
         /\ \A a \in E : a \in Sofar(s, i - 1) <=> <<a, s[i]>> \in R
<1> DEFINE n == Len(s)
<1>1. /\ s \in Seq(E) /\ n \in Nat /\ DOMAIN s = 1 .. n
      /\ \A a, b \in 1 .. n : s[a] = s[b] => a = b
      /\ \A e \in E : \E a \in 1 .. n : s[a] = e
  BY AllOnce
<1>2. \A a, b \in 1 .. n : a < b => <<s[a], s[b]>> \in R
  BY <1>1 DEF Sorted
<1>3. \A a \in 1 .. n : s[a] \in E
  BY <1>1
<1>4. (\A a \in 1 .. i - 1 : a \in 1 .. n /\ a < i) /\ \A a \in 1 .. n : a < i => a \in 1 .. i - 1
  BY <1>1
<1> HIDE DEF n
<1>5. s[i] \notin Sofar(s, i - 1)
  <2> SUFFICES ASSUME NEW a \in 1 .. i - 1, s[a] = s[i] PROVE FALSE
    BY DEF Sofar
  <2>1. a \in 1 .. n /\ a < i /\ i \in 1 .. n
    BY <1>4 DEF n
  <2>2. a = i
    BY <1>1, <2>1
  <2> QED
    BY <2>1, <2>2
<1>6. Sofar(s, i - 1) \subseteq E /\ Sofar(s, n) = E
  <2>1. \A x \in Sofar(s, i - 1) : x \in E
    BY <1>3, <1>4 DEF Sofar
  <2>2. \A x \in Sofar(s, n) : x \in E
    BY <1>3 DEF Sofar
  <2>3. \A x \in E : x \in Sofar(s, n)
    BY <1>1 DEF Sofar
  <2> QED
    BY <2>1, <2>2, <2>3
<1>7. i \in 1 .. n
  BY DEF n
<1>8. ASSUME NEW a \in E, a \in Sofar(s, i - 1) PROVE <<a, s[i]>> \in R
  BY <1>2, <1>4, <1>7, <1>8 DEF Sofar
<1>9. ASSUME NEW a \in E, <<a, s[i]>> \in R PROVE a \in Sofar(s, i - 1)
  <2>1. PICK j \in 1 .. n : s[j] = a
    BY <1>1
  <2>2. s[i] \in E /\ s[j] \in E
    BY <1>3, <1>7
  <2>3. CASE j < i
    BY <1>4, <2>1, <2>3 DEF Sofar
  <2>4. CASE j = i
    BY <1>9, <2>1, <2>2, <2>4 DEF Orders
  <2>5. CASE i < j
    <3>1. <<s[i], s[j]>> \in R
      BY <1>2, <1>7, <2>5
    <3> QED
      BY <1>9, <2>1, <2>2, <3>1 DEF Orders
  <2>6. j < i \/ j = i \/ i < j
    BY <1>1, <1>7
  <2> QED
    BY <2>3, <2>4, <2>5, <2>6
<1> QED
  BY <1>3, <1>5, <1>6, <1>7, <1>8, <1>9 DEF n

-----------------------------------------------------------------------------
(* A stack whose elements are in the order R.                              *)
LEMMA PushSorted ==
  ASSUME NEW E, NEW R, NEW q \in Seq(E), Sorted(R, q), NEW e \in E, \A a \in Range(q) : <<a, e>> \in R
  PROVE  /\ Sorted(R, Append(q, e))
         /\ Range(Append(q, e)) = Range(q) \union {e}
<1> DEFINE n == Len(q)
           b == Append(q, e)
<1>1. n \in Nat /\ DOMAIN q = 1 .. n
  OBVIOUS
<1>2. b \in Seq(E) /\ Len(b) = n + 1 /\ b[n + 1] = e /\ \A i \in 1 .. n : b[i] = q[i]
  BY <1>1, AppendFacts
<1>3. DOMAIN b = 1 .. n + 1
  BY <1>2
<1>4. n + 1 \in 1 .. n + 1 /\ \A i \in Nat : i \in 1 .. n + 1 <=> (i \in 1 .. n \/ i = n + 1)
  BY <1>1
<1> HIDE DEF n, b
<1>5. ASSUME NEW i \in 1 .. n + 1, NEW j \in 1 .. n + 1, i < j PROVE <<b[i], b[j]>> \in R
  <2>1. i \in 1 .. n
    BY <1>1, <1>5
  <2>2. CASE j \in 1 .. n
    BY <1>1, <1>2, <1>5, <2>1, <2>2 DEF Sorted
  <2>3. CASE j = n + 1
    <3>1. q[i] \in Range(q)
      BY <1>1, <2>1 DEF Range
    <3> QED
      BY <1>2, <2>1, <2>3, <3>1
  <2> QED
    BY <1>1, <2>2, <2>3
<1>6. Range(b) = Range(q) \union {e}
  <2>1. \A x \in Range(b) : x \in Range(q) \union {e}
    <3> SUFFICES ASSUME NEW i \in 1 .. n + 1 PROVE b[i] \in Range(q) \union {e}
      BY <1>3 DEF Range
    <3>1. i \in 1 .. n \/ i = n + 1
      BY <1>1
    <3> QED
      BY <1>1, <1>2, <3>1 DEF Range
  <2>2. \A x \in Range(q) : x \in Range(b)
    <3> SUFFICES ASSUME NEW i \in 1 .. n PROVE q[i] \in Range(b)
      BY <1>1 DEF Range
    <3>1. i \in 1 .. n + 1
      BY <1>1
    <3> QED
      BY <1>2, <1>3, <3>1 DEF Range
  <2>3. e \in Range(b)
    BY <1>2, <1>3, <1>4 DEF Range
  <2> QED
    BY <2>1, <2>2, <2>3
<1> QED
  BY <1>3, <1>5, <1>6 DEF Sorted, b

(* A stack that is popped stays in the order, and on top of it was the     *)
(* last element in the order.                                              *)
LEMMA PopSorted ==
  ASSUME NEW E, NEW R, Orders(R, E), NEW q \in Seq(E), Sorted(R, q), q # <<>>
  PROVE  /\ Sorted(R, Front(q))
         /\ Last(q) \in Range(q)
         /\ Range(Front(q)) = Range(q) \ {Last(q)}
         /\ \A y \in Range(q) : y = Last(q) \/ <<y, Last(q)>> \in R
<1> DEFINE n == Len(q)
           b == Front(q)
<1>1. n \in Nat /\ n # 0 /\ DOMAIN q = 1 .. n /\ n \in 1 .. n
  OBVIOUS
<1>2. b \in Seq(E) /\ Len(b) = n - 1 /\ Last(q) = q[n] /\ \A i \in 1 .. n - 1 : b[i] = q[i]
  BY FrontFacts
<1>3. DOMAIN b = 1 .. n - 1
  BY <1>1, <1>2
<1>4. \A i \in 1 .. n : q[i] \in E
  OBVIOUS
<1> HIDE DEF n, b
<1>5. ASSUME NEW i \in 1 .. n PROVE (i \in 1 .. n - 1 /\ i < n) \/ i = n
  <2>1. n \in Nat
    BY <1>1
  <2> QED
    BY <2>1
<1>6. ASSUME NEW i \in 1 .. n - 1 PROVE i \in 1 .. n /\ i < n
  <2>1. n \in Nat
    BY <1>1
  <2> QED
    BY <2>1
<1>7. \A i, j \in 1 .. n : i < j => <<q[i], q[j]>> \in R
  BY <1>1 DEF Sorted
<1>8. Sorted(R, b)
  BY <1>2, <1>3, <1>6, <1>7 DEF Sorted
<1>9. \A y \in Range(q) : y = Last(q) \/ <<y, Last(q)>> \in R
  <2> SUFFICES ASSUME NEW i \in 1 .. n PROVE q[i] = q[n] \/ <<q[i], q[n]>> \in R
    BY <1>1, <1>2 DEF Range
  <2> QED
    BY <1>1, <1>5, <1>7
<1>10. Last(q) \in Range(q)
  BY <1>1, <1>2 DEF Range
<1>11. Range(b) = Range(q) \ {Last(q)}
  <2>1. \A x \in Range(b) : x \in Range(q) \ {Last(q)}
    <3> SUFFICES ASSUME NEW i \in 1 .. n - 1 PROVE b[i] \in Range(q) \ {Last(q)}
      BY <1>3 DEF Range
    <3>1. <<q[i], q[n]>> \in R /\ q[i] \in E /\ q[n] \in E
      BY <1>1, <1>4, <1>6, <1>7
    <3>2. q[i] # q[n]
      BY <3>1 DEF Orders
    <3> QED
      BY <1>1, <1>2, <1>6, <3>2 DEF Range
  <2>2. \A x \in Range(q) \ {Last(q)} : x \in Range(b)
    <3> SUFFICES ASSUME NEW i \in 1 .. n, q[i] # q[n] PROVE q[i] \in Range(b)
      BY <1>1, <1>2 DEF Range
    <3>1. i \in 1 .. n - 1
      BY <1>5
    <3> QED
      BY <1>2, <1>3, <3>1 DEF Range
  <2> QED
    BY <2>1, <2>2
<1> QED
  BY <1>8, <1>9, <1>10, <1>11 DEF b

-----------------------------------------------------------------------------
(* The pushes to zone z among the events F that the pops p leave there.    *)
Unpopped(z, F, p) ==
  { w \in F : ~relation[w].read /\ relation[w].zone = z /\ \A r \in F : relation[r].read => p[r] # w }

(* A run that has executed the events F, in the order R.                   *)
Running(st, R, F) ==
  /\ st \in States /\ ~st.blocked
  /\ DOMAIN st.pops = { r \in F : relation[r].read }
  /\ \A r \in DOMAIN st.pops : st.pops[r] \in F
  /\ \A z \in Zone : Sorted(R, st.stacks[z]) /\ Range(st.stacks[z]) = Unpopped(z, F, st.pops)

(* What is on top of the stack q was pushed last of what is left on it.    *)
OnTop(R, q, U) ==
  /\ q = <<>> => U = {}
  /\ q # <<>> => Last(q) \in U /\ \A y \in U : y = Last(q) \/ <<y, Last(q)>> \in R

(* On top of a stack of a run is what was pushed last of what is left      *)
(* there.                                                                  *)
LEMMA TopFacts ==
  ASSUME NEW E, E \subseteq Ids, NEW R, Orders(R, E), NEW F, F \subseteq E, NEW st, Running(st, R, F), NEW z \in Zone
  PROVE  st.stacks[z] \in Seq(E) /\ OnTop(R, st.stacks[z], Unpopped(z, F, st.pops))
<1> DEFINE q == st.stacks[z]
           U == Unpopped(z, F, st.pops)
<1>1. q \in Seq(Ids)
  BY DEF Running, States
<1>2. Sorted(R, q) /\ Range(q) = U
  BY DEF Running
<1>3. U \subseteq E
  BY DEF Unpopped
<1> HIDE DEF U
<1>4. q \in Seq(E)
  <2>1. \A i \in DOMAIN q : q[i] \in E
    BY <1>2, <1>3 DEF Range
  <2> HIDE DEF q
  <2> QED
    BY <1>1, <2>1
<1>5. q = <<>> => Range(q) = {}
  BY DEF Range
<1>6. q # <<>> => Last(q) \in Range(q) /\ \A y \in Range(q) : y = Last(q) \/ <<y, Last(q)>> \in R
  BY <1>2, <1>4, PopSorted
<1> QED
  BY <1>2, <1>4, <1>5, <1>6 DEF U, OnTop

(* A run goes on with a push.                                              *)
LEMMA RunningPush ==
  ASSUME NEW E, E \subseteq Ids, NEW R, Orders(R, E), NEW F, F \subseteq E, NEW st, Running(st, R, F),
         NEW e \in E, e \notin F, \A a \in F : <<a, e>> \in R,
         ~relation[e].read, relation[e].zone \in Zone, NEW t, Pushed(st, t, e)
  PROVE  Running(t, R, F \union {e})
<1> DEFINE z == relation[e].zone
           q == st.stacks[z]
           G == F \union {e}
<1>1. /\ t \in States /\ t.blocked = st.blocked /\ t.pops = st.pops
      /\ t.stacks = [st.stacks EXCEPT ![z] = Append(q, e)]
  BY DEF Pushed
<1>2. /\ st \in States /\ ~st.blocked
      /\ DOMAIN st.pops = { r \in F : relation[r].read }
      /\ \A r \in DOMAIN st.pops : st.pops[r] \in F
      /\ \A y \in Zone : Sorted(R, st.stacks[y]) /\ Range(st.stacks[y]) = Unpopped(y, F, st.pops)
  BY DEF Running
<1>3. DOMAIN t.pops = { r \in G : relation[r].read }
  BY <1>1, <1>2
<1>4. \A r \in DOMAIN t.pops : t.pops[r] \in G
  BY <1>1, <1>2
<1>5. ASSUME NEW y \in Zone
      PROVE  Unpopped(y, G, st.pops) = Unpopped(y, F, st.pops) \union (IF y = z THEN {e} ELSE {})
  <2>1. \A r \in F : relation[r].read => st.pops[r] # e
    BY <1>2
  <2>2. \A x \in Unpopped(y, G, st.pops) : x \in Unpopped(y, F, st.pops) \union (IF y = z THEN {e} ELSE {})
    BY DEF Unpopped
  <2>3. \A x \in Unpopped(y, F, st.pops) : x \in Unpopped(y, G, st.pops)
    BY DEF Unpopped
  <2>4. y = z => e \in Unpopped(y, G, st.pops)
    BY <2>1 DEF Unpopped
  <2> QED
    BY <2>2, <2>3, <2>4
<1>6. q \in Seq(E)
  BY TopFacts
<1>7. Sorted(R, q) /\ Range(q) = Unpopped(z, F, st.pops)
  BY <1>2
<1>8. \A a \in Range(q) : <<a, e>> \in R
  BY <1>7 DEF Unpopped
<1>9. Sorted(R, Append(q, e)) /\ Range(Append(q, e)) = Range(q) \union {e}
  BY <1>6, <1>7, <1>8, PushSorted
<1>10. st.stacks \in [Zone -> Seq(Ids)]
  BY <1>2 DEF States
<1> HIDE DEF q
<1>11. ASSUME NEW y \in Zone PROVE Sorted(R, t.stacks[y]) /\ Range(t.stacks[y]) = Unpopped(y, G, st.pops)
  <2>1. CASE y = z
    <3> DEFINE A == Append(q, e)
    <3>0. t.stacks = [st.stacks EXCEPT ![z] = A] /\ z \in Zone
      BY <1>1
    <3>1. t.stacks[y] = A
      <4> HIDE DEF A, z
      <4> QED
        BY <1>10, <2>1, <3>0
    <3> QED
      BY <1>5, <1>7, <1>9, <2>1, <3>1
  <2>2. CASE y # z
    <3>1. t.stacks[y] = st.stacks[y]
      BY <1>1, <1>10, <2>2
    <3>2. Unpopped(y, G, st.pops) = Unpopped(y, F, st.pops)
      BY <1>5, <2>2
    <3> HIDE DEF G
    <3> QED
      BY <1>2, <3>1, <3>2
  <2> QED
    BY <2>1, <2>2
<1> QED
  BY <1>1, <1>2, <1>3, <1>4, <1>11 DEF Running

(* A run goes on with a pop.                                               *)
LEMMA RunningPop ==
  ASSUME NEW E, E \subseteq Ids, NEW R, Orders(R, E), NEW F, F \subseteq E, NEW st, Running(st, R, F),
         NEW e \in E, e \notin F,
         relation[e].read, relation[e].zone \in Zone, st.stacks[relation[e].zone] # <<>>, NEW t, Popped(st, t, e)
  PROVE  Running(t, R, F \union {e})
<1> DEFINE z == relation[e].zone
           q == st.stacks[z]
           G == F \union {e}
<1>1. /\ t \in States /\ t.blocked = st.blocked
      /\ DOMAIN t.pops = DOMAIN st.pops \union {e}
      /\ t.pops[e] = Last(q)
      /\ \A r \in DOMAIN st.pops : r # e => t.pops[r] = st.pops[r]
      /\ t.stacks = [st.stacks EXCEPT ![z] = Front(q)]
  BY DEF Popped
<1>2. /\ st \in States /\ ~st.blocked
      /\ DOMAIN st.pops = { r \in F : relation[r].read }
      /\ \A r \in DOMAIN st.pops : st.pops[r] \in F
      /\ \A y \in Zone : Sorted(R, st.stacks[y]) /\ Range(st.stacks[y]) = Unpopped(y, F, st.pops)
  BY DEF Running
<1>3. DOMAIN t.pops = { r \in G : relation[r].read }
  BY <1>1, <1>2
<1>4. q \in Seq(E) /\ Last(q) \in Unpopped(z, F, st.pops)
  BY TopFacts DEF OnTop
<1>5. \A r \in F : relation[r].read => t.pops[r] = st.pops[r]
  BY <1>1, <1>2
<1>6. \A r \in DOMAIN t.pops : t.pops[r] \in G
  BY <1>1, <1>2, <1>4, <1>5 DEF Unpopped
<1>7. ASSUME NEW y \in Zone
      PROVE  Unpopped(y, G, t.pops) = Unpopped(y, F, st.pops) \ {Last(q)}
  <2>1. \A x \in Unpopped(y, G, t.pops) : x \in Unpopped(y, F, st.pops) \ {Last(q)}
    BY <1>1, <1>5 DEF Unpopped
  <2>2. \A x \in Unpopped(y, F, st.pops) \ {Last(q)} : x \in Unpopped(y, G, t.pops)
    BY <1>1, <1>5 DEF Unpopped
  <2> QED
    BY <2>1, <2>2
<1>8. /\ Sorted(R, q) /\ Range(q) = Unpopped(z, F, st.pops)
      /\ Sorted(R, Front(q)) /\ Range(Front(q)) = Range(q) \ {Last(q)}
  BY <1>2, <1>4, PopSorted
<1>9. \A y \in Zone : y # z => Last(q) \notin Unpopped(y, F, st.pops)
  BY <1>4 DEF Unpopped
<1>10. st.stacks \in [Zone -> Seq(Ids)]
  BY <1>2 DEF States
<1> HIDE DEF q
<1>11. ASSUME NEW y \in Zone PROVE Sorted(R, t.stacks[y]) /\ Range(t.stacks[y]) = Unpopped(y, G, t.pops)
  <2>1. CASE y = z
    <3>1. t.stacks[y] = Front(q)
      BY <1>1, <1>10, <2>1
    <3> QED
      BY <1>7, <1>8, <2>1, <3>1
  <2>2. CASE y # z
    <3>1. t.stacks[y] = st.stacks[y]
      BY <1>1, <1>10, <2>2
    <3> QED
      BY <1>2, <1>7, <1>9, <2>2, <3>1
  <2> QED
    BY <2>1, <2>2
<1> QED
  BY <1>1, <1>2, <1>3, <1>6, <1>11 DEF Running

-----------------------------------------------------------------------------
(* What a model of the encoding satisfies.                                 *)
LEMMA ModelFacts ==
  ASSUME IInv, NEW v, NEW m \in Models(v)
  PROVE  /\ m.clock \in [Ids -> Nat]
         /\ \A d, e \in Ids : ProgramOrder(d, e) => m.clock[d] < m.clock[e]
         /\ \A r \in Reads : m.rf[r] # NoWrite => m.clock[m.rf[r]] < m.clock[r]
         /\ \A r \in Reads : m.rf[r] \in RfEnc(r, v)
         /\ DOMAIN m.rf = Ids
         /\ WsEnc(m.clock) /\ StackEnc(m.clock, m.rf, v) /\ RsEnc(m.rf)
<1>0. Len(relation) \in Nat /\ Ids = 1 .. Len(relation)
  BY EventFacts
<1>1. PICK rf \in Rfs(v) : RsEnc(rf) /\ m \in { [clock |-> clock, rf |-> rf] : clock \in
              { c \in Clocks(Spo \union RfOrder(rf)) : WsEnc(c) /\ StackEnc(c, rf, v) } }
  BY DEF Models
<1>2. PICK c \in Clocks(Spo \union RfOrder(rf)) :
           WsEnc(c) /\ StackEnc(c, rf, v) /\ m = [clock |-> c, rf |-> rf]
  BY <1>1
<1>3. m.clock = c /\ m.rf = rf
  BY <1>2
<1> DEFINE before == Spo \union RfOrder(rf)
<1>4. /\ c \in Seq(Nat) /\ Len(c) = Len(relation)
      /\ \A p \in before : p[1] \in 1 .. Len(relation) /\ p[2] \in 1 .. Len(relation) => c[p[1]] < c[p[2]]
  <2>1. c \in Clocks(before)
    BY <1>2
  <2> HIDE DEF before
  <2> QED
    BY <1>0, <2>1, ClocksRespect
<1>5. /\ rf \in Seq(Ids \union {NoWrite}) /\ Len(rf) = Len(relation)
      /\ \A n \in 1 .. Len(relation) : rf[n] \in MayRead(n, v)
  BY <1>0, <1>1, RfsFacts
<1>6. DOMAIN rf = Ids
  BY <1>0, <1>5
<1>7. \A r \in Reads : r \in Ids /\ rf[r] \in RfEnc(r, v)
  BY <1>0, <1>5 DEF MayRead, Reads
<1>8. c \in [Ids -> Nat]
  BY <1>0, <1>4
<1>9. ASSUME NEW d \in Ids, NEW e \in Ids, ProgramOrder(d, e) PROVE c[d] < c[e]
  <2>1. <<d, e>> \in before
    BY <1>9 DEF Spo
  <2> HIDE DEF before
  <2> QED
    BY <1>0, <1>4, <2>1
<1>10. ASSUME NEW r \in Reads, rf[r] # NoWrite PROVE c[rf[r]] < c[r]
  <2>1. <<rf[r], r>> \in before
    BY <1>10 DEF RfOrder
  <2>2. rf[r] \in Ids /\ r \in Ids
    BY <1>7, <1>10 DEF RfEnc, Writes
  <2> HIDE DEF before
  <2> DEFINE p == <<rf[r], r>>
  <2>3. p \in before /\ p[1] \in 1 .. Len(relation) /\ p[2] \in 1 .. Len(relation)
    BY <1>0, <2>1, <2>2
  <2>4. c[p[1]] < c[p[2]]
    BY <1>4, <2>3
  <2> QED
    BY <2>4
<1> QED
  BY <1>1, <1>2, <1>3, <1>6, <1>7, <1>8, <1>9, <1>10

(* The order of the clocks; of events that happen at the same time, reads  *)
(* come first.                                                             *)
TimeOrder(c) ==
  { p \in Ids \X Ids :
      \/ c[p[1]] < c[p[2]]
      \/ /\ c[p[1]] = c[p[2]]
         /\ \/ relation[p[1]].read /\ ~relation[p[2]].read
            \/ relation[p[1]].read = relation[p[2]].read /\ p[1] < p[2] }

(* The definition, for one pair of events.                                 *)
LEMMA InTimeOrder ==
  ASSUME NEW c, NEW d \in Ids, NEW e \in Ids
  PROVE  <<d, e>> \in TimeOrder(c) <=>
           \/ c[d] < c[e]
           \/ /\ c[d] = c[e]
              /\ \/ relation[d].read /\ ~relation[e].read
                 \/ relation[d].read = relation[e].read /\ d < e
BY DEF TimeOrder

(* The order of the clocks is a strict total order of the events.          *)
LEMMA TimeOrders ==
  ASSUME IInv, NEW c \in [Ids -> Nat], NEW E \in SUBSET Ids
  PROVE  Orders(TimeOrder(c), E)
<1>1. \A e \in Ids : c[e] \in Nat /\ e \in Nat /\ relation[e].read \in BOOLEAN
  BY EventFacts
<1>2. ASSUME NEW a \in Ids PROVE <<a, a>> \notin TimeOrder(c)
  <2>1. <<a, a>> \in TimeOrder(c) =>
           \/ c[a] < c[a]
           \/ /\ c[a] = c[a]
              /\ \/ relation[a].read /\ ~relation[a].read
                 \/ relation[a].read = relation[a].read /\ a < a
    BY InTimeOrder
  <2>2. c[a] \in Nat /\ a \in Nat
    BY <1>1
  <2> QED
    BY <2>1, <2>2
<1>3. ASSUME NEW a \in Ids, NEW b \in Ids, a # b PROVE <<a, b>> \in TimeOrder(c) \/ <<b, a>> \in TimeOrder(c)
  <2>1. c[a] \in Nat /\ a \in Nat /\ c[b] \in Nat /\ b \in Nat /\ relation[a].read \in BOOLEAN /\ relation[b].read \in BOOLEAN
    BY <1>1
  <2>2. c[a] < c[b] \/ c[b] < c[a] \/ c[a] = c[b]
    BY <2>1
  <2>3. a < b \/ b < a
    BY <1>3, <2>1
  <2>4. <<a, b>> \in TimeOrder(c) <=>
           \/ c[a] < c[b]
           \/ /\ c[a] = c[b]
              /\ \/ relation[a].read /\ ~relation[b].read
                 \/ relation[a].read = relation[b].read /\ a < b
    BY InTimeOrder
  <2>5. <<b, a>> \in TimeOrder(c) <=>
           \/ c[b] < c[a]
           \/ /\ c[b] = c[a]
              /\ \/ relation[b].read /\ ~relation[a].read
                 \/ relation[b].read = relation[a].read /\ b < a
    BY InTimeOrder
  <2>6. (relation[a].read /\ ~relation[b].read) \/ (relation[b].read /\ ~relation[a].read) \/ relation[a].read = relation[b].read
    BY <2>1
  <2> QED
    BY <2>2, <2>3, <2>4, <2>5, <2>6
<1>4. ASSUME NEW a \in Ids, NEW b \in Ids, NEW d \in Ids,
             <<a, b>> \in TimeOrder(c), <<b, d>> \in TimeOrder(c)
      PROVE  <<a, d>> \in TimeOrder(c)
  <2>1. /\ c[a] \in Nat /\ a \in Nat /\ c[b] \in Nat /\ b \in Nat /\ c[d] \in Nat /\ d \in Nat
        /\ relation[a].read \in BOOLEAN /\ relation[b].read \in BOOLEAN /\ relation[d].read \in BOOLEAN
    BY <1>1
  <2>2. \/ c[a] < c[b]
        \/ /\ c[a] = c[b]
           /\ \/ relation[a].read /\ ~relation[b].read
              \/ relation[a].read = relation[b].read /\ a < b
    BY <1>4, InTimeOrder
  <2>3. \/ c[b] < c[d]
        \/ /\ c[b] = c[d]
           /\ \/ relation[b].read /\ ~relation[d].read
              \/ relation[b].read = relation[d].read /\ b < d
    BY <1>4, InTimeOrder
  <2>4. <<a, d>> \in TimeOrder(c) <=>
           \/ c[a] < c[d]
           \/ /\ c[a] = c[d]
              /\ \/ relation[a].read /\ ~relation[d].read
                 \/ relation[a].read = relation[d].read /\ a < d
    BY InTimeOrder
  <2>5. \/ c[a] < c[d]
        \/ /\ c[a] = c[d]
           /\ \/ relation[a].read /\ ~relation[d].read
              \/ relation[a].read = relation[d].read /\ a < d
    BY <2>1, <2>2, <2>3
  <2> QED
    BY <2>4, <2>5
<1> QED
  BY <1>2, <1>3, <1>4 DEF Orders

-----------------------------------------------------------------------------
(* The events of the run that a model stands for.                          *)
Happening(m, v) == EnabledIds(v) \union Popping(m)

(* Enabled pops read from a push, so the pops that happen are those that   *)
(* do.                                                                     *)
LEMMA HappeningFacts ==
  ASSUME IInv, NEW v, NEW m \in Models(v)
  PROVE  /\ Happening(m, v) \subseteq Ids
         /\ \A r \in Happening(m, v) : relation[r].read <=> r \in Popping(m)
         /\ \A w \in Writes : w \in Happening(m, v) <=> Enabled(w, v)
<1>1. \A r \in Reads : m.rf[r] \in RfEnc(r, v)
  BY ModelFacts
<1>2. \A w \in Writes : w \in Ids /\ w # NoWrite /\ ~relation[w].read
  BY EncoderAssumption, EventFacts DEF Writes, Reads
<1>3. \A r \in Popping(m) : r \in Ids /\ relation[r].read
  BY DEF Popping, Reads
<1>4. ASSUME NEW r \in EnabledIds(v), relation[r].read PROVE r \in Popping(m)
  <2>1. r \in Reads /\ Enabled(r, v)
    BY <1>4 DEF EnabledIds, Reads
  <2>2. m.rf[r] \in Writes
    BY <1>1, <2>1 DEF RfEnc
  <2> QED
    BY <1>2, <2>1, <2>2 DEF Popping
<1>5. \A e \in EnabledIds(v) : e \in Ids /\ Enabled(e, v)
  BY DEF EnabledIds
<1>6. \A w \in Writes : Enabled(w, v) => w \in EnabledIds(v)
  BY <1>2 DEF EnabledIds
<1> QED
  BY <1>2, <1>3, <1>4, <1>5, <1>6 DEF Happening

(* In the order of the clocks, a pop finds what the model says on top.     *)
LEMMA SoundPop ==
  ASSUME IInv, NEW v, NEW m \in Models(v),
         NEW F, NEW e \in Happening(m, v), relation[e].read, F \subseteq Happening(m, v),
         \A a \in Happening(m, v) : a \in F <=> <<a, e>> \in TimeOrder(m.clock), e \notin F,
         NEW st, Running(st, TimeOrder(m.clock), F), \A r \in DOMAIN st.pops : st.pops[r] = m.rf[r]
  PROVE  CanPop(st, e, v) /\ Last(st.stacks[relation[e].zone]) = m.rf[e]
<1> DEFINE c == m.clock
           rf == m.rf
           R == TimeOrder(c)
           E == Happening(m, v)
           z == relation[e].zone
           q == st.stacks[z]
           x == rf[e]
           U == Unpopped(z, F, st.pops)
<1>1. /\ c \in [Ids -> Nat]
      /\ \A r \in Reads : rf[r] # NoWrite => c[rf[r]] < c[r]
      /\ \A r \in Reads : rf[r] \in RfEnc(r, v)
      /\ WsEnc(c) /\ StackEnc(c, rf, v) /\ RsEnc(rf)
  BY ModelFacts
<1>0. /\ E \subseteq Ids /\ \A r \in E : relation[r].read <=> r \in Popping(m)
      /\ \A w \in Writes : w \in E <=> Enabled(w, v)
  BY HappeningFacts
<1>2. E \subseteq Ids /\ e \in Ids /\ e \in Reads /\ x # NoWrite
  BY <1>0 DEF Popping
<1>3. x \in Writes /\ SameZone(x, e) /\ Enabled(x, v) /\ Expected(x, e, v)
  BY <1>1, <1>2 DEF RfEnc
<1>4. \A w \in Writes : w \in Ids /\ w # NoWrite /\ ~relation[w].read
  BY EncoderAssumption, EventFacts DEF Writes, Reads
<1>5. x \in E /\ relation[x].zone = z /\ c[x] < c[e]
  BY <1>0, <1>1, <1>2, <1>3, <1>4 DEF SameZone
<1>6. x \in F
  <2>1. <<x, e>> \in R
    BY <1>2, <1>5, InTimeOrder
  <2> QED
    BY <1>5, <2>1
<1>7. DOMAIN st.pops = { r \in F : relation[r].read }
  BY DEF Running
<1>8. \A r \in F : relation[r].read => r \in Reads /\ r # e /\ st.pops[r] = rf[r]
  BY <1>0, <1>2, <1>7 DEF Popping
<1>9. ASSUME NEW r \in F, relation[r].read, rf[r] = x PROVE FALSE
  <2>1. r \in Reads /\ r # e
    BY <1>8, <1>9
  <2>2. SameZone(x, r)
    <3>1. x \in RfEnc(r, v) /\ x # NoWrite
      BY <1>1, <1>3, <1>4, <1>9, <2>1
    <3> QED
      BY <3>1 DEF RfEnc
  <2>3. SameZone(r, e)
    BY <1>3, <2>2 DEF SameZone
  <2>4. x # NoWrite
    BY <1>3, <1>4
  <2>5. \A p1, p2 \in Reads : SameZone(p1, p2) /\ rf[p1] = rf[p2] /\ rf[p1] # NoWrite => p1 = p2
    BY <1>1 DEF RsEnc
  <2> QED
    BY <1>2, <1>9, <2>1, <2>3, <2>4, <2>5
<1>10. x \in U
  BY <1>3, <1>4, <1>5, <1>6, <1>8, <1>9 DEF Unpopped
<1>11. z \in Zone
  BY <1>2, EventFacts
<1>12. Orders(R, E)
  BY <1>1, <1>2, TimeOrders
<1> HIDE DEF R, E, q, U
<1>13. /\ q = <<>> => U = {}
       /\ q # <<>> => Last(q) \in U /\ \A y \in U : y = Last(q) \/ <<y, Last(q)>> \in R
  <2>1. Running(st, R, F) /\ F \subseteq E
    BY DEF R, E
  <2>2. E \subseteq Ids
    BY <1>2
  <2> HIDE DEF z
  <2>3. OnTop(R, st.stacks[z], Unpopped(z, F, st.pops))
    BY <1>11, <1>12, <2>1, <2>2, TopFacts
  <2> QED
    BY <2>3 DEF q, U, OnTop
<1>14. q # <<>>
  BY <1>10, <1>13
<1> DEFINE y == Last(q)
<1>15. y \in U /\ (x = y \/ <<x, y>> \in R)
  BY <1>10, <1>13, <1>14
<1> HIDE DEF y
<1>16. y \in F /\ ~relation[y].read /\ relation[y].zone = z /\ \A r \in F : relation[r].read => rf[r] # y
  BY <1>8, <1>15 DEF Unpopped, U
<1>17. y \in E /\ <<y, e>> \in R
  BY <1>16 DEF E, R
<1>18. y \in Ids /\ y \in Writes /\ Enabled(y, v) /\ x \in Ids
  BY <1>0, <1>2, <1>4, <1>3, <1>16, <1>17 DEF Writes, Reads
<1>19. ASSUME x # y PROVE FALSE
  <2>1. c[x] \in Nat /\ c[y] \in Nat /\ c[e] \in Nat
    BY <1>1, <1>2, <1>18
  <2>2. ~(c[y] < c[x])
    <3>1. <<x, y>> \in TimeOrder(c)
      BY <1>15, <1>19 DEF R
    <3>2. c[x] < c[y] \/ c[x] = c[y]
      BY <1>18, <3>1, InTimeOrder
    <3> QED
      BY <2>1, <3>2
  <2>3. c[x] # c[y]
    BY <1>1, <1>3, <1>5, <1>16, <1>18, <1>19 DEF WsEnc, SameZone
  <2>4. c[x] < c[y]
    BY <2>1, <2>2, <2>3
  <2>5. c[y] < c[e]
    <3>1. <<y, e>> \in TimeOrder(c)
      BY <1>17 DEF R
    <3>2. ~(relation[y].read) /\ relation[e].read
      BY <1>16
    <3>3. \/ c[y] < c[e]
          \/ /\ c[y] = c[e]
             /\ \/ relation[y].read /\ ~relation[e].read
                \/ relation[y].read = relation[e].read /\ y < e
      BY <1>2, <1>18, <3>1, InTimeOrder
    <3>4. relation[y].read # relation[e].read
      BY <3>2
    <3> QED
      BY <3>2, <3>3, <3>4
  <2>6. SameZone(x, y)
    BY <1>5, <1>16 DEF SameZone
  <2>7. /\ \A p \in Reads : rf[p] = y => c[p] < c[e]
        /\ \E p \in Reads \ {e} : rf[p] = y
    BY <1>1, <1>2, <1>3, <1>18, <2>4, <2>5, <2>6 DEF StackEnc
  <2>8. PICK p \in Reads : p # e /\ rf[p] = y /\ c[p] < c[e]
    BY <2>7
  <2>9. p \in Popping(m)
    BY <1>4, <1>18, <2>8 DEF Popping
  <2>10. p \in E /\ p \in Ids /\ relation[p].read
    BY <2>9 DEF Popping, Reads, E, Happening
  <2>11. <<p, e>> \in TimeOrder(c)
    BY <1>2, <2>8, <2>10, InTimeOrder
  <2>12. p \in F
    BY <2>10, <2>11 DEF E
  <2> QED
    BY <1>16, <2>8, <2>10, <2>12
<1>20. Last(q) = x
  BY <1>19 DEF y
<1> QED
  BY <1>3, <1>14, <1>20 DEF CanPop, q

(* There are finitely many events.                                         *)
LEMMA FiniteIds ==
  ASSUME IInv, NEW E, E \subseteq Ids
  PROVE  IsFiniteSet(E)
<1>1. Len(relation) \in Nat /\ Ids = 1 .. Len(relation)
  BY EventFacts
<1>2. IsFiniteSet(1 .. Len(relation))
  BY <1>1, FS_Interval
<1> QED
  BY <1>1, <1>2, FS_Subset

(* Executed in the order of the clocks, the events pop what the model says. *)
LEMMA Sound ==
  ASSUME IInv, NEW v, NEW m \in Models(v)
  PROVE  Restrict(m.rf, Popping(m)) \in Pops(Schedules(Happening(m, v)), v)
<1> DEFINE c == m.clock
           rf == m.rf
           R == TimeOrder(c)
           E == Happening(m, v)
<1>1. c \in [Ids -> Nat] /\ (\A d, e \in Ids : ProgramOrder(d, e) => c[d] < c[e]) /\ DOMAIN rf = Ids
  BY ModelFacts
<1>2. E \subseteq Ids /\ IsFiniteSet(E)
  <2>1. E \subseteq Ids
    BY HappeningFacts
  <2> QED
    BY <2>1, FiniteIds
<1>3. Orders(R, E)
  BY <1>1, <1>2, TimeOrders
<1> HIDE DEF R
<1>4. PICK s \in SetToSeqs(E) : Sorted(R, s)
  BY <1>2, <1>3, SortedExists
<1> DEFINE n == Len(s)
<1>5. s \in Seq(E) /\ n \in Nat /\ DOMAIN s = 1 .. n
  BY <1>2, AllOnce
<1>6. ASSUME NEW i \in 1 .. n
      PROVE  /\ s[i] \in E /\ s[i] \notin Sofar(s, i - 1) /\ Sofar(s, i - 1) \subseteq E /\ Sofar(s, n) = E
             /\ \A a \in E : a \in Sofar(s, i - 1) <=> <<a, s[i]>> \in R
  <2> HIDE DEF E
  <2> QED
    BY <1>2, <1>3, <1>4, SofarOrder
<1>7. s \in Schedules(E)
  <2>1. ASSUME NEW i \in DOMAIN s, NEW j \in DOMAIN s, ProgramOrder(s[i], s[j]) PROVE i < j
    <3>1. i \in 1 .. n /\ j \in 1 .. n /\ s[i] \in E /\ s[j] \in E /\ s[i] \in Ids /\ s[j] \in Ids
      BY <1>2, <1>5, <1>6
    <3>2. c[s[i]] < c[s[j]]
      BY <1>1, <2>1, <3>1
    <3>3. <<s[i], s[j]>> \in R
      BY <3>1, <3>2, InTimeOrder DEF R
    <3>4. s[i] \in Sofar(s, j - 1)
      BY <1>6, <3>1, <3>3
    <3>5. PICK k \in 1 .. j - 1 : s[k] = s[i]
      BY <3>4 DEF Sofar
    <3>6. k \in 1 .. n /\ k < j
      BY <1>5, <3>1
    <3>7. k = i
      BY <1>2, <3>1, <3>5, <3>6, AllOnce
    <3> QED
      BY <3>6, <3>7
  <2> QED
    BY <1>4, <2>1 DEF Schedules
<1>8. PICK f : /\ f[0] = Fresh
               /\ \A i \in 1 .. n : f[i] = Execute(f[i - 1], s[i], v)
               /\ Run(s, v) = f[n]
  BY <1>5, RunFollows
<1> DEFINE Agrees(i) == Running(f[i], R, Sofar(s, i)) /\ \A r \in DOMAIN f[i].pops : f[i].pops[r] = rf[r]
           good == { i \in Nat : i <= n => Agrees(i) }
<1>9. 0 \in good
  <2>1. Sofar(s, 0) = {}
    BY SofarGrows
  <2>2. Fresh \in States /\ DOMAIN Fresh.pops = {} /\ ~Fresh.blocked /\ \A z \in Zone : Fresh.stacks[z] = <<>>
    BY FreshState
  <2>3. \A z \in Zone : Sorted(R, Fresh.stacks[z]) /\ Range(Fresh.stacks[z]) = Unpopped(z, {}, Fresh.pops)
    BY <2>2 DEF Sorted, Range, Unpopped
  <2>4. Running(Fresh, R, {})
    BY <2>2, <2>3 DEF Running
  <2>5. Agrees(0)
    BY <1>8, <2>1, <2>2, <2>4
  <2> QED
    BY <2>5
<1>10. ASSUME NEW i \in Nat, i \in good PROVE i + 1 \in good
  <2> SUFFICES ASSUME i + 1 <= n PROVE Agrees(i + 1)
    OBVIOUS
  <2>1. i + 1 \in 1 .. n /\ (i + 1) - 1 = i /\ i <= n
    BY <1>5
  <2> DEFINE e == s[i + 1]
             F == Sofar(s, i)
             st == f[i]
             t == f[i + 1]
  <2>2. t = Execute(st, e, v)
    BY <1>8, <2>1
  <2>3. e \in E /\ e \notin F /\ F \subseteq E /\ \A a \in E : a \in F <=> <<a, e>> \in R
    BY <1>6, <2>1
  <2>4. Sofar(s, i + 1) = F \union {e}
    BY SofarGrows
  <2>5. Running(st, R, F) /\ \A r \in DOMAIN st.pops : st.pops[r] = rf[r]
    BY <1>10, <2>1
  <2>6. e \in Ids /\ relation[e].zone \in Zone /\ st \in States /\ \A a \in F : <<a, e>> \in R
    BY <1>2, <2>3, <2>5, EventFacts DEF Running
  <2> HIDE DEF e, F, st, t, E
  <2>7. CASE ~relation[e].read
    <3>1. Pushed(st, t, e)
      BY <2>2, <2>6, <2>7, ExecuteFacts
    <3>2. Running(t, R, F \union {e})
      BY <1>2, <1>3, <2>3, <2>5, <2>6, <2>7, <3>1, RunningPush
    <3>3. t.pops = st.pops
      BY <3>1 DEF Pushed
    <3> QED
      BY <2>4, <2>5, <3>2, <3>3 DEF t
  <2>8. CASE relation[e].read
    <3>1. CanPop(st, e, v) /\ Last(st.stacks[relation[e].zone]) = rf[e]
      BY <2>3, <2>5, <2>8, SoundPop DEF E, R
    <3>2. Popped(st, t, e) /\ st.stacks[relation[e].zone] # <<>>
      BY <2>2, <2>6, <2>8, <3>1, ExecuteFacts DEF CanPop
    <3>3. Running(t, R, F \union {e})
      BY <1>2, <1>3, <2>3, <2>5, <2>6, <2>8, <3>2, RunningPop
    <3>4. \A r \in DOMAIN t.pops : t.pops[r] = rf[r]
      BY <2>5, <3>1, <3>2 DEF Popped
    <3> QED
      BY <2>4, <3>3, <3>4 DEF t
  <2> QED
    BY <2>7, <2>8
<1>11. Agrees(n)
  <2>1. \A i \in Nat : i \in good
    <3> HIDE DEF good
    <3> QED BY <1>9, <1>10, SetInduction
  <2> QED
    BY <1>5, <2>1
<1>12. Sofar(s, n) = E
  <2>1. CASE n = 0
    <3>1. E = {}
      BY <1>2, <1>5, <2>1, AllOnce
    <3> QED
      BY <2>1, <3>1, SofarGrows
  <2>2. CASE n # 0
    <3>1. n \in 1 .. n
      BY <1>5, <2>2
    <3> QED
      BY <1>6, <3>1
  <2> QED
    BY <2>1, <2>2
<1> DEFINE p == Run(s, v).pops
<1>13. ~Run(s, v).blocked /\ DOMAIN p = { r \in E : relation[r].read } /\ \A r \in DOMAIN p : p[r] = rf[r]
  BY <1>8, <1>11, <1>12 DEF Running
<1>14. p = [r \in DOMAIN p |-> p[r]]
  <2>1. Run(s, v) \in States
    BY <1>8, <1>11 DEF Running
  <2> QED
    BY <2>1 DEF States
<1>15. DOMAIN p = Popping(m)
  <2>1. \A r \in E : relation[r].read <=> r \in Popping(m)
    BY HappeningFacts
  <2>2. \A r \in Popping(m) : r \in E
    BY DEF Happening
  <2> QED
    BY <1>13, <2>1, <2>2
<1> HIDE DEF p, E
<1>16. Restrict(rf, Popping(m)) = p
  <2>1. Restrict(rf, Popping(m)) = [r \in Popping(m) |-> rf[r]]
    BY DEF Restrict
  <2> QED
    BY <1>13, <1>14, <1>15, <2>1
<1>17. p \in Pops(Schedules(E), v)
  BY <1>7, <1>13 DEF Pops, p
<1> QED
  BY <1>16, <1>17 DEF E

-----------------------------------------------------------------------------
(* The order of a schedule.                                                *)
Place(s, e) == CHOOSE i \in DOMAIN s : s[i] = e

ScheduleOrder(s) == { p \in Ids \X Ids : Place(s, p[1]) < Place(s, p[2]) }

(* Each event of a schedule has one place there.                           *)
LEMMA PlaceFacts ==
  ASSUME NEW E, IsFiniteSet(E), NEW s \in SetToSeqs(E)
  PROVE  /\ \A e \in E : Place(s, e) \in 1 .. Len(s) /\ s[Place(s, e)] = e
         /\ \A i \in 1 .. Len(s) : Place(s, s[i]) = i
<1> DEFINE n == Len(s)
<1>1. /\ s \in Seq(E) /\ n \in Nat /\ DOMAIN s = 1 .. n
      /\ \A a, b \in 1 .. n : s[a] = s[b] => a = b
      /\ \A e \in E : \E a \in 1 .. n : s[a] = e
  BY AllOnce
<1>2. ASSUME NEW e \in E PROVE Place(s, e) \in 1 .. n /\ s[Place(s, e)] = e
  <2>1. \E i \in DOMAIN s : s[i] = e
    BY <1>1
  <2>2. Place(s, e) \in DOMAIN s /\ s[Place(s, e)] = e
    BY <2>1, Zenon DEF Place
  <2> QED
    BY <1>1, <2>2
<1>3. ASSUME NEW i \in 1 .. n PROVE Place(s, s[i]) = i
  <2>1. s[i] \in E
    BY <1>1
  <2>2. Place(s, s[i]) \in 1 .. n /\ s[Place(s, s[i])] = s[i]
    BY <1>2, <2>1
  <2> QED
    BY <1>1, <2>2
<1> QED
  BY <1>2, <1>3

(* A schedule is sorted in the order it gives its events.                  *)
LEMMA ScheduleOrders ==
  ASSUME NEW E \in SUBSET Ids, IsFiniteSet(E), NEW s \in SetToSeqs(E)
  PROVE  /\ Orders(ScheduleOrder(s), E) /\ Sorted(ScheduleOrder(s), s)
         /\ \A d, e \in E : <<d, e>> \in ScheduleOrder(s) <=> Place(s, d) < Place(s, e)
<1> DEFINE Q == ScheduleOrder(s)
           n == Len(s)
<1>1. \A d, e \in E : <<d, e>> \in Q <=> Place(s, d) < Place(s, e)
  BY DEF ScheduleOrder
<1>2. /\ \A e \in E : Place(s, e) \in 1 .. n /\ s[Place(s, e)] = e
      /\ \A i \in 1 .. n : Place(s, s[i]) = i
  BY PlaceFacts
<1>3. \A e \in E : Place(s, e) \in Int
  BY <1>2
<1> HIDE DEF Q
<1>4. Orders(Q, E)
  <2>1. ASSUME NEW a \in E PROVE <<a, a>> \notin Q
    BY <1>1, <1>3
  <2>2. ASSUME NEW a \in E, NEW b \in E, a # b PROVE <<a, b>> \in Q \/ <<b, a>> \in Q
    <3>1. Place(s, a) # Place(s, b)
      BY <1>2, <2>2
    <3>2. Place(s, a) < Place(s, b) \/ Place(s, b) < Place(s, a)
      BY <1>3, <3>1
    <3> QED
      BY <1>1, <3>2
  <2>3. ASSUME NEW a \in E, NEW b \in E, NEW c \in E, <<a, b>> \in Q, <<b, c>> \in Q PROVE <<a, c>> \in Q
    <3>1. Place(s, a) < Place(s, b) /\ Place(s, b) < Place(s, c)
      BY <1>1, <2>3
    <3>2. Place(s, a) < Place(s, c)
      BY <1>3, <3>1
    <3> QED
      BY <1>1, <3>2
  <2> QED
    BY <2>1, <2>2, <2>3 DEF Orders
<1>5. Sorted(Q, s)
  <2>1. s \in Seq(E) /\ DOMAIN s = 1 .. n
    BY AllOnce
  <2>2. ASSUME NEW i \in 1 .. n, NEW j \in 1 .. n, i < j PROVE <<s[i], s[j]>> \in Q
    <3>1. s[i] \in E /\ s[j] \in E
      BY <2>1
    <3>2. Place(s, s[i]) < Place(s, s[j])
      BY <1>2, <2>2
    <3> QED
      BY <1>1, <3>1, <3>2
  <2> QED
    BY <2>1, <2>2 DEF Sorted
<1> QED
  BY <1>1, <1>4, <1>5 DEF Q

-----------------------------------------------------------------------------
(* What the pops p among the events F, executed in the order Q, get: a     *)
(* push each, and what was pushed after that has been popped before.       *)
Lifo(p, F, Q, v) ==
  /\ \A r, q \in DOMAIN p : p[r] = p[q] => r = q
  /\ \A r \in DOMAIN p : ~relation[p[r]].read /\ SameZone(p[r], r) /\ Expected(p[r], r, v) /\ <<p[r], r>> \in Q
  /\ \A r \in DOMAIN p, y \in F :
       ~relation[y].read /\ SameZone(y, r) /\ <<p[r], y>> \in Q /\ <<y, r>> \in Q =>
         \E q \in DOMAIN p : p[q] = y /\ <<q, r>> \in Q

(* A push leaves the pops so far last in, first out.                       *)
LEMMA LifoPush ==
  ASSUME NEW v, NEW E, NEW Q, Orders(Q, E), NEW F, F \subseteq E, NEW p, DOMAIN p \subseteq F, Lifo(p, F, Q, v),
         NEW e \in E, \A a \in F : <<a, e>> \in Q
  PROVE  Lifo(p, F \union {e}, Q, v)
<1>1. \A r \in DOMAIN p : ~(<<e, r>> \in Q)
  BY DEF Orders
<1> QED
  BY <1>1 DEF Lifo

(* A pop of what is on top leaves the pops so far last in, first out.      *)
LEMMA LifoPop ==
  ASSUME NEW v, NEW E, E \subseteq Ids, NEW Q, Orders(Q, E), NEW F, F \subseteq E, NEW st, Running(st, Q, F), Lifo(st.pops, F, Q, v),
         NEW e \in E, e \notin F, \A a \in F : <<a, e>> \in Q,
         relation[e].read, relation[e].zone \in Zone, CanPop(st, e, v), NEW t, Popped(st, t, e)
  PROVE  Lifo(t.pops, F \union {e}, Q, v)
<1> DEFINE z == relation[e].zone
           q == st.stacks[z]
           w == Last(q)
           p == st.pops
           b == t.pops
           U == Unpopped(z, F, p)
<1>1. DOMAIN p = { r \in F : relation[r].read }
  BY DEF Running
<1>2. DOMAIN b = DOMAIN p \union {e} /\ b[e] = w /\ \A r \in DOMAIN p : b[r] = p[r]
  BY <1>1 DEF Popped
<1>3. q # <<>> /\ Expected(w, e, v)
  BY DEF CanPop
<1>4. w \in U /\ \A y \in U : y = w \/ <<y, w>> \in Q
  <2>1. OnTop(Q, st.stacks[z], Unpopped(z, F, st.pops))
    <3> HIDE DEF z
    <3>1. z \in Zone
      BY DEF z
    <3> QED
      BY <3>1, TopFacts
  <2> QED
    BY <1>3, <2>1 DEF OnTop
<1>5. w \in F /\ ~relation[w].read /\ relation[w].zone = z /\ \A r \in F : relation[r].read => p[r] # w
  BY <1>4 DEF Unpopped
<1> HIDE DEF U, w, p, b, q
<1>6. /\ \A r, k \in DOMAIN p : p[r] = p[k] => r = k
      /\ \A r \in DOMAIN p : ~relation[p[r]].read /\ SameZone(p[r], r) /\ Expected(p[r], r, v) /\ <<p[r], r>> \in Q
      /\ \A r \in DOMAIN p, y \in F :
           ~relation[y].read /\ SameZone(y, r) /\ <<p[r], y>> \in Q /\ <<y, r>> \in Q =>
             \E k \in DOMAIN p : p[k] = y /\ <<k, r>> \in Q
  BY DEF Lifo, p
<1>7. \A r \in DOMAIN p : p[r] # w /\ r \in F
  BY <1>1, <1>5
<1>8. \A r, k \in DOMAIN b : b[r] = b[k] => r = k
  BY <1>2, <1>6, <1>7
<1>9. \A r \in DOMAIN b : ~relation[b[r]].read /\ SameZone(b[r], r) /\ Expected(b[r], r, v) /\ <<b[r], r>> \in Q
  BY <1>2, <1>3, <1>5, <1>6 DEF SameZone
<1>10. ASSUME NEW r \in DOMAIN b, NEW y \in F \union {e},
              ~relation[y].read, SameZone(y, r), <<b[r], y>> \in Q, <<y, r>> \in Q
       PROVE  \E k \in DOMAIN b : b[k] = y /\ <<k, r>> \in Q
  <2>1. y \in F
    BY <1>10
  <2>2. CASE r \in DOMAIN p
    <3>1. <<p[r], y>> \in Q
      BY <1>2, <1>10, <2>2
    <3>2. PICK k \in DOMAIN p : p[k] = y /\ <<k, r>> \in Q
      BY <1>6, <1>10, <2>1, <2>2, <3>1
    <3> QED
      BY <1>2, <3>2
  <2>3. CASE r = e
    <3>1. <<w, y>> \in Q
      BY <1>2, <1>10, <2>3
    <3>2. y # w /\ ~(<<y, w>> \in Q)
      BY <1>5, <2>1, <3>1 DEF Orders
    <3>3. y \notin U
      BY <1>4, <3>2
    <3>4. relation[y].zone = z
      BY <1>10, <2>3 DEF SameZone
    <3>5. PICK k \in F : relation[k].read /\ p[k] = y
      BY <1>10, <2>1, <3>3, <3>4 DEF U, Unpopped
    <3>6. k \in DOMAIN p /\ <<k, e>> \in Q
      BY <1>1, <3>5
    <3> QED
      BY <1>2, <2>3, <3>5, <3>6
  <2> QED
    BY <1>2, <2>2, <2>3
<1> HIDE DEF z
<1> QED
  BY <1>8, <1>9, <1>10 DEF Lifo, b

(* A schedule lists the enabled events, in program order.                  *)
LEMMA ScheduleFacts ==
  ASSUME IInv, NEW v, NEW s \in Schedules(EnabledIds(v))
  PROVE  /\ EnabledIds(v) \in SUBSET Ids /\ IsFiniteSet(EnabledIds(v)) /\ s \in SetToSeqs(EnabledIds(v))
         /\ \A i, j \in DOMAIN s : ProgramOrder(s[i], s[j]) => i < j
<1>1. EnabledIds(v) \in SUBSET Ids
  BY DEF EnabledIds
<1>2. IsFiniteSet(EnabledIds(v))
  BY <1>1, FiniteIds
<1> QED
  BY <1>1, <1>2 DEF Schedules, EnabledIds

(* A run that is not blocked has popped last in, first out.                *)
LEMMA RunLifo ==
  ASSUME IInv, NEW v, NEW s \in Schedules(EnabledIds(v)), ~Run(s, v).blocked
  PROVE  Running(Run(s, v), ScheduleOrder(s), EnabledIds(v)) /\ Lifo(Run(s, v).pops, EnabledIds(v), ScheduleOrder(s), v)
<1> DEFINE Q == ScheduleOrder(s)
           E == EnabledIds(v)
           n == Len(s)
<1>1. E \subseteq Ids /\ IsFiniteSet(E) /\ s \in SetToSeqs(E) /\ E \in SUBSET Ids
  BY ScheduleFacts
<1> HIDE DEF Q, E
<1>2. Orders(Q, E) /\ Sorted(Q, s)
  BY <1>1, ScheduleOrders DEF Q
<1>3. s \in Seq(E) /\ n \in Nat /\ DOMAIN s = 1 .. n
  BY <1>1, AllOnce
<1>4. ASSUME NEW i \in 1 .. n
      PROVE  /\ s[i] \in E /\ s[i] \notin Sofar(s, i - 1) /\ Sofar(s, i - 1) \subseteq E /\ Sofar(s, n) = E
             /\ \A a \in E : a \in Sofar(s, i - 1) <=> <<a, s[i]>> \in Q
  BY <1>1, <1>2, SofarOrder
<1>5. PICK f : /\ f[0] = Fresh
               /\ \A i \in 1 .. n : f[i] = Execute(f[i - 1], s[i], v)
               /\ Run(s, v) = f[n]
  BY <1>3, RunFollows
<1> DEFINE Good(i) == /\ f[i] \in States
                      /\ ~f[i].blocked => Running(f[i], Q, Sofar(s, i)) /\ Lifo(f[i].pops, Sofar(s, i), Q, v)
           good == { i \in Nat : i <= n => Good(i) }
<1>6. 0 \in good
  <2>1. Sofar(s, 0) = {}
    BY SofarGrows
  <2>2. Fresh \in States /\ DOMAIN Fresh.pops = {} /\ ~Fresh.blocked /\ \A z \in Zone : Fresh.stacks[z] = <<>>
    BY FreshState
  <2>3. \A z \in Zone : Sorted(Q, Fresh.stacks[z]) /\ Range(Fresh.stacks[z]) = Unpopped(z, {}, Fresh.pops)
    BY <2>2 DEF Sorted, Range, Unpopped
  <2>4. Running(Fresh, Q, {})
    BY <2>2, <2>3 DEF Running
  <2>5. Lifo(Fresh.pops, {}, Q, v)
    BY <2>2 DEF Lifo
  <2>6. Good(0)
    BY <1>5, <2>1, <2>2, <2>4, <2>5
  <2> QED
    BY <2>6
<1>7. ASSUME NEW i \in Nat, i \in good PROVE i + 1 \in good
  <2> SUFFICES ASSUME i + 1 <= n PROVE Good(i + 1)
    OBVIOUS
  <2>1. i + 1 \in 1 .. n /\ (i + 1) - 1 = i /\ i <= n
    BY <1>3
  <2> DEFINE e == s[i + 1]
             F == Sofar(s, i)
             st == f[i]
             t == f[i + 1]
  <2>2. t = Execute(st, e, v)
    BY <1>5, <2>1
  <2>3. e \in E /\ e \notin F /\ F \subseteq E /\ \A a \in E : a \in F <=> <<a, e>> \in Q
    BY <1>4, <2>1
  <2>4. Sofar(s, i + 1) = F \union {e}
    BY SofarGrows
  <2>5. st \in States /\ (~st.blocked => Running(st, Q, F) /\ Lifo(st.pops, F, Q, v))
    BY <1>7, <2>1
  <2>6. e \in Ids /\ relation[e].zone \in Zone /\ \A a \in F : <<a, e>> \in Q
    BY <1>1, <2>3, EventFacts
  <2> HIDE DEF e, F, st, t
  <2>7. CASE ~relation[e].read
    <3>1. Pushed(st, t, e)
      BY <2>2, <2>5, <2>6, <2>7, ExecuteFacts
    <3>2. t \in States /\ t.pops = st.pops /\ t.blocked = st.blocked
      BY <3>1 DEF Pushed
    <3>3. ASSUME ~t.blocked PROVE Running(t, Q, F \union {e}) /\ Lifo(t.pops, F \union {e}, Q, v)
      <4>1. Running(st, Q, F) /\ Lifo(st.pops, F, Q, v)
        BY <2>5, <3>2, <3>3
      <4>2. Running(t, Q, F \union {e})
        BY <1>1, <1>2, <2>3, <2>6, <2>7, <3>1, <4>1, RunningPush
      <4>3. DOMAIN st.pops \subseteq F
        BY <4>1 DEF Running
      <4>4. Lifo(st.pops, F \union {e}, Q, v)
        BY <1>2, <2>3, <2>6, <4>1, <4>3, LifoPush
      <4> QED
        BY <3>2, <4>2, <4>4
    <3> QED
      BY <2>4, <3>2, <3>3 DEF t
  <2>8. CASE relation[e].read
    <3>1. CASE ~CanPop(st, e, v)
      <4>1. t \in States /\ t.blocked
        BY <2>2, <2>5, <2>6, <2>8, <3>1, ExecuteFacts
      <4> QED
        BY <4>1 DEF t
    <3>2. CASE CanPop(st, e, v)
      <4>1. Popped(st, t, e) /\ st.stacks[relation[e].zone] # <<>>
        BY <2>2, <2>5, <2>6, <2>8, <3>2, ExecuteFacts DEF CanPop
      <4>2. t \in States /\ t.blocked = st.blocked
        BY <4>1 DEF Popped
      <4>3. ASSUME ~t.blocked PROVE Running(t, Q, F \union {e}) /\ Lifo(t.pops, F \union {e}, Q, v)
        <5>1. Running(st, Q, F) /\ Lifo(st.pops, F, Q, v)
          BY <2>5, <4>2, <4>3
        <5>2. Running(t, Q, F \union {e})
          BY <1>1, <1>2, <2>3, <2>6, <2>8, <4>1, <5>1, RunningPop
        <5>3. Lifo(t.pops, F \union {e}, Q, v)
          BY <1>1, <1>2, <2>3, <2>6, <2>8, <3>2, <4>1, <5>1, LifoPop
        <5> QED
          BY <5>2, <5>3
      <4> QED
        BY <2>4, <4>2, <4>3 DEF t
    <3> QED
      BY <3>1, <3>2
  <2> QED
    BY <2>7, <2>8
<1>8. Good(n)
  <2>1. \A i \in Nat : i \in good
    <3> HIDE DEF good
    <3> QED BY <1>6, <1>7, SetInduction
  <2> QED
    BY <1>3, <2>1
<1>9. Sofar(s, n) = E
  <2>1. CASE n = 0
    <3>1. E = {}
      BY <1>1, <1>3, <2>1, AllOnce
    <3> QED
      BY <2>1, <3>1, SofarGrows
  <2>2. CASE n # 0
    <3>1. n \in 1 .. n
      BY <1>3, <2>2
    <3> QED
      BY <1>4, <3>1
  <2> QED
    BY <2>1, <2>2
<1> QED
  BY <1>5, <1>8, <1>9 DEF Q, E

-----------------------------------------------------------------------------
(* An order of all events that has the schedule's of those it executes: an *)
(* event that is not executed is put right after the last executed one of  *)
(* those that the program has before it.                                   *)
Reached(v, e) == { d \in EnabledIds(v) : d = e \/ ProgramOrder(d, e) }

NotBefore(s, v, e, k) == \A d \in Reached(v, e) : Place(s, d) <= k

Latest(s, v, e) == CHOOSE k \in Nat : NotBefore(s, v, e, k) /\ \A j \in Nat : NotBefore(s, v, e, j) => k <= j

EventOrder(s, v) ==
  { p \in Ids \X Ids :
      \/ Latest(s, v, p[1]) < Latest(s, v, p[2])
      \/ Latest(s, v, p[1]) = Latest(s, v, p[2]) /\ p[1] < p[2] }

(* Latest is the least number it can be.                                   *)
LEMMA LatestFacts ==
  ASSUME IInv, NEW v, NEW s \in Schedules(EnabledIds(v)), NEW e \in Ids
  PROVE  /\ Latest(s, v, e) \in Nat /\ NotBefore(s, v, e, Latest(s, v, e))
         /\ \A j \in Nat : NotBefore(s, v, e, j) => Latest(s, v, e) <= j
<1> DEFINE bounds == { k \in Nat : NotBefore(s, v, e, k) }
           n == Len(s)
<1>1. IsFiniteSet(EnabledIds(v)) /\ s \in SetToSeqs(EnabledIds(v))
  BY ScheduleFacts
<1>2. n \in Nat /\ \A d \in EnabledIds(v) : Place(s, d) \in 1 .. n
  BY <1>1, PlaceFacts, AllOnce
<1>3. n \in bounds
  BY <1>2 DEF NotBefore, Reached
<1>4. bounds \in SUBSET Nat /\ bounds # {}
  BY <1>3
<1>5. PICK k \in bounds : \A j \in bounds : k <= j
  BY <1>4, LeastNat
<1>6. k \in Nat /\ NotBefore(s, v, e, k) /\ \A j \in Nat : NotBefore(s, v, e, j) => k <= j
  BY <1>5
<1> QED
  BY <1>6, Zenon DEF Latest

(* The program order is transitive.                                        *)
LEMMA ProgramOrderTransitive ==
  ASSUME IInv, NEW a \in Ids, NEW b \in Ids, NEW e \in Ids, ProgramOrder(a, b), ProgramOrder(b, e)
  PROVE  ProgramOrder(a, e)
<1>1. a \in Nat /\ b \in Nat /\ e \in Nat
  BY EventFacts
<1>2. a < e
  BY <1>1 DEF ProgramOrder
<1>3. relation[a].thread \in {0, relation[e].thread}
  BY DEF ProgramOrder
<1> QED
  BY <1>2, <1>3 DEF ProgramOrder

(* Latest grows along the program order, and is the place of an event that *)
(* is executed.                                                            *)
LEMMA LatestOrder ==
  ASSUME IInv, NEW v, NEW s \in Schedules(EnabledIds(v))
  PROVE  /\ \A d, e \in Ids : ProgramOrder(d, e) => Latest(s, v, d) <= Latest(s, v, e)
         /\ \A e \in EnabledIds(v) : Latest(s, v, e) = Place(s, e)
<1>1. ASSUME NEW d \in Ids, NEW e \in Ids, ProgramOrder(d, e) PROVE Latest(s, v, d) <= Latest(s, v, e)
  <2>1. \A a \in Reached(v, d) : a \in Reached(v, e)
    <3> SUFFICES ASSUME NEW a \in EnabledIds(v), a = d \/ ProgramOrder(a, d) PROVE ProgramOrder(a, e)
      BY DEF Reached
    <3>1. a \in Ids
      BY DEF EnabledIds
    <3>2. ASSUME ProgramOrder(a, d) PROVE ProgramOrder(a, e)
      BY <1>1, <3>1, <3>2, ProgramOrderTransitive
    <3> QED
      BY <1>1, <3>2
  <2>2. Latest(s, v, e) \in Nat /\ NotBefore(s, v, e, Latest(s, v, e))
    BY LatestFacts
  <2>3. NotBefore(s, v, d, Latest(s, v, e))
    BY <2>1, <2>2 DEF NotBefore
  <2> QED
    BY <2>2, <2>3, LatestFacts
<1>2. ASSUME NEW e \in EnabledIds(v) PROVE Latest(s, v, e) = Place(s, e)
  <2>1. e \in Ids
    BY DEF EnabledIds
  <2>2. /\ IsFiniteSet(EnabledIds(v)) /\ s \in SetToSeqs(EnabledIds(v))
        /\ \A i, j \in DOMAIN s : ProgramOrder(s[i], s[j]) => i < j
    BY ScheduleFacts
  <2>3. /\ DOMAIN s = 1 .. Len(s) /\ Len(s) \in Nat
        /\ \A d \in EnabledIds(v) : Place(s, d) \in 1 .. Len(s) /\ s[Place(s, d)] = d
    BY <2>2, AllOnce, PlaceFacts
  <2>4. /\ Latest(s, v, e) \in Nat /\ NotBefore(s, v, e, Latest(s, v, e))
        /\ \A j \in Nat : NotBefore(s, v, e, j) => Latest(s, v, e) <= j
    BY <2>1, LatestFacts
  <2>5. Place(s, e) <= Latest(s, v, e)
    BY <2>4 DEF NotBefore, Reached
  <2>6. ASSUME NEW d \in Reached(v, e) PROVE Place(s, d) <= Place(s, e)
    <3>1. d \in EnabledIds(v) /\ (d = e \/ ProgramOrder(d, e))
      BY DEF Reached
    <3>2. Place(s, d) \in 1 .. Len(s) /\ Place(s, e) \in 1 .. Len(s) /\ s[Place(s, d)] = d /\ s[Place(s, e)] = e
      BY <2>3, <3>1
    <3>3. CASE d = e
      BY <3>2, <3>3
    <3>4. CASE ProgramOrder(d, e)
      <4>1. Place(s, d) < Place(s, e)
        BY <2>2, <2>3, <3>2, <3>4
      <4> QED
        BY <3>2, <4>1
    <3> QED
      BY <3>1, <3>3, <3>4
  <2>7. Place(s, e) \in Nat
    BY <2>3
  <2>8. Latest(s, v, e) <= Place(s, e)
    BY <2>4, <2>6, <2>7 DEF NotBefore
  <2> QED
    BY <2>4, <2>5, <2>7, <2>8
<1> QED
  BY <1>1, <1>2

(* The order of all events is strict and total, has the program order, and *)
(* the schedule's order of what is executed.                               *)
LEMMA EventOrders ==
  ASSUME IInv, NEW v, NEW s \in Schedules(EnabledIds(v))
  PROVE  /\ Orders(EventOrder(s, v), Ids)
         /\ \A d, e \in Ids : ProgramOrder(d, e) => <<d, e>> \in EventOrder(s, v)
         /\ \A d, e \in EnabledIds(v) : <<d, e>> \in EventOrder(s, v) <=> <<d, e>> \in ScheduleOrder(s)
<1> DEFINE L == EventOrder(s, v)
           key(e) == Latest(s, v, e)
<1>1. \A e \in Ids : key(e) \in Nat /\ e \in Nat
  BY LatestFacts, EventFacts
<1>2. \A d, e \in Ids : <<d, e>> \in L <=> key(d) < key(e) \/ (key(d) = key(e) /\ d < e)
  BY DEF EventOrder
<1>3. /\ \A d, e \in Ids : ProgramOrder(d, e) => key(d) <= key(e)
      /\ \A e \in EnabledIds(v) : key(e) = Place(s, e)
  BY LatestOrder
<1> HIDE DEF L, key
<1>4. Orders(L, Ids)
  <2>1. \A a \in Ids : ~(<<a, a>> \in L)
    BY <1>1, <1>2
  <2>2. ASSUME NEW a \in Ids, NEW b \in Ids, a # b PROVE <<a, b>> \in L \/ <<b, a>> \in L
    <3>1. key(a) \in Nat /\ key(b) \in Nat /\ a \in Nat /\ b \in Nat
      BY <1>1
    <3>2. key(a) < key(b) \/ key(b) < key(a) \/ (key(a) = key(b) /\ a < b) \/ (key(b) = key(a) /\ b < a)
      BY <2>2, <3>1
    <3> QED
      BY <1>2, <3>2
  <2>3. ASSUME NEW a \in Ids, NEW b \in Ids, NEW c \in Ids, <<a, b>> \in L, <<b, c>> \in L PROVE <<a, c>> \in L
    <3>1. key(a) \in Nat /\ key(b) \in Nat /\ key(c) \in Nat /\ a \in Nat /\ b \in Nat /\ c \in Nat
      BY <1>1
    <3>2. key(a) < key(b) \/ (key(a) = key(b) /\ a < b)
      BY <1>2, <2>3
    <3>3. key(b) < key(c) \/ (key(b) = key(c) /\ b < c)
      BY <1>2, <2>3
    <3>4. key(a) < key(c) \/ (key(a) = key(c) /\ a < c)
      BY <3>1, <3>2, <3>3
    <3> QED
      BY <1>2, <3>4
  <2> QED
    BY <2>1, <2>2, <2>3 DEF Orders
<1>5. ASSUME NEW d \in Ids, NEW e \in Ids, ProgramOrder(d, e) PROVE <<d, e>> \in L
  <2>1. key(d) \in Nat /\ key(e) \in Nat /\ key(d) <= key(e)
    BY <1>1, <1>3, <1>5
  <2>2. d < e
    BY <1>5 DEF ProgramOrder
  <2>3. key(d) < key(e) \/ key(d) = key(e)
    BY <2>1
  <2> QED
    BY <1>2, <2>2, <2>3
<1>6. ASSUME NEW d \in EnabledIds(v), NEW e \in EnabledIds(v) PROVE <<d, e>> \in L <=> <<d, e>> \in ScheduleOrder(s)
  <2>1. EnabledIds(v) \in SUBSET Ids /\ IsFiniteSet(EnabledIds(v)) /\ s \in SetToSeqs(EnabledIds(v))
    BY ScheduleFacts
  <2>2. <<d, e>> \in ScheduleOrder(s) <=> Place(s, d) < Place(s, e)
    BY <2>1, ScheduleOrders
  <2>3. d \in Ids /\ e \in Ids /\ d \in Nat
    BY <1>1, <2>1
  <2>4. key(d) = Place(s, d) /\ key(e) = Place(s, e)
    BY <1>3
  <2>5. s[Place(s, d)] = d /\ s[Place(s, e)] = e
    BY <2>1, PlaceFacts
  <2>6. key(d) = key(e) => d = e
    BY <2>4, <2>5
  <2>7. ~(d < d)
    BY <2>3
  <2> QED
    BY <1>2, <2>2, <2>3, <2>4, <2>6, <2>7
<1> QED
  BY <1>4, <1>5, <1>6 DEF L

-----------------------------------------------------------------------------
(* What the pops p read from, in a model in which nothing else is read.    *)
ReadsFrom(p, v) == [e \in Ids |-> IF e \in EnabledReads(v) THEN p[e] ELSE NoWrite]

(* The pops of a run are choices that rf_enc and rs_enc allow.             *)
LEMMA RunReadsFrom ==
  ASSUME IInv, NEW v, NEW Q, NEW p, DOMAIN p = EnabledReads(v), \A r \in DOMAIN p : p[r] \in EnabledIds(v),
         Lifo(p, EnabledIds(v), Q, v)
  PROVE  ReadsFrom(p, v) \in Rfs(v) /\ RsEnc(ReadsFrom(p, v))
<1> DEFINE rf == ReadsFrom(p, v)
           W == Ids \union {NoWrite}
<1>1. Len(relation) \in Nat /\ Ids = 1 .. Len(relation) /\ \A e \in Ids : relation[e].read \in BOOLEAN
  BY EventFacts
<1>2. /\ DOMAIN rf = Ids
      /\ \A r \in EnabledReads(v) : r \in Ids /\ r \in Reads /\ Enabled(r, v) /\ rf[r] = p[r]
      /\ \A r \in Ids : r \notin EnabledReads(v) => rf[r] = NoWrite
  BY DEF ReadsFrom, EnabledReads, Reads
<1> HIDE DEF rf
<1>3. /\ \A r, q \in DOMAIN p : p[r] = p[q] => r = q
      /\ \A r \in DOMAIN p : ~relation[p[r]].read /\ SameZone(p[r], r) /\ Expected(p[r], r, v)
  BY DEF Lifo
<1>4. \A r \in EnabledReads(v) : p[r] \in Ids /\ p[r] \in Writes /\ Enabled(p[r], v)
  BY <1>3 DEF EnabledIds, Writes, Reads
<1>5. ASSUME NEW e \in Ids PROVE rf[e] \in W /\ rf[e] \in MayRead(e, v)
  <2>1. CASE e \in EnabledReads(v)
    <3>1. p[e] \in RfEnc(e, v)
      BY <1>3, <1>4, <2>1 DEF RfEnc
    <3> QED
      BY <1>2, <1>4, <2>1, <3>1 DEF MayRead
  <2>2. CASE e \notin EnabledReads(v)
    <3>1. e \in Reads => NoWrite \in RfEnc(e, v)
      BY <2>2 DEF EnabledReads, RfEnc
    <3> QED
      BY <1>2, <2>2, <3>1 DEF MayRead
  <2> QED
    BY <2>1, <2>2
<1>6. rf \in Seq(W) /\ Len(rf) = Len(relation)
  <2>1. rf = [e \in 1 .. Len(relation) |-> rf[e]]
    BY <1>1 DEF rf, ReadsFrom
  <2>2. \A e \in 1 .. Len(relation) : rf[e] \in W
    BY <1>1, <1>5
  <2> HIDE DEF W
  <2>3. rf \in [1 .. Len(relation) -> W]
    BY <2>1, <2>2
  <2> QED
    BY <1>1, <2>3
<1>7. rf \in Rfs(v)
  BY <1>1, <1>5, <1>6, RfsFacts
<1>8. RsEnc(rf)
  <2> SUFFICES ASSUME NEW a \in Reads, NEW b \in Reads, rf[a] = rf[b], rf[a] # NoWrite PROVE a = b
    BY DEF RsEnc
  <2>1. a \in EnabledReads(v) /\ b \in EnabledReads(v)
    BY <1>2 DEF Reads
  <2>2. p[a] = p[b]
    BY <1>2, <2>1
  <2> QED
    BY <1>3, <2>1, <2>2
<1> QED
  BY <1>7, <1>8 DEF rf

(* Clocks in an order of the events in which a run executes them satisfy   *)
(* stack_enc.                                                              *)
LEMMA RunStackEnc ==
  ASSUME IInv, NEW v, NEW Q, NEW p, DOMAIN p = EnabledReads(v), \A r \in DOMAIN p : p[r] \in EnabledIds(v),
         Lifo(p, EnabledIds(v), Q, v),
         \A a, b \in DOMAIN p : SameZone(a, b) /\ <<p[a], p[b]>> \in Q => <<b, a>> \in Q,
         NEW c, \A e \in Ids : c[e] \in Nat,
         \A d, e \in EnabledIds(v) : c[d] < c[e] <=> <<d, e>> \in Q
  PROVE  StackEnc(c, ReadsFrom(p, v), v)
<1> DEFINE rf == ReadsFrom(p, v)
           E == EnabledIds(v)
<1>1. /\ \A r \in EnabledReads(v) : r \in Ids /\ r \in Reads /\ r \in E /\ rf[r] = p[r]
      /\ \A r \in Ids : r \notin EnabledReads(v) => rf[r] = NoWrite
      /\ \A r \in Reads : r \in Ids
  BY DEF ReadsFrom, EnabledReads, Reads, EnabledIds
<1>2. \A w \in Writes : w \in Ids /\ w # NoWrite /\ ~relation[w].read
  BY EncoderAssumption, EventFacts DEF Writes, Reads
<1>3. /\ \A r \in DOMAIN p : SameZone(p[r], r)
      /\ \A r \in DOMAIN p, y \in E :
           ~relation[y].read /\ SameZone(y, r) /\ <<p[r], y>> \in Q /\ <<y, r>> \in Q =>
             \E q \in DOMAIN p : p[q] = y /\ <<q, r>> \in Q
  BY DEF Lifo
<1>4. \A e \in Ids : Enabled(e, v) => e \in E
  BY DEF EnabledIds
<1> HIDE DEF rf, E
<1>5. ASSUME NEW x \in Writes, NEW y \in Writes, SameZone(x, y), c[x] < c[y], NEW a \in Reads, rf[a] = x
      PROVE  /\ \A q \in Reads : rf[q] = y => c[q] < c[a]
             /\ c[y] < c[a] /\ Enabled(y, v) => \E q \in Reads \ {a} : rf[q] = y
  <2>1. a \in DOMAIN p /\ a \in E /\ p[a] = x /\ x \in E
    BY <1>1, <1>2, <1>5 DEF E
  <2>2. SameZone(x, a)
    BY <1>3, <2>1
  <2>3. ASSUME NEW q \in Reads, rf[q] = y PROVE c[q] < c[a]
    <3>1. q \in DOMAIN p /\ q \in E /\ p[q] = y /\ y \in E
      BY <1>1, <1>2, <2>3 DEF E
    <3>2. SameZone(y, q)
      BY <1>3, <3>1
    <3>3. SameZone(a, q)
      BY <1>5, <2>2, <3>2 DEF SameZone
    <3>4. <<p[a], p[q]>> \in Q
      BY <1>5, <2>1, <3>1 DEF E
    <3>5. <<q, a>> \in Q
      BY <2>1, <3>1, <3>3, <3>4
    <3> QED
      BY <2>1, <3>1, <3>5 DEF E
  <2>4. ASSUME c[y] < c[a], Enabled(y, v) PROVE \E q \in Reads \ {a} : rf[q] = y
    <3>1. y \in E
      BY <1>2, <1>4, <2>4
    <3>2. <<x, y>> \in Q /\ <<y, a>> \in Q
      BY <1>5, <2>1, <2>4, <3>1 DEF E
    <3>3. SameZone(y, a)
      BY <1>5, <2>2 DEF SameZone
    <3>4. PICK q \in DOMAIN p : p[q] = y
      BY <1>2, <1>3, <2>1, <3>1, <3>2, <3>3
    <3>5. x # y
      <4>1. c[x] \in Nat
        BY <1>2
      <4> QED
        BY <1>5, <4>1
    <3>6. q \in Reads /\ rf[q] = y /\ q # a
      BY <1>1, <2>1, <3>4, <3>5
    <3> QED
      BY <3>6
  <2> QED
    BY <2>3, <2>4
<1> QED
  BY <1>5 DEF StackEnc, rf

(* The encoding has a model of every nested run.                           *)
LEMMA Complete ==
  ASSUME IInv, NEW v, NEW s \in Schedules(EnabledIds(v)), Nested(s, v), ~Run(s, v).blocked
  PROVE  Run(s, v).pops \in ModelPops(v)
<1> DEFINE p == Run(s, v).pops
           Q == ScheduleOrder(s)
           L == EventOrder(s, v)
           E == EnabledIds(v)
           rf == ReadsFrom(p, v)
           before == Spo \union RfOrder(rf)
<1>1. Len(relation) \in Nat /\ Ids = 1 .. Len(relation)
  BY EventFacts
<1>2. Running(Run(s, v), Q, E) /\ Lifo(p, E, Q, v)
  BY RunLifo
<1>3. DOMAIN p = EnabledReads(v) /\ (\A r \in DOMAIN p : p[r] \in E) /\ Run(s, v) \in States
  BY <1>2 DEF Running, EnabledReads, EnabledIds, Reads
<1>4. p = [r \in DOMAIN p |-> p[r]]
  BY <1>3 DEF States
<1>5. E \in SUBSET Ids /\ IsFiniteSet(E) /\ s \in SetToSeqs(E)
  BY ScheduleFacts
<1>6. /\ Orders(L, Ids)
      /\ \A d, e \in Ids : ProgramOrder(d, e) => <<d, e>> \in L
      /\ \A d, e \in E : <<d, e>> \in L <=> <<d, e>> \in Q
  BY EventOrders
<1>7. \A d, e \in E : <<d, e>> \in Q <=> Place(s, d) < Place(s, e)
  BY <1>5, ScheduleOrders
<1>8. \A a, b \in DOMAIN p : SameZone(a, b) /\ Place(s, p[a]) < Place(s, p[b]) => Place(s, b) < Place(s, a)
  BY DEF Nested, Place
<1> HIDE DEF p, Q, L, E
<1>9. ASSUME NEW a \in DOMAIN p, NEW b \in DOMAIN p, SameZone(a, b), <<p[a], p[b]>> \in Q PROVE <<b, a>> \in Q
  <2>1. a \in E /\ b \in E /\ p[a] \in E /\ p[b] \in E
    BY <1>3 DEF E, EnabledReads, EnabledIds, Reads
  <2> QED
    BY <1>7, <1>8, <1>9, <2>1
<1>10. rf \in Rfs(v) /\ RsEnc(rf)
  BY <1>2, <1>3, RunReadsFrom DEF E
<1>11. /\ \A r \in EnabledReads(v) : r \in Ids /\ r \in E /\ rf[r] = p[r]
       /\ \A r \in Reads : rf[r] # NoWrite => r \in EnabledReads(v)
       /\ DOMAIN rf = Ids
  BY DEF ReadsFrom, EnabledReads, Reads, EnabledIds, E
<1> HIDE DEF rf
<1>12. ASSUME NEW b \in before PROVE <<b[1], b[2]>> \in L
  <2>1. CASE b \in Spo
    <3>1. b[1] \in Ids /\ b[2] \in Ids /\ ProgramOrder(b[1], b[2])
      BY <2>1 DEF Spo
    <3> QED
      BY <1>6, <3>1
  <2>2. CASE b \in RfOrder(rf)
    <3>1. PICK r \in Reads : rf[r] # NoWrite /\ b = <<rf[r], r>>
      BY <2>2 DEF RfOrder
    <3>2. r \in DOMAIN p /\ r \in E /\ rf[r] = p[r] /\ p[r] \in E
      BY <1>3, <1>11, <3>1
    <3>3. <<p[r], r>> \in Q
      BY <1>2, <3>2 DEF Lifo
    <3>4. <<p[r], r>> \in L
      BY <1>6, <3>2, <3>3
    <3>5. b[1] = p[r] /\ b[2] = r
      BY <3>1, <3>2
    <3> QED
      BY <3>4, <3>5
  <2> QED
    BY <2>1, <2>2
<1> HIDE DEF before
<1>13. PICK c \in Clocks(before) : \A d, e \in 1 .. Len(relation) : c[d] < c[e] <=> <<d, e>> \in L
  <2>1. Orders(L, 1 .. Len(relation))
    BY <1>1, <1>6
  <2>2. \A b \in before : b[1] \in 1 .. Len(relation) /\ b[2] \in 1 .. Len(relation) => <<b[1], b[2]>> \in L
    BY <1>12
  <2> QED
    BY <1>1, <2>1, <2>2, ClocksOfOrder
<1>14. \A e \in Ids : c[e] \in Nat
  <2>1. c \in Seq(Nat) /\ Len(c) = Len(relation)
    BY <1>1, ClocksRespect
  <2> QED
    BY <1>1, <2>1
<1>15. WsEnc(c)
  <2> SUFFICES ASSUME NEW x \in Writes, NEW y \in Writes, c[x] = c[y] PROVE x = y
    BY DEF WsEnc
  <2>1. x \in Ids /\ y \in Ids /\ c[x] \in Nat /\ c[y] \in Nat
    BY <1>14 DEF Writes
  <2>2. ~(c[x] < c[y]) /\ ~(c[y] < c[x])
    BY <2>1
  <2>3. ~(<<x, y>> \in L) /\ ~(<<y, x>> \in L)
    BY <1>1, <1>13, <2>1, <2>2
  <2> QED
    BY <1>6, <2>1, <2>3 DEF Orders
<1>16. StackEnc(c, rf, v)
  <2>1. \A d, e \in EnabledIds(v) : c[d] < c[e] <=> <<d, e>> \in Q
    <3> SUFFICES ASSUME NEW d \in E, NEW e \in E PROVE c[d] < c[e] <=> <<d, e>> \in Q
      BY DEF E
    <3>1. d \in 1 .. Len(relation) /\ e \in 1 .. Len(relation)
      BY <1>1, <1>5
    <3>2. c[d] < c[e] <=> <<d, e>> \in L
      BY <1>13, <3>1
    <3> QED
      BY <1>6, <3>2
  <2>2. \A a, b \in DOMAIN p : SameZone(a, b) /\ <<p[a], p[b]>> \in Q => <<b, a>> \in Q
    BY <1>9
  <2>3. Lifo(p, EnabledIds(v), Q, v) /\ \A r \in DOMAIN p : p[r] \in EnabledIds(v)
    BY <1>2, <1>3 DEF E
  <2> QED
    BY <1>3, <1>14, <2>1, <2>2, <2>3, RunStackEnc DEF rf
<1> DEFINE m == [clock |-> c, rf |-> rf]
<1>17. m \in Models(v)
  <2> DEFINE times(g) == { d \in Clocks(Spo \union RfOrder(g)) : WsEnc(d) /\ StackEnc(d, g, v) }
             all(g) == { [clock |-> clock, rf |-> g] : clock \in times(g) }
  <2>1. c \in times(rf)
    BY <1>13, <1>15, <1>16 DEF before
  <2> HIDE DEF times
  <2>2. m \in all(rf)
    BY <2>1
  <2> HIDE DEF all, m
  <2>3. m \in UNION { all(g) : g \in { f \in Rfs(v) : RsEnc(f) } }
    BY <1>10, <2>2
  <2> QED
    BY <2>3 DEF Models, all, times
<1>18. Restrict(m.rf, EnabledReads(v)) = p
  <2>1. Restrict(rf, EnabledReads(v)) = [r \in EnabledReads(v) |-> rf[r]]
    BY DEF Restrict
  <2> QED
    BY <1>3, <1>4, <1>11, <2>1
<1> QED
  BY <1>17, <1>18 DEF ModelPops, p

-----------------------------------------------------------------------------
(* The type invariant: what is related are events of the threads, zones    *)
(* and conditions there are.                                               *)
THEOREM EventsTyped == Spec => []IInv
<1>1. Init => IInv
  BY DEF Init, IInv
<1>2. IInv /\ [Next]_relation => IInv'
  <2> SUFFICES ASSUME IInv, [Next]_relation PROVE IInv'
    OBVIOUS
  <2>1. ASSUME NEW e \in EventType, Relate(e) PROVE IInv'
    BY <2>1 DEF Relate, IInv
  <2>2. CASE Next
    <3>1. PICK t \in 0 .. MaxThread, z \in Zone, g \in Condition \union {NoCond} :
             \/ Relate(Event(t, z, FALSE, g, FALSE))
             \/ \E expect \in BOOLEAN : Relate(Event(t, z, TRUE, g, expect))
      BY <2>2 DEF Next
    <3>2. \A b, x \in BOOLEAN : Event(t, z, b, g, x) \in EventType
      BY DEF Event, EventType
    <3> QED
      BY <2>1, <3>1, <3>2
  <2>3. CASE UNCHANGED relation
    BY <2>3 DEF IInv
  <2> QED
    BY <2>2, <2>3
<1> QED
  BY <1>1, <1>2, PTL DEF Spec

(* Whatever a model of the constraints of encoder_c0.h admits, a stack per *)
(* zone can do, with the pops that read from a push.                       *)
THEOREM Soundness == Spec => []ModelsAreStackRuns
<1>1. IInv => ModelsAreStackRuns
  <2> SUFFICES ASSUME IInv, NEW v \in Valuations, NEW m \in Models(v)
               PROVE  Restrict(m.rf, Popping(m)) \in Pops(Schedules(EnabledIds(v) \union Popping(m)), v)
    BY DEF ModelsAreStackRuns
  <2> QED
    BY Sound DEF Happening
<1> QED
  BY <1>1, EventsTyped, PTL

(* The constraints of encoder_c0.h have a model for whatever a stack per   *)
(* zone can do that pops in the opposite order of pushing.                 *)
THEOREM Completeness == Spec => []NestedRunsHaveModels
<1>1. IInv => NestedRunsHaveModels
  <2> SUFFICES ASSUME IInv, NEW v \in Valuations, NEW pops \in Pops({ s \in Schedules(EnabledIds(v)) : Nested(s, v) }, v)
               PROVE  pops \in ModelPops(v)
    BY DEF NestedRunsHaveModels
  <2>1. PICK s \in Schedules(EnabledIds(v)) : Nested(s, v) /\ ~Run(s, v).blocked /\ pops = Run(s, v).pops
    BY DEF Pops
  <2> QED
    BY <2>1, Complete
<1> QED
  BY <1>1, EventsTyped, PTL
=============================================================================
