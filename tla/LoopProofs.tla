----------------------------- MODULE LoopProofs ------------------------------
(***************************************************************************)
(* Proofs about module LoopUnwinding: its types, that no assertion fails,  *)
(* also not between the end_branch calls that leave a loop, that the loop  *)
(* stack and the slice account for every open iteration, and that the      *)
(* events stay in order, for all unwinding bounds and however loops and    *)
(* branches are nested.                                                    *)
(***************************************************************************)
EXTENDS LoopUnwinding, SliceProofs, FiniteSetTheorems

SharedEvent == [id : Nat, shared : BOOLEAN]

FrameType == [policy : Policy \union {NoLoop}, isElse : BOOLEAN]

LoopType == [policy : Policy, counter : Nat]

(* The open branches and iterations are the open arms of the slice.        *)
ArmsMatch(s, arms, frames) ==
  /\ arms \in ArmSeq
  /\ OnArms(s, arms)
  /\ Len(arms) = Len(frames)
  /\ \A k \in 1 .. Len(frames) : arms[k].side = IF frames[k].isElse THEN "else" ELSE "then"

(* The iterations that loop l has begun are the frames after the f-th.     *)
Begun(l) == UnwindingBound[l.policy] - l.counter

Spans(l, frames, f) ==
  /\ f \in Nat
  /\ f + Begun(l) <= Len(frames)
  /\ \A k \in 1 .. Len(frames) :
       frames[k].policy = l.policy <=> k \in f + 1 .. f + Begun(l)

Iterating(l, frames) ==
  /\ l.counter < UnwindingBound[l.policy]
  /\ \E f : Spans(l, frames, f)

LoopsInv(stack, frames) ==
  /\ \A i \in 1 .. Len(stack) : Iterating(stack[i], frames)
  /\ \A i, j \in 1 .. Len(stack) : stack[i].policy = stack[j].policy => i = j
  /\ \A k \in 1 .. Len(frames) : frames[k].policy # NoLoop =>
       /\ ~frames[k].isElse
       /\ \E i \in 1 .. Len(stack) : stack[i].policy = frames[k].policy

IInv ==
  /\ slice \in SliceOf(SharedEvent)
  /\ SliceInv(slice)
  /\ loops \in Seq(LoopType)
  /\ events \in 0 .. MaxEvents
  /\ open \in Seq(FrameType)
  /\ \E arms : ArmsMatch(slice, arms, open)
  /\ LoopsInv(loops, open)

-----------------------------------------------------------------------------
(* Consecutive calls of end_branch, as the function they are defined by.   *)
Ended(s, after, k) == IF k = 0 THEN s ELSE EndBranch(after[k - 1])

LEMMA EndedExists ==
  ASSUME NEW s
  PROVE  \A n \in Nat : \E after : after = [k \in 0 .. n |-> Ended(s, after, k)]
<1> DEFINE Good(after, n) == after = [k \in 0 .. n |-> Ended(s, after, k)]
           good == { n \in Nat : \E after : Good(after, n) }
<1>1. 0 \in good
  <2> DEFINE f == [k \in 0 .. 0 |-> s]
  <2>1. Good(f, 0)
    BY DEF Ended
  <2> QED
    BY <2>1
<1>2. ASSUME NEW n \in Nat, n \in good PROVE n + 1 \in good
  <2>1. PICK old : Good(old, n)
    BY <1>2
  <2> DEFINE new == [k \in 0 .. n + 1 |-> Ended(s, old, k)]
  <2>2. \A k \in 0 .. n : new[k] = old[k]
    BY <2>1
  <2>3. ASSUME NEW k \in 0 .. n + 1 PROVE Ended(s, old, k) = Ended(s, new, k)
    <3>1. CASE k = 0
      BY <3>1 DEF Ended
    <3>2. CASE k # 0
      <4>1. k - 1 \in 0 .. n
        BY <3>2
      <4> HIDE DEF new
      <4>2. new[k - 1] = old[k - 1]
        BY <2>2, <4>1
      <4> QED
        BY <3>2, <4>2 DEF Ended
    <3> QED
      BY <3>1, <3>2
  <2>4. Good(new, n + 1)
    <3>1. \A k \in 0 .. n + 1 : Ended(s, old, k) = Ended(s, new, k)
      BY <2>3
    <3>2. new = [k \in 0 .. n + 1 |-> Ended(s, old, k)]
      OBVIOUS
    <3> HIDE DEF new
    <3> QED
      BY <3>1, <3>2
  <2>5. n + 1 \in Nat
    OBVIOUS
  <2> QED
    BY <2>4, <2>5
<1>3. \A n \in Nat : n \in good
  <2> HIDE DEF good
  <2> QED BY <1>1, <1>2, SetInduction
<1> QED
  BY <1>3

(* n calls of end_branch close the n innermost branches, and each of them  *)
(* is called in a branch.                                                  *)
LEMMA EndBranchesFacts ==
  ASSUME NEW E, NEW s \in SliceOf(E), SliceInv(s), NEW arms \in ArmSeq, OnArms(s, arms),
         NEW m \in Nat, Len(arms) = m, NEW n \in 0 .. m
  PROVE  /\ EndBranches(s, n) \in SliceOf(E)
         /\ SliceInv(EndBranches(s, n))
         /\ OnArms(EndBranches(s, n), SubSeq(arms, 1, m - n))
         /\ \A e : InOrder(s.blocks, e) => InOrder(EndBranches(s, n).blocks, e)
<1> DEFINE ch == CHOOSE after : after = [k \in 0 .. n |-> Ended(s, after, k)]
<1>1. EndBranches(s, n) = ch[n]
  BY DEF EndBranches, Ended
<1>2. ch = [k \in 0 .. n |-> Ended(s, ch, k)]
  <2>1. n \in Nat
    OBVIOUS
  <2>2. \E after : after = [k \in 0 .. n |-> Ended(s, after, k)]
    BY <2>1, EndedExists
  <2> QED
    BY <2>2, Zenon
<1> HIDE DEF ch
<1> DEFINE Closed(t, k) == /\ t \in SliceOf(E) /\ SliceInv(t)
                           /\ OnArms(t, SubSeq(arms, 1, m - k))
                           /\ \A e : InOrder(s.blocks, e) => InOrder(t.blocks, e)
           good == { k \in Nat : k <= n => Closed(ch[k], k) }
<1>3. 0 \in good
  <2>1. ch[0] = s /\ m - 0 = m
    BY <1>2 DEF Ended
  <2>2. SubSeq(arms, 1, m) = arms
    BY DEF ArmSeq
  <2> QED
    BY <2>1, <2>2
<1>4. ASSUME NEW k \in Nat, k \in good PROVE k + 1 \in good
  <2>1. k + 1 \in Nat
    OBVIOUS
  <2> SUFFICES ASSUME k + 1 <= n PROVE Closed(ch[k + 1], k + 1)
    BY <2>1
  <2> DEFINE t == ch[k]
             u == ch[k + 1]
             brms == SubSeq(arms, 1, m - k)
             crms == SubSeq(arms, 1, m - (k + 1))
  <2>2. u = EndBranch(t)
    <3>1. k + 1 \in 0 .. n /\ k + 1 # 0 /\ (k + 1) - 1 = k
      OBVIOUS
    <3> QED
      BY <1>2, <3>1 DEF Ended
  <2>3. /\ t \in SliceOf(E) /\ SliceInv(t) /\ OnArms(t, brms)
        /\ \A e : InOrder(s.blocks, e) => InOrder(t.blocks, e)
    <3>1. k <= n
      OBVIOUS
    <3> QED
      BY <1>4, <3>1
  <2>4. m - k \in 0 .. Len(arms) /\ m - (k + 1) \in 0 .. Len(arms) /\ m - k \in Nat \ {0}
        /\ (m - k) - 1 = m - (k + 1)
    OBVIOUS
  <2>5. /\ brms \in ArmSeq /\ Len(brms) = m - k /\ \A i \in 1 .. m - k : brms[i] = arms[i]
        /\ crms \in ArmSeq /\ Len(crms) = m - (k + 1) /\ \A i \in 1 .. m - (k + 1) : crms[i] = arms[i]
    BY <2>4, PrefixFacts DEF ArmSeq
  <2> HIDE DEF t, u, brms, crms
  <2>6. ArmBlock(t) \in 2 .. Len(t.blocks)
    <3>1. m - k \in 1 .. Len(brms) /\ m - k = Len(brms)
      BY <2>4, <2>5
    <3> QED
      BY <2>3, <3>1 DEF OnArms, OnArm
  <2>7. u \in SliceOf(E) /\ BranchEnded(t, u)
    BY <2>2, <2>3, <2>6, EndBranchFacts
  <2>8. SliceInv(u)
    BY <2>7 DEF BranchEnded
  <2>9. OnArms(u, crms)
    <3> DEFINE l == m - k
    <3>1. l \in Nat \ {0} /\ Len(brms) = l /\ Len(crms) = l - 1
      BY <2>4, <2>5
    <3>2. \A i \in 1 .. l - 1 : crms[i] = brms[i]
      BY <2>4, <2>5
    <3> HIDE DEF l
    <3> QED
      BY <2>3, <2>5, <2>7, <3>1, <3>2, EndArms
  <2>10. ASSUME NEW e, InOrder(s.blocks, e) PROVE InOrder(u.blocks, e)
    <3>1. InOrder(t.blocks, e)
      BY <2>3, <2>10
    <3>2. InOrder(EndBranch(t).blocks, e)
      BY <2>3, <2>6, <3>1, EndBranchOrder
    <3> QED
      BY <2>2, <3>2
  <2> QED
    BY <2>7, <2>8, <2>9, <2>10 DEF u, crms
<1>5. \A k \in Nat : k \in good
  <2> HIDE DEF good
  <2> QED BY <1>3, <1>4, SetInduction
<1> QED
  BY <1>1, <1>5

-----------------------------------------------------------------------------
(* Frames of other policies come and go above the iterations of a loop.    *)
LEMMA SpansOther ==
  ASSUME NEW l \in LoopType, NEW fr \in Seq(FrameType), NEW gr \in Seq(FrameType),
         Iterating(l, fr),
         \A k \in 1 .. Len(fr) : k \in 1 .. Len(gr) \/ fr[k].policy # l.policy,
         \A k \in 1 .. Len(gr) : IF k \in 1 .. Len(fr) THEN gr[k].policy = fr[k].policy
                                 ELSE gr[k].policy # l.policy
  PROVE  Iterating(l, gr)
<1>1. PICK f : Spans(l, fr, f)
  BY DEF Iterating
<1> DEFINE it == Begun(l)
<1>2. l.counter < UnwindingBound[l.policy] /\ it \in Nat \ {0} /\ f \in Nat /\ f + it <= Len(fr)
      /\ Len(fr) \in Nat /\ Len(gr) \in Nat
  <2>1. l.policy \in Policy /\ l.counter \in Nat
    BY DEF LoopType
  <2>2. UnwindingBound[l.policy] \in Nat
    BY <2>1, PolicyAssumption
  <2> QED
    BY <1>1, <2>1, <2>2 DEF Iterating, Spans, Begun
<1>3. \A k \in 1 .. Len(fr) : fr[k].policy = l.policy <=> k \in f + 1 .. f + it
  BY <1>1 DEF Spans
<1> HIDE DEF it
<1>4. f + it <= Len(gr)
  <2>1. f + it \in 1 .. Len(fr) /\ f + it \in f + 1 .. f + it
    BY <1>2
  <2>2. f + it \in 1 .. Len(gr)
    BY <1>3, <2>1
  <2> QED
    BY <2>2
<1>5. ASSUME NEW k \in 1 .. Len(gr)
      PROVE  gr[k].policy = l.policy <=> k \in f + 1 .. f + it
  <2>1. CASE k \in 1 .. Len(fr)
    BY <1>3, <2>1
  <2>2. CASE k \notin 1 .. Len(fr)
    BY <1>2, <2>2
  <2> QED
    BY <2>1, <2>2
<1>6. Spans(l, gr, f)
  BY <1>2, <1>4, <1>5 DEF Spans, it
<1> QED
  BY <1>2, <1>6 DEF Iterating

(* The next iteration of a loop: the first one of a loop that has none, or *)
(* right above the others.                                                 *)
LEMMA SpansNext ==
  ASSUME NEW l \in LoopType, NEW fr \in Seq(FrameType), NEW gr \in Seq(FrameType),
         NEW n \in Nat, Len(fr) = n, Len(gr) = n + 1, \A k \in 1 .. n : gr[k].policy = fr[k].policy,
         gr[n + 1].policy = l.policy, l.counter > 0,
         \/ l.counter = UnwindingBound[l.policy] /\ \A k \in 1 .. n : fr[k].policy # l.policy
         \/ Iterating(l, fr) /\ n # 0 /\ fr[n].policy = l.policy
  PROVE  Iterating([l EXCEPT !.counter = @ - 1], gr)
<1> DEFINE c == l.counter
           b == UnwindingBound[l.policy]
           r == [l EXCEPT !.counter = @ - 1]
           it == Begun(l)
<1>1. /\ c \in Nat /\ c - 1 \in Nat /\ b \in Nat /\ c # 0
      /\ r.policy = l.policy /\ r.counter = c - 1
  <2>1. l.policy \in Policy /\ l.counter \in Nat /\ r.policy = l.policy /\ r.counter = c - 1
    BY DEF LoopType
  <2> QED
    BY <2>1, PolicyAssumption
<1> HIDE DEF r
<1>2. Begun(r) = b - (c - 1) /\ it = b - c
  BY <1>1 DEF Begun
<1>3. PICK f \in Nat : f + it = n /\ c <= b /\
        \A k \in 1 .. n : fr[k].policy = l.policy <=> k \in f + 1 .. n
  <2>1. CASE c = b /\ \A k \in 1 .. n : fr[k].policy # l.policy
    <3>1. n \in Nat /\ n + it = n /\ c <= b
      BY <1>1, <1>2, <2>1
    <3>2. \A k \in 1 .. n : k \notin n + 1 .. n
      OBVIOUS
    <3> QED
      BY <2>1, <3>1, <3>2
  <2>2. CASE Iterating(l, fr) /\ n # 0 /\ fr[n].policy = l.policy
    <3>1. PICK f : Spans(l, fr, f)
      BY <2>2 DEF Iterating
    <3>2. c < b /\ f \in Nat /\ f + it <= n /\ it \in Nat
      BY <1>1, <1>2, <2>2, <3>1 DEF Iterating, Spans
    <3>3. n \in f + 1 .. f + it
      BY <2>2, <3>1 DEF Spans
    <3> HIDE DEF it
    <3>4. f + it = n
      BY <3>2, <3>3
    <3> QED
      BY <1>1, <3>1, <3>2, <3>4 DEF Spans, it
  <2> QED
    BY <2>1, <2>2
<1> HIDE DEF c, b, it
<1>4. f + Begun(r) = n + 1
  BY <1>1, <1>2, <1>3
<1>5. \A k \in 1 .. n + 1 : gr[k].policy = r.policy <=> k \in f + 1 .. n + 1
  <2> SUFFICES ASSUME NEW k \in 1 .. n + 1 PROVE gr[k].policy = r.policy <=> k \in f + 1 .. n + 1
    OBVIOUS
  <2>1. CASE k = n + 1
    <3>1. n + 1 \in f + 1 .. n + 1
      BY <1>1, <1>2, <1>3
    <3> QED
      BY <1>1, <2>1, <3>1
  <2>2. CASE k # n + 1
    BY <1>1, <1>3, <2>2
  <2> QED
    BY <2>1, <2>2
<1>6. Spans(r, gr, f)
  BY <1>4, <1>5 DEF Spans
<1>7. r.counter < UnwindingBound[r.policy]
  BY <1>1, <1>3 DEF b, c
<1> QED
  BY <1>6, <1>7 DEF Iterating, r

(* A loop whose iterations are used up, with the innermost frame its own,  *)
(* has exactly its bound of frames on top.                                 *)
LEMMA SpansAll ==
  ASSUME NEW l \in LoopType, NEW fr \in Seq(FrameType), NEW n \in Nat, Len(fr) = n, n # 0,
         Iterating(l, fr), l.counter = 0, fr[n].policy = l.policy
  PROVE  /\ UnwindingBound[l.policy] \in 1 .. n
         /\ \A k \in 1 .. n : fr[k].policy = l.policy <=> k > n - UnwindingBound[l.policy]
<1> DEFINE b == UnwindingBound[l.policy]
<1>1. b \in Nat \ {0} /\ Begun(l) = b
  BY PolicyAssumption DEF LoopType, Begun
<1>2. PICK f : Spans(l, fr, f)
  BY DEF Iterating
<1> HIDE DEF b
<1>3. /\ f \in Nat /\ f + b <= n
      /\ \A k \in 1 .. n : fr[k].policy = l.policy <=> k \in f + 1 .. f + b
  BY <1>1, <1>2 DEF Spans
<1>4. n \in f + 1 .. f + b
  BY <1>3
<1>5. f + b = n
  BY <1>1, <1>3, <1>4
<1>6. \A k \in 1 .. n : k \in f + 1 .. f + b <=> k > n - b
  BY <1>1, <1>3, <1>5
<1> QED
  BY <1>1, <1>3, <1>5, <1>6 DEF b

-----------------------------------------------------------------------------
(* A recording starts with no loop on the stack and nothing open. *)
LEMMA InitIInv == Init => IInv
<1> SUFFICES ASSUME Init PROVE IInv
  OBVIOUS
<1>1. slice = EmptySlice /\ open = <<>> /\ loops = <<>> /\ events = 0
  BY DEF Init
<1>2. slice \in SliceOf(SharedEvent) /\ SliceInv(slice) /\ OnArms(slice, <<>>)
  BY <1>1, EmptySliceFacts
<1>3. ArmsMatch(slice, <<>>, open)
  BY <1>1, <1>2 DEF ArmsMatch, ArmSeq
<1>4. LoopsInv(loops, open)
  BY <1>1 DEF LoopsInv
<1>5. events \in 0 .. MaxEvents
  BY <1>1, BoundAssumption
<1> QED
  BY <1>1, <1>2, <1>3, <1>4, <1>5 DEF IInv

(* The events of one call. *)
LEMMA ReadsFacts ==
  ASSUME IInv, NEW n \in Nat
  PROVE  Reads(n) \in Seq(SharedEvent)
<1>1. events \in Nat
  BY BoundAssumption DEF IInv
<1>2. ASSUME NEW i \in 1 .. n PROVE Event(events + i) \in SharedEvent
  <2>1. events + i \in Nat
    BY <1>1
  <2> QED
    BY <2>1 DEF Event, SharedEvent
<1>3. Reads(n) \in [1 .. n -> SharedEvent]
  BY <1>2 DEF Reads
<1> QED
  BY <1>3

(* Slice::append preserves the invariant.                                  *)
LEMMA RecordIInv ==
  ASSUME IInv, Record
  PROVE  IInv'
<1>1. /\ slice' = AppendAll(slice, Reads(1)) /\ events' = events + 1
      /\ events < MaxEvents /\ loops' = loops /\ open' = open
  BY DEF Record
<1>2. Reads(1) \in Seq(SharedEvent)
  BY ReadsFacts
<1>3. /\ slice' \in SliceOf(SharedEvent) /\ SliceInv(slice') /\ slice'.cur = slice.cur
      /\ Written(slice.blocks, slice'.blocks, slice.cur, Reads(1))
  BY <1>1, <1>2, AppendAllInv DEF IInv
<1>4. PICK arms : ArmsMatch(slice, arms, open)
  BY DEF IInv
<1>5. ArmsMatch(slice', arms, open')
  <2>1. arms \in ArmSeq /\ OnArms(slice, arms)
    BY <1>4 DEF ArmsMatch
  <2>2. OnArms(slice', arms)
    BY <1>3, <2>1, WrittenArms DEF IInv
  <2> QED
    BY <1>1, <1>4, <2>2 DEF ArmsMatch
<1>6. events' \in 0 .. MaxEvents
  BY <1>1, BoundAssumption DEF IInv
<1> QED
  BY <1>1, <1>3, <1>5, <1>6 DEF IInv

(* Slice::begin_then opens one arm more. *)
LEMMA OpenFacts ==
  ASSUME IInv, NEW lit \in Literal, NEW n \in 0 .. MaxReads,
         NEW policy \in Policy \union {NoLoop}, Open(lit, n, policy)
  PROVE  /\ slice' \in SliceOf(SharedEvent) /\ SliceInv(slice')
         /\ events' \in 0 .. MaxEvents
         /\ open' \in Seq(FrameType) /\ Len(open') = Len(open) + 1
         /\ open'[Len(open) + 1] = Frame(policy)
         /\ \A k \in 1 .. Len(open) : open'[k] = open[k]
         /\ \E arms : ArmsMatch(slice', arms, open')
<1> DEFINE new == slice'.cur
           last == [branch |-> new, side |-> "then"]
           es == Reads(n)
<1>1. /\ slice' = BeginThen(slice, lit, es) /\ events' = events + n
      /\ events + n <= MaxEvents /\ open' = Append(open, Frame(policy))
  BY DEF Open
<1>2. n \in Nat /\ es \in Seq(SharedEvent)
  <2>1. n \in Nat
    BY BoundAssumption
  <2> QED
    BY <2>1, ReadsFacts
<1> HIDE DEF es
<1>3. slice' \in SliceOf(SharedEvent) /\ ThenOpened(slice, slice', lit, es)
  BY <1>1, <1>2, BeginThenFacts DEF IInv
<1>4. SliceInv(slice') /\ new \in Nat
  BY <1>3 DEF ThenOpened, SliceOf
<1>5. /\ Frame(policy) \in FrameType /\ Frame(policy).isElse = FALSE
      /\ open \in Seq(FrameType)
  BY DEF Frame, FrameType, IInv
<1>6. PICK m \in Nat : m = Len(open)
  BY <1>5
<1>7. /\ open' \in Seq(FrameType) /\ Len(open') = m + 1 /\ open'[m + 1] = Frame(policy)
      /\ \A k \in 1 .. m : open'[k] = open[k]
  BY <1>1, <1>5, <1>6, AppendFacts
<1>8. PICK arms : ArmsMatch(slice, arms, open)
  BY DEF IInv
<1>9. /\ arms \in ArmSeq /\ OnArms(slice, arms) /\ Len(arms) = m
      /\ \A k \in 1 .. m : arms[k].side = IF open[k].isElse THEN "else" ELSE "then"
  BY <1>6, <1>8 DEF ArmsMatch
<1> DEFINE brms == Append(arms, last)
<1>10. /\ brms \in ArmSeq /\ Len(brms) = m + 1 /\ brms[m + 1] = last
       /\ \A k \in 1 .. m : brms[k] = arms[k]
  <2>1. last \in [branch : Nat, side : {"then", "else"}]
    BY <1>4
  <2> HIDE DEF last
  <2> QED
    BY <1>9, <2>1, AppendFacts DEF ArmSeq
<1> HIDE DEF brms
<1>11. OnArms(slice', brms)
  BY <1>3, <1>9, <1>10, ThenArms DEF IInv
<1>12. \A k \in 1 .. m + 1 : brms[k].side = IF open'[k].isElse THEN "else" ELSE "then"
  <2> SUFFICES ASSUME NEW k \in 1 .. m + 1
               PROVE  brms[k].side = IF open'[k].isElse THEN "else" ELSE "then"
    OBVIOUS
  <2>1. CASE k = m + 1
    BY <1>5, <1>7, <1>10, <2>1
  <2>2. CASE k # m + 1
    <3>1. k \in 1 .. m
      BY <2>2
    <3> QED
      BY <1>7, <1>9, <1>10, <3>1
  <2> QED
    BY <2>1, <2>2
<1>13. ArmsMatch(slice', brms, open')
  BY <1>7, <1>10, <1>11, <1>12 DEF ArmsMatch
<1>14. events' \in 0 .. MaxEvents
  BY <1>1, <1>2, BoundAssumption DEF IInv
<1> QED
  BY <1>3, <1>4, <1>6, <1>7, <1>13, <1>14

(* The loops on a stack. *)
LEMMA StackFacts ==
  ASSUME NEW stack \in Seq(LoopType), NEW i \in 1 .. Len(stack)
  PROVE  /\ stack[i] \in LoopType /\ stack[i].policy \in Policy
         /\ stack[i].policy # NoLoop /\ stack[i].counter \in Nat
<1>1. stack[i] \in LoopType
  BY ElementInSet
<1> QED
  BY <1>1, PolicyAssumption DEF LoopType

(* A branch that is no loop iteration disturbs no loop.                    *)
LEMMA BranchIInv ==
  ASSUME IInv, NEW lit \in Literal, NEW n \in 0 .. MaxReads, Branch(lit, n)
  PROVE  IInv'
<1>1. Open(lit, n, NoLoop) /\ loops' = loops
  BY DEF Branch
<1>2. PICK m \in Nat : m = Len(open)
  BY DEF IInv
<1>3. /\ slice' \in SliceOf(SharedEvent) /\ SliceInv(slice') /\ events' \in 0 .. MaxEvents
      /\ open' \in Seq(FrameType) /\ Len(open') = m + 1 /\ open'[m + 1] = Frame(NoLoop)
      /\ \A k \in 1 .. m : open'[k] = open[k]
      /\ \E arms : ArmsMatch(slice', arms, open')
  BY <1>1, <1>2, OpenFacts
<1>4. open'[m + 1].policy = NoLoop
  BY <1>3 DEF Frame
<1>5. loops \in Seq(LoopType) /\ open \in Seq(FrameType) /\ LoopsInv(loops, open)
  BY DEF IInv
<1>6. ASSUME NEW i \in 1 .. Len(loops) PROVE Iterating(loops[i], open')
  <2>1. loops[i] \in LoopType /\ loops[i].policy # NoLoop
    BY <1>5, StackFacts
  <2>2. Iterating(loops[i], open)
    BY <1>5 DEF LoopsInv
  <2>3. \A k \in 1 .. Len(open) : k \in 1 .. Len(open') \/ open[k].policy # loops[i].policy
    BY <1>2, <1>3
  <2>4. \A k \in 1 .. Len(open') : IF k \in 1 .. Len(open) THEN open'[k].policy = open[k].policy
                                   ELSE open'[k].policy # loops[i].policy
    <3>1. \A k \in 1 .. m + 1 : k \in 1 .. m \/ k = m + 1
      OBVIOUS
    <3> QED
      BY <1>2, <1>3, <1>4, <2>1, <3>1
  <2> QED
    BY <1>3, <1>5, <2>1, <2>2, <2>3, <2>4, SpansOther
<1>7. ASSUME NEW k \in 1 .. Len(open'), open'[k].policy # NoLoop
      PROVE  ~open'[k].isElse /\ \E i \in 1 .. Len(loops) : loops[i].policy = open'[k].policy
  <2>1. k \in 1 .. m
    BY <1>3, <1>4, <1>7
  <2> QED
    BY <1>2, <1>3, <1>5, <1>7, <2>1 DEF LoopsInv
<1>8. LoopsInv(loops', open')
  <2>1. \A i, j \in 1 .. Len(loops) : loops[i].policy = loops[j].policy => i = j
    BY <1>5 DEF LoopsInv
  <2> QED
    BY <1>1, <1>6, <1>7, <2>1 DEF LoopsInv
<1> QED
  BY <1>1, <1>3, <1>5, <1>8 DEF IInv

(* The stack after the first if statement of unwind_loop: loop p is on top,*)
(* and its iterations, if there are any, are the innermost frames.         *)
LEMMA PushedFacts ==
  ASSUME IInv, NEW p \in Policy, AtLoopHead(p)
  PROVE  /\ Pushed(p) \in Seq(LoopType) /\ Len(Pushed(p)) \in Nat \ {0}
         /\ Last(Pushed(p)) = Pushed(p)[Len(Pushed(p))]
         /\ Pushed(p)[Len(Pushed(p))].policy = p
         /\ \A i \in 1 .. Len(Pushed(p)) - 1 : Iterating(Pushed(p)[i], open)
         /\ \A i, j \in 1 .. Len(Pushed(p)) : Pushed(p)[i].policy = Pushed(p)[j].policy => i = j
         /\ \A k \in 1 .. Len(open) : open[k].policy # NoLoop =>
              /\ ~open[k].isElse
              /\ \E i \in 1 .. Len(Pushed(p)) : Pushed(p)[i].policy = open[k].policy
         /\ \/ /\ Last(Pushed(p)).counter = UnwindingBound[p]
               /\ \A k \in 1 .. Len(open) : open[k].policy # p
            \/ /\ Iterating(Last(Pushed(p)), open)
               /\ Len(open) # 0 /\ open[Len(open)].policy = p
<1>1. /\ loops \in Seq(LoopType) /\ open \in Seq(FrameType) /\ LoopsInv(loops, open)
      /\ p # NoLoop /\ UnwindingBound[p] \in Nat \ {0}
  BY PolicyAssumption DEF IInv
<1>2. CASE IsTop(p)
  <2>1. Pushed(p) = loops /\ loops # <<>> /\ Last(loops).policy = p
    BY <1>2 DEF Pushed, IsTop
  <2>2. Len(loops) \in Nat \ {0} /\ Last(loops) = loops[Len(loops)] /\ Len(loops) \in 1 .. Len(loops)
    <3>1. Len(loops) \in Nat /\ Len(loops) # 0
      BY <1>1, <2>1, EmptyFacts
    <3>2. Last(loops) = loops[Len(loops)]
      BY DEF Last
    <3>3. Len(loops) \in 1 .. Len(loops)
      BY <3>1
    <3> QED
      BY <3>1, <3>2, <3>3
  <2>3. Len(open) # 0 /\ open[Len(open)].policy = p
    <3>1. open # <<>> /\ Last(open).policy = p
      BY <1>2 DEF AtLoopHead
    <3> QED
      BY <1>1, <3>1, EmptyFacts DEF Last
  <2>4. /\ \A i \in 1 .. Len(loops) : Iterating(loops[i], open)
        /\ \A i \in 1 .. Len(loops) - 1 : i \in 1 .. Len(loops)
    BY <1>1 DEF LoopsInv
  <2> QED
    BY <1>1, <2>1, <2>2, <2>3, <2>4 DEF LoopsInv
<1>3. CASE ~IsTop(p)
  <2> DEFINE l == [policy |-> p, counter |-> UnwindingBound[p]]
             st == Append(loops, l)
  <2>1. PICK n \in Nat : n = Len(loops)
    BY <1>1
  <2>2. \A i \in 1 .. n : loops[i].policy # p
    BY <1>1, <1>3, <2>1 DEF AtLoopHead
  <2>3. Pushed(p) = st
    BY <1>3 DEF Pushed
  <2>4. l \in LoopType /\ l.policy = p /\ l.counter = UnwindingBound[p]
    BY <1>1 DEF LoopType
  <2> HIDE DEF l
  <2>5. /\ st \in Seq(LoopType) /\ Len(st) = n + 1 /\ st[n + 1] = l
        /\ \A i \in 1 .. n : st[i] = loops[i]
    BY <1>1, <2>1, <2>4, AppendFacts
  <2> HIDE DEF st
  <2>6. Last(st) = l /\ n + 1 \in Nat \ {0} /\ (n + 1) - 1 = n
    BY <2>5 DEF Last
  <2>7. \A k \in 1 .. Len(open) : open[k].policy # NoLoop =>
          ~open[k].isElse /\ \E i \in 1 .. n : loops[i].policy = open[k].policy
    BY <1>1, <2>1 DEF LoopsInv
  <2>8. \A k \in 1 .. Len(open) : open[k].policy # p
    BY <1>1, <2>2, <2>7
  <2>9. \A i \in 1 .. n + 1 : i = n + 1 \/ i \in 1 .. n
    OBVIOUS
  <2>10. \A i, j \in 1 .. n + 1 : st[i].policy = st[j].policy => i = j
    <3>1. \A i, j \in 1 .. n : loops[i].policy = loops[j].policy => i = j
      BY <1>1, <2>1 DEF LoopsInv
    <3> QED
      BY <2>2, <2>4, <2>5, <2>9, <3>1
  <2>11. \A k \in 1 .. Len(open) : open[k].policy # NoLoop =>
           ~open[k].isElse /\ \E i \in 1 .. n + 1 : st[i].policy = open[k].policy
    <3>1. \A i \in 1 .. n : i \in 1 .. n + 1
      OBVIOUS
    <3> QED
      BY <2>5, <2>7, <3>1
  <2>12. \A i \in 1 .. n : Iterating(st[i], open)
    BY <1>1, <2>1, <2>5 DEF LoopsInv
  <2> QED
    BY <2>3, <2>4, <2>5, <2>6, <2>8, <2>10, <2>11, <2>12
<1> QED
  BY <1>2, <1>3

(* unwind_loop, when it returns true, preserves the invariant.             *)
LEMMA UnwindIInv ==
  ASSUME IInv, NEW p \in Policy, NEW lit \in Literal, NEW n \in 0 .. MaxReads, Unwind(p, lit, n)
  PROVE  IInv'
<1> DEFINE st == Pushed(p)
           L == Len(st)
           top == [st[L] EXCEPT !.counter = @ - 1]
<1>1. /\ AtLoopHead(p) /\ Last(st).counter > 0 /\ Open(lit, n, p)
      /\ loops' = [st EXCEPT ![L].counter = @ - 1]
  BY DEF Unwind
<1>2. /\ st \in Seq(LoopType) /\ L \in Nat \ {0} /\ Last(st) = st[L] /\ st[L].policy = p
      /\ \A i \in 1 .. L - 1 : Iterating(st[i], open)
      /\ \A i, j \in 1 .. L : st[i].policy = st[j].policy => i = j
      /\ \A k \in 1 .. Len(open) : open[k].policy # NoLoop =>
           ~open[k].isElse /\ \E i \in 1 .. L : st[i].policy = open[k].policy
      /\ \/ /\ Last(st).counter = UnwindingBound[p]
            /\ \A k \in 1 .. Len(open) : open[k].policy # p
         \/ Iterating(Last(st), open) /\ Len(open) # 0 /\ open[Len(open)].policy = p
  BY <1>1, PushedFacts
<1> HIDE DEF st
<1>3. PICK m \in Nat : m = Len(open)
  BY DEF IInv
<1>4. /\ slice' \in SliceOf(SharedEvent) /\ SliceInv(slice') /\ events' \in 0 .. MaxEvents
      /\ open' \in Seq(FrameType) /\ Len(open') = m + 1 /\ open'[m + 1] = Frame(p)
      /\ \A k \in 1 .. m : open'[k] = open[k]
      /\ \E arms : ArmsMatch(slice', arms, open')
  BY <1>1, <1>3, OpenFacts
<1>5. open'[m + 1].policy = p /\ ~open'[m + 1].isElse /\ open \in Seq(FrameType)
  BY <1>4 DEF Frame, IInv
<1>6. L \in 1 .. L /\ st[L] \in LoopType /\ st[L].counter \in Nat /\ st[L].counter > 0
  BY <1>1, <1>2, StackFacts
<1>7. top \in LoopType /\ top.policy = p
  BY <1>2, <1>6 DEF LoopType
<1>8. Iterating(top, open')
  <2> DEFINE l == st[L]
  <2>1. \/ l.counter = UnwindingBound[l.policy] /\ \A k \in 1 .. m : open[k].policy # l.policy
        \/ Iterating(l, open) /\ m # 0 /\ open[m].policy = l.policy
    BY <1>2, <1>3
  <2>2. /\ l \in LoopType /\ l.counter > 0 /\ open'[m + 1].policy = l.policy
        /\ \A k \in 1 .. m : open'[k].policy = open[k].policy
    BY <1>2, <1>4, <1>5, <1>6
  <2> HIDE DEF l
  <2>3. Iterating([l EXCEPT !.counter = @ - 1], open')
    BY <1>3, <1>4, <1>5, <2>1, <2>2, SpansNext
  <2> QED
    BY <2>3 DEF l
<1>9. /\ loops' \in Seq(LoopType) /\ Len(loops') = L /\ loops'[L] = top
      /\ \A i \in 1 .. L : i # L => loops'[i] = st[i]
  <2>1. loops' = [st EXCEPT ![L] = top]
    BY <1>1
  <2>2. L \in DOMAIN st /\ DOMAIN st = 1 .. L
    BY <1>2, <1>6
  <2> HIDE DEF top
  <2> QED
    BY <1>2, <1>7, <2>1, <2>2, ExceptInSeq
<1> HIDE DEF L, top
<1>10. \A i \in 1 .. L : loops'[i].policy = st[i].policy
  BY <1>2, <1>7, <1>9
<1>11. ASSUME NEW i \in 1 .. L PROVE Iterating(loops'[i], open')
  <2>1. CASE i = L
    BY <1>8, <1>9, <2>1
  <2>2. CASE i # L
    <3>1. i \in 1 .. L - 1 /\ loops'[i] = st[i] /\ st[i].policy # p /\ Iterating(st[i], open)
      BY <1>2, <1>6, <1>9, <2>2
    <3>2. st[i] \in LoopType
      BY <1>2, StackFacts DEF L
    <3>3. \A k \in 1 .. Len(open) : k \in 1 .. Len(open') \/ open[k].policy # st[i].policy
      BY <1>3, <1>4
    <3>4. \A k \in 1 .. Len(open') : IF k \in 1 .. Len(open) THEN open'[k].policy = open[k].policy
                                     ELSE open'[k].policy # st[i].policy
      <4>1. \A k \in 1 .. m + 1 : k \in 1 .. m \/ k = m + 1
        OBVIOUS
      <4> QED
        BY <1>3, <1>4, <1>5, <3>1, <4>1
    <3> QED
      BY <1>4, <1>5, <3>1, <3>2, <3>3, <3>4, SpansOther
  <2> QED
    BY <2>1, <2>2
<1>12. ASSUME NEW k \in 1 .. m + 1, open'[k].policy # NoLoop
       PROVE  ~open'[k].isElse /\ \E i \in 1 .. L : loops'[i].policy = open'[k].policy
  <2>1. CASE k = m + 1
    BY <1>2, <1>5, <1>6, <1>10, <2>1
  <2>2. CASE k # m + 1
    <3>1. k \in 1 .. m
      BY <2>2
    <3> QED
      BY <1>2, <1>3, <1>4, <1>10, <1>12, <3>1
  <2> QED
    BY <2>1, <2>2
<1>13. LoopsInv(loops', open')
  <2>1. \A i, j \in 1 .. L : loops'[i].policy = loops'[j].policy => i = j
    BY <1>2, <1>10
  <2> QED
    BY <1>4, <1>9, <1>11, <1>12, <2>1 DEF LoopsInv
<1> QED
  BY <1>4, <1>9, <1>13 DEF IInv

(* A loop is left in the last of the iterations that its bound allows, and *)
(* these are the innermost that are open.                                  *)
LEMMA LeavingFacts ==
  ASSUME IInv, NEW p \in Policy, Unwound(p)
  PROVE  /\ UnwindingBound[p] \in 1 .. Len(open)
         /\ \A k \in 1 .. Len(open) :
              open[k].policy = p <=> k > Len(open) - UnwindingBound[p]
<1> DEFINE st == Pushed(p)
           L == Len(st)
           b == UnwindingBound[p]
<1>1. AtLoopHead(p) /\ Last(st).counter = 0
  BY DEF Unwound
<1>2. /\ st \in Seq(LoopType) /\ L \in Nat \ {0} /\ Last(st) = st[L] /\ st[L].policy = p
      /\ \/ /\ Last(st).counter = b
            /\ \A k \in 1 .. Len(open) : open[k].policy # p
         \/ Iterating(Last(st), open) /\ Len(open) # 0 /\ open[Len(open)].policy = p
  BY <1>1, PushedFacts
<1> HIDE DEF st
<1>3. b \in Nat \ {0} /\ open \in Seq(FrameType)
  BY PolicyAssumption DEF IInv
<1>4. PICK m \in Nat : m = Len(open)
  BY <1>3
<1>5. Iterating(st[L], open) /\ m # 0 /\ open[m].policy = p /\ st[L].counter = 0
  BY <1>1, <1>2, <1>3, <1>4
<1>6. L \in 1 .. L /\ st[L] \in LoopType
  BY <1>2, StackFacts
<1>7. b \in 1 .. m /\ \A k \in 1 .. m : open[k].policy = p <=> k > m - b
  <2> DEFINE l == st[L]
  <2>1. l \in LoopType /\ Iterating(l, open) /\ l.counter = 0 /\ l.policy = p /\ open[m].policy = l.policy
    BY <1>2, <1>5, <1>6
  <2> HIDE DEF l
  <2>2. /\ UnwindingBound[l.policy] \in 1 .. m
        /\ \A k \in 1 .. m : open[k].policy = l.policy <=> k > m - UnwindingBound[l.policy]
    BY <1>3, <1>4, <1>5, <2>1, SpansAll
  <2> QED
    BY <2>1, <2>2
<1> QED
  BY <1>4, <1>7

(* unwind_loop, when it returns false, preserves the invariant: the frames *)
(* above the loops that stay are those of the loop that is left.           *)
LEMMA UnwoundIInv ==
  ASSUME IInv, NEW p \in Policy, Unwound(p)
  PROVE  IInv'
<1> DEFINE st == Pushed(p)
           L == Len(st)
           b == UnwindingBound[p]
<1>1. /\ AtLoopHead(p)
      /\ slice' = EndBranches(slice, b) /\ loops' = Front(st)
      /\ open' = SubSeq(open, 1, Len(open) - b) /\ events' = events
  BY DEF Unwound, EndCalls, Popped
<1>2. /\ st \in Seq(LoopType) /\ L \in Nat \ {0} /\ Last(st) = st[L] /\ st[L].policy = p
      /\ \A i \in 1 .. L - 1 : Iterating(st[i], open)
      /\ \A i, j \in 1 .. L : st[i].policy = st[j].policy => i = j
      /\ \A k \in 1 .. Len(open) : open[k].policy # NoLoop =>
           ~open[k].isElse /\ \E i \in 1 .. L : st[i].policy = open[k].policy
  BY <1>1, PushedFacts
<1> HIDE DEF st
<1>3. /\ b \in Nat \ {0} /\ open \in Seq(FrameType) /\ slice \in SliceOf(SharedEvent)
      /\ SliceInv(slice) /\ events \in 0 .. MaxEvents
  BY PolicyAssumption DEF IInv
<1>4. PICK m \in Nat : m = Len(open)
  BY <1>3
<1>5. L \in 1 .. L /\ st[L] \in LoopType
  BY <1>2, StackFacts
<1>6. b \in 1 .. m /\ \A k \in 1 .. m : open[k].policy = p <=> k > m - b
  BY <1>4, LeavingFacts
<1> HIDE DEF b
<1>7. m - b \in 0 .. m /\ m - b \in Nat
  BY <1>3, <1>6
<1>8. /\ open' \in Seq(FrameType) /\ Len(open') = m - b
      /\ \A k \in 1 .. m - b : open'[k] = open[k]
  BY <1>1, <1>3, <1>4, <1>7, PrefixFacts
<1>9. /\ loops' \in Seq(LoopType) /\ Len(loops') = L - 1
       /\ \A i \in 1 .. L - 1 : loops'[i] = st[i]
  <2>1. st # <<>>
    BY <1>2, EmptyFacts
  <2> QED
    BY <1>1, <1>2, <2>1, FrontFacts
<1> HIDE DEF L
<1>10. \A k \in 1 .. m - b : k \in 1 .. m /\ open[k].policy # p
  BY <1>3, <1>6
<1>11. ASSUME NEW i \in 1 .. L - 1 PROVE Iterating(loops'[i], open')
  <2>1. /\ i \in 1 .. L /\ i # L /\ loops'[i] = st[i] /\ Iterating(st[i], open)
        /\ st[i] \in LoopType /\ st[i].policy # p
    BY <1>2, <1>5, <1>9, StackFacts DEF L
  <2>2. \A k \in 1 .. Len(open) : k \in 1 .. Len(open') \/ open[k].policy # st[i].policy
    <3>1. \A k \in 1 .. m : k \in 1 .. m - b \/ k > m - b
      BY <1>7
    <3> QED
      BY <1>4, <1>6, <1>8, <2>1, <3>1
  <2>3. \A k \in 1 .. Len(open') : IF k \in 1 .. Len(open) THEN open'[k].policy = open[k].policy
                                   ELSE open'[k].policy # st[i].policy
    BY <1>4, <1>8, <1>10
  <2>4. Iterating(st[i], open')
    BY <1>3, <1>8, <2>1, <2>2, <2>3, SpansOther
  <2> QED
    BY <2>1, <2>4
<1>12. LoopsInv(loops', open')
  <2>1. \A i, j \in 1 .. L - 1 : loops'[i].policy = loops'[j].policy => i = j
    <3>1. \A i \in 1 .. L - 1 : i \in 1 .. L
      BY <1>2
    <3> QED
      BY <1>2, <1>9, <3>1 DEF L
  <2>2. ASSUME NEW k \in 1 .. m - b, open'[k].policy # NoLoop
        PROVE  ~open'[k].isElse /\ \E i \in 1 .. L - 1 : loops'[i].policy = open'[k].policy
    <3>1. open'[k] = open[k] /\ k \in 1 .. m /\ open[k].policy # p
      BY <1>8, <1>10
    <3>2. ~open[k].isElse /\ \E i \in 1 .. L : st[i].policy = open[k].policy
      BY <1>2, <1>4, <2>2, <3>1 DEF L
    <3>3. PICK i \in 1 .. L : st[i].policy = open[k].policy
      BY <3>2
    <3>4. i # L
      BY <1>2, <3>1, <3>3 DEF L
    <3>5. i \in 1 .. L - 1
      BY <1>5, <3>4
    <3> QED
      BY <1>9, <3>1, <3>2, <3>3, <3>5
  <2> QED
    BY <1>8, <1>9, <1>11, <2>1, <2>2 DEF LoopsInv
<1>13. PICK arms : ArmsMatch(slice, arms, open)
  BY DEF IInv
<1> DEFINE brms == SubSeq(arms, 1, m - b)
<1>14. /\ arms \in ArmSeq /\ OnArms(slice, arms) /\ Len(arms) = m
       /\ \A k \in 1 .. m : arms[k].side = IF open[k].isElse THEN "else" ELSE "then"
  BY <1>4, <1>13 DEF ArmsMatch
<1>15. brms \in ArmSeq /\ Len(brms) = m - b /\ \A k \in 1 .. m - b : brms[k] = arms[k]
  BY <1>7, <1>14, PrefixFacts DEF ArmSeq
<1>16. slice' \in SliceOf(SharedEvent) /\ SliceInv(slice') /\ OnArms(slice', brms)
  <2>1. b \in 0 .. m
    BY <1>6
  <2>2. /\ EndBranches(slice, b) \in SliceOf(SharedEvent)
        /\ SliceInv(EndBranches(slice, b))
        /\ OnArms(EndBranches(slice, b), SubSeq(arms, 1, m - b))
    BY <1>3, <1>14, <2>1, EndBranchesFacts
  <2> QED
    BY <1>1, <2>2
<1> HIDE DEF brms
<1>17. ArmsMatch(slice', brms, open')
  BY <1>8, <1>10, <1>14, <1>15, <1>16 DEF ArmsMatch
<1> QED
  BY <1>1, <1>3, <1>8, <1>9, <1>12, <1>16, <1>17 DEF IInv

(* The innermost open branch of the program.                               *)
LEMMA OwnBranchFacts ==
  ASSUME IInv, InOwnBranch
  PROVE  /\ Len(open) \in Nat \ {0} /\ Last(open) = open[Len(open)]
         /\ open[Len(open)] \in FrameType /\ open[Len(open)].policy = NoLoop
         /\ ArmBlock(slice) \in 2 .. Len(slice.blocks)
<1>1. open \in Seq(FrameType) /\ open # <<>> /\ Last(open).policy = NoLoop
  BY DEF IInv, InOwnBranch
<1>2. Len(open) \in Nat \ {0}
  BY <1>1, EmptyFacts
<1>3. Last(open) = open[Len(open)]
  BY DEF Last
<1>4. Len(open) \in 1 .. Len(open)
  BY <1>2
<1>5. PICK arms : ArmsMatch(slice, arms, open)
  BY DEF IInv
<1>6. Len(open) \in 1 .. Len(arms) /\ Len(open) = Len(arms) /\ OnArms(slice, arms)
  BY <1>4, <1>5 DEF ArmsMatch
<1>7. ArmBlock(slice) \in 2 .. Len(slice.blocks)
  BY <1>6 DEF OnArms, OnArm
<1> QED
  BY <1>1, <1>2, <1>3, <1>4, <1>7, ElementInSet

(* Slice::begin_else preserves the invariant.                              *)
LEMMA ElseIInv ==
  ASSUME IInv, Else
  PROVE  IInv'
<1>1. /\ InOwnBranch /\ ~Last(open).isElse /\ slice' = BeginElse(slice)
      /\ open' = [open EXCEPT ![Len(open)].isElse = TRUE]
      /\ loops' = loops /\ events' = events
  BY DEF Else
<1>2. PICK m \in Nat : m = Len(open)
  BY DEF IInv
<1> DEFINE new == [open[m] EXCEPT !.isElse = TRUE]
<1>3. /\ m \in Nat \ {0} /\ Last(open) = open[m] /\ open[m] \in FrameType
      /\ open[m].policy = NoLoop /\ ArmBlock(slice) \in 2 .. Len(slice.blocks)
  BY <1>1, <1>2, OwnBranchFacts
<1>4. /\ slice \in SliceOf(SharedEvent) /\ SliceInv(slice) /\ loops \in Seq(LoopType)
      /\ open \in Seq(FrameType) /\ events \in 0 .. MaxEvents /\ LoopsInv(loops, open)
  BY DEF IInv
<1>5. slice' \in SliceOf(SharedEvent) /\ ElseOpened(slice, slice')
  BY <1>1, <1>3, <1>4, BeginElseFacts
<1>6. SliceInv(slice')
  BY <1>5 DEF ElseOpened
<1>7. new \in FrameType /\ new.policy = NoLoop /\ new.isElse = TRUE
  BY <1>3 DEF FrameType
<1>8. open' = [open EXCEPT ![m] = new]
  BY <1>1, <1>2
<1> HIDE DEF new
<1>9. /\ open' \in Seq(FrameType) /\ Len(open') = m /\ open'[m] = new
      /\ \A k \in 1 .. m - 1 : open'[k] = open[k]
  <2>1. m \in DOMAIN open /\ DOMAIN open = 1 .. m
    BY <1>2, <1>3, <1>4
  <2>2. \A k \in 1 .. m - 1 : k \in DOMAIN open \ {m}
    BY <2>1
  <2> QED
    BY <1>2, <1>4, <1>7, <1>8, <2>1, <2>2, ExceptInSeq
<1>10. \A k \in 1 .. m : k = m \/ k \in 1 .. m - 1
  OBVIOUS
<1>11. \A k \in 1 .. m : open'[k].policy = open[k].policy
  BY <1>3, <1>7, <1>9, <1>10
<1>12. LoopsInv(loops', open')
  <2>1. ASSUME NEW i \in 1 .. Len(loops) PROVE Iterating(loops[i], open')
    <3>1. loops[i] \in LoopType /\ Iterating(loops[i], open)
      BY <1>4, StackFacts DEF LoopsInv
    <3>2. /\ \A k \in 1 .. Len(open) : k \in 1 .. Len(open') \/ open[k].policy # loops[i].policy
          /\ \A k \in 1 .. Len(open') : IF k \in 1 .. Len(open) THEN open'[k].policy = open[k].policy
                                        ELSE open'[k].policy # loops[i].policy
      BY <1>2, <1>9, <1>11
    <3> QED
      BY <1>4, <1>9, <3>1, <3>2, SpansOther
  <2>2. ASSUME NEW k \in 1 .. m, open'[k].policy # NoLoop
        PROVE  ~open'[k].isElse /\ \E i \in 1 .. Len(loops) : loops[i].policy = open'[k].policy
    <3>1. k # m /\ k \in 1 .. m - 1
      BY <1>7, <1>9, <1>10, <2>2
    <3> QED
      BY <1>2, <1>4, <1>9, <1>11, <2>2, <3>1 DEF LoopsInv
  <2>3. \A i, j \in 1 .. Len(loops) : loops[i].policy = loops[j].policy => i = j
    BY <1>4 DEF LoopsInv
  <2> QED
    BY <1>1, <1>9, <2>1, <2>2, <2>3 DEF LoopsInv
<1>13. PICK arms : ArmsMatch(slice, arms, open)
  BY DEF IInv
<1> DEFINE last == [branch |-> arms[m].branch, side |-> "else"]
           brms == [arms EXCEPT ![m] = last]
<1>14. /\ arms \in ArmSeq /\ OnArms(slice, arms) /\ Len(arms) = m
       /\ \A k \in 1 .. m : arms[k].side = IF open[k].isElse THEN "else" ELSE "then"
  BY <1>2, <1>13 DEF ArmsMatch
<1>15. m \in 1 .. m /\ arms[m].side = "then"
  BY <1>1, <1>3, <1>14
<1>16. /\ brms \in ArmSeq /\ Len(brms) = m /\ brms[m] = last
       /\ \A k \in 1 .. m - 1 : brms[k] = arms[k]
  <2>1. m \in DOMAIN arms /\ DOMAIN arms = 1 .. m
    BY <1>14, <1>15 DEF ArmSeq
  <2>2. arms[m] \in [branch : Nat, side : {"then", "else"}]
    BY <1>14, <2>1, ElementInSet DEF ArmSeq
  <2>3. last \in [branch : Nat, side : {"then", "else"}]
    BY <2>2
  <2>4. \A k \in 1 .. m - 1 : k \in DOMAIN arms \ {m}
    BY <2>1
  <2> HIDE DEF last
  <2> QED
    BY <1>14, <2>1, <2>3, <2>4, ExceptInSeq DEF ArmSeq
<1> HIDE DEF brms
<1>17. OnArms(slice', brms)
  BY <1>3, <1>4, <1>5, <1>14, <1>15, <1>16, ElseArms
<1>18. \A k \in 1 .. m : brms[k].side = IF open'[k].isElse THEN "else" ELSE "then"
  BY <1>7, <1>9, <1>10, <1>14, <1>16
<1>19. ArmsMatch(slice', brms, open')
  BY <1>9, <1>16, <1>17, <1>18 DEF ArmsMatch
<1> QED
  BY <1>1, <1>4, <1>5, <1>6, <1>9, <1>12, <1>19 DEF IInv

(* Slice::end_branch of a branch of the program preserves the invariant.   *)
LEMMA EndIInv ==
  ASSUME IInv, End
  PROVE  IInv'
<1>1. /\ InOwnBranch /\ slice' = EndBranch(slice) /\ open' = Front(open)
      /\ loops' = loops /\ events' = events
  BY DEF End
<1>2. PICK m \in Nat : m = Len(open)
  BY DEF IInv
<1>3. m \in Nat \ {0} /\ open[m].policy = NoLoop /\ ArmBlock(slice) \in 2 .. Len(slice.blocks)
  BY <1>1, <1>2, OwnBranchFacts
<1>4. /\ slice \in SliceOf(SharedEvent) /\ SliceInv(slice) /\ loops \in Seq(LoopType)
      /\ open \in Seq(FrameType) /\ events \in 0 .. MaxEvents /\ LoopsInv(loops, open)
  BY DEF IInv
<1>5. slice' \in SliceOf(SharedEvent) /\ BranchEnded(slice, slice')
  BY <1>1, <1>3, <1>4, EndBranchFacts
<1>6. SliceInv(slice')
  BY <1>5 DEF BranchEnded
<1>7. /\ open' \in Seq(FrameType) /\ Len(open') = m - 1
      /\ \A k \in 1 .. m - 1 : open'[k] = open[k]
  <2>1. open # <<>>
    BY <1>1 DEF InOwnBranch
  <2> QED
    BY <1>1, <1>2, <1>4, <2>1, FrontFacts
<1>8. \A k \in 1 .. m : k = m \/ k \in 1 .. m - 1
  OBVIOUS
<1>9. \A k \in 1 .. m - 1 : k \in 1 .. m
  OBVIOUS
<1>10. LoopsInv(loops', open')
  <2>1. ASSUME NEW i \in 1 .. Len(loops) PROVE Iterating(loops[i], open')
    <3>1. loops[i] \in LoopType /\ loops[i].policy # NoLoop /\ Iterating(loops[i], open)
      BY <1>4, StackFacts DEF LoopsInv
    <3>2. /\ \A k \in 1 .. Len(open) : k \in 1 .. Len(open') \/ open[k].policy # loops[i].policy
          /\ \A k \in 1 .. Len(open') : IF k \in 1 .. Len(open) THEN open'[k].policy = open[k].policy
                                        ELSE open'[k].policy # loops[i].policy
      BY <1>2, <1>3, <1>7, <1>8, <1>9, <3>1
    <3> QED
      BY <1>4, <1>7, <3>1, <3>2, SpansOther
  <2>2. \A k \in 1 .. m - 1 : open'[k].policy # NoLoop =>
          ~open'[k].isElse /\ \E i \in 1 .. Len(loops) : loops[i].policy = open'[k].policy
    BY <1>2, <1>4, <1>7, <1>9 DEF LoopsInv
  <2>3. \A i, j \in 1 .. Len(loops) : loops[i].policy = loops[j].policy => i = j
    BY <1>4 DEF LoopsInv
  <2> QED
    BY <1>1, <1>7, <2>1, <2>2, <2>3 DEF LoopsInv
<1>11. PICK arms : ArmsMatch(slice, arms, open)
  BY DEF IInv
<1> DEFINE brms == SubSeq(arms, 1, m - 1)
<1>12. /\ arms \in ArmSeq /\ OnArms(slice, arms) /\ Len(arms) = m
       /\ \A k \in 1 .. m : arms[k].side = IF open[k].isElse THEN "else" ELSE "then"
  BY <1>2, <1>11 DEF ArmsMatch
<1>13. brms \in ArmSeq /\ Len(brms) = m - 1 /\ \A k \in 1 .. m - 1 : brms[k] = arms[k]
  <2>1. m - 1 \in 0 .. Len(arms)
    BY <1>3, <1>12
  <2> QED
    BY <1>12, <2>1, PrefixFacts DEF ArmSeq
<1> HIDE DEF brms
<1>14. OnArms(slice', brms)
  BY <1>3, <1>4, <1>5, <1>12, <1>13, EndArms
<1>15. ArmsMatch(slice', brms, open')
  BY <1>7, <1>9, <1>12, <1>13, <1>14 DEF ArmsMatch
<1> QED
  BY <1>1, <1>4, <1>5, <1>6, <1>7, <1>10, <1>15 DEF IInv

-----------------------------------------------------------------------------
(* Every step preserves the invariant. *)
LEMMA NextIInv ==
  ASSUME IInv, [Next]_loopvars
  PROVE  IInv'
<1>1. CASE Record
  BY <1>1, RecordIInv
<1>2. ASSUME NEW sym \in Condition, NEW n \in 0 .. MaxReads,
             LET lit == [sym |-> sym, pos |-> TRUE]
             IN  Branch(lit, n) \/ \E p \in Policy : Unwind(p, lit, n)
      PROVE  IInv'
  <2> DEFINE lit == [sym |-> sym, pos |-> TRUE]
  <2>1. lit \in Literal
    BY DEF Literal
  <2>2. Branch(lit, n) \/ \E p \in Policy : Unwind(p, lit, n)
    BY <1>2
  <2> HIDE DEF lit
  <2> QED
    BY <2>1, <2>2, BranchIInv, UnwindIInv
<1>3. CASE Else
  BY <1>3, ElseIInv
<1>4. CASE End
  BY <1>4, EndIInv
<1>5. ASSUME NEW p \in Policy, Unwound(p) PROVE IInv'
  BY <1>5, UnwoundIInv
<1>6. CASE UNCHANGED loopvars
  BY <1>6 DEF loopvars, IInv, ArmsMatch
<1> QED
  BY <1>1, <1>2, <1>3, <1>4, <1>5, <1>6 DEF Next

(* The invariant holds in every recording that unwinds loops.              *)
THEOREM UnwindingInductive == Spec => []IInv
<1>1. IInv /\ [Next]_loopvars => IInv'
  BY NextIInv
<1> QED
  BY InitIInv, <1>1, PTL DEF Spec

(* Type correctness: the current block of the slice exists, and the loop   *)
(* stack holds loops whose counters are no negative numbers.               *)
THEOREM LoopTypesCorrect == Spec => []TypeOK
<1>1. IInv => TypeOK
  <2> SUFFICES ASSUME IInv PROVE TypeOK
    OBVIOUS
  <2>1. slice \in SliceOf(SharedEvent) /\ SliceInv(slice)
    BY DEF IInv
  <2>2. slice.cur \in DOMAIN slice.blocks /\ DOMAIN slice = {"blocks", "cur"}
    <3>1. slice.cur \in 2 .. Len(slice.blocks) /\ slice.blocks \in Seq(BlockOf(SharedEvent))
      BY <2>1, ArmBlockFacts
    <3>2. DOMAIN slice = {"blocks", "cur"}
      BY <2>1 DEF SliceOf
    <3> QED
      BY <3>1, <3>2
  <2> QED
    BY <2>2 DEF IInv, TypeOK, FrameType, LoopType
<1> QED
  BY <1>1, UnwindingInductive, PTL

(* No assertion of begin_then, begin_else and end_branch fails, also not   *)
(* between the end_branch calls of an unwind_loop that leaves its loop.    *)
THEOREM LoopAssertionsHold == Spec => []LoopAssertsHold
<1>1. ASSUME IInv PROVE LoopAssertsHold
  <2>1. slice \in SliceOf(SharedEvent) /\ SliceInv(slice)
    BY <1>1 DEF IInv
  <2>2. BeginThenAsserts(slice)
    BY <2>1, OpenAsserts
  <2>3. ASSUME InOwnBranch PROVE BeginElseAsserts(slice) /\ EndBranchAsserts(slice)
    BY <1>1, <2>1, <2>3, OwnBranchFacts, CloseAsserts
  <2>4. ASSUME NEW p \in Policy, IsTop(p), AtLoopHead(p), Last(loops).counter = 0,
               NEW k \in 0 .. UnwindingBound[p] - 1
        PROVE  EndBranchAsserts(EndBranches(slice, k))
    <3> DEFINE b == UnwindingBound[p]
               s == EndBranches(slice, k)
    <3>1. b \in Nat \ {0} /\ Pushed(p) = loops
      BY <2>4, PolicyAssumption DEF Pushed
    <3>2. PICK m \in Nat : m = Len(open)
      BY <1>1 DEF IInv
    <3>3. PICK arms : ArmsMatch(slice, arms, open)
      BY <1>1 DEF IInv
    <3>4. arms \in ArmSeq /\ OnArms(slice, arms) /\ Len(arms) = m
      BY <3>2, <3>3 DEF ArmsMatch
    <3>5. b <= m
      <4> DEFINE l == loops[Len(loops)]
      <4>1. /\ Len(loops) \in Nat \ {0} /\ Last(loops) = l /\ l.policy = p
            /\ Iterating(l, open) /\ m # 0 /\ open[m].policy = p
        <5>1. /\ Len(Pushed(p)) \in Nat \ {0}
              /\ Last(Pushed(p)) = Pushed(p)[Len(Pushed(p))]
              /\ Pushed(p)[Len(Pushed(p))].policy = p
              /\ \/ /\ Last(Pushed(p)).counter = UnwindingBound[p]
                    /\ \A i \in 1 .. Len(open) : open[i].policy # p
                 \/ /\ Iterating(Last(Pushed(p)), open)
                    /\ Len(open) # 0 /\ open[Len(open)].policy = p
          BY <1>1, <2>4, PushedFacts
        <5> QED
          BY <2>4, <3>1, <3>2, <5>1
      <4>2. l \in LoopType /\ l.counter = 0 /\ open[m].policy = l.policy /\ open \in Seq(FrameType)
        <5>1. Len(loops) \in 1 .. Len(loops) /\ loops \in Seq(LoopType)
          BY <1>1, <4>1 DEF IInv
        <5> QED
          BY <1>1, <2>4, <4>1, <5>1, StackFacts DEF IInv
      <4> HIDE DEF l
      <4>3. UnwindingBound[l.policy] \in 1 .. m
        BY <3>2, <4>1, <4>2, SpansAll
      <4> QED
        BY <4>1, <4>3
    <3> HIDE DEF b
    <3>6. k \in 0 .. m /\ m - k \in 1 .. m /\ m - k \in 0 .. Len(arms)
      BY <3>1, <3>4, <3>5 DEF b
    <3> DEFINE brms == SubSeq(arms, 1, m - k)
    <3>7. s \in SliceOf(SharedEvent) /\ SliceInv(s) /\ OnArms(s, brms)
      BY <2>1, <3>4, <3>6, EndBranchesFacts
    <3>8. Len(brms) = m - k
      BY <3>4, <3>6, PrefixFacts DEF ArmSeq
    <3> HIDE DEF brms, s
    <3>9. ArmBlock(s) \in 2 .. Len(s.blocks)
      <4>1. m - k \in 1 .. Len(brms) /\ m - k = Len(brms)
        BY <3>6, <3>8
      <4> QED
        BY <3>7, <4>1 DEF OnArms, OnArm
    <3>10. EndBranchAsserts(s)
      BY <3>7, <3>9, CloseAsserts
    <3> QED
      BY <3>10 DEF s
  <2> QED
    BY <2>2, <2>3, <2>4 DEF LoopAssertsHold
<1>2. IInv => LoopAssertsHold
  BY <1>1
<1> QED
  BY <1>2, UnwindingInductive, PTL

(* A loop on the stack has begun as many iterations as it has not left, so *)
(* no loop exceeds its bound, and a loop that is not on the stack has no   *)
(* iteration open.                                                         *)
THEOREM IterationsAreCounted == Spec => []IterationsAccountedFor
<1>1. ASSUME IInv, NEW p \in Policy
      PROVE  LET left == { loops[i].counter : i \in { j \in DOMAIN loops : loops[j].policy = p } }
                 iterations == Cardinality({ i \in DOMAIN open : open[i].policy = p })
             IN  IF left = {} THEN iterations = 0
                 ELSE left = {UnwindingBound[p] - iterations}
  <2> DEFINE of == { j \in DOMAIN loops : loops[j].policy = p }
             left == { loops[i].counter : i \in of }
             frames == { i \in DOMAIN open : open[i].policy = p }
             b == UnwindingBound[p]
  <2>1. /\ loops \in Seq(LoopType) /\ open \in Seq(FrameType) /\ LoopsInv(loops, open)
        /\ p # NoLoop /\ b \in Nat /\ DOMAIN loops = 1 .. Len(loops) /\ DOMAIN open = 1 .. Len(open)
    BY <1>1, PolicyAssumption DEF IInv
  <2> HIDE DEF b
  <2>2. CASE of = {}
    <3>1. left = {}
      BY <2>2
    <3>2. ASSUME NEW k \in frames PROVE FALSE
      <4>1. PICK i \in 1 .. Len(loops) : loops[i].policy = open[k].policy
        BY <2>1 DEF LoopsInv
      <4>2. i \in of
        BY <2>1, <4>1
      <4> QED
        BY <2>2, <4>2
    <3>3. frames = {}
      BY <3>2
    <3> HIDE DEF left, frames
    <3>4. Cardinality(frames) = 0
      BY <3>3, FS_EmptySet
    <3> QED
      BY <3>1, <3>4 DEF left, frames
  <2>3. CASE of # {}
    <3>1. PICK i \in of : TRUE
      BY <2>3
    <3> DEFINE l == loops[i]
               it == Begun(l)
    <3>2. i \in 1 .. Len(loops) /\ l.policy = p /\ l \in LoopType /\ l.counter \in Nat
      BY <2>1, StackFacts
    <3>3. \A j \in of : j = i
      BY <2>1, <3>2 DEF LoopsInv
    <3>4. left = {l.counter}
      BY <3>1, <3>3
    <3>5. Iterating(l, open)
      BY <2>1, <3>2 DEF LoopsInv
    <3> HIDE DEF l
    <3>6. PICK f : Spans(l, open, f)
      BY <3>5 DEF Iterating
    <3>7. it = b - l.counter /\ it \in Nat \ {0} /\ f \in Nat /\ f + it <= Len(open)
      BY <2>1, <3>2, <3>5, <3>6 DEF Iterating, Spans, Begun, b
    <3>8. \A k \in 1 .. Len(open) : open[k].policy = p <=> k \in f + 1 .. f + it
      BY <3>2, <3>6 DEF Spans
    <3> HIDE DEF it
    <3>9. frames = f + 1 .. f + it
      <4>1. \A k \in f + 1 .. f + it : k \in 1 .. Len(open)
        BY <2>1, <3>7
      <4> QED
        BY <2>1, <3>8, <4>1
    <3> HIDE DEF frames, left
    <3>10. Cardinality(frames) = it
      <4>1. f + 1 \in Int /\ f + it \in Int /\ ~(f + 1 > f + it) /\ (f + it) - (f + 1) + 1 = it
        BY <3>7
      <4>2. Cardinality(f + 1 .. f + it)
              = IF f + 1 > f + it THEN 0 ELSE (f + it) - (f + 1) + 1
        BY <4>1, FS_Interval
      <4> QED
        BY <3>9, <4>1, <4>2
    <3>11. b - Cardinality(frames) = l.counter
      BY <2>1, <3>2, <3>7, <3>10
    <3>12. left # {} /\ left = {b - Cardinality(frames)}
      BY <3>4, <3>11
    <3> QED
      BY <3>12 DEF left, frames, b
  <2> QED
    BY <2>2, <2>3
<1>2. IInv => IterationsAccountedFor
  BY <1>1 DEF IterationsAccountedFor
<1> QED
  BY <1>2, UnwindingInductive, PTL

(* The conditional blocks around the current one are as many as there are  *)
(* branches and iterations open: iterations nest, and leaving a loop leaves*)
(* all of its iterations and nothing else.                                 *)
THEOREM NestingIsAsOpened == Spec => []NestingIsOpen
<1>1. ASSUME IInv PROVE NestingIsOpen
  <2> DEFINE around == { b \in BlocksAround(slice)[slice.cur] : IsConditional(slice.blocks[b]) }
  <2>1. slice \in SliceOf(SharedEvent) /\ SliceInv(slice)
    BY <1>1 DEF IInv
  <2>2. PICK m \in Nat : m = Len(open)
    BY <1>1 DEF IInv
  <2>3. PICK arms : ArmsMatch(slice, arms, open)
    BY <1>1 DEF IInv
  <2>4. arms \in ArmSeq /\ OnArms(slice, arms) /\ Len(arms) = m
    BY <2>2, <2>3 DEF ArmsMatch
  <2>5. around = ArmsUpTo(slice, arms, m)
    <3>1. /\ ArmsUpTo(slice, arms, m) \subseteq BlocksAround(slice)[slice.cur]
          /\ \A b \in ArmsUpTo(slice, arms, m) : IsConditional(slice.blocks[b])
          /\ \A b \in BlocksAround(slice)[slice.cur] :
               IsConditional(slice.blocks[b]) => b \in ArmsUpTo(slice, arms, m)
      BY <2>1, <2>4, AroundCurrent
    <3> QED
      BY <3>1
  <2> DEFINE arm == [k \in 1 .. m |-> ArmOf(slice, arms[k])]
  <2>6. ASSUME NEW j \in 1 .. m, NEW k \in 1 .. m, j < k
        PROVE  ArmOf(slice, arms[j]) # ArmOf(slice, arms[k])
    <3>1. Len(slice.blocks) \in Nat /\ j \in 1 .. k - 1 /\ k \in 1 .. Len(arms) /\ j \in 1 .. Len(arms)
      BY <2>1, <2>4, <2>6, ArmBlockFacts
    <3>2. ArmOf(slice, arms[j]) < ArmOf(slice, arms[k])
      BY <2>1, <2>4, <3>1, ArmsAscend
    <3>3. ArmOf(slice, arms[j]) \in Nat
      BY <2>4, <3>1 DEF OnArms, OnArm
    <3> QED
      BY <3>2, <3>3
  <2>7. \A j, k \in 1 .. m : arm[j] = arm[k] => j = k
    <3>1. \A j, k \in 1 .. m : j < k \/ k < j \/ j = k
      OBVIOUS
    <3> QED
      BY <2>6, <3>1
  <2>8. ArmsUpTo(slice, arms, m) = { arm[k] : k \in 1 .. m }
    BY DEF ArmsUpTo
  <2> HIDE DEF around
  <2>9. arm \in Bijection(1 .. m, around)
    <3>1. arm \in [1 .. m -> around] /\ \A b \in around : \E k \in 1 .. m : arm[k] = b
      <4>1. DOMAIN arm = 1 .. m /\ arm = [k \in 1 .. m |-> arm[k]]
        OBVIOUS
      <4> HIDE DEF arm
      <4> QED
        BY <2>5, <2>8, <4>1
    <3> HIDE DEF arm
    <3> QED
      BY <2>7, <3>1 DEF Bijection, Injection, Surjection, IsInjective
  <2>10. Cardinality(around) = m
    <3>1. ExistsBijection(1 .. m, around)
      BY <2>9 DEF ExistsBijection
    <3> QED
      BY <3>1, FS_CountingElements
  <2> QED
    BY <2>2, <2>10 DEF NestingIsOpen, around
<1>2. IInv => NestingIsOpen
  BY <1>1
<1> QED
  BY <1>2, UnwindingInductive, PTL

-----------------------------------------------------------------------------
(* Every operation keeps the events in the order of their numbers.         *)
LEMMA NextInOrder ==
  IInv /\ InOrder(slice.blocks, events) /\ [Next]_loopvars => InOrder(slice'.blocks, events')
<1> SUFFICES ASSUME IInv, InOrder(slice.blocks, events), [Next]_loopvars
             PROVE  InOrder(slice'.blocks, events')
  OBVIOUS
<1>1. slice \in SliceOf(SharedEvent) /\ SliceInv(slice) /\ events \in Nat
  BY BoundAssumption DEF IInv
<1>2. PICK arms : ArmsMatch(slice, arms, open)
  BY DEF IInv
<1>3. /\ arms \in ArmSeq /\ OnArms(slice, arms) /\ Len(arms) = Len(open)
      /\ \A k \in 1 .. Len(open) : arms[k].side = IF open[k].isElse THEN "else" ELSE "then"
  BY <1>2 DEF ArmsMatch
<1>4. ASSUME NEW n \in Nat
      PROVE  /\ Reads(n) \in Seq(SharedEvent) /\ Len(Reads(n)) = n
             /\ \A i \in 1 .. Len(Reads(n)) : Reads(n)[i].id = events + i
  <2>1. Reads(n) \in Seq(SharedEvent)
    BY ReadsFacts
  <2>2. Reads(n) = [i \in 1 .. n |-> Event(events + i)]
    BY DEF Reads
  <2>3. Len(Reads(n)) = n
    BY <2>2
  <2>4. ASSUME NEW i \in 1 .. n PROVE Reads(n)[i].id = events + i
    <3>1. Reads(n)[i] = Event(events + i)
      BY <2>2
    <3> QED
      BY <3>1 DEF Event
  <2> QED
    BY <2>1, <2>3, <2>4
<1>5. CASE Record
  <2>1. slice' = AppendAll(slice, Reads(1)) /\ events' = events + Len(Reads(1))
    BY <1>4, <1>5 DEF Record
  <2>2. InOrder(AppendAll(slice, Reads(1)).blocks, events + Len(Reads(1)))
    BY <1>1, <1>3, <1>4, AppendAllOrder
  <2> QED
    BY <2>1, <2>2
<1>6. ASSUME NEW lit \in Literal, NEW n \in 0 .. MaxReads, NEW policy, Open(lit, n, policy)
      PROVE  InOrder(slice'.blocks, events')
  <2>1. n \in Nat
    BY BoundAssumption
  <2>2. slice' = BeginThen(slice, lit, Reads(n)) /\ events' = events + Len(Reads(n))
    BY <1>4, <1>6, <2>1 DEF Open
  <2>3. InOrder(BeginThen(slice, lit, Reads(n)).blocks, events + Len(Reads(n)))
    BY <1>1, <1>3, <1>4, <2>1, BeginThenOrder
  <2> QED
    BY <2>2, <2>3
<1>7. CASE Else
  <2>1. InOwnBranch /\ ~Last(open).isElse /\ slice' = BeginElse(slice) /\ events' = events
    BY <1>7 DEF Else
  <2>2. Len(open) \in Nat \ {0} /\ Last(open) = open[Len(open)]
    BY <2>1, OwnBranchFacts
  <2>3. Len(open) \in 1 .. Len(open)
    BY <2>2
  <2>4. arms[Len(open)].side = "then"
    BY <1>3, <2>1, <2>2, <2>3
  <2>5. InOrder(BeginElse(slice).blocks, events)
    BY <1>1, <1>3, <2>2, <2>4, BeginElseOrder
  <2> QED
    BY <2>1, <2>5
<1>8. CASE End
  <2>1. InOwnBranch /\ slice' = EndBranch(slice) /\ events' = events
    BY <1>8 DEF End
  <2>2. ArmBlock(slice) \in 2 .. Len(slice.blocks)
    BY <2>1, OwnBranchFacts
  <2>3. InOrder(EndBranch(slice).blocks, events)
    BY <1>1, <2>2, EndBranchOrder
  <2> QED
    BY <2>1, <2>3
<1>9. ASSUME NEW p \in Policy, Unwound(p) PROVE InOrder(slice'.blocks, events')
  <2>1. slice' = EndBranches(slice, UnwindingBound[p]) /\ events' = events
    BY <1>9 DEF Unwound, EndCalls
  <2>2. UnwindingBound[p] \in 0 .. Len(arms) /\ Len(arms) \in Nat
    <3>1. UnwindingBound[p] \in 1 .. Len(open)
      BY <1>9, LeavingFacts
    <3> QED
      BY <1>3, <3>1 DEF ArmSeq
  <2>3. InOrder(EndBranches(slice, UnwindingBound[p]).blocks, events)
    BY <1>1, <1>3, <2>2, EndBranchesFacts
  <2> QED
    BY <2>1, <2>3
<1>10. ASSUME NEW sym \in Condition PROVE [sym |-> sym, pos |-> TRUE] \in Literal
  BY DEF Literal
<1>11. CASE UNCHANGED loopvars
  BY <1>11 DEF loopvars
<1> QED
  BY <1>5, <1>6, <1>7, <1>8, <1>9, <1>10, <1>11 DEF Next, Branch, Unwind

(* Unwinding changes nothing in the order of the events: the walk over the *)
(* graph meets them as they were recorded, also when one call leaves a     *)
(* loop and closes all its iterations, for all unwinding bounds.           *)
THEOREM UnwindingKeepsOrder == Spec => []UnwoundInOrder
<1>1. Init => InOrder(slice.blocks, events)
  BY EmptyOrder DEF Init
<1>2. IInv /\ InOrder(slice.blocks, events) /\ [Next]_loopvars => InOrder(slice.blocks, events)'
  BY NextInOrder
<1>3. IInv /\ InOrder(slice.blocks, events) => UnwoundInOrder
  <2>1. IInv => events \in Nat
    BY BoundAssumption DEF IInv
  <2> QED
    BY <2>1, InOrderWalks DEF IInv, UnwoundInOrder
<1> QED
  BY <1>1, <1>2, <1>3, UnwindingInductive, PTL DEF Spec
=============================================================================
