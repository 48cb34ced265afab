---------------------------- MODULE LoopUnwinding ----------------------------
(***************************************************************************)
(* Slice::unwind_loop with the stack of loops (classes LoopPolicy, Loop    *)
(* and Slice of slice.h), among the other calls that record a slice.       *)
(*                                                                         *)
(* "open" is the program's control stack, which the code does not keep: a  *)
(* program calls unwind_loop for a loop that is already on the stack only  *)
(* when every branch and loop of its body is closed, and end_branch and    *)
(* begin_else only for its own branches.                                   *)
(***************************************************************************)
EXTENDS SpoEncoding

CONSTANTS
  Policy,           \* the identifiers of loop policies
  UnwindingBound,   \* their bounds, a function
  NoLoop,           \* the policy of a branch that is no loop iteration
  MaxReads,         \* the most reads of a condition
  MaxEvents,        \* bound: events recorded
  MaxDepth,         \* bound: branches and iterations open at a time
  MaxBlocks         \* bound: blocks allocated

(* make_loop_policy rejects a bound of zero at compile time.               *)
ASSUME PolicyAssumption ==
  /\ NoLoop \notin Policy
  /\ UnwindingBound \in [Policy -> Nat \ {0}]

ASSUME BoundAssumption ==
  /\ MaxReads \in Nat
  /\ MaxEvents \in Nat

VARIABLES
  slice,    \* the slice
  loops,    \* m_loop_stack, top last: sequence of [policy, counter]
  events,   \* number of events recorded
  open      \* branches and iterations that are open, outermost first

loopvars == <<slice, loops, events, open>>

Event(id) == [id |-> id, shared |-> TRUE]

Reads(n) == [i \in 1 .. n |-> Event(events + i)]

Frame(policy) == [policy |-> policy, isElse |-> FALSE]

(* All branches of a loop are closed by consecutive calls of end_branch.   *)
EndBranches(s, n) ==
  LET After[k \in 0 .. n] == IF k = 0 THEN s ELSE EndBranch(After[k - 1])
  IN  After[n]

TypeOK ==
  /\ DOMAIN slice = {"blocks", "cur"}
  /\ slice.cur \in DOMAIN slice.blocks
  /\ loops \in Seq([policy : Policy, counter : Nat])
  /\ events \in 0 .. MaxEvents
  /\ open \in Seq([policy : Policy \union {NoLoop}, isElse : BOOLEAN])

Init ==
  /\ slice = EmptySlice
  /\ loops = <<>>
  /\ events = 0
  /\ open = <<>>

Record ==
  /\ events < MaxEvents
  /\ slice' = AppendAll(slice, Reads(1))
  /\ events' = events + 1
  /\ UNCHANGED <<loops, open>>

Open(lit, n, policy) ==
  /\ events + n <= MaxEvents
  /\ Len(open) < MaxDepth
  /\ Len(slice.blocks) < MaxBlocks
  /\ slice' = BeginThen(slice, lit, Reads(n))
  /\ events' = events + n
  /\ open' = Append(open, Frame(policy))

Branch(lit, n) ==
  /\ Open(lit, n, NoLoop)
  /\ UNCHANGED loops

InOwnBranch == open # <<>> /\ Last(open).policy = NoLoop

Else ==
  /\ InOwnBranch
  /\ ~Last(open).isElse
  /\ Len(slice.blocks) < MaxBlocks
  /\ slice' = BeginElse(slice)
  /\ open' = [open EXCEPT ![Len(open)].isElse = TRUE]
  /\ UNCHANGED <<loops, events>>

End ==
  /\ InOwnBranch
  /\ Len(slice.blocks) < MaxBlocks
  /\ slice' = EndBranch(slice)
  /\ open' = Front(open)
  /\ UNCHANGED <<loops, events>>

-----------------------------------------------------------------------------
IsTop(p) == loops # <<>> /\ Last(loops).policy = p

(* The program is about to evaluate the condition of loop p.               *)
AtLoopHead(p) ==
  IF IsTop(p)
    THEN open # <<>> /\ Last(open).policy = p
    ELSE \A i \in DOMAIN loops : loops[i].policy # p

(* The stack after the first if statement of unwind_loop.                  *)
Pushed(p) ==
  IF IsTop(p) THEN loops
  ELSE Append(loops, [policy |-> p, counter |-> UnwindingBound[p]])

(* Mutant of Unwind: the counter is not compared with zero.                *)
UnwindForever(p, lit, n) ==
  /\ AtLoopHead(p)
  /\ loops' = [Pushed(p) EXCEPT ![Len(Pushed(p))].counter = @ - 1]
  /\ Open(lit, n, p)

(* unwind_loop returns true: one more iteration is a nested branch.        *)
Unwind(p, lit, n) ==
  /\ AtLoopHead(p)
  /\ Last(Pushed(p)).counter > 0
  /\ loops' = [Pushed(p) EXCEPT ![Len(Pushed(p))].counter = @ - 1]
  /\ Open(lit, n, p)

(* Mutants of EndCalls: one call too many, and one call only.              *)
OneEndCallMore(p) == UnwindingBound[p] + 1
OneEndCall(p)     == 1

(* How often unwind_loop calls end_branch when it leaves loop p.           *)
EndCalls(p) == UnwindingBound[p]

(* Mutant of Popped: the loop stays on the stack.                          *)
Unpopped(stack) == stack

(* What is left of the loop stack once its top loop is unwound.            *)
Popped(stack) == Front(stack)

(* unwind_loop returns false: every unwound iteration is closed.           *)
Unwound(p) ==
  /\ AtLoopHead(p)
  /\ Last(Pushed(p)).counter = 0
  /\ Len(slice.blocks) + UnwindingBound[p] <= MaxBlocks
  /\ slice' = EndBranches(slice, EndCalls(p))
  /\ loops' = Popped(Pushed(p))
  /\ open' = SubSeq(open, 1, Len(open) - UnwindingBound[p])
  /\ UNCHANGED events

Next ==
  \/ Record
  \/ \E sym \in Condition, n \in 0 .. MaxReads :
       LET lit == [sym |-> sym, pos |-> TRUE]
       IN  Branch(lit, n) \/ \E p \in Policy : Unwind(p, lit, n)
  \/ Else
  \/ End
  \/ \E p \in Policy : Unwound(p)

Spec == Init /\ [][Next]_loopvars

-----------------------------------------------------------------------------
(* No assertion of begin_then, begin_else or end_branch fails, also not in *)
(* the middle of the end_branch calls that leave a loop.                   *)
LoopAssertsHold ==
  /\ BeginThenAsserts(slice)
  /\ InOwnBranch => BeginElseAsserts(slice) /\ EndBranchAsserts(slice)
  /\ \A p \in Policy : IsTop(p) /\ AtLoopHead(p) /\ Last(loops).counter = 0 =>
       \A k \in 0 .. UnwindingBound[p] - 1 : EndBranchAsserts(EndBranches(slice, k))

(* Unwinding is bounded, and the loop stack accounts for every iteration:  *)
(* a loop that still has c iterations to go has its other iterations open, *)
(* and a loop that has none on the stack has none open.                    *)
IterationsAccountedFor ==
  \A p \in Policy :
    LET left == { loops[i].counter : i \in { j \in DOMAIN loops : loops[j].policy = p } }
        iterations == Cardinality({ i \in DOMAIN open : open[i].policy = p })
    IN  IF left = {} THEN iterations = 0
        ELSE left = {UnwindingBound[p] - iterations}

(* Conditional blocks around the current one: iteration k of a loop lies   *)
(* under the conditions of all k iterations, and leaving the loop leaves   *)
(* exactly those.                                                          *)
NestingIsOpen ==
  Cardinality({ b \in BlocksAround(slice)[slice.cur] : IsConditional(slice.blocks[b]) })
    = Len(open)

(* Unwound loops keep the recording order that the encoding walks.         *)
UnwoundInOrder == WalksInOrder(slice, events)
=============================================================================
