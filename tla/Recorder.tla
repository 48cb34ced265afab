------------------------------ MODULE Recorder ------------------------------
(***************************************************************************)
(* One symbolic thread recording a structured program: the path condition  *)
(* that class Thread keeps (thread.h, thread.cpp) together with the slice  *)
(* that class Threads keeps for the thread.                                *)
(*                                                                         *)
(* "open" is the program's own control stack, which the code does not      *)
(* keep.  It restricts the calls to what slice.h asks of its callers:      *)
(* begin_else and end_branch belong to an open branch, begin_else at most  *)
(* once, end_branch exactly once.                                          *)
(*                                                                         *)
(* The events are those that Thread::instr() makes and the reads of shared *)
(* variables in its instruction: they carry the path condition.  The write *)
(* of a declaration (DeclVar) carries none, and a read of a local variable *)
(* is the event of an earlier write; module Variables is about those.      *)
(***************************************************************************)
EXTENDS Slice

CONSTANTS
  MaxReads,    \* the most read events of one instruction
  MaxEvents,   \* bound: events recorded
  MaxDepth,    \* bound: branches open at a time
  MaxBlocks    \* bound: blocks allocated

ASSUME BoundAssumption ==
  /\ MaxReads \in Nat
  /\ MaxEvents \in Nat
  /\ MaxDepth \in Nat
  /\ MaxBlocks \in Nat

VARIABLES
  slice,        \* the thread's entry in Threads::m_slice_map
  conditions,   \* m_condition_ptrs, front first; its length is
                \* m_condition_ptrs_size
  cache,        \* m_path_condition_ptr_cache, top last
  events,       \* number of events recorded
  open          \* the branches the program is in, outermost first

vars == <<slice, conditions, cache, events, open>>

-----------------------------------------------------------------------------
(* Thread's path condition.  A conjunction is the sequence of its          *)
(* operands; "true" has none.                                              *)

PathConditionAsserts == Len(conditions) > 1 => Len(cache) = Len(conditions) - 1

PathCondition ==
  CASE Len(conditions) = 0 -> <<>>
    [] Len(conditions) = 1 -> <<Head(conditions)>>
    [] OTHER               -> Last(cache)

(* Mutant of RegisteredCache: cache the conjunction without the new one.   *)
StaleCache(lit, cs, ch) == IF cs # <<>> THEN Append(ch, cs) ELSE ch

(* Thread::register_condition: what m_condition_ptrs cs and the cache ch   *)
(* become.                                                                 *)
RegisteredCache(lit, cs, ch) ==
  IF cs # <<>> THEN Append(ch, <<lit>> \o cs) ELSE ch

(* Mutant of UnregisteredCache: the cache is not popped.                   *)
UnpoppedCache == cache

(* Thread::unregister_condition. *)
UnregisteredCache == IF cache # <<>> THEN Front(cache) ELSE cache

UnregisterAsserts ==
  /\ conditions # <<>>
  /\ cache # <<>> => Len(conditions) - 1 = Len(cache)

-----------------------------------------------------------------------------
(* An event is guarded by the path condition under which it was made.  It  *)
(* is shared if its zone is not bottom.                                    *)
Event(id, shared) == [id |-> id, shared |-> shared, guard |-> PathCondition]

(* The shared reads of an instruction, as append_all gets them from        *)
(* filter, which pushes the right operand's reads in front of the list     *)
(* before the left's: from left to right.  They are numbered here in that  *)
(* order.  event_id() numbers them as the operands are constructed, in an  *)
(* order that C++ leaves open, and Slice and SpoEncoding compare no        *)
(* identifiers.  Hence nothing here is said of how the reads of one        *)
(* instruction are ordered.                                                *)
Reads(n) == [i \in 1 .. n |-> Event(events + i, TRUE)]

EventType == [id : Nat, shared : BOOLEAN, guard : Seq(Literal)]

BlockType == [outer : Nat, cond : Literal \union {NoCond}, body : Seq(EventType),
              inner : Seq(Nat), els : Nat]

TypeOK ==
  /\ slice \in [blocks : Seq(BlockType), cur : Nat]
  /\ conditions \in Seq(Literal)
  /\ cache \in Seq(Seq(Literal))
  /\ events \in Nat
  /\ open \in Seq([branch : Nat, side : {"then", "else"}])

Init ==
  /\ slice = EmptySlice
  /\ conditions = <<>>
  /\ cache = <<>>
  /\ events = 0
  /\ open = <<>>

(* Thread::instr records the reads that determine a value, then its write. *)
Instr(n, shared) ==
  /\ events + n + 1 <= MaxEvents
  /\ slice' = AppendAll(AppendAll(slice, Reads(n)),
                        << Event(events + n + 1, shared) >>)
  /\ events' = events + n + 1
  /\ UNCHANGED <<conditions, cache, open>>

(* Thread::begin_then, on a condition with n shared reads. *)
ThreadBeginThen(lit, n) ==
  /\ events + n <= MaxEvents
  /\ Len(open) < MaxDepth
  /\ Len(slice.blocks) < MaxBlocks
  /\ conditions' = <<lit>> \o conditions
  /\ cache' = RegisteredCache(lit, conditions, cache)
  /\ slice' = BeginThen(slice, lit, Reads(n))
  /\ events' = events + n
  /\ open' = Append(open, [branch |-> slice'.cur, side |-> "then"])

(* Mutant of ThreadBeginElse: the condition is read from the current block.*)
ThreadBeginElseOfBlock ==
  /\ open # <<>>
  /\ Last(open).side = "then"
  /\ Len(slice.blocks) < MaxBlocks
  /\ conditions' = <<Current(slice).cond>> \o Tail(conditions)
  /\ slice' = BeginElse(slice)
  /\ open' = [open EXCEPT ![Len(open)].side = "else"]
  /\ UNCHANGED <<cache, events>>

(* Thread::begin_else. *)
ThreadBeginElse ==
  /\ open # <<>>
  /\ Last(open).side = "then"
  /\ Len(slice.blocks) < MaxBlocks
  /\ LET negated == Negate(Head(conditions))
     IN  /\ conditions' = <<negated>> \o Tail(conditions)
         /\ cache' = RegisteredCache(negated, Tail(conditions), UnregisteredCache)
  /\ slice' = BeginElse(slice)
  /\ open' = [open EXCEPT ![Len(open)].side = "else"]
  /\ UNCHANGED events

(* Thread::end_branch. *)
ThreadEndBranch ==
  /\ open # <<>>
  /\ Len(slice.blocks) < MaxBlocks
  /\ conditions' = Tail(conditions)
  /\ cache' = UnregisteredCache
  /\ slice' = EndBranch(slice)
  /\ open' = Front(open)
  /\ UNCHANGED events

Next ==
  \/ \E n \in 0 .. MaxReads, shared \in BOOLEAN : Instr(n, shared)
  \/ \E sym \in Condition, n \in 0 .. MaxReads :
       ThreadBeginThen([sym |-> sym, pos |-> TRUE], n)
  \/ ThreadBeginElse
  \/ ThreadEndBranch

Spec == Init /\ [][Next]_vars

-----------------------------------------------------------------------------
(* The block of the k-th open branch: the block of its "then" arm names    *)
(* the branch, and points to the block of its "else" arm.                  *)
Arm(k) ==
  IF open[k].side = "then" THEN open[k].branch ELSE slice.blocks[open[k].branch].els

OuterOfArm(k) == IF k = 1 THEN Root ELSE Arm(k - 1)

(* Every assertion of slice.h and thread.cpp holds wherever a program that *)
(* opens and closes its branches as slice.h asks can reach it.             *)
AssertsHold ==
  /\ PathConditionAsserts
  /\ MostOuterAsserts(slice)
  /\ BeginThenAsserts(slice)
  /\ open # <<>> => /\ UnregisterAsserts
                    /\ BeginElseAsserts(slice)
                    /\ EndBranchAsserts(slice)

(* Two structures that no code compares say the same: the blocks of the    *)
(* open arms are nested in one another, what is recorded next goes to the  *)
(* innermost, and the path condition guarding it, cached or not, is the    *)
(* conjunction of the conditions of exactly these blocks, innermost first. *)
PathFollowsArms ==
  /\ \A k \in DOMAIN open : slice.blocks[Arm(k)].outer = OuterOfArm(k)
  /\ OuterOfArm(Len(open) + 1) =
       IF IsConditional(Current(slice)) THEN slice.cur ELSE Current(slice).outer
  /\ PathCondition =
       [i \in 1 .. Len(open) |-> slice.blocks[Arm(Len(open) + 1 - i)].cond]
=============================================================================
