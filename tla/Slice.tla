------------------------------- MODULE Slice -------------------------------
(***************************************************************************)
(* The series-parallel graph of one thread: class Block (block.h) and      *)
(* class Slice (slice.h) as pure operators on a value.  A slice is a       *)
(* record of the blocks allocated so far, in allocation order, and the     *)
(* current block; a pointer to a block is its index.  A block that the     *)
(* code unlinks stays in "blocks" but no list refers to it any more.       *)
(*                                                                         *)
(* A branch condition is a symbol with a sign: Bools::negate flips the     *)
(* sign.  What an event is made of is the business of the module that      *)
(* records it.                                                             *)
(***************************************************************************)
EXTENDS Naturals, SequencesExt

CONSTANTS
  Condition,  \* the symbols of branch conditions
  NoCond      \* the null condition pointer of an unconditional block

Literal == [sym : Condition, pos : BOOLEAN]

ASSUME NoCondAssumption == NoCond \notin Literal

Negate(lit) == [lit EXCEPT !.pos = ~@]

Null == 0       \* the null block pointer
Root == 1       \* the most outer block of every slice

Block(outer, cond) ==
  [outer |-> outer, cond |-> cond, body |-> <<>>, inner |-> <<>>, els |-> Null]

EmptySlice ==
  [blocks |-> << [Block(Null, NoCond) EXCEPT !.inner = <<2>>],
                 Block(Root, NoCond) >>,
   cur    |-> 2]

Current(s) == s.blocks[s.cur]

IsConditional(block) == block.cond # NoCond

(* The next block pointer that "new Block" returns. *)
New(s) == Len(s.blocks) + 1

PushInner(blocks, b, i) == [blocks EXCEPT ![b].inner = Append(@, i)]

PopInner(blocks, b) == [blocks EXCEPT ![b].inner = Front(@)]

(* Allocate a block inside "outer", link it as the last inner block and    *)
(* make it the current one.                                                *)
Enter(s, outer, cond) ==
  [blocks |-> Append(PushInner(s.blocks, outer, New(s)), Block(outer, cond)),
   cur    |-> New(s)]

(* Slice::append and both forms of Slice::append_all. *)
AppendAll(s, events) == [s EXCEPT !.blocks[s.cur].body = @ \o events]

-----------------------------------------------------------------------------
(* Slice::begin_then.  The reads of the condition are recorded before the  *)
(* current block is inspected.                                             *)
BeginThen(s, lit, reads) ==
  LET t == AppendAll(s, reads)
      c == Current(t)
  IN  CASE IsConditional(c) -> Enter(t, t.cur, lit)
        [] ~IsConditional(c) /\ c.body = <<>> ->
             [t EXCEPT !.blocks[t.cur].cond = lit]
        [] OTHER -> Enter(t, c.outer, lit)

BeginThenAsserts(s) == IsConditional(Current(s)) \/ Current(s).inner = <<>>

-----------------------------------------------------------------------------
(* Mutant of LeaveArm: the empty block after a nested branch stays linked. *)
LeaveArmKeepingBlock(s) ==
  IF IsConditional(Current(s)) THEN s ELSE [s EXCEPT !.cur = Current(s).outer]

(* Slice::begin_else.  LeaveArm is its first half: from an unconditional   *)
(* block after a nested branch back to the block of the "then" arm.        *)
LeaveArm(s) ==
  LET c == Current(s)
  IN  CASE IsConditional(c) -> s
        [] ~IsConditional(c) /\ c.body = <<>> ->
             [blocks |-> PopInner(s.blocks, c.outer), cur |-> c.outer]
        [] OTHER -> [s EXCEPT !.cur = c.outer]

(* Mutant of BeginElse: the "else" block has the condition of "then".      *)
BeginElseSameCondition(s) ==
  LET t    == LeaveArm(s)
      then == Current(t)
  IN  [blocks |-> Append([t.blocks EXCEPT ![t.cur].els = New(t)],
                         Block(then.outer, then.cond)),
       cur    |-> New(t)]

BeginElse(s) ==
  LET t    == LeaveArm(s)
      then == Current(t)
      else == Block(then.outer, Negate(then.cond))
  IN  [blocks |-> Append([t.blocks EXCEPT ![t.cur].els = New(t)], else),
       cur    |-> New(t)]

BeginElseAsserts(s) ==
  /\ IsConditional(Current(s)) \/ Current(s).inner = <<>>
  /\ Current(LeaveArm(s)).outer # Null

-----------------------------------------------------------------------------
(* Mutant of EndBranch: go on in the block around the branch, whose body   *)
(* comes before its inner blocks, instead of in a new inner block.         *)
EndBranchInOuter(s) ==
  [s EXCEPT !.cur = IF IsConditional(Current(s)) THEN Current(s).outer
                    ELSE s.blocks[Current(s).outer].outer]

(* Slice::end_branch. *)
EndBranch(s) ==
  LET c == Current(s)
      t == IF ~IsConditional(c) /\ c.body = <<>>
             THEN [s EXCEPT !.blocks = PopInner(@, c.outer)]
             ELSE s
  IN  Enter(t, IF IsConditional(c) THEN c.outer ELSE s.blocks[c.outer].outer,
            NoCond)

EndBranchAsserts(s) ==
  IsConditional(Current(s)) \/
    /\ Current(s).inner = <<>>
    /\ s.blocks[Current(s).outer].outer # Null

(* Slice::most_outer_block_ptr, which Threads::encode calls on each slice. *)
MostOuterAsserts(s) ==
  /\ s.blocks[Root].body = <<>>
  /\ s.blocks[Root].inner # <<>>
  /\ s.blocks[Root].els = Null
=============================================================================
