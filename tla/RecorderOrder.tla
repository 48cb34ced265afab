---------------------------- MODULE RecorderOrder ----------------------------
(***************************************************************************)
(* What the graph recorded by one thread says, read back the way           *)
(* Threads::encode reads it: the order of the events, the condition of     *)
(* each, and the shape of the graph.                                       *)
(***************************************************************************)
EXTENDS Recorder, SpoEncoding

VARIABLES
  arms,     \* the branches around each shared event, read from the graph
  before    \* the order on the shared events if Threads::encode ran now

(* The branches around each block of slice s, outermost first, read from   *)
(* the outer and else pointers: the block of the "then" arm names the      *)
(* branch.                                                                 *)
ArmsOf(s) ==
  LET Arms[b \in DOMAIN s.blocks] ==
        LET around == Arms[s.blocks[b].outer]
            thens  == { t \in DOMAIN s.blocks : s.blocks[t].els = b }
        IN  IF b = Root THEN <<>>
            ELSE IF ~IsConditional(s.blocks[b]) THEN around
            ELSE Append(around, IF thens = {} THEN [branch |-> b, side |-> "then"]
                                ELSE [branch |-> CHOOSE t \in thens : TRUE, side |-> "else"])
  IN  Arms

SharedEvents(s) ==
  LET walk == Walk(s)[Root]
  IN  FlattenSeq([i \in DOMAIN walk |-> IF IsShared(walk[i]) THEN <<walk[i]>> ELSE <<>>])

SharedArms(s) ==
  LET BlockOf(e) ==
        CHOOSE b \in Reachable(s) : e \in Range(s.blocks[b].body)
  IN  [i \in DOMAIN SharedEvents(s) |-> ArmsOf(s)[BlockOf(SharedEvents(s)[i])]]

SharedBefore(s) ==
  LET shared   == SharedEvents(s)
      entailed == Entailed(SpoConstraints(s))
  IN  { c \in (DOMAIN shared) \X (DOMAIN shared) :
          <<EventClock(shared[c[1]]), EventClock(shared[c[2]])>> \in entailed }

OrderInit == Init /\ arms = <<>> /\ before = {}

OrderNext ==
  /\ Next
  /\ arms' = SharedArms(slice')
  /\ before' = SharedBefore(slice')

OrderSpec == OrderInit /\ [][OrderNext]_<<vars, arms, before>>

-----------------------------------------------------------------------------
Blocks == Reachable(slice)

(* The conditions of block b and of the blocks around it. *)
ConditionsAround(b) ==
  { slice.blocks[c].cond : c \in BlocksAround(slice)[b] } \ {NoCond}

(* Encoding walks the graph, recording walks the program: both meet the    *)
(* same events, each exactly once and in the same order.                   *)
WalkIsRecordingOrder == WalksInOrder(slice, events)

(* The path condition an event is guarded by is the conjunction of the     *)
(* conditions of the blocks it lies in: Thread's condition list and cache, *)
(* and the blocks of the slice, never disagree.                            *)
GuardsFollowBlocks ==
  \A b \in Blocks : \A i \in DOMAIN slice.blocks[b].body :
    Range(slice.blocks[b].body[i].guard) = ConditionsAround(b)

(* block.h: "If block B is such that Block::else_block_ptr() is equal to   *)
(* C, then C has as condition the negation of B's condition"; and begin_   *)
(* then, begin_else and end_branch leave no empty unconditional block      *)
(* behind, except as the current one.                                      *)
Shape ==
  \A b \in Blocks \ {Root} :
    LET block == slice.blocks[b]
    IN  /\ block.els # Null =>
             /\ slice.blocks[block.els].cond = Negate(block.cond)
             /\ slice.blocks[block.els].outer = block.outer
        /\ ~IsConditional(block) =>
             /\ block.inner = <<>> /\ block.els = Null
             /\ b # slice.cur => block.body # <<>>

(* The order that the clocks of internal_encode_spo entail on the shared   *)
(* events is the program order, at every point of the recording:           *)
(* OrderSpec implements ProgramOrder.                                      *)
Program == INSTANCE ProgramOrder WITH
             Branch <- 1 .. MaxBlocks, MaxShared <- MaxReads + 1

ImplementsProgramOrder == Program!Spec
=============================================================================
