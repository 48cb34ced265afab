----------------------------- MODULE SpoEncoding -----------------------------
(***************************************************************************)
(* Threads::internal_encode_spo (thread.h): the order constraints between  *)
(* the clocks of the shared events of a slice.  A clock is the event's     *)
(* identifier, "epoch", or the join made for the inner block b that has an *)
(* else block; a constraint x < y is the pair <<x, y>>.                    *)
(*                                                                         *)
(* The value constraints of the writes are not modelled here.              *)
(***************************************************************************)
EXTENDS Slice, Clocks

Epoch   == <<"epoch", 0>>
EventClock(e) == <<"event", e.id>>

(* Mutant of JoinClock: one join clock for all branches.                   *)
OneJoinClock(b) == <<"join", 0>>

JoinClock(b) == <<"join", b>>

IsShared(e) == e.shared

Clock == {"epoch", "event", "join"} \X Nat

(* For each block and the clock "earlier" that its events come after: the  *)
(* latest clock of the block, and all constraints between the clocks in it.*)
(* BodyClock[i] is the latest clock after i events of the body, Passed[k]  *)
(* what there is of both after the body and k inner blocks.                *)
EncodeSpo(s) ==
  LET Encode[b \in DOMAIN s.blocks] == [earlier \in Clock |->
        LET body == s.blocks[b].body
            BodyClock[i \in 0 .. Len(body)] ==
              IF i = 0 THEN earlier
              ELSE IF IsShared(body[i]) THEN EventClock(body[i]) ELSE BodyClock[i - 1]
            Pass(acc, i) ==
              LET then == Encode[i][acc.clock]
                  else == Encode[s.blocks[i].els][acc.clock]
              IN  IF s.blocks[i].els = Null
                    THEN [clock |-> then.clock, order |-> acc.order \union then.order]
                    ELSE [clock |-> JoinClock(i),
                          order |-> acc.order \union then.order \union else.order \union
                                    { <<then.clock, JoinClock(i)>>,
                                      <<else.clock, JoinClock(i)>> }]
            Passed[k \in 0 .. Len(s.blocks[b].inner)] ==
              IF k = 0
                THEN [clock |-> BodyClock[Len(body)],
                      order |-> { <<BodyClock[i - 1], EventClock(body[i])>> :
                                    i \in { j \in DOMAIN body : IsShared(body[j]) } }]
                ELSE Pass(Passed[k - 1], s.blocks[b].inner[k])
        IN  Passed[Len(s.blocks[b].inner)]]
  IN  Encode

SpoConstraints(s) == EncodeSpo(s)[Root][Epoch].order

-----------------------------------------------------------------------------
(* What the graph says, read along its pointers.                           *)

(* The events of each block in the order in which a depth-first walk meets *)
(* them: body, inner blocks, and each "then" before its "else".            *)
Walk(s) ==
  LET Events[b \in DOMAIN s.blocks] ==
        LET InnerAndElse(i) ==
              Events[i] \o
              (IF s.blocks[i].els = Null THEN <<>> ELSE Events[s.blocks[i].els])
        IN  s.blocks[b].body \o FlattenSeq([k \in DOMAIN s.blocks[b].inner |->
                                            InnerAndElse(s.blocks[b].inner[k])])
  IN  Events

(* Walking meets the events numbered 1 to n once each, in that order.      *)
WalksInOrder(s, n) ==
  LET walk == Walk(s)[Root]
  IN  Len(walk) = n /\ \A i \in DOMAIN walk : walk[i].id = i

(* The blocks one link further down than those of B.                       *)
Inward(s, B) ==
  UNION { Range(s.blocks[b].inner) \union ({s.blocks[b].els} \ {Null}) : b \in B }

(* The blocks that Threads::encode reaches. *)
Reachable(s) ==
  LET Within[k \in 0 .. Len(s.blocks)] ==
        IF k = 0 THEN {Root}
        ELSE LET near == Within[k - 1] IN near \union Inward(s, near)
  IN  Within[Len(s.blocks)]

(* For each block, the blocks around it and itself, but for the most outer.*)
BlocksAround(s) ==
  LET Around[b \in DOMAIN s.blocks] ==
        IF b = Root THEN {} ELSE {b} \union Around[s.blocks[b].outer]
  IN  Around
=============================================================================
