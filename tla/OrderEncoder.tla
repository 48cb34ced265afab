---------------------------- MODULE OrderEncoder ----------------------------
(***************************************************************************)
(* Class Z3OrderEncoderC0 (encoder_c0.h): what the solver may choose for   *)
(* the shared events that Threads::encode put in a ZoneRelation.           *)
(*                                                                         *)
(* There are two readings of what it should be.  The comments of the class *)
(* have memory a collection (a "stack") that a write pushes to and a read  *)
(* pops from, and this is what the constraints are about.  The tests have  *)
(* ordinary memory: a read gets the value of the last write, as often as   *)
(* it is made.  Both are stated here.  The models are held against stacks  *)
(* in general; they are those of ordinary memory where each variable is    *)
(* read once, and not otherwise, see SharedVarsAreMemory.                  *)
(*                                                                         *)
(* A model of the encoding gives each condition a truth value, each event  *)
(* a clock, and each read the write it reads from, if any.  Only clocks    *)
(* are compared with clocks, so as many values as there are events are     *)
(* enough.  All zones are atoms, the only ones that variables and          *)
(* synchronisation events have.                                            *)
(*                                                                         *)
(* Threads are recorded one after the other, thread 0 being the main       *)
(* thread before it starts the others; a child that relates no event is    *)
(* not counted.  Branches have no "else", so the clocks of the events of a *)
(* thread form a chain.                                                    *)
(***************************************************************************)
EXTENDS Integers, SequencesExt, FiniteSetsExt

CONSTANTS
  Zone,         \* the atoms
  Condition,    \* the conditions of branches
  NoCond,       \* the null condition pointer of an unconditional event
  NoWrite,      \* rf_clock(read) is no identifier of a write
  MaxThread,    \* bound: the last child thread
  MaxEvents     \* bound: events related

ASSUME EncoderAssumption ==
  /\ NoCond \notin Condition
  /\ NoWrite \notin Nat
  /\ MaxThread \in Nat
  /\ MaxEvents \in Nat

VARIABLE
  relation      \* m_event_ptrs of the ZoneRelation, in recording order: an
                \* event's position is its identifier

Ids == DOMAIN relation
Reads  == { r \in Ids : relation[r].read }
Writes == Ids \ Reads

SameZone(d, e) == relation[d].zone = relation[e].zone

(* A read may be constrained by Threads::expect to read what its own       *)
(* thread wrote, as Mutex::unlock does.                                    *)
Event(thread, zone, read, guard, expect) ==
  [thread |-> thread, zone |-> zone, read |-> read, guard |-> guard, expect |-> expect]

Init == relation = <<>>

(* ZoneRelation::relate. *)
Relate(event) ==
  /\ Len(relation) < MaxEvents
  /\ event.thread - (IF relation = <<>> THEN 0 ELSE Last(relation).thread) \in {0, 1}
  /\ relation' = Append(relation, event)

Next ==
  \E t \in 0 .. MaxThread, z \in Zone, g \in Condition \union {NoCond} :
    \/ Relate(Event(t, z, FALSE, g, FALSE))
    \/ \E expect \in BOOLEAN : Relate(Event(t, z, TRUE, g, expect))

Spec == Init /\ [][Next]_relation

-----------------------------------------------------------------------------
(* event_condition, under the truth values of the conditions in v.         *)
Enabled(e, v) == relation[e].guard = NoCond \/ v[relation[e].guard]

(* The order of internal_encode_spo and of the synchronisation events.     *)
ProgramOrder(d, e) ==
  d < e /\ relation[d].thread \in {0, relation[e].thread}

(* The clocks that satisfy a set of happens_before constraints, given to   *)
(* one event after the other: the clock of one before, or a new one below  *)
(* or above it.  Only the order of clocks matters.                         *)
Clocks(before) ==
  LET Above(c, k) == [d \in DOMAIN c |-> IF c[d] >= k THEN c[d] + 1 ELSE c[d]]
      Extended(c) == { Append(c, k) : k \in Range(c) } \union
                     { Append(Above(c, k), k) : k \in 1 .. Cardinality(Range(c)) + 1 }
      Respects(c) == \A p \in before : {p[1], p[2]} \subseteq DOMAIN c => c[p[1]] < c[p[2]]
      Of[n \in 0 .. Len(relation)] ==
        IF n = 0 THEN {<<>>}
        ELSE { c \in UNION { Extended(b) : b \in Of[n - 1] } : Respects(c) }
  IN  Of[Len(relation)]

(* What internal_encode_spo constrains. *)
Spo == { p \in Ids \X Ids : ProgramOrder(p[1], p[2]) }

(* Threads::expect lets read r, if it happens, have the value of write w.  *)
Expected(w, r, v) ==
  relation[r].expect /\ Enabled(r, v) => relation[w].thread = relation[r].thread

(* Mutant of RfEnc: a pop may read from a push that does not happen.       *)
RfEncAnyWrite(r, v) ==
  { w \in Writes : SameZone(w, r) /\ Expected(w, r, v) }
  \union (IF Enabled(r, v) THEN {} ELSE {NoWrite})

(* rf_enc: what a read may read from.  Every pop that happens is           *)
(* associated with a push, whose value it gets; with it the constraints    *)
(* that Threads::expect adds on the value.                                 *)
RfEnc(r, v) ==
  { w \in Writes : SameZone(w, r) /\ Enabled(w, v) /\ Expected(w, r, v) }
  \union (IF Enabled(r, v) THEN {} ELSE {NoWrite})

(* A choice for every read; a write reads from no write.                   *)
Rfs(v) ==
  LET Of[n \in 0 .. Len(relation)] ==
        IF n = 0 THEN {<<>>}
        ELSE { Append(p[1], p[2]) : p \in Of[n - 1] \X
                 (IF n \in Reads THEN RfEnc(n, v) ELSE {NoWrite}) }
  IN  Of[Len(relation)]

(* rf_enc: the push comes before the pop.                                  *)
RfOrder(rf) == { <<rf[r], r>> : r \in { r \in Reads : rf[r] # NoWrite } }

(* Mutant of StackEnc: a push after the pop counts as one before it.       *)
StackEncAnyPush(clock, rf, v) ==
  \A x, y \in Writes : SameZone(x, y) /\ clock[x] < clock[y] =>
    \A p \in { r \in Reads : rf[r] = x } :
      /\ \A q \in Reads : rf[q] = y => clock[q] < clock[p]
      /\ Enabled(y, v) => \E q \in Reads \ {p} : rf[q] = y

(* Mutant of StackEnc: a push that does not happen must be popped, too.    *)
StackEncEveryPush(clock, rf, v) ==
  \A x, y \in Writes : SameZone(x, y) /\ clock[x] < clock[y] =>
    \A p \in { r \in Reads : rf[r] = x } :
      /\ \A q \in Reads : rf[q] = y => clock[q] < clock[p]
      /\ clock[y] < clock[p] => \E q \in Reads \ {p} : rf[q] = y

(* stack_enc: pushes popped at all are popped in the opposite order, and   *)
(* what was pushed in between is popped before.                            *)
StackEnc(clock, rf, v) ==
  \A x, y \in Writes : SameZone(x, y) /\ clock[x] < clock[y] =>
    \A p \in { r \in Reads : rf[r] = x } :
      /\ \A q \in Reads : rf[q] = y => clock[q] < clock[p]
      /\ clock[y] < clock[p] /\ Enabled(y, v) =>
           \E q \in Reads \ {p} : rf[q] = y

(* ws_enc: total order on pushes. *)
WsEnc(clock) ==
  \A x, y \in Writes : SameZone(x, y) /\ clock[x] = clock[y] => x = y

(* rs_enc: injective read-from. *)
RsEnc(rf) ==
  \A p, q \in Reads : SameZone(p, q) /\ rf[p] = rf[q] /\ rf[p] # NoWrite => p = q

(* The models of encode().                                                 *)
Models(v) ==
  UNION { { [clock |-> clock, rf |-> rf] : clock \in
              { c \in Clocks(Spo \union RfOrder(rf)) : WsEnc(c) /\ StackEnc(c, rf, v) } }
          : rf \in { f \in Rfs(v) : RsEnc(f) } }

(* The events that happen, and what they read in a model under v. *)
EnabledIds(v) == { e \in Ids : Enabled(e, v) }

EnabledReads(v) == { r \in Reads : Enabled(r, v) }

ModelPops(v) == { Restrict(m.rf, EnabledReads(v)) : m \in Models(v) }

-----------------------------------------------------------------------------
(* The first reference: executing events on a stack per zone.  A schedule  *)
(* is a sequence of them in program order.                                 *)
Schedules(events) ==
  { s \in SetToSeqs(events) :
      \A i, j \in DOMAIN s : ProgramOrder(s[i], s[j]) => i < j }

(* Executing event e in a state with the stacks and the pops made so far;  *)
(* a pop from an empty stack, or of an unexpected value, blocks.           *)
Execute(state, e, v) ==
  LET stack == state.stacks[relation[e].zone]
  IN  CASE ~relation[e].read ->
             [state EXCEPT !.stacks[relation[e].zone] = Append(stack, e)]
        [] relation[e].read /\ stack # <<>> /\ Expected(Last(stack), e, v) ->
             [state EXCEPT !.stacks[relation[e].zone] = Front(stack),
                           !.pops = [r \in DOMAIN @ \union {e} |->
                                       IF r = e THEN Last(stack) ELSE @[r]]]
        [] OTHER -> [state EXCEPT !.blocked = TRUE]

(* The comment of the class is "Alex's quartic encoding for collection     *)
(* data types such as stacks etc.".                                        *)
Run(schedule, v) ==
  LET State[i \in 0 .. Len(schedule)] ==
        IF i = 0 THEN [stacks |-> [z \in Zone |-> <<>>], pops |-> <<>>, blocked |-> FALSE]
        ELSE Execute(State[i - 1], schedule[i], v)
  IN  State[Len(schedule)]

(* Of two pushes to one stack that are both popped, the later is popped    *)
(* first: nothing is pushed and popped after an earlier push was popped.   *)
Nested(schedule, v) ==
  LET pops  == Run(schedule, v).pops
      At(e) == CHOOSE i \in DOMAIN schedule : schedule[i] = e
  IN  \A p, q \in DOMAIN pops :
        SameZone(p, q) /\ At(pops[p]) < At(pops[q]) => At(q) < At(p)

Pops(schedules, v) ==
  { run.pops : run \in { r \in { Run(s, v) : s \in schedules } : ~r.blocked } }

Valuations == [Condition -> BOOLEAN]

(* rf_enc lets a pop that does not happen read from a push, too.  It then  *)
(* counts as popping it, and a later pop may get what lies below.          *)
Popping(m) == { r \in Reads : m.rf[r] # NoWrite }

(* Soundness for stacks: whatever a model admits, a stack can do if the    *)
(* pops that read from a push are made, whether or not their condition     *)
(* holds, and no others.  The tests do not have stacks in mind: what they  *)
(* expect differs where a variable is read twice (SharedVarsAreMemory).    *)
ModelsAreStackRuns ==
  \A v \in Valuations : \A m \in Models(v) :
    Restrict(m.rf, Popping(m)) \in Pops(Schedules(EnabledIds(v) \union Popping(m)), v)

(* Completeness for stacks, as far as it goes: the encoding admits what a  *)
(* stack can do that pops in the opposite order of pushing.  This includes *)
(* runs in which a second read gets what was there before the last write,  *)
(* which functional_test.cpp:1273 expects to have no model                 *)
(* (SharedVarsAreMemory).                                                  *)
NestedRunsHaveModels ==
  \A v \in Valuations :
    LET modelPops == ModelPops(v)
    IN  \A pops \in Pops({ s \in Schedules(EnabledIds(v)) : Nested(s, v) }, v) : pops \in modelPops

-----------------------------------------------------------------------------
(* The second reference: ordinary memory.  The i-th event of a schedule,   *)
(* a read, gets what was last written; reading leaves it there.            *)
LastWrite(s, i) ==
  LET before == { j \in 1 .. i - 1 : s[j] \in Writes /\ SameZone(s[j], s[i]) }
  IN  IF before = {} THEN NoWrite ELSE s[Max(before)]

MemoryRuns(v) ==
  { s \in Schedules(EnabledIds(v)) :
      \A i \in DOMAIN s : s[i] \in Reads =>
        LastWrite(s, i) # NoWrite /\ Expected(LastWrite(s, i), s[i], v) }

(* Model m is the run s: its clocks allow the order of s, and its reads    *)
(* read what they get in s.                                                *)
IsRun(m, s) ==
  /\ \A i, j \in DOMAIN s : m.clock[s[i]] < m.clock[s[j]] => i < j
  /\ \A i \in DOMAIN s : s[i] \in Reads => m.rf[s[i]] = LastWrite(s, i)

ModelsAreMemory ==
  \A v \in Valuations :
    LET models == Models(v)
        runs   == MemoryRuns(v)
    IN  /\ \A m \in models : \E s \in runs : IsRun(m, s)
        /\ \A s \in runs : \E m \in models : IsRun(m, s)

(* Where the two readings agree: if no variable is read more than once,    *)
(* the models are the runs of ordinary memory, all interleavings of them   *)
(* and nothing else, whatever branches the writes and the read lie in.     *)
ReadOnceIsMemory ==
  (\A p, q \in Reads : SameZone(p, q) => p = q) => ModelsAreMemory

-----------------------------------------------------------------------------
(* Every shared variable has an initial value, from the main thread, and   *)
(* is assigned before it is read.                                          *)
Assigned ==
  \A r \in Reads : \E d, w \in Writes :
    /\ relation[d].thread = 0
    /\ ProgramOrder(d, w) /\ ProgramOrder(w, r)
    /\ \A e \in {d, w} : SameZone(e, r) /\ relation[e].guard = NoCond

(* The tests expect shared variables to be ordinary memory, as in          *)
(* functional_test.cpp:1273, where a variable is assigned any(), then      *)
(* tested, then read again, and must have the value that was tested.  The  *)
(* same is expected of a Mutex (mutex.h): a variable that is initialised,  *)
(* that lock() writes, and that unlock() reads, expecting its own thread.  *)
(* In memory, critical sections then come one after the other.             *)
SharedVarsAreMemory == Assigned => ModelsAreMemory
=============================================================================
