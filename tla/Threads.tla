------------------------------- MODULE Threads -------------------------------
(***************************************************************************)
(* Class Threads (thread.h): which symbolic threads exist, which of them   *)
(* is recording, and the synchronisation events that order their slices.   *)
(* Branches are left to module Recorder: here all events of a thread lie   *)
(* in the one unconditional block of its slice, so a slice is a sequence.  *)
(*                                                                         *)
(* A thread is recorded either between Threads::begin_thread() and         *)
(* Threads::end_thread(), or by the constructor of class Thread, which     *)
(* runs its function between calls of the same two functions.  That        *)
(* end_thread() pops an object the constructor never pushed, the main      *)
(* thread's: a destroyed object keeps its identity and its parent here, as *)
(* the storage of std::stack does until something else is pushed.          *)
(*                                                                         *)
(* A program records all its threads in one style, with or without a slice *)
(* loop.                                                                   *)
(***************************************************************************)
EXTENDS Naturals, SequencesExt, Clocks

CONSTANTS
  NoThread,     \* the null thread pointer
  Programs,     \* the kinds of programs: how they record threads, whether
                \* they call begin_slice_loop(), and as a bound, how often
                \* they call reset()
  MaxThreads,   \* bound: threads made, over all recordings
  MaxEvents     \* bound: events in one recording

ASSUME ThreadsAssumption ==
  /\ Programs \subseteq
       [style : {"begin_thread", "constructor"}, sliceLoop : BOOLEAN, maxResets : Nat]
  /\ NoThread \notin Nat
  /\ {MaxThreads, MaxEvents} \subseteq Nat

VARIABLES
  program,      \* the kind of program that runs
  parent,       \* m_parent_thread_ptr of the threads made so far; their
                \* number is s_next_thread_id
  threadStack,  \* m_thread_stack, top last
  current,      \* m_current_thread_ptr
  sliceMap,     \* m_slice_map: the events of each thread that has a slice
  mainId,       \* m_main_thread_id
  mainInit,     \* m_main_init_event_ptrs
  nextId,       \* Event::s_next_id
  nextAtom,     \* Zone::s_next_atom
  resets,       \* number of calls of reset()
  ended,        \* threads of this recording whose final event the program holds
  knows,        \* history: the events before whatever thread t records next
  order         \* history: the pairs of events that the program orders

vars == <<program, parent, threadStack, current, sliceMap, mainId, mainInit, nextId,
          nextAtom, resets, ended, knows, order>>

Made == DOMAIN parent
NextThread == Cardinality(Made)

(* A slice is created when its thread is first looked up.                  *)
Slice(map, t) == IF t \in DOMAIN map THEN map[t] ELSE <<>>

Appended(map, t, e) ==
  [u \in DOMAIN map \union {t} |->
     IF u = t THEN Append(Slice(map, t), e) ELSE map[u]]

Event(id, zone, read, sync) == [id |-> id, zone |-> zone, read |-> read, sync |-> sync]

(* Mutant of SendEvent: all send events are in one zone.                   *)
SendEventAnyZone(id, zone) == Event(id, 0, FALSE, TRUE)

SendEvent(id, zone)    == Event(id, zone, FALSE, TRUE)
ReceiveEvent(id, zone) == Event(id, zone, TRUE, TRUE)

(* The events in the memory of the recording, those kept for the main      *)
(* thread of the next one included.                                        *)
Recorded == UNION { Range(sliceMap[t]) : t \in DOMAIN sliceMap }

Init ==
  /\ program \in Programs
  /\ parent = <<>>
  /\ threadStack = <<>>
  /\ current = NoThread
  /\ sliceMap = [t \in {0} |-> <<>>]
  /\ mainId = 0
  /\ mainInit = <<>>
  /\ nextId = 0
  /\ nextAtom = 0
  /\ resets = 0
  /\ ended = {}
  /\ knows = <<>>
  /\ order = {}

-----------------------------------------------------------------------------
(* History: thread t records event e, which comes after all that t knows   *)
(* and the events of "more".                                               *)
Knowing(k, t, set) == [u \in DOMAIN k \union {t} |-> IF u = t THEN set ELSE k[u]]

After(set, e) == set \X {e}

Make(p) ==
  /\ NextThread < MaxThreads
  /\ parent' = [t \in Made \union {NextThread} |->
                  IF t = NextThread THEN p ELSE parent[t]]

(* Threads::begin_main_thread(): the first thread has no parent, and so    *)
(* nothing to synchronise with.                                            *)
BeginMainAsserts == threadStack = <<>>

BeginMain ==
  /\ current = NoThread
  /\ BeginMainAsserts
  /\ Make(NoThread)
  /\ threadStack' = Append(threadStack, NextThread)
  /\ current' = NextThread
  /\ knows' = Knowing(knows, NextThread, {})
  /\ UNCHANGED <<sliceMap, mainId, mainInit, nextId, nextAtom, resets, ended, order>>

(* Threads::begin_thread(Thread* ) on a child of the current thread.       *)
BeginChild ==
  /\ current # NoThread
  /\ nextId + 1 < MaxEvents
  /\ Make(current)
  /\ sliceMap' = Appended(
       Appended(sliceMap, current, SendEvent(nextId, nextAtom)),
       NextThread, ReceiveEvent(nextId + 1, nextAtom))
  /\ current' = NextThread
  /\ nextId' = nextId + 2
  /\ nextAtom' = nextAtom + 1
  /\ LET sent == knows[current] \union {nextId}
     IN  /\ knows' = Knowing(Knowing(knows, current, sent), NextThread, sent \union {nextId + 1})
         /\ order' = order \union After(knows[current], nextId) \union After(sent, nextId + 1)
  /\ UNCHANGED <<mainId, mainInit, resets, ended>>

(* Mutant of Pushed: the thread after the new one is pushed.               *)
PushedNext(stack) == Append(stack, NextThread + 1)

Pushed(stack) == Append(stack, NextThread)

(* Threads::begin_thread(). *)
BeginThread ==
  /\ program.style = "begin_thread"
  /\ BeginChild
  /\ threadStack' = Pushed(threadStack)

(* The constructor of class Thread, up to the call of its function: the    *)
(* new thread is an object of the program, not of the stack.               *)
ConstructThread ==
  /\ program.style = "constructor"
  /\ BeginChild
  /\ UNCHANGED threadStack

(* Mutant of Popped: end_thread leaves the stack alone.                    *)
Unpopped(stack) == stack

Popped(stack) == IF stack # <<>> THEN Front(stack) ELSE <<>>

(* Threads::end_thread(), also at the end of the constructor.              *)
EndThread ==
  /\ current # NoThread
  /\ nextId < MaxEvents
  /\ sliceMap' = Appended(sliceMap, current, SendEvent(nextId, nextAtom))
  /\ nextId' = nextId + 1
  /\ nextAtom' = nextAtom + 1
  /\ current' = parent[current]
  /\ threadStack' = Popped(threadStack)
  /\ ended' = ended \union {current}
  /\ knows' = [knows EXCEPT ![current] = @ \union {nextId}]
  /\ order' = order \union After(knows[current], nextId)
  /\ UNCHANGED <<parent, mainId, mainInit, resets>>

EndChild == current # NoThread /\ parent[current] # NoThread /\ EndThread

(* Threads::end_main_thread(Encoders&).  Encoding leaves this state alone. *)
InMain == current # NoThread /\ parent[current] = NoThread

EndMainAsserts == Len(threadStack) = 1

EndMain == InMain /\ EndMainAsserts /\ EndThread

(* Mutant of FinalEvent: the program joins the first event of the thread.  *)
FirstEvent(t) == Head(Slice(sliceMap, t))

(* What the program joins: the send event that end_thread returned.        *)
FinalEvent(t) == Last(Slice(sliceMap, t))

(* Threads::join of the final event of an ended thread.                    *)
Join(t) ==
  /\ current # NoThread
  /\ nextId < MaxEvents
  /\ sliceMap' = Appended(sliceMap, current, ReceiveEvent(nextId, FinalEvent(t).zone))
  /\ nextId' = nextId + 1
  /\ LET before == knows[current] \union knows[t]
     IN  /\ knows' = [knows EXCEPT ![current] = before \union {nextId}]
         /\ order' = order \union After(before, nextId)
  /\ UNCHANGED <<parent, threadStack, current, mainId, mainInit, nextAtom, resets, ended>>

(* The current thread declares a shared variable, whose zone is a fresh    *)
(* atom, or reads one.                                                     *)
Access(zone, read) ==
  /\ current # NoThread
  /\ nextId < MaxEvents
  /\ sliceMap' = Appended(sliceMap, current, Event(nextId, zone, read, FALSE))
  /\ nextId' = nextId + 1
  /\ knows' = [knows EXCEPT ![current] = @ \union {nextId}]
  /\ order' = order \union After(knows[current], nextId)
  /\ UNCHANGED <<parent, threadStack, current, mainId, mainInit, resets, ended>>

Declare == Access(nextAtom, FALSE) /\ nextAtom' = nextAtom + 1

Read ==
  \E e \in Recorded :
    ~e.sync /\ ~e.read /\ Access(e.zone, TRUE) /\ UNCHANGED nextAtom

(* Threads::begin_slice_loop().  By its precondition the main thread alone *)
(* has been recorded so far.                                               *)
BeginSliceLoopAsserts ==
  /\ Len(threadStack) = 1
  /\ Cardinality(DOMAIN sliceMap) = 1

OnlyMain == InMain /\ DOMAIN knows = {current} /\ current \in DOMAIN sliceMap

MainId == current

BeginSliceLoop ==
  /\ program.sliceLoop
  /\ OnlyMain
  /\ BeginSliceLoopAsserts
  /\ mainId' = MainId
  /\ mainInit' = sliceMap[current]
  /\ UNCHANGED <<parent, threadStack, current, sliceMap, nextId, nextAtom,
                 resets, ended, knows, order>>

(* Mutant of KeptSlices: reset() clears no slice.                          *)
AllSlices == sliceMap

KeptSlices == [t \in {mainId} |-> mainInit]

(* Threads::reset() with its default arguments. *)
Reset ==
  /\ resets < program.maxResets
  /\ resets' = resets + 1
  /\ threadStack' = <<>>
  /\ current' = NoThread
  /\ sliceMap' = KeptSlices
  /\ nextId' = 0
  /\ nextAtom' = 0
  /\ ended' = {}
  /\ knows' = <<>>
  /\ order' = {}
  /\ UNCHANGED <<parent, mainId, mainInit>>

Next ==
  /\ \/ BeginMain
     \/ BeginThread
     \/ ConstructThread
     \/ EndChild
     \/ EndMain
     \/ \E t \in ended : Join(t)
     \/ Declare
     \/ Read
     \/ BeginSliceLoop
     \/ Reset
  /\ UNCHANGED program

Spec == Init /\ [][Next]_vars

-----------------------------------------------------------------------------
TypeOK ==
  /\ program \in Programs
  /\ parent \in [0 .. NextThread - 1 -> Nat \union {NoThread}]
  /\ threadStack \in Seq(Made)
  /\ current \in Made \union {NoThread}
  /\ \A t \in DOMAIN sliceMap :
       sliceMap[t] \in Seq([id : Nat, zone : Nat, read : BOOLEAN, sync : BOOLEAN])
  /\ mainId \in Nat
  /\ nextId \in 0 .. MaxEvents
  /\ nextAtom \in Nat
  /\ ended \subseteq Made

(* In a program that starts its threads by begin_thread(), the current     *)
(* thread is the top of the thread stack and the stack is its line of      *)
(* parents: what end_thread pops is the thread that it ends.               *)
StackIsAncestry ==
  program.style = "begin_thread" =>
    IF current = NoThread THEN threadStack = <<>>
    ELSE /\ threadStack # <<>> /\ Last(threadStack) = current
         /\ parent[Head(threadStack)] = NoThread
         /\ \A i \in 2 .. Len(threadStack) : parent[threadStack[i]] = threadStack[i - 1]

(* thread.h: end_main_thread may be called once begin_main_thread() has    *)
(* been called (its precondition), without an assertion failing.           *)
EndMainAllowed == InMain => EndMainAsserts

(* event.h: "each Event object has a unique identifier".  The encoders     *)
(* name clocks and values after identifiers, so two recorded events with   *)
(* one identifier are one event to the solver.                             *)
UniqueIds ==
  \A t, u \in DOMAIN sliceMap :
    \A i \in DOMAIN sliceMap[t], j \in DOMAIN sliceMap[u] :
      sliceMap[t][i].id = sliceMap[u][j].id => t = u /\ i = j

(* A receive event can read from one event only, a send event: no other    *)
(* thread, and no shared variable, has the zone it waits on.               *)
OneSender ==
  \A r \in Recorded : r.sync /\ r.read =>
    \E s \in Recorded :
      /\ s.sync /\ ~s.read
      /\ { w \in Recorded : ~w.read /\ w.zone = r.zone } = {s}

(* The constraints on the clocks of events that encode() adds for a slice  *)
(* and, since a receive event reads from some send event of its zone, for  *)
(* the synchronisation events.                                             *)
InTurn(slice) == { <<slice[i].id, slice[i + 1].id>> : i \in 1 .. Len(slice) - 1 }

Synced(events) ==
  { <<p[1].id, p[2].id>> : p \in { q \in events \X events : /\ q[1].sync /\ ~q[1].read
                                                          /\ q[2].sync /\ q[2].read
                                                          /\ q[1].zone = q[2].zone } }

Constraints == (UNION { InTurn(sliceMap[t]) : t \in DOMAIN sliceMap }) \union Synced(Recorded)

(* The order of events that encoding the slices entails is the program's:  *)
(* the events of a thread in turn, what a parent did before it started a   *)
(* child before all of the child, all of a child before what follows its   *)
(* join, and nothing else.                                                 *)
EncodedOrder == Entailed(Constraints) = order
=============================================================================
