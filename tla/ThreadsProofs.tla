---------------------------- MODULE ThreadsProofs ----------------------------
(***************************************************************************)
(* What class Threads guarantees for any number of threads and events: the *)
(* thread stack is the line of parents, and, in programs that do not reset *)
(* the library in a slice loop, identifiers are unique, every receive      *)
(* event has one sender, and the order that encoding the slices entails is *)
(* the order of the program.                                               *)
(***************************************************************************)
EXTENDS Integers, Threads, DataLemmas

-----------------------------------------------------------------------------
(* What a slice map holds, as operators on the map.                        *)
EventType == [id : Nat, zone : Nat, read : BOOLEAN, sync : BOOLEAN]

Events(map) == UNION { Range(map[t]) : t \in DOMAIN map }

Unique(map) ==
  \A t, u \in DOMAIN map :
    \A i \in DOMAIN map[t], j \in DOMAIN map[u] :
      map[t][i].id = map[u][j].id => t = u /\ i = j

MapInv(map, id, atom) ==
  /\ \A t \in DOMAIN map : map[t] \in Seq(EventType)
  /\ Unique(map)
  /\ \A e \in Events(map) : e.id < id /\ e.zone < atom

(* A receive event has one sender, and a send event has its zone to itself *)
(* among the writes.                                                       *)
Sender(r, E) ==
  \E s \in E : s.sync /\ ~s.read /\ { w \in E : ~w.read /\ w.zone = r.zone } = {s}

SenderInv(E) ==
  /\ \A r \in E : r.sync /\ r.read => Sender(r, E)
  /\ \A s, w \in E : s.sync /\ ~s.read /\ ~w.read /\ w.zone = s.zone => w = s

(* The events of a map are of their type.                                  *)
LEMMA EventFacts ==
  ASSUME NEW map, \A t \in DOMAIN map : map[t] \in Seq(EventType)
  PROVE  /\ Events(map) \subseteq EventType
         /\ \A t \in DOMAIN map : \A i \in DOMAIN map[t] : map[t][i] \in Events(map)
<1>1. ASSUME NEW t \in DOMAIN map, NEW i \in DOMAIN map[t]
      PROVE  map[t][i] \in Events(map) /\ map[t][i] \in EventType
  <2>1. map[t] \in Seq(EventType)
    OBVIOUS
  <2> QED
    BY <2>1, ElementInSet DEF Events, Range
<1> QED
  BY <1>1 DEF Events, Range

(* One event more in the slice of a thread.                                *)
LEMMA SliceInType ==
  ASSUME NEW map, NEW t, \A u \in DOMAIN map : map[u] \in Seq(EventType)
  PROVE  Slice(map, t) \in Seq(EventType)
BY DEF Slice

LEMMA AppendedDomain ==
  ASSUME NEW map, NEW t, NEW e
  PROVE  DOMAIN Appended(map, t, e) = DOMAIN map \union {t}
BY DEF Appended

LEMMA AppendedOthers ==
  ASSUME NEW map, NEW t, NEW e, NEW u \in DOMAIN map, u # t
  PROVE  Appended(map, t, e)[u] = map[u]
BY DEF Appended

LEMMA AppendedSlice ==
  ASSUME NEW map, NEW t, NEW e \in EventType, \A u \in DOMAIN map : map[u] \in Seq(EventType)
  PROVE  LET new == Appended(map, t, e)[t]
             old == Slice(map, t)
         IN  /\ new \in Seq(EventType) /\ Len(new) = Len(old) + 1 /\ Len(old) \in Nat
             /\ new[Len(old) + 1] = e
             /\ \A i \in DOMAIN old : new[i] = old[i]
             /\ DOMAIN new = 1 .. Len(old) + 1 /\ DOMAIN old = 1 .. Len(old)
<1> DEFINE old == Slice(map, t)
<1>1. Appended(map, t, e)[t] = Append(old, e)
  BY DEF Appended
<1>2. old \in Seq(EventType)
  BY SliceInType
<1> HIDE DEF old
<1>3. /\ Append(old, e) \in Seq(EventType) /\ Len(Append(old, e)) = Len(old) + 1
      /\ Len(old) \in Nat
      /\ Append(old, e)[Len(old) + 1] = e
      /\ \A i \in DOMAIN old : Append(old, e)[i] = old[i]
      /\ DOMAIN Append(old, e) = 1 .. Len(old) + 1 /\ DOMAIN old = 1 .. Len(old)
  BY <1>2, AppendFacts
<1> QED
  BY <1>1, <1>3, Zenon DEF old

LEMMA AppendedLast ==
  ASSUME NEW map, NEW t, NEW e \in EventType, \A u \in DOMAIN map : map[u] \in Seq(EventType)
  PROVE  Appended(map, t, e)[t] # <<>> /\ Last(Appended(map, t, e)[t]) = e
<1> DEFINE old == Slice(map, t)
           new == Appended(map, t, e)[t]
<1>1. new \in Seq(EventType) /\ Len(new) = Len(old) + 1 /\ Len(old) \in Nat /\ new[Len(old) + 1] = e
  BY AppendedSlice
<1> HIDE DEF old, new
<1>2. new # <<>> /\ Last(new) = e
  BY <1>1, EmptyFacts DEF Last
<1> QED
  BY <1>2 DEF new

LEMMA AppendedEvents ==
  ASSUME NEW map, NEW t, NEW e \in EventType, \A u \in DOMAIN map : map[u] \in Seq(EventType)
  PROVE  Events(Appended(map, t, e)) = Events(map) \union {e}
<1> DEFINE old == Slice(map, t)
           new == Appended(map, t, e)
<1>1. DOMAIN new = DOMAIN map \union {t} /\ \A u \in DOMAIN map \ {t} : new[u] = map[u]
  BY DEF Appended
<1>2. /\ new[t][Len(old) + 1] = e
      /\ \A i \in DOMAIN old : new[t][i] = old[i]
      /\ DOMAIN new[t] = 1 .. Len(old) + 1 /\ DOMAIN old = 1 .. Len(old)
      /\ Len(old) \in Nat
  BY AppendedSlice
<1>3. Range(new[t]) = Range(old) \union {e}
  <2> HIDE DEF old, new
  <2>1. DOMAIN new[t] = DOMAIN old \union {Len(old) + 1}
    BY <1>2
  <2> QED
    BY <1>2, <2>1 DEF Range
<1>4. CASE t \in DOMAIN map
  <2>1. old = map[t] /\ DOMAIN new = DOMAIN map
    BY <1>1, <1>4 DEF Slice
  <2> HIDE DEF old, new
  <2>2. Events(new) = Events(map) \union {e}
    BY <1>1, <1>3, <1>4, <2>1 DEF Events
  <2> QED
    BY <2>2 DEF new
<1>5. CASE t \notin DOMAIN map
  <2>1. Range(old) = {}
    BY <1>5 DEF Slice, Range
  <2>2. \A u \in DOMAIN map : new[u] = map[u]
    BY <1>1, <1>5
  <2> HIDE DEF old, new
  <2>3. Events(new) = Events(map) \union {e}
    BY <1>1, <1>3, <2>1, <2>2 DEF Events
  <2> QED
    BY <2>3 DEF new
<1> QED
  BY <1>4, <1>5

(* ... with the next identifier.                                           *)
LEMMA AppendedInv ==
  ASSUME NEW map, NEW t, NEW id \in Nat, NEW atom \in Nat, NEW atom2 \in Nat, NEW e \in EventType,
         MapInv(map, id, atom), e.id = id, atom <= atom2, e.zone < atom2
  PROVE  MapInv(Appended(map, t, e), id + 1, atom2)
<1> DEFINE new == Appended(map, t, e)
           old == Slice(map, t)
<1>1. \A u \in DOMAIN map : map[u] \in Seq(EventType)
  BY DEF MapInv
<1>2. DOMAIN new = DOMAIN map \union {t} /\ \A u \in DOMAIN map \ {t} : new[u] = map[u]
  BY DEF Appended
<1>3. /\ new[t] \in Seq(EventType) /\ Len(old) \in Nat
      /\ new[t][Len(old) + 1] = e
      /\ \A i \in DOMAIN old : new[t][i] = old[i]
      /\ DOMAIN new[t] = 1 .. Len(old) + 1 /\ DOMAIN old = 1 .. Len(old)
  BY <1>1, AppendedSlice
<1>4. Events(new) = Events(map) \union {e}
  BY <1>1, AppendedEvents
<1>5. \A d \in Events(map) : d.id \in Nat /\ d.id < id /\ d.zone \in Nat /\ d.zone < atom
  <2>1. Events(map) \subseteq EventType
    BY <1>1, EventFacts
  <2> QED
    BY <2>1 DEF MapInv, EventType
<1>6. \A d \in Events(new) : d.id < id + 1 /\ d.zone < atom2
  <2> HIDE DEF new
  <2> QED BY <1>4, <1>5
<1>7. Unique(new)
  <2>1. \A u \in DOMAIN map : \A i \in DOMAIN map[u] : map[u][i].id # id
    BY <1>1, <1>5, EventFacts
  <2>2. ASSUME NEW u \in DOMAIN new, NEW i \in DOMAIN new[u]
        PROVE  \/ u = t /\ i = Len(old) + 1 /\ new[u][i].id = id
               \/ u \in DOMAIN map /\ i \in DOMAIN map[u] /\ new[u][i] = map[u][i]
    <3>1. CASE u = t /\ i = Len(old) + 1
      <4> HIDE DEF old, new
      <4> QED BY <1>3, <3>1
    <3>2. CASE u = t /\ i # Len(old) + 1
      <4>1. i \in DOMAIN old /\ new[u][i] = old[i]
        <5> HIDE DEF old, new
        <5> QED BY <1>3, <3>2
      <4>2. t \in DOMAIN map /\ old = map[t]
        BY <4>1 DEF Slice
      <4> HIDE DEF old, new
      <4> QED BY <3>2, <4>1, <4>2
    <3>3. CASE u # t
      <4> HIDE DEF new
      <4> QED BY <1>2, <3>3
    <3> QED
      BY <3>1, <3>2, <3>3
  <2> HIDE DEF old, new
  <2> QED BY <2>1, <2>2 DEF Unique, MapInv
<1>8. \A u \in DOMAIN new : new[u] \in Seq(EventType)
  <2> HIDE DEF new, old
  <2> QED BY <1>1, <1>2, <1>3
<1>9. MapInv(new, id + 1, atom2)
  <2> HIDE DEF new
  <2> QED BY <1>6, <1>7, <1>8 DEF MapInv
<1> QED
  BY <1>9

(* A new write has a zone of its own; a receive event has a sender.        *)
LEMMA SenderFacts ==
  ASSUME NEW E, NEW e, SenderInv(E), e.read \in BOOLEAN, e.sync \in BOOLEAN,
         ~e.read => \A d \in E : d.zone # e.zone,
         e.read /\ e.sync => \E s \in E : s.sync /\ ~s.read /\ s.zone = e.zone
  PROVE  SenderInv(E \union {e})
<1>1. ASSUME NEW r \in E, r.sync, r.read
      PROVE  Sender(r, E \union {e})
  <2>1. PICK s \in E : s.sync /\ ~s.read /\ { w \in E : ~w.read /\ w.zone = r.zone } = {s}
    BY <1>1 DEF SenderInv, Sender
  <2>2. ~ (~e.read /\ e.zone = r.zone)
    OBVIOUS
  <2> QED
    BY <2>1, <2>2 DEF Sender
<1>2. ASSUME e.sync, e.read
      PROVE  Sender(e, E \union {e})
  <2>1. PICK s \in E : s.sync /\ ~s.read /\ s.zone = e.zone
    BY <1>2
  <2>2. { w \in E : ~w.read /\ w.zone = e.zone } = {s}
    BY <2>1 DEF SenderInv
  <2> QED
    BY <1>2, <2>1, <2>2 DEF Sender
<1>3. ASSUME NEW s \in E \union {e}, NEW w \in E \union {e},
             s.sync, ~s.read, ~w.read, w.zone = s.zone
      PROVE  w = s
  BY <1>3 DEF SenderInv
<1> QED
  BY <1>1, <1>2, <1>3 DEF SenderInv

-----------------------------------------------------------------------------
(* The invariant.  Identifiers of threads are given in turn, and only      *)
(* programs with a slice loop keep events over a reset().                  *)
TypeInv ==
  /\ program \in Programs
  /\ NextThread \in Nat /\ Made = 0 .. NextThread - 1
  /\ parent \in [Made -> Made \union {NoThread}]
  /\ threadStack \in Seq(Made)
  /\ current \in DOMAIN knows \union {NoThread}
  /\ DOMAIN knows \subseteq Made
  /\ ended \subseteq DOMAIN knows
  /\ mainId \in Nat /\ resets \in Nat
  /\ mainInit \in Seq(EventType)
  /\ ~program.sliceLoop => mainInit = <<>>

(* The threads of this recording that have not ended are a line: each but  *)
(* the first is younger than its parent and a descendant of all that are   *)
(* older, and the current thread is the youngest.  So an ended thread      *)
(* never becomes current again, and its last event stays its final one.    *)
Live == DOMAIN knows \ ended

LineInv ==
  /\ current = NoThread => Live = {}
  /\ current # NoThread => current \in Live /\ \A t \in Live : t <= current
  /\ \A u \in Live : parent[u] # NoThread => parent[u] \in Live /\ parent[u] < u
  /\ \A t, u \in Live : t < u => parent[u] # NoThread /\ t <= parent[u]

FinalInv ==
  \A t \in ended :
    /\ t \in DOMAIN sliceMap /\ sliceMap[t] # <<>>
    /\ Last(sliceMap[t]).sync /\ ~Last(sliceMap[t]).read

EventInv ==
  /\ nextId \in 0 .. MaxEvents /\ nextAtom \in Nat
  /\ MapInv(sliceMap, nextId, nextAtom)
  /\ SenderInv(Recorded)
  /\ FinalInv

IInv == TypeInv /\ LineInv /\ StackIsAncestry /\ EventInv

(* Programs that call both begin_slice_loop() and reset() are left out: of *)
(* them UniqueIds is false.                                                *)
KeepsNoEvents == \A p \in Programs : p.sliceLoop => p.maxResets = 0

-----------------------------------------------------------------------------
LEMMA InitInv == Init => IInv
<1> SUFFICES ASSUME Init PROVE IInv
  OBVIOUS
<1>1. Made = {} /\ NextThread = 0
  BY FS_EmptySet DEF Init, Made, NextThread
<1>2. TypeInv
  BY <1>1, ThreadsAssumption DEF Init, TypeInv, Made
<1>3. Live = {} /\ LineInv
  BY DEF Init, Live, LineInv
<1>4. StackIsAncestry
  BY DEF Init, StackIsAncestry
<1>5. Recorded = {}
  BY DEF Init, Recorded, Range
<1>6. Events(sliceMap) = {} /\ \A t \in DOMAIN sliceMap : sliceMap[t] = <<>>
  BY DEF Init, Events, Range
<1>7. MapInv(sliceMap, nextId, nextAtom)
  <2>1. \A t \in DOMAIN sliceMap : sliceMap[t] \in Seq(EventType) /\ DOMAIN sliceMap[t] = {}
    <3>1. <<>> \in Seq(EventType) /\ DOMAIN <<>> = {}
      OBVIOUS
    <3> QED
      BY <1>6, <3>1, Zenon
  <2>2. Unique(sliceMap)
    BY <2>1 DEF Unique
  <2> QED
    BY <1>6, <2>1, <2>2 DEF MapInv
<1>8. EventInv
  BY <1>5, <1>7, ThreadsAssumption DEF Init, EventInv, SenderInv, FinalInv
<1> QED
  BY <1>2, <1>3, <1>4, <1>8 DEF IInv

(* One more thread.                                                        *)
LEMMA MakeFacts ==
  ASSUME TypeInv, NEW p \in Made \union {NoThread}, Make(p)
  PROVE  /\ NextThread' = NextThread + 1 /\ NextThread \notin Made
         /\ Made' = Made \union {NextThread} /\ Made' = 0 .. NextThread' - 1
         /\ parent' \in [Made' -> Made' \union {NoThread}]
         /\ parent'[NextThread] = p
         /\ \A t \in Made : parent'[t] = parent[t]
         /\ NextThread # NoThread /\ \A t \in Made : t \in Nat /\ t < NextThread
<1>1. NextThread \in Nat /\ Made = 0 .. NextThread - 1
  BY DEF TypeInv
<1>2. NextThread \notin Made /\ \A t \in Made : t \in Nat /\ t < NextThread
  BY <1>1
<1>3. parent' = [t \in Made \union {NextThread} |-> IF t = NextThread THEN p ELSE parent[t]]
  BY DEF Make
<1>4. Made' = Made \union {NextThread}
  BY <1>3 DEF Made
<1>5. NextThread' = NextThread + 1
  <2>1. IsFiniteSet(Made)
    BY <1>1, FS_Interval
  <2> QED
    BY <1>2, <1>4, <2>1, FS_AddElement DEF NextThread
<1>6. Made' = 0 .. NextThread' - 1
  BY <1>1, <1>4, <1>5
<1>7. parent \in [Made -> Made \union {NoThread}]
  BY DEF TypeInv
<1>8. parent' \in [Made' -> Made' \union {NoThread}]
  <2> HIDE DEF Made, NextThread
  <2> QED BY <1>2, <1>3, <1>4, <1>7
<1>9. parent'[NextThread] = p /\ \A t \in Made : parent'[t] = parent[t]
  <2> HIDE DEF Made, NextThread
  <2> QED BY <1>2, <1>3
<1> QED
  BY <1>1, <1>2, <1>4, <1>5, <1>6, <1>8, <1>9, ThreadsAssumption

-----------------------------------------------------------------------------
(* One event more in the slice of a thread that has not ended.             *)
LEMMA Recording ==
  ASSUME EventInv, NEW t, t \notin ended, NEW e \in EventType, NEW atom \in Nat,
         e.id = nextId, nextAtom <= atom, e.zone < atom,
         ~e.read => \A d \in Recorded : d.zone # e.zone,
         e.read /\ e.sync => \E s \in Recorded : s.sync /\ ~s.read /\ s.zone = e.zone
  PROVE  LET map == Appended(sliceMap, t, e)
         IN  /\ MapInv(map, nextId + 1, atom)
             /\ SenderInv(Events(map))
             /\ Events(map) = Recorded \union {e}
             /\ t \in DOMAIN map /\ map[t] # <<>> /\ Last(map[t]) = e
             /\ \A u \in ended : u \in DOMAIN map /\ map[u] = sliceMap[u]
<1> DEFINE map == Appended(sliceMap, t, e)
<1>1. /\ MapInv(sliceMap, nextId, nextAtom) /\ nextId \in Nat /\ nextAtom \in Nat
      /\ SenderInv(Recorded) /\ Events(sliceMap) = Recorded
      /\ \A u \in ended : u \in DOMAIN sliceMap
  BY ThreadsAssumption DEF EventInv, FinalInv, Recorded, Events
<1>2. /\ MapInv(map, nextId + 1, atom) /\ DOMAIN map = DOMAIN sliceMap \union {t}
      /\ Events(map) = Recorded \union {e}
      /\ map[t] # <<>> /\ Last(map[t]) = e
      /\ \A u \in DOMAIN sliceMap \ {t} : map[u] = sliceMap[u]
  <2>1. MapInv(map, nextId + 1, atom)
    <3> HIDE DEF map
    <3> QED BY <1>1, AppendedInv DEF map
  <2>2. \A u \in DOMAIN sliceMap : sliceMap[u] \in Seq(EventType)
    BY <1>1 DEF MapInv
  <2>3. Events(map) = Events(sliceMap) \union {e}
    BY <2>2, AppendedEvents
  <2>4. map[t] # <<>> /\ Last(map[t]) = e
    BY <2>2, AppendedLast
  <2>5. DOMAIN map = DOMAIN sliceMap \union {t}
    BY AppendedDomain
  <2>6. \A u \in DOMAIN sliceMap \ {t} : map[u] = sliceMap[u]
    BY AppendedOthers
  <2> HIDE DEF map
  <2> QED
    BY <1>1, <2>1, <2>3, <2>4, <2>5, <2>6
<1>3. SenderInv(Recorded \union {e})
  BY <1>1, SenderFacts DEF EventType
<1> HIDE DEF map
<1> QED
  BY <1>1, <1>2, <1>3 DEF map

(* ... where the state after is one of an action that records it.          *)
LEMMA Recorded1 ==
  ASSUME EventInv, NEW t, t \notin ended, NEW e \in EventType,
         e.id = nextId, nextAtom' \in Nat, nextAtom <= nextAtom', e.zone < nextAtom',
         ~e.read => \A d \in Recorded : d.zone # e.zone,
         e.read /\ e.sync => \E s \in Recorded : s.sync /\ ~s.read /\ s.zone = e.zone,
         nextId < MaxEvents, nextId' = nextId + 1,
         sliceMap' = Appended(sliceMap, t, e),
         ended' = ended \/ (ended' = ended \union {t} /\ e.sync /\ ~e.read)
  PROVE  EventInv'
<1>1. /\ MapInv(sliceMap', nextId', nextAtom')
      /\ SenderInv(Events(sliceMap'))
      /\ t \in DOMAIN sliceMap' /\ sliceMap'[t] # <<>> /\ Last(sliceMap'[t]) = e
      /\ \A u \in ended : u \in DOMAIN sliceMap' /\ sliceMap'[u] = sliceMap[u]
  BY Recording
<1>2. nextId' \in 0 .. MaxEvents
  BY ThreadsAssumption DEF EventInv
<1>3. FinalInv'
  BY <1>1 DEF EventInv, FinalInv
<1>4. Recorded' = Events(sliceMap')
  BY DEF Recorded, Events
<1> QED
  BY <1>1, <1>2, <1>3, <1>4 DEF EventInv

-----------------------------------------------------------------------------
LEMMA BeginMainPreserves ==
  ASSUME IInv, BeginMain, UNCHANGED program
  PROVE  IInv'
<1>1. /\ current = NoThread /\ threadStack = <<>> /\ Make(NoThread)
      /\ threadStack' = Append(threadStack, NextThread) /\ current' = NextThread
      /\ knows' = Knowing(knows, NextThread, {})
      /\ UNCHANGED <<sliceMap, mainId, mainInit, nextId, nextAtom, resets, ended>>
  BY DEF BeginMain, BeginMainAsserts
<1>2. TypeInv /\ LineInv /\ EventInv
  BY DEF IInv
<1>3. /\ NextThread' = NextThread + 1 /\ NextThread \notin Made
      /\ Made' = Made \union {NextThread} /\ Made' = 0 .. NextThread' - 1
      /\ parent' \in [Made' -> Made' \union {NoThread}]
      /\ parent'[NextThread] = NoThread /\ NextThread # NoThread
  BY <1>1, <1>2, MakeFacts
<1>4. threadStack' = <<NextThread>>
  BY <1>1
<1>5. DOMAIN knows' = DOMAIN knows \union {NextThread}
  BY <1>1 DEF Knowing
<1>6. TypeInv'
  <2> HIDE DEF NextThread, Made
  <2>1. threadStack' \in Seq(Made')
    BY <1>3, <1>4
  <2>2. NextThread' \in Nat
    BY <1>2, <1>3 DEF TypeInv
  <2> QED
    BY <1>1, <1>2, <1>3, <1>5, <2>1, <2>2 DEF TypeInv
<1>7. Live' = {NextThread}
  BY <1>1, <1>2, <1>3, <1>5 DEF Live, LineInv, TypeInv
<1>8. LineInv'
  <2> HIDE DEF NextThread, Live
  <2>1. NextThread \in Nat
    BY <1>2 DEF TypeInv
  <2> QED
    BY <1>1, <1>3, <1>7, <2>1 DEF LineInv
<1>9. StackIsAncestry'
  <2> HIDE DEF NextThread
  <2>1. threadStack' # <<>> /\ Last(threadStack') = NextThread /\ Head(threadStack') = NextThread
        /\ Len(threadStack') = 1
    BY <1>4 DEF Last
  <2> QED
    BY <1>1, <1>3, <2>1 DEF StackIsAncestry
<1>10. EventInv'
  BY <1>1, <1>2 DEF EventInv, FinalInv, Recorded
<1> QED
  BY <1>6, <1>8, <1>9, <1>10 DEF IInv

(* What starts and ends no thread keeps what is known of threads.          *)
LEMMA SameThreads ==
  ASSUME TypeInv, LineInv, StackIsAncestry, DOMAIN knows' = DOMAIN knows,
         UNCHANGED <<program, parent, threadStack, current, resets, ended>>, mainId' \in Nat,
         mainInit' = mainInit \/ (program.sliceLoop /\ mainInit' \in Seq(EventType))
  PROVE  TypeInv' /\ LineInv' /\ StackIsAncestry'
<1>1. Made' = Made /\ NextThread' = NextThread /\ Live' = Live
  BY DEF Made, NextThread, Live
<1>2. TypeInv'
  <2> HIDE DEF Made, NextThread
  <2> QED BY <1>1 DEF TypeInv
<1>3. LineInv'
  <2> HIDE DEF Live
  <2> QED BY <1>1 DEF LineInv
<1>4. StackIsAncestry'
  BY DEF StackIsAncestry
<1> QED
  BY <1>2, <1>3, <1>4

(* The current thread has not ended, nor has its parent.                   *)
LEMMA CurrentFacts ==
  ASSUME TypeInv, LineInv, current # NoThread
  PROVE  /\ current \in DOMAIN knows /\ current \in Made /\ current \notin ended
         /\ current \in Nat /\ current < NextThread
BY DEF TypeInv, LineInv, Live

(* Fresh zones, as no event has a zone that is not allocated.              *)
LEMMA FreshZone ==
  ASSUME EventInv
  PROVE  /\ nextId \in Nat /\ nextAtom \in Nat
         /\ \A d \in Recorded : d \in EventType /\ d.zone < nextAtom /\ d.zone # nextAtom
<1>1. nextId \in Nat /\ nextAtom \in Nat /\ Recorded = Events(sliceMap)
  BY ThreadsAssumption DEF EventInv, Recorded, Events
<1>2. \A d \in Events(sliceMap) : d \in EventType /\ d.zone < nextAtom
  <2>1. \A t \in DOMAIN sliceMap : sliceMap[t] \in Seq(EventType)
    BY DEF EventInv, MapInv
  <2>2. Events(sliceMap) \subseteq EventType
    BY <2>1, EventFacts
  <2> QED
    BY <2>2 DEF EventInv, MapInv
<1> QED
  BY <1>1, <1>2 DEF EventType

LEMMA DeclarePreserves ==
  ASSUME IInv, Declare, UNCHANGED program
  PROVE  IInv'
<1> DEFINE e == Event(nextId, nextAtom, FALSE, FALSE)
<1>1. TypeInv /\ LineInv /\ StackIsAncestry /\ EventInv
  BY DEF IInv
<1>2. /\ current # NoThread /\ nextId < MaxEvents
      /\ sliceMap' = Appended(sliceMap, current, e)
      /\ nextId' = nextId + 1 /\ nextAtom' = nextAtom + 1
      /\ DOMAIN knows' = DOMAIN knows
      /\ UNCHANGED <<parent, threadStack, current, mainId, mainInit, resets, ended>>
  BY DEF Declare, Access
<1>3. TypeInv' /\ LineInv' /\ StackIsAncestry'
  BY <1>1, <1>2, SameThreads DEF TypeInv
<1>4. /\ e \in EventType /\ e.id = nextId /\ e.zone = nextAtom /\ ~e.read /\ ~e.sync
  BY <1>1, FreshZone DEF Event, EventType
<1>5. EventInv'
  <2>1. /\ nextAtom' \in Nat /\ nextAtom <= nextAtom' /\ e.zone < nextAtom'
        /\ \A d \in Recorded : d.zone # e.zone
    <3>1. nextAtom \in Nat /\ \A d \in Recorded : d.zone # nextAtom
      BY <1>1, FreshZone
    <3> HIDE DEF e
    <3> QED BY <1>2, <1>4, <3>1
  <2>2. current \notin ended
    BY <1>1, <1>2, CurrentFacts
  <2> HIDE DEF e
  <2> QED BY <1>1, <1>2, <1>4, <2>1, <2>2, Recorded1
<1> QED
  BY <1>3, <1>5 DEF IInv

LEMMA ReadPreserves ==
  ASSUME IInv, Read, UNCHANGED program
  PROVE  IInv'
<1>1. TypeInv /\ LineInv /\ StackIsAncestry /\ EventInv
  BY DEF IInv
<1>2. PICK d \in Recorded : Access(d.zone, TRUE) /\ UNCHANGED nextAtom
  BY DEF Read
<1> DEFINE e == Event(nextId, d.zone, TRUE, FALSE)
<1>3. /\ current # NoThread /\ nextId < MaxEvents
      /\ sliceMap' = Appended(sliceMap, current, e)
      /\ nextId' = nextId + 1 /\ nextAtom' = nextAtom
      /\ DOMAIN knows' = DOMAIN knows
      /\ UNCHANGED <<parent, threadStack, current, mainId, mainInit, resets, ended>>
  BY <1>2 DEF Access
<1>4. TypeInv' /\ LineInv' /\ StackIsAncestry'
  BY <1>1, <1>3, SameThreads DEF TypeInv
<1>5. d.zone \in Nat /\ d.zone < nextAtom
  BY <1>1, FreshZone DEF EventType
<1>6. e \in EventType /\ e.id = nextId /\ e.zone = d.zone /\ e.read /\ ~e.sync
  BY <1>1, <1>5, FreshZone DEF Event, EventType
<1>7. EventInv'
  <2>1. nextAtom' \in Nat /\ nextAtom <= nextAtom' /\ e.zone < nextAtom'
    <3>1. nextAtom \in Nat
      BY <1>1, FreshZone
    <3> HIDE DEF e
    <3> QED BY <1>3, <1>5, <1>6, <3>1
  <2>2. current \notin ended
    BY <1>1, <1>3, CurrentFacts
  <2> HIDE DEF e
  <2> QED BY <1>1, <1>3, <1>6, <2>1, <2>2, Recorded1
<1> QED
  BY <1>4, <1>7 DEF IInv

(* The final event of a thread that has ended is a send event.             *)
LEMMA FinalFacts ==
  ASSUME EventInv, NEW t \in ended
  PROVE  /\ FinalEvent(t) \in Recorded /\ FinalEvent(t).sync /\ ~FinalEvent(t).read
         /\ t \in DOMAIN sliceMap /\ sliceMap[t] # <<>> /\ FinalEvent(t) = Last(sliceMap[t])
<1>1. /\ t \in DOMAIN sliceMap /\ sliceMap[t] # <<>>
      /\ Last(sliceMap[t]).sync /\ ~Last(sliceMap[t]).read
      /\ sliceMap[t] \in Seq(EventType)
  BY DEF EventInv, FinalInv, MapInv
<1>2. FinalEvent(t) = Last(sliceMap[t])
  BY <1>1 DEF FinalEvent, Slice
<1>3. Last(sliceMap[t]) = sliceMap[t][Len(sliceMap[t])] /\ Len(sliceMap[t]) \in DOMAIN sliceMap[t]
  BY <1>1, EmptyFacts DEF Last
<1>4. Last(sliceMap[t]) \in Recorded
  <2>1. Last(sliceMap[t]) \in Range(sliceMap[t])
    BY <1>3 DEF Range
  <2>2. Range(sliceMap[t]) \subseteq Recorded
    BY <1>1 DEF Recorded
  <2> QED
    BY <2>1, <2>2
<1> QED
  BY <1>1, <1>2, <1>4

LEMMA JoinPreserves ==
  ASSUME IInv, NEW t \in ended, Join(t), UNCHANGED program
  PROVE  IInv'
<1> DEFINE e == ReceiveEvent(nextId, FinalEvent(t).zone)
           s == FinalEvent(t)
<1>1. TypeInv /\ LineInv /\ StackIsAncestry /\ EventInv
  BY DEF IInv
<1>2. /\ current # NoThread /\ nextId < MaxEvents
      /\ sliceMap' = Appended(sliceMap, current, e)
      /\ nextId' = nextId + 1 /\ nextAtom' = nextAtom
      /\ DOMAIN knows' = DOMAIN knows
      /\ UNCHANGED <<parent, threadStack, current, mainId, mainInit, resets, ended>>
  BY DEF Join
<1>3. TypeInv' /\ LineInv' /\ StackIsAncestry'
  BY <1>1, <1>2, SameThreads DEF TypeInv
<1>4. s \in Recorded /\ s.sync /\ ~s.read
  BY <1>1, FinalFacts
<1>5. s.zone \in Nat /\ s.zone < nextAtom
  <2> HIDE DEF s
  <2> QED BY <1>1, <1>4, FreshZone DEF EventType
<1>6. e \in EventType /\ e.id = nextId /\ e.zone = s.zone /\ e.read
  BY <1>1, <1>5, FreshZone DEF Event, ReceiveEvent, EventType
<1>7. EventInv'
  <2>1. nextAtom' \in Nat /\ nextAtom <= nextAtom' /\ e.zone < nextAtom'
    BY <1>1, <1>2, <1>5, <1>6, FreshZone
  <2>2. current \notin ended
    BY <1>1, <1>2, CurrentFacts
  <2>3. \E r \in Recorded : r.sync /\ ~r.read /\ r.zone = e.zone
    BY <1>4, <1>6
  <2> HIDE DEF e, s
  <2> QED BY <1>1, <1>2, <1>6, <2>1, <2>2, <2>3, Recorded1
<1> QED
  BY <1>3, <1>7 DEF IInv

LEMMA BeginSliceLoopPreserves ==
  ASSUME IInv, BeginSliceLoop, UNCHANGED program
  PROVE  IInv'
<1>1. TypeInv /\ LineInv /\ StackIsAncestry /\ EventInv
  BY DEF IInv
<1>2. /\ program.sliceLoop /\ current # NoThread /\ current \in DOMAIN sliceMap
      /\ mainId' = current /\ mainInit' = sliceMap[current]
      /\ UNCHANGED <<parent, threadStack, current, sliceMap, nextId, nextAtom, resets, ended, knows>>
  BY DEF BeginSliceLoop, OnlyMain, InMain, MainId
<1>3. mainId' \in Nat /\ mainInit' \in Seq(EventType)
  BY <1>1, <1>2, CurrentFacts DEF EventInv, MapInv
<1>4. TypeInv' /\ LineInv' /\ StackIsAncestry'
  BY <1>1, <1>2, <1>3, SameThreads
<1>5. EventInv'
  BY <1>1, <1>2 DEF EventInv, FinalInv, Recorded
<1> QED
  BY <1>4, <1>5 DEF IInv

LEMMA ResetPreserves ==
  ASSUME KeepsNoEvents, IInv, Reset, UNCHANGED program
  PROVE  IInv'
<1>1. TypeInv /\ LineInv /\ StackIsAncestry /\ EventInv
  BY DEF IInv
<1>2. mainInit = <<>>
  <2>1. program \in Programs /\ program.maxResets \in Nat /\ resets \in Nat
    BY <1>1, ThreadsAssumption DEF TypeInv
  <2>2. program.maxResets # 0
    BY <2>1 DEF Reset
  <2> QED
    BY <1>1, <2>1, <2>2 DEF KeepsNoEvents, TypeInv
<1>3. /\ threadStack' = <<>> /\ current' = NoThread /\ knows' = <<>> /\ ended' = {}
      /\ sliceMap' = [t \in {mainId} |-> <<>>]
      /\ nextId' = 0 /\ nextAtom' = 0 /\ resets' = resets + 1
      /\ UNCHANGED <<parent, mainId, mainInit>>
  BY <1>2 DEF Reset, KeptSlices
<1>4. Made' = Made /\ NextThread' = NextThread
  BY <1>3 DEF Made, NextThread
<1>5. TypeInv'
  <2>1. DOMAIN knows' = {} /\ threadStack' \in Seq(Made')
    BY <1>3
  <2> HIDE DEF Made, NextThread
  <2> QED BY <1>1, <1>3, <1>4, <2>1 DEF TypeInv
<1>6. Live' = {}
  BY <1>3 DEF Live
<1>7. LineInv'
  <2> HIDE DEF Live
  <2> QED BY <1>3, <1>6 DEF LineInv
<1>8. StackIsAncestry'
  BY <1>3 DEF StackIsAncestry
<1>9. /\ Events(sliceMap') = {} /\ Recorded' = {}
      /\ \A t \in DOMAIN sliceMap' : sliceMap'[t] = <<>>
  BY <1>3 DEF Events, Recorded, Range
<1>10. MapInv(sliceMap', nextId', nextAtom')
  <2>1. \A t \in DOMAIN sliceMap' : sliceMap'[t] \in Seq(EventType) /\ DOMAIN sliceMap'[t] = {}
    <3>1. <<>> \in Seq(EventType) /\ DOMAIN <<>> = {}
      OBVIOUS
    <3> QED
      BY <1>9, <3>1, Zenon
  <2>2. Unique(sliceMap')
    BY <2>1 DEF Unique
  <2> QED
    BY <1>9, <2>1, <2>2 DEF MapInv
<1>11. EventInv'
  BY <1>3, <1>9, <1>10, ThreadsAssumption DEF EventInv, SenderInv, FinalInv
<1> QED
  BY <1>5, <1>7, <1>8, <1>11 DEF IInv

LEMMA EndPreserves ==
  ASSUME IInv, EndThread, UNCHANGED program
  PROVE  IInv'
<1> DEFINE e == SendEvent(nextId, nextAtom)
<1>1. TypeInv /\ LineInv /\ StackIsAncestry /\ EventInv
  BY DEF IInv
<1>2. /\ current # NoThread /\ nextId < MaxEvents
      /\ sliceMap' = Appended(sliceMap, current, e)
      /\ nextId' = nextId + 1 /\ nextAtom' = nextAtom + 1
      /\ current' = parent[current] /\ threadStack' = Popped(threadStack)
      /\ ended' = ended \union {current} /\ DOMAIN knows' = DOMAIN knows
      /\ UNCHANGED <<parent, mainId, mainInit, resets>>
  BY DEF EndThread
<1>3. current \in DOMAIN knows /\ current \in Made /\ current \notin ended /\ current \in Nat
  BY <1>1, <1>2, CurrentFacts
<1>4. Made' = Made /\ NextThread' = NextThread /\ Live' = Live \ {current} /\ Live \subseteq Nat
  BY <1>1, <1>2 DEF Made, NextThread, Live, TypeInv
<1>5. LineInv' /\ (current' # NoThread => current' \in Live')
  <2> HIDE DEF Live
  <2>1. current \in Live /\ \A t \in Live : t <= current
    BY <1>1, <1>2 DEF LineInv
  <2>2. CASE parent[current] = NoThread
    <3>1. ASSUME NEW t \in Live, t # current PROVE FALSE
      <4>1. t \in Nat /\ t < current
        BY <1>3, <1>4, <2>1, <3>1
      <4> QED
        BY <1>1, <2>1, <2>2, <4>1 DEF LineInv
    <3>2. Live' = {}
      BY <1>4, <3>1
    <3> QED
      BY <1>2, <2>2, <3>2 DEF LineInv
  <2>3. CASE parent[current] # NoThread
    <3>1. parent[current] \in Live' /\ \A t \in Live' : t <= parent[current]
      BY <1>1, <1>3, <1>4, <2>1, <2>3 DEF LineInv
    <3>2. \A u \in Live' : parent[u] # NoThread => parent[u] \in Live' /\ parent[u] < u
      BY <1>1, <1>3, <1>4, <2>1 DEF LineInv
    <3>3. \A t, u \in Live' : t < u => parent[u] # NoThread /\ t <= parent[u]
      BY <1>1, <1>4 DEF LineInv
    <3> QED
      BY <1>2, <2>3, <3>1, <3>2, <3>3 DEF LineInv
  <2> QED
    BY <2>2, <2>3
<1>6. threadStack' \in Seq(Made)
  <2> HIDE DEF Made
  <2>1. threadStack \in Seq(Made)
    BY <1>1 DEF TypeInv
  <2>2. Popped(threadStack) \in Seq(Made)
    BY <2>1, FrontInSeq DEF Popped
  <2> QED
    BY <1>2, <2>2
<1>7. TypeInv'
  <2>1. current' \in DOMAIN knows' \union {NoThread}
    BY <1>2, <1>5 DEF Live
  <2>2. ended' \subseteq DOMAIN knows'
    BY <1>1, <1>2, <1>3 DEF TypeInv
  <2> HIDE DEF Made, NextThread
  <2> QED BY <1>1, <1>2, <1>4, <1>6, <2>1, <2>2 DEF TypeInv
<1>8. StackIsAncestry'
  <2> SUFFICES ASSUME program.style = "begin_thread" PROVE StackIsAncestry'
    BY DEF StackIsAncestry
  <2> DEFINE top == Len(threadStack)
  <2>1. /\ threadStack \in Seq(Made) /\ threadStack # <<>> /\ Last(threadStack) = current
        /\ parent[Head(threadStack)] = NoThread
        /\ \A i \in 2 .. top : parent[threadStack[i]] = threadStack[i - 1]
    BY <1>1, <1>2 DEF StackIsAncestry, TypeInv
  <2>2. /\ threadStack' = Front(threadStack) /\ threadStack' \in Seq(Made)
        /\ Len(threadStack') = top - 1 /\ top \in Nat /\ top > 0
        /\ \A i \in 1 .. top - 1 : threadStack'[i] = threadStack[i]
        /\ threadStack[top] = current /\ Head(threadStack) = threadStack[1]
    <3> HIDE DEF Made
    <3>1. Len(threadStack) \in Nat /\ Len(threadStack) # 0
      BY <2>1, EmptyFacts
    <3>2. threadStack' = Front(threadStack)
      BY <1>2, <2>1 DEF Popped
    <3>3. /\ Front(threadStack) \in Seq(Made) /\ Len(Front(threadStack)) = top - 1
          /\ \A i \in 1 .. top - 1 : Front(threadStack)[i] = threadStack[i]
          /\ threadStack[top] = current
      BY <2>1, FrontFacts
    <3>4. Head(threadStack) = threadStack[1]
      BY <2>1, TailFacts
    <3> QED
      BY <3>1, <3>2, <3>3, <3>4
  <2>3. CASE top = 1
    <3>1. current' = NoThread
      BY <1>2, <2>1, <2>2, <2>3
    <3>2. threadStack' = <<>>
      <4>1. Len(threadStack') = 0
        BY <2>2, <2>3
      <4> HIDE DEF Made
      <4> QED BY <2>2, <4>1, EmptyFacts
    <3> QED
      BY <3>1, <3>2 DEF StackIsAncestry
  <2>4. CASE top # 1
    <3>1. top - 1 \in 1 .. top - 1 /\ 1 \in 1 .. top - 1 /\ top \in 2 .. top
      BY <2>2, <2>4
    <3>2. current' = threadStack[top - 1] /\ threadStack'[top - 1] = threadStack[top - 1]
      BY <1>2, <2>1, <2>2, <3>1
    <3>3. threadStack' # <<>> /\ Last(threadStack') = current' /\ Head(threadStack') = threadStack[1]
      <4> HIDE DEF Made, top
      <4>1. threadStack' # <<>> /\ Len(threadStack') = top - 1
        BY <2>2, <3>1, EmptyFacts
      <4>2. Last(threadStack') = threadStack'[top - 1] /\ Head(threadStack') = threadStack'[1]
        BY <2>2, <4>1, TailFacts DEF Last
      <4> QED
        BY <2>2, <3>1, <3>2, <4>1, <4>2
    <3>4. current' # NoThread
      <4>1. threadStack[top - 1] \in Made
        <5> HIDE DEF Made
        <5> QED BY <2>1, <2>2, <3>1
      <4> QED
        BY <1>1, <3>2, <4>1, ThreadsAssumption DEF TypeInv
    <3>5. \A i \in 2 .. Len(threadStack') : parent'[threadStack'[i]] = threadStack'[i - 1]
      <4>1. \A i \in 2 .. top - 1 : i \in 1 .. top - 1 /\ i - 1 \in 1 .. top - 1 /\ i \in 2 .. top
        BY <2>2
      <4> HIDE DEF top, Made
      <4> QED BY <1>2, <2>1, <2>2, <4>1
    <3>6. parent'[Head(threadStack')] = NoThread
      BY <1>2, <2>1, <2>2, <3>3
    <3> QED
      BY <3>3, <3>4, <3>5, <3>6 DEF StackIsAncestry
  <2> QED
    BY <2>3, <2>4
<1>9. EventInv'
  <2>1. nextId \in Nat /\ nextAtom \in Nat /\ \A d \in Recorded : d.zone # nextAtom
    BY <1>1, FreshZone
  <2>2. e \in EventType /\ e.id = nextId /\ e.zone = nextAtom /\ ~e.read /\ e.sync
    BY <2>1 DEF SendEvent, Event, EventType
  <2> HIDE DEF e
  <2>3. nextAtom' \in Nat /\ nextAtom <= nextAtom' /\ e.zone < nextAtom'
        /\ \A d \in Recorded : d.zone # e.zone
    BY <1>2, <2>1, <2>2
  <2> QED
    BY <1>1, <1>2, <1>3, <2>2, <2>3, Recorded1
<1> QED
  BY <1>5, <1>7, <1>8, <1>9 DEF IInv

(* A child is recorded by a send event of its parent and a receive event   *)
(* of its own.                                                             *)
LEMMA ChildEvents ==
  ASSUME TypeInv, LineInv, EventInv, BeginChild
  PROVE  EventInv'
<1> DEFINE s == SendEvent(nextId, nextAtom)
           r == ReceiveEvent(nextId + 1, nextAtom)
           sent == Appended(sliceMap, current, s)
           received == Appended(sent, NextThread, r)
<1>1. /\ current # NoThread /\ nextId + 1 < MaxEvents
      /\ sliceMap' = received
      /\ nextId' = nextId + 2 /\ nextAtom' = nextAtom + 1 /\ ended' = ended
  BY DEF BeginChild
<1>2. /\ nextId \in Nat /\ nextId + 1 \in Nat /\ nextAtom \in Nat /\ nextAtom + 1 \in Nat
      /\ \A d \in Recorded : d.zone # nextAtom
  BY FreshZone
<1>3. /\ s \in EventType /\ s.id = nextId /\ s.zone = nextAtom /\ ~s.read /\ s.sync
      /\ r \in EventType /\ r.id = nextId + 1 /\ r.zone = nextAtom /\ r.read /\ r.sync
  BY <1>2 DEF SendEvent, ReceiveEvent, Event, EventType
<1>4. current \notin ended /\ NextThread \notin ended
  <2>1. NextThread \notin Made /\ ended \subseteq Made
    BY DEF TypeInv
  <2> QED
    BY <1>1, <2>1, CurrentFacts
<1> HIDE DEF s, r, sent, received
<1>5. /\ MapInv(sent, nextId + 1, nextAtom + 1)
      /\ SenderInv(Events(sent)) /\ Events(sent) = Recorded \union {s}
      /\ \A u \in ended : u \in DOMAIN sent /\ sent[u] = sliceMap[u]
  <2>1. nextAtom <= nextAtom + 1 /\ s.zone < nextAtom + 1
    BY <1>2, <1>3
  <2> QED
    BY <1>2, <1>3, <1>4, <2>1, Recording DEF sent
<1>6. \A t \in DOMAIN sent : sent[t] \in Seq(EventType)
  BY <1>5 DEF MapInv
<1>7. MapInv(received, nextId', nextAtom')
  <2>1. MapInv(received, nextId + 1 + 1, nextAtom + 1)
    <3>1. nextAtom + 1 <= nextAtom + 1 /\ r.zone < nextAtom + 1
      BY <1>2, <1>3
    <3> QED
      BY <1>2, <1>3, <1>5, <3>1, AppendedInv DEF received
  <2>2. nextId' = nextId + 1 + 1
    BY <1>1, <1>2
  <2> QED
    BY <1>1, <2>1, <2>2
<1>8. SenderInv(Events(received))
  <2>1. Events(received) = Events(sent) \union {r}
    BY <1>3, <1>6, AppendedEvents DEF received
  <2>2. s \in Events(sent) /\ s.zone = r.zone
    BY <1>3, <1>5
  <2>3. SenderInv(Events(sent) \union {r})
    BY <1>3, <1>5, <2>2, SenderFacts
  <2> QED
    BY <2>1, <2>3
<1>9. FinalInv'
  <2>1. DOMAIN received = DOMAIN sent \union {NextThread}
    BY AppendedDomain DEF received
  <2>2. ASSUME NEW u \in ended
        PROVE  u \in DOMAIN received /\ received[u] = sliceMap[u]
    BY <1>4, <1>5, <2>1, AppendedOthers DEF received
  <2> QED
    BY <1>1, <2>2 DEF EventInv, FinalInv
<1>10. Recorded' = Events(sliceMap')
  BY DEF Recorded, Events
<1>11. nextId' \in 0 .. MaxEvents /\ nextAtom' \in Nat
  BY <1>1, <1>2, ThreadsAssumption
<1> QED
  BY <1>1, <1>7, <1>8, <1>9, <1>10, <1>11 DEF EventInv

LEMMA BeginChildPreserves ==
  ASSUME IInv, BeginThread \/ ConstructThread, UNCHANGED program
  PROVE  IInv'
<1>1. TypeInv /\ LineInv /\ StackIsAncestry /\ EventInv /\ BeginChild
  BY DEF IInv, BeginThread, ConstructThread
<1>2. /\ current # NoThread /\ Make(current) /\ current' = NextThread
      /\ DOMAIN knows' = DOMAIN knows \union {current} \union {NextThread}
      /\ UNCHANGED <<mainId, mainInit, resets, ended>>
  BY <1>1 DEF BeginChild, Knowing
<1>3. /\ current \in DOMAIN knows /\ current \in Made /\ current \notin ended
      /\ current \in Nat /\ current < NextThread
  BY <1>1, <1>2, CurrentFacts
<1>4. /\ NextThread' = NextThread + 1 /\ NextThread \notin Made
      /\ Made' = Made \union {NextThread} /\ Made' = 0 .. NextThread' - 1
      /\ parent' \in [Made' -> Made' \union {NoThread}]
      /\ parent'[NextThread] = current
      /\ \A t \in Made : parent'[t] = parent[t]
      /\ NextThread # NoThread /\ \A t \in Made : t \in Nat /\ t < NextThread
  <2>1. current \in Made \union {NoThread}
    BY <1>3
  <2> HIDE DEF Made, NextThread
  <2> QED BY <1>1, <1>2, <2>1, MakeFacts
<1>5. NextThread \in Nat /\ DOMAIN knows' = DOMAIN knows \union {NextThread}
  BY <1>1, <1>2, <1>3 DEF TypeInv
<1>6. threadStack' \in Seq(Made')
  <2> HIDE DEF Made, NextThread
  <2>1. threadStack \in Seq(Made')
    BY <1>1, <1>4 DEF TypeInv
  <2>2. threadStack' = threadStack \/ threadStack' = Append(threadStack, NextThread)
    BY DEF BeginThread, ConstructThread, Pushed
  <2>3. NextThread \in Made'
    BY <1>4
  <2> QED
    BY <2>1, <2>2, <2>3, AppendFacts
<1>7. TypeInv'
  <2> HIDE DEF Made, NextThread
  <2>1. NextThread' \in Nat /\ DOMAIN knows' \subseteq Made'
    BY <1>1, <1>4, <1>5 DEF TypeInv
  <2>2. ended' \subseteq DOMAIN knows' /\ current' \in DOMAIN knows'
    BY <1>1, <1>2, <1>5 DEF TypeInv
  <2> QED
    BY <1>1, <1>2, <1>4, <1>6, <2>1, <2>2 DEF TypeInv
<1>8. Live' = Live \union {NextThread} /\ Live \subseteq Made
  BY <1>1, <1>2, <1>4, <1>5 DEF Live, TypeInv
<1>9. LineInv'
  <2> HIDE DEF Made, NextThread, Live
  <2>1. current \in Live /\ \A t \in Live : t <= current /\ t \in Nat /\ t < NextThread
    BY <1>1, <1>2, <1>4, <1>8 DEF LineInv
  <2>2. current' = NextThread /\ current' # NoThread /\ current' \in Live' /\ \A t \in Live' : t <= current'
    BY <1>2, <1>4, <1>5, <1>8, <2>1
  <2>3. ASSUME NEW u \in Live', parent'[u] # NoThread
        PROVE  parent'[u] \in Live' /\ parent'[u] < u
    <3>1. CASE u = NextThread
      BY <1>3, <1>4, <1>8, <2>1, <3>1
    <3>2. CASE u # NextThread
      BY <1>1, <1>4, <1>8, <2>3, <3>2 DEF LineInv
    <3> QED
      BY <3>1, <3>2
  <2>4. ASSUME NEW t \in Live', NEW u \in Live', t < u
        PROVE  parent'[u] # NoThread /\ t <= parent'[u]
    <3>1. CASE u = NextThread
      BY <1>2, <1>4, <1>5, <1>8, <2>1, <2>4, <3>1
    <3>2. CASE u # NextThread
      <4>1. u \in Live /\ t \in Live
        BY <1>5, <1>8, <2>1, <2>4, <3>2
      <4> QED
        BY <1>1, <1>4, <1>8, <2>4, <4>1 DEF LineInv
    <3> QED
      BY <3>1, <3>2
  <2> QED
    BY <2>2, <2>3, <2>4 DEF LineInv
<1>10. StackIsAncestry'
  <2> SUFFICES ASSUME program.style = "begin_thread" PROVE StackIsAncestry'
    BY DEF StackIsAncestry
  <2> DEFINE top == Len(threadStack)
  <2>1. threadStack' = Append(threadStack, NextThread)
    BY DEF BeginThread, ConstructThread, Pushed
  <2>2. /\ threadStack \in Seq(Made) /\ threadStack # <<>> /\ Last(threadStack) = current
        /\ parent[Head(threadStack)] = NoThread
        /\ \A i \in 2 .. top : parent[threadStack[i]] = threadStack[i - 1]
    BY <1>1, <1>2 DEF StackIsAncestry, TypeInv
  <2> HIDE DEF Made, NextThread
  <2>3. /\ top \in Nat /\ top > 0
        /\ threadStack[top] = current /\ Head(threadStack) = threadStack[1]
    <3>1. Len(threadStack) \in Nat /\ Len(threadStack) # 0
      BY <2>2, EmptyFacts
    <3>2. threadStack[Len(threadStack)] = current
      BY <2>2, FrontFacts
    <3>3. Head(threadStack) = threadStack[1]
      BY <2>2, TailFacts
    <3> QED
      BY <3>1, <3>2, <3>3
  <2>4. \A i \in 1 .. top : threadStack[i] \in Made
    BY <2>2, ElementInSet
  <2>5. threadStack \in Seq(Made') /\ NextThread \in Made'
    BY <1>4, <2>2
  <2>6. /\ threadStack' \in Seq(Made') /\ Len(threadStack') = top + 1
        /\ threadStack'[top + 1] = NextThread
        /\ \A i \in 1 .. top : threadStack'[i] = threadStack[i]
    BY <2>1, <2>5, AppendFacts
  <2> HIDE DEF top
  <2>7. threadStack' # <<>> /\ Last(threadStack') = NextThread /\ Head(threadStack') = threadStack'[1]
    <3>1. threadStack' # <<>>
      BY <2>3, <2>6, EmptyFacts
    <3> QED
      BY <2>6, <3>1, TailFacts DEF Last
  <2>8. parent'[Head(threadStack')] = NoThread
    <3>1. 1 \in 1 .. top
      BY <2>3
    <3> QED
      BY <1>4, <2>2, <2>3, <2>4, <2>6, <2>7, <3>1
  <2>9. ASSUME NEW i \in 2 .. Len(threadStack')
        PROVE  parent'[threadStack'[i]] = threadStack'[i - 1]
    <3>1. CASE i = top + 1
      <4>1. i - 1 = top /\ top \in 1 .. top
        BY <2>3, <3>1
      <4> QED
        BY <1>4, <2>3, <2>6, <3>1, <4>1
    <3>2. CASE i # top + 1
      <4>1. i \in 2 .. top /\ i \in 1 .. top /\ i - 1 \in 1 .. top
        BY <2>3, <2>6, <3>2
      <4> QED
        BY <1>4, <2>2, <2>4, <2>6, <4>1
    <3> QED
      BY <3>1, <3>2
  <2> QED
    BY <1>2, <1>4, <2>7, <2>8, <2>9 DEF StackIsAncestry
<1>11. EventInv'
  BY <1>1, ChildEvents
<1> QED
  BY <1>7, <1>9, <1>10, <1>11 DEF IInv

-----------------------------------------------------------------------------
LEMMA StepPreserves == KeepsNoEvents /\ IInv /\ [Next]_vars => IInv'
<1> SUFFICES ASSUME KeepsNoEvents, IInv, [Next]_vars PROVE IInv'
  OBVIOUS
<1>1. CASE UNCHANGED vars
  <2>1. /\ Made' = Made /\ NextThread' = NextThread /\ Live' = Live /\ Recorded' = Recorded
        /\ TypeInv /\ LineInv /\ StackIsAncestry /\ EventInv
    BY <1>1 DEF vars, IInv, Made, NextThread, Live, Recorded
  <2>2. TypeInv' /\ LineInv' /\ StackIsAncestry'
    BY <1>1, <2>1, SameThreads DEF vars, TypeInv
  <2>3. EventInv'
    BY <1>1, <2>1 DEF vars, EventInv, FinalInv
  <2> QED
    BY <2>2, <2>3 DEF IInv
<1>2. CASE Next
  <2>1. UNCHANGED program
    BY <1>2 DEF Next
  <2>2. CASE BeginMain
    BY <2>1, <2>2, BeginMainPreserves
  <2>3. CASE BeginThread \/ ConstructThread
    BY <2>1, <2>3, BeginChildPreserves
  <2>4. CASE EndChild \/ EndMain
    BY <2>1, <2>4, EndPreserves DEF EndChild, EndMain
  <2>5. CASE \E t \in ended : Join(t)
    BY <2>1, <2>5, JoinPreserves
  <2>6. CASE Declare \/ Read
    BY <2>1, <2>6, DeclarePreserves, ReadPreserves
  <2>7. CASE BeginSliceLoop
    BY <2>1, <2>7, BeginSliceLoopPreserves
  <2>8. CASE Reset
    BY <2>1, <2>8, ResetPreserves
  <2> QED
    BY <1>2, <2>2, <2>3, <2>4, <2>5, <2>6, <2>7, <2>8 DEF Next
<1> QED
  BY <1>1, <1>2

(* The invariant from which the other theorems follow: the threads that    *)
(* have not ended are a line, and zones and identifiers are given once.    *)
THEOREM Inductive ==
  ASSUME KeepsNoEvents
  PROVE  Spec => []IInv
BY InitInv, StepPreserves, PTL DEF Spec

(* Type correctness. *)
THEOREM TypeCorrect ==
  ASSUME KeepsNoEvents
  PROVE  Spec => []TypeOK
<1>1. IInv => TypeOK
  <2> SUFFICES ASSUME IInv PROVE TypeOK
    OBVIOUS
  <2>1. TypeInv /\ EventInv
    BY DEF IInv
  <2>2. \A t \in DOMAIN sliceMap :
          sliceMap[t] \in Seq([id : Nat, zone : Nat, read : BOOLEAN, sync : BOOLEAN])
    BY <2>1 DEF EventInv, MapInv, EventType
  <2>3. parent \in [0 .. NextThread - 1 -> Nat \union {NoThread}]
    <3>1. Made = 0 .. NextThread - 1 /\ parent \in [Made -> Made \union {NoThread}] /\ Made \subseteq Nat
      BY <2>1 DEF TypeInv
    <3> HIDE DEF Made, NextThread
    <3> QED BY <3>1
  <2>4. current \in Made \union {NoThread} /\ ended \subseteq Made /\ threadStack \in Seq(Made)
    BY <2>1 DEF TypeInv
  <2> HIDE DEF Made, NextThread
  <2> QED BY <2>1, <2>2, <2>3, <2>4 DEF TypeOK, TypeInv, EventInv
<1> QED
  BY <1>1, Inductive, PTL

(* In programs that call begin_thread(), m_thread_stack is the line of     *)
(* parents of the current thread: end_thread() pops the thread it ends.    *)
THEOREM StackIsTheLine ==
  ASSUME KeepsNoEvents
  PROVE  Spec => []StackIsAncestry
<1>1. IInv => StackIsAncestry
  BY DEF IInv
<1> QED
  BY <1>1, Inductive, PTL

(* No two recorded events have one identifier.                             *)
THEOREM IdsAreUnique ==
  ASSUME KeepsNoEvents
  PROVE  Spec => []UniqueIds
<1>1. IInv => UniqueIds
  BY DEF IInv, EventInv, MapInv, Unique, UniqueIds
<1> QED
  BY <1>1, Inductive, PTL

(* What a thread that starts, or a join, waits for is one send event, and  *)
(* nothing else is written to its zone.                                    *)
THEOREM SendersAreUnique ==
  ASSUME KeepsNoEvents
  PROVE  Spec => []OneSender
<1>1. IInv => OneSender
  BY DEF IInv, EventInv, SenderInv, Sender, OneSender
<1> QED
  BY <1>1, Inductive, PTL

-----------------------------------------------------------------------------
(* The constraints of a slice map: the events of each slice in turn, and   *)
(* each send event before the receive events of its zone.                  *)
SlicesInTurn(map) == UNION { InTurn(map[t]) : t \in DOMAIN map }

ConstraintsOf(map) == SlicesInTurn(map) \union Synced(Events(map))

LEMMA ConstraintsAre == Constraints = ConstraintsOf(sliceMap)
BY DEF Constraints, ConstraintsOf, SlicesInTurn, Recorded, Events

(* The last event of a thread, and those that an event waits for.          *)
LastIds(map, t) == IF Slice(map, t) = <<>> THEN {} ELSE {Last(Slice(map, t)).id}

Senders(e, E) ==
  IF e.sync /\ e.read THEN { s.id : s \in { d \in E : d.sync /\ ~d.read /\ d.zone = e.zone } }
  ELSE {}

LEMMA AppendedInTurn ==
  ASSUME NEW S, NEW q \in Seq(S), NEW e \in S
  PROVE  InTurn(Append(q, e))
           = InTurn(q) \union ((IF q = <<>> THEN {} ELSE {Last(q).id}) \X {e.id})
<1> DEFINE r == Append(q, e)
           n == Len(q)
<1>1. /\ n \in Nat /\ Len(r) = n + 1 /\ r[n + 1] = e
      /\ \A i \in 1 .. n : r[i] = q[i]
      /\ q = <<>> <=> n = 0
  BY AppendFacts, EmptyFacts
<1>2. Last(q) = q[n]
  BY DEF Last
<1> DEFINE last == IF q = <<>> THEN {} ELSE {Last(q).id}
<1>3. \A x : x \in last <=> n # 0 /\ x = q[n].id
  BY <1>1, <1>2
<1> HIDE DEF r, n, last
<1>4. \A x : x \in InTurn(r) <=> \E i \in 1 .. n : x = <<r[i].id, r[i + 1].id>>
  BY <1>1 DEF InTurn
<1>5. \A x : x \in InTurn(q) <=> \E i \in 1 .. n - 1 : x = <<q[i].id, q[i + 1].id>>
  BY DEF InTurn, n
<1>6. ASSUME NEW x
      PROVE  x \in InTurn(r) <=> x \in InTurn(q) \/ (n # 0 /\ x = <<q[n].id, e.id>>)
  <2>1. ASSUME NEW i \in 1 .. n - 1
        PROVE  i \in 1 .. n /\ r[i] = q[i] /\ r[i + 1] = q[i + 1]
    BY <1>1
  <2>2. n # 0 => n \in 1 .. n /\ r[n] = q[n] /\ r[n + 1] = e
    BY <1>1
  <2>3. \A i \in 1 .. n : i \in 1 .. n - 1 \/ (i = n /\ n # 0)
    BY <1>1
  <2> DEFINE Step2(i) == <<r[i].id, r[i + 1].id>>
             Step1(i) == <<q[i].id, q[i + 1].id>>
  <2>4. /\ \A i \in 1 .. n - 1 : i \in 1 .. n /\ Step2(i) = Step1(i)
        /\ n # 0 => n \in 1 .. n /\ Step2(n) = <<q[n].id, e.id>>
    BY <2>1, <2>2
  <2>5. /\ x \in InTurn(r) <=> \E i \in 1 .. n : x = Step2(i)
        /\ x \in InTurn(q) <=> \E i \in 1 .. n - 1 : x = Step1(i)
    BY <1>4, <1>5
  <2> HIDE DEF Step1, Step2
  <2> QED
    BY <2>3, <2>4, <2>5
<1>7. \A x : x \in last \X {e.id} <=> n # 0 /\ x = <<q[n].id, e.id>>
  BY <1>3
<1>8. InTurn(r) = InTurn(q) \union (last \X {e.id})
  BY <1>6, <1>7
<1> QED
  BY <1>8 DEF r, last

LEMMA AppendedTurns ==
  ASSUME NEW map, NEW t, NEW e \in EventType, \A u \in DOMAIN map : map[u] \in Seq(EventType)
  PROVE  SlicesInTurn(Appended(map, t, e))
           = SlicesInTurn(map) \union (LastIds(map, t) \X {e.id})
<1> DEFINE new == Appended(map, t, e)
<1>1. DOMAIN new = DOMAIN map \union {t} /\ \A u \in DOMAIN map \ {t} : new[u] = map[u]
  BY DEF Appended
<1>2. InTurn(new[t]) = InTurn(Slice(map, t)) \union (LastIds(map, t) \X {e.id})
  <2>1. new[t] = Append(Slice(map, t), e)
    BY DEF Appended
  <2>2. Slice(map, t) \in Seq(EventType)
    BY SliceInType
  <2> QED
    BY <2>1, <2>2, AppendedInTurn DEF LastIds
<1>3. CASE t \in DOMAIN map
  <2>1. Slice(map, t) = map[t] /\ DOMAIN new = DOMAIN map
    BY <1>1, <1>3 DEF Slice
  <2> HIDE DEF new
  <2>2. SlicesInTurn(new) = SlicesInTurn(map) \union (LastIds(map, t) \X {e.id})
    BY <1>1, <1>2, <1>3, <2>1 DEF SlicesInTurn
  <2> QED
    BY <2>2 DEF new
<1>4. CASE t \notin DOMAIN map
  <2>1. Slice(map, t) = <<>>
    BY <1>4 DEF Slice
  <2>2. InTurn(<<>>) = {}
    BY DEF InTurn
  <2>3. \A u \in DOMAIN map : new[u] = map[u]
    BY <1>1, <1>4
  <2> HIDE DEF new
  <2>4. SlicesInTurn(new) = SlicesInTurn(map) \union (LastIds(map, t) \X {e.id})
    BY <1>1, <1>2, <2>1, <2>2, <2>3 DEF SlicesInTurn
  <2> QED
    BY <2>4 DEF new
<1> QED
  BY <1>3, <1>4

LEMMA AddedSynced ==
  ASSUME NEW E, NEW e, e.read \in BOOLEAN, e.sync \in BOOLEAN,
         ~e.read => \A d \in E : d.zone # e.zone
  PROVE  Synced(E \union {e}) = Synced(E) \union (Senders(e, E) \X {e.id})
<1> DEFINE F == E \union {e}
           Sent(s, r) == s.sync /\ ~s.read /\ r.sync /\ r.read /\ s.zone = r.zone
<1>1. \A D : Synced(D) = { <<c[1].id, c[2].id>> : c \in { p \in D \X D : Sent(p[1], p[2]) } }
  BY DEF Synced
<1>2. \A D, x : x \in Synced(D) <=> \E s \in D, r \in D : Sent(s, r) /\ x = <<s.id, r.id>>
  <2> TAKE D, x
  <2> HIDE DEF Sent
  <2>1. ASSUME NEW s \in D, NEW r \in D, Sent(s, r), x = <<s.id, r.id>>
        PROVE  x \in Synced(D)
    <3>1. <<s, r>> \in { p \in D \X D : Sent(p[1], p[2]) } /\ <<s, r>>[1] = s /\ <<s, r>>[2] = r
      BY <2>1
    <3> QED
      BY <1>1, <2>1, <3>1
  <2>2. ASSUME x \in Synced(D)
        PROVE  \E s \in D, r \in D : Sent(s, r) /\ x = <<s.id, r.id>>
    <3>1. PICK c \in D \X D : Sent(c[1], c[2]) /\ x = <<c[1].id, c[2].id>>
      BY <1>1, <2>2
    <3> QED
      BY <3>1
  <2> QED
    BY <2>1, <2>2
<1>3. ~ Sent(e, e) /\ \A r \in E : ~ Sent(e, r)
  BY DEF Sent
<1>4. \A x : x \in Senders(e, E) <=> \E s \in E : Sent(s, e) /\ x = s.id
  BY DEF Senders
<1> HIDE DEF Sent, F
<1>5. \A x : x \in Synced(F)
              <=> x \in Synced(E) \/ \E s \in E : Sent(s, e) /\ x = <<s.id, e.id>>
  BY <1>2, <1>3 DEF F
<1>6. Synced(F) = Synced(E) \union (Senders(e, E) \X {e.id})
  BY <1>4, <1>5
<1> QED
  BY <1>6 DEF F

(* What holds of a slice map, the order and what threads know.             *)
OrderInvOf(map, before, known, id) ==
  /\ before \in SUBSET ((0 .. id - 1) \X (0 .. id - 1))
  /\ ConstraintsOf(map) \in SUBSET ((0 .. id - 1) \X (0 .. id - 1))
  /\ IsClosure(before, ConstraintsOf(map))
  /\ \A t \in DOMAIN known : known[t] = Past(LastIds(map, t), before)
  /\ \A t \in DOMAIN map : map[t] # <<>> => t \in DOMAIN known

LEMMA EventIds ==
  ASSUME NEW map, NEW id \in Nat, NEW atom \in Nat, MapInv(map, id, atom)
  PROVE  /\ \A e \in Events(map) : e.id \in 0 .. id - 1 /\ e \in EventType
         /\ \A t : LastIds(map, t) \in SUBSET (0 .. id - 1)
         /\ \A e : Senders(e, Events(map)) \in SUBSET (0 .. id - 1)
<1>1. \A e \in Events(map) : e.id \in 0 .. id - 1 /\ e \in EventType
  <2>1. Events(map) \subseteq EventType
    BY EventFacts DEF MapInv
  <2> QED
    BY <2>1 DEF MapInv, EventType
<1>2. ASSUME NEW t
      PROVE  LastIds(map, t) \in SUBSET (0 .. id - 1)
  <2> SUFFICES ASSUME Slice(map, t) # <<>> PROVE Last(Slice(map, t)).id \in 0 .. id - 1
    BY DEF LastIds
  <2>1. t \in DOMAIN map /\ Slice(map, t) = map[t] /\ map[t] \in Seq(EventType)
    BY DEF Slice, MapInv
  <2>2. Len(map[t]) \in DOMAIN map[t]
    <3>1. Len(map[t]) \in Nat /\ Len(map[t]) # 0 /\ DOMAIN map[t] = 1 .. Len(map[t])
      BY <2>1, EmptyFacts
    <3> QED
      BY <3>1
  <2>4. Last(map[t]) = map[t][Len(map[t])]
    BY DEF Last
  <2>3. Last(map[t]) \in Events(map)
    BY <2>1, <2>2, <2>4, EventFacts DEF MapInv
  <2> QED
    BY <1>1, <2>1, <2>3
<1>3. \A e : Senders(e, Events(map)) \in SUBSET (0 .. id - 1)
  BY <1>1 DEF Senders
<1> QED
  BY <1>1, <1>2, <1>3

LEMMA AppendedConstraints ==
  ASSUME NEW map, NEW t, NEW e \in EventType, \A u \in DOMAIN map : map[u] \in Seq(EventType),
         ~e.read => \A d \in Events(map) : d.zone # e.zone
  PROVE  ConstraintsOf(Appended(map, t, e))
           = ConstraintsOf(map)
               \union ((LastIds(map, t) \union Senders(e, Events(map))) \X {e.id})
<1>1. SlicesInTurn(Appended(map, t, e)) = SlicesInTurn(map) \union (LastIds(map, t) \X {e.id})
  BY AppendedTurns
<1>2. Events(Appended(map, t, e)) = Events(map) \union {e}
  BY AppendedEvents
<1>3. Synced(Events(map) \union {e})
        = Synced(Events(map)) \union (Senders(e, Events(map)) \X {e.id})
  <2>1. e.read \in BOOLEAN /\ e.sync \in BOOLEAN
    BY DEF EventType
  <2> QED
    BY <2>1, AddedSynced
<1>4. (LastIds(map, t) \union Senders(e, Events(map))) \X {e.id}
        = (LastIds(map, t) \X {e.id}) \union (Senders(e, Events(map)) \X {e.id})
  OBVIOUS
<1> QED
  BY <1>1, <1>2, <1>3, <1>4 DEF ConstraintsOf

(* A slice map with one event more, in the slice of thread t: its clock is *)
(* constrained to be above some others.                                    *)
OneMore(map, new, t, clocks, id) ==
  /\ clocks \in SUBSET (0 .. id - 1)
  /\ \A u : LastIds(map, u) \in SUBSET (0 .. id - 1)
  /\ LastIds(new, t) = {id}
  /\ \A u : u # t => LastIds(new, u) = LastIds(map, u)
  /\ DOMAIN new = DOMAIN map \union {t}
  /\ \A u \in DOMAIN map \ {t} : new[u] = map[u]
  /\ ConstraintsOf(new) = ConstraintsOf(map) \union (clocks \X {id})

(* The invariant after one event more, whose identifier is new and that is *)
(* constrained to be above some others.                                    *)
LEMMA OrderedNext ==
  ASSUME NEW map, NEW new, NEW id \in Nat, NEW before, NEW known, OrderInvOf(map, before, known, id),
         NEW t, NEW clocks, OneMore(map, new, t, clocks, id)
  PROVE  LET past == Past(clocks, before)
         IN  OrderInvOf(new, before \union After(past, id),
                        Knowing(known, t, past \union {id}), id + 1)
<1> DEFINE past == Past(clocks, before)
           U == 0 .. id - 1
           V == 0 .. id + 1 - 1
           after == before \union After(past, id)
           knows2 == Knowing(known, t, past \union {id})
<1>1. U \subseteq V /\ id \in V /\ id \notin U
  OBVIOUS
<1>2. clocks \in SUBSET U /\ \A u : LastIds(map, u) \in SUBSET U
  BY DEF OneMore
<1>3. before \in SUBSET (U \X U) /\ ConstraintsOf(map) \in SUBSET (U \X U)
  BY DEF OrderInvOf
<1>4. after = Extended(before, clocks, id)
  BY DEF Extended, After
<1>5. /\ DOMAIN knows2 = DOMAIN known \union {t}
      /\ knows2[t] = past \union {id}
      /\ \A u \in DOMAIN known \ {t} : knows2[u] = known[u]
  BY DEF Knowing
<1> HIDE DEF U, V, past, after, knows2
<1>6. On(before, U) /\ On(ConstraintsOf(map), U)
  BY <1>3 DEF On
<1>7. past \in SUBSET U
  BY <1>2, <1>3, PastIn DEF past
<1>8. Past({id}, after) = past \union {id}
  <2>1. id \notin U /\ clocks \in SUBSET U /\ On(before, U)
    BY <1>1, <1>2, <1>6
  <2>2. Past({id}, Extended(before, clocks, id)) = Past(clocks, before) \union {id}
    BY <2>1, NewPastOf
  <2> QED
    BY <1>4, <2>2 DEF past
<1>9. \A other \in SUBSET U : Past(other, after) = Past(other, before)
  <2>1. id \notin U /\ clocks \in SUBSET U /\ On(before, U)
    BY <1>1, <1>2, <1>6
  <2>2. \A other \in SUBSET U : Past(other, Extended(before, clocks, id)) = Past(other, before)
    BY <2>1, OldPastOf
  <2> QED
    BY <1>4, <2>2
<1>10. IsClosure(after, ConstraintsOf(new))
  <2>1. IsClosure(before \union (Past(clocks, before) \X {id}),
                  ConstraintsOf(map) \union (clocks \X {id}))
    BY <1>1, <1>2, <1>3, ExtendedClosure DEF OrderInvOf
  <2> QED
    BY <1>4, <2>1 DEF Extended, OneMore
<1>11. after \in SUBSET (V \X V)
  BY <1>1, <1>3, <1>4, <1>7 DEF Extended, past
<1>12. ConstraintsOf(new) \in SUBSET (V \X V)
  BY <1>1, <1>2, <1>3 DEF OneMore
<1>13. ASSUME NEW u \in DOMAIN knows2
       PROVE  knows2[u] = Past(LastIds(new, u), after)
  <2>1. CASE u = t
    BY <1>5, <1>8, <2>1 DEF OneMore
  <2>2. CASE u # t
    <3>1. LastIds(new, u) = LastIds(map, u)
      BY <2>2 DEF OneMore
    <3>2. Past(LastIds(map, u), after) = Past(LastIds(map, u), before)
      BY <1>2, <1>9
    <3>3. knows2[u] = known[u] /\ u \in DOMAIN known
      BY <1>5, <2>2
    <3> QED
      BY <3>1, <3>2, <3>3 DEF OrderInvOf
  <2> QED
    BY <2>1, <2>2
<1>14. \A u \in DOMAIN new : new[u] # <<>> => u \in DOMAIN knows2
  BY <1>5 DEF OrderInvOf, OneMore
<1>15. OrderInvOf(new, after, knows2, id + 1)
  BY <1>10, <1>11, <1>12, <1>13, <1>14 DEF OrderInvOf, V
<1> QED
  BY <1>15 DEF past, after, knows2

LEMMA RecordedOrder ==
  ASSUME NEW map, NEW id \in Nat, NEW atom \in Nat, MapInv(map, id, atom),
         NEW before, NEW known, OrderInvOf(map, before, known, id),
         NEW t, NEW e \in EventType, e.id = id,
         ~e.read => \A d \in Events(map) : d.zone # e.zone,
         NEW past, past = Past(LastIds(map, t) \union Senders(e, Events(map)), before)
  PROVE  OrderInvOf(Appended(map, t, e), before \union After(past, id),
                    Knowing(known, t, past \union {id}), id + 1)
<1> DEFINE clocks == LastIds(map, t) \union Senders(e, Events(map))
           new == Appended(map, t, e)
<1>1. \A u \in DOMAIN map : map[u] \in Seq(EventType)
  BY DEF MapInv
<1>2. clocks \in SUBSET (0 .. id - 1) /\ \A u : LastIds(map, u) \in SUBSET (0 .. id - 1)
  BY EventIds
<1>3. ConstraintsOf(new) = ConstraintsOf(map) \union (clocks \X {id})
  <2>1. ConstraintsOf(new) = ConstraintsOf(map) \union (clocks \X {e.id})
    BY <1>1, AppendedConstraints
  <2> HIDE DEF clocks, new
  <2> QED BY <2>1
<1>4. DOMAIN new = DOMAIN map \union {t} /\ \A u \in DOMAIN map \ {t} : new[u] = map[u]
  BY DEF Appended
<1>5. LastIds(new, t) = {id}
  <2>1. new[t] # <<>> /\ Last(new[t]).id = id
    <3>1. new[t] # <<>> /\ Last(new[t]) = e
      BY <1>1, AppendedLast
    <3> HIDE DEF new
    <3> QED BY <3>1
  <2>2. t \in DOMAIN new
    BY <1>4
  <2> HIDE DEF new
  <2> QED BY <2>1, <2>2 DEF Slice, LastIds
<1>6. ASSUME NEW u, u # t
      PROVE  LastIds(new, u) = LastIds(map, u)
  <2>1. Slice(new, u) = Slice(map, u)
    BY <1>6 DEF Slice, Appended
  <2> QED
    BY <2>1, Zenon DEF LastIds
<1> HIDE DEF clocks, new
<1>7. past = Past(clocks, before) /\ OneMore(map, new, t, clocks, id)
  BY <1>2, <1>3, <1>4, <1>5, <1>6 DEF clocks, OneMore
<1>8. OrderInvOf(new, before \union After(past, id), Knowing(known, t, past \union {id}), id + 1)
  BY <1>7, OrderedNext
<1> QED
  BY <1>8 DEF new

-----------------------------------------------------------------------------
OrderInv == OrderInvOf(sliceMap, order, knows, nextId)

LEMMA InitOrder == Init => OrderInv
<1> SUFFICES ASSUME Init PROVE OrderInv
  OBVIOUS
<1>1. order = {} /\ knows = <<>> /\ nextId = 0 /\ \A t \in DOMAIN sliceMap : sliceMap[t] = <<>>
  BY DEF Init
<1>2. Events(sliceMap) = {} /\ InTurn(<<>>) = {} /\ DOMAIN knows = {}
  BY <1>1 DEF Events, Range, InTurn
<1>3. Synced({}) = {}
  BY DEF Synced
<1>4. SlicesInTurn(sliceMap) = {}
  BY <1>1, <1>2 DEF SlicesInTurn
<1>5. ConstraintsOf(sliceMap) = {}
  BY <1>2, <1>3, <1>4 DEF ConstraintsOf
<1> QED
  BY <1>1, <1>2, <1>5 DEF OrderInv, OrderInvOf, IsClosure, Transitive

LEMMA CurrentRecords ==
  ASSUME IInv, OrderInv, current # NoThread, NEW e \in EventType, e.id = nextId,
         ~e.read => \A d \in Recorded : d.zone # e.zone,
         NEW past, past = knows[current] \union Past(Senders(e, Recorded), order),
         nextId' = nextId + 1, sliceMap' = Appended(sliceMap, current, e),
         order' = order \union After(past, nextId),
         knows' = [knows EXCEPT ![current] = past \union {nextId}]
  PROVE  OrderInv'
<1>1. /\ nextId \in Nat /\ nextAtom \in Nat /\ MapInv(sliceMap, nextId, nextAtom)
      /\ Recorded = Events(sliceMap)
  BY FreshZone DEF IInv, EventInv, Recorded, Events
<1>2. current \in DOMAIN knows
  BY CurrentFacts DEF IInv
<1>3. knows' = Knowing(knows, current, past \union {nextId})
  BY <1>2 DEF Knowing
<1>4. knows[current] = Past(LastIds(sliceMap, current), order)
  BY <1>2 DEF OrderInv, OrderInvOf
<1>5. past = Past(LastIds(sliceMap, current) \union Senders(e, Recorded), order)
  BY <1>4, PastOfUnion
<1>6. OrderInvOf(Appended(sliceMap, current, e), order \union After(past, nextId),
                 Knowing(knows, current, past \union {nextId}), nextId + 1)
  BY <1>1, <1>5, RecordedOrder DEF OrderInv
<1> QED
  BY <1>3, <1>6 DEF OrderInv

LEMMA PastOfNothing == \A before : Past({}, before) = {}
BY DEF Past

LEMMA AccessOrder ==
  ASSUME IInv, OrderInv, Declare \/ Read
  PROVE  OrderInv'
<1>1. PICK zone \in Nat, read \in BOOLEAN :
        Access(zone, read) /\ (~read => \A d \in Recorded : d.zone # zone)
  <2>1. CASE Declare
    <3>1. nextAtom \in Nat /\ (~FALSE => \A d \in Recorded : d.zone # nextAtom)
      BY FreshZone DEF IInv
    <3> QED
      BY <2>1, <3>1 DEF Declare
  <2>2. CASE Read
    <3>1. PICK d \in Recorded : Access(d.zone, TRUE)
      BY <2>2 DEF Read
    <3>2. d.zone \in Nat
      BY FreshZone DEF IInv, EventType
    <3> QED
      BY <3>1, <3>2
  <2> QED
    BY <2>1, <2>2
<1> DEFINE e == Event(nextId, zone, read, FALSE)
<1>2. /\ current # NoThread /\ sliceMap' = Appended(sliceMap, current, e)
      /\ nextId' = nextId + 1
      /\ order' = order \union After(knows[current], nextId)
      /\ knows' = [knows EXCEPT ![current] = knows[current] \union {nextId}]
  BY <1>1 DEF Access
<1>3. e \in EventType /\ e.id = nextId /\ e.zone = zone /\ e.read = read /\ ~e.sync
  BY FreshZone DEF IInv, Event, EventType
<1>4. ~e.read => \A d \in Recorded : d.zone # e.zone
  BY <1>1, <1>3
<1> HIDE DEF e
<1>5. Senders(e, Recorded) = {}
  BY <1>3 DEF Senders
<1>6. knows[current] = knows[current] \union Past(Senders(e, Recorded), order)
  BY <1>5, PastOfNothing
<1> QED
  BY <1>2, <1>3, <1>4, <1>6, CurrentRecords

LEMMA EndOrder ==
  ASSUME IInv, OrderInv, EndThread
  PROVE  OrderInv'
<1> DEFINE e == SendEvent(nextId, nextAtom)
<1>1. /\ current # NoThread /\ sliceMap' = Appended(sliceMap, current, e)
      /\ nextId' = nextId + 1
      /\ order' = order \union After(knows[current], nextId)
      /\ knows' = [knows EXCEPT ![current] = knows[current] \union {nextId}]
  BY DEF EndThread
<1>2. e \in EventType /\ e.id = nextId /\ e.zone = nextAtom /\ ~e.read
  BY FreshZone DEF IInv, SendEvent, Event, EventType
<1>3. ~e.read => \A d \in Recorded : d.zone # e.zone
  BY <1>2, FreshZone DEF IInv
<1> HIDE DEF e
<1>4. Senders(e, Recorded) = {}
  BY <1>2 DEF Senders
<1>5. knows[current] = knows[current] \union Past(Senders(e, Recorded), order)
  BY <1>4, PastOfNothing
<1> QED
  BY <1>1, <1>2, <1>3, <1>5, CurrentRecords

LEMMA JoinOrder ==
  ASSUME IInv, OrderInv, NEW t \in ended, Join(t)
  PROVE  OrderInv'
<1> DEFINE s == FinalEvent(t)
           e == ReceiveEvent(nextId, s.zone)
           past == knows[current] \union knows[t]
<1>1. /\ current # NoThread /\ sliceMap' = Appended(sliceMap, current, e)
      /\ nextId' = nextId + 1
      /\ order' = order \union After(past, nextId)
      /\ knows' = [knows EXCEPT ![current] = past \union {nextId}]
  BY DEF Join
<1>2. /\ s \in Recorded /\ s.sync /\ ~s.read /\ s \in EventType
      /\ LastIds(sliceMap, t) = {s.id}
  <2>1. EventInv
    BY DEF IInv
  <2>2. /\ s \in Recorded /\ s.sync /\ ~s.read
        /\ t \in DOMAIN sliceMap /\ sliceMap[t] # <<>> /\ s = Last(sliceMap[t])
    BY <2>1, FinalFacts
  <2> HIDE DEF s
  <2> QED
    BY <2>1, <2>2, FreshZone DEF LastIds, Slice
<1>3. e \in EventType /\ e.id = nextId /\ e.zone = s.zone /\ e.read /\ e.sync
  <2> HIDE DEF s
  <2> QED BY <1>2, FreshZone DEF IInv, Event, ReceiveEvent, EventType
<1> HIDE DEF e, s
<1>4. Senders(e, Recorded) = {s.id}
  <2>1. \A w \in Recorded : ~w.read /\ w.zone = s.zone => w = s
    BY <1>2 DEF IInv, EventInv, SenderInv
  <2>2. { d \in Recorded : d.sync /\ ~d.read /\ d.zone = e.zone } = {s}
    BY <1>2, <1>3, <2>1
  <2> QED
    BY <1>3, <2>2 DEF Senders
<1>5. knows[t] = Past(Senders(e, Recorded), order)
  <2>1. t \in DOMAIN knows
    BY DEF IInv, TypeInv
  <2> QED
    BY <1>2, <1>4, <2>1 DEF OrderInv, OrderInvOf
<1>6. past = knows[current] \union Past(Senders(e, Recorded), order)
  BY <1>5
<1> HIDE DEF past
<1>7. ~e.read => \A d \in Recorded : d.zone # e.zone
  BY <1>3
<1> QED
  BY <1>1, <1>3, <1>6, <1>7, CurrentRecords

(* A thread that is not of this recording has recorded nothing.            *)
LEMMA NewThread ==
  ASSUME IInv, OrderInv
  PROVE  /\ NextThread \notin DOMAIN knows
         /\ Slice(sliceMap, NextThread) = <<>> /\ LastIds(sliceMap, NextThread) = {}
<1>1. NextThread \notin Made /\ DOMAIN knows \subseteq Made
  BY DEF IInv, TypeInv
<1>2. NextThread \in DOMAIN sliceMap => sliceMap[NextThread] = <<>>
  BY <1>1 DEF OrderInv, OrderInvOf
<1> HIDE DEF NextThread
<1>3. Slice(sliceMap, NextThread) = <<>>
  BY <1>2 DEF Slice
<1> QED
  BY <1>1, <1>3 DEF LastIds

LEMMA BeginMainOrder ==
  ASSUME IInv, OrderInv, BeginMain
  PROVE  OrderInv'
<1>1. UNCHANGED <<sliceMap, order, nextId>> /\ knows' = Knowing(knows, NextThread, {})
  BY DEF BeginMain
<1>2. NextThread \notin DOMAIN knows /\ LastIds(sliceMap, NextThread) = {}
  BY NewThread
<1> HIDE DEF NextThread
<1>3. /\ DOMAIN knows' = DOMAIN knows \union {NextThread}
      /\ knows'[NextThread] = {} /\ \A u \in DOMAIN knows : knows'[u] = knows[u]
  BY <1>1, <1>2 DEF Knowing
<1>4. \A u \in DOMAIN knows' : knows'[u] = Past(LastIds(sliceMap, u), order)
  BY <1>2, <1>3, PastOfNothing DEF OrderInv, OrderInvOf
<1> QED
  BY <1>1, <1>3, <1>4 DEF OrderInv, OrderInvOf

LEMMA BeginChildOrder ==
  ASSUME IInv, OrderInv, BeginChild
  PROVE  OrderInv'
<1> DEFINE s == SendEvent(nextId, nextAtom)
           r == ReceiveEvent(nextId + 1, nextAtom)
           map1 == Appended(sliceMap, current, s)
           past == knows[current]
           sent == past \union {nextId}
           order1 == order \union After(past, nextId)
           knows1 == Knowing(knows, current, sent)
<1>1. /\ current # NoThread
      /\ sliceMap' = Appended(map1, NextThread, r)
      /\ nextId' = nextId + 2
      /\ knows' = Knowing(knows1, NextThread, sent \union {nextId + 1})
      /\ order' = order1 \union After(sent, nextId + 1)
  BY DEF BeginChild
<1>2. /\ nextId \in Nat /\ nextId + 1 \in Nat /\ nextAtom \in Nat /\ nextAtom + 1 \in Nat
      /\ MapInv(sliceMap, nextId, nextAtom) /\ Recorded = Events(sliceMap)
      /\ \A d \in Recorded : d \in EventType /\ d.zone # nextAtom
  BY FreshZone DEF IInv, EventInv, Recorded, Events
<1>3. /\ s \in EventType /\ s.id = nextId /\ s.zone = nextAtom /\ ~s.read /\ s.sync
      /\ r \in EventType /\ r.id = nextId + 1 /\ r.zone = nextAtom /\ r.read /\ r.sync
  BY <1>2 DEF SendEvent, ReceiveEvent, Event, EventType
<1>4. /\ current \in DOMAIN knows /\ past = Past(LastIds(sliceMap, current), order)
      /\ current # NextThread /\ NextThread \notin DOMAIN knows
      /\ Slice(sliceMap, NextThread) = <<>>
  BY <1>1, CurrentFacts, NewThread DEF IInv, OrderInv, OrderInvOf
<1> HIDE DEF s, r, NextThread
<1>5. Senders(s, Events(sliceMap)) = {}
  BY <1>3 DEF Senders
<1>6. OrderInvOf(map1, order1, knows1, nextId + 1)
  <2>1. past = Past(LastIds(sliceMap, current) \union Senders(s, Events(sliceMap)), order)
    <3>1. LastIds(sliceMap, current) \union Senders(s, Events(sliceMap)) = LastIds(sliceMap, current)
      BY <1>5
    <3> QED
      BY <1>4, <3>1
  <2>2. ~s.read => \A d \in Events(sliceMap) : d.zone # s.zone
    BY <1>2, <1>3
  <2> HIDE DEF past
  <2> QED
    BY <1>2, <1>3, <2>1, <2>2, RecordedOrder DEF OrderInv
<1>7. MapInv(map1, nextId + 1, nextAtom + 1)
  <2>1. nextAtom <= nextAtom + 1 /\ s.zone < nextAtom + 1
    BY <1>2, <1>3
  <2> QED
    BY <1>2, <1>3, <2>1, AppendedInv
<1>8. /\ Events(map1) = Recorded \union {s}
      /\ Slice(map1, NextThread) = <<>> /\ map1[current] # <<>> /\ Last(map1[current]) = s
      /\ current \in DOMAIN map1
  <2>1. \A t \in DOMAIN sliceMap : sliceMap[t] \in Seq(EventType)
    BY <1>2 DEF MapInv
  <2>2. Events(map1) = Recorded \union {s}
    BY <1>2, <1>3, <2>1, AppendedEvents
  <2>3. map1[current] # <<>> /\ Last(map1[current]) = s
    BY <1>3, <2>1, AppendedLast
  <2>4. current \in DOMAIN map1
    BY DEF Appended
  <2>5. Slice(map1, NextThread) = Slice(sliceMap, NextThread)
    BY <1>4 DEF Appended, Slice
  <2> HIDE DEF map1
  <2> QED
    BY <1>4, <2>2, <2>3, <2>4, <2>5
<1>9. knows1[current] = sent /\ current \in DOMAIN knows1
  BY DEF Knowing
<1> HIDE DEF map1, sent, order1, knows1, past
<1>10. LastIds(map1, current) = {nextId} /\ LastIds(map1, NextThread) = {}
  <2>1. Slice(map1, current) = map1[current]
    BY <1>8 DEF Slice
  <2>2. LastIds(map1, current) = {Last(map1[current]).id}
    BY <1>8, <2>1 DEF LastIds
  <2> QED
    BY <1>3, <1>8, <2>2 DEF LastIds
<1>11. sent = Past({nextId}, order1)
  BY <1>6, <1>9, <1>10 DEF OrderInvOf
<1>12. Senders(r, Events(map1)) = {nextId}
  <2>1. { d \in Events(map1) : d.sync /\ ~d.read /\ d.zone = r.zone } = {s}
    BY <1>2, <1>3, <1>8
  <2> QED
    BY <1>3, <2>1 DEF Senders
<1>13. OrderInvOf(Appended(map1, NextThread, r), order1 \union After(sent, nextId + 1),
                  Knowing(knows1, NextThread, sent \union {nextId + 1}), nextId + 1 + 1)
  <2>1. LastIds(map1, NextThread) \union Senders(r, Events(map1)) = {nextId}
    BY <1>10, <1>12
  <2>2. sent = Past(LastIds(map1, NextThread) \union Senders(r, Events(map1)), order1)
    BY <1>11, <2>1
  <2>3. ~r.read => \A d \in Events(map1) : d.zone # r.zone
    BY <1>3
  <2> QED
    BY <1>2, <1>3, <1>6, <1>7, <2>2, <2>3, RecordedOrder
<1>14. nextId' = nextId + 1 + 1
  BY <1>1, <1>2
<1> QED
  BY <1>1, <1>13, <1>14 DEF OrderInv

LEMMA ResetOrder ==
  ASSUME KeepsNoEvents, IInv, Reset
  PROVE  OrderInv'
<1>1. mainInit = <<>>
  <2>1. program \in Programs /\ program.maxResets \in Nat /\ resets \in Nat
    BY ThreadsAssumption DEF IInv, TypeInv
  <2>2. program.maxResets # 0
    BY <2>1 DEF Reset
  <2> QED
    BY <2>1, <2>2 DEF KeepsNoEvents, IInv, TypeInv
<1>2. /\ order' = {} /\ knows' = <<>> /\ nextId' = 0
      /\ \A t \in DOMAIN sliceMap' : sliceMap'[t] = <<>>
  BY <1>1 DEF Reset, KeptSlices
<1>3. Events(sliceMap') = {} /\ InTurn(<<>>) = {} /\ DOMAIN knows' = {}
  BY <1>2 DEF Events, Range, InTurn
<1>4. Synced({}) = {}
  BY DEF Synced
<1>5. SlicesInTurn(sliceMap') = {}
  BY <1>2, <1>3 DEF SlicesInTurn
<1>6. ConstraintsOf(sliceMap') = {}
  BY <1>3, <1>4, <1>5 DEF ConstraintsOf
<1> QED
  BY <1>2, <1>3, <1>6 DEF OrderInv, OrderInvOf, IsClosure, Transitive

LEMMA StepOrder == KeepsNoEvents /\ IInv /\ OrderInv /\ [Next]_vars => OrderInv'
<1> SUFFICES ASSUME KeepsNoEvents, IInv, OrderInv, [Next]_vars PROVE OrderInv'
  OBVIOUS
<1>1. CASE UNCHANGED vars
  BY <1>1 DEF vars, OrderInv
<1>2. CASE BeginMain
  BY <1>2, BeginMainOrder
<1>3. CASE BeginThread \/ ConstructThread
  BY <1>3, BeginChildOrder DEF BeginThread, ConstructThread
<1>4. CASE EndChild \/ EndMain
  BY <1>4, EndOrder DEF EndChild, EndMain
<1>5. CASE \E t \in ended : Join(t)
  BY <1>5, JoinOrder
<1>6. CASE Declare \/ Read
  BY <1>6, AccessOrder
<1>7. CASE BeginSliceLoop
  BY <1>7 DEF BeginSliceLoop, OrderInv
<1>8. CASE Reset
  BY <1>8, ResetOrder
<1> QED
  BY <1>1, <1>2, <1>3, <1>4, <1>5, <1>6, <1>7, <1>8 DEF Next

(* The constraints of the encoded slices entail the order of the program:  *)
(* no synchronisation between threads is lost or invented.                 *)
THEOREM EncodesTheOrder ==
  ASSUME KeepsNoEvents
  PROVE  Spec => []EncodedOrder
<1>1. ASSUME IInv, OrderInv PROVE EncodedOrder
  <2> DEFINE U == 0 .. nextId - 1
             constraints == ConstraintsOf(sliceMap)
  <2>1. constraints \in SUBSET (U \X U) /\ IsClosure(order, constraints)
    BY <1>1 DEF OrderInv, OrderInvOf
  <2>2. IsFiniteSet(ClocksOf(constraints))
    <3>1. nextId \in Nat
      BY <1>1, FreshZone DEF IInv
    <3>2. IsFiniteSet(U)
      BY <3>1, FS_Interval
    <3>3. ClocksOf(constraints) \subseteq U
      <4> HIDE DEF U, constraints
      <4> QED BY <2>1 DEF ClocksOf
    <3> QED
      BY <3>2, <3>3, FS_Subset
  <2> HIDE DEF U, constraints
  <2>3. Entailed(constraints) = order
    BY <2>1, <2>2, ClosureIsEntailed
  <2> QED
    BY <2>3, ConstraintsAre DEF EncodedOrder, constraints
<1> QED
  BY <1>1, InitOrder, StepOrder, Inductive, PTL DEF Spec
=============================================================================
