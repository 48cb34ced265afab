------------------------------ MODULE SliceLoop ------------------------------
(***************************************************************************)
(* A whole analysis: a program that is run once for each slice, recorded   *)
(* by the threads it starts, encoded and checked.                          *)
(*                                                                         *)
(*   do { ...program...; encode and check; } while (slicer.next_slice());  *)
(*                                                                         *)
(* Module Slicer has the calls of the slicer.  Here they also register the *)
(* conditions of branches with the current thread, as begin_then_branch    *)
(* and its like do by calling ThisThread, and the program has statements:  *)
(* it assigns local and shared variables, reports errors, and starts,      *)
(* ends and joins threads.                                                 *)
(*                                                                         *)
(* A value is all that a condition such as x == '?' tells of one: TRUE or  *)
(* FALSE.  A local variable stands for the term written to it last, as     *)
(* module Variables shows; shared variables are stacks to the encoding, as *)
(* module OrderEncoder shows.                                              *)
(*                                                                         *)
(* A program is either a test, which resets the library for every slice    *)
(* and declares its shared variables again, or it keeps its recording as   *)
(* the benchmarks do: their shared variables are static, and each slice is *)
(* recorded after the ones before it.                                      *)
(***************************************************************************)
EXTENDS Slicer

CONSTANTS
  Local,       \* names of local variables
  Shared       \* names of shared variables

(* The statements, with their operand if they have one, and their target.  *)
Statement == {"assign", "write", "error", "spawn", "finish", "join"}

Literal  == { <<"literal", b>> : b \in BOOLEAN }
AnyValue == <<"any">>
Operand  == Literal \union {AnyValue} \union { <<"local", l>> : l \in Local }
                    \union { <<"shared", x>> : x \in Shared }

ASSUME LoopCaseAssumption ==
  \A c \in Cases :
    /\ c.kept \in BOOLEAN
    /\ \A i \in DOMAIN c.program :
         LET token == c.program[i]
         IN  /\ token.call \in Call \union Statement
             /\ token.call \in {"then", "assign", "write", "error"} => token.operand \in Operand
             /\ token.call = "assign" => token.target \in Local
             /\ token.call = "write" => token.target \in Shared

VARIABLES
  phase,       \* "start", "record" or "encoded": where the loop is
  threads,     \* the threads being recorded, the current one last
  nextThread,  \* Thread::s_next_thread_id
  nextId,      \* Event::s_next_id
  locals,      \* the term of each local variable
  relation,    \* the events that encode() relates, in recording order
  final,       \* the final send event of the thread that ended last
  errors,      \* m_error_exprs
  origin,      \* history: the tokens that made the symbols of this slice
  admitted,    \* history: the inputs for which the solver finds the formula
               \* of this slice satisfiable
  alarms       \* history: those for which it found one of the slices so

recordingVars == <<threads, nextThread, nextId, locals, relation, final, errors, origin>>
loopVars == <<vars, phase, recordingVars, admitted, alarms>>

-----------------------------------------------------------------------------
(* A thread with its path condition: literals over terms, outermost first. *)
Thread(id) == [id |-> id, condition |-> <<>>]

Current == Last(threads)

WithCondition(condition) == [threads EXCEPT ![Len(threads)].condition = condition]

Event(id, thread, zone, read, condition, term) ==
  [id |-> id, thread |-> thread, zone |-> zone, read |-> read,
   condition |-> condition, term |-> term]

(* An event of the current thread. *)
Mine(id, zone, read, term) == Event(id, Current.id, zone, read, Current.condition, term)

Symbol(id) == <<"event", id>>

IsFresh(x) == x = AnyValue \/ x[1] = "shared"

(* alloc_read_instr and any(). *)
Term(x) ==
  CASE x[1] = "local" -> locals[x[2]]
    [] IsFresh(x)     -> Symbol(nextId)
    [] OTHER          -> x

(* Evaluating an operand records a read event, if it makes one.            *)
ReadIds(x) == IF IsFresh(x) THEN nextId + 1 ELSE nextId

ReadEvents(x) ==
  IF x[1] = "shared" THEN Append(relation, Mine(nextId, x[2], TRUE, Symbol(nextId)))
  ELSE relation

ReadOrigin(x) == IF x = AnyValue THEN (nextId :> pc) @@ origin ELSE origin

(* A direct write event of DeclVar(): it carries no condition.             *)
Declared(rel, id, thread) ==
  rel \o [i \in 1 .. Cardinality(Shared) |->
            Event(id + i - 1, thread, SetToSeq(Shared)[i], FALSE, <<>>, <<"literal", FALSE>>)]

-----------------------------------------------------------------------------
LoopInit ==
  /\ Init
  /\ phase = "start"
  /\ threads = IF case.kept THEN <<Thread(1)>> ELSE <<>>
  /\ nextThread = IF case.kept THEN 2 ELSE 1
  /\ nextId = IF case.kept THEN Cardinality(Shared) ELSE 0
  /\ locals = [l \in Local |-> <<"literal", FALSE>>]
  /\ relation = IF case.kept THEN Declared(<<>>, 0, 1) ELSE <<>>
  /\ final = 0
  /\ errors = <<>>
  /\ origin = <<>>
  /\ admitted = {}
  /\ alarms = {}

(* Threads::internal_reset. *)
ResetAsserts == errors = <<>>

(* Threads::reset() and begin_main_thread(), or Encoders::reset(); then    *)
(* the declarations of the program.                                        *)
StartSlice ==
  /\ phase = "start"
  /\ IF case.kept
       THEN UNCHANGED <<threads, nextThread, nextId, relation>>
       ELSE /\ ResetAsserts
            /\ threads' = <<Thread(nextThread)>>
            /\ nextThread' = nextThread + 1
            /\ nextId' = Cardinality(Shared)
            /\ relation' = Declared(<<>>, 0, nextThread)
  /\ origin' = <<>>
  /\ locals' = [l \in Local |-> <<"literal", FALSE>>]
  /\ phase' = "record"
  /\ UNCHANGED <<vars, final, errors, admitted, alarms>>

(* The calls of the slicer, and what they do to the current thread.        *)
Recording == phase = "record" /\ UNCHANGED <<phase, admitted, alarms>>

LoopBeginThen ==
  /\ BeginThenBranch
  /\ Recording
  /\ threads' = WithCondition(Append(Current.condition, <<Term(Token.operand), TRUE>>))
  /\ nextId' = ReadIds(Token.operand)
  /\ relation' = ReadEvents(Token.operand)
  /\ origin' = ReadOrigin(Token.operand)
  /\ UNCHANGED <<nextThread, locals, final, errors>>

(* Mutant of Negated: the else arm has the condition of the then arm.      *)
NotNegated(condition) == condition

(* The innermost condition, negated. *)
Negated(condition) ==
  [condition EXCEPT ![Len(condition)] = <<@[1], ~@[2]>>]

LoopBeginElse ==
  /\ BeginElseBranch
  /\ Recording
  /\ threads' = WithCondition(Negated(Current.condition))
  /\ UNCHANGED <<nextThread, nextId, locals, relation, final, errors, origin>>

LoopEndBranch ==
  /\ EndBranch
  /\ Recording
  /\ threads' = WithCondition(Front(Current.condition))
  /\ UNCHANGED <<nextThread, nextId, locals, relation, final, errors, origin>>

-----------------------------------------------------------------------------
Executes(statement) ==
  /\ Calls(statement)
  /\ Recording
  /\ Proceed

(* LocalVar::operator=. *)
Assign ==
  /\ Executes("assign")
  /\ locals' = [locals EXCEPT ![Token.target] = Term(Token.operand)]
  /\ nextId' = ReadIds(Token.operand) + 1
  /\ relation' = ReadEvents(Token.operand)
  /\ origin' = ReadOrigin(Token.operand)
  /\ UNCHANGED <<threads, nextThread, final, errors>>

(* SharedVar::operator=. *)
Write ==
  /\ Executes("write")
  /\ relation' = Append(ReadEvents(Token.operand),
                   Mine(ReadIds(Token.operand), Token.target, FALSE, Term(Token.operand)))
  /\ nextId' = ReadIds(Token.operand) + 1
  /\ origin' = ReadOrigin(Token.operand)
  /\ UNCHANGED <<threads, nextThread, locals, final, errors>>

(* Mutant of ErrorExpr: the path condition is left out. *)
ErrorAnywhere(term) == [term |-> term, condition |-> <<>>]

ErrorExpr(term) == [term |-> term, condition |-> Current.condition]

(* Threads::error. *)
Error ==
  /\ Executes("error")
  /\ errors' = Append(errors, ErrorExpr(Term(Token.operand)))
  /\ nextId' = ReadIds(Token.operand)
  /\ relation' = ReadEvents(Token.operand)
  /\ origin' = ReadOrigin(Token.operand)
  /\ UNCHANGED <<threads, nextThread, locals, final>>

(* Each send event has a zone of its own, here its identifier.             *)
Send(id)          == Mine(id, id, FALSE, <<"literal", TRUE>>)
Receive(id, from) == Mine(id, from, TRUE, <<"literal", TRUE>>)

(* Threads::begin_thread().  A new thread has no path condition.           *)
Spawn ==
  /\ Executes("spawn")
  /\ relation' = relation \o
       << Send(nextId),
          Event(nextId + 1, nextThread, nextId, TRUE, <<>>, <<"literal", TRUE>>) >>
  /\ threads' = Append(threads, Thread(nextThread))
  /\ nextThread' = nextThread + 1
  /\ nextId' = nextId + 2
  /\ UNCHANGED <<locals, final, errors, origin>>

(* Threads::end_thread(). *)
Finish ==
  /\ Executes("finish")
  /\ relation' = Append(relation, Send(nextId))
  /\ threads' = Front(threads)
  /\ final' = nextId
  /\ nextId' = nextId + 1
  /\ UNCHANGED <<nextThread, locals, errors, origin>>

(* Threads::join. *)
Join ==
  /\ Executes("join")
  /\ relation' = Append(relation, Receive(nextId, final))
  /\ nextId' = nextId + 1
  /\ UNCHANGED <<threads, nextThread, locals, final, errors, origin>>

-----------------------------------------------------------------------------
(* An input gives every any() of the program a value. *)
Inputs ==
  [{ i \in DOMAIN program : "operand" \in DOMAIN program[i] /\ program[i].operand = AnyValue }
     -> BOOLEAN]

(* The formula, when the symbols have the values of v.                     *)
Value(term, v) == IF term[1] = "event" THEN v[term[2]] ELSE term[2]

Holds(condition, v) == \A i \in DOMAIN condition : Value(condition[i][1], v) = condition[i][2]

SomeError(v) ==
  \E i \in DOMAIN errors : Value(errors[i].term, v) /\ Holds(errors[i].condition, v)

Order(rel) ==
  INSTANCE OrderEncoder WITH
    relation <- rel, Condition <- {"off"}, NoCond <- "on", NoWrite <- -1,
    Zone <- Shared, MaxThread <- 0, MaxEvents <- 0

(* encode(): each pop gets the value of the push that it reads from.       *)
OrderHolds(rel, v) ==
  LET guarded == [i \in DOMAIN rel |->
        [thread |-> rel[i].thread, zone |-> rel[i].zone, read |-> rel[i].read,
         guard  |-> IF Holds(rel[i].condition, v) THEN "on" ELSE "off", expect |-> FALSE]]
  IN  \E m \in Order(guarded)!Models([c \in {"off"} |-> FALSE]) :
        \A r \in DOMAIN m.rf :
          m.rf[r] # -1 => Value(rel[r].term, v) = Value(rel[m.rf[r]].term, v)

(* The symbols of the formula.  With an input, those of this slice have    *)
(* their values; reads of shared variables, and the symbols of slices      *)
(* before, have what the solver chooses.                                   *)
Symbols ==
  LET Literals == UNION { Range(e.condition) : e \in Range(relation) \union Range(errors) }
      Terms    == { l[1] : l \in Literals } \union { e.term : e \in Range(relation) \union Range(errors) }
  IN  { t[2] : t \in { u \in Terms : u[1] = "event" } }

Valuations(input) ==
  { v \in [Symbols -> BOOLEAN] :
      \A id \in Symbols \intersect DOMAIN origin : v[id] = input[origin[id]] }

Satisfiable(rel, input) ==
  \E v \in Valuations(input) : SomeError(v) /\ OrderHolds(rel, v)

(* The end of a slice: a test ends the main thread.                        *)
Related == IF case.kept THEN relation ELSE Append(relation, Send(nextId))

(* Threads::encode, also at the end of end_main_thread.  A formula without *)
(* error conditions is not checked.                                        *)
Encode ==
  /\ phase = "record" /\ pc > Len(program)
  /\ phase' = "encoded"
  /\ relation' = Related
  /\ IF case.kept THEN UNCHANGED <<threads, nextId>>
                  ELSE threads' = <<>> /\ nextId' = nextId + 1
  /\ admitted' = { input \in Inputs : Satisfiable(Related, input) }
  /\ alarms' = alarms \union admitted'
  /\ errors' = <<>>
  /\ UNCHANGED <<vars, nextThread, locals, final, origin>>

LoopNextSlice ==
  /\ phase = "encoded"
  /\ NextSlice
  /\ phase' = IF finished' THEN "encoded" ELSE "start"
  /\ UNCHANGED <<recordingVars, admitted, alarms>>

LoopNext ==
  \/ StartSlice
  \/ LoopBeginThen \/ LoopBeginElse \/ LoopEndBranch
  \/ Assign \/ Write \/ Error
  \/ Spawn \/ Finish \/ Join
  \/ Encode
  \/ LoopNextSlice

(* Programs and the loop around them are sequential and never wait.        *)
LoopSpec == LoopInit /\ [][LoopNext]_loopVars /\ WF_loopVars(LoopNext)

-----------------------------------------------------------------------------
LoopTypeOK ==
  /\ TypeOK
  /\ phase \in {"start", "record", "encoded"}
  /\ \A t \in Range(threads) : t.id \in 1 .. nextThread - 1
  /\ \A e \in Range(relation) : e.id \in 0 .. nextId - 1
  /\ DOMAIN locals = Local
  /\ \A id \in DOMAIN origin : id < nextId /\ origin[id] \in DOMAIN program
  /\ admitted \subseteq alarms /\ alarms \subseteq Inputs

(* The reference: the executions of the program with an input.  A thread   *)
(* is known by the token that starts it, the main thread as 0.  A child    *)
(* has the local variables of its parent when it starts, and a join gets   *)
(* them back.  A pop from an empty stack waits for a push; executions in   *)
(* which it waits for ever are not complete and report no error.           *)
(*                                                                         *)
(* The encoding rejects runs in which a push that was made after a pop is  *)
(* popped, see OrderEncoder; here such a pop waits, too.                   *)
FinishOf(i) == Min({ j \in i + 1 .. Len(program) :
  /\ program[j].call = "finish"
  /\ Cardinality({ k \in i .. j : program[k].call = "spawn" })
       = Cardinality({ k \in i .. j : program[k].call = "finish" }) })

JoinedBy(i) == CHOOSE k \in DOMAIN program :
  program[k].call = "spawn" /\ FinishOf(k) = Max({ j \in 1 .. i : program[j].call = "finish" })

IsDone(s, t) == s.at[t] = IF t = 0 THEN Len(program) + 1 ELSE FinishOf(t)

Running(s) == { t \in DOMAIN s.at : ~IsDone(s, t) }

(* Thread t goes on, in a state s with an input. *)
Steps(s, t, input) ==
  LET i     == s.at[t]
      token == program[i]
      other == Closing(program, i)
      x     == token.operand
      memory == s.memory[x[2]]
      v     == CASE x[1] = "literal" -> x[2]
                 [] x = AnyValue     -> input[i]
                 [] x[1] = "local"   -> s.env[t][x[2]]
                 [] x[1] = "shared"  -> Last(memory).value
      popped  == IF x[1] = "shared"
                   THEN [s EXCEPT !.memory[x[2]] = Front(@), !.popped = @ \union {x[2]}]
                   ELSE s
      Goes(r, to)  == [r EXCEPT !.at[t] = to]
      Enters(r, j) == [Goes(r, j + 1) EXCEPT !.entered = @ \union {j}]
  IN  CASE token.call = "spawn" ->
             {[Goes(s, FinishOf(i) + 1) EXCEPT !.at = (i :> i + 1) @@ @,
                                               !.env = (i :> @[t]) @@ @]}
        [] token.call = "join" ->
             IF IsDone(s, JoinedBy(i))
               THEN {[Goes(s, i + 1) EXCEPT !.env[t] = s.env[JoinedBy(i)]]}
               ELSE {}
        [] token.call = "end"  -> {Goes(s, i + 1)}
        [] token.call = "else" -> {Goes(s, other)}
        [] x[1] = "shared" /\ (memory = <<>> \/ Last(memory).late) -> {}
        [] token.call = "then" ->
             {CASE v -> Enters(popped, i)
                [] ~v /\ program[other].call = "else" -> Enters(popped, other)
                [] OTHER -> Goes(popped, other)}
        [] token.call = "assign" -> {[Goes(popped, i + 1) EXCEPT !.env[t][token.target] = v]}
        [] token.call = "error"  -> {[Goes(popped, i + 1) EXCEPT !.fails = @ \/ v]}
        [] token.call = "write"  ->
             {[Goes(popped, i + 1) EXCEPT !.memory[token.target] =
                 Append(@, [value |-> v, late |-> token.target \in popped.popped])]}

Executions(input) ==
  LET Start == [at |-> (0 :> 1), env |-> (0 :> [l \in Local |-> FALSE]),
                memory |-> [y \in Shared |-> <<[value |-> FALSE, late |-> FALSE]>>],
                popped |-> {}, entered |-> {}, fails |-> FALSE]
      Successors(s) == UNION { Steps(s, t, input) : t \in Running(s) }
      After[n \in 0 .. Len(program)] ==
        IF n = 0 THEN {Start}
        ELSE UNION { IF Successors(s) = {} THEN {s} ELSE Successors(s) : s \in After[n - 1] }
  IN  After[Len(program)]

ReportsError(s) == s.fails /\ Running(s) = {}

Fails(input) == \E s \in Executions(input) : ReportsError(s)

(* Does an execution go where this slice went?  Without slicing the one    *)
(* slice stands for every execution.                                       *)
OnSlice(s) == sliceFreq = 0 \/ s.entered = Range(path)

(* thread.h: "A satisfiable condition exposes a (concurrency) bug".  The   *)
(* formula of a slice is satisfied by an input with which the program may  *)
(* report an error on the path of the slice, and by no other input that    *)
(* keeps the program on that path.                                         *)
SliceIsExact ==
  phase = "encoded" =>
    \A input \in Inputs :
      LET runs == Executions(input)
          errorOnSlice == \E s \in runs : OnSlice(s) /\ ReportsError(s)
      IN  /\ errorOnSlice => input \in admitted
          /\ input \in admitted /\ (\A s \in runs : OnSlice(s)) => errorOnSlice

(* Once there is no other slice, each input that makes the program report  *)
(* an error was found by one of them.                                      *)
MissesNothing ==
  finished => \A input \in Inputs : Fails(input) => input \in alarms

(* The same sentence of thread.h, taken at its word: each input that       *)
(* satisfies the formula of some slice makes the program report an error.  *)
NoFalseAlarm == \A input \in admitted : Fails(input)
=============================================================================
