------------------------------ MODULE Variables ------------------------------
(***************************************************************************)
(* The variables of one thread (var.h, concurrent.h) and the instructions  *)
(* that read them (instr.h): in the formula a write event is a constant    *)
(* that equals the instruction it writes.  A local variable is known by    *)
(* the event that wrote it last, and read as a read event with that        *)
(* identifier; a read of a shared variable is an event of its own, whose   *)
(* value module OrderEncoder is about and which is a symbol here.          *)
(*                                                                         *)
(* An instruction carries the path condition under which it was made, as a *)
(* pointer: pointers are numbered in the order of allocation, 0 is null.   *)
(***************************************************************************)
EXTENDS Naturals, SequencesExt

CONSTANTS
  Scalar,         \* names of the LocalVar<T>
  Array,          \* names of the LocalVar<T[N]>
  Index,          \* their indexes
  MaxOps,         \* bound: declarations, assignments and branches
  MaxDepth        \* bound: branches open at a time

ASSUME VariablesAssumption ==
  /\ Scalar \cap Array = {}
  /\ {MaxOps, MaxDepth} \subseteq Nat

Local == Scalar \union Array

Null == 0

VARIABLES
  conditions,   \* m_condition_ptrs of the thread, front first
  cache,        \* m_path_condition_ptr_cache, top last
  nextPtr,      \* the next pointer "new" returns
  nextId,       \* Event::s_next_id
  locals,       \* the read event of each local variable in scope
  written,      \* what the write events are equal to, by their identifiers
  open,         \* the arms the program is in, outermost first
  branches,     \* number of branches begun
  scope,        \* the arms in which each local variable was declared and
                \* last assigned
  log           \* history: the program's writes, in order

vars == <<conditions, cache, nextPtr, nextId, locals, written, open, branches,
          scope, log>>

Init ==
  /\ conditions = <<>>
  /\ cache = <<>>
  /\ nextPtr = 1
  /\ nextId = 0
  /\ locals = <<>>
  /\ written = <<>>
  /\ open = <<>>
  /\ branches = 0
  /\ scope = <<>>
  /\ log = <<>>

-----------------------------------------------------------------------------
PathCondition ==
  CASE Len(conditions) = 0 -> Null
    [] Len(conditions) = 1 -> Head(conditions)
    [] OTHER               -> Last(cache)

(* The operands of an instruction: a literal, which tells its write from   *)
(* the others, a shared variable, a local one, an element of a local array.*)
Literal == <<"literal", Len(log)>>
Shared  == <<"event", nextId>>

LocalOperands ==
  { <<"local", l>> : l \in DOMAIN locals \intersect Scalar } \union
  { <<"element", a, i>> : a \in DOMAIN locals \intersect Array, i \in Index }

(* The right-hand sides of assignments; two operands are for an operator.  *)
Sources ==
  { <<x>> : x \in {Literal, Shared} \union LocalOperands } \union
  { <<Shared, x>> : x \in LocalOperands }

IsLocal(x) == x[1] \in {"local", "element"}

(* alloc_read_instr: what is read, and under which condition.              *)
Term(x) ==
  CASE x[1] = "local"   -> <<"event", locals[x[2]].id>>
    [] x[1] = "element" -> <<"select", locals[x[2]].id, x[3]>>
    [] OTHER            -> x

Condition(x) == IF IsLocal(x) THEN locals[x[2]].cond ELSE PathCondition

(* The constructor of class BinaryReadInstr. *)
BinaryAsserts(source) == \A i, j \in DOMAIN source : Condition(source[i]) = Condition(source[j])

Terms(source) == [i \in DOMAIN source |-> Term(source[i])]

(* The identifier of the write: a read of a shared variable comes first.   *)
WriteId(source) == IF Shared \in Range(source) THEN nextId + 1 ELSE nextId

(* Mutant of ReadEvent: the read event takes an identifier of its own.     *)
ReadEventFresh(id) == [id |-> id + 1, cond |-> PathCondition]

(* internal_make_read_event. *)
ReadEvent(id) == [id |-> id, cond |-> PathCondition]

-----------------------------------------------------------------------------
Put(f, x, y) == [z \in DOMAIN f \union {x} |-> IF z = x THEN y ELSE f[z]]

Writing(target, source, id) ==
  /\ Len(log) + branches < MaxOps
  /\ nextId' = id + 1
  /\ log' = Append(log, [target |-> target, source |-> source, id |-> id, arms |-> open])
  /\ UNCHANGED <<conditions, cache, nextPtr, open, branches>>

(* The constructors of class LocalVar.  They take no operator.             *)
Declare(l, x) ==
  LET id == WriteId(<<x>>)
  IN  /\ l \notin DOMAIN locals
      /\ Writing(<<"local", l>>, <<x>>, id)
      /\ written' = Put(written, id, <<"direct", Terms(<<x>>)>>)
      /\ locals' = Put(locals, l, ReadEvent(id))
      /\ scope' = Put(scope, l, [declared |-> open, assigned |-> open])

DeclareArray(a) ==
  /\ a \notin DOMAIN locals
  /\ Writing(<<"local", a>>, <<Literal>>, nextId)
  /\ written' = Put(written, nextId, <<"fill", Literal>>)
  /\ locals' = Put(locals, a, ReadEvent(nextId))
  /\ scope' = Put(scope, a, [declared |-> open, assigned |-> open])

(* A variable keeps the value that an arm assigns to it, in the other arm  *)
(* and after the branch, whether or not the arm is taken: programs assign  *)
(* local variables in the arm that declares them.  Module SliceLoop has    *)
(* the others, sliced.                                                     *)
Assignable(l) == l \in DOMAIN locals /\ scope[l].declared = open

(* LocalVar::operator=. *)
Assign(l, source) ==
  LET id == WriteId(source)
  IN  /\ Assignable(l)
      /\ BinaryAsserts(source)
      /\ Writing(<<"local", l>>, source, id)
      /\ written' = Put(written, id, <<"direct", Terms(source)>>)
      /\ locals' = Put(locals, l, ReadEvent(id))
      /\ scope' = [scope EXCEPT ![l].assigned = open]

(* Mutant of Store: LocalMemory::operator= leaves the read event alone.    *)
StoreStale(a, i, source) ==
  LET id == WriteId(source)
  IN  /\ Assignable(a)
      /\ BinaryAsserts(source)
      /\ Writing(<<"element", a, i>>, source, id)
      /\ written' = Put(written, id, <<"store", locals[a].id, i, Terms(source)>>)
      /\ scope' = [scope EXCEPT ![a].assigned = open]
      /\ UNCHANGED locals

(* LocalVar::operator[] and LocalMemory::operator=: the array as it is now,*)
(* but for one element.                                                    *)
Store(a, i, source) ==
  LET id == WriteId(source)
  IN  /\ Assignable(a)
      /\ BinaryAsserts(source)
      /\ Writing(<<"element", a, i>>, source, id)
      /\ written' = Put(written, id, <<"store", locals[a].id, i, Terms(source)>>)
      /\ locals' = Put(locals, a, ReadEvent(id))
      /\ scope' = [scope EXCEPT ![a].assigned = open]

(* SharedVar::operator=. *)
WriteShared(source) ==
  LET id == WriteId(source)
  IN  /\ BinaryAsserts(source)
      /\ Writing(<<"shared">>, source, id)
      /\ written' = Put(written, id, <<"direct", Terms(source)>>)
      /\ UNCHANGED <<locals, scope>>

-----------------------------------------------------------------------------
(* Mutant of Registered: the enclosing condition, without the new one.     *)
RegisteredOuter(rest, ptr, ch) == IF rest # <<>> THEN Append(ch, Head(rest)) ELSE ch

(* Thread::register_condition: the cache, when p is the newest condition   *)
(* beside those of "rest" and "new" returns ptr for their conjunction.     *)
Registered(rest, ptr, ch) == IF rest # <<>> THEN Append(ch, ptr) ELSE ch

(* Thread::unregister_condition. *)
Unregistered == IF cache # <<>> THEN Front(cache) ELSE cache

(* The local variables of an arm go out of scope at its end.               *)
LeaveScope ==
  LET left == { l \in DOMAIN locals : Len(scope[l].declared) < Len(open) }
  IN  /\ locals' = Restrict(locals, left)
      /\ scope' = Restrict(scope, left)

BeginThen ==
  /\ Len(log) + branches < MaxOps
  /\ Len(open) < MaxDepth
  /\ conditions' = <<nextPtr>> \o conditions
  /\ cache' = Registered(conditions, nextPtr + 1, cache)
  /\ nextPtr' = nextPtr + 2
  /\ nextId' = nextId + 1
  /\ open' = Append(open, [branch |-> branches + 1, taken |-> TRUE])
  /\ branches' = branches + 1
  /\ UNCHANGED <<locals, written, scope, log>>

BeginElse ==
  /\ open # <<>> /\ Last(open).taken
  /\ conditions' = <<nextPtr>> \o Tail(conditions)
  /\ cache' = Registered(Tail(conditions), nextPtr + 1, Unregistered)
  /\ nextPtr' = nextPtr + 2
  /\ open' = [open EXCEPT ![Len(open)].taken = FALSE]
  /\ LeaveScope
  /\ UNCHANGED <<nextId, written, branches, log>>

EndBranch ==
  /\ open # <<>>
  /\ conditions' = Tail(conditions)
  /\ cache' = Unregistered
  /\ open' = Front(open)
  /\ LeaveScope
  /\ UNCHANGED <<nextPtr, nextId, written, branches, log>>

Next ==
  \/ \E l \in Scalar : \E x \in {Literal, Shared} \union LocalOperands : Declare(l, x)
  \/ \E a \in Array : DeclareArray(a)
  \/ \E source \in Sources :
       \/ \E l \in Scalar : Assign(l, source)
       \/ \E a \in Array, i \in Index : Store(a, i, source)
       \/ WriteShared(source)
  \/ BeginThen
  \/ BeginElse
  \/ EndBranch

Spec == Init /\ [][Next]_vars

-----------------------------------------------------------------------------
TypeOK ==
  /\ conditions \in Seq(1 .. nextPtr - 1)
  /\ cache \in Seq(1 .. nextPtr - 1)
  /\ nextId \in Nat
  /\ DOMAIN locals \subseteq Local
  /\ \A l \in DOMAIN locals :
       locals[l].id \in DOMAIN written /\ locals[l].cond \in 0 .. nextPtr - 1
  /\ DOMAIN written \subseteq 0 .. nextId - 1
  /\ open \in Seq([branch : 1 .. branches, taken : BOOLEAN])
  /\ DOMAIN scope = DOMAIN locals

(* Instructions made in one arm, whatever nested branches lie between      *)
(* them, have one condition pointer, and in different arms different ones: *)
(* an operator can take operands of one arm, for BinaryReadInstr asserts   *)
(* that their pointers are equal.                                          *)
ConditionsAreArms ==
  LET arms == { <<scope[l].assigned, locals[l].cond>> : l \in DOMAIN locals }
              \union {<<open, PathCondition>>}
  IN  \A p, q \in arms : p[1] = q[1] <=> p[2] = q[2]

-----------------------------------------------------------------------------
(* An instruction of one operand is the operand. *)
Instruction(values) == IF Len(values) = 1 THEN Head(values) ELSE <<"op", values>>

(* An array, but for one element. *)
Updated(array, i, v) == [j \in Index |-> IF j = i THEN v ELSE array[j]]

(* What the formula says an event is: an instruction over symbols, or for  *)
(* an array one for each index.                                            *)
Meaning ==
  LET Value[id \in 0 .. nextId] ==
        LET Of(t) == CASE t[1] = "event"  -> Value[t[2]]
                       [] t[1] = "select" -> Value[t[2]][t[3]]
                       [] OTHER           -> t
            Instr(terms) == Instruction([j \in DOMAIN terms |-> Of(terms[j])])
            write == written[id]
        IN  IF id \notin DOMAIN written THEN <<"event", id>>
            ELSE CASE write[1] = "direct" -> Instr(write[2])
                   [] write[1] = "fill"   -> [i \in Index |-> write[2]]
                   [] write[1] = "store"  ->
                        Updated(Value[write[2]], write[3], Instr(write[4]))
  IN  Value

(* The reference: executing the writes of the program where "taken" says   *)
(* which of its branches are taken.                                        *)
Executed(write, taken) ==
  \A i \in DOMAIN write.arms : taken[write.arms[i].branch] = write.arms[i].taken

Operand(env, x) ==
  CASE x[1] = "local"   -> env[x[2]]
    [] x[1] = "element" -> env[x[2]][x[3]]
    [] OTHER            -> x

NewValue(env, write) ==
  LET v == Instruction([j \in DOMAIN write.source |-> Operand(env, write.source[j])])
  IN  CASE write.target[1] = "element" -> Updated(env[write.target[2]], write.target[3], v)
        [] write.target[1] = "local" /\ write.target[2] \in Array -> [i \in Index |-> v]
        [] OTHER -> v

Perform(run, write, taken) ==
  LET v == NewValue(run.env, write)
  IN  IF ~Executed(write, taken) THEN run
      ELSE [env    |-> IF IsLocal(write.target) THEN Put(run.env, write.target[2], v) ELSE run.env,
            writes |-> Put(run.writes, write.id, v)]

Execution(taken) ==
  LET Run[n \in 0 .. Len(log)] ==
        IF n = 0 THEN [env |-> <<>>, writes |-> <<>>] ELSE Perform(Run[n - 1], log[n], taken)
  IN  Run[Len(log)]

(* slicer.h shows how a program with branches is turned into calls: its    *)
(* variables mean in the formula what they mean in the program.  Whatever  *)
(* branches an execution takes, each write event of the formula has the    *)
(* value that the execution writes there.                                  *)
WritesAreTheProgram ==
  \A taken \in [1 .. branches -> BOOLEAN] :
    LET writes == Execution(taken).writes
    IN  \A id \in DOMAIN writes : Meaning[id] = writes[id]
=============================================================================
