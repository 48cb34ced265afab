# Libse in TLA+

Libse turns a concurrent C++ program into an SMT formula.  The program is run
once (or once per *slice*) with overloaded operators; what it does to its
variables is recorded as *events*, and `Threads::encode` says in a formula which
values and which orders of events are possible.  Nothing in the library runs
concurrently.  What is concurrent is the program described by the formula, and
what is hard is that the recording, the structures it fills and the constraints
read off them have to agree for every program.  These modules state that
agreement, check it on all small programs, and prove part of it for all.

## The system

| part | code | state | operations | used by |
|---|---|---|---|---|
| Slice, Block | `slice.h`, `block.h` | tree of blocks, the current block, the stack of loops | `append`, `append_all`, `begin_then`, `begin_else`, `end_branch`, `unwind_loop` | Threads |
| Thread | `thread.h`, `thread.cpp` | path condition: list and cache of conjunctions | `instr`, `begin_then`, `begin_else`, `end_branch`, `path_condition_ptr` | variables, Slicer |
| Threads | `thread.h` | stack of threads, current thread, a slice per thread, error expressions | `begin_thread`, `end_thread`, `join`, `begin_slice_loop`, `reset`, `encode`, `error` | programs |
| Slicer | `slicer.h` | decision and flip mark per location, stack of decisions | `begin_then_branch`, `begin_else_branch`, `end_branch`, `next_slice` | programs |
| events, zones | `event.h`, `zone.h` | counters of identifiers and atoms | constructors, `reset` | all |
| variables, instructions | `var.h`, `instr.h`, `concurrent.h` | last write and read event of each variable | declarations, assignments, operators | programs |
| clocks, values | `encoder.h` | none beyond the solver's | constraints and equations | Threads |
| order encoder | `encoder_c0.h`, `relation.h` | the related events | `relate`, `encode` | Threads |
| Mutex | `mutex.h` | owner, a shared variable | `lock`, `unlock` | programs |

A program calls the slicer, the variables and the threads.  `Slicer` and the
variables act on the current thread (`ThisThread`); `Thread` keeps the path
condition and passes events and branches on to its slice in `Threads`; and
`Threads::encode` walks every slice, constrains clocks (`internal_encode_spo`)
and values (`ValueEncoder`), relates the shared events and hands them to the
order encoder.  All of it is shared state of one OS thread: there are no locks,
no messages and no callbacks except the function given to the constructor of
`Thread`, which records in the middle of that constructor.

What is hard, and tested little:

* two structures must agree that no code compares: the thread's path condition
  and the nesting of blocks in its slice; the cache of conjunctions and the list
  of conditions; the recording order and the depth-first walk that encodes it;
* legal sequences of calls, with empty blocks deleted on some of them;
* counters and stacks that survive or do not survive `reset()` and the end of a
  thread;
* the slice loop: which decision is flipped when locations are discovered late,
  and that it ends;
* quantified axioms over clocks, which say what interleavings the memory allows.

The hazards in `PROJECT.json` list these at their lines, with the properties
that would catch each going wrong, or why none does yet.

## The modules

* **Slice** - the tree of blocks and the effect of each call on it, as operators
  on a record: `blocks`, a sequence of blocks in the order of their allocation
  (a position is a pointer), and `cur`.  The assertions of a call are operators of
  their own, named after it (`BeginElseAsserts`).
* **Recorder** - one thread recording a program: path condition, cache and slice;
  one action per member function of `Thread`.  `open` is the program's control
  stack, which the code does not have: it restricts calls to what the comments of
  `slice.h` ask of callers (an `else` once, each branch closed once).  The events
  are those of `Thread::instr` and the reads of shared variables in instructions.
* **Clocks**, **SpoEncoding** - `internal_encode_spo`: the clock constraints of a
  slice and what they entail.
* **ProgramOrder** - the abstract specification: a shared event comes after all
  those recorded before it, except those of an arm that excludes its own.
* **RecorderOrder** - composes Recorder with SpoEncoding: after each step the
  slice is encoded, and the entailed order is read back in `before`.  That this
  implements ProgramOrder is checked as a refinement, and proved.
* **LoopUnwinding** - `Slice::unwind_loop` among the other calls on a slice.
* **Slicer** - the class, driven by a program, a sequence of tokens that call the
  slicer or do not, with the `do ... while (slicer.next_slice())` loop around it.
  The caller's side of the contract (branches are nested, an `else` is the only one
  of its branch) is the assumption `Nested` on the programs.  **MCSlicer** builds
  programs out of branches.
* **SliceLoop** - a whole analysis.  It extends Slicer: each of its actions is a
  call of the slicer with what the call does to the current thread, or a statement
  of the program (`Assign`, `Write`, `Error`, `Spawn`, `Finish`, `Join`) with what
  the library records for it, or the loop's part (`StartSlice` with `reset()` and
  the declarations, `Encode`, `LoopNextSlice`).  `Encode` asks of each input, a
  value for each `any()`, whether the formula has a model; what orders of events a
  model allows is OrderEncoder's `Models`, instantiated for the recorded relation.
  **MCSliceLoop** defines the programs.
* **Threads** - threads started, ended and joined, in both styles the library
  offers, `reset()` and `begin_slice_loop()`.  Branches are left to Recorder, so
  a slice is a sequence of events.  An object destroyed by `pop()` keeps its
  identity and parent, as the storage of `std::stack` does until the next push.
  **MCThreads** defines the kinds of programs.
* **OrderEncoder** - the four constraints of `Z3OrderEncoderC0::encode`, as
  predicates on a model (clocks, read-from, truth values of conditions), against two
  references.  The comments of that class have memory a stack: a write pushes, a
  read pops (`Run`).  The tests have ordinary memory: a read gets the last write, and
  leaves it there (`MemoryRuns`).  The two differ once a variable is read
  twice, and the constraints are those of stacks: what passes is said of stacks, or
  of variables read once, and shared_memory shows what the tests expect and the code
  does not do.  `Mutex` is the events that `lock` and `unlock` relate (`Assigned`
  has them among others) and the constraint that `unlock` puts on its read.
* **Variables** - local scalars and arrays, shared scalars, operators, branches:
  the equation that the formula gives each write, against executing the program.
  Conditions are numbered objects here, since the code compares pointers.  A local
  variable is assigned in the arm that declares it; what happens otherwise is the
  subject of SliceLoop.
* **DataLemmas** - induction over sets and numbers, iteration, sequences,
  prefixes and flattening, and the closure that Clocks computes: what the proofs
  below share.
* **SliceProofs**, **RecorderProofs**, **LoopProofs**, **SlicerProofs**,
  **ThreadsProofs**, **OrderProofs**, **VariablesProofs** - the proofs, each about the
  module in its name; SliceProofs is about SpoEncoding, too, RecorderProofs about
  RecorderOrder, and OrderProofs about OrderEncoder.

Operators named in a comment "Mutant of X" are mistakes that X could have; no
specification uses them, and `PROJECT.json` says which property each breaks.

## What is checked

| run | what it shows |
|---|---|
| recorder_order | for any nesting of branches: no assertion fails; events carry exactly the conditions of the blocks around them (`GuardsFollowBlocks`), the path condition is that of the open arms (`PathFollowsArms`); no event is lost or doubled and the walk meets them in recording order; the clocks entail program order, no more and no less (`ImplementsProgramOrder`) |
| loop_unwinding | nested loops with bounds 2 and 1 inside, around and beside branches: counters account for the open iterations, leaving a loop leaves exactly its branches |
| slice_loop | at the end of the slice loop the explored paths are the paths of the program (`EveryPath`), the loop ends, one decision changes per slice, and answers belong to their own branch; the formula of a slice is satisfied by the inputs with which some interleaving of the program's threads reports an error on the path of that slice, and by no input that keeps the program on that path without an error (`SliceIsExact`); together the slices miss no input that makes the program fail (`MissesNothing`) |
| threads | unique identifiers, one sender per receive event, and the order of events that starting and joining threads imposes, no more and no less; the stack is the line of parents |
| order_encoder | the axioms allow what stacks allow, for runs that pop in the opposite order of pushing (`NestedRunsHaveModels`), and nothing that stacks do not do with the pops that read from a push, whether their condition holds or not (`ModelsAreStackRuns`); where no variable is read twice they allow what ordinary memory does, no more and no less (`ReadOnceIsMemory`).  The tests expect more, see shared_memory |
| variables | on every path each write event has the value that executing the path gives it; instructions of one arm carry one condition, those of different arms different ones |

Runs that find a disagreement between code and what is said about it (details
under "findings" in `PROJECT.json`):

| run | disagreement |
|---|---|
| threads_popped | the constructor of `Thread` pops the main thread's object; `end_main_thread()` then fails its assertion |
| threads_reused_ids | events kept for the main thread share identifiers with events recorded after `reset()` |
| slicer_repeated | a location met twice in one run has one decision, so not every path is sliced |
| slice_false_alarm | a slice that skips the then block does not constrain the condition: an error is reported that no execution has |
| slice_kept | without `reset()` between slices, as in the benchmarks, a shared variable that each slice pops is missing in the second, and an error is missed |
| shared_memory | tests read a shared variable twice and expect the same value, as ordinary memory has it; the encoding pops what is read, so the second read gets what was there before or blocks the program.  Locking a mutex twice has no model either, as the later of two writes must be read first, and the critical sections of two threads may lie one inside the other |

### Bounds

* recorder_order: 3 events, 2 branches open at a time, 7 blocks, 2 conditions
  (exchangeable: symmetry).  Seven blocks allow three branches in a row or one in
  another with an else; deletion of empty blocks, the cache (used from the second
  open condition on) and joins of clocks all occur.  The proofs lift the bounds.
* loop_unwinding: bounds 2 and 1, 4 open branches or iterations, 9 blocks: the
  inner loop is entered again in the second iteration of the outer.
* slice_loop: six families of programs, one local and one shared variable.
  `Branching` has all structured programs with up to three branches and all
  numberings of their locations (a function defined further up has smaller
  locations), with and without slicing.  Three is the least number with a branch in
  each arm of another, whose discovery depends on earlier decisions.  `Sliced` has
  one branch, with each choice of a statement before, in and after its arms: an
  assignment, a push, a pop, an error, a thread that does one of these and is
  joined or not.  In `SlicedChild` the branch is in a thread.  `Larger` has two
  nested or sequential branches with an assignment and an error anywhere.  `Kept`
  and part of `Larger` do not reset between slices.  The other families leave out
  what is known to differ, and the places say so: `Unsliced` (frequency zero)
  has arms that only push and report, since an assignment to an outer local
  variable is seen on every path, starting a thread in an arm forces the arm's
  condition, and a pop in an arm not taken can justify a pop out of order; `Kept`
  has no shared variables (run slice_kept).
* slice_false_alarm, slice_kept: one program each (`Skipping`, `Popping`), in the
  first with and without a reset.
* threads: 4 threads made, 8 events, with either a reset or a slice loop:
  siblings, a grandchild, joins by the parent and by others.
* order_encoder: 4 events of a main thread and two children in two zones, one
  condition.  Two pushes and two pops are all that the axioms relate.  Clock
  values run from 1 without gaps, ties allowed: constraints compare clocks only
  with each other.  Read-from is a function to a write or to
  `NoWrite`, standing for any number that is no write's identifier.
* shared_memory: 5 events of a main thread and two children on one variable.  The
  shortest counterexample has 4; 5 leave room for an initial write with two
  lock/unlock pairs, of one child or two, programs that violate the property, too.
* variables: 5 declarations, assignments and branches together, two branches
  deep, a scalar and an array of two elements.  Literals and shared reads are
  symbols, so equal symbols mean equal values under every interpretation.

The reference in SliceLoop is the set of executions of the program, one thread
step at a time, with an input.  A child starts with its parent's local variables,
as a recorded thread does, and a join takes the child's.  The encoding rejects
runs in which a push made after a pop is popped (OrderEncoder,
`NestedRunsHaveModels`); the reference leaves these out, too.  Its shared variable is
a stack, as in the comments of the order encoder, so `SliceIsExact` and `MissesNothing`
say nothing of a shared variable taken as ordinary memory, as in the tests; where that
differs is the subject of shared_memory.

### Fairness

`Terminates` is the liveness property, checked in slice_loop.  Program and slice
loop run in one OS thread that never waits, so weak fairness of `Next` (Slicer)
and `LoopNext` (SliceLoop) says only that the process goes on.  It also makes an
assertion that stops the loop visible: `StartSlice` needs `ResetAsserts`, and the
loop would not end if a slice left an error behind.  Elsewhere a program may stop
recording at any time, and deadlock checking is off because recordings do end and
bounds are reached.

## What is proved

`RecorderProofs` proves for every set of conditions, every bound and every
program, with TLAPS:

* `TypeCorrect`: `Spec => []TypeOK`;
* `AssertionsHold`: `Spec => []AssertsHold`, no assertion of the slice or the path
  condition can fail;
* `GuardIsNesting`: `Spec => []PathFollowsArms`, the blocks of the open arms are
  nested in one another, the innermost gets what is recorded next, and the path
  condition, cached or not, is the conjunction of their conditions.

None of these is inductive.  The invariant that is (`IInv`, theorem `Inductive`)
adds what the calls rely on without saying so:

* `SliceInv`: the current block is a fresh one, with no inner blocks and no else
  block, and is not the most outer one; every other block but that one lies in a
  block of the slice; and the asserts on the most outer block hold (no body, an inner
  block, no else).  Without the first part, a branch could begin in a block that
  already holds something, and `begin_then` asserts that it does not;
* `PathInv`: entry i of the cache is the suffix of length i + 1 of the list of
  conditions (`CacheOf`), which is why popping both keeps them together;
* `ArmsInv`: thread and slice, which do not look at each other, agree: there are as
  many conditions as open arms, the k-th from the back is that of the block of the
  k-th arm, which lies in the block of the arm around it; no two open arms are of
  one branch, a branch in its "then" arm has no else block yet, and the block that
  the next event lands in, or whose branch it follows, is that of the last open arm.

`SliceProofs` shows that each operation of a slice preserves `SliceInv` and what
it does to the blocks of the open arms, for events of any type, as Recorder and
LoopUnwinding record different ones.  The only assumptions are those on the
constants (`BoundAssumption` in Recorder, which says that bounds are naturals, and
those of Slice).

Of RecorderOrder, which reads the graph back, three invariants are proved:

* `ShapeHolds`: `OrderSpec => []Shape`, every block but the current one holds
  something, and an else block has the negated condition of its then block;
* `GuardsAreNesting`: `OrderSpec => []GuardsFollowBlocks`, every recorded event
  carries exactly the conditions of the blocks around it;
* `WalkIsRecording`: `OrderSpec => []WalkIsRecordingOrder`, the depth-first walk of
  the graph meets every recorded event once, in the order of recording.

For the second, a block keeps the conditions around it from its allocation on, and
an event gets its guard when the block it is put into is that of the last open
arm.  For the third, the invariant `InOrder` gives each block an interval of
numbers: the events in it and inside it are exactly those of the interval, its own
come first, its inner blocks' intervals follow one another without a gap, and that of
an else block follows that of its then block.  The blocks of the *spine*, which are the
most outer one, those of the open arms and the current one, all end with the last
event recorded.  So an append at the current block extends exactly the intervals of
the spine, `begin_else` and `end_branch` may take a block off the spine because what
is recorded later lies beside it, and a block that is deleted has an empty interval.
That a slice with such intervals is walked in order is an induction on the blocks,
from the inside out.

And the refinement is proved:

* `ProgramOrderImplemented`: `OrderSpec => ImplementsProgramOrder`.  Each operation of
  the thread records events, opens, swaps or closes an arm as the abstract
  `ProgramOrder` does, or changes nothing it knows of; and the order that the clocks
  of `internal_encode_spo` entail on two shared events is at all times "recorded
  first, and not in different arms of one branch", no less and no more.

The argument has two halves.  The first (in `SliceProofs`) is about one graph, whatever
calls built it, as long as it has the intervals of `InOrder` and each event has a home
in them.  `EncodeSpo` is unfolded to one block's constraints given those of the blocks
after it (`EncodeUnfolded`, `EncodeBlockFacts`).  Then, block by block from the last:

* *no more* (`Sound`): each clock is given the set of events that are to come after it.
  A constraint from clock a to clock b is within the intended order if what comes after
  b, and b's own event, come after a; the epoch, the events and the join clocks of a
  block keep to that.  The join clock of a branch sees what follows the branch, and an
  arm that starts from the clock before the branch, and not from the end of the
  other arm, does not see the other arm;
* *no less* (`Linked`): any transitive order that has the constraints puts the events of
  a block after the clock the block starts from and before the one it ends with, and
  those that do not exclude each other in order.

With `EntailedIsClosure` the two make `EntailedOrdered`: the entailed order is the
intended one, which is read off the intervals.

The second half (`RecorderProofs`) relates that to what was recorded.  The arms that
RecorderOrder reads from a block are the names of the conditional blocks around it
(`ArmsRange`), so two events exclude each other iff blocks around them lie beside one
another (`BesideFacts`).  Every operation of a slice leaves the arms of each block that
has events as they were and puts new events into the block of the innermost open arm
(`Grown`), also when it deletes a block, moves the cursor up two levels, or gives a fresh
block a condition.  So what was ordered stays so, and the new events are ordered after
those that do not exclude the open arms (`GrownRecords`).  The invariant is `IInv` with
`Recorded`: the intervals, a home for each event, and `arms` and `before` read from the
graph.  A branch is new to `ProgramOrder` because `begin_then` makes a block, or takes an
empty one without condition, whose number no recorded arm has (`FreshBranch`).

`LoopProofs` proves for any policies, bounds and nesting of loops and branches:

* `LoopTypesCorrect`: `Spec => []TypeOK`;
* `LoopAssertionsHold`: `Spec => []LoopAssertsHold`, no assertion fails, also not in
  the middle of the calls of `end_branch` with which `unwind_loop` leaves a loop;
* `IterationsAreCounted`: `Spec => []IterationsAccountedFor`, a loop on the stack has
  its bound less its counter of iterations open, any other has none;
* `NestingIsAsOpened`: `Spec => []NestingIsOpen`, so leaving a loop closes the blocks
  of its iterations and no others;
* `UnwindingKeepsOrder`: `Spec => []UnwoundInOrder`, leaving a loop loses or reorders no
  event.

The invariant (`IInv`, theorem `UnwindingInductive`) has `ArmsMatch`, the counterpart
of `ArmsInv` for branches and iterations, and `LoopsInv`, which says where the
iterations are: those of one loop lie next to each other on the program's control
stack, and every iteration there belongs to a loop on the stack.  The counters alone would
not do.  A loop is left by as many calls of `end_branch` as its counter says, from the
top, so what is closed must be known to be its own iterations.

`DataLemmas` proves for every finite set of constraints between clocks that what
`Clocks` computes by going through the clocks one after another is its transitive
closure (`EntailedIsClosure`).

`SlicerProofs` proves for every set of programs of nested branches, every
numbering of their locations and every frequency:

* `TypeCorrect`: `Spec => []TypeOK`;
* `StackIsBalanced`: `Spec => []Balanced`, the stack of decisions is empty when a
  slice ends;
* `AnswersAreOneSided`: `Spec => []OneSide`, no slice enters both sides of a branch;
* `UnslicedIsWhole`: `Spec => []NeverSliced`;
* `OneFlip`: `Spec => FlipsOne`, of the calls of `next_slice`;
* `SlicesAreBounded`: `Spec => []CountBound`, a loop over a program of n locations
  makes at most 2^n slices;
* `WalksAreExplored`: `Spec => []EveryWalk`, when `next_slice` returns false the slices
  made are the walks of the program under one decision for each location, all of them
  and nothing else;
* `PathsAreExplored`: `Spec => []EveryPath`, if no two branches of a program have the
  same location (`OneVisit`).

The invariant (`IInv`, theorem `Inductive`) says what `begin_else_branch` relies
on when it reads the top of a stack: with slicing the stack has one answer for
each branch open at the program's position, and the answer of a "then" block that
was entered lies at the depth of its branch until the block is closed
(`SlicedInv`).  When the program comes to the `else`, everything nested in the
"then" block is closed and the depth is again that of the branch, so the answer on
top is its own.  A skipped block changes neither, as its closing token has the
depth of its first one.  Without slicing, stack and map stay empty and the blocks
entered are all those met (`UnslicedInv`).  That `Flippable` has a greatest
location comes from the finiteness of the map.  The assumption is `CaseAssumption`:
programs are nested and frequencies and locations are naturals.  The
specification that the run slice_loop checks is SliceLoop's: each of its actions
contains an action of Slicer or leaves the variables of Slicer unchanged.

That the loop makes each slice once is a matter of counting.  The set of flipped
locations is read as a binary number whose most significant digit is the smallest
location; `next_slice` clears the digits from the highest location down to the first
that is zero, and sets that one (`NextSliceCounts`), and a location discovered
meanwhile is a digit zero.  So the number grows with each slice, and the number of
slices is at most that of the numbers up to it (`CountInv`, `BeforeGrows`).

That the loop makes every slice needs a definition of what a slice is to explore.  With
the answers of `begin_then_branch` fixed in advance, one for each location, a program
walks one path (`PathOf`), and the ways through a program are its walks under all
choices of answers if no location has two branches (`WaysAreWalks`).  Three invariants
follow.  The program is in a "then" block only if it entered it (`InsideInv`), so that
the decision on top of the stack at an `else` tells whether to enter it.  The blocks
entered in a slice, followed by what is left to walk, are the walk of every choice that
agrees with the decisions made (`PrefixInv`).  And a choice that first differs from the
decisions, in the order of locations, at a flipped one has been explored
(`ExploredInv`): the flip was made when the slices with the other answer were done.
`next_slice` adds the choices that agree with the slice that ends, and when all
locations are flipped there is no other choice.  Locations discovered late do no
harm, since a new one is not flipped.  `EveryPath` fails for a program that meets a
location twice, which is the run slicer_repeated; `EveryWalk` says what such a program
gets instead.

`ThreadsProofs` proves for any number of threads, events and resets:

* `TypeCorrect`: `Spec => []TypeOK`;
* `StackIsTheLine`: `Spec => []StackIsAncestry`, the stack is the line of parents of
  the current thread, so `end_thread()` goes back to the thread that started the one
  that ends;
* `IdsAreUnique`: `Spec => []UniqueIds`;
* `SendersAreUnique`: `Spec => []OneSender`, what a started thread or a join receives
  from is one event, alone in its zone among the writes;
* `EncodesTheOrder`: `Spec => []EncodedOrder`, the order that the clock constraints of
  all threads entail on the shared events is the one that starting and joining
  imposes, no more and no less.

The theorems are of programs with `KeepsNoEvents`: those that call
`begin_slice_loop()`, which leaves the events of `m_main_thread` in its slice, do not
also call `reset()`, which starts the identifiers again.  For programs that do both
`UniqueIds` is false, as the run threads_reused_ids shows.  The invariant (`IInv`,
theorem `Inductive`) has two parts that the properties do not mention.  `LineInv`:
the threads that this recording has begun and not ended are a line, each started
by an older one of them, and the current thread is the youngest.
Hence an ended thread never becomes current again, nothing is recorded after its
last event, and that is its send event (`FinalInv`), which is what a join looks for.
`MapInv` and `SenderInv`: identifiers and zones in use are below their counters, so
the next ones are new, and a send event, whose zone is always new, shares it with
receive events only.  `EncodesTheOrder` has an invariant of its own, `OrderInv`: the
order kept by the model, which each action extends, is the least transitive relation
that contains the constraints encoded now.  An action adds constraints
that end in its new events, so that what was entailed among the earlier ones stays.

`OrderProofs` proves for any number of threads, events, zones and conditions:

* `EventsTyped`: `Spec => []IInv`, the type of what is related;
* `Soundness`: `Spec => []ModelsAreStackRuns`;
* `Completeness`: `Spec => []NestedRunsHaveModels`.

Both properties are of one relation of events, so the invariant is its type and the
work is in relating models to runs.

*From a model to a run* (`Sound`).  The events that happen (`Happening`: those that are
enabled, and the pops that read from a push without being enabled, which `rf_enc`
allows) are executed in the order of the clocks; where clocks are equal a read comes before a write (`TimeOrder`), since
`stack_enc` speaks of what is pushed strictly before a pop.  The stacks hold what has
been pushed and not popped, in that order (`Running`).  When a read comes that the
model has read from x, then x is on the stack: it was pushed before, by `rf_enc`, and
not popped, by `rs_enc`.  If y were above it, then y was pushed later, by `ws_enc`, and
before the read; `stack_enc` then gives a read of y before this one.  It reads from a
push, so it is among what happens, and y is no longer there (`SoundPop`).

*From a run to a model* (`Complete`).  An unblocked run pops each push at most once,
and what was pushed to a stack between a push and its pop is popped before (`Lifo`,
`RunLifo`).  The schedule orders the enabled events only; the others are put right
after the last enabled event that the program has before them (`EventOrder`), which
keeps the program order of all.  For every strict total order of the events that has
the constraints there are clocks in that order (`ClocksOfOrder`), as inserting one
event after another into the clocks of those before reaches its rank.  With them,
the second half of `stack_enc` is `Lifo`, and the first is that the run is `Nested`.

`VariablesProofs` proves for any number of variables, writes and branches:

* `TypeCorrect`: `Spec => []TypeOK`;
* `OperandsAgree`: `Spec => []ConditionsAreArms`, instructions made in one arm carry
  one pointer, before and after nested branches, and those of different arms carry
  different ones, so `BinaryReadInstr` may compare pointers;
* `WritesCorrect`: `Spec => []WritesAreTheProgram`, on every path each write event has
  in the formula the value that the execution of that path writes there.

The invariant (`IInv`, theorem `Inductive`) is about the order of allocation: a
condition and its conjunction with those around it are allocated one after the
other, and an arm is allocated after the arms around it (`Allocated`), hence no two
open arms have one pointer; the cache has the conjunctions of all open arms but the
outermost, in order (`Cached`), hence the end of an arm brings the pointer of the arm
around it back; and a local variable in scope has the pointer of the arm that
declared and last assigned it, which is open (`LocalsInv`).  That programs assign
local variables in the arm that declares them is the guard `Assignable`.

The values have an invariant of their own (`ExecutionsInv`).  What an event is equal to
refers to events with smaller identifiers only (`WellFormed`), so the recursion of
`Meaning` has a solution (`MeaningExists`), and events written later do not change the
meaning of those before (`MeaningKept`).  For every choice of the arms taken, the writes
of the execution have the meanings of their events, and so do the local variables that
are declared in arms taken (`Agrees`).  A variable in scope is declared in arms that are
open, so an execution that performs a write has a value for each of its operands, and
that is the value which the formula gives to the event the operand reads
(`OperandMeans`); hence it writes what the formula says (`WriteAgrees`).

Induction in these proofs is over sets: a non-empty set of naturals has a least
element (`LeastNat`), so the set of exceptions to a claim is empty (`SetInduction`).  The
induction theorems of the prover's library take an operator as parameter, which no
backend can instantiate.  For the same reason no module uses recursive operators;
`Walk`, `EncodeSpo` and the like are functions on the blocks of a slice, and the
existence of such a function is proved where it is used (`InOrderWalks`,
`EncodeBlockFacts`, `OuterSteps`).

Model-checked only:

* What SliceLoop says of its formulas (`SliceIsExact`, `MissesNothing`), and its type
  invariant `LoopTypeOK`.  SliceLoop takes the models of the order encoder from an
  instance with a parameter, which the prover cannot read.
* `Terminates`, a liveness property.

## What is not modelled

* `internal_error`, which adds an error condition without that of the path.
* Sorts, bit vectors, names of solver constants, and the solver itself: formulas
  are predicates on models.  The matrix variant of clocks (`__USE_MATRIX__`).
* Shared arrays, symbolic indexes, and n-ary operators other than the path
  condition.  `any()` is in SliceLoop.
* The owner that `Mutex` keeps for its assertions.
* The order of the reads within one instruction.  Recorder numbers them as the
  list of `filter` has them, from left to right; the code numbers them as C++
  constructs the operands, and no comment says which order is meant.
* `error()` without `encode()` before the next `reset()`, which then fails its
  assertion (`thread.h:212`).
* The initial write of a shared variable declared in an arm (it carries no
  condition), and a thread that is joined twice in a program with values.
* Zones that are not atoms; no code makes any but the bottom zone.
* Reads of local variables in Recorder; they take the identifier of the write and
  relate no event, and are in Variables.
* `fr_enc`, the axiom of ordinary memory, whose call in `encode()` is commented out
  (`MemoryRuns` states what it is for), and the encoders commented out.
* `core/`, `libse.h`, the tests, benchmarks and vendored code.

## Plan

Done in this order: Slice and Recorder, with the refinement of ProgramOrder;
LoopUnwinding; Slicer; Threads; OrderEncoder; Variables; the proofs of Recorder;
SliceLoop, which composes slicer, threads, values and order encoder; the proofs of
Slicer, Threads and Variables; the proofs of Clocks, RecorderOrder and LoopUnwinding;
the proof that the recorder with its encoding implements ProgramOrder; the proofs of
OrderEncoder and of the values of Variables; the proofs that the slicer makes every
slice once.  Next:

1. The owner of a mutex among threads started in critical sections.
2. Variables with shared arrays and declarations in arms.
3. A composition of Threads and OrderEncoder: events joined twice.
