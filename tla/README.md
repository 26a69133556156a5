# TLA+ specifications of the Parrot virtual machine in Ponie

Ponie is Perl 5 on the Parrot virtual machine. The repository holds Parrot
(`src/parrot`), a modified Perl 5 (`src/perl`) and the PMCs that hold Perl
values in Parrot objects (`src/src/pmc`). This directory specifies two kinds of
parts of Parrot. In the first, several threads act on shared state: the
thread-safe queues, the event system and the interpreter threads. The second is
the core below every program: the run loops, the collector with its header
pools, the hash tables and the IO buffers. It is sequential, but a collector
run can happen inside any call that allocates, and each of these parts keeps
pointers, flags and counters that have to agree after any sequence of calls.

## 1. The system

| Component | State | Operations | Interacts with |
|---|---|---|---|
| Thread-safe queues (`src/parrot/src/tsq.c`) | head, tail, next of each entry, a mutex and a condition variable | push, unshift, insert (timed), pop, wait for an entry | called by the event system |
| Event system (`events.c`) | event queue, task queue of each interpreter, `sig_int`, event checking flag, `sleeping` | schedule an event, event thread, IO thread, signal handler, sleep, handle events | the queues; run loops check for events; Timer PMC, alarm ops and kill create them |
| Timer PMC, alarm ops (`classes/timer.pmc`, `dynoplibs/myops.ops`) | fields of the timer | start, stop | events |
| Interpreter threads (`thread.c`, `classes/parrotthread.pmc`) | `interpreter_array`, state bits, `running_threads` | create, run, join, detach, kill, finish, exit of the process from any thread | kill sends a terminate event; broadcast of signals walks the array |
| Run loops and exceptions (`interpreter.c`, `exceptions.c`) | stack of exception buffers and their free list, op table | enter and leave a loop, throw | events are handled inside run loops and start nested ones |
| Dead object detection (`dod.c`, `smallobject.c`, `headers.c`) | arenas, free lists, live bits, list of objects to trace, number of objects that need timely destruction | allocate, mark, sweep, lazy run | everything that holds a PMC; runs inside allocations |
| Memory compaction (`resources.c`) | memory pools, COW strings | allocate, compact | collector |
| Hashes (`hash.c`, `classes/perlhash.pmc`) | table of chains, pool of buckets, free list, key type | put, get, delete, grow, clone, iterate, mark | the collector, at each allocation |
| Lists, stacks, registers (`list.c`, `stacks.c`, `register.c`) | chunks | push, pop, shift, resize | collector |
| IO layers (`io/*.c`) | buffer, its pointers and flags, file position | read, peek, write, seek, flush, setbuf | the operating system |
| Objects, multimethods (`objects.c`, `mmd.c`) | class structure, tables | method resolution, dispatch | |
| Freeze and thaw (`pmc_freeze.c`) | work lists | freeze, thaw, clone | |
| Perl 5 and the glue (`src/perl`, `src/src/pmc`) | SV bodies inside PMCs | allocate, free | collector |

What is hard about the parts that are modelled: three kinds of threads hand
events to each other through queues whose lists change in several pointer
assignments; the event thread sleeps until the entry that was first is due
while others insert; events are duplicated, deactivated and freed by different
threads; handlers run in run loops nested inside a sleep or inside other
handlers; a join gives up the lock in the middle; an error in any thread runs
the exit handlers there while the others go on. The collector runs in the
middle of operations that hold objects only on the C stack or have a half grown
hash, and may stop early; the buckets of a hash are moved while the chains are
walked; an IO buffer is used for reading and for writing, with pointers left
over from its last use. The hazards, with their lines, are listed in
`PROJECT.json`.

What makes each component correct:

* queues: the list is the sequence of the entries put in and not removed, each
  entry has one owner, each operation is atomic, no wakeup is lost;
* events: no event is lost, doubled or freed early; timed events are delivered
  in order; a timer calls its handler as often as asked for; sleeps last and
  end; a shutdown ends both helper threads;
* threads: an interpreter is destroyed once, never while it runs or is waited
  for; nobody joins a thread that was detached or that another thread has
  joined; the exit waits for the threads that are left;
* run loops: an exception resumes in the innermost loop;
* collector: an object that can be reached keeps its header, garbage loses it,
  and an object that needs timely destruction is found dead by the next lazy
  run;
* hashes: a hash is a map, with all its buckets accounted for, whatever has
  happened to the table; an iterator returns every key once;
* IO: a buffered stream cannot be told from the file.

## 2. The modules

| Module | Models |
|---|---|
| `QueueOps` | what the queue operations do to a sequence; where a timed entry goes |
| `AbstractQueue` | the promise of the queues: sequences, atomic operations, one owner |
| `TSQueue` | `tsq.c` at the level of pointers, mutex and condition variable |
| `Events` | `events.c`, its sources and the interpreters' side |
| `Threads` | `thread.c` |
| `RunLoops` | `runops` and the exception buffers |
| `HeapGraph` | reachability in the object graph |
| `AbstractHeap` | the promise of memory management: a header is taken from an object only when the program cannot reach it |
| `Dod` | `dod.c`, `smallobject.c`, `headers.c` and the ops that drive them |
| `AbstractDict` | the promise of a hash: a map, and clones of it |
| `Hash` | `hash.c` at the level of buckets and chains |
| `AbstractFile` | the promise of a stream: bytes and a position |
| `IoBuf` | `io_buf.c` over the system calls of `io_unix.c` |
| `MCTSQueue`, `MCEvents`, `MCThreads`, `MCDod`, `MCHash`, `MCIoBuf` | small instances for TLC |
| `TSQueueProofs`, `EventsProofs`, `ThreadsProofs`, `DodProofs`, `IoBufProofs`, `HashProofs` | theorems about these modules, checked by TLAPS (section 4) |
| `NumberFacts`, `QueueFacts` | lemmas that several of them need: least numbers; what the operators of `QueueOps` do to a sequence |

Four of the detailed modules implement an abstract one (`INSTANCE ... WITH`, the
abstract specification as a property): `TSQueue` `AbstractQueue`, `Dod`
`AbstractHeap`, `Hash` `AbstractDict`, `IoBuf` `AbstractFile`. `Events` uses what
`TSQueue` is shown to implement.

`PROJECT.json` maps every definition to its lines. Definitions named
`X_Something`, placed before `X`, are mutants of `X`: the same operation with a
plausible mistake. With `X` replaced by its mutant, TLC finds the property that
the mutant is listed with violated.

### TSQueue

A thread is in `pc`, with the queue it passed in `qof` and the entry it passes
or got in `hand`. A call consists of taking the mutex (`Lock`), the pointer
updates, and `SignalUnlock` or `queue_unlock`. The walk of
`nosync_insert_entry` is one step per entry (`InsertStart`, `InsertWalk`,
`InsertLink`, or `InsertEmpty`). `queue_wait` gives up the mutex and sleeps in
one step, as POSIX guarantees; `SpuriousWakeup` is the wakeup POSIX allows.
The callers allocate an entry, free one that they removed, or pass it on to
another queue, as `process_events` does. `lst` is a history variable, the
sequence that a queue should be; nothing depends on it but the properties.

### Events

The queues are sequences and one queue operation is one step, which is what
`TSQueue` is shown to implement. The event thread (`evt`) owns the mutex of the
event queue except while it waits and after its loop, so scheduling happens
only then. `process_events` is one step per entry, because the delivery to the
task queue consists of two further steps that an interpreter can act between:
`EventThreadEnable` (`enable_event_checking`) and `EventThreadPut`. The IO
thread (`io`) broadcasts a SIGINT the same way, one interpreter at a time, the
main interpreter last.

`frames[i]` is the C stack of interpreter `i` as far as it matters: run loops
("run"), `Parrot_do_handle_events` ("handle") and `wait_for_wakeup` ("sleep").
A handler runs in a run loop on top of the frame that popped its event, and
may itself start timers, sleep or be interrupted. `term` is a `NULL` next.
A SIGNAL event becomes an exception: a handler set by the program resumes in
the innermost run loop, a thread without a handler ends, the main interpreter
without one exits the process (`evt.pc = "died"`).

Time is relative: `due` counts down to -1 and is set from `diff` or `interval`.
This keeps the state space finite without a bound on time.
`starts`, `running` and `credit` are history: how often a timer was started,
whether it was stopped since, and how many handler calls it still owes.

The run core is one of the function cores; the computed-goto, prederef and JIT
cores replace ops in the code instead of exchanging the op table, and the JIT
core does not handle events at all.

### Threads

Everything between LOCK and UNLOCK of `interpreter_array_mutex` is one step.
`memory` says whether an interpreter has been created, destroyed
(`Parrot_really_destroy`) or also freed, `thread` what the operating system's
thread does. `other` is the pointer a thread keeps across the unlocked part of
join, kill and exit.

`internal_exception` is an exit of the process in the thread that calls it. The
exit handlers destroy the first interpreter there, beginning with
`pt_join_threads`, while the other threads go on; `pc` is "exit", "exit_join"
and at last "exited". An illegal tid (`RefusedTid`), a join of a thread in the
wrong state (`RefusedJoin`) and the end of the main program (`MainExits`) are
the ways there, and `pt_join_threads(a)` is the loop in whatever thread `a`
exits. It accepts a finished thread that was joined before. JOIN has no defined
outcome for a thread that somebody else joins or has joined; it returns in the
model, which is what lets the exit go on. When the clone of a return value fails
(`JoinCloneFails`) the thread stays in its slot, marked as joined, and the
mutex may stay locked: `interpreter_array_mutex` is the thread that keeps it.

JOIN of a thread that is joining the caller may return an error, as POSIX
permits, or wait forever. `JoinErrors` says whether `pt_thread_join` meets that
error; the loop of an exit may meet it in any case, as it comes to its own
thread and to threads that wait for it. A thread that joins itself in
`pt_thread_join` aborts the process at once, without exit handlers, and is no
action. Programs start the threads that they create before they refer to them
or end: JOIN of a thread that never existed has no defined outcome. What is
cloned into a new interpreter is not modelled. `uses`, chosen in the initial
state, is the set of operations the program uses.

### RunLoops

`EnterLoop` is `new_internal_exception` and the setjmp, `LeaveLoop` the end of
`runops`, `Throw` the longjmp. Both lists of buffers share the `prev` field.

### Dod

The program holds PMCs in registers and in one string register, stores them
into each other and loads them back, and creates objects: one, or a container
whose contents are allocated while only the C stack holds it. An allocation
that finds the free list empty starts a DOD run or gets more headers. A run is
a step for each call of `pobject_lives` that does something and for each object
that `trace_children` takes from the list; between the ops of the program and
the steps of a run nothing interleaves. The list itself is modelled by its
pointers: `next_for_GC`, `dod_trace_ptr`, `dod_mark_ptr`. `words` is what the
conservative walk finds on the C stack: the temporaries of the op, and perhaps
a word that happens to point to something dead or free.

A lazy run (`sweep 0`) stops when `num_early_PMCs_seen` has reached
`num_early_DOD_PMCs`. `NeedsEarly` is true for either of the two bits, as
`PObj_needs_early_DOD_TEST` is in the code, so a parent of such an object,
which gets the high priority bit, counts as one itself; that makes
`num_early_PMCs_seen` too large, and the counter is decremented for the parent
when it dies. This is why the properties of `Dod` are claimed for programs
that keep such objects in registers (`EarlyNested` FALSE); `early_lost` in
section 3 shows what the others lose. `Timer.init` counts
a timer without setting its flag, which makes the counter too large and costs
only full runs. An aborted run clears the live bits of the PMC pool only:
buffers stay marked until a full run, which delays freeing them.

The order of the free lists and `pool->skip` decide which header is taken and
whether a run is made; both are left open. Copy-on-write buffers, constant
pools, shared PMCs and further arenas are not modelled.

### Hash

Every operation that allocates nothing is one step, with the walk along a chain
as an operator: `Chain` is the set of the buckets met on the way, at most as
many as the pool has. `find_bucket` is the first of those with the key, the one
whose chain holds the others. `expand_hash` is a step for each of its two allocations, at
which the collector may run, and for each round of its loop; `hash_clone` is a
step for each `hash_put` it makes, which in turn may grow the clone. `Junk` is
memory that is not initialized or belongs to a freed bucket: `TypeOK` and
`Markable` fail if a chain leads there. Hash values are a function of the seed;
the instance makes keys collide until the table has eight chains.

`NoHash` is a name without a hash, `NoDict` what it stands for in
`AbstractDict`. Conversion of the keys to UTF-8 is modelled as what it is, a change of the key
strings in place (`utf8`), because the strings are shared: `hash_clone` does not
copy them. Values are copied by the clone, and are abstract here.

### IoBuf

Pointers into the buffer are offsets, `endb = NULL` is `NoEnd`. The calls are
single steps, as nothing runs between a call's statements. `read` may be short.
`last` is the last call with its result, which `AbstractFile` reads. The buffer
does not do justice to every sequence of calls; `Careful` names the four
situations that a program has to keep out of (section 3), and `Uses` the ones
that an instance allows.

## 3. The runs

| Run | Instance | Shows |
|---|---|---|
| `queue` | 3 threads, 1 queue, two timed entries, which are also pushed like plain ones | `ListShape`, `OneOwner`, the inductive invariant `Inv`, `NoLostWakeup`, `WaiterServed` (one COND_SIGNAL for each entry is enough for several waiters) and `ImplementsQueue`, the refinement of `AbstractQueue` |
| `timers` | 1 interpreter, 2 timers with one, two or unlimited calls, started and stopped | `TypeOK`, `TimedOrder`, `TimerOwes`, `StoppedTimerQuiet` |
| `sources` | 2 interpreters, every source but timers and shutdown | `EventOwned` |
| `lifetime` | 1 interpreter, a timer, sleeps, callbacks, shutdown | `SleepFull`, `SleepEnds`, `EventsDelivered`, `ShutdownCompletes` |
| `threads` | main and 3 threads, 4 slots; a program that joins, detaches, kills and exits, with all the errors that make a thread exit, and one that leaves all threads to the exit | `TypeOK`, `InItsSlot`, `NoDeadInterpreter`, `JoinOnce` (nobody joins a detached thread, `pt_thread_join` none that was joined before), `JoinedIsThere`, `CountsThreads`, `ExitWaits` |
| `collect` | globals, 3 more PMCs, 1 buffer, 1 register, 2 references, 2 objects that need early DOD | `TypeOK`, `MarkInvariant` (marking loses no object), `ReachableKept` (what the program can reach is not freed), `SweepPrecise` (a full run leaves no garbage), `EarlyCounted`, `Timely`, and `ImplementsHeap`, the refinement of `AbstractHeap` |
| `io` | buffer of 3 bytes or none, file of 4 bytes | `TypeOK`, `InSync` (buffer, position and descriptor agree) and `ImplementsFile`, the refinement of `AbstractFile` |
| `hash` | 3 keys, one not ASCII, 2 values, 2 seeds, tables of 2, 4 and 8 chains | `TypeOK`, `BucketsKept`, `Markable`, `ScannedOnce`, `IteratesOnce`, `CallsReturn`, and `ImplementsDict`, the refinement of `AbstractDict`; the program goes on with a hash or with its clone |

These four runs end in a counterexample, because the code does not do what a
comment or document says; `PROJECT.json` quotes the line:

| Run | Counterexample |
|---|---|
| `lost_check` | checking is enabled, the interpreter checks and disables it, then the task is pushed: nobody looks at it |
| `jump_to_dead_loop` | the free list of exception buffers continues into the live ones; a nested loop takes over the buffer of an outer one |
| `early_lost` | a high priority object becomes the tail of the list of objects to trace without `dod_mark_ptr` moving; the next object overwrites the link to it, it is never traced, and its contents are freed in use |
| `io_write` | a write crosses the end of the buffer; its rest is in a buffer that is no longer flagged as a write buffer, and a flush does not write it |

### What the instances leave out on purpose

Each of these is what the code does and is in the model; an instance that allows
it reaches a state that breaks a property, or the comment that is quoted. None
has a run of its own.

* A terminate event behind a timer that repeats forever never leaves the event
  queue: the timer is reinserted in front of it each time.
* A timer that is stopped, started and stopped again goes on: the second stop
  finds the entry that the first one has deactivated (`MaxStarts = 2`).
* While `pt_join_threads` waits for one thread, a join can empty a lower slot,
  which a new thread takes; the loop has passed it. It also passes a thread that
  is JOINED and runs, because its state is neither JOINABLE nor FINISHED
  (`thread.c:424`), although `Parrot_really_destroy` "Waits for any threads to
  complete, then frees all allocated memory" (`interpreter.c:1765`). `ExitWaits`
  is about programs that leave the joining to the exit.
* The loop of an exit JOINs a finished thread that another thread is joining or
  has joined. `JoinOnce` is about `pt_thread_join`, and about detached threads.
* A thread other than the main one that calls `internal_exception`
  (`exceptions.c:56`) destroys the first interpreter while its program goes on,
  although "only main should run the destroy functions" (`exceptions.c:220`).
* A clone that fails inside `pt_thread_join` and exits waits for the mutex that
  its own thread holds (`thread.c:341`): the cleanup handler, there because "this
  lock isn't released until eternity", does not run in an exit.
* `pt_thread_join` ignores the result of JOIN (`thread.c:326`). When two threads
  join each other and one gets EDEADLK (`JoinErrors`), it destroys the interpreter
  of a thread that runs.
* A hash and its clone share their key strings (`hash.c:1016`). When both stay in
  use (`KeepBoth`) and one is converted to UTF-8, the strings of the other, still
  an ASCII hash, change too, and its own conversion fails the assertion "that
  until this function is called all keys are ASCII" (`hash.c:200`, 222). The map
  is not affected: `ImplementsDict` does not depend on `KeepBoth`, and is proved
  for both values.
* IO, the situations of `Careful`: "drop", a write, flush or setbuf when bytes
  that were read ahead are still in the buffer, which are lost as the descriptor
  is not moved back; "stale", a seek that goes by an `endb` left over from a
  dropped or replaced buffer; "end", a seek from the end of the file with the
  buffer in use, because `PIO_unix_seek` changes the position that
  `PIO_buf_seek` goes by; "cross", the subject of `io_write`.

### Bounds, and why they are enough

* Three threads on a queue cover two waiters and a producer, a waiter and a
  thread that takes its entry, and every overlap of two calls; two entries give
  the empty, one-element and longer list and an insertion before and behind an
  entry. Entries that are passed from queue to queue, and the third place of an
  insertion, are covered by the proofs, which have no bounds.
* `MaxEv` bounds the events that exist at once. `Room` keeps space for the
  copies of the repeated events that are queued, so that the bound stops
  sources of events and never the event thread. Timers that run forever need
  one more event for their copy; in `timers` the bound can be reached
  by them, and `process_events` then waits for the interpreter, which only
  removes interleavings.
* `MaxNest` bounds the depth at which a program calls sleep, `MaxStarts` how
  often a timer is started, `MaxSlots` the interpreter array, `MaxBuf` and
  `MaxDepth` the exception buffers and nested loops.
* `Dod`: three objects besides the globals are enough for a list of objects to
  trace with a first, a middle and a last element and an object that is not on
  it; `MaxRefs` references give chains, sharing, cycles and self references.
  `UintMod` is the width of the counter; it is larger than `MaxEarly`, so that
  only a wrong decrement can wrap.
* `Hash`: `INITIAL_BUCKETS` is 2 and `MAXFULL_PERCENT` 50 instead of 16 and 80,
  so that three keys make the table grow twice; the loop and the pool sizes
  depend on these only through the formulas of the code. With the first seed all
  keys are in one chain until the table has eight. Two hashes in use at once
  multiply the states, so the program of the run goes on with a hash or with its
  clone (`KeepBoth` FALSE); the theorems are about both.
* `Threads`: three threads besides main are two joiners and a thread that they
  race for, or one that exits while another joins a third.
* `IoBuf`: writes of 1, 2 and 3 bytes and reads of 1, 2 and 4 are below, at and
  above the size of the buffer; positions up to `MaxOffset` = 5 reach beyond the
  end of the file.
* `Uses` (`Programs` for threads) selects the sources of events, or the
  operations, of a run. It also states the conditions of the properties:
  `SleepFull` holds for programs without SIGINT (the SLEEP event of an interrupted sleep stays queued
  and ends a later one), `StoppedTimerQuiet` and `TimerOwes` for timers that
  are started once, and whose repeated calls are not all due at once
  (`interval` and `diff` both 0 are not repeated). The properties of threads, but
  for `ExitWaits`, hold while no JOIN of `pt_thread_join` returns an error.
  Changing `Uses` or the timer arguments in a configuration shows each of
  these limits.
* Deadlock is checked except where the process may really stop: after the
  unhandled SIGINT (`sources`) and when all threads have ended, have exited, or
  wait for each other or for a mutex that was never unlocked (`Threads`; the code detects
  neither).

### Fairness

`TSQueue`: strong fairness of the steps inside a call, that is, a runnable
thread is scheduled and a mutex that becomes free again and again is granted.
Callers owe nothing, and no spurious wakeup is assumed.
`Hash`: weak fairness of the steps inside a call: an interpreter that has entered
`hash_put` or `hash_clone` goes on; callers owe nothing.
`Events`: weak fairness of the event thread, the IO thread and time; of
`check_events__` (it replaces the next op), of handling a task once an
interpreter has begun to, and of the end of handlers. A program is not obliged
to schedule events, to end, or to execute `check_events`. This is what the
operating system's scheduler and terminating handlers give; without the
assumption on handlers a sleep need not end, as a handler may loop.

## 4. The proofs

The theorems hold for every value of the constants: any number of threads,
entries, interpreters, timers, objects, bytes, and any times. Each module has
an inductive invariant, stronger than the properties it gives; the runs check
the properties on their instances.

| Module | Theorem | States |
|---|---|---|
| `TSQueueProofs` | `Invariance`, `TypeCorrect` | `Inv`, the types |
| | `ListsIntact`, `SingleOwner` | `ListShape`, `OneOwner` |
| | `WakeupsKept` | `NoLostWakeup` |
| | `QueueRefinement` | `ImplementsQueue` |
| `EventsProofs` | `TypeCorrect` | `TypeOK` |
| | `EventOwnedByOne` | `EventOwned` |
| | `TimedEntriesInOrder` | `TimedOrder` |
| | `StoppedTimersQuiet` | `StoppedTimerQuiet`, if `Interp = {Main}` and `MaxStarts <= 1` |
| | `TimersOwe` | `TimerOwes`, if `Interp = {Main}`, `MaxStarts <= 1`, and `diff` and `interval` of a repeated timer are not both 0 |
| | `SleepsLastLongEnough` | `SleepFull`, if "sigint" is not in `Uses` and `MaxNest <= 1` |
| `ThreadsProofs` | `Invariance`, `TypeCorrect` | the inductive invariant, `TypeOK` |
| | `OwnSlot`, `DestroyedIsGone` | `InItsSlot`, `NoDeadInterpreter` |
| | `JoinFindsInterpreter`, `CounterCovers` | `JoinedIsThere`, `CountsThreads` |
| | `JoinedOnce` | `JoinOnce`; this and the ones above if `~ JoinErrors` |
| | `ExitWaitsForThreads` | `ExitWaits` |
| `DodProofs` | `TypeCorrect` | `TypeOK` |
| | `Invariance` | the inductive invariant; this and the next ones if `EarlyNested = FALSE` |
| | `MarksAll`, `NothingLost` | `MarkInvariant`, `ReachableKept` |
| | `CounterCovers` | `EarlyCounted` |
| | `FreesAll`, `DestroysInTime` | the action properties `SweepPrecise`, `Timely` |
| | `HeapRefinement` | `ImplementsHeap` |
| `IoBufProofs` | `Invariance`, `TypeCorrect`, `StaysInSync` | the inductive invariant, `TypeOK`, `InSync`; all if `Uses = {}` |
| | `FileRefinement` | `ImplementsFile` |
| `HashProofs` | `TypeCorrect`, `BucketsInOnePlace` | `TypeOK`, `BucketsKept` |
| | `NoneScannedTwice`, `MarkedWhileGrowing` | `ScannedOnce`, `Markable` |
| | `IteratorComplete` | `IteratesOnce` |
| | `HashesAreMaps` | `ImplementsDict` |

### Assumptions and hypotheses

The assumptions on the constants are those of the modules. Three are there for
the proofs alone, and say that the program has finitely many of something:
threads (`ThreadAssumption` of `TSQueue`), interpreters (`FiniteAssumption` of
`Threads`) and registers (`DodAssumption`); `FileAssumption` of `IoBuf` says
that what is in the file and what is written are sequences of bytes.
`HashAssumption` says that a table of `INITIAL_BUCKETS` chains has room for a
bucket (16 and 80% in the code), without which growing would add none, and that
`NULL`, `Junk` and `NoDict` are none of the values they are told from.

A theorem has a hypothesis where the code keeps the promise to some programs
only. Without it TLC finds a counterexample on a small instance, and it is what
the code does:

* `Interp = {Main}`, `MaxStarts <= 1`: `Parrot_del_timer_event` deactivates the
  first entry of the timer that belongs to the interpreter it is called by. If
  the timer was started by another interpreter there is none; if it was
  started twice there may be a second one, or the first is one that was
  deactivated before.
* `diff + interval > 0` for a timer that is to be repeated: `process_events`
  repeats an event if its interval is not 0, and the interval is `diff` when the
  timer has none. A timer with neither calls its handler once, whatever its
  `repeat` says.
* "sigint" not in `Uses`, `MaxNest <= 1`: the flag `sleeping` belongs to the
  interpreter. A sleep that a handler calls during a sleep sets the same flag,
  and its wakeup ends both. SIGINT ends a sleep by an exception, but its SLEEP
  event stays queued, and ends a later sleep.
* `~ JoinErrors`: `pt_thread_join` ignores the result of JOIN. With an error the
  thread goes on as if the other had ended, and destroys its interpreter. The
  hypothesis excludes nothing else: refused joins, illegal tids, failing clones
  and exits in any thread are in the theorems.
* `EarlyNested = FALSE`: the high priority objects in containers of
  `early_lost`. With them `EarlyCounted` and `Timely` fail on the instance of
  `collect`, and `ReachableKept` on that of `early_lost`.
* `Uses = {}`: the careful programs of `IoBuf`.

### The arguments

`TSQueueProofs`. `ListShape` and `OneOwner` are not inductive by themselves.
`Inv` adds `MutexOwned` (who is inside a critical section owns the mutex, so
that no other thread changes the list between the steps of a walk), `HandOK`
(an entry that is passed is unlinked: its next is `NULL`, which push relies on)
and `WalkOK` (prev and cur are neighbours, and the entries before cur are due
earlier). All operations that add an entry, at either end or in the middle, are
shown to be cases of one, `PutAt`, and removal to be `TakeHead`; `Inv` and the
refinement are shown for these two, and all other steps change control only.
For the refinement, `lst` and `hand` are the abstract variables; the linking
step is the abstract operation, every other step stutters. That no wakeup is
lost is a count: a queue with entries and sleepers has at least as many threads
on the way to it as a sequence of COND_SIGNALs requires, which each step keeps.

`EventsProofs`. `EventOwned` counts the places that refer to an event, which is
no form to reason with. The invariant `OInv` names the one holder of each event
instead, by a function from events to kinds of places; the interpreter is read
off the event. Each step is then "nothing moves" or "one event moves", and it
remains to show that the function with one value changed is the new one. It
needs the shape of the stacks (an event on the stack is below the run loop of
its handler, so that popping any other frame loses none), that no queue holds an
event twice, and that deactivated events are never delivered (their interval is
0, so `process_events` does not repeat them). `OnePlace` goes back from the holder to the
cardinality. `TimedOrder` is inductive with `OInv`: an event that is scheduled
is in no queue, so its fields do not disturb the order, and the steps of the
other threads leave the entries in the queue as they are (`LeavesQueueAlone`).
That covers untimed entries between timed ones, which the insertion walks
over. `OneEntry`, for `StoppedTimerQuiet`, says that a timer has at most one
entry in the event queue; the copy made for a repetition takes the place of the
first. `TimerOwes` equates what a timer owes with the calls under way and a sum
over its queued events (`CallsOwed`). With one entry for each timer that sum
has at most one term, and lemmas about sums over no element and over one are
all that is needed of `MapThenSumSet`. `RepeatsAgain` (a queued event with calls
left has an interval, so that `process_events` does repeat it) and `IoSignals`
(the IO thread holds SIGNAL events only, none of a timer) complete the
invariant. `NapInv`, for `SleepFull`, ties the second frame of a stack, which alone
can be a sleep, the flag `sleeping` and the SLEEP event together: the sleep has
no more time left than its event, and an event that was delivered was due. All
steps but the sleep op, its wakeup and the passing of time do no more than
`SleepsKept` allows.

`ThreadsProofs`. The invariant relates the slots of the array and the `tid`
fields, which are inverse to each other (`SlotsAgree`), the life of an
interpreter and of its thread (`LifeOrder`), the state bits (`BitsAgree`) and
the threads that wait in a join (`JoinersAgree`: they have set JOINED before
they gave up the lock, which is why their interpreter is still there afterwards).
`CounterAgrees` says what `running_threads` counts. Steps that exit change
control only (`ExitKeeps`), and `pt_join_threads` in any thread only sets JOINED
bits (`JoinThreadsKeeps`), so that the exits of several threads at once disturb
none of these. For `JoinOnce`, `JoinsAgree` says that a thread for which JOIN
was ever called has kept its JOINED bit; only two steps call JOIN
(`WhoCallsJoin`), and the one of `pt_thread_join` accepts no such thread.
`ExitAgrees`, for `ExitWaits`, says that the thread of each slot that the loop
has passed has ended, or is the one it waits for, and that no slot is emptied.

`DodProofs`. The types hold for every program. The list of objects to trace is
the hard part: `ListOK` says that it ends at `mark_ptr`, that only live objects
are on it, and that every live object's `next` is live, and `MarkInvariant`
that every object in reach is marked or in reach of one still to be traced
without going through marked ones. `EarlyOK` (no object that needs timely
destruction is in a container) is what keeps the high priority insertion from
reaching the tail. `RunOK` bounds what can be marked, which gives `SweepPrecise`.
`Reachable` is defined as the least closed set, without recursion, so that the
lemmas about it need no induction over paths. For the refinement the abstract
heap is the used headers with their references.

`IoBufProofs`. A call goes through several values of the kernel's record and of
the stream's before it returns (flush, drain, refill), so the invariant is a
relation `InStep(k, b)` between the two records, and each helper of the calls has a
lemma about it. The abstract file is the file with the unwritten bytes of the
buffer laid over it.

`HashProofs`. The invariant gives each bucket an owner, its chain (-1 is the
free list), and a rank that grows along the chain (`InOrder`, `Ordered`). Put,
delete and the loop of `expand_hash` are then one change: a bucket leaves its
chain and goes to the front of another (`MoveFront`); growing the pool puts new
buckets on the free list (`NewBuckets`). `ChainIsFrom` connects this with
`Chain`: the equation of the recursive function has one solution, as the least
number at which two solutions differ cannot exist (`WalkUnique`), and the ranks
give one (`FoundIsWalk`). `Good` adds that a bucket is in the chain its key
hashes to. While the table grows, that is so modulo the new size for the
buckets that were scanned and modulo the old size for the rest. `MoveOK` says
which these are: the new part of the table, the chains before the current one
and the part of it up to `prev`, from which `ScannedOnce` follows. The free list
is not empty there: a pool that grew has free buckets. `CloneOK` (the clone has
the entries of the hash up to the cursor) and `IterOK` (what was returned and
what is still ahead are all keys) are about walks that other calls interrupt;
owners and ranks are the order in which a walk meets the buckets. The witnesses,
an owner and a rank for each bucket, are existentially quantified in `Inv`, so
that they need no history variable. For the refinement the map is read off the
buckets in chains; a step of growing leaves it as it is, and only the end of
a `hash_put` that had to grow changes it.

### Only model-checked

* Liveness (`WaiterServed`, `SleepEnds`, `EventsDelivered`,
  `ShutdownCompletes`, `CallsReturn`): outside the prover's reach.
* The properties of the four runs that end in a counterexample, which do not
  hold.

## 5. Plan

Done: `QueueOps`, `AbstractQueue`, `TSQueue`, `Events`, `Threads`, `Dod`,
`IoBuf` and `Hash` with proofs of the safety properties and refinements that
their runs check; `RunLoops`. Next, in this order:

1. Control stack and handler lookup (`exceptions.c`, `stacks.c`), joined with
   `RunLoops`; the end of a loop by an exception.
2. Composition of `Threads` and `Events`: kill until the terminate event is
   handled, broadcast over the changing interpreter array; of `Dod` and the
   queues, whose events hold PMCs that are not marked.
3. Lists (`list.c`) against sequences; compaction of buffers (`resources.c`);
   line buffered reading; the locks of `sharedref.pmc`.

Not modelled: strings, encodings and ICU, packfiles, IMCC, JIT and platform
code (data formats, code generation or thin wrappers), the languages and
compilers shipped with Parrot, and IO requests through the IO thread's message
pipe, which the code only outlines. The Perl 5 core and its extensions are by
far the largest part of the repository; they are Perl's own sources with SV
bodies moved into PMCs, mostly a compiler, a regular expression engine and
library functions over private data, and stay outside.
