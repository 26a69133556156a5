------------------------------ MODULE Threads -------------------------------
(***************************************************************************)
(* Interpreter threads (parrot/src/thread.c): the interpreter array, the   *)
(* state bits of each thread, join, detach and kill, the end of a thread,  *)
(* and the exit of the process, which destroys the first interpreter: at   *)
(* the end of its program, or because of an error in any thread.           *)
(*                                                                         *)
(* Everything between LOCK and UNLOCK of interpreter_array_mutex is one    *)
(* step.  A thread that runs its program does so on its own; what it       *)
(* executes is not modelled except for the calls of thread.c.  A thread    *)
(* that joins itself aborts the process, which is no action.               *)
(***************************************************************************)
EXTENDS Naturals, FiniteSets, FiniteSetsExt

CONSTANTS Interp,    \* the interpreter structs
          Main,      \* the first interpreter
          NULL,
          Programs,  \* the sets of operations that programs use
          JoinErrors, \* whether JOIN may return an error to pt_thread_join
          MaxSlots   \* bound: size of interpreter_array

ASSUME MainAssumption == Main \in Interp /\ NULL \notin Interp
ASSUME SlotsAssumption == MaxSlots \in Nat \ {0}
ASSUME FiniteAssumption == IsFiniteSet(Interp)
ASSUME JoinErrorsAssumption == JoinErrors \in BOOLEAN
ASSUME ProgramsAssumption == Programs \subseteq SUBSET {"join", "detach", "kill", "exit"}

VARIABLES interpreter_array,  \* tid -> interpreter or NULL
          running_threads,
          state,     \* thread_data->state: the set of the bits that are set
          tid,       \* thread_data->tid
          memory,    \* what is left of an interpreter
          thread,    \* the thread of the operating system
          pc,        \* where the thread of each interpreter is
          other,     \* the interpreter it has a pointer to meanwhile
          next_tid,  \* the loop counter of its pt_join_threads
          interpreter_array_mutex, \* whose failed clone keeps it locked
          terms,     \* interpreters with a terminate event under way
          joined,    \* history: the threads that JOIN was called for
          uses       \* what this program uses

vars == <<interpreter_array, running_threads, state, tid, memory, thread, pc,
          other, next_tid, interpreter_array_mutex, terms, joined, uses>>

Tids == DOMAIN interpreter_array
Bits == {"DETACHED", "JOINED", "FINISHED"}

TypeOK ==
    /\ \E n \in 1 .. MaxSlots :
          interpreter_array \in [0 .. n-1 -> Interp \cup {NULL}]
    /\ running_threads \in Nat
    /\ state \in [Interp -> SUBSET Bits]
    /\ tid \in [Interp -> 0 .. MaxSlots-1]
    /\ memory \in [Interp -> {"none", "alive", "destroyed", "freed"}]
    /\ thread \in [Interp -> {"none", "running", "ended"}]
    /\ pc \in [Interp -> {"run", "join", "joined", "kill", "exit", "exit_join",
                          "exited", "ended"}]
    /\ other \in [Interp -> Interp \cup {NULL}]
    /\ next_tid \in [Interp -> 1 .. MaxSlots]
    /\ interpreter_array_mutex \in Interp \cup {NULL}
    /\ terms \subseteq Interp
    /\ joined \subseteq Interp

\* pt_add_to_interpreters for the very first interpreter
Init ==
    /\ interpreter_array = [k \in {0} |-> Main]
    /\ running_threads = 0
    /\ state = [i \in Interp |-> {}]
    /\ tid = [i \in Interp |-> 0]
    /\ memory = [i \in Interp |-> IF i = Main THEN "alive" ELSE "none"]
    /\ thread = [i \in Interp |-> IF i = Main THEN "running" ELSE "none"]
    /\ pc = [i \in Interp |-> "run"]
    /\ other = [i \in Interp |-> NULL]
    /\ next_tid = [i \in Interp |-> 1]
    /\ interpreter_array_mutex = NULL
    /\ terms = {}
    /\ joined = {}
    /\ uses \in Programs

Runs(a) == thread[a] = "running" /\ pc[a] = "run"

\* LOCK gets the mutex
Locks == interpreter_array_mutex = NULL

-----------------------------------------------------------------------------
\* Mutant of FreshSlot: off by one, the last slot is overwritten
FreshSlot_Last == Cardinality(Tids) - 1

FreshSlot == Cardinality(Tids)

\* ParrotThread.init and pt_add_to_interpreters: the first empty slot, or a
\* new one
pt_add_to_interpreters(a, i) ==
    LET empty == {k \in Tids : interpreter_array[k] = NULL}
        slot == IF empty = {} THEN FreshSlot ELSE Min(empty)
    IN  /\ Runs(a) /\ Locks
        /\ memory[i] = "none"
        /\ slot < MaxSlots
        /\ interpreter_array' =
              [k \in Tids \cup {slot} |-> IF k = slot THEN i
                                          ELSE interpreter_array[k]]
        /\ tid' = [tid EXCEPT ![i] = slot]
        /\ memory' = [memory EXCEPT ![i] = "alive"]
        /\ running_threads' = running_threads + 1
        /\ UNCHANGED <<state, thread, pc, other, next_tid, interpreter_array_mutex,
                       terms, joined>>

\* A joinable thread is created; it executes thread_func
pt_thread_run(a, i) ==
    /\ Runs(a)
    /\ memory[i] = "alive" /\ thread[i] = "none"
    /\ state' = [state EXCEPT ![i] = {}]
    /\ thread' = [thread EXCEPT ![i] = "running"]
    /\ UNCHANGED <<interpreter_array, running_threads, tid, memory, pc, other,
                   next_tid, interpreter_array_mutex, terms, joined>>

\* The program starts every thread it creates before it refers to it or ends:
\* JOIN of a thread that was never created has no defined outcome
Started(i) == thread[i] # "none"

\* The tids that pt_check_tid refuses
IllegalTid(k) == k \notin {l \in Tids \ {0} : interpreter_array[l] # NULL}

\* pt_check_tid, and which threads the program refers to
ValidTid(k) == ~ IllegalTid(k) /\ Started(interpreter_array[k])

\* Mutant of Joinable: a thread that is being joined is joined again
Joinable_Twice(i) == "DETACHED" \notin state[i]

Joinable(i) == state[i] \in {{}, {"FINISHED"}}

\* Parrot_really_destroy of a thread's interpreter: the struct itself is
\* freed only if the thread was joined
Destroyed(i, bits) == [memory EXCEPT ![i] = IF "JOINED" \in bits THEN "freed"
                                            ELSE "destroyed"]

Emptied(k) == [interpreter_array EXCEPT ![k] = NULL]

-----------------------------------------------------------------------------
(***************************************************************************)
(* The ways into Parrot_exit.  It runs the exit handlers, and so the       *)
(* destruction of the first interpreter, in the thread that calls it; the  *)
(* first thing they do is to LOCK in pt_join_threads.  The other threads   *)
(* go on.  internal_exception ends here in every thread.                   *)
(***************************************************************************)
Parrot_exit(a) == pc' = [pc EXCEPT ![a] = "exit"]

\* The program of the first interpreter ends
MainExits ==
    /\ "exit" \in uses /\ Runs(Main)
    /\ Parrot_exit(Main)
    /\ UNCHANGED <<interpreter_array, running_threads, state, tid, memory, thread,
                   other, next_tid, interpreter_array_mutex, terms, joined>>

\* pt_check_tid raises an exception, outside the lock
RefusedTid(a, k) ==
    /\ uses \cap {"join", "detach", "kill"} # {} /\ Runs(a) /\ Locks
    /\ IllegalTid(k)
    /\ Parrot_exit(a)
    /\ UNCHANGED <<interpreter_array, running_threads, state, tid, memory, thread,
                   other, next_tid, interpreter_array_mutex, terms, joined>>

\* pt_thread_join of a thread that was joined or detached: "illegal thread
\* state"
RefusedJoin(a, k) ==
    /\ "join" \in uses /\ Runs(a) /\ Locks
    /\ ValidTid(k) /\ interpreter_array[k] # a
    /\ ~ Joinable(interpreter_array[k])
    /\ Parrot_exit(a)
    /\ UNCHANGED <<interpreter_array, running_threads, state, tid, memory, thread,
                   other, next_tid, interpreter_array_mutex, terms, joined>>

-----------------------------------------------------------------------------
(***************************************************************************)
(* pt_thread_join: it marks the thread under the lock, waits without it,   *)
(* and cleans up under the lock.                                           *)
(***************************************************************************)
JoinStart(a, k) ==
    LET i == interpreter_array[k]
    IN  /\ "join" \in uses /\ Runs(a) /\ Locks
        /\ ValidTid(k) /\ i # a
        /\ Joinable(i)
        /\ state' = [state EXCEPT ![i] = @ \cup {"JOINED"}]
        /\ joined' = joined \cup {i}
        /\ pc' = [pc EXCEPT ![a] = "join"]
        /\ other' = [other EXCEPT ![a] = i]
        /\ UNCHANGED <<interpreter_array, running_threads, tid, memory, thread,
                       next_tid, interpreter_array_mutex, terms>>

\* Two threads that wait for each other, or one for itself
Circular(a) == \/ other[a] = a
               \/ pc[other[a]] \in {"join", "exit_join"} /\ other[other[a]] = a

\* JOIN returns when the thread has ended.  In a circle it may return an error
\* instead: its result is ignored here and in pt_join_threads
JoinReturns(a) ==
    /\ pc[a] \in {"join", "exit_join"}
    /\ \/ thread[other[a]] = "ended"
       \/ Circular(a) /\ (JoinErrors \/ pc[a] = "exit_join")
    /\ pc' = [pc EXCEPT ![a] = IF @ = "join" THEN "joined" ELSE "exit"]
    /\ UNCHANGED <<interpreter_array, running_threads, state, tid, memory, thread,
                   other, next_tid, interpreter_array_mutex, terms, joined>>

\* Mutant of JoinFinish: the thread is subtracted twice
JoinFinish_Twice(a) ==
    LET i == other[a]
    IN  /\ pc[a] = "joined" /\ Locks
        /\ interpreter_array' = Emptied(tid[i])
        /\ running_threads' = running_threads - 2
        /\ memory' = Destroyed(i, state[i])
        /\ pc' = [pc EXCEPT ![a] = "run"]
        /\ other' = [other EXCEPT ![a] = NULL]
        /\ UNCHANGED <<state, tid, thread, next_tid, interpreter_array_mutex, terms,
                       joined>>

JoinFinish(a) ==
    LET i == other[a]
    IN  /\ pc[a] = "joined" /\ Locks
        /\ interpreter_array' = Emptied(tid[i])
        /\ running_threads' = running_threads - 1
        /\ memory' = Destroyed(i, state[i])
        /\ pc' = [pc EXCEPT ![a] = "run"]
        /\ other' = [other EXCEPT ![a] = NULL]
        /\ UNCHANGED <<state, tid, thread, next_tid, interpreter_array_mutex, terms,
                       joined>>

\* The clone of the return value fails under the lock, and the thread stays in
\* its slot.  A handler that catches the exception jumps out of pt_thread_join;
\* whether the jump runs the cleanup handler that unlocks depends on the
\* platform.  Parrot_exit runs with the mutex locked.
JoinCloneFails(a) ==
    /\ pc[a] = "joined" /\ Locks
    /\ other' = [other EXCEPT ![a] = NULL]
    /\ \/ /\ pc' = [pc EXCEPT ![a] = "run"]
          /\ interpreter_array_mutex' \in {NULL, a}
       \/ /\ Parrot_exit(a)
          /\ interpreter_array_mutex' = a
    /\ UNCHANGED <<interpreter_array, running_threads, state, tid, memory, thread,
                   next_tid, terms, joined>>

-----------------------------------------------------------------------------
(***************************************************************************)
(* detach: makes a joinable thread detached and destroys the interpreter   *)
(* of one that has finished.  Its result is the interpreter, for kill.     *)
(***************************************************************************)
\* Mutant of DetachStep: it destroys every finished interpreter
DetachStep_Finished(k) ==
    LET i == interpreter_array[k]
    IN  /\ Locks /\ ValidTid(k)
        /\ state' = [state EXCEPT ![i] = @ \cup {"DETACHED"}]
        /\ IF "FINISHED" \in state[i]
           THEN /\ interpreter_array' = Emptied(k)
                /\ memory' = Destroyed(i, state[i])
           ELSE UNCHANGED <<interpreter_array, memory>>

DetachStep(k) ==
    LET i == interpreter_array[k]
    IN  /\ Locks /\ ValidTid(k)
        /\ IF Joinable(i)
           THEN /\ state' = [state EXCEPT ![i] = @ \cup {"DETACHED"}]
                /\ IF "FINISHED" \in state[i]
                   THEN /\ interpreter_array' = Emptied(k)
                        /\ memory' = Destroyed(i, state[i])
                   ELSE UNCHANGED <<interpreter_array, memory>>
           ELSE UNCHANGED <<state, interpreter_array, memory>>

pt_thread_detach(a, k) ==
    /\ "detach" \in uses /\ Runs(a)
    /\ DetachStep(k)
    /\ UNCHANGED <<running_threads, tid, thread, pc, other, next_tid,
                   interpreter_array_mutex, terms, joined>>

\* pt_thread_kill: detach, then, outside the lock, the terminate event
KillDetach(a, k) ==
    LET i == interpreter_array[k]
    IN  /\ "kill" \in uses /\ Runs(a)
        /\ DetachStep(k)
        /\ IF Joinable(i) /\ "FINISHED" \in state[i]
           THEN UNCHANGED <<pc, other>>
           ELSE /\ pc' = [pc EXCEPT ![a] = "kill"]
                /\ other' = [other EXCEPT ![a] = i]
        /\ UNCHANGED <<running_threads, tid, thread, next_tid,
                       interpreter_array_mutex, terms, joined>>

KillSend(a) ==
    /\ thread[a] = "running" /\ pc[a] = "kill"
    /\ terms' = terms \cup {other[a]}
    /\ pc' = [pc EXCEPT ![a] = "run"]
    /\ other' = [other EXCEPT ![a] = NULL]
    /\ UNCHANGED <<interpreter_array, running_threads, state, tid, memory, thread,
                   next_tid, interpreter_array_mutex, joined>>

\* The event thread puts the event into the interpreter's task queue; from
\* then on the thread may end (as it may without the event)
Deliver(i) ==
    /\ i \in terms
    /\ terms' = terms \ {i}
    /\ UNCHANGED <<interpreter_array, running_threads, state, tid, memory, thread,
                   pc, other, next_tid, interpreter_array_mutex, joined>>

-----------------------------------------------------------------------------
\* Mutant of thread_func: a detached thread stays in its slot
thread_func_Listed(i) ==
    /\ i # Main /\ Runs(i) /\ Locks
    /\ state' = [state EXCEPT ![i] = @ \cup {"FINISHED"}]
    /\ memory' = IF "DETACHED" \in state[i] THEN Destroyed(i, state[i]) ELSE memory
    /\ thread' = [thread EXCEPT ![i] = "ended"]
    /\ pc' = [pc EXCEPT ![i] = "ended"]
    /\ UNCHANGED <<interpreter_array, running_threads, tid, other, next_tid,
                   interpreter_array_mutex, terms, joined>>

\* thread_func after its run loop has ended
thread_func(i) ==
    /\ i # Main /\ Runs(i) /\ Locks
    /\ interpreter_array[tid[i]] = i
    /\ state' = [state EXCEPT ![i] = @ \cup {"FINISHED"}]
    /\ IF "DETACHED" \in state[i]
       THEN /\ interpreter_array' = Emptied(tid[i])
            /\ memory' = Destroyed(i, state[i])
       ELSE UNCHANGED <<interpreter_array, memory>>
    /\ thread' = [thread EXCEPT ![i] = "ended"]
    /\ pc' = [pc EXCEPT ![i] = "ended"]
    /\ UNCHANGED <<running_threads, tid, other, next_tid, interpreter_array_mutex,
                   terms, joined>>

(***************************************************************************)
(* pt_join_threads, in the thread that exits: the loop goes up from tid 1, *)
(* and gives up the lock to wait for a thread.  It accepts a finished one  *)
(* that somebody joins already; its JOIN has no defined outcome then and   *)
(* returns here.                                                           *)
(***************************************************************************)
Following(k) == k + 1

\* Mutant of ToWaitFor: only threads that have finished are joined
ToWaitFor_Finished(a) ==
    {k \in Tids : /\ k >= next_tid[a]
                  /\ interpreter_array[k] # NULL
                  /\ "FINISHED" \in state[interpreter_array[k]]}

ToWaitFor(a) ==
    {k \in Tids : /\ k >= next_tid[a]
                  /\ interpreter_array[k] # NULL
                  /\ LET bits == state[interpreter_array[k]]
                     IN  bits = {} \/ "FINISHED" \in bits}

\* The end of the loop; the destruction of the first interpreter follows
LeavesLoop(a) ==
    /\ ToWaitFor(a) = {}
    /\ pc' = [pc EXCEPT ![a] = "exited"]
    /\ other' = [other EXCEPT ![a] = NULL]
    /\ UNCHANGED <<state, joined, next_tid>>

WaitsFor(a, k) ==
    LET i == interpreter_array[k]
    IN  /\ k \in ToWaitFor(a) /\ \A l \in ToWaitFor(a) : k <= l
        /\ Started(i)
        /\ state' = [state EXCEPT ![i] = @ \cup {"JOINED"}]
        /\ joined' = joined \cup {i}
        /\ next_tid' = [next_tid EXCEPT ![a] = Following(k)]
        /\ pc' = [pc EXCEPT ![a] = "exit_join"]
        /\ other' = [other EXCEPT ![a] = i]

pt_join_threads(a) ==
    /\ pc[a] = "exit" /\ Locks
    /\ LeavesLoop(a) \/ \E k \in Tids : WaitsFor(a, k)
    /\ UNCHANGED <<interpreter_array, running_threads, tid, memory, thread,
                   interpreter_array_mutex, terms>>

-----------------------------------------------------------------------------
Next ==
    /\ uses' = uses
    /\ \/ \E a \in Interp :
             \/ \E i \in Interp : pt_add_to_interpreters(a, i) \/ pt_thread_run(a, i)
             \/ \E k \in 0 .. MaxSlots : RefusedTid(a, k)
             \/ \E k \in Tids : \/ JoinStart(a, k)
                                \/ RefusedJoin(a, k)
                                \/ pt_thread_detach(a, k)
                                \/ KillDetach(a, k)
             \/ JoinReturns(a)
             \/ JoinFinish(a)
             \/ JoinCloneFails(a)
             \/ KillSend(a)
             \/ Deliver(a)
             \/ thread_func(a)
             \/ pt_join_threads(a)
       \/ MainExits

Spec == Init /\ [][Next]_vars

-----------------------------------------------------------------------------
(***************************************************************************)
(* Properties.                                                             *)
(***************************************************************************)
\* An interpreter that is executing finds itself in its slot: thread_func
\* never panics with "thread finished: interpreter mismatch", and a slot is
\* not given to another thread as long as its thread runs.
InItsSlot ==
    \A i \in Interp : thread[i] = "running" => interpreter_array[tid[i]] = i

\* Nobody finds an interpreter through the array after it was destroyed, and
\* none is destroyed while its program still runs.
NoDeadInterpreter ==
    \A i \in Interp : memory[i] \in {"destroyed", "freed"} =>
        /\ thread[i] = "ended"
        /\ \A k \in Tids : interpreter_array[k] # i

\* a calls JOIN for the thread of i
CallsJoin(a, i) ==
    /\ pc[a] \in {"run", "exit"} /\ pc'[a] \in {"join", "exit_join"}
    /\ other'[a] = i

\* Several interpreters may try to join a thread at the same time, and others
\* to detach it, while an exit is under way: nobody JOINs the operating
\* system's thread after it was detached, and pt_thread_join does not JOIN one
\* that was JOINed before ("join: illegal thread state").  The loop of an exit
\* may: it takes a finished thread although somebody is joining it.
JoinOnce ==
    [][\A a, i \in Interp : CallsJoin(a, i) =>
          /\ "DETACHED" \notin state[i]
          /\ pc[a] = "run" => i \notin joined]_vars

\* The interpreter whose thread is being joined is still there when JOIN
\* returns, until the joiner itself destroys it.
JoinedIsThere ==
    \A a \in Interp : pc[a] \in {"join", "joined"} =>
        /\ memory[other[a]] = "alive"
        /\ interpreter_array[tid[other[a]]] = other[a]

\* "if no other threads are running, we are safe" (pt_DOD_start_mark): the
\* counter is never smaller than the number of threads.
CountsThreads ==
    Cardinality({i \in Interp : i # Main /\ thread[i] = "running"})
        <= running_threads

\* In programs that leave the joining to the exit, whoever exits destroys the
\* first interpreter only when no other thread is left that executes its program
\* ("Waits for any threads to complete, then frees all allocated memory",
\* Parrot_really_destroy), although the loop of pt_join_threads gives up the lock
\* and threads go on to start others.
ExitWaits ==
    uses \subseteq {"exit"} /\ (\E a \in Interp : pc[a] = "exited") =>
        \A i \in Interp \ {Main} : ~ Runs(i)

=============================================================================
