------------------------------- MODULE Events -------------------------------
(***************************************************************************)
(* The event system of Parrot (parrot/src/events.c): the global event      *)
(* queue, the event thread that sorts timed events and hands due events to *)
(* the interpreters' task queues, the IO thread that turns SIGINT into     *)
(* events, and the interpreters, which handle their tasks in the run loop  *)
(* or while they sleep.  The queues are the sequences that TSQueue shows   *)
(* the linked lists to implement; one queue operation is one step.         *)
(*                                                                         *)
(* Time is relative: due is abs_time minus the current time, a Tick makes  *)
(* every due one smaller.  It stops at -1: a new entry is due at 0 or      *)
(* later, so all that matters of an overdue entry is that it is overdue.   *)
(*                                                                         *)
(* The run core is one of the function cores, whose op_func_table the      *)
(* event thread exchanges to enable event checking.                        *)
(***************************************************************************)
EXTENDS QueueOps, Integers, FiniteSets, FiniteSetsExt

CONSTANTS Interp,     \* the interpreters
          Main,       \* the first one, interpreter_array[0]
          NoInterp,   \* a NULL interpreter pointer
          Timer,      \* Timer PMCs
          NoTimer,    \* a NULL timer PMC
          TimerArgs,  \* arguments of Parrot_new_timer_event:
                      \*   [diff, interval, repeat]
          Naps,       \* arguments of the sleep op
          Uses,       \* which sources of events the program uses
          MaxEv,      \* bound: parrot_event structs allocated at once
          MaxNest,    \* bound: run loops on the C stack of a program that sleeps
          MaxStarts   \* bound: how often each timer is started

ASSUME MainAssumption == Main \in Interp /\ NoInterp \notin Interp
ASSUME TimerAssumption ==
    /\ NoTimer \notin Timer
    /\ TimerArgs \subseteq [diff : Nat, interval : Nat, repeat : Nat \cup {-1}]
    /\ Naps \subseteq Nat
ASSUME BoundAssumption == MaxEv \in Nat /\ MaxNest \in Nat /\ MaxStarts \in Nat

\* "restart": the program starts timers that it has started and not stopped
Source == {"timer", "restart", "stop", "alarm", "sleep", "callback", "terminate",
           "sigint", "check", "shutdown"}
ASSUME UsesAssumption == Uses \subseteq Source

Ev == 1 .. MaxEv
NoEv == 0

VARIABLES event,     \* the parrot_event structs, "FREE" when not allocated
          eventq,    \* event_queue
          taskq,     \* interpreter->task_queue
          evt,       \* the event thread: its place and the entry it holds
          io,        \* the IO thread: its place, whom it still has to tell
          sig_int,   \* the flag the signal handler sets
          checking,  \* op_func_table is the one that checks for events
          frames,    \* the C stack of each interpreter, innermost last
          sleeping,  \* interpreter->sleeping
          starts,    \* history: how often each timer was started
          running,   \* history: timer was started and not stopped since
          credit     \* history: handler calls each timer still owes

vars == <<event, eventq, taskq, evt, io, sig_int, checking, frames, sleeping,
          starts, running, credit>>

history == <<starts, running, credit>>

Type == {"FREE", "TIMER", "SLEEP", "CALL_BACK", "SIGNAL", "TERMINATE",
         "EVENT_TERMINATE", "NONE"}

FreeEvent == [type |-> "FREE", interp |-> NoInterp, data |-> NoTimer,
              due |-> 0, interval |-> 0, repeat |-> 0, timed |-> FALSE]

EventRec == [type : Type, interp : Interp \cup {NoInterp}, data : Timer \cup {NoTimer},
             due : Int, interval : Nat, repeat : Nat \cup {-1}, timed : BOOLEAN]

Frame == [k : {"run", "handle", "sleep"}, term : BOOLEAN, ev : Ev \cup {NoEv},
          left : Nat]

TypeOK ==
    /\ event \in [Ev -> EventRec]
    /\ eventq \in Seq(Ev)
    /\ taskq \in [Interp -> Seq(Ev)]
    /\ evt \in [pc : {"woken", "process", "enable", "put", "waiting", "destroy",
                      "stop_io", "stopped", "died"},
                hand : Ev \cup {NoEv}]
    /\ io \in [pc : {"select", "eintr", "enable", "put", "stopped"},
               todo : SUBSET Interp, hand : Ev \cup {NoEv}, msg : BOOLEAN]
    /\ sig_int \in BOOLEAN
    /\ checking \in [Interp -> BOOLEAN]
    /\ frames \in [Interp -> Seq(Frame)]
    /\ sleeping \in [Interp -> BOOLEAN]
    /\ starts \in [Timer -> Nat]
    /\ running \in [Timer -> BOOLEAN]
    /\ credit \in [Timer -> Int]

RunFrame == [k |-> "run", term |-> FALSE, ev |-> NoEv, left |-> 0]

\* Parrot_init_events, with every interpreter in its outermost run loop
Init ==
    /\ event = [e \in Ev |-> FreeEvent]
    /\ eventq = <<>>
    /\ taskq = [i \in Interp |-> <<>>]
    /\ evt = [pc |-> "woken", hand |-> NoEv]
    /\ io = [pc |-> "select", todo |-> {}, hand |-> NoEv, msg |-> FALSE]
    /\ sig_int = FALSE
    /\ checking = [i \in Interp |-> FALSE]
    /\ frames = [i \in Interp |-> <<RunFrame>>]
    /\ sleeping = [i \in Interp |-> FALSE]
    /\ starts = [tm \in Timer |-> 0]
    /\ running = [tm \in Timer |-> FALSE]
    /\ credit = [tm \in Timer |-> 0]

-----------------------------------------------------------------------------
(***************************************************************************)
(* Scheduling.  The event thread owns the mutex of the event queue except  *)
(* while it waits and between its last UNLOCK and queue_destroy, so the    *)
(* other threads schedule only then.                                       *)
(***************************************************************************)
Unallocated == {e \in Ev : event[e].type = "FREE"}

Alive == evt.pc # "died"

EventMutexFree == evt.pc \in {"woken", "waiting", "destroy"}

TimedEvents(ev) == {e \in Ev : ev[e].timed}
Due(ev) == [e \in Ev |-> ev[e].due]

\* Mutant of WakeEventThread: the waiting event thread is not signalled
WakeEventThread_Not == UNCHANGED evt

\* COND_SIGNAL by insert_entry, unshift_entry and push_entry
WakeEventThread ==
    evt' = [evt EXCEPT !.pc = IF @ = "waiting" THEN "woken" ELSE @]

\* Parrot_schedule_event: where an event of each type enters the queue
Parrot_schedule_event(e, rec) ==
    /\ EventMutexFree
    /\ event' = [event EXCEPT ![e] = rec]
    /\ eventq' = CASE rec.type \in {"TIMER", "SLEEP"} ->
                        Inserted(eventq, e, TimedEvents(event'), Due(event'))
                   [] rec.type = "CALL_BACK" -> Cons(e, eventq)
                   [] OTHER -> Append(eventq, e)
    /\ WakeEventThread

TimedEvent(i, type, data, a) ==
    [type |-> type, interp |-> i, data |-> data, due |-> a.diff,
     interval |-> IF a.repeat # 0 /\ a.interval = 0 THEN a.diff ELSE a.interval,
     repeat |-> a.repeat, timed |-> TRUE]

UntimedEvent(i, type) == [FreeEvent EXCEPT !.type = type, !.interp = i]

NewEvent == Min(Unallocated)

(***************************************************************************)
(* The bound MaxEv limits who creates events, never the event thread: it   *)
(* leaves room for the copies that process_events will make of the queued  *)
(* events and of the new one.                                              *)
(***************************************************************************)
Copies(repeat) == IF repeat > 0 THEN repeat ELSE 0

Room(repeat) ==
    /\ Unallocated # {}
    /\ Cardinality(Unallocated \ {NewEvent}) >=
          Copies(repeat)
          + MapThenSumSet(LAMBDA e : Copies(event[e].repeat), ToSet(eventq))

Top(i) == frames[i][Len(frames[i])]

\* Interpreter i is about to dispatch an op of its program
RunsOps(i) ==
    /\ Alive
    /\ frames[i] # <<>>
    /\ Top(i).k = "run" /\ ~ Top(i).term
    /\ ~ checking[i]

Push(i, f) == frames' = [frames EXCEPT ![i] = Append(@, f)]

-----------------------------------------------------------------------------
(***************************************************************************)
(* The ops and callbacks that create events.                               *)
(***************************************************************************)
\* Timer PMC, PARROT_TIMER_RUNNING = 1: add_timer, Parrot_new_timer_event
StartTimer(i, tm, a) ==
    /\ "timer" \in Uses /\ RunsOps(i)
    /\ Room(a.repeat) /\ starts[tm] < MaxStarts
    /\ running[tm] => "restart" \in Uses
    /\ Parrot_schedule_event(NewEvent, TimedEvent(i, "TIMER", tm, a))
    /\ starts' = [starts EXCEPT ![tm] = @ + 1]
    /\ running' = [running EXCEPT ![tm] = TRUE]
    /\ credit' = [credit EXCEPT ![tm] = @ + a.repeat + 1]
    /\ UNCHANGED <<taskq, io, sig_int, checking, frames, sleeping>>

\* Mutant of IsTimerEntry: any timer of the interpreter is taken
IsTimerEntry_Any(k, i, tm) ==
    event[eventq[k]].timed /\ event[eventq[k]].interp = i

IsTimerEntry(k, i, tm) ==
    /\ event[eventq[k]].timed
    /\ event[eventq[k]].interp = i
    /\ event[eventq[k]].data = tm

\* Events that count for the handler calls that timer tm owes; a timer that
\* runs forever owes none
CountsFor(tm, e) ==
    event[e].type = "TIMER" /\ event[e].data = tm /\ event[e].repeat # -1

\* Events of the timer that have left the event queue and whose handler has
\* not started: stopping the timer does not stop them
InFlight(tm) ==
    {e \in ({evt.hand} \ {NoEv}) \cup UNION {ToSet(taskq[i]) : i \in Interp} :
        CountsFor(tm, e)}

\* Timer PMC, PARROT_TIMER_RUNNING = 0, and destroy: Parrot_del_timer_event
\* changes the first timed entry that belongs to the timer
Parrot_del_timer_event(i, tm) ==
    /\ "stop" \in Uses /\ RunsOps(i)
    /\ EventMutexFree
    /\ LET K == {k \in 1 .. Len(eventq) : IsTimerEntry(k, i, tm)}
       IN  IF K = {}
           THEN UNCHANGED event
           ELSE event' = [event EXCEPT ![eventq[Min(K)]].interval = 0,
                                       ![eventq[Min(K)]].type = "NONE"]
    /\ credit' = [credit EXCEPT ![tm] = Cardinality(InFlight(tm))]
    /\ running' = [running EXCEPT ![tm] = FALSE]
    /\ UNCHANGED <<eventq, taskq, evt, io, sig_int, checking, frames, sleeping,
                   starts>>

\* The alarm ops: a timer event without a Timer PMC
Alarm(i, a) ==
    /\ "alarm" \in Uses /\ RunsOps(i)
    /\ Room(a.repeat)
    /\ Parrot_schedule_event(NewEvent, TimedEvent(i, "TIMER", NoTimer, a))
    /\ UNCHANGED <<taskq, io, sig_int, checking, frames, sleeping, history>>

\* The sleep op: Parrot_sleep_on_event up to the loop of wait_for_wakeup
Parrot_sleep_on_event(i, t) ==
    /\ "sleep" \in Uses /\ RunsOps(i)
    /\ Room(0) /\ Len(frames[i]) <= MaxNest
    /\ Parrot_schedule_event(NewEvent,
           TimedEvent(i, "SLEEP", NoTimer,
                      [diff |-> t, interval |-> 0, repeat |-> 0]))
    /\ sleeping' = [sleeping EXCEPT ![i] = TRUE]
    /\ Push(i, [k |-> "sleep", term |-> FALSE, ev |-> NoEv, left |-> t])
    /\ UNCHANGED <<taskq, io, sig_int, checking, history>>

\* Parrot_new_cb_event, called by external code that has a callback
Parrot_new_cb_event(i) ==
    /\ "callback" \in Uses /\ Alive
    /\ Room(0) /\ frames[i] # <<>>
    /\ Parrot_schedule_event(NewEvent, UntimedEvent(i, "CALL_BACK"))
    /\ UNCHANGED <<taskq, io, sig_int, checking, frames, sleeping, history>>

\* Parrot_new_terminate_event, called by another interpreter to kill i
Parrot_new_terminate_event(i) ==
    /\ "terminate" \in Uses /\ Alive
    /\ Room(0) /\ frames[i] # <<>>
    /\ \A e \in Ev : event[e].type = "TERMINATE" => event[e].interp # i
    /\ Parrot_schedule_event(NewEvent, UntimedEvent(i, "TERMINATE"))
    /\ UNCHANGED <<taskq, io, sig_int, checking, frames, sleeping, history>>

\* Parrot_kill_event_loop, called when the main interpreter has left its
\* run loop and is destroyed
Parrot_kill_event_loop ==
    /\ "shutdown" \in Uses /\ evt.pc \in {"woken", "waiting"}
    /\ Room(0) /\ frames[Main] = <<>>
    /\ \A e \in Ev : event[e].type # "EVENT_TERMINATE"
    /\ Parrot_schedule_event(NewEvent, UntimedEvent(NoInterp, "EVENT_TERMINATE"))
    /\ UNCHANGED <<taskq, io, sig_int, checking, frames, sleeping, history>>

-----------------------------------------------------------------------------
(***************************************************************************)
(* The event thread.                                                       *)
(***************************************************************************)
\* The condition wait ends: with the mutex again, process_events starts
EventThreadLock ==
    /\ evt.pc = "woken"
    /\ evt' = [evt EXCEPT !.pc = "process"]
    /\ UNCHANGED <<event, eventq, taskq, io, sig_int, checking, frames, sleeping,
                   history>>

HeadTimed == eventq # <<>> /\ event[Head(eventq)].timed
\* Mutant of HeadDue: abs_time is not compared with the time
HeadDue_Always == HeadTimed

HeadDue == HeadTimed /\ event[Head(eventq)].due <= 0

\* Mutant of EventThreadTimeout: a wait without the timeout
EventThreadTimeout_Never == FALSE /\ UNCHANGED vars

\* queue_timedwait returns at the abs_time of the first entry
EventThreadTimeout ==
    /\ evt.pc = "waiting" /\ HeadDue
    /\ WakeEventThread
    /\ UNCHANGED <<event, eventq, taskq, io, sig_int, checking, frames, sleeping,
                   history>>

\* process_events ran out of entries it may deliver now, and the loop of
\* event_thread waits, until an entry arrives or until the first one is due
EventThreadWait ==
    /\ evt.pc = "process"
    /\ eventq = <<>> \/ (HeadTimed /\ ~ HeadDue)
    /\ evt' = [evt EXCEPT !.pc = "waiting"]
    /\ UNCHANGED <<event, eventq, taskq, io, sig_int, checking, frames, sleeping,
                   history>>

Repeats(r) == r.interval # 0 /\ r.repeat # 0

\* Mutants of CountDown: repeat is not decremented; -1 is decremented as well
CountDown_Not(r) == r
CountDown_Forever(r) == IF Repeats(r) THEN [r EXCEPT !.repeat = @ - 1] ELSE r

\* A timed event loses one of its repetitions, unless it repeats forever
CountDown(r) ==
    IF Repeats(r) /\ r.repeat # -1 THEN [r EXCEPT !.repeat = @ - 1] ELSE r

(***************************************************************************)
(* process_events takes the first entry.  A repeated timed event is        *)
(* duplicated with its interval from now and inserted again.               *)
(***************************************************************************)
process_events ==
    /\ evt.pc = "process"
    /\ eventq # <<>>
    /\ HeadTimed => HeadDue
    /\ LET e == Head(eventq)  r == CountDown(event[e])
       IN  /\ IF event[e].timed /\ Repeats(event[e])
              THEN LET n == NewEvent
                   IN  /\ Unallocated # {}
                       /\ event' = [event EXCEPT ![e] = r,
                                        ![n] = [r EXCEPT !.due = r.interval]]
                       /\ eventq' = Inserted(Tail(eventq), n,
                                             TimedEvents(event'), Due(event'))
              ELSE /\ event' = IF event[e].type \in {"NONE", "EVENT_TERMINATE"}
                               THEN [event EXCEPT ![e] = FreeEvent]
                               ELSE event
                   /\ eventq' = Tail(eventq)
           /\ evt' = CASE event[e].type = "NONE" -> evt
                       [] event[e].type = "EVENT_TERMINATE" ->
                             [evt EXCEPT !.pc = "destroy"]
                       [] OTHER -> [pc |-> "enable", hand |-> e]
    /\ UNCHANGED <<taskq, io, sig_int, checking, frames, sleeping, history>>

\* Parrot_schedule_interp_qentry, the first half: enable_event_checking
EventThreadEnable ==
    /\ evt.pc = "enable"
    /\ LET r == event[evt.hand]
       IN  checking' = IF r.type = "SLEEP" THEN checking
                       ELSE [checking EXCEPT ![r.interp] = TRUE]
    /\ evt' = [evt EXCEPT !.pc = "put"]
    /\ UNCHANGED <<event, eventq, taskq, io, sig_int, frames, sleeping, history>>

\* Parrot_schedule_interp_qentry, the second half: where the event goes in
\* the task queue
PutTask(i, e) ==
    taskq' = [taskq EXCEPT ![i] =
                 IF event[e].type \in {"CALL_BACK", "SIGNAL"}
                 THEN Cons(e, @) ELSE Append(@, e)]

EventThreadPut ==
    /\ evt.pc = "put"
    /\ PutTask(event[evt.hand].interp, evt.hand)
    /\ evt' = [pc |-> "process", hand |-> NoEv]
    /\ UNCHANGED <<event, eventq, io, sig_int, checking, frames, sleeping, history>>

\* The event thread ends: queue_destroy, which exits the process when the
\* queue is not empty, and stop_io_thread
EventThreadDestroy ==
    /\ evt.pc = "destroy"
    /\ evt' = [evt EXCEPT !.pc = IF eventq = <<>> THEN "stop_io" ELSE "died"]
    /\ UNCHANGED <<event, eventq, taskq, io, sig_int, checking, frames, sleeping,
                   history>>

\* Mutant of stop_io_thread: the IO thread is not told
stop_io_thread_Silent ==
    /\ evt.pc = "stop_io"
    /\ evt' = [evt EXCEPT !.pc = "stopped"]
    /\ UNCHANGED <<event, eventq, taskq, io, sig_int, checking, frames, sleeping,
                   history>>

stop_io_thread ==
    /\ evt.pc = "stop_io"
    /\ evt' = [evt EXCEPT !.pc = "stopped"]
    /\ io' = [io EXCEPT !.msg = TRUE]
    /\ UNCHANGED <<event, eventq, taskq, sig_int, checking, frames, sleeping,
                   history>>

EventThread ==
    \/ EventThreadLock \/ EventThreadTimeout \/ EventThreadWait
    \/ process_events \/ EventThreadEnable \/ EventThreadPut
    \/ EventThreadDestroy \/ stop_io_thread

-----------------------------------------------------------------------------
(***************************************************************************)
(* Signals and the IO thread.  SIGINT is blocked in all other threads: the *)
(* handler runs in the IO thread, and interrupts a select it is in.        *)
(***************************************************************************)
sig_handler ==
    /\ "sigint" \in Uses /\ Alive
    /\ io.pc # "stopped"
    /\ sig_int' = TRUE
    /\ io' = [io EXCEPT !.pc = IF @ = "select" THEN "eintr" ELSE @]
    /\ UNCHANGED <<event, eventq, taskq, evt, checking, frames, sleeping, history>>

\* select returned EINTR: schedule_signal_event, to all interpreters
IoEintr ==
    /\ io.pc = "eintr"
    /\ IF sig_int
       THEN /\ sig_int' = FALSE
            /\ io' = [io EXCEPT !.pc = "enable", !.todo = Interp]
       ELSE /\ io' = [io EXCEPT !.pc = "select"]
            /\ UNCHANGED sig_int
    /\ UNCHANGED <<event, eventq, taskq, evt, checking, frames, sleeping, history>>

\* Parrot_schedule_broadcast_qentry: a copy for each interpreter, the main
\* interpreter last
IoEnable(i) ==
    /\ io.pc = "enable"
    /\ i \in io.todo /\ (i = Main => io.todo = {Main})
    /\ Room(0)
    /\ event' = [event EXCEPT ![NewEvent] = UntimedEvent(i, "SIGNAL")]
    /\ checking' = [checking EXCEPT ![i] = TRUE]
    /\ io' = [io EXCEPT !.pc = "put", !.hand = NewEvent, !.todo = @ \ {i}]
    /\ UNCHANGED <<eventq, taskq, evt, sig_int, frames, sleeping, history>>

IoPut ==
    /\ io.pc = "put"
    /\ PutTask(event[io.hand].interp, io.hand)
    /\ io' = [io EXCEPT !.pc = IF io.todo = {} THEN "select" ELSE "enable",
                        !.hand = NoEv]
    /\ UNCHANGED <<event, eventq, evt, sig_int, checking, frames, sleeping, history>>

\* select reports the message that stop_io_thread wrote into the pipe
IoStop ==
    /\ io.pc = "select" /\ io.msg
    /\ io' = [io EXCEPT !.pc = "stopped", !.msg = FALSE]
    /\ UNCHANGED <<event, eventq, taskq, evt, sig_int, checking, frames, sleeping,
                   history>>

IoThread ==
    Alive /\ (IoEintr \/ (\E i \in Interp : IoEnable(i)) \/ IoPut \/ IoStop)

-----------------------------------------------------------------------------
(***************************************************************************)
(* The interpreters.                                                       *)
(***************************************************************************)
\* check_events__ replaces the next op: Parrot_do_handle_events(restore)
\* starts with disable_event_checking
CheckEvents(i) ==
    /\ Alive /\ frames[i] # <<>>
    /\ Top(i).k = "run" /\ ~ Top(i).term
    /\ checking[i]
    /\ checking' = [checking EXCEPT ![i] = FALSE]
    /\ Push(i, [RunFrame EXCEPT !.k = "handle"])
    /\ UNCHANGED <<event, eventq, taskq, evt, io, sig_int, sleeping, history>>

\* The check_events op: Parrot_do_check_events, without the restore
Parrot_do_check_events(i) ==
    /\ "check" \in Uses /\ RunsOps(i)
    /\ taskq[i] # <<>>
    /\ Push(i, [RunFrame EXCEPT !.k = "handle"])
    /\ UNCHANGED <<event, eventq, taskq, evt, io, sig_int, checking, sleeping,
                   history>>

\* The function at the top returns next to the run loop that called it; a
\* NULL next ends that run loop
Returned(fs) ==
    LET n == Len(fs)
    IN  [SubSeq(fs, 1, n-1) EXCEPT ![n-1].term = @ \/ fs[n].term]

\* The loops of Parrot_do_handle_events and of wait_for_wakeup end
LoopEnds(i) ==
    /\ Alive /\ frames[i] # <<>>
    /\ \/ Top(i).k = "handle" /\ taskq[i] = <<>>
       \/ Top(i).k = "sleep" /\ ~ sleeping[i]
    /\ frames' = [frames EXCEPT ![i] = Returned(@)]
    /\ UNCHANGED <<event, eventq, taskq, evt, io, sig_int, checking, sleeping,
                   history>>

\* The next task is popped, in Parrot_do_handle_events or in wait_for_wakeup
TakesTask(i, type) ==
    /\ Alive /\ frames[i] # <<>>
    /\ \/ Top(i).k = "handle"
       \/ Top(i).k = "sleep" /\ sleeping[i]
    /\ taskq[i] # <<>>
    /\ event[Head(taskq[i])].type \in type
    /\ taskq' = [taskq EXCEPT ![i] = Tail(@)]

\* Mutant of FreeTask: the event is not freed
FreeTask_Not(i) == UNCHANGED event

FreeTask(i) == event' = [event EXCEPT ![Head(taskq[i])] = FreeEvent]

\* do_event on a SLEEP event
DoSleep(i) ==
    /\ TakesTask(i, {"SLEEP"})
    /\ sleeping' = [sleeping EXCEPT ![i] = FALSE]
    /\ FreeTask(i)
    /\ UNCHANGED <<eventq, evt, io, sig_int, checking, frames, history>>

\* do_event on a TERMINATE event: next becomes NULL
DoTerminate(i) ==
    /\ TakesTask(i, {"TERMINATE"})
    /\ frames' = [frames EXCEPT ![i][Len(frames[i])].term = TRUE]
    /\ FreeTask(i)
    /\ UNCHANGED <<eventq, evt, io, sig_int, checking, sleeping, history>>

\* do_event on a TIMER or a CALL_BACK event runs the handler in a run loop
\* of its own; a timer whose event was already delivered when it was stopped
\* still runs its handler
DoHandler(i) ==
    /\ TakesTask(i, {"TIMER", "CALL_BACK"})
    /\ frames' = [frames EXCEPT ![i] =
          Append([@ EXCEPT ![Len(@)].ev = Head(taskq[i])], RunFrame)]
    /\ credit' = [tm \in Timer |-> IF CountsFor(tm, Head(taskq[i]))
                                   THEN credit[tm] - 1 ELSE credit[tm]]
    /\ UNCHANGED <<event, eventq, evt, io, sig_int, checking, sleeping, starts,
                   running>>

\* do_event on a SIGNAL event: an exception, with a longjmp to the innermost
\* run loop.  It resumes at a handler the program has set, or, in a thread,
\* ends; without a handler the main interpreter exits the process.  The
\* event is not freed.
DoSignal(i) ==
    /\ TakesTask(i, {"SIGNAL"})
    /\ sleeping' = [sleeping EXCEPT ![i] = FALSE]
    /\ LET outer == SubSeq(frames[i], 1, Len(frames[i]) - 1)
       IN  \/ /\ frames' = [frames EXCEPT ![i] = outer]
              /\ UNCHANGED evt
           \/ /\ i # Main
              /\ frames' = [frames EXCEPT ![i] =
                                [outer EXCEPT ![Len(outer)].term = TRUE]]
              /\ UNCHANGED evt
           \/ /\ i = Main
              /\ evt' = [evt EXCEPT !.pc = "died"]
              /\ UNCHANGED frames
    /\ UNCHANGED <<event, eventq, io, sig_int, checking, history>>

\* A run loop ends, by its end op or because pc is NULL.  If it ran a handler
\* do_event frees the event of the handler.
RunLoopEnds(i) ==
    /\ Alive /\ frames[i] # <<>>
    /\ Top(i).k = "run"
    /\ Top(i).term \/ ~ checking[i]
    /\ LET n == Len(frames[i])
       IN  IF n = 1
           THEN /\ frames' = [frames EXCEPT ![i] = <<>>]
                /\ UNCHANGED event
           ELSE /\ frames' = [frames EXCEPT ![i] =
                       [SubSeq(@, 1, n-1) EXCEPT ![n-1].ev = NoEv]]
                /\ event' = [event EXCEPT ![frames[i][n-1].ev] = FreeEvent]
    /\ UNCHANGED <<eventq, taskq, evt, io, sig_int, checking, sleeping, history>>

HandlesTasks(i) ==
    LoopEnds(i) \/ DoSleep(i) \/ DoTerminate(i) \/ DoHandler(i) \/ DoSignal(i)

-----------------------------------------------------------------------------
Elapse(n) == IF n > -1 THEN n - 1 ELSE n

\* A unit of time passes
Tick ==
    /\ Alive
    /\ event' = [e \in Ev |-> IF e \in ToSet(eventq) /\ event[e].timed
                              THEN [event[e] EXCEPT !.due = Elapse(@)]
                              ELSE event[e]]
    /\ frames' = [i \in Interp |->
          [n \in DOMAIN frames[i] |->
              [frames[i][n] EXCEPT !.left = IF @ > 0 THEN @ - 1 ELSE 0]]]
    /\ UNCHANGED <<eventq, taskq, evt, io, sig_int, checking, sleeping, history>>

Schedules ==
    \/ \E i \in Interp :
          \/ \E tm \in Timer, a \in TimerArgs : StartTimer(i, tm, a)
          \/ \E tm \in Timer : Parrot_del_timer_event(i, tm)
          \/ \E a \in TimerArgs : Alarm(i, a)
          \/ \E t \in Naps : Parrot_sleep_on_event(i, t)
          \/ Parrot_new_cb_event(i)
          \/ Parrot_new_terminate_event(i)
    \/ Parrot_kill_event_loop

Interpreters ==
    \E i \in Interp :
        CheckEvents(i) \/ Parrot_do_check_events(i) \/ HandlesTasks(i)
            \/ RunLoopEnds(i)

Next == Schedules \/ EventThread \/ sig_handler \/ IoThread \/ Interpreters \/ Tick

Spec == Init /\ [][Next]_vars

(***************************************************************************)
(* The threads are scheduled, time passes, a task an interpreter has begun *)
(* to look at is handled, and the run loops of handlers end.  Nothing      *)
(* obliges the program to schedule events, to end its outermost run loop   *)
(* or to execute a check_events op.                                        *)
(***************************************************************************)
HandlerEnds(i) == RunLoopEnds(i) /\ (Len(frames[i]) > 1 \/ Top(i).term)

Fairness ==
    /\ WF_vars(EventThread)
    /\ WF_vars(IoThread)
    /\ WF_vars(Tick)
    /\ \A i \in Interp : /\ WF_vars(CheckEvents(i))
                         /\ WF_vars(HandlesTasks(i))
                         /\ WF_vars(HandlerEnds(i))

FairSpec == Spec /\ Fairness

-----------------------------------------------------------------------------
(***************************************************************************)
(* Properties.                                                             *)
(***************************************************************************)
\* The places that refer to event e
Places(e) ==
    {<<"event_queue", k>> : k \in {n \in 1 .. Len(eventq) : eventq[n] = e}}
    \cup (UNION {{<<"task_queue", i, k>> :
                     k \in {n \in 1 .. Len(taskq[i]) : taskq[i][n] = e}} :
                i \in Interp})
    \cup (UNION {{<<"do_event", i, k>> :
                     k \in {n \in 1 .. Len(frames[i]) : frames[i][n].ev = e}} :
                i \in Interp})
    \cup {<<"event_thread">> : x \in {evt.hand} \cap {e}}
    \cup {<<"io_thread">> : x \in {io.hand} \cap {e}}

\* Every allocated event is in exactly one place, from the malloc in the
\* thread that creates it to the mem_sys_free at the end of do_event or in
\* process_events: it is neither freed while it is still queued or its
\* handler runs, nor delivered twice, nor lost.  Only the event of a signal
\* is abandoned, by the longjmp out of do_event.
EventOwned ==
    \A e \in Ev :
        LET n == Cardinality(Places(e))
        IN  /\ n <= 1
            /\ event[e].type = "FREE" => n = 0
            /\ n = 0 => event[e].type \in {"FREE", "SIGNAL"}

\* Neighbouring timed entries of the event queue are in the order of their
\* abs_time, whatever else is queued and however they are reinserted: the
\* event thread looks at nothing but the first entry.
TimedOrder ==
    \A k \in 1 .. Len(eventq) - 1 :
        event[eventq[k]].timed /\ event[eventq[k+1]].timed
            => event[eventq[k]].due <= event[eventq[k+1]].due

\* The handler calls that the queued events of timer tm still stand for
Pending(tm) ==
    Cardinality(InFlight(tm))
    + MapThenSumSet(LAMBDA e : event[e].repeat + 1,
                    {e \in ToSet(eventq) : CountsFor(tm, e)})

\* A timer owes exactly the handler calls its queued events will make: a
\* timer that was not stopped calls its handler repeat+1 times ("The Timer
\* stops after invoking the handler (repeat+1) times"), a stopped one calls
\* it only for events that had left the event queue.
TimerOwes == \A tm \in Timer : credit[tm] = Pending(tm)

\* A timer that was stopped has no live event in the event queue
\* ("Deactivate the timer identified by timer").
StoppedTimerQuiet ==
    \A tm \in Timer : ~ running[tm] =>
        \A k \in 1 .. Len(eventq) :
            ~ (event[eventq[k]].type = "TIMER" /\ event[eventq[k]].data = tm)

\* A sleep that returns to its program has lasted as long as the program
\* asked for.
SleepFull ==
    \A i \in Interp :
        Alive /\ frames[i] # <<>> /\ Top(i).k = "sleep" /\ ~ sleeping[i]
            => Top(i).left = 0

\* Every sleep ends, whatever handlers run during it.
SleepEnds ==
    \A i \in Interp : sleeping[i] ~> ~ sleeping[i]

\* No event stays in the event queue forever.
EventsDelivered ==
    \A e \in Ev : e \in ToSet(eventq) ~> e \notin ToSet(eventq)

\* After Parrot_kill_event_loop both the event thread and the IO thread end.
ShutdownCompletes ==
    (\E e \in Ev : event[e].type = "EVENT_TERMINATE")
        ~> (evt.pc = "stopped" /\ io.pc = "stopped")

\* An interpreter with a task in its queue handles all its tasks, or ends.
TasksHandled ==
    \A i \in Interp :
        taskq[i] # <<>> ~> (taskq[i] = <<>> \/ frames[i] = <<>>)

=============================================================================
