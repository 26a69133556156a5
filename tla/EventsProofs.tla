---------------------------- MODULE EventsProofs ----------------------------
(***************************************************************************)
(* Proofs of the safety invariants of Events: the types, that every event  *)
(* has one owner, that timed entries are in order, that stopped timers are *)
(* quiet, that timers owe the calls their events make and that sleeps      *)
(* last; for every set of interpreters and timers, all times and every     *)
(* number of events. The last three need a condition on the program, which *)
(* is a hypothesis of their theorems.                                      *)
(***************************************************************************)
EXTENDS Events, QueueFacts, FiniteSetTheorems

-----------------------------------------------------------------------------
(***************************************************************************)
(* Types.                                                                  *)
(***************************************************************************)
\* The event thread and the IO thread hold an event exactly while they hand
\* it to an interpreter.
HandsFull ==
    /\ evt.pc \in {"enable", "put"} => evt.hand # NoEv
    /\ evt.pc \notin {"enable", "put", "died"} => evt.hand = NoEv
    /\ io.pc = "put" <=> io.hand # NoEv

TInv == TypeOK /\ HandsFull

\* The events are a finite set of numbers other than NoEv.
LEMMA EvFacts == Ev \subseteq Nat /\ NoEv \notin Ev /\ IsFiniteSet(Ev)
<1>1. MaxEv \in Nat
  BY BoundAssumption
<1>2. IsFiniteSet(Ev)
  BY <1>1, FS_Interval DEF Ev
<1> QED BY <1>1, <1>2 DEF Ev, NoEv

\* A new event is one that is not allocated.
LEMMA NewEventIsFree ==
    ASSUME Unallocated # {}
    PROVE  NewEvent \in Ev /\ event[NewEvent].type = "FREE"
<1>1. Unallocated \subseteq Nat
  BY EvFacts DEF Unallocated
<1>2. NewEvent \in Unallocated
  BY <1>1, MinIsLeast DEF NewEvent
<1> QED BY <1>2 DEF Unallocated

\* The events that the program and the threads create are of their types.
LEMMA NewRecords ==
    /\ FreeEvent \in EventRec
    /\ RunFrame \in Frame
    /\ \A i \in Interp \cup {NoInterp}, type \in Type : UntimedEvent(i, type) \in EventRec
    /\ \A i \in Interp, type \in Type, data \in Timer \cup {NoTimer},
          a \in [diff : Nat, interval : Nat, repeat : Nat \cup {-1}] :
          TimedEvent(i, type, data, a) \in EventRec
<1>1. FreeEvent \in EventRec
  BY DEF FreeEvent, EventRec, Type
<1>2. RunFrame \in Frame
  BY DEF RunFrame, Frame
<1>3. \A i \in Interp \cup {NoInterp}, type \in Type : UntimedEvent(i, type) \in EventRec
  <2> TAKE i \in Interp \cup {NoInterp}, type \in Type
  <2>1. \A r \in EventRec : [r EXCEPT !.type = type, !.interp = i] \in EventRec
    BY DEF EventRec
  <2> HIDE DEF EventRec, FreeEvent
  <2> QED BY <1>1, <2>1 DEF UntimedEvent
<1>4. \A i \in Interp, type \in Type, data \in Timer \cup {NoTimer},
          a \in [diff : Nat, interval : Nat, repeat : Nat \cup {-1}] :
          TimedEvent(i, type, data, a) \in EventRec
  <2> TAKE i \in Interp, type \in Type, data \in Timer \cup {NoTimer},
          a \in [diff : Nat, interval : Nat, repeat : Nat \cup {-1}]
  <2> DEFINE v == IF a.repeat # 0 /\ a.interval = 0 THEN a.diff ELSE a.interval
  <2>1. a.diff \in Int /\ v \in Nat /\ a.repeat \in Nat \cup {-1}
    OBVIOUS
  <2> HIDE DEF v
  <2>2. [type |-> type, interp |-> i, data |-> data, due |-> a.diff,
         interval |-> v, repeat |-> a.repeat, timed |-> TRUE] \in EventRec
    BY <2>1 DEF EventRec
  <2> QED BY <2>2 DEF TimedEvent, v
<1> QED BY <1>1, <1>2, <1>3, <1>4

\* What the threads change of an event keeps its type.
LEMMA ChangedRecords ==
    ASSUME NEW r \in EventRec
    PROVE  /\ [r EXCEPT !.interval = 0, !.type = "NONE"] \in EventRec
           /\ \A n \in Int : [r EXCEPT !.due = n] \in EventRec
           /\ CountDown(r) \in EventRec
<1>1. [r EXCEPT !.interval = 0, !.type = "NONE"] \in EventRec
  BY DEF EventRec, Type
<1>2. \A n \in Int : [r EXCEPT !.due = n] \in EventRec
  BY DEF EventRec
<1>3. \A n \in Nat : [r EXCEPT !.repeat = n] \in EventRec
  BY DEF EventRec
<1>4. r.repeat \in Nat \cup {-1}
  BY DEF EventRec
<1>5. Repeats(r) /\ r.repeat # -1 => r.repeat - 1 \in Nat
  BY <1>4 DEF Repeats
<1>6. CountDown(r) \in EventRec
  BY <1>3, <1>5 DEF CountDown
<1> QED BY <1>1, <1>2, <1>6

\* The places of a queue of events hold events.
LEMMA QueueOfEvents ==
    ASSUME TypeOK
    PROVE  /\ \A k \in 1 .. Len(eventq) : eventq[k] \in Ev
           /\ \A i \in Interp : \A k \in 1 .. Len(taskq[i]) : taskq[i][k] \in Ev
BY ElementOfSeq DEF TypeOK

\* What Parrot_schedule_event changes.
LEMMA ScheduleTypes ==
    ASSUME TInv, NEW e \in Ev, NEW rec \in EventRec, Parrot_schedule_event(e, rec)
    PROVE  /\ event' \in [Ev -> EventRec]
           /\ eventq' \in Seq(Ev)
           /\ evt' \in [pc : {"woken", "process", "enable", "put", "waiting", "destroy",
                              "stop_io", "stopped", "died"},
                        hand : Ev \cup {NoEv}]
           /\ evt'.hand = NoEv /\ evt'.pc \in {"woken", "destroy"}
<1>1. /\ EventMutexFree /\ event' = [event EXCEPT ![e] = rec] /\ WakeEventThread
      /\ eventq' = CASE rec.type \in {"TIMER", "SLEEP"} ->
                        Inserted(eventq, e, TimedEvents(event'), Due(event'))
                   [] rec.type = "CALL_BACK" -> Cons(e, eventq)
                   [] OTHER -> Append(eventq, e)
  BY DEF Parrot_schedule_event
<1>2. event' \in [Ev -> EventRec]
  BY <1>1 DEF TInv, TypeOK
<1>3. eventq' \in Seq(Ev)
  <2>1. eventq \in Seq(Ev)
    BY DEF TInv, TypeOK
  <2>2. Append(eventq, e) \in Seq(Ev) /\ Cons(e, eventq) \in Seq(Ev)
    BY <2>1, AppendInserts, ConsInserts DEF IsInsertion
  <2>3. Inserted(eventq, e, TimedEvents(event'), Due(event')) \in Seq(Ev)
    BY <2>1, InsertedInserts DEF IsInsertion
  <2> QED BY <1>1, <2>2, <2>3
<1>4. /\ evt' \in [pc : {"woken", "process", "enable", "put", "waiting", "destroy",
                              "stop_io", "stopped", "died"},
                        hand : Ev \cup {NoEv}]
      /\ evt'.hand = NoEv /\ evt'.pc \in {"woken", "destroy"}
  BY <1>1 DEF EventMutexFree, WakeEventThread, TInv, TypeOK, HandsFull
<1> QED BY <1>2, <1>3, <1>4

\* The sources of events keep the types.
LEMMA SchedulesTypes == ASSUME TInv, Schedules PROVE TInv'
<1> USE TimerAssumption
<1>1. ASSUME NEW i \in Interp, NEW tm \in Timer, NEW a \in TimerArgs, StartTimer(i, tm, a)
      PROVE  TInv'
  <2>1. NewEvent \in Ev
    BY <1>1, NewEventIsFree DEF StartTimer, Room
  <2>2. TimedEvent(i, "TIMER", tm, a) \in EventRec
    BY NewRecords DEF Type
  <2>3. starts' \in [Timer -> Nat] /\ running' \in [Timer -> BOOLEAN]
    BY <1>1 DEF StartTimer, TInv, TypeOK
  <2>4. credit' \in [Timer -> Int]
    <3>1. a.repeat \in Int /\ credit[tm] \in Int
      BY DEF TInv, TypeOK
    <3>2. credit[tm] + a.repeat + 1 \in Int
      BY <3>1
    <3> QED BY <1>1, <3>2 DEF StartTimer, TInv, TypeOK
  <2> QED BY <1>1, <2>1, <2>2, <2>3, <2>4, ScheduleTypes DEF StartTimer, TInv, TypeOK, HandsFull
<1>2. ASSUME NEW i \in Interp, NEW tm \in Timer, Parrot_del_timer_event(i, tm)
      PROVE  TInv'
  <2> DEFINE K == {k \in 1 .. Len(eventq) : IsTimerEntry(k, i, tm)}
  <2>1. event' \in [Ev -> EventRec]
    <3>1. CASE K = {}
      BY <1>2, <3>1 DEF Parrot_del_timer_event, TInv, TypeOK
    <3>2. CASE K # {}
      <4>1. event' = [event EXCEPT ![eventq[Min(K)]].interval = 0,
                                   ![eventq[Min(K)]].type = "NONE"]
        BY <1>2, <3>2 DEF Parrot_del_timer_event
      <4> DEFINE x == eventq[Min(K)]
                 r == [event[x] EXCEPT !.interval = 0, !.type = "NONE"]
      <4>2. x \in Ev
        BY <3>2, QueueOfEvents, MinIsLeast DEF TInv
      <4>3. r \in EventRec
        <5>1. event[x] \in EventRec
          BY <4>2 DEF TInv, TypeOK
        <5> HIDE DEF x
        <5> QED BY <5>1, ChangedRecords
      <4>4. event' = [event EXCEPT ![x] = r]
        BY <4>1, <4>2 DEF TInv, TypeOK
      <4> HIDE DEF r, x
      <4> QED BY <4>2, <4>3, <4>4 DEF TInv, TypeOK
    <3> QED BY <3>1, <3>2
  <2>2. Cardinality(InFlight(tm)) \in Int
    <3>1. InFlight(tm) \subseteq Ev
      BY DEF InFlight, TInv, TypeOK, ToSet
    <3> QED BY <3>1, EvFacts, FS_Subset, FS_CardinalityType
  <2>3. credit' \in [Timer -> Int]
    BY <1>2, <2>2 DEF Parrot_del_timer_event, TInv, TypeOK
  <2> QED BY <1>2, <2>1, <2>3 DEF Parrot_del_timer_event, TInv, TypeOK, HandsFull
<1>3. ASSUME NEW i \in Interp, NEW a \in TimerArgs, Alarm(i, a)
      PROVE  TInv'
  <2>1. NewEvent \in Ev
    BY <1>3, NewEventIsFree DEF Alarm, Room
  <2>2. TimedEvent(i, "TIMER", NoTimer, a) \in EventRec
    BY NewRecords DEF Type
  <2> QED BY <1>3, <2>1, <2>2, ScheduleTypes DEF Alarm, TInv, TypeOK, HandsFull, history
<1>4. ASSUME NEW i \in Interp, NEW t \in Naps, Parrot_sleep_on_event(i, t)
      PROVE  TInv'
  <2> DEFINE a == [diff |-> t, interval |-> 0, repeat |-> 0]
             f == [k |-> "sleep", term |-> FALSE, ev |-> NoEv, left |-> t]
  <2>1. NewEvent \in Ev
    BY <1>4, NewEventIsFree DEF Parrot_sleep_on_event, Room
  <2>2. TimedEvent(i, "SLEEP", NoTimer, a) \in EventRec
    BY NewRecords DEF Type
  <2>3. f \in Frame
    BY DEF Frame
  <2>4. frames' \in [Interp -> Seq(Frame)]
    <3>1. frames[i] \in Seq(Frame)
      BY DEF TInv, TypeOK
    <3>2. Append(frames[i], f) \in Seq(Frame)
      BY <2>3, <3>1
    <3>3. frames' = [frames EXCEPT ![i] = Append(frames[i], f)]
      BY <1>4 DEF Parrot_sleep_on_event, Push
    <3> QED BY <3>2, <3>3 DEF TInv, TypeOK
  <2>5. sleeping' \in [Interp -> BOOLEAN]
    BY <1>4 DEF Parrot_sleep_on_event, TInv, TypeOK
  <2> HIDE DEF f
  <2> QED BY <1>4, <2>1, <2>2, <2>4, <2>5, ScheduleTypes
          DEF Parrot_sleep_on_event, TInv, TypeOK, HandsFull, history
<1>5. ASSUME NEW i \in Interp, Parrot_new_cb_event(i)
      PROVE  TInv'
  <2>1. NewEvent \in Ev /\ UntimedEvent(i, "CALL_BACK") \in EventRec
    BY <1>5, NewEventIsFree, NewRecords DEF Parrot_new_cb_event, Room, Type
  <2> QED BY <1>5, <2>1, ScheduleTypes DEF Parrot_new_cb_event, TInv, TypeOK, HandsFull, history
<1>6. ASSUME NEW i \in Interp, Parrot_new_terminate_event(i)
      PROVE  TInv'
  <2>1. NewEvent \in Ev /\ UntimedEvent(i, "TERMINATE") \in EventRec
    BY <1>6, NewEventIsFree, NewRecords DEF Parrot_new_terminate_event, Room, Type
  <2> QED BY <1>6, <2>1, ScheduleTypes
          DEF Parrot_new_terminate_event, TInv, TypeOK, HandsFull, history
<1>7. ASSUME Parrot_kill_event_loop
      PROVE  TInv'
  <2>1. NewEvent \in Ev /\ UntimedEvent(NoInterp, "EVENT_TERMINATE") \in EventRec
    BY <1>7, NewEventIsFree, NewRecords DEF Parrot_kill_event_loop, Room, Type
  <2> QED BY <1>7, <2>1, ScheduleTypes
          DEF Parrot_kill_event_loop, TInv, TypeOK, HandsFull, history
<1> QED BY <1>1, <1>2, <1>3, <1>4, <1>5, <1>6, <1>7 DEF Schedules

\* Handing a task to an interpreter keeps the type of the task queues.
LEMMA PutTaskTypes ==
    ASSUME TypeOK, NEW e \in Ev, NEW i, PutTask(i, e)
    PROVE  taskq' \in [Interp -> Seq(Ev)]
<1> DEFINE s == IF event[e].type \in {"CALL_BACK", "SIGNAL"}
                THEN Cons(e, taskq[i]) ELSE Append(taskq[i], e)
<1>1. taskq' = [taskq EXCEPT ![i] = s]
  BY DEF PutTask
<1>2. CASE i \in Interp
  <2>1. taskq[i] \in Seq(Ev)
    BY <1>2 DEF TypeOK
  <2>2. s \in Seq(Ev)
    BY <2>1, AppendInserts, ConsInserts DEF IsInsertion
  <2> HIDE DEF s
  <2> QED BY <1>1, <2>2 DEF TypeOK
<1>3. CASE i \notin Interp
  BY <1>1, <1>3 DEF TypeOK
<1> QED BY <1>2, <1>3

\* process_events keeps the types.
LEMMA ProcessTypes == ASSUME TInv, process_events PROVE TInv'
<1> DEFINE e == Head(eventq)
           r == CountDown(event[e])
           n == NewEvent
           c == [r EXCEPT !.due = r.interval]
<1>1. /\ evt.pc = "process" /\ eventq # <<>>
      /\ UNCHANGED <<taskq, io, sig_int, checking, frames, sleeping, history>>
  BY DEF process_events
<1>2. e \in Ev /\ Tail(eventq) \in Seq(Ev)
  BY <1>1, HeadTailProperties DEF TInv, TypeOK
<1>3. event[e] \in EventRec /\ r \in EventRec
  BY <1>2, ChangedRecords DEF TInv, TypeOK
<1> HIDE DEF e
<1>4. event' \in [Ev -> EventRec] /\ eventq' \in Seq(Ev)
  <2>1. CASE event[e].timed /\ Repeats(event[e])
    <3>1. /\ Unallocated # {}
          /\ event' = [event EXCEPT ![e] = r, ![n] = c]
          /\ eventq' = Inserted(Tail(eventq), n, TimedEvents(event'), Due(event'))
      BY <2>1 DEF process_events, e
    <3>2. n \in Ev
      BY <3>1, NewEventIsFree
    <3>3. c \in EventRec
      <4>1. r.interval \in Int
        BY <1>3 DEF EventRec
      <4> HIDE DEF r
      <4> QED BY <1>3, <4>1, ChangedRecords
    <3> HIDE DEF r, c, n
    <3>4. event' \in [Ev -> EventRec]
      BY <1>2, <1>3, <3>1, <3>2, <3>3 DEF TInv, TypeOK
    <3>5. eventq' \in Seq(Ev)
      BY <1>2, <3>1, <3>2, InsertedInserts DEF IsInsertion
    <3> QED BY <3>4, <3>5
  <2>2. CASE ~ (event[e].timed /\ Repeats(event[e]))
    <3>1. /\ event' = IF event[e].type \in {"NONE", "EVENT_TERMINATE"}
                      THEN [event EXCEPT ![e] = FreeEvent] ELSE event
          /\ eventq' = Tail(eventq)
      BY <2>2 DEF process_events, e
    <3> QED BY <1>2, <3>1, NewRecords DEF TInv, TypeOK
  <2> QED BY <2>1, <2>2
<1>5. evt' = CASE event[e].type = "NONE" -> evt
               [] event[e].type = "EVENT_TERMINATE" -> [evt EXCEPT !.pc = "destroy"]
               [] OTHER -> [pc |-> "enable", hand |-> e]
  BY DEF process_events, e
<1>6. /\ evt' \in [pc : {"woken", "process", "enable", "put", "waiting", "destroy",
                         "stop_io", "stopped", "died"}, hand : Ev \cup {NoEv}]
      /\ \/ evt'.pc \in {"process", "destroy"} /\ evt'.hand = NoEv
         \/ evt'.pc = "enable" /\ evt'.hand = e
  <2>1. CASE event[e].type = "NONE"
    <3>1. evt' = evt
      BY <1>5, <2>1
    <3> QED BY <1>1, <3>1 DEF TInv, TypeOK, HandsFull
  <2>2. CASE event[e].type = "EVENT_TERMINATE"
    <3>1. evt' = [evt EXCEPT !.pc = "destroy"]
      BY <1>5, <2>2
    <3> QED BY <1>1, <3>1 DEF TInv, TypeOK, HandsFull
  <2>3. CASE event[e].type \notin {"NONE", "EVENT_TERMINATE"}
    BY <1>2, <1>5, <2>3
  <2> QED BY <2>1, <2>2, <2>3
<1>7. HandsFull'
  BY <1>1, <1>2, <1>6, EvFacts DEF TInv, HandsFull
<1> QED BY <1>1, <1>4, <1>6, <1>7 DEF TInv, TypeOK, history

\* The event thread keeps the types.
LEMMA EventThreadTypes == ASSUME TInv, EventThread PROVE TInv'
<1>1. CASE EventThreadLock
  BY <1>1 DEF EventThreadLock, TInv, TypeOK, HandsFull, history
<1>2. CASE EventThreadTimeout
  BY <1>2 DEF EventThreadTimeout, WakeEventThread, TInv, TypeOK, HandsFull, history
<1>3. CASE EventThreadWait
  BY <1>3 DEF EventThreadWait, TInv, TypeOK, HandsFull, history
<1>4. CASE EventThreadEnable
  <2>1. checking' \in [Interp -> BOOLEAN]
    BY <1>4 DEF EventThreadEnable, TInv, TypeOK
  <2> QED BY <1>4, <2>1 DEF EventThreadEnable, TInv, TypeOK, HandsFull, history
<1>5. CASE EventThreadPut
  <2>1. evt.hand \in Ev
    BY <1>5 DEF EventThreadPut, TInv, TypeOK, HandsFull
  <2>2. taskq' \in [Interp -> Seq(Ev)]
    BY <1>5, <2>1, PutTaskTypes DEF EventThreadPut, TInv
  <2> QED BY <1>5, <2>2 DEF EventThreadPut, TInv, TypeOK, HandsFull, history
<1>6. CASE EventThreadDestroy
  BY <1>6 DEF EventThreadDestroy, TInv, TypeOK, HandsFull, history
<1>7. CASE stop_io_thread
  <2>1. io' \in [pc : {"select", "eintr", "enable", "put", "stopped"},
                 todo : SUBSET Interp, hand : Ev \cup {NoEv}, msg : BOOLEAN]
        /\ io'.pc = io.pc /\ io'.hand = io.hand
    BY <1>7 DEF stop_io_thread, TInv, TypeOK
  <2>2. evt' \in [pc : {"woken", "process", "enable", "put", "waiting", "destroy",
                        "stop_io", "stopped", "died"}, hand : Ev \cup {NoEv}]
        /\ evt'.pc = "stopped" /\ evt'.hand = evt.hand
    BY <1>7 DEF stop_io_thread, TInv, TypeOK
  <2> QED BY <1>7, <2>1, <2>2 DEF stop_io_thread, TInv, TypeOK, HandsFull, history
<1> QED BY <1>1, <1>2, <1>3, <1>4, <1>5, <1>6, <1>7, ProcessTypes DEF EventThread

\* Signals and the IO thread keep the types.
LEMMA IoTypes == ASSUME TInv, sig_handler \/ IoThread PROVE TInv'
<1> DEFINE T == [pc : {"select", "eintr", "enable", "put", "stopped"},
                 todo : SUBSET Interp, hand : Ev \cup {NoEv}, msg : BOOLEAN]
<1>1. CASE sig_handler
  <2>1. io' \in T /\ (io'.pc = "put" <=> io.pc = "put") /\ io'.hand = io.hand
    BY <1>1 DEF sig_handler, TInv, TypeOK
  <2> QED BY <1>1, <2>1 DEF sig_handler, TInv, TypeOK, HandsFull, history
<1>2. CASE IoEintr
  <2>1. io' \in T /\ io'.pc # "put" /\ io'.hand = io.hand
    <3>1. io \in T
      BY DEF TInv, TypeOK
    <3>2. \/ io' = [io EXCEPT !.pc = "enable", !.todo = Interp]
          \/ io' = [io EXCEPT !.pc = "select"]
      BY <1>2 DEF IoEintr
    <3> QED BY <3>1, <3>2
  <2> QED BY <1>2, <2>1 DEF IoEintr, TInv, TypeOK, HandsFull, history
<1>3. ASSUME NEW i \in Interp, IoEnable(i) PROVE TInv'
  <2>1. NewEvent \in Ev /\ NewEvent # NoEv
    BY <1>3, NewEventIsFree, EvFacts DEF IoEnable, Room
  <2>2. UntimedEvent(i, "SIGNAL") \in EventRec
    BY NewRecords DEF Type
  <2>3. event' \in [Ev -> EventRec]
    BY <1>3, <2>1, <2>2 DEF IoEnable, TInv, TypeOK
  <2>4. checking' \in [Interp -> BOOLEAN]
    BY <1>3 DEF IoEnable, TInv, TypeOK
  <2>5. io' \in T /\ io'.pc = "put" /\ io'.hand = NewEvent
    BY <1>3, <2>1 DEF IoEnable, TInv, TypeOK
  <2> HIDE DEF T
  <2>6. UNCHANGED <<eventq, taskq, evt, sig_int, frames, sleeping, history>>
    BY <1>3 DEF IoEnable
  <2> QED BY <2>1, <2>3, <2>4, <2>5, <2>6 DEF TInv, TypeOK, HandsFull, history, T
<1>4. CASE IoPut
  <2>1. io.hand \in Ev
    BY <1>4 DEF IoPut, TInv, TypeOK, HandsFull
  <2>2. taskq' \in [Interp -> Seq(Ev)]
    BY <1>4, <2>1, PutTaskTypes DEF IoPut, TInv
  <2>3. io' \in T /\ io'.pc # "put" /\ io'.hand = NoEv
    BY <1>4 DEF IoPut, TInv, TypeOK
  <2> QED BY <1>4, <2>2, <2>3 DEF IoPut, TInv, TypeOK, HandsFull, history
<1>5. CASE IoStop
  <2>1. io' \in T /\ io'.pc # "put" /\ io'.hand = io.hand
    BY <1>5 DEF IoStop, TInv, TypeOK
  <2> QED BY <1>5, <2>1 DEF IoStop, TInv, TypeOK, HandsFull, history
<1> QED BY <1>1, <1>2, <1>3, <1>4, <1>5 DEF IoThread

-----------------------------------------------------------------------------
(***************************************************************************)
(* The C stacks of the interpreters.                                       *)
(***************************************************************************)
\* Removing the top of a stack leaves the frames below it.
LEMMA PopFrame ==
    ASSUME NEW fs \in Seq(Frame), fs # <<>>
    PROVE  LET n == Len(fs)
               o == SubSeq(fs, 1, n-1)
           IN  /\ n \in Nat \ {0} /\ n - 1 \in Nat
               /\ o \in Seq(Frame) /\ Len(o) = n - 1
               /\ \A k \in 1 .. n-1 : o[k] = fs[k] /\ o[k] \in Frame
<1>1. Len(fs) \in Nat \ {0}
  BY EmptySeq, LenProperties
<1>2. \A k \in 1 .. Len(fs) - 1 : fs[k] \in Frame
  BY <1>1, ElementOfSeq
<1>3. /\ Len(fs) - 1 \in Nat /\ 1 \in Int /\ Len(fs) - 1 \in Int
      /\ (Len(fs) - 1) - 1 + 1 = Len(fs) - 1
      /\ \A k \in 1 .. Len(fs) - 1 : 1 + k - 1 = k
  BY <1>1
<1> DEFINE o == SubSeq(fs, 1, Len(fs) - 1)
<1>4. /\ o \in Seq(Frame)
      /\ Len(o) = IF 1 <= Len(fs) - 1 THEN (Len(fs) - 1) - 1 + 1 ELSE 0
      /\ \A k \in 1 .. (Len(fs) - 1) - 1 + 1 : o[k] = fs[1 + k - 1]
  BY <1>2, <1>3, SubSeqProperties
<1> HIDE DEF o
<1>5. Len(o) = Len(fs) - 1
  <2>1. Len(o) = IF 1 <= Len(fs) - 1 THEN (Len(fs) - 1) - 1 + 1 ELSE 0
    BY <1>4
  <2>2. CASE 1 <= Len(fs) - 1
    BY <1>3, <2>1, <2>2
  <2>3. CASE ~ (1 <= Len(fs) - 1)
    <3>1. Len(o) = 0
      BY <2>1, <2>3
    <3>2. Len(fs) = 1
      <4>1. \A m \in Nat \ {0} : ~ (1 <= m - 1) => m = 1
        OBVIOUS
      <4> QED BY <1>1, <2>3, <4>1
    <3> QED BY <3>1, <3>2
  <2> QED BY <2>2, <2>3
<1>6. ASSUME NEW k \in 1 .. Len(fs) - 1 PROVE o[k] = fs[k]
  <2>1. k \in 1 .. (Len(fs) - 1) - 1 + 1 /\ 1 + k - 1 = k
    BY <1>1
  <2>2. o[k] = fs[1 + k - 1]
    BY <1>4, <2>1
  <2> QED BY <2>1, <2>2
<1> QED BY <1>1, <1>2, <1>3, <1>4, <1>5, <1>6 DEF o

\* Ending a run loop changes no other field of its frame.
LEMMA SetTerm ==
    ASSUME NEW fs \in Seq(Frame), NEW n \in Int, NEW b \in BOOLEAN,
           NEW g, g = [fs EXCEPT ![n].term = b]
    PROVE  /\ g \in Seq(Frame) /\ Len(g) = Len(fs)
           /\ \A k \in 1 .. Len(fs) :
                 g[k].ev = fs[k].ev /\ g[k].k = fs[k].k /\ g[k].left = fs[k].left
<1>1. /\ Len(fs) \in Nat /\ DOMAIN fs = 1 .. Len(fs)
      /\ \A k \in 1 .. Len(fs) : fs[k] \in Frame
  BY LenProperties, ElementOfSeq
<1>2. CASE n \in 1 .. Len(fs)
  <2> DEFINE f == [fs[n] EXCEPT !.term = b]
  <2>1. /\ f \in Frame /\ f.ev = fs[n].ev /\ f.k = fs[n].k /\ f.left = fs[n].left
    BY <1>1, <1>2 DEF Frame
  <2>2. g = [fs EXCEPT ![n] = f]
    OBVIOUS
  <2> HIDE DEF f
  <2>3. /\ g \in Seq(Frame) /\ Len(g) = Len(fs)
        /\ \A k \in 1 .. Len(fs) : g[k] = IF k = n THEN f ELSE fs[k]
    BY <1>2, <2>1, <2>2, ExceptSeq
  <2> QED BY <2>1, <2>3
<1>3. CASE n \notin 1 .. Len(fs)
  <2>1. g = fs
    BY <1>1, <1>3
  <2> QED BY <2>1
<1> QED BY <1>2, <1>3

\* Giving a frame its event, or taking it away, changes no other field.
LEMMA SetEv ==
    ASSUME NEW fs \in Seq(Frame), NEW n \in Int, NEW e \in Ev \cup {NoEv},
           NEW g, g = [fs EXCEPT ![n].ev = e]
    PROVE  /\ g \in Seq(Frame) /\ Len(g) = Len(fs)
           /\ \A k \in 1 .. Len(fs) :
                 /\ g[k].ev = IF k = n THEN e ELSE fs[k].ev
                 /\ g[k].k = fs[k].k /\ g[k].left = fs[k].left
<1>1. /\ Len(fs) \in Nat /\ DOMAIN fs = 1 .. Len(fs)
      /\ \A k \in 1 .. Len(fs) : fs[k] \in Frame
  BY LenProperties, ElementOfSeq
<1>2. CASE n \in 1 .. Len(fs)
  <2> DEFINE f == [fs[n] EXCEPT !.ev = e]
  <2>1. /\ f \in Frame /\ f.ev = e /\ f.k = fs[n].k /\ f.left = fs[n].left
    BY <1>1, <1>2 DEF Frame
  <2>2. g = [fs EXCEPT ![n] = f]
    OBVIOUS
  <2> HIDE DEF f
  <2>3. /\ g \in Seq(Frame) /\ Len(g) = Len(fs)
        /\ \A k \in 1 .. Len(fs) : g[k] = IF k = n THEN f ELSE fs[k]
    BY <1>2, <2>1, <2>2, ExceptSeq
  <2> QED BY <2>1, <2>3
<1>3. CASE n \notin 1 .. Len(fs)
  <2>1. g = fs
    BY <1>1, <1>3
  <2> QED BY <1>3, <2>1
<1> QED BY <1>2, <1>3

\* The frame at the top of a stack.
LEMMA TopFrame ==
    ASSUME TypeOK, NEW i \in Interp, frames[i] # <<>>
    PROVE  /\ frames[i] \in Seq(Frame) /\ Len(frames[i]) \in Nat \ {0}
           /\ Len(frames[i]) \in 1 .. Len(frames[i])
           /\ Top(i) = frames[i][Len(frames[i])] /\ Top(i) \in Frame
<1>1. frames[i] \in Seq(Frame)
  BY DEF TypeOK
<1>2. Len(frames[i]) \in Nat \ {0} /\ Len(frames[i]) \in 1 .. Len(frames[i])
  BY <1>1, EmptySeq
<1>3. frames[i][Len(frames[i])] \in Frame
  BY <1>1, <1>2, ElementOfSeq
<1> QED BY <1>1, <1>2, <1>3 DEF Top

\* The types of the stacks when one of them changes.
LEMMA OneStack ==
    ASSUME TypeOK, NEW i \in Interp, NEW fs \in Seq(Frame),
           frames' = [frames EXCEPT ![i] = fs]
    PROVE  frames' \in [Interp -> Seq(Frame)]
BY DEF TypeOK

\* A task that is popped leaves the types of the task queues.
LEMMA TakesTaskTypes ==
    ASSUME TypeOK, NEW i \in Interp, NEW type, TakesTask(i, type)
    PROVE  /\ Head(taskq[i]) \in Ev /\ taskq[i] # <<>> /\ frames[i] # <<>>
           /\ taskq' \in [Interp -> Seq(Ev)]
           /\ FreeTask(i) => event' \in [Ev -> EventRec]
<1>1. taskq[i] \in Seq(Ev) /\ taskq[i] # <<>> /\ frames[i] # <<>>
  BY DEF TypeOK, TakesTask
<1>2. Head(taskq[i]) \in Ev /\ Tail(taskq[i]) \in Seq(Ev)
  BY <1>1, HeadTailProperties
<1>3. taskq' \in [Interp -> Seq(Ev)]
  BY <1>2 DEF TypeOK, TakesTask
<1>4. FreeTask(i) => event' \in [Ev -> EventRec]
  BY <1>2, NewRecords DEF FreeTask, TypeOK
<1> QED BY <1>1, <1>2, <1>3, <1>4

\* What an interpreter does with its tasks keeps the types.
LEMMA HandlesTypes ==
    ASSUME TInv, NEW i \in Interp, HandlesTasks(i)
    PROVE  TInv'
<1>0. TypeOK
  BY DEF TInv
<1>1. CASE LoopEnds(i)
  <2> DEFINE fs == frames[i]
             n == Len(frames[i])
             o == SubSeq(frames[i], 1, n-1)
             g == [o EXCEPT ![n-1].term = o[n-1].term \/ fs[n].term]
  <2>1. frames[i] # <<>> /\ frames' = [frames EXCEPT ![i] = Returned(frames[i])]
    BY <1>1 DEF LoopEnds
  <2>2. n \in Nat \ {0} /\ n-1 \in Nat /\ o \in Seq(Frame)
    BY <1>0, <2>1, TopFrame, PopFrame
  <2>3. Returned(frames[i]) = g
    BY DEF Returned
  <2>4. g \in Seq(Frame)
    <3> DEFINE b == o[n-1].term \/ fs[n].term
    <3>1. b \in BOOLEAN /\ n-1 \in Int
      BY <2>2
    <3> HIDE DEF b, o, n
    <3> QED BY <2>2, <3>1, SetTerm DEF b
  <2> HIDE DEF g
  <2>5. frames' \in [Interp -> Seq(Frame)]
    BY <1>0, <2>1, <2>3, <2>4, OneStack
  <2> QED BY <1>1, <2>5 DEF LoopEnds, TInv, TypeOK, HandsFull, history
<1>2. CASE DoSleep(i)
  <2>1. taskq' \in [Interp -> Seq(Ev)] /\ event' \in [Ev -> EventRec]
    BY <1>0, <1>2, TakesTaskTypes DEF DoSleep
  <2>2. sleeping' \in [Interp -> BOOLEAN]
    BY <1>0, <1>2 DEF DoSleep, TypeOK
  <2> QED BY <1>2, <2>1, <2>2 DEF DoSleep, TInv, TypeOK, HandsFull, history
<1>3. CASE DoTerminate(i)
  <2>1. /\ taskq' \in [Interp -> Seq(Ev)] /\ event' \in [Ev -> EventRec]
        /\ frames[i] # <<>>
    BY <1>0, <1>3, TakesTaskTypes DEF DoTerminate
  <2>2. frames' \in [Interp -> Seq(Frame)]
    <3> DEFINE g == [frames[i] EXCEPT ![Len(frames[i])].term = TRUE]
    <3>1. frames[i] \in Seq(Frame) /\ Len(frames[i]) \in Int
      BY <1>0, <2>1, TopFrame
    <3>2. g \in Seq(Frame)
      BY <3>1, SetTerm
    <3>3. frames' = [frames EXCEPT ![i] = g]
      BY <1>0, <1>3 DEF DoTerminate, TypeOK
    <3> HIDE DEF g
    <3> QED BY <1>0, <3>2, <3>3, OneStack
  <2> QED BY <1>3, <2>1, <2>2 DEF DoTerminate, TInv, TypeOK, HandsFull, history
<1>4. CASE DoHandler(i)
  <2>1. /\ taskq' \in [Interp -> Seq(Ev)] /\ Head(taskq[i]) \in Ev
        /\ frames[i] # <<>>
    BY <1>0, <1>4, TakesTaskTypes DEF DoHandler
  <2>2. frames' \in [Interp -> Seq(Frame)]
    <3> DEFINE g == [frames[i] EXCEPT ![Len(frames[i])].ev = Head(taskq[i])]
    <3>1. frames[i] \in Seq(Frame) /\ Len(frames[i]) \in Int
      BY <1>0, <2>1, TopFrame
    <3>2. g \in Seq(Frame)
      BY <2>1, <3>1, SetEv
    <3>3. frames' = [frames EXCEPT ![i] = Append(g, RunFrame)]
      BY <1>4 DEF DoHandler
    <3> HIDE DEF g
    <3>4. Append(g, RunFrame) \in Seq(Frame)
      BY <3>2, NewRecords
    <3> QED BY <1>0, <3>3, <3>4, OneStack
  <2>3. credit' \in [Timer -> Int]
    <3>1. \A tm \in Timer : credit[tm] \in Int /\ credit[tm] - 1 \in Int
      BY <1>0 DEF TypeOK
    <3> QED BY <1>4, <3>1 DEF DoHandler
  <2>4. UNCHANGED <<event, eventq, evt, io, sig_int, checking, sleeping, starts, running>>
    BY <1>4 DEF DoHandler
  <2> QED BY <2>1, <2>2, <2>3, <2>4 DEF TInv, TypeOK, HandsFull
<1>5. CASE DoSignal(i)
  <2> DEFINE o == SubSeq(frames[i], 1, Len(frames[i]) - 1)
  <2>1. /\ taskq' \in [Interp -> Seq(Ev)] /\ Head(taskq[i]) \in Ev
        /\ frames[i] # <<>>
    BY <1>0, <1>5, TakesTaskTypes DEF DoSignal
  <2>2. sleeping' \in [Interp -> BOOLEAN]
    BY <1>0, <1>5 DEF DoSignal, TypeOK
  <2>3. o \in Seq(Frame) /\ Len(o) \in Int
    BY <1>0, <2>1, TopFrame, PopFrame
  <2>4. /\ \/ frames' = [frames EXCEPT ![i] = o] /\ UNCHANGED evt
           \/ /\ frames' = [frames EXCEPT ![i] = [o EXCEPT ![Len(o)].term = TRUE]]
              /\ UNCHANGED evt
           \/ evt' = [evt EXCEPT !.pc = "died"] /\ UNCHANGED frames
        /\ UNCHANGED <<event, eventq, io, sig_int, checking, history>>
    BY <1>5 DEF DoSignal
  <2>5. [o EXCEPT ![Len(o)].term = TRUE] \in Seq(Frame)
    <3> HIDE DEF o
    <3> QED BY <2>3, SetTerm
  <2> HIDE DEF o
  <2>6. frames' \in [Interp -> Seq(Frame)]
    BY <1>0, <2>3, <2>4, <2>5, OneStack DEF TypeOK
  <2>7. /\ evt' \in [pc : {"woken", "process", "enable", "put", "waiting", "destroy",
                           "stop_io", "stopped", "died"}, hand : Ev \cup {NoEv}]
        /\ evt'.pc = "died" \/ evt' = evt
    BY <1>0, <2>4 DEF TypeOK
  <2>8. HandsFull'
    BY <2>4, <2>7 DEF HandsFull, TInv
  <2> QED BY <1>0, <2>1, <2>2, <2>4, <2>6, <2>7, <2>8 DEF TInv, TypeOK, history
<1> QED BY <1>1, <1>2, <1>3, <1>4, <1>5 DEF HandlesTasks

\* The interpreters keep the types.
LEMMA InterpretersTypes == ASSUME TInv, Interpreters PROVE TInv'
<1>0. TypeOK
  BY DEF TInv
<1> DEFINE h == [RunFrame EXCEPT !.k = "handle"]
<1>1. h \in Frame
  BY DEF RunFrame, Frame
<1> HIDE DEF h
<1>2. ASSUME NEW i \in Interp, CheckEvents(i) PROVE TInv'
  <2>1. frames' = [frames EXCEPT ![i] = Append(frames[i], h)]
    BY <1>2 DEF CheckEvents, Push, h
  <2>2. Append(frames[i], h) \in Seq(Frame)
    BY <1>0, <1>1 DEF TypeOK
  <2>3. frames' \in [Interp -> Seq(Frame)]
    BY <1>0, <2>1, <2>2, OneStack
  <2>4. checking' \in [Interp -> BOOLEAN]
    BY <1>0, <1>2 DEF CheckEvents, TypeOK
  <2> QED BY <1>2, <2>3, <2>4 DEF CheckEvents, TInv, TypeOK, HandsFull, history
<1>3. ASSUME NEW i \in Interp, Parrot_do_check_events(i) PROVE TInv'
  <2>1. frames' = [frames EXCEPT ![i] = Append(frames[i], h)]
    BY <1>3 DEF Parrot_do_check_events, Push, h
  <2>2. Append(frames[i], h) \in Seq(Frame)
    BY <1>0, <1>1 DEF TypeOK
  <2>3. frames' \in [Interp -> Seq(Frame)]
    BY <1>0, <2>1, <2>2, OneStack
  <2> QED BY <1>3, <2>3 DEF Parrot_do_check_events, TInv, TypeOK, HandsFull, history
<1>4. ASSUME NEW i \in Interp, RunLoopEnds(i) PROVE TInv'
  <2> DEFINE n == Len(frames[i])
             o == SubSeq(frames[i], 1, n-1)
  <2>1. frames[i] # <<>>
    BY <1>4 DEF RunLoopEnds
  <2>2. o \in Seq(Frame) /\ n-1 \in Int
    BY <1>0, <2>1, TopFrame, PopFrame
  <2>3. [o EXCEPT ![n-1].ev = NoEv] \in Seq(Frame)
    <3> HIDE DEF o, n
    <3> QED BY <2>2, SetEv
  <2>4. frames' \in [Interp -> Seq(Frame)]
    <3>1. CASE n = 1
      <4>1. <<>> \in Seq(Frame) /\ frames' = [frames EXCEPT ![i] = <<>>]
        BY <1>4, <3>1 DEF RunLoopEnds
      <4> QED BY <1>0, <4>1, OneStack
    <3>2. CASE n # 1
      <4>1. frames' = [frames EXCEPT ![i] = [o EXCEPT ![n-1].ev = NoEv]]
        BY <1>4, <3>2 DEF RunLoopEnds
      <4> QED BY <1>0, <2>3, <4>1, OneStack
    <3> QED BY <3>1, <3>2
  <2>5. event' \in [Ev -> EventRec]
    BY <1>0, <1>4, NewRecords DEF RunLoopEnds, TypeOK
  <2> QED BY <1>4, <2>4, <2>5 DEF RunLoopEnds, TInv, TypeOK, HandsFull, history
<1> QED BY <1>2, <1>3, <1>4, HandlesTypes DEF Interpreters

\* What a unit of time does to the events and to the stacks.
LEMMA TickEffect ==
    ASSUME TypeOK, Tick
    PROVE  /\ event' \in [Ev -> EventRec]
           /\ \A e \in Ev :
                 /\ \A f \in {"type", "interp", "data", "interval", "repeat", "timed"} :
                       event'[e][f] = event[e][f]
                 /\ event'[e].due = IF In(e, eventq) /\ event[e].timed
                                    THEN Elapse(event[e].due) ELSE event[e].due
           /\ frames' \in [Interp -> Seq(Frame)]
           /\ \A i \in Interp :
                 /\ Len(frames'[i]) = Len(frames[i])
                 /\ \A n \in 1 .. Len(frames[i]) :
                       /\ frames'[i][n].ev = frames[i][n].ev
                       /\ frames'[i][n].k = frames[i][n].k
                       /\ frames'[i][n].term = frames[i][n].term
                       /\ frames'[i][n].left = IF frames[i][n].left > 0
                                               THEN frames[i][n].left - 1 ELSE 0
<1>1. ASSUME NEW e \in Ev PROVE e \in ToSet(eventq) <=> In(e, eventq)
  <2>1. DOMAIN eventq = 1 .. Len(eventq)
    BY LenProperties DEF TypeOK
  <2> QED BY <2>1 DEF ToSet, In
<1>2. event' = [e \in Ev |-> IF In(e, eventq) /\ event[e].timed
                             THEN [event[e] EXCEPT !.due = Elapse(event[e].due)]
                             ELSE event[e]]
  BY <1>1 DEF Tick
<1>3. ASSUME NEW e \in Ev
      PROVE  /\ event'[e] \in EventRec
             /\ \A f \in {"type", "interp", "data", "interval", "repeat", "timed"} :
                   event'[e][f] = event[e][f]
             /\ event'[e].due = IF In(e, eventq) /\ event[e].timed
                                THEN Elapse(event[e].due) ELSE event[e].due
  <2> DEFINE r == event[e]
             d == Elapse(r.due)
  <2>1. r \in EventRec /\ r.due \in Int
    BY DEF TypeOK, EventRec
  <2>2. d \in Int
    BY <2>1 DEF Elapse
  <2>3. event'[e] = IF In(e, eventq) /\ r.timed THEN [r EXCEPT !.due = d] ELSE r
    BY <1>2
  <2> HIDE DEF r, d
  <2>4. /\ [r EXCEPT !.due = d] \in EventRec
        /\ \A f \in {"type", "interp", "data", "interval", "repeat", "timed"} :
              [r EXCEPT !.due = d][f] = r[f]
        /\ [r EXCEPT !.due = d].due = d
    BY <2>1, <2>2 DEF EventRec
  <2>5. CASE In(e, eventq) /\ r.timed
    BY <2>3, <2>4, <2>5 DEF r, d
  <2>6. CASE ~ (In(e, eventq) /\ r.timed)
    BY <2>1, <2>3, <2>6 DEF r, d
  <2> QED BY <2>5, <2>6
<1>4. event' \in [Ev -> EventRec]
  BY <1>2, <1>3
<1>5. ASSUME NEW i \in Interp
      PROVE  /\ frames'[i] \in Seq(Frame)
             /\ Len(frames'[i]) = Len(frames[i])
             /\ \A n \in 1 .. Len(frames[i]) :
                   /\ frames'[i][n].ev = frames[i][n].ev
                   /\ frames'[i][n].k = frames[i][n].k
                   /\ frames'[i][n].term = frames[i][n].term
                   /\ frames'[i][n].left = IF frames[i][n].left > 0
                                           THEN frames[i][n].left - 1 ELSE 0
  <2> DEFINE s == frames[i]
             t(f) == [f EXCEPT !.left = IF f.left > 0 THEN f.left - 1 ELSE 0]
  <2>1. s \in Seq(Frame) /\ Len(s) \in Nat /\ DOMAIN s = 1 .. Len(s)
    BY LenProperties DEF TypeOK
  <2>2. frames'[i] = [n \in 1 .. Len(s) |-> t(s[n])]
    BY <2>1 DEF Tick
  <2>3. \A f \in Frame : /\ t(f) \in Frame /\ t(f).ev = f.ev /\ t(f).k = f.k
                         /\ t(f).term = f.term
                         /\ t(f).left = IF f.left > 0 THEN f.left - 1 ELSE 0
    <3> TAKE f \in Frame
    <3> DEFINE v == IF f.left > 0 THEN f.left - 1 ELSE 0
    <3>1. f.left \in Nat
      BY DEF Frame
    <3>2. v \in Nat
      BY <3>1
    <3> HIDE DEF v
    <3>3. /\ [f EXCEPT !.left = v] \in Frame /\ [f EXCEPT !.left = v].ev = f.ev
          /\ [f EXCEPT !.left = v].k = f.k /\ [f EXCEPT !.left = v].term = f.term
          /\ [f EXCEPT !.left = v].left = v
      BY <3>2 DEF Frame
    <3> QED BY <3>3 DEF v
  <2>4. \A n \in 1 .. Len(s) : s[n] \in Frame
    BY <2>1, ElementOfSeq
  <2> HIDE DEF t, s
  <2>5. frames'[i] \in [1 .. Len(s) -> Frame]
    BY <2>2, <2>3, <2>4
  <2>6. frames'[i] \in Seq(Frame) /\ Len(frames'[i]) = Len(s)
    BY <2>1, <2>5
  <2>7. \A n \in 1 .. Len(s) : frames'[i][n] = t(s[n])
    BY <2>2
  <2> QED BY <2>3, <2>4, <2>6, <2>7 DEF s
<1>6. frames' \in [Interp -> Seq(Frame)]
  <2>1. frames' = [i \in Interp |-> frames'[i]]
    BY DEF Tick
  <2> QED BY <1>5, <2>1
<1> QED BY <1>3, <1>4, <1>5, <1>6

\* Initially everything has its type.
LEMMA InitTypes == Init => TInv
<1> SUFFICES ASSUME Init PROVE TInv
  OBVIOUS
<1>1. event \in [Ev -> EventRec] /\ frames \in [Interp -> Seq(Frame)]
  <2>1. <<RunFrame>> \in Seq(Frame)
    BY NewRecords
  <2> QED BY <2>1, NewRecords DEF Init
<1>2. eventq \in Seq(Ev) /\ taskq \in [Interp -> Seq(Ev)]
  BY DEF Init
<1>3. /\ evt \in [pc : {"woken", "process", "enable", "put", "waiting", "destroy",
                       "stop_io", "stopped", "died"}, hand : Ev \cup {NoEv}]
      /\ io \in [pc : {"select", "eintr", "enable", "put", "stopped"},
                 todo : SUBSET Interp, hand : Ev \cup {NoEv}, msg : BOOLEAN]
      /\ HandsFull
  BY DEF Init, HandsFull
<1>4. /\ sig_int \in BOOLEAN /\ checking \in [Interp -> BOOLEAN]
      /\ sleeping \in [Interp -> BOOLEAN] /\ starts \in [Timer -> Nat]
      /\ running \in [Timer -> BOOLEAN] /\ credit \in [Timer -> Int]
  <2>1. sig_int \in BOOLEAN /\ checking \in [Interp -> BOOLEAN]
    BY DEF Init
  <2>2. sleeping \in [Interp -> BOOLEAN] /\ running \in [Timer -> BOOLEAN]
    BY DEF Init
  <2>3. starts \in [Timer -> Nat] /\ credit \in [Timer -> Int]
    BY DEF Init
  <2> QED BY <2>1, <2>2, <2>3
<1> QED BY <1>1, <1>2, <1>3, <1>4 DEF TInv, TypeOK

\* Every step keeps the types.
LEMMA NextTypes == TInv /\ [Next]_vars => TInv'
<1> SUFFICES ASSUME TInv, [Next]_vars PROVE TInv'
  OBVIOUS
<1>1. CASE Tick
  BY <1>1, TickEffect DEF Tick, TInv, TypeOK, HandsFull, history
<1>2. CASE UNCHANGED vars
  BY <1>2 DEF vars, TInv, TypeOK, HandsFull
<1> QED BY <1>1, <1>2, SchedulesTypes, EventThreadTypes, IoTypes, InterpretersTypes
        DEF Next

\* Type correctness of the event system, for every program, any number of
\* interpreters and timers, and whatever their arguments are.
THEOREM TypeCorrect == Spec => []TypeOK
<1>1. TInv => TypeOK
  BY DEF TInv
<1> QED BY <1>1, InitTypes, NextTypes, PTL DEF Spec

-----------------------------------------------------------------------------
(***************************************************************************)
(* Ownership.  An event has one holder, which is named for every event by  *)
(* the function w; the interpreter whose task or handler an event is, is   *)
(* the one of the event itself.                                            *)
(***************************************************************************)
Holder == {"nobody", "event_queue", "event_thread", "task_queue", "do_event",
           "io_thread"}

\* A function on the stack fs has popped e and runs its handler
Serves(e, fs) == \E k \in 1 .. Len(fs) : fs[k].ev = e

\* An event is on the stack once, below the run loop of its handler
StackOK(fs) ==
    /\ \A k \in 1 .. Len(fs) : fs[k].ev # NoEv => k < Len(fs) /\ fs[k+1].k = "run"
    /\ \A j, k \in 1 .. Len(fs) : fs[j].ev = fs[k].ev /\ fs[j].ev # NoEv => j = k

QueuesOK ==
    /\ Once(eventq)
    /\ \A i \in Interp : Once(taskq[i]) /\ StackOK(frames[i])

\* What the type of an event says of its other fields
RecOK(r) ==
    /\ r.type \notin {"FREE", "EVENT_TERMINATE"} => r.interp \in Interp
    /\ r.type = "NONE" => r.interval = 0
    /\ r.type = "EVENT_TERMINATE" => ~ r.timed

EventsOK == \A e \in Ev : RecOK(event[e])

OwnedBy(w) ==
    /\ w \in [Ev -> Holder]
    /\ \A e \in Ev :
          /\ In(e, eventq) <=> w[e] = "event_queue"
          /\ evt.hand = e <=> w[e] = "event_thread"
          /\ io.hand = e <=> w[e] = "io_thread"
          /\ event[e].type = "FREE" => w[e] = "nobody"
          /\ w[e] = "nobody" => event[e].type \in {"FREE", "SIGNAL"}
          /\ event[e].type \in {"NONE", "EVENT_TERMINATE"} => w[e] = "event_queue"
    /\ \A e \in Ev, i \in Interp :
          /\ In(e, taskq[i]) <=> w[e] = "task_queue" /\ event[e].interp = i
          /\ Serves(e, frames[i]) <=> w[e] = "do_event" /\ event[e].interp = i

OInv == QueuesOK /\ EventsOK /\ \E w : OwnedBy(w)

\* Only events and the kinds of frames matter for a stack.
LEMMA StackSame ==
    ASSUME NEW fs \in Seq(Frame), NEW g \in Seq(Frame), StackOK(fs), Len(g) = Len(fs),
           \A k \in 1 .. Len(fs) : g[k].ev = fs[k].ev /\ g[k].k = fs[k].k
    PROVE  StackOK(g) /\ \A e : Serves(e, g) <=> Serves(e, fs)
<1>1. Len(fs) \in Nat
  BY LenProperties
<1>2. \A k \in 1 .. Len(fs) : k < Len(fs) => k + 1 \in 1 .. Len(fs)
  BY <1>1
<1> DEFINE n == Len(fs)
<1>3. /\ \A k \in 1 .. n : fs[k].ev # NoEv => k < n /\ fs[k+1].k = "run"
      /\ \A j, k \in 1 .. n : fs[j].ev = fs[k].ev /\ fs[j].ev # NoEv => j = k
  BY DEF StackOK
<1>4. Len(g) = n /\ \A k \in 1 .. n : k < n => k + 1 \in 1 .. n
  BY <1>2
<1>5. \A k \in 1 .. n : g[k].ev = fs[k].ev /\ g[k].k = fs[k].k
  OBVIOUS
<1> HIDE DEF n
<1>6. \A k \in 1 .. n : g[k].ev # NoEv => k < n /\ g[k+1].k = "run"
  BY <1>3, <1>4, <1>5
<1>7. \A j, k \in 1 .. n : g[j].ev = g[k].ev /\ g[j].ev # NoEv => j = k
  BY <1>3, <1>5
<1>8. StackOK(g)
  BY <1>4, <1>6, <1>7 DEF StackOK
<1>9. \A e : Serves(e, g) <=> Serves(e, fs)
  BY <1>4, <1>5 DEF Serves, n
<1> QED BY <1>8, <1>9

\* The top of a stack serves no event.
LEMMA TopServesNone ==
    ASSUME NEW fs \in Seq(Frame), StackOK(fs), fs # <<>>
    PROVE  fs[Len(fs)].ev = NoEv
<1>1. Len(fs) \in Nat \ {0} /\ Len(fs) \in 1 .. Len(fs) /\ ~ (Len(fs) < Len(fs))
  BY LenProperties, EmptySeq
<1> QED BY <1>1 DEF StackOK

\* A function that is called has popped no event yet.
LEMMA StackPush ==
    ASSUME NEW fs \in Seq(Frame), NEW f \in Frame, StackOK(fs), f.ev = NoEv
    PROVE  /\ StackOK(Append(fs, f))
           /\ \A e \in Ev : Serves(e, Append(fs, f)) <=> Serves(e, fs)
<1> DEFINE g == Append(fs, f)
<1>1. /\ Len(fs) \in Nat /\ Len(g) = Len(fs) + 1
      /\ \A k \in 1 .. Len(fs) : g[k] = fs[k]
      /\ g[Len(fs) + 1] = f
  BY LenProperties, AppendProperties
<1> HIDE DEF g
<1>2. ASSUME NEW k \in 1 .. Len(g), g[k].ev # NoEv
      PROVE  k \in 1 .. Len(fs) /\ fs[k].ev # NoEv /\ g[k] = fs[k]
  <2>1. k # Len(fs) + 1
    BY <1>1, <1>2
  <2>2. k \in 1 .. Len(fs)
    BY <1>1, <2>1
  <2> QED BY <1>1, <1>2, <2>2
<1>3. ASSUME NEW k \in 1 .. Len(g), g[k].ev # NoEv
      PROVE  k < Len(g) /\ g[k+1].k = "run"
  <2>1. k \in 1 .. Len(fs) /\ k < Len(fs) /\ fs[k+1].k = "run"
    BY <1>2, <1>3 DEF StackOK
  <2>2. k + 1 \in 1 .. Len(fs)
    BY <1>1, <2>1
  <2> QED BY <1>1, <2>1, <2>2
<1>4. StackOK(g)
  BY <1>2, <1>3 DEF StackOK
<1>5. ASSUME NEW e \in Ev PROVE Serves(e, g) <=> Serves(e, fs)
  <2>1. e # NoEv
    BY EvFacts
  <2>2. Serves(e, g) => Serves(e, fs)
    BY <1>2, <2>1 DEF Serves
  <2>3. Serves(e, fs) => Serves(e, g)
    <3>1. 1 .. Len(fs) \subseteq 1 .. Len(g)
      BY <1>1
    <3> QED BY <1>1, <3>1 DEF Serves
  <2> QED BY <2>2, <2>3
<1> QED BY <1>4, <1>5 DEF g

\* A function that returns serves no event, and neither does the run loop
\* that called it.
LEMMA StackPop ==
    ASSUME NEW fs \in Seq(Frame), StackOK(fs), fs # <<>>, fs[Len(fs)].k # "run"
    PROVE  LET o == SubSeq(fs, 1, Len(fs) - 1)
           IN  StackOK(o) /\ \A e \in Ev : Serves(e, o) <=> Serves(e, fs)
<1> DEFINE n == Len(fs)
           o == SubSeq(fs, 1, n - 1)
<1>1. /\ n \in Nat \ {0} /\ n - 1 \in Nat /\ Len(o) = n - 1
      /\ \A k \in 1 .. n-1 : o[k] = fs[k]
  BY PopFrame
<1>2. fs[n].ev = NoEv
  BY TopServesNone
<1> HIDE DEF o
<1>3. ASSUME NEW k \in 1 .. n, fs[k].ev # NoEv
      PROVE  k < n - 1 /\ k \in 1 .. n-1 /\ k+1 \in 1 .. n-1 /\ fs[k+1].k = "run"
  <2>1. k < n /\ fs[k+1].k = "run"
    BY <1>3 DEF StackOK
  <2>2. k + 1 # n
    BY <2>1
  <2> QED BY <1>1, <2>1, <2>2
<1>4. StackOK(o)
  <2>1. 1 .. Len(o) \subseteq 1 .. n
    BY <1>1
  <2> QED BY <1>1, <1>3, <2>1 DEF StackOK
<1>5. ASSUME NEW e \in Ev PROVE Serves(e, o) <=> Serves(e, fs)
  <2>1. e # NoEv /\ 1 .. Len(o) \subseteq 1 .. n
    BY <1>1, EvFacts
  <2> QED BY <1>1, <1>3, <2>1 DEF Serves
<1> QED BY <1>4, <1>5 DEF o

\* do_event runs the handler of e in a run loop.
Handles(fs, e) == Append([fs EXCEPT ![Len(fs)].ev = e], RunFrame)

LEMMA StackHandler ==
    ASSUME NEW fs \in Seq(Frame), StackOK(fs), fs # <<>>, NEW e \in Ev,
           ~ Serves(e, fs)
    PROVE  LET g == Handles(fs, e) IN
           StackOK(g) /\ \A x \in Ev : Serves(x, g) <=> x = e \/ Serves(x, fs)
<1> DEFINE n == Len(fs)
           m == [fs EXCEPT ![n].ev = e]
           g == Handles(fs, e)
<1>1. n \in Nat \ {0} /\ n \in 1 .. n /\ n \in Int
  BY LenProperties, EmptySeq
<1>2. /\ m \in Seq(Frame) /\ Len(m) = n
      /\ \A k \in 1 .. n : /\ m[k].ev = IF k = n THEN e ELSE fs[k].ev
                           /\ m[k].k = fs[k].k
  <2>1. m = [fs EXCEPT ![n].ev = e] /\ e \in Ev \cup {NoEv}
    OBVIOUS
  <2>2. n \in Int
    BY <1>1
  <2> HIDE DEF m, n
  <2>3. m \in Seq(Frame)
    BY <2>1, <2>2, SetEv
  <2>4. Len(m) = Len(fs)
    BY <2>1, <2>2, SetEv
  <2>5. \A k \in 1 .. Len(fs) : /\ m[k].ev = IF k = n THEN e ELSE fs[k].ev
                                /\ m[k].k = fs[k].k /\ m[k].left = fs[k].left
    BY <2>1, <2>2, SetEv
  <2> QED BY <2>3, <2>4, <2>5 DEF n
<1>3. g = Append(m, RunFrame) /\ RunFrame \in Frame
  BY NewRecords DEF Handles
<1> HIDE DEF m, g
<1>4. /\ Len(g) = n + 1 /\ g[n+1] = RunFrame /\ \A k \in 1 .. n : g[k] = m[k]
  <2>1. /\ Len(Append(m, RunFrame)) = Len(m) + 1
        /\ \A k \in 1 .. Len(m) : Append(m, RunFrame)[k] = m[k]
        /\ Append(m, RunFrame)[Len(m) + 1] = RunFrame
    BY <1>2, <1>3, AppendProperties
  <2>2. Len(m) = n
    BY <1>2
  <2> QED BY <1>3, <2>1, <2>2
<1>5. RunFrame.ev = NoEv /\ RunFrame.k = "run" /\ e # NoEv /\ fs[n].ev = NoEv
  BY TopServesNone, EvFacts DEF RunFrame
<1>6. ASSUME NEW k \in 1 .. n+1, g[k].ev # NoEv
      PROVE  /\ k \in 1 .. n /\ g[k].ev = IF k = n THEN e ELSE fs[k].ev
             /\ k < n + 1 /\ g[k+1].k = "run"
  <2>1. k \in 1 .. n
    BY <1>1, <1>4, <1>5, <1>6
  <2>2. g[k].ev = IF k = n THEN e ELSE fs[k].ev
    BY <1>2, <1>4, <2>1
  <2>3. CASE k = n
    BY <1>1, <1>4, <1>5, <2>1, <2>2, <2>3
  <2>4. CASE k # n
    <3>1. k + 1 \in 1 .. n
      BY <1>1, <2>1, <2>4
    <3>2. fs[k+1].k = "run"
      BY <1>6, <2>1, <2>2, <2>4 DEF StackOK
    <3> QED BY <1>1, <1>2, <1>4, <2>1, <2>2, <3>1, <3>2
  <2> QED BY <2>3, <2>4
<1>7. ASSUME NEW j \in 1 .. n+1, NEW k \in 1 .. n+1, g[j].ev = g[k].ev, g[j].ev # NoEv
      PROVE  j = k
  <2>1. /\ j \in 1 .. n /\ g[j].ev = IF j = n THEN e ELSE fs[j].ev
        /\ k \in 1 .. n /\ g[k].ev = IF k = n THEN e ELSE fs[k].ev
    BY <1>6, <1>7
  <2>2. CASE j = n \/ k = n
    BY <1>7, <2>1, <2>2 DEF Serves
  <2>3. CASE j # n /\ k # n
    BY <1>7, <2>1, <2>3 DEF StackOK
  <2> QED BY <2>2, <2>3
<1>8. StackOK(g)
  BY <1>4, <1>6, <1>7 DEF StackOK
<1>9. ASSUME NEW x \in Ev PROVE Serves(x, g) <=> x = e \/ Serves(x, fs)
  <2>1. x # NoEv
    BY EvFacts
  <2>2. ASSUME Serves(x, g) PROVE x = e \/ Serves(x, fs)
    BY <1>4, <1>6, <2>1, <2>2 DEF Serves
  <2>3. Serves(e, g)
    <3>1. n \in 1 .. n+1 /\ g[n].ev = e
      BY <1>1, <1>2, <1>4
    <3> QED BY <1>4, <3>1 DEF Serves
  <2>4. ASSUME Serves(x, fs) PROVE Serves(x, g)
    <3>1. PICK k \in 1 .. n : fs[k].ev = x
      BY <2>4 DEF Serves
    <3>2. k # n /\ k \in 1 .. n+1
      BY <1>1, <1>5, <2>1, <3>1
    <3>3. g[k].ev = x
      BY <1>2, <1>4, <3>1, <3>2
    <3> QED BY <1>4, <3>2, <3>3 DEF Serves
  <2> QED BY <2>2, <2>3, <2>4
<1> QED BY <1>8, <1>9 DEF g

\* g is the stack fs with the event of its n-th frame cleared
Cleared(g, fs, n) ==
    /\ Len(g) = Len(fs)
    /\ \A k \in 1 .. Len(fs) : /\ g[k].ev = IF k = n THEN NoEv ELSE fs[k].ev
                               /\ g[k].k = fs[k].k

\* do_event clears the event of its frame when the handler has returned.
LEMMA ClearEv ==
    ASSUME NEW fs \in Seq(Frame), NEW n \in Int, NEW g, g = [fs EXCEPT ![n].ev = NoEv]
    PROVE  Cleared(g, fs, n)
<1>1. NoEv \in Ev \cup {NoEv}
  OBVIOUS
<1>2. Len(g) = Len(fs)
  BY <1>1, SetEv
<1>3. \A k \in 1 .. Len(fs) : /\ g[k].ev = IF k = n THEN NoEv ELSE fs[k].ev
                              /\ g[k].k = fs[k].k /\ g[k].left = fs[k].left
  BY <1>1, SetEv, SMTT(60)
<1> QED BY <1>2, <1>3 DEF Cleared

\* The run loop of a handler ends, and do_event frees the event.
LEMMA StackRunEnds ==
    ASSUME NEW fs \in Seq(Frame), StackOK(fs), Len(fs) # 1, fs # <<>>,
           NEW g, g = [SubSeq(fs, 1, Len(fs) - 1) EXCEPT ![Len(fs) - 1].ev = NoEv]
    PROVE  /\ Len(fs) - 1 \in 1 .. Len(fs)
           /\ StackOK(g)
           /\ \A x \in Ev : Serves(x, g) <=> Serves(x, fs) /\ x # fs[Len(fs) - 1].ev
<1> DEFINE n == Len(fs)
           o == SubSeq(fs, 1, n - 1)
<1>1. /\ n \in Nat \ {0} /\ n - 1 \in Nat /\ Len(o) = n - 1 /\ o \in Seq(Frame)
      /\ \A k \in 1 .. n-1 : o[k] = fs[k]
  BY PopFrame
<1>2. n - 1 \in 1 .. n /\ n - 1 \in 1 .. n - 1 /\ n - 1 \in Int /\ n \in Nat
  BY <1>1
<1>3. fs[n].ev = NoEv
  BY TopServesNone
<1> HIDE DEF o
<1>4. /\ Len(g) = n - 1
      /\ \A k \in 1 .. n-1 : /\ g[k].ev = IF k = n-1 THEN NoEv ELSE o[k].ev
                             /\ g[k].k = o[k].k
  <2>1. g = [o EXCEPT ![n - 1].ev = NoEv] /\ NoEv \in Ev \cup {NoEv}
    BY DEF o
  <2> DEFINE m == n - 1
  <2>2. m \in Int /\ o \in Seq(Frame) /\ g = [o EXCEPT ![m].ev = NoEv]
        /\ NoEv \in Ev \cup {NoEv}
    BY <1>1, <1>2, <2>1
  <2> HIDE DEF m
  <2>3. Cleared(g, o, m)
    BY <2>2, ClearEv
  <2> QED BY <1>1, <2>3 DEF m, Cleared
<1>5. ASSUME NEW k \in 1 .. n-1, g[k].ev # NoEv
      PROVE  k < n - 1 /\ g[k].ev = fs[k].ev /\ g[k+1].k = "run"
  <2>1. k # n - 1 /\ g[k].ev = fs[k].ev
    BY <1>1, <1>4, <1>5
  <2>2. k \in 1 .. n /\ k + 1 \in 1 .. n-1 /\ k < n - 1
    BY <1>1, <2>1
  <2>3. fs[k+1].k = "run"
    BY <1>5, <2>1, <2>2 DEF StackOK
  <2> QED BY <1>1, <1>4, <2>1, <2>2, <2>3
<1>6. StackOK(g)
  <2>1. 1 .. n-1 \subseteq 1 .. n
    BY <1>2
  <2> QED BY <1>4, <1>5, <2>1 DEF StackOK
<1>7. ASSUME NEW x \in Ev
      PROVE  Serves(x, g) <=> Serves(x, fs) /\ x # fs[n - 1].ev
  <2>1. x # NoEv /\ 1 .. n-1 \subseteq 1 .. n
    BY <1>2, EvFacts
  <2>2. ASSUME Serves(x, g) PROVE Serves(x, fs) /\ x # fs[n - 1].ev
    <3>1. PICK k \in 1 .. n-1 : g[k].ev = x
      BY <1>4, <2>2 DEF Serves
    <3>2. k < n - 1 /\ fs[k].ev = x /\ k \in 1 .. n
      BY <1>5, <2>1, <3>1
    <3>3. k # n - 1
      BY <1>2, <3>2
    <3> QED BY <1>2, <2>1, <3>2, <3>3 DEF Serves, StackOK
  <2>3. ASSUME Serves(x, fs), x # fs[n - 1].ev PROVE Serves(x, g)
    <3>1. PICK k \in 1 .. n : fs[k].ev = x
      BY <2>3 DEF Serves
    <3>2. k # n /\ k # n - 1
      BY <1>3, <2>1, <2>3, <3>1
    <3>3. k \in 1 .. n-1
      BY <1>2, <3>1, <3>2
    <3> QED BY <1>1, <1>4, <3>1, <3>2, <3>3 DEF Serves
  <2> QED BY <2>2, <2>3
<1> QED BY <1>2, <1>6, <1>7

\* No interpreter's stack gains or loses an event.
SameStacks ==
    \A i \in Interp : /\ StackOK(frames'[i])
                      /\ \A e \in Ev : Serves(e, frames'[i]) <=> Serves(e, frames[i])

\* The stacks that do not change.
LEMMA StacksUnchanged == ASSUME OInv, UNCHANGED frames PROVE SameStacks
BY DEF OInv, QueuesOK, SameStacks

\* One stack changes, but not in its events.
LEMMA OneSameStack ==
    ASSUME OInv, TypeOK, NEW i \in Interp, NEW fs, frames' = [frames EXCEPT ![i] = fs],
           StackOK(fs), \A e \in Ev : Serves(e, fs) <=> Serves(e, frames[i])
    PROVE  SameStacks
<1>1. \A j \in Interp : frames'[j] = IF j = i THEN fs ELSE frames[j]
  BY DEF TypeOK
<1> QED BY <1>1 DEF OInv, QueuesOK, SameStacks

\* A step that moves no event and changes no type keeps the ownership.
LEMMA NothingMoves ==
    ASSUME OInv, UNCHANGED <<eventq, taskq>>,
           evt'.hand = evt.hand, io'.hand = io.hand, SameStacks,
           \A e \in Ev : /\ event'[e].type = event[e].type
                         /\ event'[e].interp = event[e].interp
                         /\ event'[e].interval = event[e].interval
                         /\ event'[e].timed = event[e].timed
    PROVE  OInv'
<1>1. QueuesOK'
  BY DEF OInv, QueuesOK, SameStacks
<1>2. EventsOK'
  BY DEF OInv, EventsOK, RecOK
<1>3. PICK w : OwnedBy(w)
  BY DEF OInv
<1>4. OwnedBy(w)'
  BY <1>3 DEF OwnedBy, SameStacks
<1> QED BY <1>1, <1>2, <1>4 DEF OInv

\* An event is nowhere but with its holder.
LEMMA OneHolder ==
    ASSUME OInv, NEW x \in Ev
    PROVE  \E h \in Holder :
              /\ In(x, eventq) <=> h = "event_queue"
              /\ evt.hand = x <=> h = "event_thread"
              /\ io.hand = x <=> h = "io_thread"
              /\ event[x].type = "FREE" => h = "nobody"
              /\ h = "nobody" => event[x].type \in {"FREE", "SIGNAL"}
              /\ event[x].type \in {"NONE", "EVENT_TERMINATE"} => h = "event_queue"
              /\ \A i \in Interp :
                    /\ In(x, taskq[i]) <=> h = "task_queue" /\ event[x].interp = i
                    /\ Serves(x, frames[i]) <=> h = "do_event" /\ event[x].interp = i
<1>1. PICK w : OwnedBy(w)
  BY DEF OInv
<1> QED BY <1>1 DEF OwnedBy

\* Parrot_schedule_event adds a new event to the event queue.
LEMMA ScheduleAdds ==
    ASSUME TInv, OInv, NEW x \in Ev, event[x].type = "FREE", NEW rec,
           Parrot_schedule_event(x, rec)
    PROVE  /\ event' = [event EXCEPT ![x] = rec] /\ event \in [Ev -> EventRec]
           /\ Once(eventq') /\ \A e : In(e, eventq') <=> e = x \/ In(e, eventq)
<1>1. ~ In(x, eventq)
  BY OneHolder
<1>2. event' = [event EXCEPT ![x] = rec] /\ event \in [Ev -> EventRec]
  BY DEF Parrot_schedule_event, TInv, TypeOK
<1>3. Once(eventq') /\ \A e : In(e, eventq') <=> e = x \/ In(e, eventq)
  <2>1. eventq \in Seq(Ev) /\ Once(eventq) /\ Len(eventq) \in Nat
    BY LenProperties DEF TInv, TypeOK, OInv, QueuesOK
  <2>2. eventq' = CASE rec.type \in {"TIMER", "SLEEP"} ->
                        Inserted(eventq, x, TimedEvents(event'), Due(event'))
                   [] rec.type = "CALL_BACK" -> Cons(x, eventq)
                   [] OTHER -> Append(eventq, x)
    BY DEF Parrot_schedule_event
  <2>3. \E k \in 0 .. Len(eventq) :
           IsInsertion(Ev, Inserted(eventq, x, TimedEvents(event'), Due(event')),
                       eventq, k, x)
    BY <2>1, InsertedInserts
  <2>4. \E k \in 0 .. Len(eventq) : IsInsertion(Ev, Cons(x, eventq), eventq, k, x)
    BY <2>1, ConsInserts
  <2>5. \E k \in 0 .. Len(eventq) : IsInsertion(Ev, Append(eventq, x), eventq, k, x)
    BY <2>1, AppendInserts
  <2>6. \E k \in 0 .. Len(eventq) : IsInsertion(Ev, eventq', eventq, k, x)
    BY <2>2, <2>3, <2>4, <2>5
  <2> QED BY <1>1, <2>1, <2>6, InsertionAdds
<1> QED BY <1>2, <1>3

\* Parrot_schedule_event gives a new event to the event queue.
LEMMA ScheduleOwned ==
    ASSUME TInv, OInv, NEW x \in Ev, event[x].type = "FREE",
           NEW rec \in EventRec, rec.type # "FREE", RecOK(rec),
           Parrot_schedule_event(x, rec), UNCHANGED <<taskq, io>>, SameStacks
    PROVE  OInv'
<1>1. PICK w : OwnedBy(w)
  BY DEF OInv
<1>2. w[x] = "nobody" /\ ~ In(x, eventq) /\ w \in [Ev -> Holder]
  BY <1>1 DEF OwnedBy
<1>3. event' = [event EXCEPT ![x] = rec] /\ event \in [Ev -> EventRec]
  BY DEF Parrot_schedule_event, TInv, TypeOK
<1>4. Once(eventq') /\ \A e : In(e, eventq') <=> e = x \/ In(e, eventq)
  BY ScheduleAdds
<1>5. QueuesOK'
  BY <1>4 DEF OInv, QueuesOK, SameStacks
<1>6. EventsOK'
  BY <1>3 DEF OInv, EventsOK
<1>7. evt'.hand = evt.hand /\ io'.hand = io.hand
  BY DEF Parrot_schedule_event, WakeEventThread, TInv, TypeOK
<1> DEFINE v == [w EXCEPT ![x] = "event_queue"]
<1>8. v \in [Ev -> Holder] /\ \A e \in Ev : v[e] = IF e = x THEN "event_queue" ELSE w[e]
  BY <1>2 DEF Holder
<1> HIDE DEF v
<1>9. ASSUME NEW e \in Ev
      PROVE  /\ In(e, eventq') <=> v[e] = "event_queue"
             /\ evt'.hand = e <=> v[e] = "event_thread"
             /\ io'.hand = e <=> v[e] = "io_thread"
             /\ event'[e].type = "FREE" => v[e] = "nobody"
             /\ v[e] = "nobody" => event'[e].type \in {"FREE", "SIGNAL"}
             /\ event'[e].type \in {"NONE", "EVENT_TERMINATE"} => v[e] = "event_queue"
  <2>1. CASE e = x
    BY <1>1, <1>2, <1>3, <1>4, <1>7, <1>8, <2>1 DEF OwnedBy
  <2>2. CASE e # x
    <3>1. event'[e] = event[e] /\ v[e] = w[e]
      BY <1>3, <1>8, <2>2
    <3> QED BY <1>1, <1>4, <1>7, <2>2, <3>1 DEF OwnedBy
  <2> QED BY <2>1, <2>2
<1>10. ASSUME NEW e \in Ev, NEW i \in Interp
       PROVE  /\ In(e, taskq'[i]) <=> v[e] = "task_queue" /\ event'[e].interp = i
              /\ Serves(e, frames'[i]) <=> v[e] = "do_event" /\ event'[e].interp = i
  <2>1. In(e, taskq'[i]) <=> In(e, taskq[i])
    OBVIOUS
  <2>2. Serves(e, frames'[i]) <=> Serves(e, frames[i])
    BY DEF SameStacks
  <2>3. CASE e = x
    BY <1>1, <1>2, <1>8, <2>1, <2>2, <2>3 DEF OwnedBy
  <2>4. CASE e # x
    <3>1. event'[e] = event[e] /\ v[e] = w[e]
      BY <1>3, <1>8, <2>4
    <3> QED BY <1>1, <2>1, <2>2, <3>1 DEF OwnedBy
  <2> QED BY <2>3, <2>4
<1>11. OwnedBy(v)'
  BY <1>8, <1>9, <1>10 DEF OwnedBy
<1> QED BY <1>5, <1>6, <1>11 DEF OInv

\* Whether the ownership of an event e other than x is untouched by a step
Untouched(e) ==
    /\ event'[e].type = event[e].type /\ event'[e].interp = event[e].interp
    /\ In(e, eventq') <=> In(e, eventq)
    /\ evt'.hand = e <=> evt.hand = e
    /\ io'.hand = e <=> io.hand = e
    /\ \A i \in Interp : /\ In(e, taskq'[i]) <=> In(e, taskq[i])
                         /\ Serves(e, frames'[i]) <=> Serves(e, frames[i])

\* After a step event x is held by h
HeldBy(x, h) ==
    /\ In(x, eventq') <=> h = "event_queue"
    /\ evt'.hand = x <=> h = "event_thread"
    /\ io'.hand = x <=> h = "io_thread"
    /\ event'[x].type = "FREE" => h = "nobody"
    /\ h = "nobody" => event'[x].type \in {"FREE", "SIGNAL"}
    /\ event'[x].type \in {"NONE", "EVENT_TERMINATE"} => h = "event_queue"
    /\ \A i \in Interp :
          /\ In(x, taskq'[i]) <=> h = "task_queue" /\ event'[x].interp = i
          /\ Serves(x, frames'[i]) <=> h = "do_event" /\ event'[x].interp = i

\* A step after which every event is with its old holder or with a new one
\* keeps the ownership.
LEMMA Moves ==
    ASSUME OInv, QueuesOK', EventsOK',
           \A e \in Ev : Untouched(e) \/ \E h \in Holder : HeldBy(e, h)
    PROVE  OInv'
<1>1. PICK w : OwnedBy(w)
  BY DEF OInv
<1>2. w \in [Ev -> Holder]
  BY <1>1 DEF OwnedBy
<1>3. PICK v \in [Ev -> Holder] :
         \A e \in Ev : (Untouched(e) /\ v[e] = w[e]) \/ HeldBy(e, v[e])
  <2> DEFINE f == [e \in Ev |-> IF Untouched(e) THEN w[e]
                               ELSE CHOOSE h \in Holder : HeldBy(e, h)]
  <2>1. f \in [Ev -> Holder]
    BY <1>2
  <2>2. \A e \in Ev : (Untouched(e) /\ f[e] = w[e]) \/ HeldBy(e, f[e])
    OBVIOUS
  <2> HIDE DEF f
  <2> QED BY <2>1, <2>2
<1>4. ASSUME NEW e \in Ev
      PROVE  /\ In(e, eventq') <=> v[e] = "event_queue"
             /\ evt'.hand = e <=> v[e] = "event_thread"
             /\ io'.hand = e <=> v[e] = "io_thread"
             /\ event'[e].type = "FREE" => v[e] = "nobody"
             /\ v[e] = "nobody" => event'[e].type \in {"FREE", "SIGNAL"}
             /\ event'[e].type \in {"NONE", "EVENT_TERMINATE"} => v[e] = "event_queue"
  <2>1. CASE HeldBy(e, v[e])
    BY <2>1 DEF HeldBy
  <2>2. CASE Untouched(e) /\ v[e] = w[e]
    BY <1>1, <2>2 DEF OwnedBy, Untouched
  <2> QED BY <1>3, <2>1, <2>2
<1>5. ASSUME NEW e \in Ev, NEW i \in Interp
      PROVE  /\ In(e, taskq'[i]) <=> v[e] = "task_queue" /\ event'[e].interp = i
             /\ Serves(e, frames'[i]) <=> v[e] = "do_event" /\ event'[e].interp = i
  <2>1. CASE HeldBy(e, v[e])
    BY <2>1 DEF HeldBy
  <2>2. CASE Untouched(e) /\ v[e] = w[e]
    BY <1>1, <2>2 DEF OwnedBy, Untouched
  <2> QED BY <1>3, <2>1, <2>2
<1>6. OwnedBy(v)'
  BY <1>4, <1>5 DEF OwnedBy
<1> QED BY <1>6 DEF OInv

\* A step that passes one event on to another holder keeps the ownership.
LEMMA OneMoves ==
    ASSUME OInv, QueuesOK', EventsOK', NEW x \in Ev, NEW h \in Holder, HeldBy(x, h),
           \A e \in Ev \ {x} : Untouched(e)
    PROVE  OInv'
BY Moves

\* Handing a task over gives it to its interpreter.
LEMMA PutTaskOwned ==
    ASSUME TInv, OInv, NEW x \in Ev, event[x].type # "FREE",
           evt.hand = x \/ io.hand = x,
           PutTask(event[x].interp, x), evt'.hand # x, io'.hand # x,
           \A e \in Ev \ {x} : (evt'.hand = e <=> evt.hand = e)
                               /\ (io'.hand = e <=> io.hand = e),
           UNCHANGED <<event, eventq, frames>>
    PROVE  OInv'
<1> DEFINE i == event[x].interp
           s == IF event[x].type \in {"CALL_BACK", "SIGNAL"}
                THEN Cons(x, taskq[i]) ELSE Append(taskq[i], x)
<1>1. /\ ~ In(x, eventq)
      /\ \A j \in Interp : ~ In(x, taskq[j]) /\ ~ Serves(x, frames[j])
      /\ event[x].type \notin {"NONE", "EVENT_TERMINATE"}
  BY OneHolder
<1>2. i \in Interp
  BY <1>1 DEF OInv, EventsOK, RecOK
<1>3. taskq[i] \in Seq(Ev) /\ Once(taskq[i]) /\ Len(taskq[i]) \in Nat
  BY <1>2, LenProperties DEF TInv, TypeOK, OInv, QueuesOK
<1>4. Once(s) /\ \A e : In(e, s) <=> e = x \/ In(e, taskq[i])
  <2>1. \E k \in 0 .. Len(taskq[i]) : IsInsertion(Ev, Cons(x, taskq[i]), taskq[i], k, x)
    BY <1>3, ConsInserts
  <2>2. \E k \in 0 .. Len(taskq[i]) : IsInsertion(Ev, Append(taskq[i], x), taskq[i], k, x)
    BY <1>3, AppendInserts
  <2>3. \E k \in 0 .. Len(taskq[i]) : IsInsertion(Ev, s, taskq[i], k, x)
    BY <2>1, <2>2
  <2> HIDE DEF s
  <2> QED BY <1>1, <1>2, <1>3, <2>3, InsertionAdds
<1>5. \A j \in Interp : taskq'[j] = IF j = i THEN s ELSE taskq[j]
  BY DEF PutTask, TInv, TypeOK
<1> HIDE DEF s
<1>6. QueuesOK'
  BY <1>4, <1>5 DEF OInv, QueuesOK
<1>7. EventsOK'
  BY DEF OInv, EventsOK
<1>8. HeldBy(x, "task_queue")
  BY <1>1, <1>2, <1>4, <1>5 DEF HeldBy
<1>9. \A e \in Ev \ {x} : Untouched(e)
  BY <1>4, <1>5 DEF Untouched
<1>10. "task_queue" \in Holder
  BY DEF Holder
<1> QED BY <1>6, <1>7, <1>8, <1>9, <1>10, OneMoves

\* Popping a task takes it from its interpreter, which has it nowhere else.
LEMMA TakesTaskOwned ==
    ASSUME TInv, OInv, NEW i \in Interp, NEW type, TakesTask(i, type)
    PROVE  LET x == Head(taskq[i])
           IN  /\ x \in Ev /\ event[x].type \in type /\ event[x].type # "FREE"
               /\ event[x].type \notin {"NONE", "EVENT_TERMINATE"}
               /\ event[x].interp = i
               /\ ~ In(x, eventq) /\ evt.hand # x /\ io.hand # x
               /\ \A j \in Interp : /\ ~ Serves(x, frames[j])
                                    /\ ~ In(x, taskq'[j])
                                    /\ Once(taskq'[j])
               /\ \A e \in Ev \ {x}, j \in Interp : In(e, taskq'[j]) <=> In(e, taskq[j])
<1> DEFINE x == Head(taskq[i])
<1>1. /\ taskq[i] # <<>> /\ event[x].type \in type
      /\ taskq' = [taskq EXCEPT ![i] = Tail(taskq[i])]
  BY DEF TakesTask
<1>2. taskq[i] \in Seq(Ev) /\ Once(taskq[i]) /\ \A j \in Interp : Once(taskq[j])
  BY DEF TInv, TypeOK, OInv, QueuesOK
<1>3. /\ x \in Ev /\ In(x, taskq[i]) /\ Once(Tail(taskq[i]))
      /\ \A e : In(e, Tail(taskq[i])) <=> In(e, taskq[i]) /\ e # x
  BY <1>1, <1>2, TailRemoves
<1>4. \A j \in Interp : taskq'[j] = IF j = i THEN Tail(taskq[i]) ELSE taskq[j]
  BY <1>1 DEF TInv, TypeOK
<1> HIDE DEF x
<1>5. /\ event[x].type # "FREE" /\ event[x].type \notin {"NONE", "EVENT_TERMINATE"}
      /\ event[x].interp = i
      /\ ~ In(x, eventq) /\ evt.hand # x /\ io.hand # x
      /\ \A j \in Interp : ~ Serves(x, frames[j]) /\ (In(x, taskq[j]) => j = i)
  BY <1>3, OneHolder
<1>6. \A j \in Interp : ~ In(x, taskq'[j]) /\ Once(taskq'[j])
  BY <1>2, <1>3, <1>4, <1>5
<1>7. \A e \in Ev \ {x}, j \in Interp : In(e, taskq'[j]) <=> In(e, taskq[j])
  BY <1>3, <1>4
<1> QED BY <1>1, <1>3, <1>5, <1>6, <1>7 DEF x

\* The records of new events say what their types promise.
LEMMA NewRecordsOK ==
    /\ RecOK(FreeEvent)
    /\ \A data, a : \A i \in Interp : \A type \in {"TIMER", "SLEEP"} :
          /\ RecOK(TimedEvent(i, type, data, a))
          /\ TimedEvent(i, type, data, a).type = type
    /\ \A i \in Interp : \A type \in {"CALL_BACK", "TERMINATE", "SIGNAL"} :
          /\ RecOK(UntimedEvent(i, type))
          /\ UntimedEvent(i, type).type = type /\ UntimedEvent(i, type).interp = i
    /\ RecOK(UntimedEvent(NoInterp, "EVENT_TERMINATE"))
    /\ UntimedEvent(NoInterp, "EVENT_TERMINATE").type = "EVENT_TERMINATE"
<1>1. RecOK(FreeEvent)
  BY DEF RecOK, FreeEvent
<1>2. \A data, a : \A i \in Interp : \A type \in {"TIMER", "SLEEP"} :
          /\ RecOK(TimedEvent(i, type, data, a))
          /\ TimedEvent(i, type, data, a).type = type
  BY DEF RecOK, TimedEvent
<1>3. \A i \in Interp : \A type \in {"CALL_BACK", "TERMINATE", "SIGNAL"} :
          /\ RecOK(UntimedEvent(i, type))
          /\ UntimedEvent(i, type).type = type /\ UntimedEvent(i, type).interp = i
  BY DEF RecOK, UntimedEvent, FreeEvent
<1>4. /\ RecOK(UntimedEvent(NoInterp, "EVENT_TERMINATE"))
      /\ UntimedEvent(NoInterp, "EVENT_TERMINATE").type = "EVENT_TERMINATE"
  BY DEF RecOK, UntimedEvent, FreeEvent
<1> QED BY <1>1, <1>2, <1>3, <1>4

\* Stopping a timer changes an entry of the event queue, which stays there.
LEMMA StopOwned ==
    ASSUME TInv, OInv, NEW i \in Interp, NEW tm \in Timer, Parrot_del_timer_event(i, tm)
    PROVE  OInv'
<1> DEFINE K == {k \in 1 .. Len(eventq) : IsTimerEntry(k, i, tm)}
           x == eventq[Min(K)]
<1>1. UNCHANGED <<eventq, taskq, evt, io, frames>>
  BY DEF Parrot_del_timer_event
<1>2. CASE K = {}
  <2>1. event' = event
    BY <1>2 DEF Parrot_del_timer_event
  <2> QED BY <1>1, <2>1, NothingMoves, StacksUnchanged
<1>3. CASE K # {}
  <2>1. event' = [event EXCEPT ![x].interval = 0, ![x].type = "NONE"]
    BY <1>3 DEF Parrot_del_timer_event
  <2>2. Min(K) \in 1 .. Len(eventq) /\ Min(K) \in K
    BY <1>3, MinIsLeast
  <2>3. x \in Ev /\ In(x, eventq)
    BY <2>2, QueueOfEvents DEF TInv, In
  <2>4. event[x].interp = i
    BY <2>2 DEF IsTimerEntry
  <2> HIDE DEF x
  <2>5. /\ event \in [Ev -> EventRec] /\ event[x] \in EventRec
    BY <2>3 DEF TInv, TypeOK
  <2>6. /\ event'[x].type = "NONE" /\ event'[x].interval = 0
        /\ event'[x].interp = i /\ event'[x].timed = event[x].timed
        /\ \A e \in Ev \ {x} : event'[e] = event[e]
    BY <2>1, <2>3, <2>4, <2>5 DEF EventRec
  <2>7. QueuesOK'
    BY <1>1 DEF OInv, QueuesOK
  <2>8. EventsOK'
    <3> SUFFICES ASSUME NEW e \in Ev PROVE RecOK(event'[e])
      BY DEF EventsOK
    <3>1. CASE e = x
      BY <2>6, <3>1 DEF RecOK
    <3>2. CASE e # x
      BY <2>6, <3>2 DEF OInv, EventsOK
    <3> QED BY <3>1, <3>2
  <2>9. HeldBy(x, "event_queue")
    BY <1>1, <2>3, <2>6, OneHolder DEF HeldBy
  <2>10. \A e \in Ev \ {x} : Untouched(e)
    BY <1>1, <2>6 DEF Untouched
  <2>11. "event_queue" \in Holder
    BY DEF Holder
  <2> QED BY <2>3, <2>7, <2>8, <2>9, <2>10, <2>11, OneMoves
<1> QED BY <1>2, <1>3

\* The sources of events keep the ownership.
LEMMA SchedulesOwned == ASSUME TInv, OInv, Schedules PROVE OInv'
<1> USE TimerAssumption
<1>1. ASSUME NEW i \in Interp, NEW tm \in Timer, NEW a \in TimerArgs, StartTimer(i, tm, a)
      PROVE  OInv'
  <2>1. NewEvent \in Ev /\ event[NewEvent].type = "FREE"
    BY <1>1, NewEventIsFree DEF StartTimer, Room
  <2> DEFINE r == TimedEvent(i, "TIMER", tm, a)
  <2>2. r \in EventRec /\ RecOK(r) /\ r.type # "FREE"
    BY NewRecords, NewRecordsOK DEF Type
  <2> HIDE DEF r
  <2>3. Parrot_schedule_event(NewEvent, r) /\ UNCHANGED <<taskq, io, frames>>
    BY <1>1 DEF StartTimer, r
  <2> QED BY <2>1, <2>2, <2>3, ScheduleOwned, StacksUnchanged
<1>2. ASSUME NEW i \in Interp, NEW a \in TimerArgs, Alarm(i, a)
      PROVE  OInv'
  <2>1. NewEvent \in Ev /\ event[NewEvent].type = "FREE"
    BY <1>2, NewEventIsFree DEF Alarm, Room
  <2> DEFINE r == TimedEvent(i, "TIMER", NoTimer, a)
  <2>2. r \in EventRec /\ RecOK(r) /\ r.type # "FREE"
    BY NewRecords, NewRecordsOK DEF Type
  <2> HIDE DEF r
  <2>3. Parrot_schedule_event(NewEvent, r) /\ UNCHANGED <<taskq, io, frames>>
    BY <1>2 DEF Alarm, r
  <2> QED BY <2>1, <2>2, <2>3, ScheduleOwned, StacksUnchanged
<1>3. ASSUME NEW i \in Interp, NEW t \in Naps, Parrot_sleep_on_event(i, t)
      PROVE  OInv'
  <2>1. NewEvent \in Ev /\ event[NewEvent].type = "FREE"
    BY <1>3, NewEventIsFree DEF Parrot_sleep_on_event, Room
  <2> DEFINE a == [diff |-> t, interval |-> 0, repeat |-> 0]
             r == TimedEvent(i, "SLEEP", NoTimer, a)
             f == [k |-> "sleep", term |-> FALSE, ev |-> NoEv, left |-> t]
  <2>2. r \in EventRec /\ RecOK(r) /\ r.type # "FREE"
    BY NewRecords, NewRecordsOK DEF Type
  <2>3. f \in Frame /\ f.ev = NoEv
    BY DEF Frame
  <2> HIDE DEF r, f
  <2>4. /\ Parrot_schedule_event(NewEvent, r) /\ UNCHANGED <<taskq, io>>
        /\ frames' = [frames EXCEPT ![i] = Append(frames[i], f)]
    BY <1>3 DEF Parrot_sleep_on_event, Push, r, f
  <2>5. SameStacks
    <3>1. frames[i] \in Seq(Frame) /\ StackOK(frames[i])
      BY DEF TInv, TypeOK, OInv, QueuesOK
    <3>2. /\ StackOK(Append(frames[i], f))
          /\ \A e \in Ev : Serves(e, Append(frames[i], f)) <=> Serves(e, frames[i])
      BY <2>3, <3>1, StackPush
    <3> QED BY <2>4, <3>2, OneSameStack DEF TInv
  <2> QED BY <2>1, <2>2, <2>4, <2>5, ScheduleOwned
<1>4. ASSUME NEW i \in Interp, Parrot_new_cb_event(i)
      PROVE  OInv'
  <2>1. NewEvent \in Ev /\ event[NewEvent].type = "FREE"
    BY <1>4, NewEventIsFree DEF Parrot_new_cb_event, Room
  <2> DEFINE r == UntimedEvent(i, "CALL_BACK")
  <2>2. r \in EventRec /\ RecOK(r) /\ r.type # "FREE"
    BY NewRecords, NewRecordsOK DEF Type
  <2> HIDE DEF r
  <2>3. Parrot_schedule_event(NewEvent, r) /\ UNCHANGED <<taskq, io, frames>>
    BY <1>4 DEF Parrot_new_cb_event, r
  <2> QED BY <2>1, <2>2, <2>3, ScheduleOwned, StacksUnchanged
<1>5. ASSUME NEW i \in Interp, Parrot_new_terminate_event(i)
      PROVE  OInv'
  <2>1. NewEvent \in Ev /\ event[NewEvent].type = "FREE"
    BY <1>5, NewEventIsFree DEF Parrot_new_terminate_event, Room
  <2> DEFINE r == UntimedEvent(i, "TERMINATE")
  <2>2. r \in EventRec /\ RecOK(r) /\ r.type # "FREE"
    BY NewRecords, NewRecordsOK DEF Type
  <2> HIDE DEF r
  <2>3. Parrot_schedule_event(NewEvent, r) /\ UNCHANGED <<taskq, io, frames>>
    BY <1>5 DEF Parrot_new_terminate_event, r
  <2> QED BY <2>1, <2>2, <2>3, ScheduleOwned, StacksUnchanged
<1>6. ASSUME Parrot_kill_event_loop
      PROVE  OInv'
  <2>1. NewEvent \in Ev /\ event[NewEvent].type = "FREE"
    BY <1>6, NewEventIsFree DEF Parrot_kill_event_loop, Room
  <2> DEFINE r == UntimedEvent(NoInterp, "EVENT_TERMINATE")
  <2>2. r \in EventRec /\ RecOK(r) /\ r.type # "FREE"
    BY NewRecords, NewRecordsOK DEF Type
  <2> HIDE DEF r
  <2>3. Parrot_schedule_event(NewEvent, r) /\ UNCHANGED <<taskq, io, frames>>
    BY <1>6 DEF Parrot_kill_event_loop, r
  <2> QED BY <2>1, <2>2, <2>3, ScheduleOwned, StacksUnchanged
<1> QED BY <1>1, <1>2, <1>3, <1>4, <1>5, <1>6, StopOwned DEF Schedules

\* process_events takes the first event off the queue, or replaces it by a
\* copy that is due later.
LEMMA ProcessEffect ==
    ASSUME TInv, OInv, process_events
    PROVE  LET x == Head(eventq)
           IN  /\ x \in Ev /\ In(x, eventq) /\ Once(eventq')
               /\ event[x].timed => event[x].due <= 0
               /\ \/ /\ event[x].timed /\ Repeats(event[x])
                     /\ \E n \in Ev :
                           /\ event[n].type = "FREE" /\ event[x].type # "FREE"
                           /\ \A f \in {"type", "interp", "data", "interval", "timed"} :
                                 /\ event'[x][f] = event[x][f]
                                 /\ event'[n][f] = event[x][f]
                           /\ \A e \in Ev \ {x, n} : event'[e] = event[e]
                           /\ \A e : In(e, eventq') <=> e = n \/ (In(e, eventq) /\ e # x)
                  \/ /\ event' = IF event[x].type \in {"NONE", "EVENT_TERMINATE"}
                                 THEN [event EXCEPT ![x] = FreeEvent] ELSE event
                     /\ \A e : In(e, eventq') <=> In(e, eventq) /\ e # x
<1> DEFINE x == Head(eventq)
           r == CountDown(event[x])
           n == NewEvent
           c == [r EXCEPT !.due = r.interval]
<1>1. eventq # <<>> /\ (event[x].timed => event[x].due <= 0)
  BY DEF process_events, HeadTimed, HeadDue
<1>2. eventq \in Seq(Ev) /\ Once(eventq) /\ event \in [Ev -> EventRec]
  BY DEF TInv, TypeOK, OInv, QueuesOK
<1>3. /\ x \in Ev /\ In(x, eventq) /\ Tail(eventq) \in Seq(Ev) /\ Once(Tail(eventq))
      /\ \A e : In(e, Tail(eventq)) <=> In(e, eventq) /\ e # x
  BY <1>1, <1>2, TailRemoves
<1> HIDE DEF x
<1>4. CASE event[x].timed /\ Repeats(event[x])
  <2>1. /\ Unallocated # {}
        /\ event' = [event EXCEPT ![x] = r, ![n] = c]
        /\ eventq' = Inserted(Tail(eventq), n, TimedEvents(event'), Due(event'))
    BY <1>4 DEF process_events, x
  <2>2. n \in Ev /\ event[n].type = "FREE"
    BY <2>1, NewEventIsFree
  <2>3. event[x].type # "FREE" /\ n # x /\ ~ In(n, eventq)
    BY <1>3, <2>2, OneHolder
  <2>4. event[x] \in EventRec
    BY <1>2, <1>3
  <2>5. \A f \in {"type", "interp", "data", "interval", "timed"} : r[f] = event[x][f]
    <3> DEFINE o == event[x]
               q == o.repeat - 1
    <3>1. o \in EventRec
      BY <2>4
    <3>2. r = o \/ r = [o EXCEPT !.repeat = q]
      BY DEF CountDown
    <3> HIDE DEF o, q, r
    <3>3. CASE r = o
      BY <3>3 DEF o
    <3>4. CASE r = [o EXCEPT !.repeat = q]
      BY <3>1, <3>4 DEF o, EventRec
    <3> QED BY <3>2, <3>3, <3>4
  <2>6. \A f \in {"type", "interp", "data", "interval", "timed"} : c[f] = event[x][f]
    <3>1. r \in EventRec
      BY <2>4, ChangedRecords
    <3>2. \A f \in {"type", "interp", "data", "interval", "timed"} : c[f] = r[f]
      <4> HIDE DEF r
      <4> QED BY <3>1 DEF EventRec
    <3> QED BY <2>5, <3>2
  <2> HIDE DEF r, c, n
  <2>7. event'[x] = r /\ event'[n] = c /\ \A e \in Ev \ {x, n} : event'[e] = event[e]
    BY <1>2, <1>3, <2>1, <2>2, <2>3
  <2>8. Once(eventq') /\ \A e : In(e, eventq') <=> e = n \/ (In(e, eventq) /\ e # x)
    <3>1. ~ In(n, Tail(eventq))
      BY <1>3, <2>3
    <3>2. \E k \in 0 .. Len(Tail(eventq)) :
             IsInsertion(Ev, eventq', Tail(eventq), k, n)
      BY <1>3, <2>1, <2>2, InsertedInserts
    <3> QED BY <1>3, <2>2, <3>1, <3>2, InsertionAdds
  <2>9. \A f \in {"type", "interp", "data", "interval", "timed"} :
           event'[x][f] = event[x][f] /\ event'[n][f] = event[x][f]
    BY <2>5, <2>6, <2>7
  <2> QED BY <1>1, <1>3, <1>4, <2>2, <2>3, <2>7, <2>8, <2>9 DEF x
<1>5. CASE ~ (event[x].timed /\ Repeats(event[x]))
  <2>1. /\ event' = IF event[x].type \in {"NONE", "EVENT_TERMINATE"}
                    THEN [event EXCEPT ![x] = FreeEvent] ELSE event
        /\ eventq' = Tail(eventq)
    BY <1>5 DEF process_events, x
  <2> QED BY <1>1, <1>3, <2>1 DEF x
<1> QED BY <1>4, <1>5

\* process_events passes the first event on, frees it, or leaves a copy of it
\* in the queue.
LEMMA ProcessOwned == ASSUME TInv, OInv, process_events PROVE OInv'
<1> DEFINE x == Head(eventq)
<1>1. /\ evt.pc = "process"
      /\ UNCHANGED <<taskq, io, frames>>
  BY DEF process_events
<1>2. event \in [Ev -> EventRec]
  BY DEF TInv, TypeOK
<1>3. x \in Ev /\ In(x, eventq) /\ Once(eventq')
  BY ProcessEffect
<1>4. evt' = CASE event[x].type = "NONE" -> evt
               [] event[x].type = "EVENT_TERMINATE" -> [evt EXCEPT !.pc = "destroy"]
               [] OTHER -> [pc |-> "enable", hand |-> x]
  BY DEF process_events
<1>5. evt.hand = NoEv /\ \A e \in Ev : e # NoEv
  BY <1>1, EvFacts DEF TInv, HandsFull
<1> HIDE DEF x
<1>6. /\ event[x].type # "FREE" /\ io.hand # x
      /\ \A i \in Interp : ~ In(x, taskq[i]) /\ ~ Serves(x, frames[i])
      /\ RecOK(event[x])
  BY <1>3, OneHolder DEF OInv, EventsOK
<1>7. event[x].type \in {"NONE", "EVENT_TERMINATE"} => evt'.hand = NoEv
  <2>1. CASE event[x].type = "NONE"
    BY <1>4, <1>5, <2>1
  <2>2. CASE event[x].type = "EVENT_TERMINATE"
    BY <1>4, <1>5, <2>2 DEF TInv, TypeOK
  <2> QED BY <2>1, <2>2
<1>8. event[x].type \notin {"NONE", "EVENT_TERMINATE"} => evt'.hand = x
  BY <1>4
<1>9. /\ "event_queue" \in Holder /\ "event_thread" \in Holder /\ "nobody" \in Holder
  BY DEF Holder
<1>10. QueuesOK'
  BY <1>1, <1>3 DEF OInv, QueuesOK
<1>11. CASE /\ event[x].timed /\ Repeats(event[x])
            /\ \E n \in Ev :
                  /\ event[n].type = "FREE" /\ event[x].type # "FREE"
                  /\ \A f \in {"type", "interp", "data", "interval", "timed"} :
                        event'[x][f] = event[x][f] /\ event'[n][f] = event[x][f]
                  /\ \A e \in Ev \ {x, n} : event'[e] = event[e]
                  /\ \A e : In(e, eventq') <=> e = n \/ (In(e, eventq) /\ e # x)
  <2>1. PICK n \in Ev :
           /\ event[n].type = "FREE" /\ event[x].type # "FREE"
           /\ \A f \in {"type", "interp", "data", "interval", "timed"} :
                 event'[x][f] = event[x][f] /\ event'[n][f] = event[x][f]
           /\ \A e \in Ev \ {x, n} : event'[e] = event[e]
           /\ \A e : In(e, eventq') <=> e = n \/ (In(e, eventq) /\ e # x)
    BY <1>11
  <2>2. n # x /\ event[x].type \notin {"NONE", "EVENT_TERMINATE"}
    BY <1>6, <1>11, <2>1 DEF RecOK, Repeats
  <2>3. /\ ~ In(n, eventq) /\ evt.hand # n /\ io.hand # n
        /\ \A i \in Interp : ~ In(n, taskq[i]) /\ ~ Serves(n, frames[i])
    BY <2>1, OneHolder
  <2>4. \A e \in {x, n} : /\ event'[e].type = event[x].type
                          /\ event'[e].interp = event[x].interp
                          /\ event'[e].interval = event[x].interval
                          /\ event'[e].timed = event[x].timed
    BY <2>1
  <2>5. EventsOK'
    <3> SUFFICES ASSUME NEW e \in Ev PROVE RecOK(event'[e])
      BY DEF EventsOK
    <3>1. CASE e \in {x, n}
      BY <1>6, <2>4, <3>1 DEF RecOK
    <3>2. CASE e \notin {x, n}
      BY <2>1, <3>2 DEF OInv, EventsOK
    <3> QED BY <3>1, <3>2
  <2>6. HeldBy(x, "event_thread")
    BY <1>1, <1>3, <1>6, <1>8, <2>1, <2>2, <2>4 DEF HeldBy
  <2>7. HeldBy(n, "event_queue")
    BY <1>1, <1>6, <1>8, <2>1, <2>2, <2>3, <2>4 DEF HeldBy
  <2>8. \A e \in Ev \ {x, n} : Untouched(e)
    BY <1>1, <1>5, <1>8, <2>1, <2>2 DEF Untouched
  <2>9. \A e \in Ev : Untouched(e) \/ \E h \in Holder : HeldBy(e, h)
    BY <1>9, <2>6, <2>7, <2>8
  <2> QED BY <1>10, <2>5, <2>9, Moves
<1>12. CASE /\ event' = IF event[x].type \in {"NONE", "EVENT_TERMINATE"}
                        THEN [event EXCEPT ![x] = FreeEvent] ELSE event
            /\ \A e : In(e, eventq') <=> In(e, eventq) /\ e # x
  <2>1. CASE event[x].type \in {"NONE", "EVENT_TERMINATE"}
    <3>1. event'[x] = FreeEvent /\ \A e \in Ev \ {x} : event'[e] = event[e]
      BY <1>2, <1>3, <1>12, <2>1
    <3>2. FreeEvent.type = "FREE"
      BY DEF FreeEvent
    <3>3. EventsOK'
      BY <3>1, NewRecordsOK DEF OInv, EventsOK
    <3>4. HeldBy(x, "nobody")
      BY <1>1, <1>3, <1>5, <1>6, <1>7, <1>12, <2>1, <3>1, <3>2 DEF HeldBy
    <3>5. \A e \in Ev \ {x} : Untouched(e)
      BY <1>1, <1>3, <1>5, <1>7, <1>12, <2>1, <3>1 DEF Untouched
    <3> QED BY <1>3, <1>9, <1>10, <3>3, <3>4, <3>5, OneMoves
  <2>2. CASE event[x].type \notin {"NONE", "EVENT_TERMINATE"}
    <3>1. event' = event
      BY <1>12, <2>2
    <3>2. EventsOK'
      BY <3>1 DEF OInv, EventsOK
    <3>3. HeldBy(x, "event_thread")
      BY <1>1, <1>3, <1>6, <1>8, <1>12, <2>2, <3>1 DEF HeldBy
    <3>4. \A e \in Ev \ {x} : Untouched(e)
      BY <1>1, <1>3, <1>5, <1>8, <1>12, <2>2, <3>1 DEF Untouched
    <3> QED BY <1>3, <1>9, <1>10, <3>2, <3>3, <3>4, OneMoves
  <2> QED BY <2>1, <2>2
<1>13. \/ /\ event[x].timed /\ Repeats(event[x])
          /\ \E n \in Ev :
                /\ event[n].type = "FREE" /\ event[x].type # "FREE"
                /\ \A f \in {"type", "interp", "data", "interval", "timed"} :
                      event'[x][f] = event[x][f] /\ event'[n][f] = event[x][f]
                /\ \A e \in Ev \ {x, n} : event'[e] = event[e]
                /\ \A e : In(e, eventq') <=> e = n \/ (In(e, eventq) /\ e # x)
       \/ /\ event' = IF event[x].type \in {"NONE", "EVENT_TERMINATE"}
                      THEN [event EXCEPT ![x] = FreeEvent] ELSE event
          /\ \A e : In(e, eventq') <=> In(e, eventq) /\ e # x
  BY ProcessEffect DEF x
<1> QED BY <1>11, <1>12, <1>13

\* The event thread keeps the ownership.
LEMMA EventThreadOwned == ASSUME TInv, OInv, EventThread PROVE OInv'
<1>1. CASE EventThreadLock \/ EventThreadTimeout \/ EventThreadWait \/ EventThreadEnable
           \/ EventThreadDestroy \/ stop_io_thread
  <2>1. UNCHANGED <<event, eventq, taskq, frames>>
    BY <1>1 DEF EventThreadLock, EventThreadTimeout, EventThreadWait, EventThreadEnable,
                EventThreadDestroy, stop_io_thread
  <2>2. evt'.hand = evt.hand
    BY <1>1 DEF EventThreadLock, EventThreadTimeout, EventThreadWait, EventThreadEnable,
                EventThreadDestroy, stop_io_thread, WakeEventThread, TInv, TypeOK
  <2>3. io'.hand = io.hand
    BY <1>1 DEF EventThreadLock, EventThreadTimeout, EventThreadWait, EventThreadEnable,
                EventThreadDestroy, stop_io_thread, TInv, TypeOK
  <2> QED BY <2>1, <2>2, <2>3, NothingMoves, StacksUnchanged
<1>2. CASE EventThreadPut
  <2>1. evt.hand \in Ev /\ evt.hand # NoEv /\ evt' = [pc |-> "process", hand |-> NoEv]
    BY <1>2 DEF EventThreadPut, TInv, TypeOK, HandsFull
  <2>2. PutTask(event[evt.hand].interp, evt.hand) /\ UNCHANGED <<event, eventq, io, frames>>
    BY <1>2 DEF EventThreadPut
  <2>3. event[evt.hand].type # "FREE" /\ io.hand # evt.hand
    BY <2>1, OneHolder
  <2>4. evt'.hand # evt.hand /\ \A e \in Ev \ {evt.hand} : evt'.hand = e <=> evt.hand = e
    BY <2>1, EvFacts
  <2> QED BY <2>1, <2>2, <2>3, <2>4, PutTaskOwned
<1> QED BY <1>1, <1>2, ProcessOwned DEF EventThread

\* Signals and the IO thread keep the ownership.
LEMMA IoOwned == ASSUME TInv, OInv, sig_handler \/ IoThread PROVE OInv'
<1>1. CASE sig_handler \/ IoEintr \/ IoStop
  <2>1. UNCHANGED <<event, eventq, taskq, frames, evt>>
    BY <1>1 DEF sig_handler, IoEintr, IoStop
  <2>2. io'.hand = io.hand
    BY <1>1 DEF sig_handler, IoEintr, IoStop, TInv, TypeOK
  <2> QED BY <2>1, <2>2, NothingMoves, StacksUnchanged
<1>2. ASSUME NEW i \in Interp, IoEnable(i) PROVE OInv'
  <2> DEFINE x == NewEvent
             r == UntimedEvent(i, "SIGNAL")
  <2>1. x \in Ev /\ event[x].type = "FREE"
    BY <1>2, NewEventIsFree DEF IoEnable, Room
  <2>2. /\ event' = [event EXCEPT ![x] = r] /\ io.pc = "enable"
        /\ UNCHANGED <<eventq, taskq, evt, frames>>
    BY <1>2 DEF IoEnable
  <2>3. io'.hand = x
    BY <1>2 DEF IoEnable, TInv, TypeOK
  <2>4. RecOK(r) /\ r.type = "SIGNAL" /\ r.interp = i
    BY NewRecordsOK
  <2> HIDE DEF x, r
  <2>5. event'[x] = r /\ \A e \in Ev \ {x} : event'[e] = event[e]
    BY <2>1, <2>2 DEF TInv, TypeOK
  <2>6. io.hand = NoEv /\ \A e \in Ev : e # NoEv
    BY <2>2, EvFacts DEF TInv, HandsFull
  <2>7. QueuesOK'
    BY <2>2 DEF OInv, QueuesOK
  <2>8. EventsOK'
    BY <2>4, <2>5 DEF OInv, EventsOK
  <2>9. /\ ~ In(x, eventq) /\ evt.hand # x
        /\ \A j \in Interp : ~ In(x, taskq[j]) /\ ~ Serves(x, frames[j])
    BY <2>1, OneHolder
  <2>10. HeldBy(x, "io_thread")
    BY <2>2, <2>3, <2>4, <2>5, <2>9 DEF HeldBy
  <2>11. \A e \in Ev \ {x} : Untouched(e)
    BY <2>2, <2>3, <2>5, <2>6 DEF Untouched
  <2>12. "io_thread" \in Holder
    BY DEF Holder
  <2> QED BY <2>1, <2>7, <2>8, <2>10, <2>11, <2>12, OneMoves
<1>3. CASE IoPut
  <2>1. io.hand \in Ev /\ io.hand # NoEv /\ io'.hand = NoEv
    BY <1>3 DEF IoPut, TInv, TypeOK, HandsFull
  <2>2. PutTask(event[io.hand].interp, io.hand) /\ UNCHANGED <<event, eventq, evt, frames>>
    BY <1>3 DEF IoPut
  <2>3. event[io.hand].type # "FREE" /\ evt.hand # io.hand
    BY <2>1, OneHolder
  <2>4. io'.hand # io.hand /\ \A e \in Ev \ {io.hand} : io'.hand = e <=> io.hand = e
    BY <2>1, EvFacts
  <2> QED BY <2>1, <2>2, <2>3, <2>4, PutTaskOwned
<1> QED BY <1>1, <1>2, <1>3 DEF IoThread

\* What an interpreter does with its tasks keeps the ownership.
LEMMA HandlesOwned ==
    ASSUME TInv, OInv, NEW i \in Interp, HandlesTasks(i)
    PROVE  OInv'
<1>0. /\ TypeOK /\ frames[i] \in Seq(Frame) /\ StackOK(frames[i])
      /\ event \in [Ev -> EventRec] /\ frames \in [Interp -> Seq(Frame)]
  BY DEF TInv, TypeOK, OInv, QueuesOK
<1>1. CASE LoopEnds(i)
  <2> DEFINE n == Len(frames[i])
             o == SubSeq(frames[i], 1, n-1)
             g == [o EXCEPT ![n-1].term = o[n-1].term \/ frames[i][n].term]
  <2>1. frames[i] # <<>> /\ frames' = [frames EXCEPT ![i] = Returned(frames[i])]
    BY <1>1 DEF LoopEnds
  <2>2. frames[i][n].k # "run"
    BY <1>1 DEF LoopEnds, Top
  <2>3. /\ StackOK(o) /\ \A e \in Ev : Serves(e, o) <=> Serves(e, frames[i])
    BY <1>0, <2>1, <2>2, StackPop
  <2>4. n - 1 \in Int /\ o \in Seq(Frame) /\ Len(o) \in Nat
    BY <1>0, <2>1, PopFrame
  <2>5. Returned(frames[i]) = g
    BY DEF Returned
  <2>6. /\ g \in Seq(Frame) /\ Len(g) = Len(o)
        /\ \A k \in 1 .. Len(o) : g[k].ev = o[k].ev /\ g[k].k = o[k].k
    <3> DEFINE b == o[n-1].term \/ frames[i][n].term
    <3>1. b \in BOOLEAN /\ g = [o EXCEPT ![n-1].term = b]
      OBVIOUS
    <3> HIDE DEF b, o, n
    <3>2. g \in Seq(Frame)
      BY <2>4, <3>1, SetTerm
    <3>3. Len(g) = Len(o)
      BY <2>4, <3>1, SetTerm
    <3>4. \A k \in 1 .. Len(o) : g[k].ev = o[k].ev
      BY <2>4, <3>1, SetTerm
    <3>5. \A k \in 1 .. Len(o) : g[k].k = o[k].k
      BY <2>4, <3>1, SetTerm
    <3> QED BY <3>2, <3>3, <3>4, <3>5
  <2> HIDE DEF g, o
  <2>7. StackOK(g) /\ \A e \in Ev : Serves(e, g) <=> Serves(e, frames[i])
    BY <2>3, <2>4, <2>6, StackSame
  <2>8. SameStacks
    BY <1>0, <2>1, <2>5, <2>7, OneSameStack
  <2> QED BY <1>1, <2>8, NothingMoves DEF LoopEnds
<1> DEFINE x == Head(taskq[i])
<1>2. "nobody" \in Holder /\ "do_event" \in Holder
  BY DEF Holder
<1>3. CASE DoSleep(i) \/ DoTerminate(i)
  <2>1. TakesTask(i, {"SLEEP", "TERMINATE"}) /\ frames[i] # <<>>
    BY <1>3 DEF DoSleep, DoTerminate, TakesTask
  <2>2. event' = [event EXCEPT ![x] = FreeEvent] /\ UNCHANGED <<eventq, evt, io>>
    BY <1>3 DEF DoSleep, DoTerminate, FreeTask
  <2>3. SameStacks
    <3>1. CASE DoSleep(i)
      BY <3>1, StacksUnchanged DEF DoSleep
    <3>2. CASE DoTerminate(i)
      <4> DEFINE n == Len(frames[i])
                 g == [frames[i] EXCEPT ![n].term = TRUE]
      <4>1. frames' = [frames EXCEPT ![i] = g]
        BY <1>0, <3>2 DEF DoTerminate
      <4>2. n \in Int
        BY <1>0, LenProperties
      <4>3. /\ g \in Seq(Frame) /\ Len(g) = Len(frames[i])
            /\ \A k \in 1 .. Len(frames[i]) : /\ g[k].ev = frames[i][k].ev
                                              /\ g[k].k = frames[i][k].k
        <5> HIDE DEF n
        <5>1. g \in Seq(Frame)
          BY <1>0, <4>2, SetTerm
        <5>2. Len(g) = Len(frames[i])
          BY <1>0, <4>2, SetTerm
        <5>3. \A k \in 1 .. Len(frames[i]) : g[k].ev = frames[i][k].ev
          BY <1>0, <4>2, SetTerm
        <5>4. \A k \in 1 .. Len(frames[i]) : g[k].k = frames[i][k].k
          BY <1>0, <4>2, SetTerm
        <5> QED BY <5>1, <5>2, <5>3, <5>4
      <4> HIDE DEF g
      <4>4. StackOK(g) /\ \A e \in Ev : Serves(e, g) <=> Serves(e, frames[i])
        BY <1>0, <4>3, StackSame
      <4> QED BY <1>0, <4>1, <4>4, OneSameStack
    <3> QED BY <1>3, <3>1, <3>2
  <2>4. /\ x \in Ev /\ ~ In(x, eventq) /\ evt.hand # x /\ io.hand # x
        /\ \A j \in Interp : /\ ~ Serves(x, frames[j]) /\ ~ In(x, taskq'[j])
                             /\ Once(taskq'[j])
        /\ \A e \in Ev \ {x}, j \in Interp : In(e, taskq'[j]) <=> In(e, taskq[j])
    BY <2>1, TakesTaskOwned
  <2> HIDE DEF x
  <2>5. event'[x] = FreeEvent /\ \A e \in Ev \ {x} : event'[e] = event[e]
    BY <1>0, <2>2, <2>4
  <2>6. FreeEvent.type = "FREE"
    BY DEF FreeEvent
  <2>7. QueuesOK'
    BY <2>2, <2>3, <2>4 DEF OInv, QueuesOK, SameStacks
  <2>8. EventsOK'
    BY <2>5, NewRecordsOK DEF OInv, EventsOK
  <2>9. HeldBy(x, "nobody")
    BY <2>2, <2>3, <2>4, <2>5, <2>6 DEF HeldBy, SameStacks
  <2>10. \A e \in Ev \ {x} : Untouched(e)
    BY <2>2, <2>3, <2>4, <2>5 DEF Untouched, SameStacks
  <2> QED BY <1>2, <2>4, <2>7, <2>8, <2>9, <2>10, OneMoves
<1>4. CASE DoHandler(i)
  <2>1. TakesTask(i, {"TIMER", "CALL_BACK"}) /\ frames[i] # <<>>
    BY <1>4 DEF DoHandler, TakesTask
  <2>2. UNCHANGED <<event, eventq, evt, io>>
    BY <1>4 DEF DoHandler
  <2>3. /\ x \in Ev /\ ~ In(x, eventq) /\ evt.hand # x /\ io.hand # x
        /\ event[x].interp = i /\ event[x].type \notin {"FREE", "NONE", "EVENT_TERMINATE"}
        /\ \A j \in Interp : /\ ~ Serves(x, frames[j]) /\ ~ In(x, taskq'[j])
                             /\ Once(taskq'[j])
        /\ \A e \in Ev \ {x}, j \in Interp : In(e, taskq'[j]) <=> In(e, taskq[j])
    BY <2>1, TakesTaskOwned
  <2> DEFINE g == Append([frames[i] EXCEPT ![Len(frames[i])].ev = x], RunFrame)
  <2>4. \A j \in Interp : frames'[j] = IF j = i THEN g ELSE frames[j]
    BY <1>0, <1>4 DEF DoHandler
  <2> HIDE DEF x
  <2>6. StackOK(g) /\ \A e \in Ev : Serves(e, g) <=> e = x \/ Serves(e, frames[i])
    <3> DEFINE fs == frames[i]
    <3>1. /\ ~ Serves(x, fs) /\ fs \in Seq(Frame) /\ StackOK(fs) /\ fs # <<>> /\ x \in Ev
          /\ g = Append([fs EXCEPT ![Len(fs)].ev = x], RunFrame)
      BY <1>0, <2>1, <2>3
    <3> HIDE DEF fs, g
    <3>2. StackOK(g) /\ \A e \in Ev : Serves(e, g) <=> e = x \/ Serves(e, fs)
      <4>1. StackOK(Handles(fs, x)) /\ \A e \in Ev : Serves(e, Handles(fs, x)) <=> e = x \/ Serves(e, fs)
        BY <3>1, StackHandler
      <4> QED BY <3>1, <4>1 DEF Handles
    <3> QED BY <3>2 DEF fs
  <2> HIDE DEF g
  <2>7. QueuesOK'
    BY <2>2, <2>3, <2>4, <2>6 DEF OInv, QueuesOK
  <2>8. EventsOK'
    BY <2>2 DEF OInv, EventsOK
  <2>9. HeldBy(x, "do_event")
    BY <2>2, <2>3, <2>4, <2>6 DEF HeldBy
  <2>10. \A e \in Ev \ {x} : Untouched(e)
    BY <2>2, <2>3, <2>4, <2>6 DEF Untouched
  <2> QED BY <1>2, <2>3, <2>7, <2>8, <2>9, <2>10, OneMoves
<1>5. CASE DoSignal(i)
  <2> DEFINE o == SubSeq(frames[i], 1, Len(frames[i]) - 1)
             g == [o EXCEPT ![Len(o)].term = TRUE]
  <2>1. /\ TakesTask(i, {"SIGNAL"}) /\ frames[i] # <<>>
        /\ frames[i][Len(frames[i])].k # "run"
    BY <1>5 DEF DoSignal, TakesTask, Top
  <2>2. /\ \/ frames' = [frames EXCEPT ![i] = o] /\ UNCHANGED evt
           \/ frames' = [frames EXCEPT ![i] = g] /\ UNCHANGED evt
           \/ evt' = [evt EXCEPT !.pc = "died"] /\ UNCHANGED frames
        /\ UNCHANGED <<event, eventq, io>>
    BY <1>5 DEF DoSignal
  <2>3. evt'.hand = evt.hand
    BY <2>2 DEF TInv, TypeOK
  <2>4. StackOK(o) /\ \A e \in Ev : Serves(e, o) <=> Serves(e, frames[i])
    BY <1>0, <2>1, StackPop
  <2>5. o \in Seq(Frame) /\ Len(o) \in Int
    BY <1>0, <2>1, PopFrame
  <2> HIDE DEF o
  <2>7. /\ g \in Seq(Frame) /\ Len(g) = Len(o)
        /\ \A k \in 1 .. Len(o) : g[k].ev = o[k].ev /\ g[k].k = o[k].k
    <3>1. g \in Seq(Frame)
      BY <2>5, SetTerm
    <3>2. Len(g) = Len(o)
      BY <2>5, SetTerm
    <3>3. \A k \in 1 .. Len(o) : g[k].ev = o[k].ev
      BY <2>5, SetTerm
    <3>4. \A k \in 1 .. Len(o) : g[k].k = o[k].k
      BY <2>5, SetTerm
    <3> QED BY <3>1, <3>2, <3>3, <3>4
  <2> HIDE DEF g
  <2>8. StackOK(g) /\ \A e \in Ev : Serves(e, g) <=> Serves(e, frames[i])
    BY <2>4, <2>5, <2>7, StackSame
  <2>9. SameStacks
    BY <1>0, <2>2, <2>4, <2>8, OneSameStack, StacksUnchanged
  <2>10. /\ x \in Ev /\ ~ In(x, eventq) /\ evt.hand # x /\ io.hand # x
         /\ event[x].type = "SIGNAL"
         /\ \A j \in Interp : /\ ~ Serves(x, frames[j]) /\ ~ In(x, taskq'[j])
                              /\ Once(taskq'[j])
         /\ \A e \in Ev \ {x}, j \in Interp : In(e, taskq'[j]) <=> In(e, taskq[j])
    BY <2>1, TakesTaskOwned
  <2> HIDE DEF x
  <2>11. QueuesOK'
    BY <2>2, <2>9, <2>10 DEF OInv, QueuesOK, SameStacks
  <2>12. EventsOK'
    BY <2>2 DEF OInv, EventsOK
  <2>13. HeldBy(x, "nobody")
    BY <2>2, <2>3, <2>9, <2>10 DEF HeldBy, SameStacks
  <2>14. \A e \in Ev \ {x} : Untouched(e)
    BY <2>2, <2>3, <2>9, <2>10 DEF Untouched, SameStacks
  <2> QED BY <1>2, <2>10, <2>11, <2>12, <2>13, <2>14, OneMoves
<1> QED BY <1>1, <1>3, <1>4, <1>5 DEF HandlesTasks

\* A run loop that ends frees the event of its handler, if it ran one.
LEMMA RunLoopOwned ==
    ASSUME TInv, OInv, NEW i \in Interp, RunLoopEnds(i)
    PROVE  OInv'
<1> DEFINE fs == frames[i]
           n == Len(fs)
<1>0. /\ TypeOK /\ fs \in Seq(Frame) /\ StackOK(fs) /\ fs # <<>>
      /\ event \in [Ev -> EventRec] /\ n \in Nat
      /\ UNCHANGED <<eventq, taskq, evt, io>>
  BY LenProperties DEF TInv, TypeOK, OInv, QueuesOK, RunLoopEnds
<1>1. CASE n = 1
  <2>1. frames' = [frames EXCEPT ![i] = <<>>] /\ UNCHANGED event
    BY <1>1 DEF RunLoopEnds
  <2>2. StackOK(<<>>) /\ \A e \in Ev : ~ Serves(e, <<>>)
    <3>1. 1 .. Len(<<>>) = {}
      OBVIOUS
    <3> QED BY <3>1 DEF StackOK, Serves
  <2>3. fs[n].ev = NoEv
    BY <1>0, TopServesNone
  <2>4. \A e \in Ev : ~ Serves(e, fs)
    <3>1. \A k \in 1 .. n : k = n
      BY <1>1
    <3> QED BY <2>3, <3>1, EvFacts DEF Serves
  <2>5. SameStacks
    BY <1>0, <2>1, <2>2, <2>4, OneSameStack
  <2> QED BY <1>0, <2>1, <2>5, NothingMoves
<1>2. CASE n # 1
  <2> DEFINE y == fs[n-1].ev
             g == [SubSeq(fs, 1, n - 1) EXCEPT ![n - 1].ev = NoEv]
  <2>1. /\ frames' = [frames EXCEPT ![i] = g]
        /\ event' = [event EXCEPT ![y] = FreeEvent]
    BY <1>2 DEF RunLoopEnds
  <2>2. /\ n - 1 \in 1 .. n /\ StackOK(g)
        /\ \A x \in Ev : Serves(x, g) <=> Serves(x, fs) /\ x # y
    <3>1. g = [SubSeq(fs, 1, Len(fs) - 1) EXCEPT ![Len(fs) - 1].ev = NoEv]
      OBVIOUS
    <3> HIDE DEF g, fs
    <3> QED BY <1>0, <1>2, <3>1, StackRunEnds
  <2>3. y \in Ev \cup {NoEv}
    <3>1. fs[n-1] \in Frame
      BY <1>0, <2>2, ElementOfSeq
    <3> QED BY <3>1 DEF Frame
  <2> HIDE DEF g
  <2>4. \A j \in Interp : frames'[j] = IF j = i THEN g ELSE frames[j]
    BY <1>0, <2>1 DEF TypeOK
  <2>5. CASE y = NoEv
    <3>1. UNCHANGED event
      BY <1>0, <2>1, <2>5, EvFacts
    <3>2. \A x \in Ev : x # y
      BY <2>5, EvFacts
    <3> HIDE DEF y
    <3>3. SameStacks
      BY <1>0, <2>1, <2>2, <3>2, OneSameStack
    <3> QED BY <1>0, <3>1, <3>3, NothingMoves
  <2>6. CASE y \in Ev
    <3>1. Serves(y, fs)
      BY <2>2 DEF Serves
    <3> HIDE DEF y, n
    <3>2. /\ ~ In(y, eventq) /\ evt.hand # y /\ io.hand # y
          /\ \A j \in Interp : ~ In(y, taskq[j]) /\ (Serves(y, frames[j]) => j = i)
      BY <2>6, <3>1, OneHolder
    <3>3. QueuesOK'
      BY <1>0, <2>2, <2>4 DEF OInv, QueuesOK
    <3>4. \A e \in Ev : event'[e] = IF e = y THEN FreeEvent ELSE event[e]
      BY <1>0, <2>1
    <3>5. EventsOK'
      BY <3>4, NewRecordsOK DEF OInv, EventsOK
    <3>6. FreeEvent.type = "FREE"
      BY DEF FreeEvent
    <3>7. \A j \in Interp : ~ Serves(y, frames'[j])
      BY <2>2, <2>4, <2>6, <3>2
    <3>8. HeldBy(y, "nobody")
      BY <1>0, <2>6, <3>2, <3>4, <3>6, <3>7 DEF HeldBy
    <3>9. \A e \in Ev \ {y} : Untouched(e)
      BY <1>0, <2>2, <2>4, <3>4 DEF Untouched
    <3>10. "nobody" \in Holder
      BY DEF Holder
    <3> QED BY <2>6, <3>3, <3>5, <3>8, <3>9, <3>10, OneMoves
  <2> QED BY <2>3, <2>5, <2>6
<1> QED BY <1>1, <1>2

\* The interpreters keep the ownership.
LEMMA InterpretersOwned == ASSUME TInv, OInv, Interpreters PROVE OInv'
<1>0. TypeOK
  BY DEF TInv
<1> DEFINE h == [RunFrame EXCEPT !.k = "handle"]
<1>1. h \in Frame /\ h.ev = NoEv
  BY EvFacts DEF RunFrame, Frame
<1> HIDE DEF h
<1>2. ASSUME NEW i \in Interp, CheckEvents(i) \/ Parrot_do_check_events(i)
      PROVE  OInv'
  <2>1. /\ frames' = [frames EXCEPT ![i] = Append(frames[i], h)]
        /\ UNCHANGED <<event, eventq, taskq, evt, io>>
    BY <1>2 DEF CheckEvents, Parrot_do_check_events, Push, h
  <2>2. frames[i] \in Seq(Frame) /\ StackOK(frames[i])
    BY <1>0 DEF TypeOK, OInv, QueuesOK
  <2>3. /\ StackOK(Append(frames[i], h))
        /\ \A e \in Ev : Serves(e, Append(frames[i], h)) <=> Serves(e, frames[i])
    BY <1>1, <2>2, StackPush
  <2>4. SameStacks
    BY <1>0, <2>1, <2>3, OneSameStack
  <2> QED BY <2>1, <2>4, NothingMoves
<1> QED BY <1>2, RunLoopOwned, HandlesOwned DEF Interpreters

\* Time keeps the ownership.
LEMMA TickOwned == ASSUME TInv, OInv, Tick PROVE OInv'
<1>1. TypeOK
  BY DEF TInv
<1>2. \A i \in Interp : /\ frames[i] \in Seq(Frame) /\ frames'[i] \in Seq(Frame)
                        /\ StackOK(frames[i]) /\ Len(frames'[i]) = Len(frames[i])
                        /\ \A n \in 1 .. Len(frames[i]) :
                              /\ frames'[i][n].ev = frames[i][n].ev
                              /\ frames'[i][n].k = frames[i][n].k
  BY <1>1, TickEffect DEF TypeOK, OInv, QueuesOK
<1>3. SameStacks
  BY <1>2, StackSame DEF SameStacks
<1>4. \A e \in Ev : /\ event'[e].type = event[e].type
                    /\ event'[e].interp = event[e].interp
                    /\ event'[e].interval = event[e].interval
                    /\ event'[e].timed = event[e].timed
  BY <1>1, TickEffect
<1>5. UNCHANGED <<eventq, taskq, evt, io>>
  BY DEF Tick
<1> QED BY <1>3, <1>4, <1>5, NothingMoves

\* Initially no event is allocated.
LEMMA InitOwned == Init => OInv
<1> SUFFICES ASSUME Init PROVE OInv
  OBVIOUS
<1>1. /\ \A e \in Ev : event[e] = FreeEvent
      /\ eventq = <<>> /\ evt.hand = NoEv /\ io.hand = NoEv
      /\ \A i \in Interp : taskq[i] = <<>> /\ frames[i] = <<RunFrame>>
  BY DEF Init
<1>2. Once(<<>>) /\ \A e : ~ In(e, <<>>)
  <2>1. 1 .. Len(<<>>) = {}
    OBVIOUS
  <2> QED BY <2>1 DEF Once, In
<1>3. StackOK(<<RunFrame>>) /\ \A e \in Ev : ~ Serves(e, <<RunFrame>>)
  <2> DEFINE s == <<RunFrame>>
  <2>1. Len(s) = 1 /\ s[1] = RunFrame
    OBVIOUS
  <2> HIDE DEF s
  <2>2. \A k \in 1 .. Len(s) : s[k].ev = NoEv
    BY <2>1 DEF RunFrame
  <2> QED BY <2>2, EvFacts DEF StackOK, Serves, s
<1>4. FreeEvent.type = "FREE" /\ RecOK(FreeEvent)
  BY NewRecordsOK DEF FreeEvent
<1>5. OwnedBy([e \in Ev |-> "nobody"])
  BY <1>1, <1>2, <1>3, <1>4, EvFacts DEF OwnedBy, Holder
<1> QED BY <1>1, <1>2, <1>3, <1>4, <1>5 DEF OInv, QueuesOK, EventsOK

\* Every step keeps the ownership.
LEMMA NextOwned == TInv /\ OInv /\ [Next]_vars => OInv'
<1> SUFFICES ASSUME TInv, OInv, [Next]_vars PROVE OInv'
  OBVIOUS
<1>1. CASE UNCHANGED vars
  <2>1. UNCHANGED <<event, eventq, taskq, evt, io, frames>>
    BY <1>1 DEF vars
  <2>2. SameStacks
    BY <2>1, StacksUnchanged
  <2> QED BY <2>1, <2>2, NothingMoves
<1> QED BY <1>1, SchedulesOwned, EventThreadOwned, IoOwned, InterpretersOwned, TickOwned
        DEF Next

\* The places of an event, one kind after the other.
LEMMA PlacesOf ==
    ASSUME NEW e, NEW p
    PROVE  p \in Places(e) <=>
              \/ \E k \in 1 .. Len(eventq) : eventq[k] = e /\ p = <<"event_queue", k>>
              \/ \E i \in Interp : \E k \in 1 .. Len(taskq[i]) :
                    taskq[i][k] = e /\ p = <<"task_queue", i, k>>
              \/ \E i \in Interp : \E k \in 1 .. Len(frames[i]) :
                    frames[i][k].ev = e /\ p = <<"do_event", i, k>>
              \/ evt.hand = e /\ p = <<"event_thread">>
              \/ io.hand = e /\ p = <<"io_thread">>
<1> DEFINE A == {<<"event_queue", k>> : k \in {n \in 1 .. Len(eventq) : eventq[n] = e}}
           B == UNION {{<<"task_queue", i, k>> :
                           k \in {n \in 1 .. Len(taskq[i]) : taskq[i][n] = e}} : i \in Interp}
           C == UNION {{<<"do_event", i, k>> :
                           k \in {n \in 1 .. Len(frames[i]) : frames[i][n].ev = e}} :
                       i \in Interp}
           D == {<<"event_thread">> : x \in {evt.hand} \cap {e}}
           E == {<<"io_thread">> : x \in {io.hand} \cap {e}}
<1>1. p \in A <=> \E k \in 1 .. Len(eventq) : eventq[k] = e /\ p = <<"event_queue", k>>
  OBVIOUS
<1>2. p \in B <=> \E i \in Interp : \E k \in 1 .. Len(taskq[i]) :
                     taskq[i][k] = e /\ p = <<"task_queue", i, k>>
  <2> DEFINE S(i) == {<<"task_queue", i, k>> :
                         k \in {n \in 1 .. Len(taskq[i]) : taskq[i][n] = e}}
  <2>1. B = UNION {S(i) : i \in Interp}
    BY Zenon
  <2>2. \A i : p \in S(i) <=> \E k \in 1 .. Len(taskq[i]) :
                     taskq[i][k] = e /\ p = <<"task_queue", i, k>>
    OBVIOUS
  <2> HIDE DEF B, S
  <2> QED BY <2>1, <2>2
<1>3. p \in C <=> \E i \in Interp : \E k \in 1 .. Len(frames[i]) :
                     frames[i][k].ev = e /\ p = <<"do_event", i, k>>
  <2> DEFINE S(i) == {<<"do_event", i, k>> :
                         k \in {n \in 1 .. Len(frames[i]) : frames[i][n].ev = e}}
  <2>1. C = UNION {S(i) : i \in Interp}
    BY Zenon
  <2>2. \A i : p \in S(i) <=> \E k \in 1 .. Len(frames[i]) :
                     frames[i][k].ev = e /\ p = <<"do_event", i, k>>
    OBVIOUS
  <2> HIDE DEF C, S
  <2> QED BY <2>1, <2>2
<1>4. p \in D <=> evt.hand = e /\ p = <<"event_thread">>
  OBVIOUS
<1>5. p \in E <=> io.hand = e /\ p = <<"io_thread">>
  OBVIOUS
<1>6. p \in Places(e) <=> p \in A \/ p \in B \/ p \in C \/ p \in D \/ p \in E
  BY Zenon DEF Places
<1> HIDE DEF A, B, C, D, E
<1> QED BY <1>1, <1>2, <1>3, <1>4, <1>5, <1>6

\* An event that has a holder is in one place, the others are in none.
LEMMA OnePlace ==
    ASSUME OInv, NEW e \in Ev
    PROVE  \/ \E p : Places(e) = {p} /\ event[e].type # "FREE"
           \/ Places(e) = {} /\ event[e].type \in {"FREE", "SIGNAL"}
<1>1. PICK h \in Holder :
         /\ In(e, eventq) <=> h = "event_queue"
         /\ evt.hand = e <=> h = "event_thread"
         /\ io.hand = e <=> h = "io_thread"
         /\ event[e].type = "FREE" => h = "nobody"
         /\ h = "nobody" => event[e].type \in {"FREE", "SIGNAL"}
         /\ event[e].type \in {"NONE", "EVENT_TERMINATE"} => h = "event_queue"
         /\ \A i \in Interp :
               /\ In(e, taskq[i]) <=> h = "task_queue" /\ event[e].interp = i
               /\ Serves(e, frames[i]) <=> h = "do_event" /\ event[e].interp = i
  BY OneHolder
<1> DEFINE i == event[e].interp
<1>2. ASSUME NEW p \in Places(e)
      PROVE  \/ /\ h = "event_queue"
                /\ \E k \in 1 .. Len(eventq) : eventq[k] = e /\ p = <<"event_queue", k>>
             \/ /\ h = "task_queue" /\ i \in Interp
                /\ \E k \in 1 .. Len(taskq[i]) :
                      taskq[i][k] = e /\ p = <<"task_queue", i, k>>
             \/ /\ h = "do_event" /\ i \in Interp
                /\ \E k \in 1 .. Len(frames[i]) :
                      frames[i][k].ev = e /\ p = <<"do_event", i, k>>
             \/ h = "event_thread" /\ p = <<"event_thread">>
             \/ h = "io_thread" /\ p = <<"io_thread">>
  <2>1. CASE \E k \in 1 .. Len(eventq) : eventq[k] = e /\ p = <<"event_queue", k>>
    BY <1>1, <2>1 DEF In
  <2>2. CASE \E j \in Interp : \E k \in 1 .. Len(taskq[j]) :
                taskq[j][k] = e /\ p = <<"task_queue", j, k>>
    <3>1. PICK j \in Interp : \E k \in 1 .. Len(taskq[j]) :
                taskq[j][k] = e /\ p = <<"task_queue", j, k>>
      BY <2>2
    <3>2. In(e, taskq[j])
      BY <3>1 DEF In
    <3>3. h = "task_queue" /\ i = j
      BY <1>1, <3>2
    <3> QED BY <3>1, <3>3
  <2>3. CASE \E j \in Interp : \E k \in 1 .. Len(frames[j]) :
                frames[j][k].ev = e /\ p = <<"do_event", j, k>>
    <3>1. PICK j \in Interp : \E k \in 1 .. Len(frames[j]) :
                frames[j][k].ev = e /\ p = <<"do_event", j, k>>
      BY <2>3
    <3>2. Serves(e, frames[j])
      BY <3>1 DEF Serves
    <3>3. h = "do_event" /\ i = j
      BY <1>1, <3>2
    <3> QED BY <3>1, <3>3
  <2>4. CASE evt.hand = e /\ p = <<"event_thread">>
    BY <1>1, <2>4
  <2>5. CASE io.hand = e /\ p = <<"io_thread">>
    BY <1>1, <2>5
  <2> QED BY <2>1, <2>2, <2>3, <2>4, <2>5, PlacesOf
<1> HIDE DEF i
<1>3. ASSUME NEW p \in Places(e), NEW q \in Places(e) PROVE p = q
  <2>1. CASE h = "event_queue"
    BY <1>2, <2>1 DEF OInv, QueuesOK, Once
  <2>2. CASE h = "task_queue"
    BY <1>2, <2>2 DEF OInv, QueuesOK, Once
  <2>3. CASE h = "do_event"
    <3>1. e # NoEv
      BY EvFacts
    <3> QED BY <1>2, <2>3, <3>1 DEF OInv, QueuesOK, StackOK
  <2>4. CASE h \in {"event_thread", "io_thread"}
    BY <1>2, <2>4
  <2>5. CASE h = "nobody"
    BY <1>2, <2>5
  <2> QED BY <2>1, <2>2, <2>3, <2>4, <2>5 DEF Holder
<1>4. CASE h = "nobody"
  <2>1. Places(e) = {}
    BY <1>2, <1>4
  <2> QED BY <1>1, <1>4, <2>1
<1>5. CASE h # "nobody"
  <2>1. event[e].type # "FREE"
    BY <1>1, <1>5
  <2>2. \E p : p \in Places(e)
    <3>1. CASE h = "event_queue"
      <4>1. PICK k \in 1 .. Len(eventq) : eventq[k] = e
        BY <1>1, <3>1 DEF In
      <4>2. <<"event_queue", k>> \in Places(e)
        BY <4>1, PlacesOf
      <4> QED BY <4>2
    <3>2. CASE h = "task_queue"
      <4>1. i \in Interp /\ In(e, taskq[i])
        BY <1>1, <2>1, <3>2 DEF i, OInv, EventsOK, RecOK
      <4>2. PICK k \in 1 .. Len(taskq[i]) : taskq[i][k] = e
        BY <4>1 DEF In
      <4>3. <<"task_queue", i, k>> \in Places(e)
        BY <4>1, <4>2, PlacesOf
      <4> QED BY <4>3
    <3>3. CASE h = "do_event"
      <4>1. i \in Interp /\ Serves(e, frames[i])
        BY <1>1, <2>1, <3>3 DEF i, OInv, EventsOK, RecOK
      <4>2. PICK k \in 1 .. Len(frames[i]) : frames[i][k].ev = e
        BY <4>1 DEF Serves
      <4>3. <<"do_event", i, k>> \in Places(e)
        BY <4>1, <4>2, PlacesOf
      <4> QED BY <4>3
    <3>4. CASE h = "event_thread"
      <4>1. <<"event_thread">> \in Places(e)
        BY <1>1, <3>4, PlacesOf
      <4> QED BY <4>1
    <3>5. CASE h = "io_thread"
      <4>1. <<"io_thread">> \in Places(e)
        BY <1>1, <3>5, PlacesOf
      <4> QED BY <4>1
    <3> QED BY <1>5, <3>1, <3>2, <3>3, <3>4, <3>5 DEF Holder
  <2>3. PICK p : p \in Places(e)
    BY <2>2
  <2>4. Places(e) = {p}
    BY <1>3, <2>3
  <2> QED BY <2>1, <2>4
<1> QED BY <1>4, <1>5

\* No event is freed while it is queued or its handler runs, delivered twice
\* or lost, whatever the program does and however the threads interleave;
\* only the event of a signal is abandoned.
THEOREM EventOwnedByOne == Spec => []EventOwned
<1>1. OInv => EventOwned
  <2> SUFFICES ASSUME OInv, NEW e \in Ev
               PROVE  LET n == Cardinality(Places(e))
                      IN  /\ n <= 1
                          /\ event[e].type = "FREE" => n = 0
                          /\ n = 0 => event[e].type \in {"FREE", "SIGNAL"}
    BY DEF EventOwned
  <2>1. CASE \E p : Places(e) = {p} /\ event[e].type # "FREE"
    <3>1. Cardinality(Places(e)) = 1
      BY <2>1, FS_Singleton
    <3> QED BY <2>1, <3>1
  <2>2. CASE Places(e) = {} /\ event[e].type \in {"FREE", "SIGNAL"}
    <3>1. Cardinality(Places(e)) = 0
      BY <2>2, FS_EmptySet
    <3> QED BY <2>2, <3>1
  <2> QED BY <2>1, <2>2, OnePlace
<1>2. Init => TInv /\ OInv
  BY InitTypes, InitOwned
<1>3. TInv /\ OInv /\ [Next]_vars => (TInv /\ OInv)'
  BY NextTypes, NextOwned
<1> QED BY <1>1, <1>2, <1>3, PTL DEF Spec

-----------------------------------------------------------------------------
(***************************************************************************)
(* The order of the event queue.                                           *)
(***************************************************************************)
\* Whether entry b may follow entry a
Before(ev, a, b) == ev[a].timed /\ ev[b].timed => ev[a].due <= ev[b].due

QueueOrdered(ev, s) == \A k \in 1 .. Len(s) - 1 : Before(ev, s[k], s[k+1])

\* The order of the event queue, as an order of its neighbours.
LEMMA OrderOfQueue == TimedOrder <=> QueueOrdered(event, eventq)
BY DEF TimedOrder, QueueOrdered, Before

\* Only the entries of a queue matter for its order.
LEMMA OrderKept ==
    ASSUME NEW s \in Seq(Ev), QueueOrdered(event, s),
           \A e \in Ev : In(e, s) => /\ event'[e].timed = event[e].timed
                                     /\ event'[e].due = event[e].due
    PROVE  QueueOrdered(event', s)
<1> SUFFICES ASSUME NEW k \in 1 .. Len(s) - 1 PROVE Before(event', s[k], s[k+1])
  BY DEF QueueOrdered
<1>1. k \in 1 .. Len(s) /\ k+1 \in 1 .. Len(s)
  BY LenProperties
<1>2. s[k] \in Ev /\ s[k+1] \in Ev /\ In(s[k], s) /\ In(s[k+1], s)
  BY <1>1, ElementOfSeq DEF In
<1> QED BY <1>2 DEF QueueOrdered, Before

\* A queue without its first entry is in order.
LEMMA OrderOfTail ==
    ASSUME NEW ev, NEW s \in Seq(Ev), s # <<>>, QueueOrdered(ev, s)
    PROVE  QueueOrdered(ev, Tail(s))
<1> DEFINE r == Tail(s)
<1>1. /\ Len(s) \in Nat \ {0} /\ Len(r) = Len(s) - 1
      /\ \A k \in 1 .. Len(r) : r[k] = s[k+1]
  BY EmptySeq, LenProperties, HeadTailProperties
<1> HIDE DEF r
<1> SUFFICES ASSUME NEW k \in 1 .. Len(r) - 1 PROVE Before(ev, r[k], r[k+1])
  BY DEF QueueOrdered, r
<1>2. k \in 1 .. Len(r) /\ k+1 \in 1 .. Len(r) /\ k+1 \in 1 .. Len(s) - 1
  BY <1>1
<1>3. r[k] = s[k+1] /\ r[k+1] = s[(k+1)+1]
  BY <1>1, <1>2
<1> QED BY <1>2, <1>3 DEF QueueOrdered

\* An entry that fits between its new neighbours keeps the order.
LEMMA OrderOfInsertion ==
    ASSUME NEW ev, NEW s \in Seq(Ev), QueueOrdered(ev, s), NEW x \in Ev, NEW r,
           NEW k \in 0 .. Len(s), IsInsertion(Ev, r, s, k, x),
           k > 0 => Before(ev, s[k], x),
           k < Len(s) => Before(ev, x, s[k+1])
    PROVE  QueueOrdered(ev, r)
<1>1. /\ Len(s) \in Nat /\ k \in Nat /\ k <= Len(s) /\ Len(r) = Len(s) + 1
      /\ \A j \in 1 .. Len(s) + 1 :
            r[j] = IF j <= k THEN s[j] ELSE IF j = k+1 THEN x ELSE s[j-1]
  BY LenProperties DEF IsInsertion
<1> SUFFICES ASSUME NEW j \in 1 .. Len(r) - 1 PROVE Before(ev, r[j], r[j+1])
  BY DEF QueueOrdered
<1>2. j \in 1 .. Len(s) + 1 /\ j+1 \in 1 .. Len(s) + 1 /\ j \in 1 .. Len(s)
  BY <1>1
<1>3. CASE j < k
  <2>1. r[j] = s[j] /\ r[j+1] = s[j+1]
    BY <1>1, <1>2, <1>3
  <2>2. j \in 1 .. Len(s) - 1
    BY <1>1, <1>2, <1>3
  <2> QED BY <2>1, <2>2 DEF QueueOrdered
<1>4. CASE j = k
  <2>1. r[j] = s[k] /\ r[j+1] = x /\ k > 0
    BY <1>1, <1>2, <1>4
  <2> QED BY <2>1
<1>5. CASE j = k+1
  <2>1. r[j] = x /\ r[j+1] = s[k+1] /\ k < Len(s)
    BY <1>1, <1>2, <1>5
  <2> QED BY <2>1
<1>6. CASE j > k+1
  <2>1. r[j] = s[j-1] /\ r[j+1] = s[(j-1)+1]
    BY <1>1, <1>2, <1>6
  <2>2. j-1 \in 1 .. Len(s) - 1
    BY <1>1, <1>2, <1>6
  <2> QED BY <2>1, <2>2 DEF QueueOrdered
<1> QED BY <1>1, <1>2, <1>3, <1>4, <1>5, <1>6

\* nosync_insert_entry keeps the order: the walk ends behind an entry that
\* is due earlier and before one that is not.
LEMMA OrderOfInserted ==
    ASSUME NEW ev \in [Ev -> EventRec], NEW s \in Seq(Ev), QueueOrdered(ev, s), NEW x \in Ev
    PROVE  QueueOrdered(ev, Inserted(s, x, TimedEvents(ev), Due(ev)))
<1> DEFINE r == Inserted(s, x, TimedEvents(ev), Due(ev))
<1>1. PICK k \in 0 .. Len(s) : /\ IsInsertPoint(s, k, x, TimedEvents(ev), Due(ev))
                               /\ IsInsertion(Ev, r, s, k, x)
  BY InsertedInserts
<1> HIDE DEF r
<1>2. ASSUME NEW e \in Ev
      PROVE  /\ WalksOver(x, e, TimedEvents(ev), Due(ev)) => Before(ev, e, x)
             /\ ~ WalksOver(x, e, TimedEvents(ev), Due(ev)) => Before(ev, x, e)
  <2>1. ev[e].due \in Int /\ ev[x].due \in Int
    BY DEF EventRec
  <2>2. Due(ev)[e] = ev[e].due /\ Due(ev)[x] = ev[x].due
    BY DEF Due
  <2>3. e \in TimedEvents(ev) <=> ev[e].timed
    BY DEF TimedEvents
  <2> QED BY <2>1, <2>2, <2>3 DEF WalksOver, Before
<1>3. k > 0 => Before(ev, s[k], x)
  <2> SUFFICES ASSUME k > 0 PROVE Before(ev, s[k], x)
    OBVIOUS
  <2>1. k \in 1 .. Len(s) /\ k \in 1 .. k
    BY LenProperties
  <2>2. s[k] \in Ev /\ WalksOver(x, s[k], TimedEvents(ev), Due(ev))
    BY <1>1, <2>1, ElementOfSeq DEF IsInsertPoint
  <2> QED BY <1>2, <2>2
<1>4. k < Len(s) => Before(ev, x, s[k+1])
  <2> SUFFICES ASSUME k < Len(s) PROVE Before(ev, x, s[k+1])
    OBVIOUS
  <2>1. k+1 \in 1 .. Len(s)
    BY LenProperties
  <2>2. s[k+1] \in Ev /\ ~ WalksOver(x, s[k+1], TimedEvents(ev), Due(ev))
    BY <1>1, <2>1, ElementOfSeq DEF IsInsertPoint
  <2> QED BY <1>2, <2>2
<1>5. QueueOrdered(ev, r)
  BY <1>1, <1>3, <1>4, OrderOfInsertion
<1> QED BY <1>5 DEF r

\* An entry without a time fits everywhere.
LEMMA OrderOfUntimed ==
    ASSUME NEW ev, NEW s \in Seq(Ev), QueueOrdered(ev, s), NEW x \in Ev, ~ ev[x].timed
    PROVE  QueueOrdered(ev, Cons(x, s)) /\ QueueOrdered(ev, Append(s, x))
<1>1. \A e : Before(ev, e, x) /\ Before(ev, x, e)
  BY DEF Before
<1>2. /\ 0 \in 0 .. Len(s) /\ IsInsertion(Ev, Cons(x, s), s, 0, x)
      /\ Len(s) \in 0 .. Len(s) /\ IsInsertion(Ev, Append(s, x), s, Len(s), x)
  BY LenProperties, ConsInserts, AppendInserts
<1>3. QueueOrdered(ev, Cons(x, s))
  BY <1>1, <1>2, OrderOfInsertion
<1>4. QueueOrdered(ev, Append(s, x))
  BY <1>1, <1>2, OrderOfInsertion
<1> QED BY <1>3, <1>4

\* Only an event that waits for its time is timed.
TimedType(r) == r.timed => r.type \in {"TIMER", "SLEEP"}

\* What a source of events does, but for stopping a timer.
LEMMA SchedulesOne ==
    ASSUME TInv, Schedules
    PROVE  \/ \E i \in Interp, tm \in Timer : Parrot_del_timer_event(i, tm)
           \/ \E x \in Ev, rec \in EventRec :
                 /\ event[x].type = "FREE" /\ TimedType(rec)
                 /\ Parrot_schedule_event(x, rec)
                 /\ \/ \E i \in Interp, tm \in Timer, a \in TimerArgs : StartTimer(i, tm, a)
                    \/ rec.data = NoTimer /\ UNCHANGED <<starts, running>>
                 /\ \/ \E i \in Interp, t \in Naps :
                          /\ Parrot_sleep_on_event(i, t) /\ x = NewEvent
                          /\ rec = TimedEvent(i, "SLEEP", NoTimer,
                                        [diff |-> t, interval |-> 0, repeat |-> 0])
                    \/ rec.type # "SLEEP" /\ UNCHANGED <<frames, sleeping>>
                 /\ rec.type # "SIGNAL" /\ UNCHANGED io
<1> USE TimerAssumption
<1> DEFINE Goal == \E x \in Ev, rec \in EventRec :
                      /\ event[x].type = "FREE" /\ TimedType(rec)
                      /\ Parrot_schedule_event(x, rec)
                      /\ \/ \E i \in Interp, tm \in Timer, a \in TimerArgs :
                               StartTimer(i, tm, a)
                         \/ rec.data = NoTimer /\ UNCHANGED <<starts, running>>
                      /\ \/ \E i \in Interp, t \in Naps :
                               /\ Parrot_sleep_on_event(i, t) /\ x = NewEvent
                               /\ rec = TimedEvent(i, "SLEEP", NoTimer,
                                             [diff |-> t, interval |-> 0, repeat |-> 0])
                         \/ rec.type # "SLEEP" /\ UNCHANGED <<frames, sleeping>>
                      /\ rec.type # "SIGNAL" /\ UNCHANGED io
<1>1. \A i \in Interp \cup {NoInterp} : \A type \in Type :
         /\ TimedType(UntimedEvent(i, type)) /\ UntimedEvent(i, type) \in EventRec
         /\ UntimedEvent(i, type).data = NoTimer /\ UntimedEvent(i, type).type = type
  <2> SUFFICES ASSUME NEW i \in Interp \cup {NoInterp}, NEW type \in Type
               PROVE  /\ TimedType(UntimedEvent(i, type))
                      /\ UntimedEvent(i, type).data = NoTimer
                      /\ UntimedEvent(i, type).type = type
    BY NewRecords
  <2> QED BY DEF TimedType, UntimedEvent, FreeEvent
<1>2. \A i \in Interp, type \in {"TIMER", "SLEEP"}, data \in Timer \cup {NoTimer},
          a \in [diff : Nat, interval : Nat, repeat : Nat \cup {-1}] :
          /\ TimedType(TimedEvent(i, type, data, a)) /\ TimedEvent(i, type, data, a) \in EventRec
          /\ TimedEvent(i, type, data, a).data = data
          /\ TimedEvent(i, type, data, a).type = type
  <2>1. {"TIMER", "SLEEP"} \subseteq Type
    BY DEF Type
  <2>2. \A i, data, a : \A type \in {"TIMER", "SLEEP"} :
           /\ TimedType(TimedEvent(i, type, data, a))
           /\ TimedEvent(i, type, data, a).data = data
           /\ TimedEvent(i, type, data, a).type = type
    BY DEF TimedType, TimedEvent
  <2> QED BY <2>1, <2>2, NewRecords
<1>3. {"CALL_BACK", "TERMINATE", "EVENT_TERMINATE"} \subseteq Type
  BY DEF Type
<1>4. ASSUME NEW i \in Interp, NEW tm \in Timer, NEW a \in TimerArgs, StartTimer(i, tm, a)
      PROVE  Goal
  BY <1>2, <1>4, NewEventIsFree DEF StartTimer, Room
<1>5. ASSUME NEW i \in Interp, NEW a \in TimerArgs, Alarm(i, a)
      PROVE  Goal
  BY <1>2, <1>5, NewEventIsFree DEF Alarm, Room, history
<1>6. ASSUME NEW i \in Interp, NEW t \in Naps, Parrot_sleep_on_event(i, t)
      PROVE  Goal
  <2> DEFINE a == [diff |-> t, interval |-> 0, repeat |-> 0]
  <2>1. a \in [diff : Nat, interval : Nat, repeat : Nat \cup {-1}]
    OBVIOUS
  <2>2. /\ Parrot_schedule_event(NewEvent, TimedEvent(i, "SLEEP", NoTimer, a)) /\ Unallocated # {}
        /\ UNCHANGED <<starts, running, io>>
    BY <1>6 DEF Parrot_sleep_on_event, Room, history
  <2> DEFINE r == TimedEvent(i, "SLEEP", NoTimer, a)
  <2>3. r = TimedEvent(i, "SLEEP", NoTimer, [diff |-> t, interval |-> 0, repeat |-> 0])
    OBVIOUS
  <2>4. /\ TimedType(r) /\ r \in EventRec /\ r.data = NoTimer
        /\ r.type # "FREE" /\ r.type # "SIGNAL"
    <3> HIDE DEF a
    <3> QED BY <1>2, <2>1
  <2>5. NewEvent \in Ev /\ event[NewEvent].type = "FREE"
    BY <2>2, NewEventIsFree
  <2> HIDE DEF r
  <2> QED BY <1>6, <2>2, <2>3, <2>4, <2>5 DEF r
<1>7. ASSUME NEW i \in Interp, Parrot_new_cb_event(i) PROVE Goal
  BY <1>1, <1>3, <1>7, NewEventIsFree DEF Parrot_new_cb_event, Room, history
<1>8. ASSUME NEW i \in Interp, Parrot_new_terminate_event(i) PROVE Goal
  BY <1>1, <1>3, <1>8, NewEventIsFree DEF Parrot_new_terminate_event, Room, history
<1>9. ASSUME Parrot_kill_event_loop PROVE Goal
  BY <1>1, <1>3, <1>9, NewEventIsFree DEF Parrot_kill_event_loop, Room, history
<1> QED BY <1>4, <1>5, <1>6, <1>7, <1>8, <1>9 DEF Schedules

\* The sources of events keep the order.
LEMMA SchedulesOrder == ASSUME TInv, OInv, TimedOrder, Schedules PROVE TimedOrder'
<1>0. /\ event \in [Ev -> EventRec] /\ eventq \in Seq(Ev) /\ QueueOrdered(event, eventq)
  BY OrderOfQueue DEF TInv, TypeOK
<1>1. SUFFICES QueueOrdered(event', eventq')
  BY DEF TimedOrder, QueueOrdered, Before
<1>2. ASSUME NEW x \in Ev, NEW rec \in EventRec, event[x].type = "FREE", TimedType(rec),
             Parrot_schedule_event(x, rec)
      PROVE  QueueOrdered(event', eventq')
  <2>1. event' = [event EXCEPT ![x] = rec] /\ event' \in [Ev -> EventRec]
    BY <1>0, <1>2 DEF Parrot_schedule_event
  <2>2. ~ In(x, eventq)
    BY <1>2, OneHolder
  <2>3. QueueOrdered(event', eventq)
    BY <1>0, <2>1, <2>2, OrderKept
  <2>4. eventq' = CASE rec.type \in {"TIMER", "SLEEP"} ->
                        Inserted(eventq, x, TimedEvents(event'), Due(event'))
                   [] rec.type = "CALL_BACK" -> Cons(x, eventq)
                   [] OTHER -> Append(eventq, x)
    BY <1>2 DEF Parrot_schedule_event
  <2>5. CASE rec.type \in {"TIMER", "SLEEP"}
    <3>1. eventq' = Inserted(eventq, x, TimedEvents(event'), Due(event'))
      BY <2>4, <2>5
    <3> QED BY <1>0, <2>1, <2>3, <3>1, OrderOfInserted
  <2>6. CASE rec.type \notin {"TIMER", "SLEEP"}
    <3>1. ~ event'[x].timed
      BY <1>0, <1>2, <2>1, <2>6 DEF TimedType
    <3>2. eventq' = Cons(x, eventq) \/ eventq' = Append(eventq, x)
      BY <2>4, <2>6
    <3> QED BY <1>0, <2>3, <3>1, <3>2, OrderOfUntimed
  <2> QED BY <2>5, <2>6
<1>3. ASSUME NEW i \in Interp, NEW tm \in Timer, Parrot_del_timer_event(i, tm)
      PROVE  QueueOrdered(event', eventq')
  <2> DEFINE K == {k \in 1 .. Len(eventq) : IsTimerEntry(k, i, tm)}
             x == eventq[Min(K)]
  <2>1. \/ event' = event
        \/ event' = [event EXCEPT ![x].interval = 0, ![x].type = "NONE"]
    BY <1>3 DEF Parrot_del_timer_event
  <2> HIDE DEF x
  <2>2. \A e \in Ev : event'[e].timed = event[e].timed /\ event'[e].due = event[e].due
    <3> SUFFICES ASSUME NEW e \in Ev
                 PROVE  event'[e].timed = event[e].timed /\ event'[e].due = event[e].due
      OBVIOUS
    <3>1. event[e] \in EventRec
      BY <1>0
    <3>2. CASE event' = [event EXCEPT ![x].interval = 0, ![x].type = "NONE"]
      <4>1. CASE e = x
        <5>1. event'[e] = [event[e] EXCEPT !.interval = 0, !.type = "NONE"]
          BY <1>0, <3>2, <4>1
        <5> QED BY <5>1, <3>1 DEF EventRec
      <4>2. CASE e # x
        BY <1>0, <3>2, <4>2
      <4> QED BY <4>1, <4>2
    <3> QED BY <2>1, <3>2
  <2>3. eventq' = eventq
    BY <1>3 DEF Parrot_del_timer_event
  <2> QED BY <1>0, <2>2, <2>3, OrderKept
<1> QED BY <1>2, <1>3, SchedulesOne

\* process_events keeps the order.
LEMMA ProcessOrder == ASSUME TInv, OInv, TimedOrder, process_events PROVE TimedOrder'
<1> DEFINE x == Head(eventq)
           r == CountDown(event[x])
           n == NewEvent
           c == [r EXCEPT !.due = r.interval]
           q == Tail(eventq)
<1>0. /\ event \in [Ev -> EventRec] /\ eventq \in Seq(Ev) /\ QueueOrdered(event, eventq)
      /\ eventq # <<>> /\ Once(eventq)
  BY OrderOfQueue DEF TInv, TypeOK, OInv, QueuesOK, process_events
<1>1. SUFFICES QueueOrdered(event', eventq')
  BY DEF TimedOrder, QueueOrdered, Before
<1>2. /\ x \in Ev /\ q \in Seq(Ev) /\ QueueOrdered(event, q)
      /\ \A e : In(e, q) <=> In(e, eventq) /\ e # x
  BY <1>0, TailRemoves, OrderOfTail
<1>3. event' \in [Ev -> EventRec]
  BY ProcessTypes DEF TInv, TypeOK
<1>4. CASE event[x].timed /\ Repeats(event[x])
  <2>1. /\ Unallocated # {}
        /\ event' = [event EXCEPT ![x] = r, ![n] = c]
        /\ eventq' = Inserted(q, n, TimedEvents(event'), Due(event'))
    BY <1>4 DEF process_events
  <2>2. n \in Ev /\ ~ In(n, eventq)
    BY <2>1, NewEventIsFree, OneHolder
  <2> HIDE DEF x, r, c, n, q
  <2>3. \A e \in Ev : In(e, q) => event'[e] = event[e]
    BY <1>0, <1>2, <2>1, <2>2
  <2>4. QueueOrdered(event', q)
    BY <1>2, <2>3, OrderKept
  <2> QED BY <1>2, <1>3, <2>1, <2>2, <2>4, OrderOfInserted
<1>5. CASE ~ (event[x].timed /\ Repeats(event[x]))
  <2>1. /\ event' = IF event[x].type \in {"NONE", "EVENT_TERMINATE"}
                    THEN [event EXCEPT ![x] = FreeEvent] ELSE event
        /\ eventq' = q
    BY <1>5 DEF process_events
  <2> HIDE DEF x, q
  <2>2. \A e \in Ev : In(e, q) => event'[e] = event[e]
    BY <1>0, <1>2, <2>1
  <2> QED BY <1>2, <2>1, <2>2, OrderKept
<1> QED BY <1>4, <1>5

\* A step that leaves the event queue and the events in it alone
QueueAlone ==
    /\ UNCHANGED <<eventq, starts, running>>
    /\ \A e \in Ev : In(e, eventq) => event'[e] = event[e]

\* All steps leave them alone but those that schedule an event or stop a
\* timer, process_events and time.
LEMMA LeavesQueueAlone ==
    ASSUME TInv, OInv,
           Interpreters \/ sig_handler \/ IoThread \/ (EventThread /\ ~ process_events)
    PROVE  QueueAlone
<1>0. event \in [Ev -> EventRec]
  BY DEF TInv, TypeOK
<1>1. ASSUME NEW i \in Interp,
             \/ CheckEvents(i) \/ Parrot_do_check_events(i) \/ LoopEnds(i)
             \/ DoHandler(i) \/ DoSignal(i)
      PROVE  QueueAlone
  BY <1>1 DEF CheckEvents, Parrot_do_check_events, LoopEnds, DoHandler, DoSignal,
              history, QueueAlone
<1>2. ASSUME NEW i \in Interp, DoSleep(i) \/ DoTerminate(i)
      PROVE  QueueAlone
  <2> DEFINE x == Head(taskq[i])
  <2>1. TakesTask(i, {"SLEEP", "TERMINATE"})
    BY <1>2 DEF DoSleep, DoTerminate, TakesTask
  <2>2. /\ event' = [event EXCEPT ![x] = FreeEvent]
        /\ UNCHANGED <<eventq, starts, running>>
    BY <1>2 DEF DoSleep, DoTerminate, FreeTask, history
  <2>3. x \in Ev /\ ~ In(x, eventq)
    BY <2>1, TakesTaskOwned
  <2> HIDE DEF x
  <2>4. \A e \in Ev : In(e, eventq) => event'[e] = event[e]
    BY <1>0, <2>2, <2>3
  <2> QED BY <2>2, <2>4 DEF QueueAlone
<1>3. ASSUME NEW i \in Interp, RunLoopEnds(i) PROVE QueueAlone
  <2> DEFINE n == Len(frames[i])
             y == frames[i][n-1].ev
  <2>1. /\ UNCHANGED <<eventq, starts, running>>
        /\ event' = event \/ (n # 1 /\ event' = [event EXCEPT ![y] = FreeEvent])
    BY <1>3 DEF RunLoopEnds, history
  <2>2. CASE n # 1
    <3>1. frames[i] \in Seq(Frame) /\ frames[i] # <<>>
      BY <1>3 DEF RunLoopEnds, TInv, TypeOK
    <3>2. n - 1 \in 1 .. n
      <4>1. n \in Nat \ {0}
        BY <3>1, EmptySeq, LenProperties
      <4>2. \A m \in Nat \ {0} : m # 1 => m - 1 \in 1 .. m
        OBVIOUS
      <4> QED BY <2>2, <4>1, <4>2
    <3>3. Serves(y, frames[i])
      BY <3>2 DEF Serves
    <3>4. y \in Ev => ~ In(y, eventq)
      BY <3>3, OneHolder
    <3> HIDE DEF y
    <3>5. \A e \in Ev : In(e, eventq) => event'[e] = event[e]
      BY <1>0, <2>1, <3>4
    <3> QED BY <2>1, <3>5 DEF QueueAlone
  <2>3. CASE n = 1
    BY <2>1, <2>3 DEF QueueAlone
  <2> QED BY <2>2, <2>3
<1>4. ASSUME NEW i \in Interp, IoEnable(i) PROVE QueueAlone
  <2> DEFINE x == NewEvent
  <2>1. x \in Ev /\ ~ In(x, eventq)
    BY <1>4, NewEventIsFree, OneHolder DEF IoEnable, Room
  <2>2. /\ event' = [event EXCEPT ![x] = UntimedEvent(i, "SIGNAL")]
        /\ UNCHANGED <<eventq, starts, running>>
    BY <1>4 DEF IoEnable, history
  <2> HIDE DEF x
  <2>3. \A e \in Ev : In(e, eventq) => event'[e] = event[e]
    BY <1>0, <2>1, <2>2
  <2> QED BY <2>2, <2>3 DEF QueueAlone
<1>5. CASE sig_handler \/ IoEintr \/ IoPut \/ IoStop
  BY <1>5 DEF sig_handler, IoEintr, IoPut, IoStop, history, QueueAlone
<1>6. CASE EventThread /\ ~ process_events
  BY <1>6 DEF EventThread, EventThreadLock, EventThreadTimeout, EventThreadWait,
              EventThreadEnable, EventThreadPut, EventThreadDestroy, stop_io_thread,
              history, QueueAlone
<1> QED BY <1>1, <1>2, <1>3, <1>4, <1>5, <1>6 DEF Interpreters, HandlesTasks, IoThread

\* A step that leaves the event queue alone keeps the order.
LEMMA OrderUntouched ==
    ASSUME TInv, TimedOrder, QueueAlone
    PROVE  TimedOrder'
<1>1. /\ QueueOrdered(event, eventq) /\ eventq \in Seq(Ev) /\ eventq' = eventq
      /\ \A e \in Ev : In(e, eventq) => event'[e] = event[e]
  BY OrderOfQueue DEF TInv, TypeOK, QueueAlone
<1>2. QueueOrdered(event', eventq)
  BY <1>1, OrderKept
<1> QED BY <1>1, <1>2 DEF TimedOrder, QueueOrdered, Before

\* Time keeps the order: it makes all timed entries due earlier alike, and
\* does not go beyond overdue.
LEMMA TickOrder == ASSUME TInv, TimedOrder, Tick PROVE TimedOrder'
<1>0. TypeOK /\ eventq \in Seq(Ev) /\ event \in [Ev -> EventRec] /\ eventq' = eventq
  BY DEF TInv, TypeOK, Tick
<1> SUFFICES ASSUME NEW k \in 1 .. Len(eventq) - 1,
                    event'[eventq[k]].timed, event'[eventq[k+1]].timed
             PROVE  event'[eventq[k]].due <= event'[eventq[k+1]].due
  BY <1>0 DEF TimedOrder
<1> DEFINE a == eventq[k]
           b == eventq[k+1]
<1>1. k \in 1 .. Len(eventq) /\ k+1 \in 1 .. Len(eventq)
  BY <1>0, LenProperties
<1>2. a \in Ev /\ b \in Ev /\ In(a, eventq) /\ In(b, eventq)
  BY <1>0, <1>1, ElementOfSeq DEF In
<1>3. event[a].timed /\ event[b].timed
  BY <1>0, <1>2, TickEffect
<1>4. event[a].due <= event[b].due
  BY <1>3 DEF TimedOrder
<1> HIDE DEF a, b
<1>5. event'[a].due = Elapse(event[a].due) /\ event'[b].due = Elapse(event[b].due)
  BY <1>0, <1>2, <1>3, TickEffect
<1>6. event[a].due \in Int /\ event[b].due \in Int
  BY <1>0, <1>2 DEF EventRec
<1>7. \A m, n \in Int : m <= n => Elapse(m) <= Elapse(n)
  BY DEF Elapse
<1>8. event'[a].due <= event'[b].due
  BY <1>4, <1>5, <1>6, <1>7
<1> QED BY <1>8 DEF a, b

\* The timed entries of the event queue stay in the order of their times,
\* whatever is inserted, taken out, changed or put back, by all threads.
THEOREM TimedEntriesInOrder == Spec => []TimedOrder
<1>1. Init => TimedOrder
  <2> SUFFICES ASSUME eventq = <<>> PROVE TimedOrder
    BY DEF Init
  <2>1. 1 .. Len(<<>>) - 1 = {}
    OBVIOUS
  <2> QED BY <2>1 DEF TimedOrder
<1>2. TInv /\ OInv /\ TimedOrder /\ [Next]_vars => TimedOrder'
  <2> SUFFICES ASSUME TInv, OInv, TimedOrder, [Next]_vars PROVE TimedOrder'
    OBVIOUS
  <2>1. CASE UNCHANGED vars
    BY <2>1 DEF vars, TimedOrder
  <2> QED BY <2>1, SchedulesOrder, ProcessOrder, TickOrder, LeavesQueueAlone, OrderUntouched
          DEF Next
<1>3. Init => TInv /\ OInv
  BY InitTypes, InitOwned
<1>4. TInv /\ OInv /\ [Next]_vars => (TInv /\ OInv)'
  BY NextTypes, NextOwned
<1> QED BY <1>1, <1>2, <1>3, <1>4, PTL DEF Spec

-----------------------------------------------------------------------------
(***************************************************************************)
(* Stopping a timer.  Parrot_del_timer_event changes one entry of the      *)
(* event queue: it is enough when the timer has no other.  A timer has one *)
(* entry at most if it is started once and by the interpreter that stops   *)
(* it.                                                                     *)
(***************************************************************************)
\* The entries of timer tm in the event queue, live or stopped
TimerEntries(tm) == {e \in Ev : In(e, eventq) /\ event[e].data = tm}

OneEntry ==
    \A tm \in Timer :
        /\ \A e, f \in TimerEntries(tm) : e = f
        /\ \A e \in TimerEntries(tm) :
              /\ event[e].timed /\ event[e].interp \in Interp
              /\ starts[tm] > 0
              /\ ~ running[tm] => event[e].type # "TIMER"

\* Fewer entries, with the same timer, keep the entries unique.
LEMMA FewerEntries ==
    ASSUME OneEntry, UNCHANGED <<starts, running>>,
           \A e \in Ev : In(e, eventq') =>
              /\ In(e, eventq)
              /\ event'[e].data = event[e].data /\ event'[e].timed = event[e].timed
              /\ event'[e].interp = event[e].interp /\ event'[e].type = event[e].type
    PROVE  OneEntry'
BY DEF OneEntry, TimerEntries

\* A stopped timer has no live entry left.
LEMMA StopEntries ==
    ASSUME Interp = {Main}, TInv, OneEntry, NEW i \in Interp, NEW tm \in Timer,
           Parrot_del_timer_event(i, tm)
    PROVE  OneEntry'
<1> DEFINE K == {k \in 1 .. Len(eventq) : IsTimerEntry(k, i, tm)}
           x == eventq[Min(K)]
<1>0. /\ event \in [Ev -> EventRec] /\ eventq' = eventq /\ starts' = starts
      /\ running' = [running EXCEPT ![tm] = FALSE] /\ running \in [Timer -> BOOLEAN]
  BY DEF TInv, TypeOK, Parrot_del_timer_event
<1>1. CASE K = {}
  <2>1. event' = event
    BY <1>1 DEF Parrot_del_timer_event
  <2>2. TimerEntries(tm) = {}
    <3> SUFFICES ASSUME NEW e \in TimerEntries(tm) PROVE FALSE
      OBVIOUS
    <3>1. PICK k \in 1 .. Len(eventq) : eventq[k] = e
      BY DEF TimerEntries, In
    <3>2. event[e].timed /\ event[e].interp = i /\ event[e].data = tm
      BY DEF OneEntry, TimerEntries
    <3> QED BY <1>1, <3>1, <3>2 DEF IsTimerEntry
  <2>3. TimerEntries(tm)' = {} /\ \A m \in Timer : TimerEntries(m)' = TimerEntries(m)
    BY <1>0, <2>1, <2>2 DEF TimerEntries
  <2>4. \A m \in Timer \ {tm} : running'[m] = running[m]
    BY <1>0
  <2> QED BY <1>0, <2>1, <2>3, <2>4 DEF OneEntry
<1>2. CASE K # {}
  <2>1. event' = [event EXCEPT ![x].interval = 0, ![x].type = "NONE"]
    BY <1>2 DEF Parrot_del_timer_event
  <2>2. Min(K) \in 1 .. Len(eventq) /\ Min(K) \in K
    BY <1>2, MinIsLeast
  <2>3. x \in Ev /\ In(x, eventq) /\ event[x].data = tm
    BY <2>2, QueueOfEvents DEF TInv, In, IsTimerEntry
  <2> HIDE DEF x
  <2>4. event[x] \in EventRec
    BY <1>0, <2>3
  <2>5. /\ event'[x].type = "NONE" /\ event'[x].data = event[x].data
        /\ event'[x].timed = event[x].timed /\ event'[x].interp = event[x].interp
        /\ \A e \in Ev \ {x} : event'[e] = event[e]
    BY <1>0, <2>1, <2>3, <2>4 DEF EventRec
  <2>6. \A m \in Timer : TimerEntries(m)' = TimerEntries(m)
    BY <1>0, <2>5 DEF TimerEntries
  <2>7. x \in TimerEntries(tm)
    BY <2>3 DEF TimerEntries
  <2> SUFFICES ASSUME NEW m \in Timer
               PROVE  /\ \A e, f \in TimerEntries(m)' : e = f
                      /\ \A e \in TimerEntries(m)' :
                            /\ event'[e].timed /\ event'[e].interp \in Interp
                            /\ starts'[m] > 0
                            /\ ~ running'[m] => event'[e].type # "TIMER"
    BY DEF OneEntry
  <2>8. \A e, f \in TimerEntries(m)' : e = f
    BY <2>6 DEF OneEntry
  <2>9. ASSUME NEW e \in TimerEntries(m)'
        PROVE  /\ event'[e].timed /\ event'[e].interp \in Interp
               /\ starts'[m] > 0
               /\ ~ running'[m] => event'[e].type # "TIMER"
    <3>1. e \in Ev /\ e \in TimerEntries(m)
      BY <2>6 DEF TimerEntries
    <3>2. CASE e = x
      BY <1>0, <2>5, <3>1, <3>2 DEF OneEntry
    <3>3. CASE e # x
      <4>1. m # tm
        BY <2>7, <3>1, <3>3 DEF OneEntry
      <4> QED BY <1>0, <2>5, <3>1, <3>3, <4>1 DEF OneEntry
    <3> QED BY <3>2, <3>3
  <2> QED BY <2>8, <2>9
<1> QED BY <1>1, <1>2

\* A timer that is started has had no entry.
LEMMA StartEntries ==
    ASSUME MaxStarts <= 1, TInv, OInv, OneEntry,
           NEW i \in Interp, NEW tm \in Timer, NEW a \in TimerArgs, StartTimer(i, tm, a)
    PROVE  OneEntry'
<1> DEFINE x == NewEvent
           r == TimedEvent(i, "TIMER", tm, a)
<1>1. x \in Ev /\ event[x].type = "FREE"
  BY NewEventIsFree DEF StartTimer, Room
<1>2. r.data = tm /\ r.timed /\ r.interp = i
  BY DEF TimedEvent
<1>3. Parrot_schedule_event(x, r)
  BY DEF StartTimer
<1> HIDE DEF x, r
<1>4. /\ event'[x] = r /\ \A e \in Ev \ {x} : event'[e] = event[e]
      /\ \A e : In(e, eventq') <=> e = x \/ In(e, eventq)
  BY <1>1, <1>3, ScheduleAdds
<1>5. /\ starts[tm] = 0 /\ starts'[tm] = 1 /\ running'[tm]
      /\ \A m \in Timer \ {tm} : starts'[m] = starts[m] /\ running'[m] = running[m]
  <2>1. starts \in [Timer -> Nat] /\ running \in [Timer -> BOOLEAN] /\ MaxStarts \in Nat
    BY BoundAssumption DEF TInv, TypeOK
  <2>2. starts[tm] \in Nat /\ starts[tm] < MaxStarts
    BY <2>1 DEF StartTimer
  <2>3. starts[tm] = 0
    BY <2>1, <2>2
  <2> QED BY <2>1, <2>3 DEF StartTimer
<1>6. TimerEntries(tm) = {}
  BY <1>5 DEF OneEntry
<1>7. TimerEntries(tm)' = {x}
  <2>1. \A e \in Ev : In(e, eventq) => event[e].data # tm
    BY <1>6 DEF TimerEntries
  <2> QED BY <1>1, <1>2, <1>4, <2>1 DEF TimerEntries
<1>8. \A m \in Timer \ {tm} : TimerEntries(m)' \subseteq TimerEntries(m) \ {x}
  BY <1>2, <1>4 DEF TimerEntries
<1>9. \A m : TimerEntries(m) \subseteq Ev
  BY DEF TimerEntries
<1> SUFFICES ASSUME NEW m \in Timer
             PROVE  /\ \A e, f \in TimerEntries(m)' : e = f
                    /\ \A e \in TimerEntries(m)' :
                          /\ event'[e].timed /\ event'[e].interp \in Interp
                          /\ starts'[m] > 0
                          /\ ~ running'[m] => event'[e].type # "TIMER"
  BY DEF OneEntry
<1>10. CASE m = tm
  BY <1>2, <1>4, <1>5, <1>7, <1>10
<1>11. CASE m # tm
  BY <1>4, <1>5, <1>8, <1>9, <1>11 DEF OneEntry
<1> QED BY <1>10, <1>11

\* An event without a timer is an entry of no timer.
LEMMA OtherEntries ==
    ASSUME TInv, OInv, OneEntry, NEW x \in Ev, NEW rec, event[x].type = "FREE",
           Parrot_schedule_event(x, rec), rec.data = NoTimer, UNCHANGED <<starts, running>>
    PROVE  OneEntry'
<1>1. /\ event'[x] = rec /\ \A e \in Ev \ {x} : event'[e] = event[e]
      /\ \A e : In(e, eventq') <=> e = x \/ In(e, eventq)
  BY ScheduleAdds
<1>2. ~ In(x, eventq)
  BY OneHolder
<1>3. \A m \in Timer : TimerEntries(m)' = TimerEntries(m)
  <2> TAKE m \in Timer
  <2>1. NoTimer # m
    BY TimerAssumption
  <2> QED BY <1>1, <1>2, <2>1 DEF TimerEntries
<1>4. \A m \in Timer : \A e \in TimerEntries(m) : event'[e] = event[e]
  BY <1>1, <1>2 DEF TimerEntries
<1> QED BY <1>3, <1>4 DEF OneEntry

\* The copy of a repeated event takes its place.
LEMMA ProcessEntries == ASSUME TInv, OInv, OneEntry, process_events PROVE OneEntry'
<1> DEFINE x == Head(eventq)
<1>0. UNCHANGED <<starts, running>> /\ event \in [Ev -> EventRec]
  BY DEF process_events, history, TInv, TypeOK
<1>1. x \in Ev /\ In(x, eventq)
  BY ProcessEffect
<1>2. CASE /\ event[x].timed /\ Repeats(event[x])
           /\ \E n \in Ev :
                 /\ event[n].type = "FREE" /\ event[x].type # "FREE"
                 /\ \A f \in {"type", "interp", "data", "interval", "timed"} :
                       event'[x][f] = event[x][f] /\ event'[n][f] = event[x][f]
                 /\ \A e \in Ev \ {x, n} : event'[e] = event[e]
                 /\ \A e : In(e, eventq') <=> e = n \/ (In(e, eventq) /\ e # x)
  <2>1. PICK n \in Ev :
           /\ event[n].type = "FREE"
           /\ \A f \in {"type", "interp", "data", "interval", "timed"} :
                 event'[n][f] = event[x][f]
           /\ \A e \in Ev \ {x, n} : event'[e] = event[e]
           /\ \A e : In(e, eventq') <=> e = n \/ (In(e, eventq) /\ e # x)
    BY <1>2
  <2> HIDE DEF x
  <2>2. ~ In(n, eventq)
    BY <2>1, OneHolder
  <2>3. /\ event'[n].data = event[x].data /\ event'[n].timed = event[x].timed
        /\ event'[n].interp = event[x].interp /\ event'[n].type = event[x].type
    BY <2>1
  <2>4. \A m \in Timer : TimerEntries(m)' = IF event[x].data = m
                                            THEN (TimerEntries(m) \ {x}) \cup {n}
                                            ELSE TimerEntries(m)
    BY <1>1, <2>1, <2>2, <2>3 DEF TimerEntries
  <2> SUFFICES ASSUME NEW m \in Timer
               PROVE  /\ \A e, f \in TimerEntries(m)' : e = f
                      /\ \A e \in TimerEntries(m)' :
                            /\ event'[e].timed /\ event'[e].interp \in Interp
                            /\ starts'[m] > 0
                            /\ ~ running'[m] => event'[e].type # "TIMER"
    BY DEF OneEntry
  <2>5. CASE event[x].data = m
    <3>1. x \in TimerEntries(m)
      BY <1>1, <2>5 DEF TimerEntries
    <3>2. TimerEntries(m) = {x}
      BY <3>1 DEF OneEntry
    <3>3. TimerEntries(m)' = {n}
      BY <2>4, <2>5, <3>2
    <3> QED BY <1>0, <2>3, <3>1, <3>3 DEF OneEntry
  <2>6. CASE event[x].data # m
    <3>1. TimerEntries(m)' = TimerEntries(m)
      BY <2>4, <2>6
    <3>2. \A e \in TimerEntries(m) : event'[e] = event[e]
      BY <2>1, <2>2, <2>6 DEF TimerEntries
    <3> QED BY <1>0, <3>1, <3>2 DEF OneEntry
  <2> QED BY <2>5, <2>6
<1>3. CASE /\ event' = IF event[x].type \in {"NONE", "EVENT_TERMINATE"}
                       THEN [event EXCEPT ![x] = FreeEvent] ELSE event
           /\ \A e : In(e, eventq') <=> In(e, eventq) /\ e # x
  <2> HIDE DEF x
  <2>1. \A e \in Ev : In(e, eventq') => In(e, eventq) /\ event'[e] = event[e]
    BY <1>0, <1>1, <1>3
  <2> QED BY <1>0, <2>1, FewerEntries
<1>4. \/ /\ event[x].timed /\ Repeats(event[x])
         /\ \E n \in Ev :
               /\ event[n].type = "FREE" /\ event[x].type # "FREE"
               /\ \A f \in {"type", "interp", "data", "interval", "timed"} :
                     event'[x][f] = event[x][f] /\ event'[n][f] = event[x][f]
               /\ \A e \in Ev \ {x, n} : event'[e] = event[e]
               /\ \A e : In(e, eventq') <=> e = n \/ (In(e, eventq) /\ e # x)
      \/ /\ event' = IF event[x].type \in {"NONE", "EVENT_TERMINATE"}
                     THEN [event EXCEPT ![x] = FreeEvent] ELSE event
         /\ \A e : In(e, eventq') <=> In(e, eventq) /\ e # x
  BY ProcessEffect DEF x
<1> QED BY <1>2, <1>3, <1>4

\* The entries stay unique, whatever the threads do.
LEMMA NextEntries ==
    ASSUME Interp = {Main}, MaxStarts <= 1, TInv, OInv, OneEntry, [Next]_vars
    PROVE  OneEntry'
<1>1. CASE Schedules
  BY <1>1, SchedulesOne, StopEntries, StartEntries, OtherEntries
<1>2. CASE QueueAlone
  BY <1>2, FewerEntries DEF QueueAlone
<1>3. CASE Tick
  <2>1. UNCHANGED <<eventq, starts, running>>
    BY <1>3 DEF Tick, history
  <2>2. \A e \in Ev : /\ event'[e].data = event[e].data
                      /\ event'[e].timed = event[e].timed
                      /\ event'[e].interp = event[e].interp
                      /\ event'[e].type = event[e].type
    BY <1>3, TickEffect DEF TInv
  <2> QED BY <2>1, <2>2, FewerEntries
<1>4. CASE UNCHANGED vars
  BY <1>4, FewerEntries DEF vars
<1> QED BY <1>1, <1>2, <1>3, <1>4, ProcessEntries, LeavesQueueAlone DEF Next

\* Without any event in the queue the program's timers have no entry.
LEMMA InitEntries == Init => OneEntry
<1> SUFFICES ASSUME eventq = <<>> PROVE OneEntry
  BY DEF Init
<1>1. 1 .. Len(<<>>) = {}
  OBVIOUS
<1> QED BY <1>1 DEF OneEntry, TimerEntries, In

\* A timer that was stopped has no live event left in the event queue, if
\* one interpreter starts its timers, and each of them once.
THEOREM StoppedTimersQuiet ==
    ASSUME Interp = {Main}, MaxStarts <= 1
    PROVE  Spec => []StoppedTimerQuiet
<1>1. Init => OneEntry
  BY InitEntries
<1>2. TInv /\ OInv /\ OneEntry /\ [Next]_vars => OneEntry'
  BY NextEntries
<1>3. TInv /\ OneEntry => StoppedTimerQuiet
  <2> SUFFICES ASSUME TInv, OneEntry, NEW tm \in Timer, ~ running[tm],
                      NEW k \in 1 .. Len(eventq),
                      event[eventq[k]].type = "TIMER", event[eventq[k]].data = tm
               PROVE  FALSE
    BY DEF StoppedTimerQuiet
  <2>1. eventq[k] \in TimerEntries(tm)
    BY QueueOfEvents DEF TInv, TimerEntries, In
  <2> QED BY <2>1 DEF OneEntry
<1>4. Init => TInv /\ OInv
  BY InitTypes, InitOwned
<1>5. TInv /\ OInv /\ [Next]_vars => (TInv /\ OInv)'
  BY NextTypes, NextOwned
<1> QED BY <1>1, <1>2, <1>3, <1>4, <1>5, PTL DEF Spec

-----------------------------------------------------------------------------
(***************************************************************************)
(* The calls a timer owes.  Pending sums over the queued events of a       *)
(* timer; with one entry at most the sum has one term or none.             *)
(***************************************************************************)
\* The events of the timer that wait in the event queue, and those that
\* have left it and were not handled yet
Waiting(tm) == {e \in Ev : CountsFor(tm, e) /\ In(e, eventq)}

Taken(e) == evt.hand = e \/ \E i \in Interp : In(e, taskq[i])

Out(tm) == {e \in Ev : CountsFor(tm, e) /\ Taken(e)}

QueuedCalls(ev, S) == MapThenSumSet(LAMBDA e : ev[e].repeat + 1, S)

CallsOwed ==
    \A tm \in Timer : credit[tm] = Cardinality(Out(tm)) + QueuedCalls(event, Waiting(tm))

\* An event that is to be repeated has an interval
RepeatsAgain ==
    \A e \in Ev : In(e, eventq) /\ event[e].type = "TIMER" /\ event[e].repeat > 0
                    => event[e].interval # 0

IoSignals == io.hand # NoEv => event[io.hand].type = "SIGNAL"

\* A sum over no event is 0.
LEMMA SumOverNone == ASSUME NEW ev PROVE QueuedCalls(ev, {}) = 0
<1> DEFINE P(g) == g = [s \in SUBSET {} |->
                          IF s = {} THEN 0
                          ELSE ev[CHOOSE x \in s : TRUE].repeat + 1
                               + g[s \ {CHOOSE x \in s : TRUE}]]
           iter == CHOOSE g : P(g)
<1>1. QueuedCalls(ev, {}) = iter[{}]
  BY DEF QueuedCalls, MapThenSumSet, MapThenFoldSet
<1>2. P([s \in SUBSET {} |-> 0])
  OBVIOUS
<1>3. P(iter)
  BY <1>2
<1> QED BY <1>1, <1>3

\* A sum over one event is its term.
LEMMA SumOverOne ==
    ASSUME NEW ev, NEW x, ev[x].repeat \in Int
    PROVE  QueuedCalls(ev, {x}) = ev[x].repeat + 1
<1> DEFINE P(g) == g = [s \in SUBSET {x} |->
                          IF s = {} THEN 0
                          ELSE ev[CHOOSE y \in s : TRUE].repeat + 1
                               + g[s \ {CHOOSE y \in s : TRUE}]]
           iter == CHOOSE g : P(g)
           one == [s \in SUBSET {x} |-> IF s = {} THEN 0 ELSE ev[x].repeat + 1]
<1>1. QueuedCalls(ev, {x}) = iter[{x}]
  BY DEF QueuedCalls, MapThenSumSet, MapThenFoldSet
<1>2. P(one)
  OBVIOUS
<1>3. P(iter)
  BY <1>2
<1> HIDE DEF iter
<1>4. iter[{}] = 0
  BY <1>3
<1>5. (CHOOSE y \in {x} : TRUE) = x
  OBVIOUS
<1>6. iter[{x}] = ev[x].repeat + 1 + iter[{}]
  BY <1>3, <1>5
<1> QED BY <1>1, <1>4, <1>6

\* The events in the hands of the event thread and in the task queues.
LEMMA InFlightIsOut ==
    ASSUME TInv, NEW tm \in Timer
    PROVE  InFlight(tm) = Out(tm) /\ {e \in ToSet(eventq) : CountsFor(tm, e)} = Waiting(tm)
<1>1. /\ eventq \in Seq(Ev) /\ \A i \in Interp : taskq[i] \in Seq(Ev)
      /\ evt.hand \in Ev \cup {NoEv} /\ NoEv \notin Ev
  BY EvFacts DEF TInv, TypeOK
<1>2. \A s \in Seq(Ev) : ToSet(s) = {e \in Ev : In(e, s)}
  <2> TAKE s \in Seq(Ev)
  <2>1. DOMAIN s = 1 .. Len(s) /\ \A k \in 1 .. Len(s) : s[k] \in Ev
    BY LenProperties, ElementOfSeq
  <2> QED BY <2>1 DEF ToSet, In
<1>3. InFlight(tm) = Out(tm)
  BY <1>1, <1>2 DEF InFlight, Out, Taken
<1>4. {e \in ToSet(eventq) : CountsFor(tm, e)} = Waiting(tm)
  BY <1>1, <1>2 DEF Waiting
<1> QED BY <1>3, <1>4

\* Pending counts the events of the queues.
LEMMA PendingIs ==
    ASSUME TInv, NEW tm \in Timer
    PROVE  Pending(tm) = Cardinality(Out(tm)) + QueuedCalls(event, Waiting(tm))
<1>1. Pending(tm) = Cardinality(InFlight(tm))
                    + QueuedCalls(event, {e \in ToSet(eventq) : CountsFor(tm, e)})
  BY DEF Pending, QueuedCalls
<1> QED BY <1>1, InFlightIsOut

\* The timer has one waiting event or none.
LEMMA WaitingIs ==
    ASSUME TInv, OneEntry, NEW tm \in Timer
    PROVE  \/ Waiting(tm) = {}
           \/ \E x \in Ev : /\ Waiting(tm) = {x} /\ x \in TimerEntries(tm)
                            /\ event[x].repeat \in Int
<1>1. Waiting(tm) \subseteq TimerEntries(tm) /\ TimerEntries(tm) \subseteq Ev
  BY DEF Waiting, TimerEntries, CountsFor
<1>2. \A e, f \in Waiting(tm) : e = f
  BY <1>1 DEF OneEntry
<1>3. \A e \in Ev : event[e].repeat \in Int
  BY DEF TInv, TypeOK, EventRec
<1> QED BY <1>1, <1>2, <1>3

\* An event that stays where it is, and one that counts for no timer
Steady(e) ==
    /\ In(e, eventq') <=> In(e, eventq)
    /\ Taken(e)' <=> Taken(e)
    /\ event'[e].type = event[e].type /\ event'[e].data = event[e].data
    /\ event'[e].repeat = event[e].repeat

Silent(e) ==
    \A tm \in Timer : /\ e \notin Out(tm) /\ e \notin Waiting(tm)
                      /\ e \notin Out(tm)' /\ e \notin Waiting(tm)'

\* What counts for a timer stays when its events do.
LEMMA OneTimerOwes ==
    ASSUME TInv, OneEntry, NEW tm \in Timer,
           credit[tm] = Cardinality(Out(tm)) + QueuedCalls(event, Waiting(tm)),
           credit'[tm] = credit[tm],
           \A e \in Ev : \/ Steady(e)
                         \/ /\ e \notin Out(tm) /\ e \notin Waiting(tm)
                            /\ e \notin Out(tm)' /\ e \notin Waiting(tm)'
    PROVE  credit'[tm] = Cardinality(Out(tm)') + QueuedCalls(event', Waiting(tm)')
<1>1. Out(tm)' = Out(tm)
  BY DEF Out, CountsFor, Steady
<1>2. Waiting(tm)' = Waiting(tm)
  BY DEF Waiting, CountsFor, Steady
<1>3. QueuedCalls(event', Waiting(tm)) = QueuedCalls(event, Waiting(tm))
  <2>1. CASE Waiting(tm) = {}
    BY <2>1, SumOverNone
  <2>2. ASSUME NEW x \in Ev, Waiting(tm) = {x}, event[x].repeat \in Int
        PROVE  QueuedCalls(event', Waiting(tm)) = QueuedCalls(event, Waiting(tm))
    <3>1. event'[x].repeat = event[x].repeat
      BY <2>2 DEF Steady
    <3>2. QueuedCalls(event, {x}) = event[x].repeat + 1
      BY <2>2, SumOverOne
    <3>3. QueuedCalls(event', {x}) = event'[x].repeat + 1
      BY <2>2, <3>1, SumOverOne
    <3> QED BY <2>2, <3>1, <3>2, <3>3
  <2> QED BY <2>1, <2>2, WaitingIs
<1> QED BY <1>1, <1>2, <1>3

LEMMA NothingCounts ==
    ASSUME TInv, OneEntry, CallsOwed, UNCHANGED credit,
           \A e \in Ev : Steady(e) \/ Silent(e)
    PROVE  CallsOwed'
<1> SUFFICES ASSUME NEW tm \in Timer
             PROVE  credit'[tm] = Cardinality(Out(tm)') + QueuedCalls(event', Waiting(tm)')
  BY DEF CallsOwed
<1>1. credit[tm] = Cardinality(Out(tm)) + QueuedCalls(event, Waiting(tm))
  BY DEF CallsOwed
<1> QED BY <1>1, OneTimerOwes DEF Silent

\* Handing a task over adds it to the task queue of its interpreter.
LEMMA PutTaskAdds ==
    ASSUME TInv, OInv, NEW x \in Ev, event[x].type # "FREE",
           evt.hand = x \/ io.hand = x, PutTask(event[x].interp, x)
    PROVE  /\ event[x].interp \in Interp
           /\ \A j \in Interp, e \in Ev :
                 In(e, taskq'[j]) <=> In(e, taskq[j]) \/ (e = x /\ j = event[x].interp)
<1> DEFINE i == event[x].interp
           s == IF event[x].type \in {"CALL_BACK", "SIGNAL"}
                THEN Cons(x, taskq[i]) ELSE Append(taskq[i], x)
<1>1. event[x].type \notin {"NONE", "EVENT_TERMINATE"}
  BY OneHolder
<1>2. i \in Interp
  BY <1>1 DEF OInv, EventsOK, RecOK
<1>3. taskq[i] \in Seq(Ev)
  BY <1>2 DEF TInv, TypeOK
<1>4. \A e : In(e, s) <=> e = x \/ In(e, taskq[i])
  <2>1. \E k \in 0 .. Len(taskq[i]) : IsInsertion(Ev, Cons(x, taskq[i]), taskq[i], k, x)
    BY <1>3, ConsInserts
  <2>2. \E k \in 0 .. Len(taskq[i]) : IsInsertion(Ev, Append(taskq[i], x), taskq[i], k, x)
    BY <1>3, AppendInserts
  <2>3. \E k \in 0 .. Len(taskq[i]) : IsInsertion(Ev, s, taskq[i], k, x)
    BY <2>1, <2>2
  <2> HIDE DEF s
  <2> QED BY <1>3, <2>3, InsertionAdds
<1>5. \A j \in Interp : taskq'[j] = IF j = i THEN s ELSE taskq[j]
  BY DEF PutTask, TInv, TypeOK
<1> HIDE DEF s
<1> QED BY <1>2, <1>4, <1>5

\* The IO thread holds nothing but signals.
LEMMA NextIoSignals ==
    ASSUME TInv, OInv, IoSignals, [Next]_vars
    PROVE  IoSignals'
<1>0. /\ event \in [Ev -> EventRec]
      /\ io.hand \in Ev \cup {NoEv}
      /\ io.hand # NoEv => /\ ~ In(io.hand, eventq) /\ event[io.hand].type # "FREE"
                           /\ \A i \in Interp : /\ ~ In(io.hand, taskq[i])
                                                /\ ~ Serves(io.hand, frames[i])
  BY OneHolder DEF TInv, TypeOK
<1>1. ASSUME io'.hand = io.hand, io.hand # NoEv => event'[io.hand].type = event[io.hand].type
      PROVE  IoSignals'
  BY <1>1 DEF IoSignals
<1>2. CASE Schedules
  <2>1. ASSUME NEW i \in Interp, NEW tm \in Timer, Parrot_del_timer_event(i, tm)
        PROVE  io.hand # NoEv => event'[io.hand].type = event[io.hand].type
    <3> DEFINE K == {k \in 1 .. Len(eventq) : IsTimerEntry(k, i, tm)}
               x == eventq[Min(K)]
    <3>1. CASE K = {}
      BY <2>1, <3>1 DEF Parrot_del_timer_event
    <3>2. CASE K # {}
      <4>1. event' = [event EXCEPT ![x].interval = 0, ![x].type = "NONE"]
        BY <2>1, <3>2 DEF Parrot_del_timer_event
      <4>2. Min(K) \in 1 .. Len(eventq) /\ Min(K) \in K
        BY <3>2, MinIsLeast
      <4>3. In(x, eventq)
        BY <4>2 DEF In
      <4> HIDE DEF x
      <4> QED BY <1>0, <4>1, <4>3
    <3> QED BY <3>1, <3>2
  <2>2. ASSUME NEW x \in Ev, NEW rec, event[x].type = "FREE", Parrot_schedule_event(x, rec)
        PROVE  io.hand # NoEv => event'[io.hand].type = event[io.hand].type
    BY <1>0, <2>2, ScheduleAdds
  <2>3. UNCHANGED io
    BY <1>2, SchedulesOne DEF Parrot_del_timer_event
  <2> QED BY <1>1, <1>2, <2>1, <2>2, <2>3, SchedulesOne
<1>3. CASE EventThread
  <2>1. CASE process_events
    <3>1. UNCHANGED io
      BY <2>1 DEF process_events
    <3>2. Head(eventq) \in Ev /\ In(Head(eventq), eventq)
      BY <2>1, ProcessEffect
    <3>3. \A e \in Ev : event[e].type # "FREE" /\ e # Head(eventq) => event'[e] = event[e]
      BY <1>0, <2>1, ProcessEffect
    <3> QED BY <1>0, <1>1, <3>1, <3>2, <3>3
  <2>2. CASE ~ process_events
    <3>1. UNCHANGED event /\ io'.hand = io.hand
      BY <1>3, <2>2 DEF EventThread, EventThreadLock, EventThreadTimeout, EventThreadWait,
           EventThreadEnable, EventThreadPut, EventThreadDestroy, stop_io_thread, TInv, TypeOK
    <3> QED BY <1>1, <3>1
  <2> QED BY <2>1, <2>2
<1>4. CASE sig_handler \/ IoEintr \/ IoStop
  <2>1. UNCHANGED event /\ io'.hand = io.hand
    BY <1>4 DEF sig_handler, IoEintr, IoStop, TInv, TypeOK
  <2> QED BY <1>1, <2>1
<1>5. ASSUME NEW i \in Interp, IoEnable(i) PROVE IoSignals'
  <2> DEFINE x == NewEvent
             r == UntimedEvent(i, "SIGNAL")
  <2>1. x \in Ev /\ event' = [event EXCEPT ![x] = r] /\ io'.hand = x
    BY <1>5, NewEventIsFree DEF IoEnable, Room, TInv, TypeOK
  <2>2. r.type = "SIGNAL"
    BY NewRecordsOK
  <2> HIDE DEF x, r
  <2> QED BY <1>0, <2>1, <2>2 DEF IoSignals
<1>6. CASE IoPut
  BY <1>6 DEF IoPut, IoSignals, TInv, TypeOK
<1>7. CASE Interpreters
  <2>1. ASSUME NEW i \in Interp, \/ CheckEvents(i) \/ Parrot_do_check_events(i) \/ LoopEnds(i)
                                 \/ DoHandler(i) \/ DoSignal(i)
        PROVE  IoSignals'
    BY <1>1, <2>1 DEF CheckEvents, Parrot_do_check_events, LoopEnds, DoHandler, DoSignal
  <2>2. ASSUME NEW i \in Interp, DoSleep(i) \/ DoTerminate(i) PROVE IoSignals'
    <3> DEFINE x == Head(taskq[i])
    <3>1. TakesTask(i, {"SLEEP", "TERMINATE"})
      BY <2>2 DEF DoSleep, DoTerminate, TakesTask
    <3>2. event' = [event EXCEPT ![x] = FreeEvent] /\ UNCHANGED io
      BY <2>2 DEF DoSleep, DoTerminate, FreeTask
    <3>3. x \in Ev /\ io.hand # x
      BY <3>1, TakesTaskOwned
    <3> HIDE DEF x
    <3> QED BY <1>0, <1>1, <3>2, <3>3
  <2>3. ASSUME NEW i \in Interp, RunLoopEnds(i) PROVE IoSignals'
    <3> DEFINE n == Len(frames[i])
               y == frames[i][n-1].ev
    <3>1. UNCHANGED io /\ (event' = event \/ (n # 1 /\ event' = [event EXCEPT ![y] = FreeEvent]))
      BY <2>3 DEF RunLoopEnds
    <3>2. n # 1 => Serves(y, frames[i])
      <4>1. frames[i] \in Seq(Frame) /\ frames[i] # <<>>
        BY <2>3 DEF RunLoopEnds, TInv, TypeOK
      <4>2. n \in Nat \ {0}
        BY <4>1, EmptySeq, LenProperties
      <4>3. \A m \in Nat \ {0} : m # 1 => m - 1 \in 1 .. m
        OBVIOUS
      <4> QED BY <4>2, <4>3 DEF Serves
    <3> HIDE DEF y
    <3> QED BY <1>0, <1>1, <3>1, <3>2
  <2> QED BY <1>7, <2>1, <2>2, <2>3 DEF Interpreters, HandlesTasks
<1>8. CASE Tick
  <2>1. UNCHANGED io /\ \A e \in Ev : event'[e].type = event[e].type
    BY <1>8, TickEffect DEF Tick, TInv
  <2> QED BY <1>0, <1>1, <2>1
<1>9. CASE UNCHANGED vars
  BY <1>9 DEF vars, IoSignals
<1> QED BY <1>2, <1>3, <1>4, <1>5, <1>6, <1>7, <1>8, <1>9 DEF Next, IoThread

\* process_events leaves a copy of an event that is to be repeated, with one
\* repetition less in both.
LEMMA ProcessCopies ==
    ASSUME TInv, OInv, process_events,
           event[Head(eventq)].timed, Repeats(event[Head(eventq)])
    PROVE  \E n \in Ev :
              LET x == Head(eventq)
                  k == event[x].repeat
                  m == IF k = -1 THEN -1 ELSE k - 1
              IN  /\ event[n].type = "FREE" /\ event[x].type # "FREE"
                  /\ \A f \in {"type", "data", "interval"} :
                        event'[x][f] = event[x][f] /\ event'[n][f] = event[x][f]
                  /\ event'[x].repeat = m /\ event'[n].repeat = m
                  /\ \A e \in Ev \ {x, n} : event'[e] = event[e]
                  /\ \A e : In(e, eventq') <=> e = n \/ (In(e, eventq) /\ e # x)
<1> DEFINE x == Head(eventq)
           r == CountDown(event[x])
           n == NewEvent
           c == [r EXCEPT !.due = r.interval]
           k == event[x].repeat
           m == IF k = -1 THEN -1 ELSE k - 1
<1>1. /\ Unallocated # {} /\ event' = [event EXCEPT ![x] = r, ![n] = c]
      /\ eventq' = Inserted(Tail(eventq), n, TimedEvents(event'), Due(event'))
  BY DEF process_events
<1>2. /\ eventq \in Seq(Ev) /\ Once(eventq) /\ eventq # <<>>
      /\ event \in [Ev -> EventRec]
  BY DEF TInv, TypeOK, OInv, QueuesOK, process_events
<1>3. /\ x \in Ev /\ In(x, eventq) /\ Tail(eventq) \in Seq(Ev)
      /\ \A e : In(e, Tail(eventq)) <=> In(e, eventq) /\ e # x
  BY <1>2, TailRemoves
<1>4. n \in Ev /\ event[n].type = "FREE"
  BY <1>1, NewEventIsFree
<1>5. event[x].type # "FREE" /\ n # x
  BY <1>3, <1>4, OneHolder
<1>6. event[x] \in EventRec /\ event[x].interval # 0 /\ event[x].repeat # 0
  BY <1>2, <1>3 DEF Repeats
<1>7. /\ r \in EventRec /\ r.repeat = m
      /\ \A f \in {"type", "data", "interval"} : r[f] = event[x][f]
  <2> DEFINE o == event[x]
  <2>1. o \in EventRec /\ Repeats(o)
    BY <1>6
  <2>2. r \in EventRec /\ r = (IF o.repeat # -1 THEN [o EXCEPT !.repeat = o.repeat - 1] ELSE o)
    BY <2>1, ChangedRecords DEF CountDown
  <2>3. k = o.repeat
    OBVIOUS
  <2> HIDE DEF o, r, k
  <2>4. CASE o.repeat = -1
    BY <2>2, <2>3, <2>4 DEF o
  <2>5. CASE o.repeat # -1
    <3>1. r = [o EXCEPT !.repeat = o.repeat - 1]
      BY <2>2, <2>5
    <3>2. r.repeat = o.repeat - 1
      BY <2>1, <3>1 DEF EventRec
    <3>3. \A f \in {"type", "data", "interval"} : r[f] = o[f]
      BY <2>1, <3>1 DEF EventRec
    <3> QED BY <2>2, <2>3, <2>5, <3>2, <3>3 DEF o
  <2> QED BY <2>4, <2>5
<1> HIDE DEF r
<1>8. c.repeat = r.repeat /\ \A f \in {"type", "data", "interval"} : c[f] = r[f]
  BY <1>7 DEF EventRec
<1> HIDE DEF c, n, m, x
<1>9. event'[x] = r /\ event'[n] = c /\ \A e \in Ev \ {x, n} : event'[e] = event[e]
  BY <1>1, <1>2, <1>3, <1>4, <1>5
<1>10. \A e : In(e, eventq') <=> e = n \/ (In(e, eventq) /\ e # x)
  <2>1. \E j \in 0 .. Len(Tail(eventq)) : IsInsertion(Ev, eventq', Tail(eventq), j, n)
    BY <1>1, <1>3, <1>4, InsertedInserts
  <2> QED BY <1>3, <1>4, <2>1, InsertionAdds
<1>11. /\ \A f \in {"type", "data", "interval"} :
             event'[x][f] = event[x][f] /\ event'[n][f] = event[x][f]
       /\ event'[x].repeat = m /\ event'[n].repeat = m
  BY <1>7, <1>8, <1>9
<1> QED BY <1>4, <1>5, <1>9, <1>10, <1>11 DEF x, m

\* A timer that is scheduled to repeat has an interval.
LEMMA SchedulesRepeats ==
    ASSUME \A a \in TimerArgs : a.repeat > 0 => a.diff + a.interval > 0,
           TInv, Schedules
    PROVE  \/ \E i \in Interp, tm \in Timer : Parrot_del_timer_event(i, tm)
           \/ \E x \in Ev : \E rec :
                 /\ event[x].type = "FREE" /\ Parrot_schedule_event(x, rec)
                 /\ rec.type = "TIMER" /\ rec.repeat > 0 => rec.interval # 0
<1> USE TimerAssumption
<1> DEFINE Goal == \E x \in Ev : \E rec :
                      /\ event[x].type = "FREE" /\ Parrot_schedule_event(x, rec)
                      /\ rec.type = "TIMER" /\ rec.repeat > 0 => rec.interval # 0
<1>1. ASSUME NEW rec, Parrot_schedule_event(NewEvent, rec), Unallocated # {},
             rec.type = "TIMER" /\ rec.repeat > 0 => rec.interval # 0
      PROVE  Goal
  BY <1>1, NewEventIsFree
<1>2. ASSUME NEW i \in Interp, NEW data, NEW a \in TimerArgs
      PROVE  LET rec == TimedEvent(i, "TIMER", data, a)
             IN  rec.type = "TIMER" /\ rec.repeat > 0 => rec.interval # 0
  <2>1. /\ a.diff \in Nat /\ a.interval \in Nat /\ a.repeat \in Nat \cup {-1}
        /\ a.repeat > 0 => a.diff + a.interval > 0
    OBVIOUS
  <2> QED BY <2>1 DEF TimedEvent
<1>3. ASSUME NEW i \in Interp, NEW tm \in Timer, NEW a \in TimerArgs, StartTimer(i, tm, a)
      PROVE  Goal
  BY <1>1, <1>2, <1>3 DEF StartTimer, Room
<1>4. ASSUME NEW i \in Interp, NEW a \in TimerArgs, Alarm(i, a) PROVE Goal
  BY <1>1, <1>2, <1>4 DEF Alarm, Room
<1>5. ASSUME NEW i \in Interp, NEW t \in Naps, Parrot_sleep_on_event(i, t) PROVE Goal
  <2> DEFINE a == [diff |-> t, interval |-> 0, repeat |-> 0]
  <2>1. TimedEvent(i, "SLEEP", NoTimer, a).type # "TIMER"
    BY DEF TimedEvent
  <2> HIDE DEF a
  <2>2. Parrot_schedule_event(NewEvent, TimedEvent(i, "SLEEP", NoTimer, a)) /\ Unallocated # {}
    BY <1>5 DEF Parrot_sleep_on_event, Room, a
  <2> QED BY <1>1, <2>1, <2>2
<1>6. \A i, type : UntimedEvent(i, type).type = type
  BY DEF UntimedEvent, FreeEvent
<1>7. ASSUME NEW i \in Interp, Parrot_new_cb_event(i) \/ Parrot_new_terminate_event(i)
      PROVE  Goal
  BY <1>1, <1>6, <1>7 DEF Parrot_new_cb_event, Parrot_new_terminate_event, Room
<1>8. ASSUME Parrot_kill_event_loop PROVE Goal
  BY <1>1, <1>6, <1>8 DEF Parrot_kill_event_loop, Room
<1> QED BY <1>3, <1>4, <1>5, <1>7, <1>8 DEF Schedules

\* Events that are to be repeated have an interval.
LEMMA NextRepeats ==
    ASSUME \A a \in TimerArgs : a.repeat > 0 => a.diff + a.interval > 0,
           TInv, OInv, RepeatsAgain, [Next]_vars
    PROVE  RepeatsAgain'
<1>0. event \in [Ev -> EventRec]
  BY DEF TInv, TypeOK
<1>1. CASE Schedules
  <2>1. ASSUME NEW i \in Interp, NEW tm \in Timer, Parrot_del_timer_event(i, tm)
        PROVE  RepeatsAgain'
    <3> DEFINE K == {k \in 1 .. Len(eventq) : IsTimerEntry(k, i, tm)}
               x == eventq[Min(K)]
    <3>1. CASE K = {}
      BY <2>1, <3>1 DEF Parrot_del_timer_event, RepeatsAgain
    <3>2. CASE K # {}
      <4>1. event' = [event EXCEPT ![x].interval = 0, ![x].type = "NONE"] /\ eventq' = eventq
        BY <2>1, <3>2 DEF Parrot_del_timer_event
      <4>2. Min(K) \in 1 .. Len(eventq) /\ Min(K) \in K
        BY <3>2, MinIsLeast
      <4>3. x \in Ev
        BY <4>2, QueueOfEvents DEF TInv
      <4> HIDE DEF x
      <4>4. event[x] \in EventRec
        BY <1>0, <4>3
      <4>5. event'[x].type = "NONE" /\ \A e \in Ev \ {x} : event'[e] = event[e]
        BY <1>0, <4>1, <4>3, <4>4 DEF EventRec
      <4> QED BY <4>1, <4>5 DEF RepeatsAgain
    <3> QED BY <3>1, <3>2
  <2>2. ASSUME NEW x \in Ev, NEW rec, event[x].type = "FREE", Parrot_schedule_event(x, rec),
               rec.type = "TIMER" /\ rec.repeat > 0 => rec.interval # 0
        PROVE  RepeatsAgain'
    <3>1. /\ event'[x] = rec /\ \A e \in Ev \ {x} : event'[e] = event[e]
          /\ \A e : In(e, eventq') <=> e = x \/ In(e, eventq)
      BY <2>2, ScheduleAdds
    <3> QED BY <2>2, <3>1 DEF RepeatsAgain
  <2> QED BY <1>1, <2>1, <2>2, SchedulesRepeats
<1>2. CASE process_events
  <2> DEFINE x == Head(eventq)
  <2>1. CASE event[x].timed /\ Repeats(event[x])
    <3> DEFINE m == IF event[x].repeat = -1 THEN -1 ELSE event[x].repeat - 1
    <3>1. PICK n \in Ev :
             /\ \A f \in {"type", "data", "interval"} :
                   event'[x][f] = event[x][f] /\ event'[n][f] = event[x][f]
             /\ \A e \in Ev \ {x, n} : event'[e] = event[e]
             /\ \A e : In(e, eventq') <=> e = n \/ (In(e, eventq) /\ e # x)
      BY <1>2, <2>1, ProcessCopies
    <3>2. event'[n].interval # 0
      BY <2>1, <3>1 DEF Repeats
    <3> HIDE DEF x
    <3> QED BY <3>1, <3>2 DEF RepeatsAgain
  <2>2. CASE ~ (event[x].timed /\ Repeats(event[x]))
    <3>1. /\ event' = IF event[x].type \in {"NONE", "EVENT_TERMINATE"}
                      THEN [event EXCEPT ![x] = FreeEvent] ELSE event
          /\ \A e : In(e, eventq') <=> In(e, eventq) /\ e # x
      BY <1>2, <2>2, ProcessEffect
    <3> HIDE DEF x
    <3>2. \A e \in Ev : In(e, eventq') => In(e, eventq) /\ event'[e] = event[e]
      BY <1>0, <3>1
    <3> QED BY <3>2 DEF RepeatsAgain
  <2> QED BY <2>1, <2>2
<1>3. CASE QueueAlone
  BY <1>3 DEF QueueAlone, RepeatsAgain
<1>4. CASE Tick
  <2>1. eventq' = eventq /\ \A e \in Ev : /\ event'[e].type = event[e].type
                                          /\ event'[e].repeat = event[e].repeat
                                          /\ event'[e].interval = event[e].interval
    BY <1>4, TickEffect DEF Tick, TInv
  <2> QED BY <2>1 DEF RepeatsAgain
<1>5. CASE UNCHANGED vars
  BY <1>5 DEF vars, RepeatsAgain
<1> QED BY <1>1, <1>2, <1>3, <1>4, <1>5, LeavesQueueAlone DEF Next

\* The sum over the waiting events of a timer is a number, which stays when
\* they do.
LEMMA SumKept ==
    ASSUME TInv, OneEntry, NEW tm \in Timer
    PROVE  /\ QueuedCalls(event, Waiting(tm)) \in Int
           /\ Waiting(tm)' = Waiting(tm)
              /\ (\A e \in Waiting(tm) : event'[e].repeat = event[e].repeat)
                => QueuedCalls(event', Waiting(tm)') = QueuedCalls(event, Waiting(tm))
<1>1. CASE Waiting(tm) = {}
  BY <1>1, SumOverNone
<1>2. ASSUME NEW x \in Ev, Waiting(tm) = {x}, event[x].repeat \in Int
      PROVE  /\ QueuedCalls(event, Waiting(tm)) \in Int
             /\ Waiting(tm)' = Waiting(tm)
                /\ (\A e \in Waiting(tm) : event'[e].repeat = event[e].repeat)
                  => QueuedCalls(event', Waiting(tm)') = QueuedCalls(event, Waiting(tm))
  <2>1. QueuedCalls(event, {x}) = event[x].repeat + 1
    BY <1>2, SumOverOne
  <2>2. event'[x].repeat = event[x].repeat
           => QueuedCalls(event', {x}) = event'[x].repeat + 1
    BY <1>2, SumOverOne
  <2>3. ASSUME Waiting(tm)' = Waiting(tm),
               \A e \in Waiting(tm) : event'[e].repeat = event[e].repeat
        PROVE  QueuedCalls(event', Waiting(tm)') = QueuedCalls(event, Waiting(tm))
    <3>1. Waiting(tm)' = {x} /\ event'[x].repeat = event[x].repeat
      BY <1>2, <2>3
    <3> QED BY <1>2, <2>1, <2>2, <3>1
  <2>4. QueuedCalls(event, Waiting(tm)) \in Int
    BY <1>2, <2>1
  <2> QED BY <2>3, <2>4
<1> QED BY <1>1, <1>2, WaitingIs

\* The events of a timer are finitely many.
LEMMA OutIsFinite ==
    ASSUME NEW tm
    PROVE  IsFiniteSet(Out(tm)) /\ Cardinality(Out(tm)) \in Int
<1>1. Out(tm) \subseteq Ev
  BY DEF Out
<1>2. IsFiniteSet(Out(tm))
  BY <1>1, EvFacts, FS_Subset
<1>3. Cardinality(Out(tm)) \in Nat
  BY <1>2, FS_CardinalityType
<1> QED BY <1>2, <1>3

\* The sources of events do not take them out of the queue.
LEMMA SchedulesLeave ==
    ASSUME TInv, Schedules
    PROVE  /\ \A e \in Ev : Taken(e)' <=> Taken(e)
           /\ \/ \E i \in Interp, tm \in Timer, a \in TimerArgs : StartTimer(i, tm, a)
              \/ \E i \in Interp, tm \in Timer : Parrot_del_timer_event(i, tm)
              \/ UNCHANGED credit
<1>1. taskq' = taskq /\ (WakeEventThread \/ UNCHANGED evt)
  <2>1. ASSUME NEW x, NEW rec, Parrot_schedule_event(x, rec)
        PROVE  WakeEventThread
    BY <2>1 DEF Parrot_schedule_event
  <2>2. ASSUME NEW i \in Interp, NEW tm \in Timer, Parrot_del_timer_event(i, tm)
        PROVE  taskq' = taskq /\ (WakeEventThread \/ UNCHANGED evt)
    BY <2>2 DEF Parrot_del_timer_event
  <2>3. ASSUME NEW i \in Interp, NEW tm \in Timer, NEW a \in TimerArgs, StartTimer(i, tm, a)
        PROVE  taskq' = taskq /\ WakeEventThread
    BY <2>1, <2>3 DEF StartTimer
  <2>4. ASSUME NEW i \in Interp, NEW a \in TimerArgs, Alarm(i, a)
        PROVE  taskq' = taskq /\ WakeEventThread
    BY <2>1, <2>4 DEF Alarm
  <2>5. ASSUME NEW i \in Interp, NEW t \in Naps, Parrot_sleep_on_event(i, t)
        PROVE  taskq' = taskq /\ WakeEventThread
    BY <2>1, <2>5 DEF Parrot_sleep_on_event
  <2>6. ASSUME NEW i \in Interp, Parrot_new_cb_event(i) \/ Parrot_new_terminate_event(i)
        PROVE  taskq' = taskq /\ WakeEventThread
    BY <2>1, <2>6 DEF Parrot_new_cb_event, Parrot_new_terminate_event
  <2>7. ASSUME Parrot_kill_event_loop
        PROVE  taskq' = taskq /\ WakeEventThread
    BY <2>1, <2>7 DEF Parrot_kill_event_loop
  <2>8. CASE \E i \in Interp, tm \in Timer, a \in TimerArgs : StartTimer(i, tm, a)
    BY <2>3, <2>8
  <2>9. CASE \E i \in Interp, a \in TimerArgs : Alarm(i, a)
    BY <2>4, <2>9
  <2>10. CASE \E i \in Interp, tm \in Timer : Parrot_del_timer_event(i, tm)
    BY <2>2, <2>10
  <2>11. CASE \E i \in Interp, t \in Naps : Parrot_sleep_on_event(i, t)
    BY <2>5, <2>11
  <2>12. CASE \E i \in Interp : Parrot_new_cb_event(i) \/ Parrot_new_terminate_event(i)
    BY <2>6, <2>12
  <2> QED BY <2>7, <2>8, <2>9, <2>10, <2>11, <2>12 DEF Schedules
<1>2. evt'.hand = evt.hand
  BY <1>1 DEF WakeEventThread, TInv, TypeOK
<1>3. \/ \E i \in Interp, tm \in Timer, a \in TimerArgs : StartTimer(i, tm, a)
      \/ \E i \in Interp, tm \in Timer : Parrot_del_timer_event(i, tm)
      \/ UNCHANGED credit
  BY DEF Schedules, Alarm, Parrot_sleep_on_event, Parrot_new_cb_event,
         Parrot_new_terminate_event, Parrot_kill_event_loop, history
<1> QED BY <1>1, <1>2, <1>3 DEF Taken

\* A timer that is started owes a call for its event and one for each
\* repetition.
LEMMA StartCalls ==
    ASSUME MaxStarts <= 1, TInv, OInv, OneEntry, CallsOwed, Schedules,
           NEW i \in Interp, NEW tm \in Timer, NEW a \in TimerArgs, StartTimer(i, tm, a)
    PROVE  CallsOwed'
<1> USE TimerAssumption
<1> DEFINE x == NewEvent
           r == TimedEvent(i, "TIMER", tm, a)
<1>1. x \in Ev /\ event[x].type = "FREE"
  BY NewEventIsFree DEF StartTimer, Room
<1>2. r.data = tm /\ r.type = "TIMER" /\ r.repeat = a.repeat /\ a.repeat \in Int
  BY DEF TimedEvent
<1>3. Parrot_schedule_event(x, r)
  BY DEF StartTimer
<1> HIDE DEF x, r
<1>4. /\ event'[x] = r /\ \A e \in Ev \ {x} : event'[e] = event[e]
      /\ \A e : In(e, eventq') <=> e = x \/ In(e, eventq)
  BY <1>1, <1>3, ScheduleAdds
<1>5. \A e \in Ev : Taken(e)' <=> Taken(e)
  BY SchedulesLeave
<1>6. ~ Taken(x) /\ ~ In(x, eventq)
  BY <1>1, OneHolder DEF Taken
<1>7. \A e \in Ev \ {x} : Steady(e)
  BY <1>4, <1>5 DEF Steady
<1>8. /\ credit \in [Timer -> Int] /\ credit'[tm] = credit[tm] + a.repeat + 1
      /\ \A m \in Timer \ {tm} : credit'[m] = credit[m]
  BY DEF StartTimer, TInv, TypeOK
<1> SUFFICES ASSUME NEW m \in Timer
             PROVE  credit'[m] = Cardinality(Out(m)') + QueuedCalls(event', Waiting(m)')
  BY DEF CallsOwed
<1>9. credit[m] = Cardinality(Out(m)) + QueuedCalls(event, Waiting(m))
  BY DEF CallsOwed
<1>10. CASE m # tm
  <2>1. /\ x \notin Out(m) /\ x \notin Waiting(m)
        /\ x \notin Out(m)' /\ x \notin Waiting(m)'
    BY <1>1, <1>2, <1>4, <1>10 DEF Out, Waiting, CountsFor
  <2> QED BY <1>7, <1>8, <1>9, <1>10, <2>1, OneTimerOwes
<1>11. CASE m = tm
  <2>1. TimerEntries(tm) = {}
    <3>1. starts \in [Timer -> Nat] /\ MaxStarts \in Nat
      BY BoundAssumption DEF TInv, TypeOK
    <3>2. starts[tm] \in Nat /\ starts[tm] < MaxStarts
      BY <3>1 DEF StartTimer
    <3>3. starts[tm] = 0
      BY <3>1, <3>2
    <3> QED BY <3>3 DEF OneEntry
  <2>2. Waiting(tm) = {}
    BY <2>1 DEF Waiting, TimerEntries, CountsFor
  <2>3. Out(tm)' = Out(tm)
    BY <1>4, <1>5, <1>6 DEF Out, CountsFor
  <2>4. Waiting(tm)' = IF a.repeat # -1 THEN {x} ELSE {}
    <3>1. \A e \in Ev \ {x} : e \notin Waiting(tm)'
      BY <1>4, <2>2 DEF Waiting, CountsFor
    <3>2. x \in Waiting(tm)' <=> a.repeat # -1
      BY <1>1, <1>2, <1>4 DEF Waiting, CountsFor
    <3>3. Waiting(tm)' \subseteq Ev
      BY DEF Waiting
    <3> QED BY <3>1, <3>2, <3>3
  <2>5. QueuedCalls(event, Waiting(tm)) = 0
    BY <2>2, SumOverNone
  <2>6. QueuedCalls(event', Waiting(tm)') = a.repeat + 1
    <3>1. CASE a.repeat = -1
      BY <2>4, <3>1, SumOverNone
    <3>2. CASE a.repeat # -1
      <4>1. event'[x].repeat = a.repeat
        BY <1>2, <1>4
      <4>2. QueuedCalls(event', {x}) = event'[x].repeat + 1
        BY <1>2, <4>1, SumOverOne
      <4> QED BY <2>4, <3>2, <4>1, <4>2
    <3> QED BY <3>1, <3>2
  <2>7. Cardinality(Out(tm)) \in Int
    BY OutIsFinite
  <2> QED BY <1>2, <1>8, <1>9, <1>11, <2>3, <2>5, <2>6, <2>7
<1> QED BY <1>10, <1>11

\* A timer that is stopped owes the calls for the events that have left the
\* queue: its only entry is taken out of the count.
LEMMA StopCalls ==
    ASSUME TInv, OInv, OneEntry, OneEntry', CallsOwed, Schedules,
           NEW i \in Interp, NEW tm \in Timer, Parrot_del_timer_event(i, tm)
    PROVE  CallsOwed'
<1> DEFINE K == {k \in 1 .. Len(eventq) : IsTimerEntry(k, i, tm)}
           x == eventq[Min(K)]
<1>0. /\ event \in [Ev -> EventRec] /\ eventq' = eventq
      /\ running'[tm] = FALSE /\ credit'[tm] = Cardinality(InFlight(tm))
      /\ \A m \in Timer \ {tm} : credit'[m] = credit[m]
  BY DEF TInv, TypeOK, Parrot_del_timer_event
<1>1. \A e \in Ev : Taken(e)' <=> Taken(e)
  BY SchedulesLeave
<1>2. \A e \in Ev : \/ Steady(e)
                    \/ event[e].data = tm /\ event'[e].data = tm /\ In(e, eventq)
  <2>1. CASE K = {}
    <3>1. event' = event
      BY <2>1 DEF Parrot_del_timer_event
    <3> QED BY <1>0, <1>1, <3>1 DEF Steady
  <2>2. CASE K # {}
    <3>1. event' = [event EXCEPT ![x].interval = 0, ![x].type = "NONE"]
      BY <2>2 DEF Parrot_del_timer_event
    <3>2. Min(K) \in 1 .. Len(eventq) /\ Min(K) \in K
      BY <2>2, MinIsLeast
    <3>3. x \in Ev /\ In(x, eventq) /\ event[x].data = tm
      BY <3>2, QueueOfEvents DEF TInv, In, IsTimerEntry
    <3> HIDE DEF x
    <3>4. event[x] \in EventRec
      BY <1>0, <3>3
    <3>5. event'[x].data = event[x].data /\ \A e \in Ev \ {x} : event'[e] = event[e]
      BY <1>0, <3>1, <3>3, <3>4 DEF EventRec
    <3> QED BY <1>0, <1>1, <3>3, <3>5 DEF Steady
  <2> QED BY <2>1, <2>2
<1> HIDE DEF K, x
<1>3. \A e \in Ev : In(e, eventq) => ~ Taken(e)
  BY OneHolder DEF Taken
<1> SUFFICES ASSUME NEW m \in Timer
             PROVE  credit'[m] = Cardinality(Out(m)') + QueuedCalls(event', Waiting(m)')
  BY DEF CallsOwed
<1>4. CASE m # tm
  <2>1. credit[m] = Cardinality(Out(m)) + QueuedCalls(event, Waiting(m))
    BY DEF CallsOwed
  <2>2. ASSUME NEW e \in Ev
        PROVE  \/ Steady(e)
               \/ /\ e \notin Out(m) /\ e \notin Waiting(m)
                  /\ e \notin Out(m)' /\ e \notin Waiting(m)'
    BY <1>2, <1>4 DEF Out, Waiting, CountsFor
  <2> QED BY <1>0, <1>4, <2>1, <2>2, OneTimerOwes
<1>5. CASE m = tm
  <2>1. Out(tm)' = Out(tm)
    <3>1. ASSUME NEW e \in Ev PROVE e \in Out(tm)' <=> e \in Out(tm)
      BY <1>1, <1>2, <1>3 DEF Out, CountsFor, Steady
    <3> QED BY <3>1 DEF Out
  <2>2. Waiting(tm)' = {}
    <3> SUFFICES ASSUME NEW e \in Waiting(tm)' PROVE FALSE
      OBVIOUS
    <3>1. e \in TimerEntries(tm)' /\ event'[e].type = "TIMER"
      BY DEF Waiting, CountsFor, TimerEntries
    <3> QED BY <1>0, <3>1 DEF OneEntry
  <2>3. QueuedCalls(event', Waiting(tm)') = 0
    BY <2>2, SumOverNone
  <2>4. InFlight(tm) = Out(tm)
    BY InFlightIsOut
  <2>5. Cardinality(Out(tm)) \in Int
    BY OutIsFinite
  <2> QED BY <1>0, <1>5, <2>1, <2>3, <2>4, <2>5
<1> QED BY <1>4, <1>5

\* An event that comes due is taken out of the queue; if it is to be repeated
\* its copy owes one call less.
LEMMA ProcessCalls ==
    ASSUME TInv, OInv, OneEntry, CallsOwed, RepeatsAgain, process_events
    PROVE  CallsOwed'
<1>0. PICK x \in Ev : x = Head(eventq)
  BY ProcessEffect
<1>1. /\ evt.pc = "process" /\ UNCHANGED <<taskq, credit>>
      /\ event \in [Ev -> EventRec] /\ eventq # <<>>
  BY DEF process_events, history, TInv, TypeOK
<1>2. evt' = CASE event[x].type = "NONE" -> evt
               [] event[x].type = "EVENT_TERMINATE" -> [evt EXCEPT !.pc = "destroy"]
               [] OTHER -> [pc |-> "enable", hand |-> x]
  BY <1>0 DEF process_events
<1>3. evt.hand = NoEv /\ \A e \in Ev : e # NoEv
  BY <1>1, EvFacts DEF TInv, HandsFull
<1>4. x \in Ev /\ In(x, eventq)
  BY <1>0, ProcessEffect
<1>5. ~ Taken(x) /\ event[x] \in EventRec
  BY <1>1, <1>4, OneHolder DEF Taken
<1>6. \A e \in Ev \ {x} : Taken(e)' <=> Taken(e)
  <2>1. evt'.hand \in {NoEv, x}
    BY <1>2, <1>3 DEF TInv, TypeOK
  <2> QED BY <1>1, <1>3, <2>1 DEF Taken
<1>7. event[x].type \notin {"NONE", "EVENT_TERMINATE"} => Taken(x)'
  <2> SUFFICES ASSUME event[x].type \notin {"NONE", "EVENT_TERMINATE"} PROVE Taken(x)'
    OBVIOUS
  <2>1. evt' = [pc |-> "enable", hand |-> x]
    BY <1>2
  <2>2. evt'.hand = x
    BY <2>1
  <2> QED BY <2>2 DEF Taken
<1> SUFFICES ASSUME NEW tm \in Timer
             PROVE  credit'[tm] = Cardinality(Out(tm)') + QueuedCalls(event', Waiting(tm)')
  BY DEF CallsOwed
<1>8. credit[tm] = Cardinality(Out(tm)) + QueuedCalls(event, Waiting(tm))
  BY DEF CallsOwed
<1>9. CountsFor(tm, x) => /\ Waiting(tm) = {x} /\ event[x].timed
                          /\ event[x].repeat \in Nat
                          /\ QueuedCalls(event, Waiting(tm)) = event[x].repeat + 1
  <2> SUFFICES ASSUME CountsFor(tm, x)
               PROVE  /\ Waiting(tm) = {x} /\ event[x].timed
                      /\ event[x].repeat \in Nat
                      /\ QueuedCalls(event, Waiting(tm)) = event[x].repeat + 1
    OBVIOUS
  <2>1. x \in Waiting(tm) /\ x \in TimerEntries(tm)
    BY <1>4 DEF Waiting, TimerEntries, CountsFor
  <2>2. Waiting(tm) = {x}
    BY <2>1, WaitingIs
  <2>3. event[x].repeat \in Nat
    BY <1>5 DEF CountsFor, EventRec
  <2>4. QueuedCalls(event, {x}) = event[x].repeat + 1
    BY <2>3, SumOverOne
  <2> QED BY <2>1, <2>2, <2>3, <2>4 DEF OneEntry
<1>10. ASSUME CountsFor(tm, x), CountsFor(tm, x)', Taken(x)',
              \A e \in Ev \ {x} : e \in Out(tm)' <=> e \in Out(tm)
       PROVE  Cardinality(Out(tm)') = Cardinality(Out(tm)) + 1
  <2>1. Out(tm)' = Out(tm) \cup {x} /\ x \notin Out(tm)
    BY <1>4, <1>5, <1>10 DEF Out
  <2> QED BY <2>1, OutIsFinite, FS_AddElement
<1>11. CASE event[x].timed /\ Repeats(event[x])
  <2> DEFINE k == event[x].repeat
             m == IF k = -1 THEN -1 ELSE k - 1
  <2>1. PICK n \in Ev :
           /\ event[n].type = "FREE" /\ event[x].type # "FREE"
           /\ \A f \in {"type", "data", "interval"} :
                 event'[x][f] = event[x][f] /\ event'[n][f] = event[x][f]
           /\ event'[x].repeat = m /\ event'[n].repeat = m
           /\ \A e \in Ev \ {x, n} : event'[e] = event[e]
           /\ \A e : In(e, eventq') <=> e = n \/ (In(e, eventq) /\ e # x)
    BY <1>0, <1>11, ProcessCopies
  <2>2. ~ In(n, eventq) /\ ~ Taken(n) /\ n # x
    BY <2>1, OneHolder DEF Taken
  <2>3. /\ event'[x].type = event[x].type /\ event'[x].data = event[x].data
        /\ event'[n].type = event[x].type /\ event'[n].data = event[x].data
    BY <2>1
  <2>4. k \in Int /\ k # 0 /\ (m = -1 <=> k = -1)
    BY <1>5, <1>11 DEF Repeats, EventRec
  <2> HIDE DEF k, m
  <2>5. event'[x].repeat = m /\ event'[n].repeat = m
    BY <2>1
  <2>6. \A e \in {x, n} : CountsFor(tm, e)' <=> CountsFor(tm, x)
    BY <2>3, <2>4, <2>5 DEF CountsFor, k
  <2>7. \A e \in Ev \ {x, n} : Steady(e)
    BY <1>6, <2>1 DEF Steady
  <2>8. ~ Taken(n)'
    BY <1>6, <2>2
  <2>9. CASE ~ CountsFor(tm, x)
    <3>1. \A e \in {x, n} : /\ e \notin Out(tm) /\ e \notin Waiting(tm)
                            /\ e \notin Out(tm)' /\ e \notin Waiting(tm)'
      BY <1>5, <2>2, <2>6, <2>9 DEF Out, Waiting
    <3> QED BY <1>1, <1>8, <2>7, <3>1, OneTimerOwes
  <2>10. CASE CountsFor(tm, x)
    <3>1. event[x].type \notin {"NONE", "EVENT_TERMINATE"} /\ k # -1
      BY <2>10 DEF CountsFor, k
    <3>2. \A e \in Ev \ {x} : e \in Out(tm)' <=> e \in Out(tm)
      BY <2>2, <2>7, <2>8 DEF Out, Steady, CountsFor
    <3>3. Cardinality(Out(tm)') = Cardinality(Out(tm)) + 1
      BY <1>7, <1>10, <2>6, <2>10, <3>1, <3>2
    <3>4. Waiting(tm)' = {n}
      <4>1. \A e \in Ev \ {x, n} : e \notin Waiting(tm)'
        BY <1>9, <2>1, <2>10 DEF Waiting, CountsFor
      <4>2. n \in Waiting(tm)' /\ x \notin Waiting(tm)'
        BY <2>1, <2>2, <2>6, <2>10 DEF Waiting
      <4>3. Waiting(tm)' \subseteq Ev
        BY DEF Waiting
      <4> QED BY <4>1, <4>2, <4>3
    <3>5. m = k - 1 /\ m \in Int
      BY <2>4, <3>1 DEF m
    <3>6. QueuedCalls(event', {n}) = event'[n].repeat + 1
      BY <2>5, <3>5, SumOverOne
    <3>7. QueuedCalls(event', Waiting(tm)') = k
      BY <2>4, <2>5, <3>4, <3>5, <3>6
    <3>8. QueuedCalls(event, Waiting(tm)) = k + 1
      BY <1>9, <2>10 DEF k
    <3>9. Cardinality(Out(tm)) \in Int
      BY OutIsFinite
    <3> QED BY <1>1, <1>8, <2>4, <3>3, <3>7, <3>8, <3>9
  <2> QED BY <2>9, <2>10
<1>12. CASE ~ (event[x].timed /\ Repeats(event[x]))
  <2>1. /\ event' = IF event[x].type \in {"NONE", "EVENT_TERMINATE"}
                    THEN [event EXCEPT ![x] = FreeEvent] ELSE event
        /\ \A e : In(e, eventq') <=> In(e, eventq) /\ e # x
    BY <1>0, <1>12, ProcessEffect
  <2>2. \A e \in Ev \ {x} : event'[e] = event[e]
    BY <1>1, <2>1
  <2>3. \A e \in Ev \ {x} : Steady(e)
    BY <1>6, <2>1, <2>2 DEF Steady
  <2>4. CountsFor(tm, x)' => CountsFor(tm, x)
    <3>1. FreeEvent.type = "FREE"
      BY DEF FreeEvent
    <3>2. event'[x] = event[x] \/ event'[x].type = "FREE"
      BY <1>1, <1>4, <2>1, <3>1
    <3> QED BY <3>2 DEF CountsFor
  <2>5. CASE ~ CountsFor(tm, x)
    <3>1. /\ x \notin Out(tm) /\ x \notin Waiting(tm)
          /\ x \notin Out(tm)' /\ x \notin Waiting(tm)'
      BY <2>4, <2>5 DEF Out, Waiting
    <3> QED BY <1>1, <1>8, <2>3, <3>1, OneTimerOwes
  <2>6. CASE CountsFor(tm, x)
    <3>1. event[x].type = "TIMER"
      BY <2>6 DEF CountsFor
    <3>2. event' = event
      BY <2>1, <3>1
    <3>3. event[x].repeat = 0
      <4>1. event[x].repeat \in Nat /\ event[x].timed
        BY <1>9, <2>6
      <4>2. event[x].repeat > 0 => event[x].interval # 0
        BY <1>4, <3>1 DEF RepeatsAgain
      <4> QED BY <1>12, <4>1, <4>2 DEF Repeats
    <3>4. \A e \in Ev \ {x} : e \in Out(tm)' <=> e \in Out(tm)
      BY <2>3 DEF Out, Steady, CountsFor
    <3>5. CountsFor(tm, x)'
      BY <2>6, <3>2 DEF CountsFor
    <3>6. Cardinality(Out(tm)') = Cardinality(Out(tm)) + 1
      BY <1>7, <1>10, <2>6, <3>1, <3>4, <3>5
    <3>7. Waiting(tm)' = {}
      <4>1. \A e \in Ev : e \notin Waiting(tm)'
        BY <1>9, <2>1, <2>6, <3>2 DEF Waiting, CountsFor
      <4>2. Waiting(tm)' \subseteq Ev
        BY DEF Waiting
      <4> QED BY <4>1, <4>2
    <3>8. QueuedCalls(event', Waiting(tm)') = 0
      BY <3>7, SumOverNone
    <3>9. QueuedCalls(event, Waiting(tm)) = 1
      BY <1>9, <2>6, <3>3
    <3>10. Cardinality(Out(tm)) \in Int
      BY OutIsFinite
    <3> QED BY <1>1, <1>8, <3>6, <3>8, <3>9, <3>10
  <2> QED BY <2>5, <2>6
<1> QED BY <1>11, <1>12

\* A handler that starts is one of the calls the timer owed.
LEMMA HandlerCalls ==
    ASSUME TInv, OInv, OneEntry, CallsOwed, NEW i \in Interp, DoHandler(i)
    PROVE  CallsOwed'
<1>1. TakesTask(i, {"TIMER", "CALL_BACK"})
  BY DEF DoHandler, TakesTask
<1>2. PICK x \in Ev :
         /\ x = Head(taskq[i]) /\ evt.hand # x /\ In(x, taskq[i])
         /\ \A j \in Interp : ~ In(x, taskq'[j])
         /\ \A e \in Ev \ {x}, j \in Interp : In(e, taskq'[j]) <=> In(e, taskq[j])
  <2>1. In(Head(taskq[i]), taskq[i])
    BY <1>1, TailRemoves DEF TakesTask, TInv, TypeOK
  <2> QED BY <1>1, <2>1, TakesTaskOwned
<1>3. /\ UNCHANGED <<event, eventq, evt>>
      /\ credit' = [tm \in Timer |-> IF CountsFor(tm, x) THEN credit[tm] - 1 ELSE credit[tm]]
  BY <1>2 DEF DoHandler
<1>4. \A e \in Ev \ {x} : Steady(e)
  BY <1>2, <1>3 DEF Steady, Taken
<1>5. Taken(x) /\ ~ Taken(x)'
  BY <1>2, <1>3 DEF Taken
<1>6. ~ In(x, eventq)
  BY <1>5, OneHolder DEF Taken
<1> SUFFICES ASSUME NEW tm \in Timer
             PROVE  credit'[tm] = Cardinality(Out(tm)') + QueuedCalls(event', Waiting(tm)')
  BY DEF CallsOwed
<1>7. credit[tm] = Cardinality(Out(tm)) + QueuedCalls(event, Waiting(tm))
  BY DEF CallsOwed
<1>8. CASE ~ CountsFor(tm, x)
  <2>1. credit'[tm] = credit[tm]
    BY <1>3, <1>8
  <2>2. /\ x \notin Out(tm) /\ x \notin Waiting(tm)
        /\ x \notin Out(tm)' /\ x \notin Waiting(tm)'
    BY <1>3, <1>8 DEF Out, Waiting, CountsFor
  <2> QED BY <1>4, <1>7, <2>1, <2>2, OneTimerOwes
<1>9. CASE CountsFor(tm, x)
  <2>1. credit'[tm] = credit[tm] - 1
    BY <1>3, <1>9
  <2>2. x \in Out(tm) /\ Out(tm)' = Out(tm) \ {x}
    BY <1>4, <1>5, <1>9 DEF Out, Steady, CountsFor
  <2>3. Cardinality(Out(tm)') = Cardinality(Out(tm)) - 1
    BY <2>2, OutIsFinite, FS_RemoveElement
  <2>4. Waiting(tm)' = Waiting(tm)
    BY <1>3 DEF Waiting, CountsFor
  <2>5. /\ QueuedCalls(event', Waiting(tm)') = QueuedCalls(event, Waiting(tm))
        /\ QueuedCalls(event, Waiting(tm)) \in Int
    BY <1>3, <2>4, SumKept
  <2>6. Cardinality(Out(tm)) \in Int
    BY OutIsFinite
  <2> QED BY <1>7, <2>1, <2>3, <2>5, <2>6
<1> QED BY <1>8, <1>9

\* What interpreters do but for starting a handler changes no count: they
\* free events that no timer counts or that no queue has.
LEMMA InterpretersCalls ==
    ASSUME TInv, OInv, OneEntry, CallsOwed, NEW i \in Interp,
           CheckEvents(i) \/ Parrot_do_check_events(i) \/ LoopEnds(i) \/ DoSleep(i)
              \/ DoTerminate(i) \/ DoSignal(i) \/ RunLoopEnds(i)
    PROVE  CallsOwed'
<1>0. UNCHANGED <<eventq, credit>> /\ event \in [Ev -> EventRec]
  BY DEF CheckEvents, Parrot_do_check_events, LoopEnds, DoSleep, DoTerminate, DoSignal,
         RunLoopEnds, history, TInv, TypeOK
<1>1. FreeEvent.type = "FREE"
  BY DEF FreeEvent
<1>2. evt'.hand = evt.hand
  BY DEF CheckEvents, Parrot_do_check_events, LoopEnds, DoSleep, DoTerminate, DoSignal,
         RunLoopEnds, TInv, TypeOK
<1>3. CASE CheckEvents(i) \/ Parrot_do_check_events(i) \/ LoopEnds(i)
  <2>1. UNCHANGED <<event, taskq>>
    BY <1>3 DEF CheckEvents, Parrot_do_check_events, LoopEnds
  <2>2. \A e \in Ev : Steady(e)
    BY <1>0, <1>2, <2>1 DEF Steady, Taken
  <2> QED BY <1>0, <2>2, NothingCounts
<1>4. CASE DoSleep(i) \/ DoTerminate(i) \/ DoSignal(i)
  <2>1. TakesTask(i, {"SLEEP", "TERMINATE", "SIGNAL"})
    BY <1>4 DEF DoSleep, DoTerminate, DoSignal, TakesTask
  <2>2. PICK x \in Ev :
           /\ x = Head(taskq[i]) /\ event[x].type \in {"SLEEP", "TERMINATE", "SIGNAL"}
           /\ \A e \in Ev \ {x}, j \in Interp : In(e, taskq'[j]) <=> In(e, taskq[j])
    BY <2>1, TakesTaskOwned
  <2>3. event' = event \/ event' = [event EXCEPT ![x] = FreeEvent]
    BY <1>4, <2>2 DEF DoSleep, DoTerminate, DoSignal, FreeTask
  <2>4. event'[x].type # "TIMER" /\ \A e \in Ev \ {x} : event'[e] = event[e]
    BY <1>0, <1>1, <2>2, <2>3
  <2>5. Silent(x)
    BY <2>2, <2>4 DEF Silent, Out, Waiting, CountsFor
  <2>6. \A e \in Ev \ {x} : Steady(e)
    BY <1>0, <1>2, <2>2, <2>4 DEF Steady, Taken
  <2> QED BY <1>0, <2>5, <2>6, NothingCounts
<1>5. CASE RunLoopEnds(i)
  <2> DEFINE n == Len(frames[i])
             y == frames[i][n-1].ev
  <2>1. UNCHANGED taskq
        /\ (event' = event \/ (n # 1 /\ event' = [event EXCEPT ![y] = FreeEvent]))
    BY <1>5 DEF RunLoopEnds
  <2>2. n # 1 => Serves(y, frames[i])
    <3>1. frames[i] \in Seq(Frame) /\ frames[i] # <<>>
      BY <1>5 DEF RunLoopEnds, TInv, TypeOK
    <3>2. n \in Nat \ {0}
      BY <3>1, EmptySeq, LenProperties
    <3>3. \A m \in Nat \ {0} : m # 1 => m - 1 \in 1 .. m
      OBVIOUS
    <3> QED BY <3>2, <3>3 DEF Serves
  <2> HIDE DEF n, y
  <2>3. ASSUME NEW e \in Ev PROVE Steady(e) \/ Silent(e)
    <3>1. CASE event'[e] = event[e]
      BY <1>0, <1>2, <2>1, <3>1 DEF Steady, Taken
    <3>2. CASE event'[e] # event[e]
      <4>1. Serves(e, frames[i]) /\ event'[e].type = "FREE"
        BY <1>0, <1>1, <2>1, <2>2, <3>2
      <4>2. ~ In(e, eventq) /\ ~ Taken(e)
        BY <4>1, OneHolder DEF Taken
      <4> QED BY <1>0, <4>1, <4>2 DEF Silent, Out, Waiting, CountsFor
    <3> QED BY <3>1, <3>2
  <2> QED BY <1>0, <2>3, NothingCounts
<1> QED BY <1>3, <1>4, <1>5

\* The threads pass events on, and time passes: the counts stay.
LEMMA ThreadsCalls ==
    ASSUME TInv, OInv, OneEntry, CallsOwed, IoSignals,
           sig_handler \/ IoThread \/ Tick \/ UNCHANGED vars \/ (EventThread /\ ~ process_events)
    PROVE  CallsOwed'
<1>0. event \in [Ev -> EventRec]
  BY DEF TInv, TypeOK
<1>1. CASE sig_handler \/ IoEintr \/ IoStop \/ EventThreadLock \/ EventThreadTimeout
              \/ EventThreadWait \/ EventThreadEnable \/ EventThreadDestroy
              \/ stop_io_thread \/ UNCHANGED vars
  <2>1. UNCHANGED <<event, eventq, taskq, credit>>
    BY <1>1 DEF sig_handler, IoEintr, IoStop, EventThreadLock, EventThreadTimeout,
                EventThreadWait, EventThreadEnable, EventThreadDestroy, stop_io_thread,
                history, vars
  <2>2. evt'.hand = evt.hand
    BY <1>1 DEF sig_handler, IoEintr, IoStop, EventThreadLock, EventThreadTimeout,
                EventThreadWait, EventThreadEnable, EventThreadDestroy, stop_io_thread,
                WakeEventThread, vars, TInv, TypeOK
  <2>3. \A e \in Ev : Steady(e)
    BY <2>1, <2>2 DEF Steady, Taken
  <2> QED BY <2>1, <2>3, NothingCounts
<1>2. CASE EventThreadPut
  <2>1. evt.hand \in Ev /\ evt'.hand = NoEv /\ \A e \in Ev : e # NoEv
    BY <1>2, EvFacts DEF EventThreadPut, TInv, TypeOK, HandsFull
  <2>2. PutTask(event[evt.hand].interp, evt.hand) /\ UNCHANGED <<event, eventq, credit>>
    BY <1>2 DEF EventThreadPut, history
  <2>3. event[evt.hand].type # "FREE"
    BY <2>1, OneHolder
  <2>4. /\ event[evt.hand].interp \in Interp
        /\ \A j \in Interp, e \in Ev :
              In(e, taskq'[j]) <=> \/ In(e, taskq[j])
                                   \/ (e = evt.hand /\ j = event[evt.hand].interp)
    BY <2>1, <2>2, <2>3, PutTaskAdds
  <2>5. \A e \in Ev : Taken(e)' <=> Taken(e)
    BY <2>1, <2>4 DEF Taken
  <2>6. \A e \in Ev : Steady(e)
    BY <2>2, <2>5 DEF Steady
  <2> QED BY <2>2, <2>6, NothingCounts
<1>3. CASE IoPut
  <2>1. PICK x \in Ev : x = io.hand /\ event[x].type = "SIGNAL"
    BY <1>3, EvFacts DEF IoPut, TInv, TypeOK, HandsFull, IoSignals
  <2>2. PutTask(event[x].interp, x) /\ UNCHANGED <<event, eventq, evt, credit>>
    BY <1>3, <2>1 DEF IoPut, history
  <2>3. \A j \in Interp, e \in Ev :
           In(e, taskq'[j]) <=> In(e, taskq[j]) \/ (e = x /\ j = event[x].interp)
    BY <2>1, <2>2, PutTaskAdds
  <2>4. \A e \in Ev \ {x} : Steady(e)
    BY <2>2, <2>3 DEF Steady, Taken
  <2>5. Silent(x)
    BY <2>1, <2>2 DEF Silent, Out, Waiting, CountsFor
  <2> QED BY <2>2, <2>4, <2>5, NothingCounts
<1>4. ASSUME NEW i \in Interp, IoEnable(i) PROVE CallsOwed'
  <2>1. PICK x \in Ev : x = NewEvent /\ event[x].type = "FREE"
    BY <1>4, NewEventIsFree DEF IoEnable, Room
  <2>2. /\ event' = [event EXCEPT ![x] = UntimedEvent(i, "SIGNAL")]
        /\ UNCHANGED <<eventq, taskq, evt, credit>>
    BY <1>4, <2>1 DEF IoEnable, history
  <2>3. UntimedEvent(i, "SIGNAL").type = "SIGNAL"
    BY NewRecordsOK
  <2>4. event'[x].type = "SIGNAL" /\ \A e \in Ev \ {x} : event'[e] = event[e]
    BY <1>0, <2>2, <2>3
  <2>5. \A e \in Ev \ {x} : Steady(e)
    BY <2>2, <2>4 DEF Steady, Taken
  <2>6. Silent(x)
    BY <2>1, <2>4 DEF Silent, Out, Waiting, CountsFor
  <2> QED BY <2>2, <2>5, <2>6, NothingCounts
<1>5. CASE Tick
  <2>1. UNCHANGED <<eventq, taskq, evt, credit>>
        /\ \A e \in Ev : /\ event'[e].type = event[e].type
                         /\ event'[e].data = event[e].data
                         /\ event'[e].repeat = event[e].repeat
    BY <1>5, TickEffect DEF Tick, TInv, history
  <2>2. \A e \in Ev : Steady(e)
    BY <2>1 DEF Steady, Taken
  <2> QED BY <2>1, <2>2, NothingCounts
<1> QED BY <1>1, <1>2, <1>3, <1>4, <1>5 DEF IoThread, EventThread

\* The sources of events that are not about a timer.
LEMMA OtherCalls ==
    ASSUME TInv, OInv, OneEntry, CallsOwed, Schedules, UNCHANGED credit,
           NEW x \in Ev, NEW rec, event[x].type = "FREE", rec.data = NoTimer,
           Parrot_schedule_event(x, rec)
    PROVE  CallsOwed'
<1>1. /\ event'[x] = rec /\ \A e \in Ev \ {x} : event'[e] = event[e]
      /\ \A e : In(e, eventq') <=> e = x \/ In(e, eventq)
  BY ScheduleAdds
<1>2. \A e \in Ev : Taken(e)' <=> Taken(e)
  BY SchedulesLeave
<1>3. \A e \in Ev \ {x} : Steady(e)
  BY <1>1, <1>2 DEF Steady
<1>4. Silent(x)
  BY <1>1, TimerAssumption DEF Silent, Out, Waiting, CountsFor
<1> QED BY <1>3, <1>4, NothingCounts

\* All steps keep the counts.
LEMMA NextCalls ==
    ASSUME MaxStarts <= 1, TInv, OInv, OneEntry, OneEntry', CallsOwed, RepeatsAgain,
           IoSignals, [Next]_vars
    PROVE  CallsOwed'
<1>1. CASE Schedules
  <2>1. CASE \E i \in Interp, tm \in Timer, a \in TimerArgs : StartTimer(i, tm, a)
    BY <1>1, <2>1, StartCalls
  <2>2. CASE \E i \in Interp, tm \in Timer : Parrot_del_timer_event(i, tm)
    BY <1>1, <2>2, StopCalls
  <2>3. CASE /\ ~ \E i \in Interp, tm \in Timer, a \in TimerArgs : StartTimer(i, tm, a)
             /\ ~ \E i \in Interp, tm \in Timer : Parrot_del_timer_event(i, tm)
    <3>1. UNCHANGED credit
      BY <1>1, <2>3, SchedulesLeave
    <3>2. PICK x \in Ev, rec \in EventRec :
             event[x].type = "FREE" /\ rec.data = NoTimer /\ Parrot_schedule_event(x, rec)
      BY <1>1, <2>3, SchedulesOne
    <3> QED BY <1>1, <3>1, <3>2, OtherCalls
  <2> QED BY <2>1, <2>2, <2>3
<1>2. CASE process_events
  BY <1>2, ProcessCalls
<1>3. CASE Interpreters
  BY <1>3, HandlerCalls, InterpretersCalls DEF Interpreters, HandlesTasks
<1>4. CASE sig_handler \/ IoThread \/ Tick \/ UNCHANGED vars
              \/ (EventThread /\ ~ process_events)
  BY <1>4, ThreadsCalls
<1> QED BY <1>1, <1>2, <1>3, <1>4 DEF Next

\* A timer owes exactly the calls that its queued events will make, if one
\* interpreter starts its timers, each of them once, and a timer that is to
\* be repeated does not have 0 for both its times: process_events takes it
\* for one that is not repeated.
THEOREM TimersOwe ==
    ASSUME Interp = {Main}, MaxStarts <= 1,
           \A a \in TimerArgs : a.repeat > 0 => a.diff + a.interval > 0
    PROVE  Spec => []TimerOwes
<1>1. Init => CallsOwed /\ RepeatsAgain /\ IoSignals
  <2> SUFFICES ASSUME Init PROVE CallsOwed /\ RepeatsAgain /\ IoSignals
    OBVIOUS
  <2>1. \A e \in Ev : event[e].type = "FREE"
    BY DEF Init, FreeEvent
  <2>2. \A tm \in Timer : Out(tm) = {} /\ Waiting(tm) = {}
    BY <2>1 DEF Out, Waiting, CountsFor
  <2>3. \A tm \in Timer : Cardinality(Out(tm)) = 0 /\ QueuedCalls(event, Waiting(tm)) = 0
    BY <2>2, SumOverNone, FS_EmptySet
  <2>4. io.hand = NoEv /\ credit = [tm \in Timer |-> 0]
    BY DEF Init
  <2>5. CallsOwed
    BY <2>3, <2>4 DEF CallsOwed
  <2> QED BY <2>1, <2>4, <2>5 DEF RepeatsAgain, IoSignals
<1>2. TInv /\ OInv /\ OneEntry /\ RepeatsAgain /\ IoSignals /\ CallsOwed /\ [Next]_vars
         => (OneEntry /\ RepeatsAgain /\ IoSignals /\ CallsOwed)'
  BY NextEntries, NextRepeats, NextIoSignals, NextCalls
<1>3. TInv /\ CallsOwed => TimerOwes
  BY PendingIs DEF CallsOwed, TimerOwes
<1>4. Init => TInv /\ OInv /\ OneEntry
  BY InitTypes, InitOwned, InitEntries
<1>5. TInv /\ OInv /\ [Next]_vars => (TInv /\ OInv)'
  BY NextTypes, NextOwned
<1> QED BY <1>1, <1>2, <1>3, <1>4, <1>5, PTL DEF Spec

-----------------------------------------------------------------------------
(***************************************************************************)
(* Sleeping.  The flag interpreter->sleeping and the event that clears it  *)
(* belong to the interpreter, not to the call of the sleep op: a sleep     *)
(* inside a handler ends the one around it.  Of a program that does not    *)
(* sleep in its handlers only the second frame of a stack can be a sleep.  *)
(***************************************************************************)
Napping(fs) == 2 \in 1 .. Len(fs) /\ fs[2].k = "sleep"

NapsOnce(fs) == \A n \in 1 .. Len(fs) : fs[n].k = "sleep" => n = 2

SleepsOf(i) == {e \in Ev : event[e].type = "SLEEP" /\ event[e].interp = i}

\* The time after which the event thread may deliver a SLEEP event; it has
\* delivered one that is not in the event queue
Remaining(e) == IF In(e, eventq) /\ event[e].due > 0 THEN event[e].due ELSE 0

NapInv ==
    \A i \in Interp :
        /\ NapsOnce(frames[i])
        /\ sleeping[i] => Napping(frames[i])
        /\ Napping(frames[i]) /\ ~ sleeping[i] => frames[i][2].left = 0
        /\ \A e, f \in SleepsOf(i) : e = f
        /\ \A e \in SleepsOf(i) :
              /\ sleeping[i]
              /\ event[e].timed /\ event[e].data = NoTimer /\ event[e].interval = 0
              /\ frames[i][2].left <= Remaining(e)

\* Without SIGINT the IO thread does nothing until it is stopped.
NoSignals ==
    /\ io.pc \in {"select", "stopped"}
    /\ \A e \in Ev : event[e].type # "SIGNAL"

\* The stack g sleeps if the stack fs does, and as long
NapsAs(g, fs) ==
    /\ NapsOnce(fs) => NapsOnce(g)
    /\ Napping(g) => Napping(fs) /\ g[2].left = fs[2].left

\* Pushing a frame, but for a sleep, leaves the sleep below it.
LEMMA NapPush ==
    ASSUME NEW fs \in Seq(Frame), NEW f \in Frame, f.k # "sleep"
    PROVE  /\ NapsAs(Append(fs, f), fs)
           /\ Napping(fs) => Napping(Append(fs, f))
<1> DEFINE g == Append(fs, f)
<1>1. /\ Len(fs) \in Nat /\ Len(g) = Len(fs) + 1
      /\ \A k \in 1 .. Len(fs) : g[k] = fs[k]
      /\ g[Len(fs) + 1] = f
  BY LenProperties, AppendProperties
<1> HIDE DEF g
<1>2. \A k \in 1 .. Len(g) : g[k].k = "sleep" => k \in 1 .. Len(fs) /\ g[k] = fs[k]
  <2> SUFFICES ASSUME NEW k \in 1 .. Len(g), g[k].k = "sleep"
               PROVE  k \in 1 .. Len(fs) /\ g[k] = fs[k]
    OBVIOUS
  <2>1. k # Len(fs) + 1
    BY <1>1
  <2>2. k \in 1 .. Len(fs)
    BY <1>1, <2>1
  <2> QED BY <1>1, <2>2
<1>3. NapsOnce(fs) => NapsOnce(g)
  BY <1>2 DEF NapsOnce
<1>4. Napping(g) => Napping(fs) /\ g[2].left = fs[2].left
  BY <1>2 DEF Napping
<1>5. Napping(fs) => Napping(g)
  BY <1>1 DEF Napping
<1> QED BY <1>3, <1>4, <1>5 DEF NapsAs, g

\* Setting the event or the end of a frame leaves the sleep.
LEMMA NapSame ==
    ASSUME NEW fs \in Seq(Frame), NEW g \in Seq(Frame), Len(g) = Len(fs),
           \A k \in 1 .. Len(fs) : g[k].k = fs[k].k /\ g[k].left = fs[k].left
    PROVE  NapsAs(g, fs) /\ (Napping(fs) => Napping(g))
BY DEF NapsAs, Napping, NapsOnce

\* Removing the top of a stack leaves the sleep, unless it is the top.
LEMMA NapPop ==
    ASSUME NEW fs \in Seq(Frame), fs # <<>>, NEW o, o = SubSeq(fs, 1, Len(fs) - 1)
    PROVE  /\ o \in Seq(Frame) /\ NapsAs(o, fs)
           /\ Napping(fs) /\ fs[Len(fs)].k # "sleep" => Napping(o)
<1>1. /\ Len(fs) \in Nat \ {0} /\ o \in Seq(Frame) /\ Len(o) = Len(fs) - 1
      /\ \A k \in 1 .. Len(fs) - 1 : o[k] = fs[k]
  BY PopFrame
<1>2. 1 .. Len(o) \subseteq 1 .. Len(fs) /\ \A k \in 1 .. Len(o) : o[k] = fs[k]
  BY <1>1
<1>3. NapsAs(o, fs)
  BY <1>2 DEF NapsAs, Napping, NapsOnce
<1>4. ASSUME Napping(fs), fs[Len(fs)].k # "sleep" PROVE Napping(o)
  <2>1. 2 \in 1 .. Len(fs) /\ 2 # Len(fs)
    BY <1>4 DEF Napping
  <2>2. \A m \in Nat : 2 \in 1 .. m /\ 2 # m => 2 \in 1 .. m - 1
    OBVIOUS
  <2>3. 2 \in 1 .. Len(o)
    BY <1>1, <2>1, <2>2
  <2> QED BY <1>2, <1>4, <2>3 DEF Napping
<1> QED BY <1>1, <1>3, <1>4

\* NapsAs is transitive.
LEMMA NapsAsTrans ==
    ASSUME NEW f, NEW g, NEW h, NapsAs(h, g), NapsAs(g, f)
    PROVE  NapsAs(h, f)
BY DEF NapsAs

\* No stack begins to sleep, and one that must not wake up sleeps on
StacksNap ==
    \A i \in Interp : /\ NapsAs(frames'[i], frames[i])
                      /\ sleeping[i] => Napping(frames'[i])

\* What a step that is not a sleep, a wakeup or time may do to the sleeps:
\* it creates no SLEEP event, and delivers one only when it is due.
SleepsKept ==
    /\ UNCHANGED sleeping /\ StacksNap
    /\ \A e \in Ev : event'[e].type = "SLEEP" =>
          /\ event'[e] = event[e]
          /\ In(e, eventq') => In(e, eventq)
          /\ In(e, eventq) => In(e, eventq') \/ event[e].due <= 0

\* A step that keeps the sleeps keeps the invariant.
LEMMA NapsKept == ASSUME TInv, NapInv, SleepsKept PROVE NapInv'
<1>1. \A i \in Interp : SleepsOf(i)' \subseteq SleepsOf(i)
  BY DEF SleepsOf, SleepsKept
<1>2. ASSUME NEW e \in Ev, event'[e].type = "SLEEP"
      PROVE  event'[e] = event[e] /\ Remaining(e)' = Remaining(e)
  <2>1. /\ event'[e] = event[e]
        /\ In(e, eventq') => In(e, eventq)
        /\ In(e, eventq) => In(e, eventq') \/ event[e].due <= 0
    BY <1>2 DEF SleepsKept
  <2>2. event[e].due \in Int
    BY DEF TInv, TypeOK, EventRec
  <2> QED BY <2>1, <2>2 DEF Remaining, SleepsKept
<1> SUFFICES ASSUME NEW i \in Interp
             PROVE  /\ NapsOnce(frames'[i])
                    /\ sleeping'[i] => Napping(frames'[i])
                    /\ Napping(frames'[i]) /\ ~ sleeping'[i] => frames'[i][2].left = 0
                    /\ \A e, f \in SleepsOf(i)' : e = f
                    /\ \A e \in SleepsOf(i)' :
                          /\ sleeping'[i]
                          /\ event'[e].timed /\ event'[e].data = NoTimer
                          /\ event'[e].interval = 0
                          /\ frames'[i][2].left <= Remaining(e)'
  BY DEF NapInv
<1>3. /\ NapsAs(frames'[i], frames[i]) /\ sleeping'[i] = sleeping[i]
      /\ sleeping[i] => Napping(frames'[i])
  BY DEF SleepsKept, StacksNap
<1>4. /\ NapsOnce(frames'[i]) /\ \A e, f \in SleepsOf(i)' : e = f
      /\ Napping(frames'[i]) /\ ~ sleeping'[i] => frames'[i][2].left = 0
  BY <1>1, <1>3 DEF NapInv, NapsAs
<1>5. ASSUME NEW e \in SleepsOf(i)'
      PROVE  /\ sleeping'[i]
             /\ event'[e].timed /\ event'[e].data = NoTimer /\ event'[e].interval = 0
             /\ frames'[i][2].left <= Remaining(e)'
  <2>1. e \in Ev /\ event'[e].type = "SLEEP" /\ e \in SleepsOf(i)
    BY <1>1 DEF SleepsOf
  <2>2. event'[e] = event[e] /\ Remaining(e)' = Remaining(e)
    BY <1>2, <2>1
  <2>3. /\ sleeping[i] /\ event[e].timed /\ event[e].data = NoTimer
        /\ event[e].interval = 0 /\ frames[i][2].left <= Remaining(e)
    BY <2>1 DEF NapInv
  <2>4. frames'[i][2].left = frames[i][2].left
    BY <1>3, <2>3 DEF NapsAs
  <2> QED BY <1>3, <2>2, <2>3, <2>4
<1> QED BY <1>3, <1>4, <1>5

\* The stacks when none of them changes.
LEMMA NoNap == ASSUME NapInv, UNCHANGED frames PROVE StacksNap
BY DEF NapInv, StacksNap, NapsAs

\* The stacks when one of them changes.
LEMMA OneNap ==
    ASSUME TInv, NapInv, NEW i \in Interp, NEW g, frames' = [frames EXCEPT ![i] = g],
           NapsAs(g, frames[i]), sleeping[i] => Napping(g)
    PROVE  StacksNap
<1>1. \A j \in Interp : frames'[j] = IF j = i THEN g ELSE frames[j]
  BY DEF TInv, TypeOK
<1> QED BY <1>1 DEF NapInv, StacksNap, NapsAs

\* A step that at most frees an event keeps the sleeps.
LEMMA FreeingKeepsSleeps ==
    ASSUME TInv, StacksNap, UNCHANGED <<sleeping, eventq>>,
           event' = event \/ \E x : event' = [event EXCEPT ![x] = FreeEvent]
    PROVE  SleepsKept
<1>1. FreeEvent.type # "SLEEP" /\ event \in [Ev -> EventRec]
  BY DEF FreeEvent, TInv, TypeOK
<1>2. \A e \in Ev : event'[e] = event[e] \/ event'[e] = FreeEvent
  BY <1>1
<1> QED BY <1>1, <1>2 DEF SleepsKept

\* Without SIGINT there are no SIGNAL events.
LEMMA NoSignalsKept ==
    ASSUME "sigint" \notin Uses, TInv, OInv, NoSignals, Next
    PROVE  NoSignals'
<1>0. /\ event \in [Ev -> EventRec] /\ FreeEvent.type # "SIGNAL"
      /\ ~ sig_handler /\ ~ IoEintr /\ ~ IoPut /\ \A i \in Interp : ~ IoEnable(i)
  BY DEF TInv, TypeOK, FreeEvent, NoSignals, sig_handler, IoEintr, IoPut, IoEnable
<1>1. CASE Schedules
  <2>1. ASSUME NEW x \in Ev, NEW rec \in EventRec, Parrot_schedule_event(x, rec),
               rec.type # "SIGNAL", UNCHANGED io
        PROVE  NoSignals'
    BY <1>0, <2>1 DEF NoSignals, Parrot_schedule_event
  <2>2. ASSUME NEW i \in Interp, NEW tm \in Timer, Parrot_del_timer_event(i, tm)
        PROVE  NoSignals'
    <3> DEFINE K == {k \in 1 .. Len(eventq) : IsTimerEntry(k, i, tm)}
               x == eventq[Min(K)]
    <3>1. /\ \/ event' = event
             \/ event' = [event EXCEPT ![x].interval = 0, ![x].type = "NONE"]
          /\ UNCHANGED io
      BY <2>2 DEF Parrot_del_timer_event
    <3> HIDE DEF x
    <3>2. \A e \in Ev : event'[e].type = event[e].type \/ event'[e].type = "NONE"
      <4> SUFFICES ASSUME NEW e \in Ev
                   PROVE  event'[e].type = event[e].type \/ event'[e].type = "NONE"
        OBVIOUS
      <4>1. event[e] \in EventRec
        BY <1>0
      <4> QED BY <1>0, <3>1, <4>1 DEF EventRec
    <3> QED BY <3>1, <3>2 DEF NoSignals
  <2> QED BY <1>1, <2>1, <2>2, SchedulesOne
<1>2. CASE process_events
  <2> DEFINE x == Head(eventq)
  <2>1. x \in Ev
    BY <1>2, ProcessEffect
  <2>2. \A e \in Ev : event'[e].type \in {event[e].type, event[x].type, "FREE"}
    <3>1. CASE event' = IF event[x].type \in {"NONE", "EVENT_TERMINATE"}
                        THEN [event EXCEPT ![x] = FreeEvent] ELSE event
      <4>1. FreeEvent.type = "FREE"
        BY DEF FreeEvent
      <4> HIDE DEF x
      <4> QED BY <1>0, <3>1, <4>1
    <3>2. CASE \E n \in Ev :
                  /\ \A f \in {"type", "interp", "data", "interval", "timed"} :
                        event'[x][f] = event[x][f] /\ event'[n][f] = event[x][f]
                  /\ \A e \in Ev \ {x, n} : event'[e] = event[e]
      <4> PICK n \in Ev :
                  /\ event'[x].type = event[x].type /\ event'[n].type = event[x].type
                  /\ \A e \in Ev \ {x, n} : event'[e] = event[e]
        BY <3>2
      <4> HIDE DEF x
      <4> QED OBVIOUS
    <3> QED BY <1>2, <3>1, <3>2, ProcessEffect
  <2>3. UNCHANGED io
    BY <1>2 DEF process_events
  <2> QED BY <2>1, <2>2, <2>3 DEF NoSignals
<1>3. CASE EventThread /\ ~ process_events
  <2>1. UNCHANGED event /\ io'.pc = io.pc
    BY <1>3 DEF EventThread, EventThreadLock, EventThreadTimeout, EventThreadWait,
                EventThreadEnable, EventThreadPut, EventThreadDestroy, stop_io_thread,
                TInv, TypeOK
  <2> QED BY <2>1 DEF NoSignals
<1>4. CASE IoThread
  <2>1. UNCHANGED event /\ io'.pc = "stopped"
    BY <1>0, <1>4 DEF IoThread, IoStop, TInv, TypeOK
  <2> QED BY <2>1 DEF NoSignals
<1>5. CASE Interpreters
  <2>1. UNCHANGED io /\ (event' = event \/ \E x : event' = [event EXCEPT ![x] = FreeEvent])
    BY <1>5 DEF Interpreters, CheckEvents, Parrot_do_check_events, HandlesTasks, LoopEnds,
                DoSleep, DoTerminate, DoHandler, DoSignal, RunLoopEnds, FreeTask
  <2>2. \A e \in Ev : event'[e] = event[e] \/ event'[e] = FreeEvent
    BY <1>0, <2>1
  <2> QED BY <1>0, <2>1, <2>2 DEF NoSignals
<1>6. CASE Tick
  <2>1. UNCHANGED io /\ \A e \in Ev : event'[e].type = event[e].type
    BY <1>6, TickEffect DEF Tick, TInv
  <2> QED BY <2>1 DEF NoSignals
<1> QED BY <1>0, <1>1, <1>2, <1>3, <1>4, <1>5, <1>6 DEF Next

\* The end of a loop of Parrot_do_handle_events or of wait_for_wakeup.
LEMMA LoopEndsNaps ==
    ASSUME TInv, NapInv, NEW i \in Interp, LoopEnds(i)
    PROVE  SleepsKept
<1> DEFINE fs == frames[i]
           n == Len(fs)
           o == SubSeq(fs, 1, n - 1)
           b == o[n-1].term \/ fs[n].term
           g == [o EXCEPT ![n-1].term = b]
<1>1. /\ fs \in Seq(Frame) /\ fs # <<>> /\ frames' = [frames EXCEPT ![i] = Returned(fs)]
      /\ UNCHANGED <<event, eventq, sleeping>>
      /\ fs[n].k = "sleep" => ~ sleeping[i]
  BY DEF LoopEnds, Top, TInv, TypeOK
<1>2. Returned(fs) = g
  BY DEF Returned
<1>3. b \in BOOLEAN /\ n - 1 \in Int
  BY <1>1, PopFrame
<1>4. o = SubSeq(fs, 1, Len(fs) - 1)
  OBVIOUS
<1>5. g = [o EXCEPT ![n-1].term = b]
  OBVIOUS
<1> HIDE DEF o, b, g
<1>6. /\ o \in Seq(Frame) /\ NapsAs(o, fs)
      /\ Napping(fs) /\ fs[n].k # "sleep" => Napping(o)
  <2> HIDE DEF fs
  <2> QED BY <1>1, <1>4, NapPop DEF n
<1>7. NapsAs(g, o) /\ (Napping(o) => Napping(g))
  <2> DEFINE m == n - 1
  <2>1. m \in Int /\ g = [o EXCEPT ![m].term = b]
    BY <1>3, <1>5
  <2> HIDE DEF m
  <2>2a. g \in Seq(Frame)
    BY <1>3, <1>6, <2>1, SetTerm
  <2>2b. Len(g) = Len(o)
    BY <1>3, <1>6, <2>1, SetTerm
  <2>3. \A k \in 1 .. Len(o) :
           g[k].ev = o[k].ev /\ g[k].k = o[k].k /\ g[k].left = o[k].left
    BY <1>3, <1>6, <2>1, SetTerm
  <2> QED BY <1>6, <2>2a, <2>2b, <2>3, NapSame
<1>8. NapsAs(g, fs)
  BY <1>6, <1>7, NapsAsTrans
<1>9. sleeping[i] => Napping(g)
  BY <1>1, <1>6, <1>7 DEF NapInv
<1>10. StacksNap
  BY <1>1, <1>2, <1>8, <1>9, OneNap
<1> QED BY <1>1, <1>10, FreeingKeepsSleeps

\* do_event on a TERMINATE event.
LEMMA TerminateNaps ==
    ASSUME TInv, NapInv, NEW i \in Interp, DoTerminate(i)
    PROVE  SleepsKept
<1> DEFINE fs == frames[i]
           n == Len(fs)
           g == [fs EXCEPT ![n].term = TRUE]
<1>1. /\ fs \in Seq(Frame) /\ frames \in [Interp -> Seq(Frame)]
      /\ UNCHANGED <<eventq, sleeping>>
      /\ event' = [event EXCEPT ![Head(taskq[i])] = FreeEvent]
  BY DEF DoTerminate, FreeTask, TInv, TypeOK
<1>2. frames' = [frames EXCEPT ![i] = g]
  BY <1>1 DEF DoTerminate
<1>3. n \in Int /\ g = [fs EXCEPT ![n].term = TRUE]
  BY <1>1, LenProperties
<1> HIDE DEF fs, n, g
<1>4a. g \in Seq(Frame)
  BY <1>1, <1>3, SetTerm
<1>4b. Len(g) = Len(fs)
  BY <1>1, <1>3, SetTerm
<1>5. \A k \in 1 .. Len(fs) :
         g[k].ev = fs[k].ev /\ g[k].k = fs[k].k /\ g[k].left = fs[k].left
  BY <1>1, <1>3, SetTerm
<1>6. NapsAs(g, fs) /\ (Napping(fs) => Napping(g))
  BY <1>1, <1>4a, <1>4b, <1>5, NapSame
<1>7. StacksNap
  BY <1>2, <1>6, OneNap DEF NapInv, fs
<1> QED BY <1>1, <1>7, FreeingKeepsSleeps

\* do_event on a TIMER or a CALL_BACK event.
LEMMA HandlerNaps ==
    ASSUME TInv, NapInv, NEW i \in Interp, DoHandler(i)
    PROVE  SleepsKept
<1> DEFINE fs == frames[i]
           n == Len(fs)
           x == Head(taskq[i])
           g == [fs EXCEPT ![n].ev = x]
<1>1. /\ fs \in Seq(Frame) /\ x \in Ev /\ UNCHANGED <<event, eventq, sleeping>>
      /\ frames' = [frames EXCEPT ![i] = Append(g, RunFrame)]
  BY TakesTaskTypes DEF DoHandler, TInv, TypeOK
<1>2. n \in Int /\ g = [fs EXCEPT ![n].ev = x] /\ x \in Ev \cup {NoEv}
  BY <1>1, LenProperties
<1> HIDE DEF fs, n, g, x
<1>3a. g \in Seq(Frame)
  BY <1>1, <1>2, SetEv
<1>3b. Len(g) = Len(fs)
  BY <1>1, <1>2, SetEv
<1>4. \A k \in 1 .. Len(fs) :
         /\ g[k].ev = IF k = n THEN x ELSE fs[k].ev
         /\ g[k].k = fs[k].k /\ g[k].left = fs[k].left
  BY <1>1, <1>2, SetEv
<1>5. NapsAs(g, fs) /\ (Napping(fs) => Napping(g))
  BY <1>1, <1>3a, <1>3b, <1>4, NapSame
<1>6. RunFrame \in Frame /\ RunFrame.k # "sleep"
  BY NewRecords DEF RunFrame
<1> DEFINE h == Append(g, RunFrame)
<1>7. NapsAs(h, g) /\ (Napping(g) => Napping(h))
  BY <1>3a, <1>6, NapPush
<1> HIDE DEF h
<1>8. NapsAs(h, fs)
  BY <1>5, <1>7, NapsAsTrans
<1>9. StacksNap
  BY <1>1, <1>5, <1>7, <1>8, OneNap DEF NapInv, fs, h
<1> QED BY <1>1, <1>9, FreeingKeepsSleeps

\* The end of a run loop.
LEMMA RunLoopNaps ==
    ASSUME TInv, NapInv, NEW i \in Interp, RunLoopEnds(i)
    PROVE  SleepsKept
<1> DEFINE fs == frames[i]
           n == Len(fs)
           o == SubSeq(fs, 1, n - 1)
           g == [o EXCEPT ![n-1].ev = NoEv]
<1>1. /\ fs \in Seq(Frame) /\ fs # <<>> /\ fs[n].k = "run"
      /\ UNCHANGED <<eventq, sleeping>>
      /\ event' = event \/ \E x : event' = [event EXCEPT ![x] = FreeEvent]
      /\ IF n = 1 THEN frames' = [frames EXCEPT ![i] = <<>>]
                  ELSE frames' = [frames EXCEPT ![i] = g]
  BY DEF RunLoopEnds, Top, TInv, TypeOK
<1>2. CASE n = 1
  <2>1. 1 .. Len(<<>>) = {}
    OBVIOUS
  <2>2. NapsAs(<<>>, fs)
    BY <2>1 DEF NapsAs, NapsOnce, Napping
  <2>3. ~ Napping(fs)
    BY <1>2 DEF Napping
  <2>4. StacksNap
    BY <1>1, <1>2, <2>2, <2>3, OneNap DEF NapInv
  <2> QED BY <1>1, <2>4, FreeingKeepsSleeps
<1>3. CASE n # 1
  <2>1. n - 1 \in Int /\ o = SubSeq(fs, 1, Len(fs) - 1) /\ g = [o EXCEPT ![n-1].ev = NoEv]
    BY <1>1, PopFrame
  <2> HIDE DEF o, g
  <2>2. /\ o \in Seq(Frame) /\ NapsAs(o, fs)
        /\ Napping(fs) => Napping(o)
    <3>1. fs[Len(fs)].k # "sleep"
      BY <1>1
    <3> HIDE DEF fs
    <3> QED BY <1>1, <2>1, <3>1, NapPop
  <2>3. NapsAs(g, o) /\ (Napping(o) => Napping(g))
    <3> DEFINE m == n - 1
    <3>1. m \in Int /\ g = [o EXCEPT ![m].ev = NoEv] /\ NoEv \in Ev \cup {NoEv}
      BY <2>1
    <3> HIDE DEF m
    <3>2a. g \in Seq(Frame)
      BY <2>2, <3>1, SetEv
    <3>2b. Len(g) = Len(o)
      BY <2>2, <3>1, SetEv
    <3>3. \A k \in 1 .. Len(o) :
             /\ g[k].ev = IF k = m THEN NoEv ELSE o[k].ev
             /\ g[k].k = o[k].k /\ g[k].left = o[k].left
      BY <2>2, <3>1, SetEv
    <3> QED BY <2>2, <3>2a, <3>2b, <3>3, NapSame
  <2>4. NapsAs(g, fs)
    BY <2>2, <2>3, NapsAsTrans
  <2>5. StacksNap
    BY <1>1, <1>3, <2>2, <2>3, <2>4, OneNap DEF NapInv
  <2> QED BY <1>1, <2>5, FreeingKeepsSleeps
<1> QED BY <1>2, <1>3

\* A task is popped and the sleep it wakes is over: it has lasted its time.
LEMMA WakeupNaps ==
    ASSUME TInv, OInv, NapInv, NEW i \in Interp, DoSleep(i)
    PROVE  NapInv'
<1> DEFINE x == Head(taskq[i])
<1>1. /\ TakesTask(i, {"SLEEP"}) /\ UNCHANGED <<eventq, frames>>
      /\ event' = [event EXCEPT ![x] = FreeEvent]
      /\ sleeping' = [sleeping EXCEPT ![i] = FALSE]
      /\ event[x].type = "SLEEP"
  BY DEF DoSleep, FreeTask, TakesTask
<1>2. /\ x \in Ev /\ ~ In(x, eventq) /\ event[x].interp = i
  BY <1>1, TakesTaskOwned
<1> HIDE DEF x
<1>3. /\ event \in [Ev -> EventRec] /\ sleeping \in [Interp -> BOOLEAN]
      /\ frames[i] \in Seq(Frame) /\ FreeEvent.type # "SLEEP"
  BY DEF TInv, TypeOK, FreeEvent
<1>4. /\ event'[x] = FreeEvent /\ \A e \in Ev \ {x} : event'[e] = event[e]
      /\ ~ sleeping'[i] /\ \A j \in Interp \ {i} : sleeping'[j] = sleeping[j]
  BY <1>1, <1>2, <1>3
<1>5. x \in SleepsOf(i)
  BY <1>1, <1>2 DEF SleepsOf
<1>6. /\ SleepsOf(i)' = {}
      /\ \A j \in Interp \ {i} : SleepsOf(j)' = SleepsOf(j) /\ x \notin SleepsOf(j)
  <2>1. \A e \in SleepsOf(i) : e = x
    BY <1>5 DEF NapInv
  <2>2. SleepsOf(i)' = {}
    BY <1>3, <1>4, <2>1 DEF SleepsOf
  <2>3. \A j \in Interp \ {i} : SleepsOf(j)' = SleepsOf(j) /\ x \notin SleepsOf(j)
    BY <1>2, <1>3, <1>4 DEF SleepsOf
  <2> QED BY <2>2, <2>3
<1>7. Napping(frames[i]) => frames[i][2].left = 0
  <2>1. frames[i][2].left <= 0
    BY <1>2, <1>5 DEF NapInv, Remaining
  <2>2. Napping(frames[i]) => frames[i][2] \in Frame
    BY <1>3, ElementOfSeq DEF Napping
  <2> QED BY <2>1, <2>2 DEF Frame
<1>8. \A e \in Ev \ {x} : Remaining(e)' = Remaining(e)
  BY <1>1, <1>4 DEF Remaining
<1> SUFFICES ASSUME NEW j \in Interp
             PROVE  /\ NapsOnce(frames'[j])
                    /\ sleeping'[j] => Napping(frames'[j])
                    /\ Napping(frames'[j]) /\ ~ sleeping'[j] => frames'[j][2].left = 0
                    /\ \A e, f \in SleepsOf(j)' : e = f
                    /\ \A e \in SleepsOf(j)' :
                          /\ sleeping'[j]
                          /\ event'[e].timed /\ event'[e].data = NoTimer
                          /\ event'[e].interval = 0
                          /\ frames'[j][2].left <= Remaining(e)'
  BY DEF NapInv
<1>9. CASE j = i
  BY <1>1, <1>4, <1>6, <1>7, <1>9 DEF NapInv
<1>10. CASE j # i
  <2>1. \A e \in SleepsOf(j)' : e \in SleepsOf(j) /\ event'[e] = event[e]
                                /\ Remaining(e)' = Remaining(e)
    BY <1>4, <1>6, <1>8, <1>10 DEF SleepsOf
  <2>2. sleeping'[j] = sleeping[j] /\ frames'[j] = frames[j]
    BY <1>1, <1>4, <1>10
  <2>3. \A e, f \in SleepsOf(j)' : e = f
    BY <2>1 DEF NapInv
  <2>4. \A e \in SleepsOf(j)' :
                          /\ sleeping'[j]
                          /\ event'[e].timed /\ event'[e].data = NoTimer
                          /\ event'[e].interval = 0
                          /\ frames'[j][2].left <= Remaining(e)'
    BY <2>1, <2>2 DEF NapInv
  <2> QED BY <2>2, <2>3, <2>4 DEF NapInv
<1> QED BY <1>9, <1>10

\* The other threads leave the sleeps alone, process_events excepted.
LEMMA ThreadsNap ==
    ASSUME TInv, NapInv, NoSignals,
           sig_handler \/ IoThread \/ (EventThread /\ ~ process_events)
    PROVE  UNCHANGED <<event, eventq, frames, sleeping>>
<1>1. ~ IoEintr /\ ~ IoPut /\ \A i \in Interp : ~ IoEnable(i)
  BY DEF NoSignals, IoEintr, IoPut, IoEnable
<1>2. CASE sig_handler \/ IoStop
  BY <1>2 DEF sig_handler, IoStop
<1>3. CASE EventThread /\ ~ process_events
  BY <1>3 DEF EventThread, EventThreadLock, EventThreadTimeout, EventThreadWait,
              EventThreadEnable, EventThreadPut, EventThreadDestroy, stop_io_thread
<1> QED BY <1>1, <1>2, <1>3 DEF IoThread

\* process_events hands out the event of a sleep when it is due, and never
\* repeats it.
LEMMA ProcessNaps == ASSUME TInv, OInv, NapInv, process_events PROVE SleepsKept
<1> DEFINE x == Head(eventq)
<1>1. UNCHANGED <<frames, sleeping>> /\ event \in [Ev -> EventRec]
  BY DEF process_events, TInv, TypeOK
<1>2. StacksNap
  BY <1>1, NoNap
<1>3. \/ /\ event[x].timed /\ Repeats(event[x])
         /\ \E n \in Ev :
               /\ event[n].type = "FREE" /\ event[x].type # "FREE"
               /\ \A f \in {"type", "interp", "data", "interval", "timed"} :
                     /\ event'[x][f] = event[x][f]
                     /\ event'[n][f] = event[x][f]
               /\ \A e \in Ev \ {x, n} : event'[e] = event[e]
               /\ \A e : In(e, eventq') <=> e = n \/ (In(e, eventq) /\ e # x)
      \/ /\ event' = IF event[x].type \in {"NONE", "EVENT_TERMINATE"}
                     THEN [event EXCEPT ![x] = FreeEvent] ELSE event
         /\ \A e : In(e, eventq') <=> In(e, eventq) /\ e # x
  BY ProcessEffect
<1>4. x \in Ev /\ (event[x].timed => event[x].due <= 0)
  BY ProcessEffect
<1> HIDE DEF x
<1>5. ASSUME event[x].type = "SLEEP"
      PROVE  event[x].timed /\ ~ Repeats(event[x])
  <2>1. event[x].interp \in Interp
    BY <1>4, <1>5 DEF OInv, EventsOK, RecOK
  <2>2. x \in SleepsOf(event[x].interp)
    BY <1>4, <1>5 DEF SleepsOf
  <2> QED BY <2>1, <2>2 DEF NapInv, Repeats
<1>6. CASE event[x].timed /\ Repeats(event[x])
  <2>1. event[x].type # "SLEEP"
    BY <1>5, <1>6
  <2>2. \/ \E n \in Ev :
                  /\ event'[x].type = event[x].type
                  /\ event'[n].type = event[x].type
                  /\ \A e \in Ev \ {x, n} : event'[e] = event[e]
                  /\ \A e : In(e, eventq') <=> e = n \/ (In(e, eventq) /\ e # x)
        \/ /\ event' = IF event[x].type \in {"NONE", "EVENT_TERMINATE"}
                        THEN [event EXCEPT ![x] = FreeEvent] ELSE event
           /\ \A e : In(e, eventq') <=> In(e, eventq) /\ e # x
    BY <1>3
  <2> QED BY <1>1, <1>2, <2>1, <2>2 DEF SleepsKept, FreeEvent
<1>7. CASE ~ (event[x].timed /\ Repeats(event[x]))
  <2>1. /\ event' = IF event[x].type \in {"NONE", "EVENT_TERMINATE"}
                    THEN [event EXCEPT ![x] = FreeEvent] ELSE event
        /\ \A e : In(e, eventq') <=> In(e, eventq) /\ e # x
    BY <1>3, <1>7
  <2>2. FreeEvent.type # "SLEEP"
    BY DEF FreeEvent
  <2>3. ASSUME NEW e \in Ev, event'[e].type = "SLEEP"
        PROVE  /\ event'[e] = event[e]
               /\ In(e, eventq') => In(e, eventq)
               /\ In(e, eventq) => In(e, eventq') \/ event[e].due <= 0
    <3>1. event'[e] = event[e]
      BY <1>1, <1>4, <2>1, <2>2, <2>3
    <3>2. e = x => event[e].due <= 0
      BY <1>4, <1>5, <2>3, <3>1
    <3> QED BY <2>1, <3>1, <3>2
  <2> QED BY <1>1, <1>2, <2>3 DEF SleepsKept
<1> QED BY <1>6, <1>7

\* Stopping a timer changes no event of a sleep: the data of those is NULL.
LEMMA StopNaps ==
    ASSUME TInv, OInv, NapInv, NEW i \in Interp, NEW tm \in Timer,
           Parrot_del_timer_event(i, tm)
    PROVE  SleepsKept
<1> DEFINE K == {k \in 1 .. Len(eventq) : IsTimerEntry(k, i, tm)}
           x == eventq[Min(K)]
<1>1. /\ event \in [Ev -> EventRec] /\ UNCHANGED <<eventq, frames, sleeping>>
  BY DEF TInv, TypeOK, Parrot_del_timer_event
<1>2. StacksNap
  BY <1>1, NoNap
<1>3. CASE K = {}
  <2>1. event' = event
    BY <1>3 DEF Parrot_del_timer_event
  <2> QED BY <1>1, <1>2, <2>1 DEF SleepsKept
<1>4. CASE K # {}
  <2>1. event' = [event EXCEPT ![x].interval = 0, ![x].type = "NONE"]
    BY <1>4 DEF Parrot_del_timer_event
  <2>2. Min(K) \in 1 .. Len(eventq) /\ Min(K) \in K
    BY <1>4, MinIsLeast
  <2>3. x \in Ev
    BY <2>2, QueueOfEvents DEF TInv
  <2> HIDE DEF x
  <2>4. event[x] \in EventRec
    BY <1>1, <2>3
  <2>5. event'[x].type = "NONE" /\ \A e \in Ev \ {x} : event'[e] = event[e]
    BY <1>1, <2>1, <2>3, <2>4 DEF EventRec
  <2> QED BY <1>1, <1>2, <2>5 DEF SleepsKept
<1> QED BY <1>3, <1>4

\* Another event is scheduled.
LEMMA OtherNaps ==
    ASSUME TInv, OInv, NapInv, NEW x \in Ev, NEW rec, event[x].type = "FREE",
           Parrot_schedule_event(x, rec), rec.type # "SLEEP",
           UNCHANGED <<frames, sleeping>>
    PROVE  SleepsKept
<1>1. /\ event'[x] = rec /\ \A e \in Ev \ {x} : event'[e] = event[e]
      /\ \A e : In(e, eventq') <=> e = x \/ In(e, eventq)
  BY ScheduleAdds
<1>2. StacksNap
  BY NoNap
<1> QED BY <1>1, <1>2 DEF SleepsKept

\* The sleep op: the event is due when the time of the new sleep is over.
LEMMA SleepNaps ==
    ASSUME TInv, OInv, NapInv, MaxNest <= 1,
           NEW i \in Interp, NEW t \in Naps, Parrot_sleep_on_event(i, t),
           NEW x \in Ev, event[x].type = "FREE", NEW rec, rec.type = "SLEEP",
           rec.interp = i, rec.timed, rec.data = NoTimer, rec.interval = 0, rec.due = t,
           Parrot_schedule_event(x, rec)
    PROVE  NapInv'
<1> DEFINE fs == frames[i]
           f == [k |-> "sleep", term |-> FALSE, ev |-> NoEv, left |-> t]
           g == Append(fs, f)
<1>1. /\ fs \in Seq(Frame) /\ fs # <<>> /\ Len(fs) <= MaxNest /\ fs[Len(fs)].k = "run"
      /\ frames' = [frames EXCEPT ![i] = g] /\ frames \in [Interp -> Seq(Frame)]
      /\ sleeping' = [sleeping EXCEPT ![i] = TRUE] /\ sleeping \in [Interp -> BOOLEAN]
  BY DEF Parrot_sleep_on_event, RunsOps, Push, Top, TInv, TypeOK
<1>2. t \in Nat
  BY TimerAssumption
<1>3. f \in Frame
  BY <1>2 DEF Frame
<1> HIDE DEF g
<1>4. Len(fs) = 1
  <2>1. Len(fs) \in Nat \ {0}
    BY <1>1, EmptySeq
  <2>2. \A m \in Nat \ {0} : m <= MaxNest => m = 1
    BY BoundAssumption
  <2> QED BY <1>1, <2>1, <2>2
<1>5. Len(g) = 2 /\ g[1] = fs[1] /\ g[2] = f
  <2> HIDE DEF fs, f
  <2>1. /\ Len(g) = Len(fs) + 1 /\ g[Len(fs) + 1] = f
        /\ \A k \in 1 .. Len(fs) : g[k] = fs[k]
    BY <1>1, <1>3, AppendProperties DEF g
  <2> QED BY <1>4, <2>1
<1>6. /\ ~ sleeping[i] /\ SleepsOf(i) = {}
  BY <1>4 DEF NapInv, Napping
<1>7. NapsOnce(g) /\ Napping(g) /\ g[2].left = t
  <2>1. g[1].k = "run" /\ g[2].k = "sleep" /\ g[2].left = t
    BY <1>1, <1>4, <1>5
  <2> QED BY <1>5, <2>1 DEF NapsOnce, Napping
<1>8. /\ event'[x] = rec /\ \A e \in Ev \ {x} : event'[e] = event[e]
      /\ \A e : In(e, eventq') <=> e = x \/ In(e, eventq)
  BY ScheduleAdds
<1>9. SleepsOf(i)' = {x} /\ \A j \in Interp \ {i} : SleepsOf(j)' = SleepsOf(j)
  <2>1. SleepsOf(i)' = {x}
    BY <1>6, <1>8 DEF SleepsOf
  <2>2. \A j \in Interp \ {i} : SleepsOf(j)' = SleepsOf(j)
    BY <1>8 DEF SleepsOf
  <2> QED BY <2>1, <2>2
<1>10. /\ Remaining(x)' = t
       /\ \A e \in Ev \ {x} : Remaining(e)' = Remaining(e)
  BY <1>2, <1>8 DEF Remaining
<1>11. /\ frames'[i] = g /\ sleeping'[i]
       /\ \A j \in Interp \ {i} : frames'[j] = frames[j] /\ sleeping'[j] = sleeping[j]
  BY <1>1
<1> SUFFICES ASSUME NEW j \in Interp
             PROVE  /\ NapsOnce(frames'[j])
                    /\ sleeping'[j] => Napping(frames'[j])
                    /\ Napping(frames'[j]) /\ ~ sleeping'[j] => frames'[j][2].left = 0
                    /\ \A e, d \in SleepsOf(j)' : e = d
                    /\ \A e \in SleepsOf(j)' :
                          /\ sleeping'[j]
                          /\ event'[e].timed /\ event'[e].data = NoTimer
                          /\ event'[e].interval = 0
                          /\ frames'[j][2].left <= Remaining(e)'
  BY DEF NapInv
<1>12. CASE j = i
  <2>1. \A e \in SleepsOf(j)' : e = x
    BY <1>9, <1>12
  <2>2. t <= t
    BY <1>2
  <2> QED BY <1>7, <1>8, <1>10, <1>11, <1>12, <2>1, <2>2
<1>13. CASE j # i
  <2>1. \A e \in SleepsOf(j)' : e \in SleepsOf(j) /\ event'[e] = event[e]
                                /\ Remaining(e)' = Remaining(e)
    <3>1. x \notin SleepsOf(j)
      BY DEF SleepsOf
    <3> QED BY <1>8, <1>9, <1>10, <1>13, <3>1 DEF SleepsOf
  <2>2. sleeping'[j] = sleeping[j] /\ frames'[j] = frames[j]
    BY <1>11, <1>13
  <2>3. \A e, d \in SleepsOf(j)' : e = d
    BY <2>1 DEF NapInv
  <2>4. \A e \in SleepsOf(j)' :
                          /\ sleeping'[j]
                          /\ event'[e].timed /\ event'[e].data = NoTimer
                          /\ event'[e].interval = 0
                          /\ frames'[j][2].left <= Remaining(e)'
    BY <2>1, <2>2 DEF NapInv
  <2> QED BY <2>2, <2>3, <2>4 DEF NapInv
<1> QED BY <1>12, <1>13

\* Time passes for the sleep and for its event alike.
LEMMA TickNaps == ASSUME TInv, NapInv, Tick PROVE NapInv'
<1>0. /\ TypeOK /\ UNCHANGED <<eventq, sleeping>> /\ event \in [Ev -> EventRec]
  BY DEF TInv, TypeOK, Tick
<1>1. \A e \in Ev : /\ event'[e].type = event[e].type /\ event'[e].interp = event[e].interp
                    /\ event'[e].data = event[e].data /\ event'[e].timed = event[e].timed
                    /\ event'[e].interval = event[e].interval
                    /\ event'[e].due = IF In(e, eventq) /\ event[e].timed
                                       THEN Elapse(event[e].due) ELSE event[e].due
  BY <1>0, TickEffect
<1>2. \A j \in Interp :
         /\ Len(frames'[j]) = Len(frames[j])
         /\ \A n \in 1 .. Len(frames[j]) :
               /\ frames'[j][n].k = frames[j][n].k
               /\ frames'[j][n].left = IF frames[j][n].left > 0
                                       THEN frames[j][n].left - 1 ELSE 0
  BY <1>0, TickEffect
<1>3. \A j \in Interp : SleepsOf(j)' = SleepsOf(j)
  BY <1>1 DEF SleepsOf
<1> SUFFICES ASSUME NEW j \in Interp
             PROVE  /\ NapsOnce(frames'[j])
                    /\ sleeping'[j] => Napping(frames'[j])
                    /\ Napping(frames'[j]) /\ ~ sleeping'[j] => frames'[j][2].left = 0
                    /\ \A e, f \in SleepsOf(j)' : e = f
                    /\ \A e \in SleepsOf(j)' :
                          /\ sleeping'[j]
                          /\ event'[e].timed /\ event'[e].data = NoTimer
                          /\ event'[e].interval = 0
                          /\ frames'[j][2].left <= Remaining(e)'
  BY DEF NapInv
<1>4. /\ NapsOnce(frames'[j]) /\ (Napping(frames'[j]) <=> Napping(frames[j]))
  <2>1. NapsOnce(frames'[j])
    BY <1>2 DEF NapInv, NapsOnce
  <2>2. Napping(frames'[j]) <=> Napping(frames[j])
    BY <1>2 DEF Napping
  <2> QED BY <2>1, <2>2
<1>5. Napping(frames[j]) =>
         /\ frames[j][2].left \in Nat
         /\ frames'[j][2].left = IF frames[j][2].left > 0 THEN frames[j][2].left - 1 ELSE 0
  <2>1. frames[j] \in Seq(Frame)
    BY <1>0 DEF TypeOK
  <2>2. Napping(frames[j]) => frames[j][2] \in Frame
    BY <2>1, ElementOfSeq DEF Napping
  <2> QED BY <1>2, <2>2 DEF Napping, Frame
<1>6. Napping(frames'[j]) /\ ~ sleeping'[j] => frames'[j][2].left = 0
  BY <1>0, <1>4, <1>5 DEF NapInv
<1>7. ASSUME NEW e \in SleepsOf(j)
      PROVE  frames'[j][2].left <= Remaining(e)'
  <2>1. /\ e \in Ev /\ event[e].timed /\ Napping(frames[j])
        /\ frames[j][2].left <= Remaining(e)
    BY DEF NapInv, SleepsOf
  <2> DEFINE d == event[e].due
             m == frames[j][2].left
             q == In(e, eventq)
  <2>2. d \in Int /\ m \in Nat /\ frames'[j][2].left = IF m > 0 THEN m - 1 ELSE 0
    BY <1>0, <1>5, <2>1 DEF EventRec
  <2>3. Remaining(e)' = IF q /\ Elapse(d) > 0 THEN Elapse(d) ELSE 0
    BY <1>0, <1>1, <2>1 DEF Remaining
  <2>4. m <= IF q /\ d > 0 THEN d ELSE 0
    BY <2>1 DEF Remaining
  <2> HIDE DEF d, m, q
  <2> QED BY <2>2, <2>3, <2>4 DEF Elapse
<1> QED BY <1>0, <1>1, <1>3, <1>4, <1>6, <1>7 DEF NapInv, SleepsOf

\* The steps of the interpreters but the wakeup.
LEMMA InterpretersNap ==
    ASSUME TInv, OInv, NapInv, NoSignals, Interpreters
    PROVE  SleepsKept \/ \E i \in Interp : DoSleep(i)
<1>1. ASSUME NEW i \in Interp, CheckEvents(i) \/ Parrot_do_check_events(i)
      PROVE  SleepsKept
  <2> DEFINE f == [RunFrame EXCEPT !.k = "handle"]
             fs == frames[i]
  <2>1. /\ frames' = [frames EXCEPT ![i] = Append(fs, f)]
        /\ UNCHANGED <<event, eventq, sleeping>>
    BY <1>1 DEF CheckEvents, Parrot_do_check_events, Push
  <2>2. fs \in Seq(Frame)
    BY DEF TInv, TypeOK
  <2>3. f \in Frame /\ f.k # "sleep"
    BY DEF RunFrame, Frame
  <2> DEFINE g == Append(fs, f)
  <2> HIDE DEF f, fs
  <2>4. NapsAs(g, fs) /\ (Napping(fs) => Napping(g))
    BY <2>2, <2>3, NapPush
  <2> HIDE DEF g
  <2>5. sleeping[i] => Napping(g)
    BY <2>4 DEF NapInv, fs
  <2>6. StacksNap
    BY <2>1, <2>4, <2>5, OneNap DEF fs, g
  <2> QED BY <2>1, <2>6, FreeingKeepsSleeps
<1>2. ASSUME NEW i \in Interp, DoSignal(i) PROVE FALSE
  <2>1. TakesTask(i, {"SIGNAL"})
    BY <1>2 DEF DoSignal
  <2>2. Head(taskq[i]) \in Ev /\ event[Head(taskq[i])].type = "SIGNAL"
    BY <2>1, TakesTaskOwned DEF TakesTask
  <2> QED BY <2>2 DEF NoSignals
<1> QED BY <1>1, <1>2, LoopEndsNaps, TerminateNaps, HandlerNaps, RunLoopNaps
        DEF Interpreters, HandlesTasks

\* The steps that schedule an event.
LEMMA SchedulesNap ==
    ASSUME TInv, OInv, NapInv, MaxNest <= 1, Schedules
    PROVE  NapInv'
<1>1. ASSUME NEW x \in Ev, NEW rec \in EventRec, event[x].type = "FREE",
             Parrot_schedule_event(x, rec), NEW i \in Interp, NEW t \in Naps,
             Parrot_sleep_on_event(i, t),
             rec = TimedEvent(i, "SLEEP", NoTimer,
                              [diff |-> t, interval |-> 0, repeat |-> 0])
      PROVE  NapInv'
  <2>1. /\ rec.type = "SLEEP" /\ rec.interp = i /\ rec.timed /\ rec.data = NoTimer
        /\ rec.interval = 0 /\ rec.due = t
    BY <1>1 DEF TimedEvent
  <2> QED BY <1>1, <2>1, SleepNaps
<1>2. ASSUME NEW x \in Ev, NEW rec \in EventRec, event[x].type = "FREE",
             Parrot_schedule_event(x, rec),
             rec.type # "SLEEP", UNCHANGED <<frames, sleeping>>
      PROVE  NapInv'
  BY <1>2, OtherNaps, NapsKept
<1>3. ASSUME NEW i \in Interp, NEW tm \in Timer, Parrot_del_timer_event(i, tm)
      PROVE  NapInv'
  BY <1>3, StopNaps, NapsKept
<1> QED BY <1>1, <1>2, <1>3, SchedulesOne

\* No sleep ends early: a program that does not sleep inside its handlers,
\* and does not use SIGINT, is not woken before its time is over.
THEOREM SleepsLastLongEnough ==
    ASSUME "sigint" \notin Uses, MaxNest <= 1
    PROVE  Spec => []SleepFull
<1>1. Init => NapInv /\ NoSignals
  <2> SUFFICES ASSUME Init PROVE NapInv /\ NoSignals
    OBVIOUS
  <2>1. \A e \in Ev : event[e].type = "FREE"
    BY DEF Init, FreeEvent
  <2>2. \A i \in Interp : Len(frames[i]) = 1 /\ frames[i][1].k = "run" /\ ~ sleeping[i]
    BY DEF Init, RunFrame
  <2>3. \A i \in Interp : ~ Napping(frames[i]) /\ NapsOnce(frames[i])
    BY <2>2 DEF Napping, NapsOnce
  <2>4. io.pc = "select"
    BY DEF Init
  <2> QED BY <2>1, <2>2, <2>3, <2>4 DEF NapInv, NoSignals, SleepsOf
<1>2. TInv /\ OInv /\ NapInv /\ NoSignals /\ [Next]_vars => (NapInv /\ NoSignals)'
  <2> SUFFICES ASSUME TInv, OInv, NapInv, NoSignals, [Next]_vars
               PROVE  NapInv' /\ NoSignals'
    OBVIOUS
  <2>1. CASE UNCHANGED vars
    <3>1. UNCHANGED <<event, eventq, frames, sleeping, io>>
      BY <2>1 DEF vars
    <3>2. SleepsKept
      BY <3>1, NoNap DEF SleepsKept
    <3> QED BY <3>1, <3>2, NapsKept DEF NoSignals
  <2>2. CASE Next
    <3>1. NoSignals'
      BY <2>2, NoSignalsKept
    <3> SUFFICES NapInv'
      BY <3>1
    <3>2. CASE Schedules
      BY <3>2, SchedulesNap
    <3>3. CASE process_events
      BY <3>3, ProcessNaps, NapsKept
    <3>4. CASE sig_handler \/ IoThread \/ (EventThread /\ ~ process_events)
      <4>1. UNCHANGED <<event, eventq, frames, sleeping>>
        BY <3>4, ThreadsNap
      <4>2. SleepsKept
        BY <4>1, NoNap DEF SleepsKept
      <4> QED BY <4>2, NapsKept
    <3>5. CASE Interpreters
      BY <3>5, InterpretersNap, NapsKept, WakeupNaps
    <3> QED BY <2>2, <3>2, <3>3, <3>4, <3>5, TickNaps DEF Next
  <2> QED BY <2>1, <2>2
<1>3. TInv /\ NapInv => SleepFull
  <2> SUFFICES ASSUME TInv, NapInv, NEW i \in Interp, frames[i] # <<>>,
                      Top(i).k = "sleep", ~ sleeping[i]
               PROVE  Top(i).left = 0
    BY DEF SleepFull
  <2>1. Len(frames[i]) \in 1 .. Len(frames[i]) /\ Top(i) = frames[i][Len(frames[i])]
    BY TopFrame DEF TInv
  <2>2. Len(frames[i]) = 2
    BY <2>1 DEF NapInv, NapsOnce
  <2>3. Napping(frames[i])
    BY <2>1, <2>2 DEF Napping
  <2> QED BY <2>1, <2>2, <2>3 DEF NapInv
<1>4. Init => TInv /\ OInv
  BY InitTypes, InitOwned
<1>5. TInv /\ OInv /\ [Next]_vars => (TInv /\ OInv)'
  BY NextTypes, NextOwned
<1> QED BY <1>1, <1>2, <1>3, <1>4, <1>5, PTL DEF Spec

=============================================================================
