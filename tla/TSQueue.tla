------------------------------ MODULE TSQueue -------------------------------
(***************************************************************************)
(* The thread-safe queues of parrot/src/tsq.c: linked lists with a head, a *)
(* tail and a next pointer per entry, each protected by a mutex, with one  *)
(* condition variable per queue for the threads in wait_for_entry.         *)
(*                                                                         *)
(* A call is split at the points where another thread can run: taking the  *)
(* mutex, each step of the walk of nosync_insert_entry, the pointer        *)
(* updates, COND_SIGNAL with the release of the mutex, and the wait.  The  *)
(* pointer updates of one operation are one step: they are made under the  *)
(* mutex and no other thread reads them without it.                        *)
(*                                                                         *)
(* lst is a history variable: what the list should contain.  No guard and  *)
(* no pointer depends on it.                                               *)
(***************************************************************************)
EXTENDS QueueOps, FiniteSets

CONSTANTS Thread,   \* the threads that call the queue functions
          Queue,    \* the queues: event_queue and the task queues
          Entry,    \* QUEUE_ENTRY objects, with their type and abs_time
          NULL,
          Timed,    \* the entries of type QUEUE_ENTRY_TYPE_TIMED_EVENT
          AbsTime   \* abs_time of the event of each timed entry

ASSUME ThreadAssumption == IsFiniteSet(Thread)
ASSUME NullAssumption == NULL \notin Entry /\ NULL \notin Thread
ASSUME TimedAssumption == Timed \subseteq Entry
ASSUME AbsTimeAssumption == AbsTime \in [Entry -> Nat]

VARIABLES head, tail,  \* per queue, an entry or NULL
          next,        \* the next field of every entry
          mutex,       \* owner of queue_mutex, per queue, or NULL
          pc,          \* where each thread is
          qof,         \* the queue argument of the call each thread is in
          prev, cur,   \* locals of nosync_insert_entry
          hand,        \* the entry each thread passes or got, or NULL
          lst          \* history: the entries of each queue, in order

vars == <<head, tail, next, mutex, pc, qof, prev, cur, hand, lst>>

PC == {"idle", "push", "unshift", "insert", "pop", "wait",
       "push_locked", "unshift_locked", "insert_locked", "walk",
       "pop_locked", "wait_locked", "waiting", "woken", "signal", "unlock"}

EntryOrNull == Entry \cup {NULL}

TypeOK ==
    /\ head \in [Queue -> EntryOrNull]
    /\ tail \in [Queue -> EntryOrNull]
    /\ next \in [Entry -> EntryOrNull]
    /\ mutex \in [Queue -> Thread \cup {NULL}]
    /\ pc \in [Thread -> PC]
    /\ qof \in [Thread -> Queue]
    /\ prev \in [Thread -> EntryOrNull]
    /\ cur \in [Thread -> EntryOrNull]
    /\ hand \in [Thread -> EntryOrNull]
    /\ lst \in [Queue -> Seq(Entry)]

Queued == UNION {ToSet(lst[q]) : q \in Queue}

Held == {hand[t] : t \in Thread} \ {NULL}

\* queue_init: an empty list, an unlocked mutex
Init ==
    /\ head = [q \in Queue |-> NULL]
    /\ tail = [q \in Queue |-> NULL]
    /\ next = [e \in Entry |-> NULL]
    /\ mutex = [q \in Queue |-> NULL]
    /\ pc = [t \in Thread |-> "idle"]
    /\ qof \in [Thread -> Queue]
    /\ prev = [t \in Thread |-> NULL]
    /\ cur = [t \in Thread |-> NULL]
    /\ hand = [t \in Thread |-> NULL]
    /\ lst = [q \in Queue |-> <<>>]

GoTo(t, l) == pc' = [pc EXCEPT ![t] = l]

list == <<head, tail, next, lst>>
walk == <<prev, cur>>

-----------------------------------------------------------------------------
(***************************************************************************)
(* The callers.  They allocate an entry with next = NULL, or free one they *)
(* have removed, or pass it on to another queue as process_events does.    *)
(***************************************************************************)
Alloc(t, e) ==
    /\ pc[t] = "idle" /\ hand[t] = NULL
    /\ e \in Entry \ (Queued \cup Held)
    /\ hand' = [hand EXCEPT ![t] = e]
    /\ next' = [next EXCEPT ![e] = NULL]
    /\ UNCHANGED <<head, tail, mutex, pc, qof, walk, lst>>

Free(t) ==
    /\ pc[t] = "idle" /\ hand[t] # NULL
    /\ hand' = [hand EXCEPT ![t] = NULL]
    /\ UNCHANGED <<list, mutex, pc, qof, walk>>

Call(t, q, op) ==
    /\ pc[t] = "idle"
    /\ op \in {"push", "unshift"} => hand[t] # NULL
    /\ op = "insert" => hand[t] \in Timed
    /\ op \in {"pop", "wait"} => hand[t] = NULL
    /\ GoTo(t, op)
    /\ qof' = [qof EXCEPT ![t] = q]
    /\ UNCHANGED <<list, mutex, walk, hand>>

-----------------------------------------------------------------------------
LockedPC == [op \in {"push", "unshift", "insert", "pop", "wait", "woken"} |->
                CASE op = "push"    -> "push_locked"
                  [] op = "unshift" -> "unshift_locked"
                  [] op = "insert"  -> "insert_locked"
                  [] op = "pop"     -> "pop_locked"
                  [] OTHER          -> "wait_locked"]

\* queue_lock, and the part of COND_WAIT that takes the mutex again
Lock(t) ==
    /\ pc[t] \in DOMAIN LockedPC
    /\ mutex[qof[t]] = NULL
    /\ mutex' = [mutex EXCEPT ![qof[t]] = t]
    /\ GoTo(t, LockedPC[pc[t]])
    /\ UNCHANGED <<list, qof, walk, hand>>

queue_unlock(t) ==
    /\ pc[t] = "unlock"
    /\ mutex' = [mutex EXCEPT ![qof[t]] = NULL]
    /\ GoTo(t, "idle")
    /\ UNCHANGED <<list, qof, walk, hand>>

Waiters(q) == {t \in Thread : pc[t] = "waiting" /\ qof[t] = q}

\* Mutant of SignalUnlock: only an entry put into an empty queue is signalled
SignalUnlock_IfWasEmpty(t) ==
    /\ pc[t] = "signal"
    /\ LET W == Waiters(qof[t])
       IN  \/ /\ W = {} \/ Len(lst[qof[t]]) > 1
              /\ GoTo(t, "idle")
           \/ \E w \in W : /\ Len(lst[qof[t]]) = 1
                           /\ pc' = [pc EXCEPT ![t] = "idle", ![w] = "woken"]
    /\ mutex' = [mutex EXCEPT ![qof[t]] = NULL]
    /\ UNCHANGED <<list, qof, walk, hand>>

\* queue_signal wakes one waiter, if there is one; queue_unlock follows
SignalUnlock(t) ==
    /\ pc[t] = "signal"
    /\ LET W == Waiters(qof[t])
       IN  \/ /\ W = {}
              /\ GoTo(t, "idle")
           \/ \E w \in W : pc' = [pc EXCEPT ![t] = "idle", ![w] = "woken"]
    /\ mutex' = [mutex EXCEPT ![qof[t]] = NULL]
    /\ UNCHANGED <<list, qof, walk, hand>>

\* The entry is linked in: the list owns it now
Link(t, s) ==
    /\ lst' = [lst EXCEPT ![qof[t]] = s]
    /\ hand' = [hand EXCEPT ![t] = NULL]
    /\ GoTo(t, "signal")
    /\ UNCHANGED <<mutex, qof, walk>>

push_entry(t) ==
    LET q == qof[t]  e == hand[t]
    IN  /\ pc[t] = "push_locked"
        /\ IF tail[q] # NULL
           THEN /\ next' = [next EXCEPT ![tail[q]] = e]
                /\ UNCHANGED head
           ELSE /\ head' = [head EXCEPT ![q] = e]
                /\ UNCHANGED next
        /\ tail' = [tail EXCEPT ![q] = e]
        /\ Link(t, Append(lst[q], e))

unshift_entry(t) ==
    LET q == qof[t]  e == hand[t]
    IN  /\ pc[t] = "unshift_locked"
        /\ IF head[q] = NULL
           THEN /\ tail' = [tail EXCEPT ![q] = e]
                /\ UNCHANGED next
           ELSE /\ next' = [next EXCEPT ![e] = head[q]]
                /\ UNCHANGED tail
        /\ head' = [head EXCEPT ![q] = e]
        /\ Link(t, Cons(e, lst[q]))

(***************************************************************************)
(* nosync_insert_entry: an empty queue, else the walk from the head and    *)
(* the link between prev and cur.                                          *)
(***************************************************************************)
InsertEmpty(t) ==
    LET q == qof[t]  e == hand[t]
    IN  /\ pc[t] = "insert_locked"
        /\ head[q] = NULL
        /\ head' = [head EXCEPT ![q] = e]
        /\ tail' = [tail EXCEPT ![q] = e]
        /\ UNCHANGED next
        /\ Link(t, <<e>>)

InsertStart(t) ==
    /\ pc[t] = "insert_locked"
    /\ head[qof[t]] # NULL
    /\ prev' = [prev EXCEPT ![t] = NULL]
    /\ cur' = [cur EXCEPT ![t] = head[qof[t]]]
    /\ GoTo(t, "walk")
    /\ UNCHANGED <<list, mutex, qof, hand>>

KeepsWalking(t) == cur[t] # NULL /\ WalksOver(hand[t], cur[t], Timed, AbsTime)

InsertWalk(t) ==
    /\ pc[t] = "walk"
    /\ KeepsWalking(t)
    /\ prev' = [prev EXCEPT ![t] = cur[t]]
    /\ cur' = [cur EXCEPT ![t] = next[cur[t]]]
    /\ UNCHANGED <<list, mutex, pc, qof, hand>>

\* Mutant of InsertLink: an entry inserted at the end does not become tail
InsertLink_KeepsTail(t) ==
    LET q == qof[t]  e == hand[t]  p == prev[t]
    IN  /\ pc[t] = "walk"
        /\ ~ KeepsWalking(t)
        /\ IF p = NULL
           THEN /\ head' = [head EXCEPT ![q] = e]
                /\ next' = [next EXCEPT ![e] = cur[t]]
           ELSE /\ next' = [next EXCEPT ![p] = e, ![e] = cur[t]]
                /\ UNCHANGED head
        /\ UNCHANGED tail
        /\ \E k \in 0 .. Len(lst[q]) :
              /\ IsInsertPoint(lst[q], k, e, Timed, AbsTime)
              /\ Link(t, InsertAt(lst[q], k+1, e))

InsertLink(t) ==
    LET q == qof[t]  e == hand[t]  p == prev[t]
    IN  /\ pc[t] = "walk"
        /\ ~ KeepsWalking(t)
        /\ IF p = NULL
           THEN /\ head' = [head EXCEPT ![q] = e]
                /\ next' = [next EXCEPT ![e] = cur[t]]
                /\ UNCHANGED tail
           ELSE /\ next' = [next EXCEPT ![p] = e, ![e] = cur[t]]
                /\ tail' = [tail EXCEPT ![q] = IF p = @ THEN e ELSE @]
                /\ UNCHANGED head
        /\ \E k \in 0 .. Len(lst[q]) :
              /\ IsInsertPoint(lst[q], k, e, Timed, AbsTime)
              /\ Link(t, InsertAt(lst[q], k+1, e))

nosync_insert_entry(t) ==
    InsertEmpty(t) \/ InsertStart(t) \/ InsertWalk(t) \/ InsertLink(t)

-----------------------------------------------------------------------------
\* What the mutants of nosync_pop_entry leave as it is
PopExcept(t, headNext, nextNull) ==
    LET q == qof[t]  h == head[q]
    IN  /\ hand' = [hand EXCEPT ![t] = h]
        /\ head' = [head EXCEPT ![q] = IF h = tail[q] THEN NULL ELSE headNext]
        /\ next' = [next EXCEPT ![h] = nextNull]
        /\ lst' = [lst EXCEPT ![q] = Tail(lst[q])]
        /\ GoTo(t, "unlock")
        /\ UNCHANGED <<mutex, qof, walk>>

\* Mutant: tail still points to the last entry after it was removed
nosync_pop_entry_KeepsTail(t) ==
    PopExcept(t, next[head[qof[t]]], NULL) /\ UNCHANGED tail

\* Mutant: head still points to the removed entry
nosync_pop_entry_KeepsHead(t) ==
    LET q == qof[t]
    IN  /\ PopExcept(t, head[q], NULL)
        /\ tail' = [tail EXCEPT ![q] = IF head[q] = @ THEN NULL ELSE @]

\* Mutant: the removed entry keeps its next pointer
nosync_pop_entry_KeepsNext(t) ==
    LET q == qof[t]  h == head[q]
    IN  /\ PopExcept(t, next[h], next[h])
        /\ tail' = [tail EXCEPT ![q] = IF h = @ THEN NULL ELSE @]

\* The part of nosync_pop_entry for a queue that has an entry
nosync_pop_entry(t) ==
    LET q == qof[t]  h == head[q]
    IN  /\ hand' = [hand EXCEPT ![t] = h]
        /\ IF h = tail[q]
           THEN /\ head' = [head EXCEPT ![q] = NULL]
                /\ tail' = [tail EXCEPT ![q] = NULL]
           ELSE /\ head' = [head EXCEPT ![q] = next[h]]
                /\ UNCHANGED tail
        /\ next' = [next EXCEPT ![h] = NULL]
        /\ lst' = [lst EXCEPT ![q] = Tail(lst[q])]
        /\ GoTo(t, "unlock")
        /\ UNCHANGED <<mutex, qof, walk>>

pop_entry(t) ==
    /\ pc[t] = "pop_locked"
    /\ \/ head[qof[t]] # NULL /\ nosync_pop_entry(t)
       \/ /\ head[qof[t]] = NULL
          /\ GoTo(t, "unlock")
          /\ UNCHANGED <<list, mutex, qof, walk, hand>>

\* queue_wait: COND_WAIT releases the mutex and sleeps, in one step
queue_wait(t) ==
    /\ mutex' = [mutex EXCEPT ![qof[t]] = NULL]
    /\ GoTo(t, "waiting")
    /\ UNCHANGED <<list, qof, walk, hand>>

wait_for_entry(t) ==
    /\ pc[t] = "wait_locked"
    /\ \/ head[qof[t]] # NULL /\ nosync_pop_entry(t)
       \/ head[qof[t]] = NULL /\ queue_wait(t)

\* A condition wait may return without a signal (POSIX threads)
SpuriousWakeup(t) ==
    /\ pc[t] = "waiting"
    /\ GoTo(t, "woken")
    /\ UNCHANGED <<list, mutex, qof, walk, hand>>

-----------------------------------------------------------------------------
\* The steps that a thread inside a call takes without its caller
Step(t) ==
    \/ Lock(t)
    \/ push_entry(t)
    \/ unshift_entry(t)
    \/ nosync_insert_entry(t)
    \/ pop_entry(t)
    \/ wait_for_entry(t)
    \/ SignalUnlock(t)
    \/ queue_unlock(t)

Next ==
    \E t \in Thread :
        \/ \E e \in Entry : Alloc(t, e)
        \/ Free(t)
        \/ \E q \in Queue, op \in {"push", "unshift", "insert", "pop", "wait"} :
              Call(t, q, op)
        \/ Step(t)
        \/ SpuriousWakeup(t)

Spec == Init /\ [][Next]_vars

(***************************************************************************)
(* A thread that is inside a call and can run is scheduled eventually, and *)
(* a mutex that becomes free again and again is eventually granted.  What  *)
(* the callers do is their choice; a spurious wakeup need not happen.      *)
(***************************************************************************)
FairSpec == Spec /\ \A t \in Thread : SF_vars(Step(t))

-----------------------------------------------------------------------------
(***************************************************************************)
(* Properties.                                                             *)
(***************************************************************************)
\* The linked list of queue q is exactly the sequence lst[q]: head is its
\* first entry, tail its last, next leads from each entry to the following
\* one and the last entry ends the chain (what push_entry and
\* nosync_pop_entry rely on).
Linked(q) ==
    LET s == lst[q]
    IN  /\ head[q] = IF Len(s) = 0 THEN NULL ELSE s[1]
        /\ tail[q] = IF Len(s) = 0 THEN NULL ELSE s[Len(s)]
        /\ \A i \in 1 .. Len(s) :
              next[s[i]] = IF i = Len(s) THEN NULL ELSE s[i+1]

\* Every queue's pointers describe the list of the entries that were put
\* into it and not removed, after any interleaving of the operations.
ListShape == \A q \in Queue : Linked(q)

\* An entry is in one place: once in one queue or in the hand of one thread.
\* Two owners would free or relink it twice.
OneOwner ==
    /\ \A q, r \in Queue : \A i \in 1 .. Len(lst[q]), j \in 1 .. Len(lst[r]) :
          lst[q][i] = lst[r][j] => q = r /\ i = j
    /\ \A t \in Thread : hand[t] # NULL =>
          /\ \A u \in Thread : hand[u] = hand[t] => u = t
          /\ \A q \in Queue : \A i \in 1 .. Len(lst[q]) : lst[q][i] # hand[t]

(***************************************************************************)
(* The inductive invariant.  ListShape and OneOwner are inductive only     *)
(* together with who holds a mutex, what a thread has in its hand at each  *)
(* point of a call, and how far the walk of nosync_insert_entry has come.  *)
(***************************************************************************)
Holding == {"push_locked", "unshift_locked", "insert_locked", "walk",
            "pop_locked", "wait_locked", "signal", "unlock"}

\* A thread between queue_lock and queue_unlock owns the mutex.
MutexOwned == \A t \in Thread : pc[t] \in Holding => mutex[qof[t]] = t

\* The entry a thread passes to a queue is unlinked, and the calls that
\* return an entry start with none.
HandOK ==
    \A t \in Thread :
        /\ pc[t] \in {"push", "unshift", "push_locked", "unshift_locked"}
              => hand[t] # NULL
        /\ pc[t] \in {"insert", "insert_locked", "walk"} => hand[t] \in Timed
        /\ pc[t] \in {"pop", "wait", "pop_locked", "wait_locked", "waiting",
                      "woken", "signal"} => hand[t] = NULL
        /\ hand[t] # NULL => next[hand[t]] = NULL

\* cur of the walk is the entry behind the k-th one and prev the k-th one;
\* the new entry belongs behind all of the first k.
WalkedTo(t, k) ==
    LET s == lst[qof[t]]
    IN  /\ prev[t] = IF k = 0 THEN NULL ELSE s[k]
        /\ cur[t] = IF k = Len(s) THEN NULL ELSE s[k+1]
        /\ \A i \in 1 .. k : WalksOver(hand[t], s[i], Timed, AbsTime)

WalkOK ==
    \A t \in Thread : pc[t] = "walk" =>
        /\ Len(lst[qof[t]]) > 0
        /\ \E k \in 0 .. Len(lst[qof[t]]) : WalkedTo(t, k)

\* The inductive invariant of the queue.
Inv == TypeOK /\ MutexOwned /\ HandOK /\ WalkOK /\ ListShape /\ OneOwner

\* While a thread waits on a queue, every entry of the queue has a thread
\* that was woken for it: the single COND_SIGNAL of push_entry ("assumes only
\* one waiter") loses no wakeup even when several threads wait.
Woken(q) == {t \in Thread : /\ pc[t] \in {"woken", "wait_locked", "signal"}
                            /\ qof[t] = q}
NoLostWakeup ==
    \A q \in Queue :
        Waiters(q) # {} => Len(lst[q]) <= Cardinality(Woken(q))

\* A thread in wait_for_entry does not sleep forever on a queue that has
\* an entry.
WaiterServed ==
    \A t \in Thread, q \in Queue :
        (t \in Waiters(q) /\ lst[q] # <<>>)
            ~> (t \notin Waiters(q) \/ lst[q] = <<>>)

Abstract == INSTANCE AbstractQueue

\* The linked list under its mutex implements the abstract queue: every
\* operation takes effect atomically, at the place in the sequence and with
\* the result that the abstract specification gives it.
ImplementsQueue == Abstract!ASpec

=============================================================================
