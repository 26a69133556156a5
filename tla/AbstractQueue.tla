--------------------------- MODULE AbstractQueue ----------------------------
(***************************************************************************)
(* What the thread-safe queues promise their users: each queue is a        *)
(* sequence of entries, every operation takes effect in one step, and no   *)
(* entry is lost, duplicated or in two places.  A thread has at most one   *)
(* entry in its hand: one it has allocated and will queue, or one it has   *)
(* removed from a queue and will free or queue elsewhere.                  *)
(***************************************************************************)
EXTENDS QueueOps

CONSTANTS Thread, Queue, Entry, NULL, Timed, AbsTime

VARIABLES lst,   \* lst[q] is the sequence of the entries of queue q
          hand   \* hand[t] is the entry thread t holds, or NULL

avars == <<lst, hand>>

Queued == UNION {ToSet(lst[q]) : q \in Queue}

Held == {hand[t] : t \in Thread} \ {NULL}

AInit ==
    /\ lst = [q \in Queue |-> <<>>]
    /\ hand = [t \in Thread |-> NULL]

AAlloc(t, e) ==
    /\ hand[t] = NULL
    /\ e \in Entry \ (Queued \cup Held)
    /\ hand' = [hand EXCEPT ![t] = e]
    /\ UNCHANGED lst

AFree(t) ==
    /\ hand[t] # NULL
    /\ hand' = [hand EXCEPT ![t] = NULL]
    /\ UNCHANGED lst

APut(t, q, s) ==
    /\ hand[t] # NULL
    /\ lst' = [lst EXCEPT ![q] = s]
    /\ hand' = [hand EXCEPT ![t] = NULL]

APush(t, q) == APut(t, q, Append(lst[q], hand[t]))

AUnshift(t, q) == APut(t, q, Cons(hand[t], lst[q]))

AInsert(t, q) ==
    /\ hand[t] \in Timed
    /\ \E k \in 0 .. Len(lst[q]) :
          /\ IsInsertPoint(lst[q], k, hand[t], Timed, AbsTime)
          /\ APut(t, q, InsertAt(lst[q], k+1, hand[t]))

APop(t, q) ==
    /\ hand[t] = NULL
    /\ lst[q] # <<>>
    /\ hand' = [hand EXCEPT ![t] = Head(lst[q])]
    /\ lst' = [lst EXCEPT ![q] = Tail(lst[q])]

ANext ==
    \E t \in Thread :
        \/ \E e \in Entry : AAlloc(t, e)
        \/ AFree(t)
        \/ \E q \in Queue :
              APush(t, q) \/ AUnshift(t, q) \/ AInsert(t, q) \/ APop(t, q)

ASpec == AInit /\ [][ANext]_avars

=============================================================================
