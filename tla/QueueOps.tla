------------------------------ MODULE QueueOps ------------------------------
(***************************************************************************)
(* What the queue operations of parrot/src/tsq.c do to a queue seen as the *)
(* sequence of its entries.  TSQueue shows that the linked list implements *)
(* these operations; Events uses them for the event queue and the task     *)
(* queues.                                                                 *)
(***************************************************************************)
EXTENDS Naturals, Sequences, SequencesExt

\* Mutant of WalksOver: the comparison is the wrong way round
WalksOver_Later(e, x, timed, due) == x \in timed /\ due[x] > due[e]

(***************************************************************************)
(* nosync_insert_entry walks over an entry x when x is a timed entry that  *)
(* is due strictly before the new entry e.                                 *)
(***************************************************************************)
WalksOver(e, x, timed, due) == x \in timed /\ due[x] < due[e]

(***************************************************************************)
(* The walk of nosync_insert_entry for e stops behind the k-th entry of s: *)
(* it stops at the first entry that is not timed, however late the timed   *)
(* entries behind that one are.                                            *)
(***************************************************************************)
IsInsertPoint(s, k, e, timed, due) ==
    /\ k \in 0 .. Len(s)
    /\ \A i \in 1 .. k : WalksOver(e, s[i], timed, due)
    /\ k < Len(s) => ~ WalksOver(e, s[k+1], timed, due)

Inserted(s, e, timed, due) ==
    LET k == CHOOSE k \in 0 .. Len(s) : IsInsertPoint(s, k, e, timed, due)
    IN  InsertAt(s, k+1, e)

=============================================================================
