----------------------------- MODULE MCTSQueue ------------------------------
(***************************************************************************)
(* TSQueue on a small instance: three threads share a queue, and two timed *)
(* entries are due at different times.  push_entry and unshift_entry do    *)
(* not look at the type, so these entries are also pushed like plain ones. *)
(***************************************************************************)
EXTENDS TSQueue

CONSTANTS t1, t2, t3, q1, early, late

MCAbsTime == [e \in Entry |-> IF e = late THEN 2 ELSE 1]

=============================================================================
