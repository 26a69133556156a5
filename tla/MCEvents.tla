------------------------------ MODULE MCEvents ------------------------------
(***************************************************************************)
(* Events on small instances.                                              *)
(***************************************************************************)
EXTENDS Events

CONSTANTS main, thr, tm1, tm2

\* A timer that fires once, one that repeats after another interval than the
\* first, and one whose interval is taken from its first delay
FiniteTimers == {[diff |-> 2, interval |-> 0, repeat |-> 0],
                 [diff |-> 1, interval |-> 2, repeat |-> 1],
                 [diff |-> 1, interval |-> 0, repeat |-> 1]}

\* The arguments of the alarm ops
OnceSoon == {[diff |-> 1, interval |-> 0, repeat |-> 0]}

\* A Timer with repeat = -1 runs forever
Forever == {[diff |-> 1, interval |-> 1, repeat |-> -1]}

MixedTimers == OnceSoon \cup Forever \cup
               {[diff |-> 1, interval |-> 2, repeat |-> 1]}

=============================================================================
