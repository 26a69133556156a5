---------------------------- MODULE AbstractHeap ----------------------------
(* What memory management promises the programs that Parrot runs: an object  *)
(* comes from a header that is not in use, keeps it for as long as the       *)
(* program can reach it, and loses it at some time after that. Marking, free *)
(* lists, lazy runs and pool growth are not visible here; Dod implements     *)
(* this specification.                                                       *)
EXTENDS HeapGraph

CONSTANT Headers

VARIABLES used,    \* the headers that hold an object
          refs,    \* refs[h]: what the object in h refers to
          roots    \* what the running program holds directly

hvars == <<used, refs, roots>>

InReach == Reachable(refs, roots)

HInit ==
  /\ used \subseteq Headers
  /\ refs = [h \in Headers |-> {}]
  /\ roots = used

\* The program gets an object with no contents.
HAlloc ==
  \E h \in Headers \ used :
    /\ used' = used \cup {h}
    /\ roots' = roots \cup {h}
    /\ refs' = refs

\* The program changes what it holds and what its objects contain, by passing
\* around what it can reach.
HMutate ==
  /\ used' = used
  /\ refs' \in [Headers -> SUBSET Headers]
  /\ LET reach == InReach IN
     /\ roots' \subseteq reach
     /\ \A h \in Headers : refs'[h] # refs[h] =>
          h \in reach /\ refs'[h] \subseteq refs[h] \cup reach

\* Some objects that the program cannot reach lose their headers.
HCollect ==
  \E dead \in SUBSET (used \ InReach) :
    /\ used' = used \ dead
    /\ refs' = [h \in Headers |-> IF h \in dead THEN {} ELSE refs[h]]
    /\ roots' = roots

HNext == HAlloc \/ HMutate \/ HCollect

HSpec == HInit /\ [][HNext]_hvars
=============================================================================
