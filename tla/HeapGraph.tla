------------------------------ MODULE HeapGraph ------------------------------
(* Reachability in a graph of object headers: what the collector's abstract  *)
(* specification and the properties of src/dod.c mean by "in use". edges is  *)
(* a function that gives for each header the set of headers it refers to.    *)

\* A set of headers that nothing refers out of.
ClosedUnder(edges, S) == \A h \in S : edges[h] \subseteq S

\* The headers that can be reached from roots: the least closed set around
\* roots. Stated without recursion, so that it can be reasoned about.
Reachable(edges, roots) ==
  { h \in DOMAIN edges :
      \A S \in SUBSET DOMAIN edges :
        roots \subseteq S /\ ClosedUnder(edges, S) => h \in S }
=============================================================================
