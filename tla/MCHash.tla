------------------------------- MODULE MCHash --------------------------------
(* Instances of Hash for TLC. Under the first seed three keys share a chain   *)
(* until the table has eight; under the second they part at once.             *)
EXTENDS Hash, TLC

CONSTANTS key1, key2, wide, seed1, seed2

HashVals == seed1 :> (key1 :> 1 @@ key2 :> 5 @@ wide :> 1)
         @@ seed2 :> (key1 :> 2 @@ key2 :> 1 @@ wide :> 3)

MCHashVal == [s \in Seeds |-> [k \in Keys |-> HashVals[s][k]]]
=============================================================================
