---------------------------- MODULE AbstractDict ----------------------------
(* What hash_put, hash_get, hash_delete and hash_clone of src/hash.c promise: *)
(* a hash is a map from keys to values, and a clone is a copy of it. Hash     *)
(* implements this specification.                                             *)
EXTENDS Functions

CONSTANTS Names,     \* the hashes of the program
          NoDict     \* no hash has this name now

VARIABLES dict,      \* name -> map, or NoDict
          last       \* the last call, with its arguments and its result

dvars == <<dict, last>>

Without(f, k) == Restrict(f, DOMAIN f \ {k})

DInit == \A n \in Names : dict[n] \in {NoDict, [k \in {} |-> 0]}

DPut(n) ==
  /\ last'.call = "put" /\ last'.on = n /\ dict[n] # NoDict
  /\ dict' = [dict EXCEPT ![n] =
                [k \in DOMAIN @ \cup {last'.key} |->
                   IF k = last'.key THEN last'.value ELSE @[k]]]

DGet(n) ==
  /\ last'.call = "get" /\ last'.on = n /\ dict[n] # NoDict
  /\ last'.found = (last'.key \in DOMAIN dict[n])
  /\ last'.found => last'.value = dict[n][last'.key]
  /\ dict' = dict

DDelete(n) ==
  /\ last'.call = "delete" /\ last'.on = n /\ dict[n] # NoDict
  /\ dict' = [dict EXCEPT ![n] = Without(@, last'.key)]

DClone(n, m) ==
  /\ dict[n] # NoDict /\ dict[m] = NoDict
  /\ dict' = [dict EXCEPT ![m] = dict[n]]
  /\ last' = last

DDrop(n) ==
  /\ dict' = [dict EXCEPT ![n] = NoDict]
  /\ last' = last

\* m becomes the name of the hash n.
DRename(n, m) ==
  /\ dict[n] # NoDict
  /\ dict' = [dict EXCEPT ![m] = dict[n], ![n] = NoDict]
  /\ last' = last

\* Another call, or one that has not returned yet.
DOther == last'.call = "none" /\ dict' = dict

DNext ==
  \/ DOther
  \/ \E n \in Names : DPut(n) \/ DGet(n) \/ DDelete(n) \/ DDrop(n)
  \/ \E n, m \in Names : DClone(n, m) \/ DRename(n, m)

DSpec == DInit /\ [][DNext]_dvars
=============================================================================
