-------------------------------- MODULE Hash --------------------------------
(* Parrot's hash table, src/hash.c: an array of chains of buckets, with the   *)
(* buckets carved out of a pool and linked by index. A hash grows when its    *)
(* free list is empty; growing allocates twice, and a collector run that the  *)
(* allocation triggers walks the chains (mark_hash) while the hash is half    *)
(* grown. Growing, and the loop of hash_clone, are a step for each allocation *)
(* and each bucket; the other operations allocate nothing and are one step.   *)
(*                                                                            *)
(* A key is a STRING of the program, which the hash stores without copying.   *)
(* Values, the seed and freeze/thaw (hash_visit) are abstracted.              *)
EXTENDS Integers, Sequences, FiniteSets, Functions

CONSTANTS
  Keys,              \* the strings that are used as keys
  Wide,              \* those whose text is not ASCII
  Values,
  Seeds, HashVal,    \* HashVal[seed][key]: key_hash_STRING
  INITIAL_BUCKETS, MAXFULL_PERCENT,
  NULL,              \* NULLBucketIndex, a NULL pointer
  NoDict,            \* what a name without a hash stands for in AbstractDict
  Junk,              \* memory that was not written yet, or was freed
  KeepBoth           \* FALSE: the program drops a hash or its clone at once

ASSUME HashAssumption ==
  /\ Wide \subseteq Keys /\ KeepBoth \in BOOLEAN
  /\ HashVal \in [Seeds -> [Keys -> Nat]]
  /\ INITIAL_BUCKETS \in Nat /\ MAXFULL_PERCENT \in 1..100
  /\ INITIAL_BUCKETS * MAXFULL_PERCENT >= 100    \* growing adds buckets
  /\ NULL \notin Nat /\ Junk \notin Nat /\ NULL # Junk
  /\ {NULL, Junk} \cap Keys = {}
  /\ \A K \in SUBSET Keys : NoDict \notin [K -> Values]

Names == {"hash", "clone"}

VARIABLES
  hash,     \* [max_chain, entries, free_list, seed, key_type, table, pool]
  utf8,     \* the strings that are of type unicode (in place, for ASCII text)
  op,       \* where the call in progress is
  it,       \* an iterator over "hash": [i, bi], and what it has returned
  last      \* the last call to put, get or delete with its result

vars == <<hash, utf8, op, it, last>>

Idle == [at |-> "idle"]
NoHash == [live |-> FALSE]
NoIter == [active |-> FALSE]
NoCall == [call |-> "none"]

----------------------------------------------------------------------------
(* Buckets and chains.                                                      *)

\* The buckets from b on, by their next links.
Chain(h, b) ==
  LET from[n \in 0..Cardinality(DOMAIN h.pool)] ==
        [x \in DOMAIN h.pool \cup {NULL, Junk} |->
           IF n = 0 \/ x \in {NULL, Junk} THEN {}
           ELSE {x} \cup from[n - 1][h.pool[x].next]]
  IN from[Cardinality(DOMAIN h.pool)][b]

Slot(h, k) == HashVal[h.seed][k] % (h.max_chain + 1)

\* Mutant: only the first bucket of the chain is compared.
find_bucket_Head(h, k) ==
  LET b == h.table[Slot(h, k)] IN
  IF b # NULL /\ h.pool[b].key = k THEN b ELSE NULL

\* find_bucket on the chain of the key (hash_get_bucket): the first that fits.
find_bucket(h, k) ==
  LET hits == { b \in Chain(h, h.table[Slot(h, k)]) : h.pool[b].key = k } IN
  IF hits = {} THEN NULL ELSE CHOOSE b \in hits : hits \subseteq Chain(h, b)

\* The first bucket in the chains from i on, with its chain.
Locate(h, i) ==
  LET full == { j \in i..h.max_chain : h.table[j] # NULL } IN
  IF full = {} THEN [i |-> -1, bi |-> NULL]
  ELSE LET j == CHOOSE j \in full : \A l \in full : j <= l IN
       [i |-> j, bi |-> h.table[j]]

\* Mutant: the last bucket of a chain ends the walk of the table.
Following_OneChain(h, i, b) ==
  [i |-> IF h.pool[b].next = NULL THEN -1 ELSE i, bi |-> h.pool[b].next]

\* Mutant: the walk starts again at the chain it has finished.
Following_SameChain(h, i, b) ==
  IF h.pool[b].next = NULL THEN Locate(h, i) ELSE [i |-> i, bi |-> h.pool[b].next]

\* The bucket after b of chain i.
Following(h, i, b) ==
  IF h.pool[b].next = NULL THEN Locate(h, i + 1)
  ELSE [i |-> i, bi |-> h.pool[b].next]

\* A new bucket from the free list, put in front of its chain (new_bucket and
\* the end of hash_put).
Linked(h, k, v) ==
  LET b == h.free_list
      slot == Slot(h, k) IN
  [h EXCEPT !.free_list = h.pool[b].next,
            !.pool[b] = [key |-> k, value |-> v, next |-> h.table[slot]],
            !.table[slot] = b]

----------------------------------------------------------------------------
(* Keys.                                                                    *)

IsAscii(k) == k \notin Wide /\ k \notin utf8

Chains(h) == { Chain(h, h.table[i]) : i \in DOMAIN h.table }

\* The strings in the chains of h.
KeysOf(h) ==
  { h.pool[b].key : b \in UNION Chains(h) }

\* promote_hash_key and convert_hash_keys_to_utf8: the first key that is not
\* ASCII makes a unicode string of every key in the hash. A key that does not
\* fit is transcoded, which does not change its text.
promote_hash_key(h, k) ==
  IF h.key_type = "ascii" /\ ~ IsAscii(k) THEN [h EXCEPT !.key_type = "utf8"] ELSE h
Converted(h, k) ==
  IF h.key_type = "ascii" /\ ~ IsAscii(k) THEN utf8 \cup KeysOf(h) ELSE utf8

----------------------------------------------------------------------------
(* The operations.                                                          *)

\* The program goes on with one hash, unless it keeps both.
Ready(n) ==
  /\ op = Idle /\ hash[n] # NoHash
  /\ KeepBoth \/ \E m \in Names : hash[m] = NoHash

\* hash_put, called from where ret says. If there is no bucket for a new key
\* the hash has to grow first.
Put(n, k, v, ret) ==
  LET h == promote_hash_key(hash[n], k)
      b == find_bucket(h, k)
      more == [h EXCEPT !.entries = @ + 1] IN
  /\ utf8' = Converted(hash[n], k)
  /\ \/ /\ b # NULL
        /\ hash' = [hash EXCEPT ![n] = [h EXCEPT !.pool[b].value = v]]
        /\ op' = ret
     \/ /\ b = NULL /\ h.free_list # NULL
        /\ hash' = [hash EXCEPT ![n] = Linked(more, k, v)]
        /\ op' = ret
     \/ /\ b = NULL /\ h.free_list = NULL
        /\ hash' = [hash EXCEPT ![n] = more]
        /\ op' = [at |-> "grow_table", on |-> n, key |-> k, value |-> v, ret |-> ret]

\* A program that iterates does not add keys meanwhile.
hash_put(n, k, v) ==
  /\ Ready(n)
  /\ Put(n, k, v, Idle)
  /\ last' = IF op' = Idle THEN [call |-> "put", on |-> n, key |-> k, value |-> v]
             ELSE NoCall
  /\ it' = IF n = "hash" /\ k \notin KeysOf(hash[n]) THEN NoIter ELSE it

\* hash_get and hash_exists.
hash_get(n, k) ==
  LET b == find_bucket(hash[n], k) IN
  /\ Ready(n)
  /\ last' = [call |-> "get", on |-> n, key |-> k, found |-> b # NULL,
              value |-> IF b # NULL THEN hash[n].pool[b].value ELSE NULL]
  /\ UNCHANGED <<hash, utf8, op, it>>

\* Mutant: a bucket behind the first of a chain is not taken out.
Unlinked_First(h, slot, b) ==
  IF h.table[slot] = b THEN [h EXCEPT !.table[slot] = h.pool[b].next] ELSE h

\* Take b out of its chain.
Unlinked(h, slot, b) ==
  IF h.table[slot] = b THEN [h EXCEPT !.table[slot] = h.pool[b].next]
  ELSE LET prev == CHOOSE p \in Chain(h, h.table[slot]) : h.pool[p].next = b IN
       [h EXCEPT !.pool[prev].next = h.pool[b].next]

\* The bucket of a deleted key goes on the free list; what is left in it must
\* not be used any more.
\* A program that iterates deletes no other key than the one it got last.
hash_delete(n, k) ==
  LET h == hash[n]
      b == find_bucket(h, k)
      u == Unlinked(h, Slot(h, k), b) IN
  /\ Ready(n)
  /\ \/ b = NULL /\ hash' = hash
     \/ /\ b # NULL
        /\ hash' = [hash EXCEPT ![n] =
                      [u EXCEPT !.entries = @ - 1, !.free_list = b,
                                !.pool[b] = [key |-> Junk, value |-> Junk,
                                             next |-> h.free_list]]]
  /\ last' = [call |-> "delete", on |-> n, key |-> k]
  /\ it' = IF n = "hash" /\ it.active /\ (it.got = <<>> \/ it.got[Len(it.got)] # k)
           THEN NoIter ELSE it
  /\ UNCHANGED <<utf8, op>>

----------------------------------------------------------------------------
(* expand_hash and new_bucket.                                              *)

Grown(h) == IF h.max_chain + 1 = 0 THEN INITIAL_BUCKETS ELSE 2 * (h.max_chain + 1)

Working(at) == op.at = at
OpHash == hash[op.on]
Become(h) == hash' = [hash EXCEPT ![op.on] = h]

\* The table is reallocated: its new part is not initialized.
GrowTable ==
  /\ Working("grow_table")
  /\ Become([OpHash EXCEPT !.table =
       [i \in 0..(Grown(OpHash) - 1) |-> IF i \in DOMAIN @ THEN @[i] ELSE Junk]])
  /\ op' = [op EXCEPT !.at = "grow_pool"]
  /\ UNCHANGED <<utf8, it, last>>

\* Mutant: the free list starts behind the pool.
Pooled_Behind(h, old, new) ==
  [h EXCEPT !.pool = [b \in 0..(new - 1) |->
                        IF b < old THEN @[b]
                        ELSE [key |-> Junk, value |-> Junk,
                              next |-> IF b = old THEN h.free_list ELSE b - 1]],
            !.free_list = new]

\* The pool with new buckets, which go on the free list one by one.
Pooled(h, old, new) ==
  [h EXCEPT !.pool = [b \in 0..(new - 1) |->
                        IF b < old THEN @[b]
                        ELSE [key |-> Junk, value |-> Junk,
                              next |-> IF b = old THEN h.free_list ELSE b - 1]],
            !.free_list = new - 1]

\* The pool is reallocated, and the new part of the table is cleared.
GrowPool ==
  LET h == OpHash
      p == Pooled(h, Cardinality(DOMAIN h.pool), (Grown(h) * MAXFULL_PERCENT) \div 100) IN
  /\ Working("grow_pool")
  /\ Become([p EXCEPT !.table =
       [i \in DOMAIN @ |-> IF i > h.max_chain THEN NULL ELSE @[i]]])
  /\ op' = [at |-> "move", on |-> op.on, key |-> op.key, value |-> op.value,
            ret |-> op.ret, hi |-> 0, prev |-> NULL, scanned |-> {}]
  /\ UNCHANGED <<utf8, it, last>>

\* Where the walk along chain hi is: bucketIdxP.
Cursor == IF op.prev = NULL THEN OpHash.table[op.hi] ELSE OpHash.pool[op.prev].next

\* Mutant: the bucket is not taken out of its place.
Moved_NotCut(h, b, loc) == [h EXCEPT !.pool[b].next = h.table[loc], !.table[loc] = b]

\* Bucket b leaves its place for the front of chain loc.
Moved(h, b, loc) ==
  LET cut == IF op.prev = NULL THEN [h EXCEPT !.table[op.hi] = h.pool[b].next]
             ELSE [h EXCEPT !.pool[op.prev].next = h.pool[b].next] IN
  [cut EXCEPT !.pool[b].next = cut.table[loc], !.table[loc] = b]

\* One round of the loop that moves buckets to new homes.
MoveBucket ==
  /\ Working("move")
  /\ op.hi <= OpHash.max_chain /\ Cursor # NULL
  /\ LET b == Cursor
         loc == HashVal[OpHash.seed][OpHash.pool[b].key] % Grown(OpHash) IN
     \/ /\ loc # op.hi
        /\ Become(Moved(OpHash, b, loc))
        /\ op' = [op EXCEPT !.scanned = @ \cup {b}]
     \/ /\ loc = op.hi
        /\ hash' = hash
        /\ op' = [op EXCEPT !.prev = b, !.scanned = @ \cup {b}]
  /\ UNCHANGED <<utf8, it, last>>

NextChain ==
  /\ Working("move")
  /\ op.hi <= OpHash.max_chain /\ Cursor = NULL
  /\ op' = [op EXCEPT !.hi = @ + 1, !.prev = NULL]
  /\ UNCHANGED <<hash, utf8, it, last>>

\* The new size takes effect, and new_bucket, called again, finds a bucket for
\* the key that had none, if there is one.
Expanded ==
  LET h == [OpHash EXCEPT !.max_chain = Grown(OpHash) - 1] IN
  /\ Working("move")
  /\ op.hi > OpHash.max_chain
  /\ \/ /\ op.key = NULL
        /\ Become(h) /\ op' = op.ret /\ last' = last
     \/ /\ op.key # NULL
        /\ Become(Linked(h, op.key, op.value)) /\ op' = op.ret
        /\ last' = IF op.ret = Idle THEN [call |-> "put", on |-> op.on, key |-> op.key, value |-> op.value]
                   ELSE last
  /\ UNCHANGED <<utf8, it>>

----------------------------------------------------------------------------
(* hash_clone, and what the program does with a clone.                      *)

\* new_hash_x, up to its call of expand_hash.
Fresh(seed, type) ==
  [max_chain |-> -1, entries |-> 0, free_list |-> NULL, seed |-> seed,
   key_type |-> type, table |-> [i \in {} |-> 0], pool |-> [b \in {} |-> 0]]
Growing(n, ret) ==
  [at |-> "grow_table", on |-> n, key |-> NULL, value |-> NULL, ret |-> ret]

hash_clone ==
  /\ Ready("hash") /\ hash["clone"] = NoHash
  /\ \E s \in Seeds :
       hash' = [hash EXCEPT !["clone"] = Fresh(s, hash["hash"].key_type)]
  /\ op' = Growing("clone", [at |-> "clone", from |-> [i |-> 0, bi |-> NULL]])
  /\ last' = NoCall
  /\ UNCHANGED <<utf8, it>>

\* One round of the loop of hash_clone: put a copy of the next bucket, which is
\* looked up again after hash_put has returned.
CloneBucket ==
  LET h == hash["hash"]
      next == IF op.from.bi = NULL THEN Locate(h, 0)
              ELSE Following(h, op.from.i, op.from.bi) IN
  /\ Working("clone")
  /\ \/ /\ next.bi = NULL
        /\ op' = Idle /\ UNCHANGED <<hash, utf8>>
     \/ /\ next.bi # NULL
        /\ Put("clone", h.pool[next.bi].key, h.pool[next.bi].value,
               [at |-> "clone", from |-> next])
  /\ UNCHANGED <<it, last>>

\* The program is done with the hash or with its clone.
DropClone ==
  /\ op = Idle /\ hash["clone"] # NoHash
  /\ hash' = [hash EXCEPT !["clone"] = NoHash]
  /\ UNCHANGED <<utf8, op, it, last>>

UseClone ==
  /\ op = Idle /\ hash["clone"] # NoHash
  /\ hash' = [hash EXCEPT !["hash"] = hash["clone"], !["clone"] = NoHash]
  /\ it' = NoIter
  /\ UNCHANGED <<utf8, op, last>>

----------------------------------------------------------------------------
(* Iteration: nextkey_keyed of PerlHash starts, hash_get_idx goes on.       *)

StartIter ==
  /\ Ready("hash") /\ ~ it.active
  /\ it' = [active |-> TRUE, i |-> IF hash["hash"].entries = 0 THEN -1 ELSE 0,
            bi |-> Junk, got |-> <<>>, all |-> KeysOf(hash["hash"])]
  /\ last' = NoCall
  /\ UNCHANGED <<hash, utf8, op>>

hash_get_idx ==
  LET h == hash["hash"]
      cur == IF it.bi = Junk THEN Locate(h, it.i) ELSE [i |-> it.i, bi |-> it.bi]
      next == Following(h, cur.i, cur.bi) IN
  /\ Ready("hash") /\ it.active /\ it.i # -1
  /\ it' = [it EXCEPT !.i = next.i, !.bi = next.bi,
                      !.got = Append(@, h.pool[cur.bi].key)]
  /\ last' = NoCall
  /\ UNCHANGED <<hash, utf8, op>>

\* The iterator is at its end, and the program throws it away.
EndIter ==
  /\ op = Idle /\ it.active /\ it.i = -1
  /\ it' = NoIter
  /\ UNCHANGED <<hash, utf8, op, last>>

----------------------------------------------------------------------------
Init ==
  /\ \E s \in Seeds : hash = [n \in Names |-> IF n = "hash" THEN Fresh(s, "ascii") ELSE NoHash]
  /\ utf8 = {} /\ it = NoIter
  /\ op = Growing("hash", Idle)
  /\ last = NoCall

Calls ==
  \/ \E n \in Names, k \in Keys :
       \/ \E v \in Values : hash_put(n, k, v)
       \/ hash_get(n, k)
       \/ hash_delete(n, k)
  \/ hash_clone \/ DropClone \/ UseClone
  \/ StartIter \/ hash_get_idx \/ EndIter

\* What the interpreter does inside of a call.
Inside == GrowTable \/ GrowPool \/ MoveBucket \/ NextChain \/ Expanded \/ CloneBucket

Next == Calls \/ Inside

Spec == Init /\ [][Next]_vars

\* A call that was entered goes on.
FairSpec == Spec /\ WF_vars(Inside)

----------------------------------------------------------------------------
(* Properties.                                                              *)

Live == { n \in Names : hash[n] # NoHash }

TypeOK ==
  /\ utf8 \subseteq Keys
  /\ op.at \in {"idle", "grow_table", "grow_pool", "move", "clone"}
  /\ \A n \in Live :
       LET h == hash[n] B == DOMAIN h.pool IN
       /\ h.max_chain \in Int /\ h.entries \in Nat /\ h.seed \in Seeds
       /\ h.free_list \in B \cup {NULL} /\ h.key_type \in {"ascii", "utf8"}
       /\ \A i \in DOMAIN h.table : h.table[i] \in B \cup {NULL, Junk}
       /\ \A b \in B : h.pool[b].next \in B \cup {NULL}

\* Every bucket of the pool is in one chain or on the free list, once, at every
\* step of growing too: none is lost for good, and none is used twice.
BucketsKept ==
  \A n \in Live :
    LET h == hash[n]
        free == Chain(h, h.free_list)
        owners(b) == { i \in DOMAIN h.table : b \in Chain(h, h.table[i]) } IN
    \A b \in DOMAIN h.pool :
      /\ IF b \in free THEN owners(b) = {} ELSE \E i \in DOMAIN h.table : owners(b) = {i}
      /\ b \notin Chain(h, h.pool[b].next)

\* Mutant: the walk goes by the memory of the table.
mark_hash_Allocated(h) == IF h.table = <<>> \/ h.pool = <<>> THEN {} ELSE DOMAIN h.table

\* What mark_hash walks over: the chains up to max_chain, if both buffers are
\* there.
mark_hash(h) == IF h.table = <<>> \/ h.pool = <<>> THEN {} ELSE 0..h.max_chain

\* A collector run may happen at an allocation, in the middle of growing: it
\* then finds all keys of the hash, no chain that is not initialized, and no
\* more buckets than entries ("Detected hash corruption").
Markable ==
  op.at \in {"idle", "grow_table", "grow_pool", "clone"} =>
    \A n \in Live :
      LET h == hash[n]
          slots == mark_hash(h)
          found == UNION { Chain(h, h.table[i]) : i \in slots } IN
      /\ \A i \in slots : h.table[i] # Junk
      /\ Cardinality(found) <= h.entries
      /\ { h.pool[b].key : b \in found } = KeysOf(h)

\* "No bucket will be scanned twice" while a hash grows.
ScannedOnce ==
  op.at = "move" /\ op.hi <= OpHash.max_chain /\ Cursor # NULL => Cursor \notin op.scanned

\* An iterator returns no key twice and, at its end, has returned every key the
\* hash had when it started, although the program replaced values and deleted
\* the keys it got.
IteratesOnce ==
  it.active =>
    /\ Cardinality(Range(it.got)) = Len(it.got)
    /\ it.i = -1 => Range(it.got) = it.all

\* A call that puts a key or clones a hash returns.
CallsReturn == (op # Idle) ~> (op = Idle)

DictOf(h) ==
  LET used == UNION Chains(h) IN
  [k \in { h.pool[b].key : b \in used } |->
     LET b == CHOOSE b \in used : h.pool[b].key = k IN h.pool[b].value]

Cloning == op.at = "clone" \/ (op # Idle /\ op.at # "clone" /\ op.ret # Idle)

Dicts ==
  [n \in Names |-> IF n \notin Live \/ (n = "clone" /\ Cloning) THEN NoDict
                   ELSE DictOf(hash[n])]

Dict == INSTANCE AbstractDict WITH dict <- Dicts

\* Every hash is a map: what was put is found until it is deleted, however the
\* hash has grown since, nothing else is, and a clone is an equal map.
ImplementsDict == Dict!DSpec
=============================================================================
