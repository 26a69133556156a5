----------------------------- MODULE HashProofs -----------------------------
(* Proofs about the hash table (Hash): its types, that every bucket is in one *)
(* place, what a collector run and an iterator find, and that it implements   *)
(* AbstractDict; for any number of keys, values and buckets, and for every    *)
(* hash function.                                                             *)
EXTENDS Hash, NumberFacts, FiniteSetTheorems

----------------------------------------------------------------------------
(* Chains as an order. A bucket has an owner, the chain it is in, and a rank  *)
(* that grows along the chain; chain -1 is the free list.                     *)

Free == -1

\* head[i] is the first bucket of chain i, nxt[b] the bucket after b.
InOrder(I, D, head, nxt, own, rk) ==
  /\ own \in [D -> I] /\ rk \in [D -> Nat]
  /\ head \in [I -> D \cup {NULL, Junk}] /\ nxt \in [D -> D \cup {NULL}]
  /\ \A i \in I : head[i] \in D => own[head[i]] = i
  /\ \A c \in D : head[own[c]] \in D /\ rk[head[own[c]]] <= rk[c]
  /\ \A b \in D : nxt[b] \in D => own[nxt[b]] = own[b] /\ rk[b] < rk[nxt[b]]
  /\ \A b, c \in D : own[b] = own[c] /\ rk[b] < rk[c]
                       => nxt[b] \in D /\ rk[nxt[b]] <= rk[c]
  /\ \A b, c \in D : own[b] = own[c] /\ rk[b] = rk[c] => b = c

\* A chain loses its bucket b, the first one or the one after p.
IsCut(D, head, nxt, own, b, hd, nx) ==
  \/ head[own[b]] = b /\ hd = [head EXCEPT ![own[b]] = nxt[b]] /\ nx = nxt
  \/ \E p \in D : nxt[p] = b /\ hd = head /\ nx = [nxt EXCEPT ![p] = nxt[b]]

\* The ranks when b goes to the front of a chain.
InFront(D, rk, b) == [x \in D |-> IF x = b THEN 0 ELSE rk[x] + 1]

\* All that new_bucket, hash_delete and expand_hash do to the chains: a bucket
\* is taken out of one chain and put in front of another.
LEMMA MoveFront ==
    ASSUME NEW I, NEW D, NEW head, NEW nxt, NEW own, NEW rk,
           InOrder(I, D, head, nxt, own, rk), NULL \notin D, Junk \notin D,
           NEW b \in D, NEW j \in I, j # own[b], head[j] # Junk,
           NEW hd, NEW nx, IsCut(D, head, nxt, own, b, hd, nx)
    PROVE  InOrder(I, D, [hd EXCEPT ![j] = b], [nx EXCEPT ![b] = hd[j]],
                   [own EXCEPT ![b] = j], InFront(D, rk, b))
<1> DEFINE h2 == [hd EXCEPT ![j] = b]
           n2 == [nx EXCEPT ![b] = hd[j]]
           o2 == [own EXCEPT ![b] = j]
           r2 == InFront(D, rk, b)
<1>1. /\ own \in [D -> I] /\ rk \in [D -> Nat]
      /\ head \in [I -> D \cup {NULL, Junk}] /\ nxt \in [D -> D \cup {NULL}]
  BY DEF InOrder
<1>2. /\ \A i \in I : head[i] \in D => own[head[i]] = i
      /\ \A c \in D : head[own[c]] \in D /\ rk[head[own[c]]] <= rk[c]
  BY DEF InOrder
<1>3. \A x \in D : nxt[x] \in D => own[nxt[x]] = own[x] /\ rk[x] < rk[nxt[x]]
  BY DEF InOrder
<1>4. \A x, c \in D : own[x] = own[c] /\ rk[x] < rk[c]
                        => nxt[x] \in D /\ rk[nxt[x]] <= rk[c]
  BY DEF InOrder
<1>5. \A x, c \in D : own[x] = own[c] /\ rk[x] = rk[c] => x = c
  BY DEF InOrder
<1>6. /\ hd \in [I -> D \cup {NULL, Junk}] /\ nx \in [D -> D \cup {NULL}]
      /\ hd[j] = head[j] /\ hd[j] \in D \cup {NULL}
      /\ \A i \in I \ {own[b]} : hd[i] = head[i]
  BY <1>1 DEF IsCut
<1>7. /\ o2 \in [D -> I] /\ r2 \in [D -> Nat]
      /\ h2 \in [I -> D \cup {NULL, Junk}] /\ n2 \in [D -> D \cup {NULL}]
      /\ o2[b] = j /\ r2[b] = 0 /\ h2[j] = b /\ n2[b] = head[j]
      /\ \A x \in D \ {b} : o2[x] = own[x] /\ r2[x] = rk[x] + 1 /\ n2[x] = nx[x]
      /\ \A i \in I \ {j} : h2[i] = hd[i]
  BY <1>1, <1>6 DEF InFront
\* The chain that b leaves, and every other one, without b.
<1>8. /\ \A i \in I : hd[i] \in D => own[hd[i]] = i /\ hd[i] # b
      /\ \A c \in D \ {b} : hd[own[c]] \in D /\ rk[hd[own[c]]] <= rk[c]
  <2>1. CASE head[own[b]] = b /\ hd = [head EXCEPT ![own[b]] = nxt[b]] /\ nx = nxt
    <3>1. hd[own[b]] = nxt[b]
      BY <2>1, <1>1
    <3>2. \A c \in D \ {b} : own[c] = own[b] => nxt[b] \in D /\ rk[nxt[b]] <= rk[c]
      <4> SUFFICES ASSUME NEW c \in D \ {b}, own[c] = own[b]
                   PROVE  nxt[b] \in D /\ rk[nxt[b]] <= rk[c]
        OBVIOUS
      <4>1. rk[b] <= rk[c]
        BY <2>1, <1>2
      <4>2. rk[b] # rk[c]
        BY <1>5
      <4> QED BY <4>1, <4>2, <1>1, <1>4
    <3>3. nxt[b] \in D => own[nxt[b]] = own[b] /\ nxt[b] # b
      BY <1>1, <1>3
    <3> QED BY <3>1, <3>2, <3>3, <1>1, <1>2, <1>6
  <2>2. CASE \E p \in D : nxt[p] = b /\ hd = head /\ nx = [nxt EXCEPT ![p] = nxt[b]]
    <3>1. PICK p \in D : nxt[p] = b /\ hd = head
      BY <2>2
    <3>2. own[p] = own[b] /\ rk[p] < rk[b]
      BY <3>1, <1>3
    <3>3. head[own[b]] # b
      BY <3>1, <3>2, <1>1, <1>2
    <3> QED BY <3>1, <3>3, <1>1, <1>2
  <2> QED BY <2>1, <2>2 DEF IsCut
<1>9. \A x \in D \ {b} : nx[x] \in D => /\ own[nx[x]] = own[x] /\ rk[x] < rk[nx[x]]
                                        /\ nx[x] # b
  <2>1. CASE head[own[b]] = b /\ nx = nxt
    <3>1. \A x \in D : nxt[x] # b
      <4> SUFFICES ASSUME NEW x \in D, nxt[x] = b PROVE FALSE
        OBVIOUS
      <4>1. own[b] = own[x] /\ rk[x] < rk[b]
        BY <1>3
      <4>2. rk[b] <= rk[x]
        BY <4>1, <2>1, <1>2
      <4> QED BY <4>1, <4>2, <1>1
    <3> QED BY <2>1, <3>1, <1>3
  <2>2. CASE \E p \in D : nxt[p] = b /\ nx = [nxt EXCEPT ![p] = nxt[b]]
    <3>1. PICK p \in D : nxt[p] = b /\ nx = [nxt EXCEPT ![p] = nxt[b]]
      BY <2>2
    <3>2. own[p] = own[b] /\ rk[p] < rk[b]
      BY <3>1, <1>3
    <3>3. \A x \in D : nxt[x] = b => x = p
      <4> SUFFICES ASSUME NEW x \in D, nxt[x] = b PROVE x = p
        OBVIOUS
      <4>1. own[x] = own[b] /\ rk[x] < rk[b]
        BY <1>3
      <4>2. ~ (rk[x] < rk[p]) /\ ~ (rk[p] < rk[x])
        BY <3>1, <3>2, <4>1, <1>1, <1>4
      <4> QED BY <3>2, <4>1, <4>2, <1>1, <1>5
    <3>4. nx[p] = nxt[b] /\ \A x \in D \ {p} : nx[x] = nxt[x]
      BY <3>1, <1>1
    <3>5. nxt[b] \in D => own[nxt[b]] = own[b] /\ rk[b] < rk[nxt[b]]
      BY <1>3
    <3>6. nx[p] \in D => own[nx[p]] = own[p] /\ rk[p] < rk[nx[p]] /\ nx[p] # b
      BY <3>2, <3>4, <3>5, <1>1
    <3> QED BY <3>3, <3>4, <3>6, <1>3
  <2> QED BY <2>1, <2>2 DEF IsCut
<1>10. \A x, c \in D \ {b} : own[x] = own[c] /\ rk[x] < rk[c]
                               => nx[x] \in D /\ rk[nx[x]] <= rk[c]
  <2>1. CASE nx = nxt
    BY <2>1, <1>4
  <2>2. CASE \E p \in D : nxt[p] = b /\ nx = [nxt EXCEPT ![p] = nxt[b]]
    <3>1. PICK p \in D : nxt[p] = b /\ nx = [nxt EXCEPT ![p] = nxt[b]]
      BY <2>2
    <3>2. own[p] = own[b] /\ rk[p] < rk[b]
      BY <3>1, <1>3
    <3>3. nx[p] = nxt[b] /\ \A x \in D \ {p} : nx[x] = nxt[x]
      BY <3>1, <1>1
    <3>4. ASSUME NEW c \in D \ {b}, own[p] = own[c], rk[p] < rk[c]
          PROVE  nx[p] \in D /\ rk[nx[p]] <= rk[c]
      <4>1. rk[b] <= rk[c]
        BY <3>1, <3>4, <1>4
      <4>2. rk[b] # rk[c]
        BY <3>2, <3>4, <1>5
      <4>3. own[b] = own[c] /\ rk[b] < rk[c]
        BY <3>2, <3>4, <4>1, <4>2, <1>1
      <4> QED BY <3>3, <4>3, <1>4
    <3> QED BY <3>3, <3>4, <1>4
  <2> QED BY <2>1, <2>2 DEF IsCut
<1> HIDE DEF h2, n2, o2, r2
<1>11. \A i \in I : h2[i] \in D => o2[h2[i]] = i
  BY <1>1, <1>6, <1>7, <1>8
<1>12. \A c \in D : h2[o2[c]] \in D /\ r2[h2[o2[c]]] <= r2[c]
  <2> SUFFICES ASSUME NEW c \in D PROVE h2[o2[c]] \in D /\ r2[h2[o2[c]]] <= r2[c]
    OBVIOUS
  <2>1. CASE o2[c] = j
    BY <2>1, <1>1, <1>7
  <2>2. CASE o2[c] # j
    <3>1. c # b /\ o2[c] = own[c] /\ h2[own[c]] = hd[own[c]]
      BY <2>2, <1>1, <1>7
    <3>2. hd[own[c]] \in D /\ rk[hd[own[c]]] <= rk[c] /\ hd[own[c]] # b
      BY <3>1, <1>1, <1>8
    <3>3. r2[hd[own[c]]] = rk[hd[own[c]]] + 1 /\ r2[c] = rk[c] + 1
      BY <3>1, <3>2, <1>7
    <3> QED BY <3>1, <3>2, <3>3, <1>1
  <2> QED BY <2>1, <2>2
<1>13. \A x \in D : n2[x] \in D => o2[n2[x]] = o2[x] /\ r2[x] < r2[n2[x]]
  <2> SUFFICES ASSUME NEW x \in D, n2[x] \in D
               PROVE  o2[n2[x]] = o2[x] /\ r2[x] < r2[n2[x]]
    OBVIOUS
  <2>1. CASE x = b
    <3>1. n2[x] = head[j] /\ head[j] \in D /\ head[j] # b /\ own[head[j]] = j
      BY <2>1, <1>1, <1>2, <1>7
    <3>2. o2[head[j]] = j /\ r2[head[j]] = rk[head[j]] + 1 /\ rk[head[j]] \in Nat
      BY <3>1, <1>1, <1>7
    <3> QED BY <2>1, <3>1, <3>2, <1>7
  <2>2. CASE x # b
    <3>1. n2[x] = nx[x]
      BY <2>2, <1>7
    <3>2. own[nx[x]] = own[x] /\ rk[x] < rk[nx[x]] /\ nx[x] # b
      BY <2>2, <3>1, <1>9
    <3> QED BY <2>2, <3>1, <3>2, <1>1, <1>7
  <2> QED BY <2>1, <2>2
<1>14. \A x, c \in D : o2[x] = o2[c] /\ r2[x] < r2[c]
                         => n2[x] \in D /\ r2[n2[x]] <= r2[c]
  <2> SUFFICES ASSUME NEW x \in D, NEW c \in D, o2[x] = o2[c], r2[x] < r2[c]
               PROVE  n2[x] \in D /\ r2[n2[x]] <= r2[c]
    OBVIOUS
  <2>1. c # b /\ o2[c] = own[c] /\ r2[c] = rk[c] + 1
    BY <1>7
  <2>2. CASE x = b
    <3>1. own[c] = j /\ n2[x] = head[j]
      BY <2>1, <2>2, <1>7
    <3>2. head[j] \in D /\ rk[head[j]] <= rk[c] /\ own[head[j]] = j
      BY <3>1, <1>2
    <3>3. r2[head[j]] = rk[head[j]] + 1
      BY <3>2, <1>7
    <3> QED BY <2>1, <3>1, <3>2, <3>3, <1>1
  <2>3. CASE x # b
    <3>1. own[x] = own[c] /\ rk[x] < rk[c] /\ n2[x] = nx[x]
      BY <2>1, <2>3, <1>1, <1>7
    <3>2. nx[x] \in D /\ rk[nx[x]] <= rk[c] /\ nx[x] # b
      BY <2>1, <2>3, <3>1, <1>9, <1>10
    <3> QED BY <2>1, <3>1, <3>2, <1>1, <1>7
  <2> QED BY <2>2, <2>3
<1>15. \A x, c \in D : o2[x] = o2[c] /\ r2[x] = r2[c] => x = c
  <2> SUFFICES ASSUME NEW x \in D, NEW c \in D, o2[x] = o2[c], r2[x] = r2[c]
               PROVE  x = c
    OBVIOUS
  <2>1. CASE x # b /\ c # b
    <3>1. own[x] = own[c] /\ rk[x] + 1 = rk[c] + 1
      BY <2>1, <1>7
    <3>2. rk[x] = rk[c]
      BY <3>1, <1>1
    <3> QED BY <3>1, <3>2, <1>5
  <2>2. CASE x = b \/ c = b
    BY <2>2, <1>1, <1>7
  <2> QED BY <2>1, <2>2
<1> QED BY <1>7, <1>11, <1>12, <1>13, <1>14, <1>15 DEF InOrder, h2, n2, o2, r2

\* The table is made longer, and its new part is cleared: no chain changes.
LEMMA NewHeads ==
    ASSUME NEW I, NEW D, NEW head, NEW nxt, NEW own, NEW rk,
           InOrder(I, D, head, nxt, own, rk), NULL \notin D, Junk \notin D,
           NEW J, I \subseteq J, NEW hd \in [J -> D \cup {NULL, Junk}],
           \A i \in I : hd[i] = head[i] \/ (head[i] \notin D /\ hd[i] \notin D),
           \A i \in J \ I : hd[i] \notin D
    PROVE  InOrder(J, D, hd, nxt, own, rk)
<1>1. /\ own \in [D -> J] /\ \A c \in D : own[c] \in I /\ hd[own[c]] = head[own[c]]
  BY DEF InOrder
<1>2. \A i \in J : hd[i] \in D => own[hd[i]] = i
  BY DEF InOrder
<1> QED BY <1>1, <1>2 DEF InOrder

\* The pool is made longer, from p buckets to q, and the free list goes through
\* the new part before the old one.
IsLonger(p, q, head, nxt, own, rk, hd, nx, ow, rw) ==
  /\ p \in Nat /\ q \in Nat /\ p < q
  /\ nx = [b \in 0..(q-1) |-> IF b < p THEN nxt[b]
                             ELSE IF b = p THEN head[Free] ELSE b - 1]
  /\ ow = [b \in 0..(q-1) |-> IF b < p THEN own[b] ELSE Free]
  /\ rw = [b \in 0..(q-1) |-> IF b < p THEN rk[b] + q ELSE q - 1 - b]
  /\ hd = [head EXCEPT ![Free] = q - 1]

LEMMA NewBuckets ==
    ASSUME NEW I, NEW p, NEW q, NEW head, NEW nxt, NEW own, NEW rk,
           NEW hd, NEW nx, NEW ow, NEW rw,
           InOrder(I, 0..(p-1), head, nxt, own, rk),
           IsLonger(p, q, head, nxt, own, rk, hd, nx, ow, rw),
           Free \in I, head[Free] # Junk, NULL \notin Nat, Junk \notin Nat
    PROVE  InOrder(I, 0..(q-1), hd, nx, ow, rw)
<1> SUFFICES ASSUME p \in Nat, q \in Nat, p < q,
                    nx = [b \in 0..(q-1) |-> IF b < p THEN nxt[b]
                                             ELSE IF b = p THEN head[Free] ELSE b - 1]
             PROVE  InOrder(I, 0..(q-1), hd, nx, ow, rw)
  BY DEF IsLonger
<1> DEFINE P == 0..(p-1)
           Q == 0..(q-1)
           h2 == [head EXCEPT ![Free] = q - 1]
           o2 == [b \in Q |-> IF b < p THEN own[b] ELSE Free]
           r2 == [b \in Q |-> IF b < p THEN rk[b] + q ELSE q - 1 - b]
<1>1. /\ own \in [P -> I] /\ rk \in [P -> Nat]
      /\ head \in [I -> P \cup {NULL, Junk}] /\ nxt \in [P -> P \cup {NULL}]
  BY DEF InOrder
<1>2. /\ \A i \in I : head[i] \in P => own[head[i]] = i
      /\ \A c \in P : head[own[c]] \in P /\ rk[head[own[c]]] <= rk[c]
  BY DEF InOrder
<1>3. \A x \in P : nxt[x] \in P => own[nxt[x]] = own[x] /\ rk[x] < rk[nxt[x]]
  BY DEF InOrder
<1>4. \A x, c \in P : own[x] = own[c] /\ rk[x] < rk[c]
                        => nxt[x] \in P /\ rk[nxt[x]] <= rk[c]
  BY DEF InOrder
<1>5. \A x, c \in P : own[x] = own[c] /\ rk[x] = rk[c] => x = c
  BY DEF InOrder
<1>6. /\ P \subseteq Q /\ q - 1 \in Q \ P
      /\ \A b \in Q : b \in P <=> b < p
      /\ \A b \in Q \ P : b >= p /\ b <= q - 1 /\ b \in Nat
  OBVIOUS
<1>7. /\ h2[Free] = q - 1 /\ \A i \in I \ {Free} : h2[i] = head[i]
      /\ \A b \in P : o2[b] = own[b]
      /\ \A b \in Q \ P : o2[b] = Free
  BY <1>1, <1>6
<1>70. /\ \A b \in P : nx[b] = nxt[b]
       /\ \A b \in Q \ P : nx[b] = IF b = p THEN head[Free] ELSE b - 1
  BY <1>1, <1>6
<1>71. /\ \A b \in P : r2[b] = rk[b] + q
       /\ \A b \in Q \ P : r2[b] = q - 1 - b
  BY <1>1, <1>6
<1>8. h2 \in [I -> Q \cup {NULL, Junk}]
  BY <1>1, <1>6
<1>9. o2 \in [Q -> I] /\ r2 \in [Q -> Nat]
  <2>1. \A b \in Q : o2[b] \in I /\ r2[b] \in Nat
    BY <1>1, <1>6, <1>7, <1>70, <1>71
  <2> QED BY <2>1
<1>10. nx \in [Q -> Q \cup {NULL}]
  <2>1. \A b \in Q : nx[b] \in Q \cup {NULL}
    BY <1>1, <1>6, <1>7, <1>70, <1>71
  <2> QED BY <2>1
<1> HIDE DEF h2, o2, r2
<1>11. \A i \in I : h2[i] \in Q => o2[h2[i]] = i
  <2> SUFFICES ASSUME NEW i \in I, h2[i] \in Q PROVE o2[h2[i]] = i
    OBVIOUS
  <2>1. CASE i = Free
    BY <2>1, <1>6, <1>7, <1>70, <1>71
  <2>2. CASE i # Free
    <3>1. h2[i] = head[i] /\ head[i] \in P
      BY <2>2, <1>1, <1>6, <1>7, <1>70, <1>71
    <3> QED BY <3>1, <1>2, <1>7, <1>70, <1>71
  <2> QED BY <2>1, <2>2
<1>12. \A c \in Q : h2[o2[c]] \in Q /\ r2[h2[o2[c]]] <= r2[c]
  <2> SUFFICES ASSUME NEW c \in Q PROVE h2[o2[c]] \in Q /\ r2[h2[o2[c]]] <= r2[c]
    OBVIOUS
  <2>1. r2[q-1] = 0 /\ r2[c] \in Nat
    <3>1. q - 1 \in Q \ P /\ q - 1 - (q - 1) = 0
      OBVIOUS
    <3> QED BY <3>1, <1>9, <1>71
  <2>2. CASE o2[c] = Free
    BY <2>1, <2>2, <1>6, <1>7, <1>70, <1>71
  <2>3. CASE o2[c] # Free
    <3>1. c \in P /\ o2[c] = own[c] /\ h2[o2[c]] = head[own[c]]
      BY <2>3, <1>1, <1>7, <1>70, <1>71
    <3>2. head[own[c]] \in P /\ rk[head[own[c]]] <= rk[c]
      BY <3>1, <1>2
    <3> QED BY <3>1, <3>2, <1>1, <1>6, <1>7, <1>70, <1>71
  <2> QED BY <2>2, <2>3
<1>13. \A x \in Q : nx[x] \in Q => o2[nx[x]] = o2[x] /\ r2[x] < r2[nx[x]]
  <2> SUFFICES ASSUME NEW x \in Q, nx[x] \in Q
               PROVE  o2[nx[x]] = o2[x] /\ r2[x] < r2[nx[x]]
    OBVIOUS
  <2>1. CASE x \in P
    <3>1. nx[x] = nxt[x] /\ nxt[x] \in P
      BY <2>1, <1>1, <1>6, <1>7, <1>70, <1>71
    <3> QED BY <2>1, <3>1, <1>1, <1>3, <1>7, <1>70, <1>71
  <2>2. CASE x \notin P /\ x = p
    <3>1. nx[x] = head[Free] /\ head[Free] \in P
      BY <2>2, <1>1, <1>7, <1>70, <1>71
    <3>2. own[head[Free]] = Free /\ rk[head[Free]] \in Nat
      BY <3>1, <1>1, <1>2
    <3>3. r2[head[Free]] = rk[head[Free]] + q /\ r2[x] = q - 1 - p
      BY <2>2, <3>1, <1>7, <1>70, <1>71
    <3> QED BY <2>2, <3>1, <3>2, <3>3, <1>7, <1>70, <1>71
  <2>3. CASE x \notin P /\ x # p
    <3>1. nx[x] = x - 1 /\ x - 1 \in Q \ P /\ x \in Nat
      BY <2>3, <1>6, <1>7, <1>70, <1>71
    <3> QED BY <2>3, <3>1, <1>7, <1>70, <1>71
  <2> QED BY <2>1, <2>2, <2>3
<1>14. \A x, c \in Q : o2[x] = o2[c] /\ r2[x] < r2[c]
                         => nx[x] \in Q /\ r2[nx[x]] <= r2[c]
  <2> SUFFICES ASSUME NEW x \in Q, NEW c \in Q, o2[x] = o2[c], r2[x] < r2[c]
               PROVE  nx[x] \in Q /\ r2[nx[x]] <= r2[c]
    OBVIOUS
  <2>1. CASE x \in P /\ c \in P
    <3>1. nxt[x] \in P /\ rk[nxt[x]] <= rk[c]
      <4>1. own[x] = own[c] /\ rk[x] + q < rk[c] + q
        BY <2>1, <1>7, <1>70, <1>71
      <4>2. rk[x] < rk[c]
        BY <2>1, <4>1, <1>1
      <4> QED BY <2>1, <4>1, <4>2, <1>4
    <3> QED BY <2>1, <3>1, <1>1, <1>6, <1>7, <1>70, <1>71
  <2>2. CASE x \in P /\ c \notin P
    BY <2>2, <1>1, <1>6, <1>7, <1>70, <1>71
  <2>3. CASE x \notin P /\ c \in P /\ x = p
    <3>1. head[Free] \in P /\ rk[head[Free]] <= rk[c]
      <4>1. own[c] = Free
        BY <2>3, <1>7, <1>70, <1>71
      <4> QED BY <2>3, <4>1, <1>2
    <3> QED BY <2>3, <3>1, <1>1, <1>6, <1>7, <1>70, <1>71
  <2>4. CASE x \notin P /\ c \in P /\ x # p
    <3>1. nx[x] = x - 1 /\ x - 1 \in Q \ P /\ x \in Nat
      BY <2>4, <1>6, <1>7, <1>70, <1>71
    <3>2. r2[x - 1] = q - x /\ r2[c] = rk[c] + q /\ rk[c] \in Nat
      BY <2>4, <3>1, <1>1, <1>7, <1>70, <1>71
    <3> QED BY <3>1, <3>2
  <2>5. CASE x \notin P /\ c \notin P
    <3>1. r2[x] = q - 1 - x /\ r2[c] = q - 1 - c /\ c < x /\ p <= c /\ x \in Nat /\ c \in Nat
      BY <2>5, <1>6, <1>7, <1>70, <1>71
    <3>2. nx[x] = x - 1 /\ x - 1 \in Q \ P
      BY <2>5, <3>1, <1>6, <1>7, <1>70, <1>71
    <3> QED BY <3>1, <3>2, <1>7, <1>70, <1>71
  <2> QED BY <2>1, <2>2, <2>3, <2>4, <2>5
<1>15. \A x, c \in Q : o2[x] = o2[c] /\ r2[x] = r2[c] => x = c
  <2> SUFFICES ASSUME NEW x \in Q, NEW c \in Q, o2[x] = o2[c], r2[x] = r2[c]
               PROVE  x = c
    OBVIOUS
  <2>1. CASE x \in P /\ c \in P
    <3>1. own[x] = own[c] /\ rk[x] + q = rk[c] + q
      BY <2>1, <1>7, <1>70, <1>71
    <3>2. rk[x] = rk[c]
      BY <2>1, <3>1, <1>1
    <3> QED BY <2>1, <3>1, <3>2, <1>5
  <2>2. CASE x \in P /\ c \notin P
    BY <2>2, <1>1, <1>6, <1>7, <1>70, <1>71
  <2>3. CASE x \notin P /\ c \in P
    BY <2>3, <1>1, <1>6, <1>7, <1>70, <1>71
  <2>4. CASE x \notin P /\ c \notin P
    BY <2>4, <1>6, <1>7, <1>70, <1>71
  <2> QED BY <2>1, <2>2, <2>3, <2>4
<1>16. InOrder(I, Q, h2, nx, o2, r2)
  BY <1>8, <1>9, <1>10, <1>11, <1>12, <1>13, <1>14, <1>15 DEF InOrder
<1>17. hd = h2 /\ ow = o2 /\ rw = r2
  BY DEF IsLonger, h2, o2, r2
<1> QED BY <1>16, <1>17

----------------------------------------------------------------------------
(* What Chain computes.                                                     *)

\* The bucket before c in its chain.
LEMMA HasPrevious ==
    ASSUME NEW I, NEW D, NEW head, NEW nxt, NEW own, NEW rk,
           InOrder(I, D, head, nxt, own, rk),
           NEW c \in D, head[own[c]] # c
    PROVE  \E p \in D : nxt[p] = c
<1>1. own \in [D -> I] /\ rk \in [D -> Nat] /\ nxt \in [D -> D \cup {NULL}]
  BY DEF InOrder
<1> DEFINE S == { x \in D : own[x] = own[c] /\ rk[x] < rk[c] }
           N == { rk[c] - rk[x] : x \in S }
<1>2. head[own[c]] \in S
  <2>1. head[own[c]] \in D /\ rk[head[own[c]]] <= rk[c] /\ own[head[own[c]]] = own[c]
    BY <1>1 DEF InOrder
  <2>2. rk[head[own[c]]] # rk[c]
    BY <2>1 DEF InOrder
  <2> QED BY <2>1, <2>2, <1>1
<1>3. N \subseteq Nat /\ N # {}
  BY <1>1, <1>2
<1>4. PICK m \in N : \A n \in N : m <= n
  BY <1>3, LeastNatural
<1>5. PICK p \in S : m = rk[c] - rk[p]
  BY <1>4
<1>6. /\ nxt[p] \in D /\ rk[nxt[p]] <= rk[c] /\ rk[p] < rk[nxt[p]]
      /\ own[nxt[p]] = own[c]
  BY <1>5 DEF InOrder
<1>7. ~ (rk[nxt[p]] < rk[c])
  <2> SUFFICES ASSUME rk[nxt[p]] < rk[c] PROVE FALSE
    OBVIOUS
  <2>1. rk[c] - rk[nxt[p]] \in N
    BY <1>6
  <2>2. rk[c] - rk[p] <= rk[c] - rk[nxt[p]]
    BY <2>1, <1>4, <1>5
  <2> QED BY <2>2, <1>1, <1>5, <1>6
<1>8. nxt[p] = c
  <2>1. rk[nxt[p]] = rk[c]
    BY <1>1, <1>6, <1>7
  <2> QED BY <2>1, <1>6 DEF InOrder
<1> QED BY <1>5, <1>8

\* The buckets of Chain(h, b) as a function of the number of links followed.
Walk(D, nxt, f) ==
  [n \in 0..Cardinality(D) |->
     [x \in D \cup {NULL, Junk} |->
        IF n = 0 \/ x \in {NULL, Junk} THEN {} ELSE {x} \cup f[n - 1][nxt[x]]]]

\* The buckets from b on, by their ranks.
From(D, own, rk, b) == { c \in D : own[c] = own[b] /\ rk[b] <= rk[c] }

\* The buckets of the chain of c from x on that come before c.
Before(D, own, rk, x, c) ==
  { y \in D : own[y] = own[c] /\ rk[x] <= rk[y] /\ rk[y] < rk[c] }

\* A walk of n links from x finds the buckets with less than n before them.
Found(D, own, rk) ==
  [n \in 0..Cardinality(D) |->
     [x \in D \cup {NULL, Junk} |->
        IF x \in {NULL, Junk} THEN {}
        ELSE { c \in From(D, own, rk, x) : Cardinality(Before(D, own, rk, x, c)) < n }]]

\* A step along the chain leaves one bucket less before c.
LEMMA OneLess ==
    ASSUME NEW I, NEW D, NEW head, NEW nxt, NEW own, NEW rk,
           InOrder(I, D, head, nxt, own, rk), IsFiniteSet(D),
           NEW x \in D, NEW c \in From(D, own, rk, x), c # x
    PROVE  /\ nxt[x] \in D /\ c \in From(D, own, rk, nxt[x])
           /\ Cardinality(Before(D, own, rk, nxt[x], c)) \in Nat
           /\ Cardinality(Before(D, own, rk, x, c))
                = Cardinality(Before(D, own, rk, nxt[x], c)) + 1
<1>1. own \in [D -> I] /\ rk \in [D -> Nat] /\ nxt \in [D -> D \cup {NULL}]
  BY DEF InOrder
<1>2. own[c] = own[x] /\ rk[x] < rk[c] /\ c \in D
  <2>1. own[c] = own[x] /\ rk[x] <= rk[c] /\ c \in D
    BY DEF From
  <2>2. rk[x] # rk[c]
    BY <2>1 DEF InOrder
  <2> QED BY <2>1, <2>2, <1>1
<1>3. nxt[x] \in D /\ rk[nxt[x]] <= rk[c]
  BY <1>2 DEF InOrder
<1>4. own[nxt[x]] = own[x] /\ rk[x] < rk[nxt[x]]
  BY <1>3 DEF InOrder
<1>5. \A y \in D : own[y] = own[x] /\ rk[x] < rk[y] => rk[nxt[x]] <= rk[y]
  BY DEF InOrder
<1>6. \A y \in D : own[y] = own[x] /\ rk[x] = rk[y] => x = y
  BY DEF InOrder
<1> DEFINE S == Before(D, own, rk, nxt[x], c)
           T == Before(D, own, rk, x, c)
<1>7. T = S \cup {x}
  <2>1. ASSUME NEW y \in T PROVE y \in S \cup {x}
    <3>1. y \in D /\ own[y] = own[x] /\ rk[x] <= rk[y] /\ rk[y] < rk[c]
      BY <1>2 DEF Before
    <3>2. CASE y # x
      <4>1. rk[x] # rk[y]
        BY <3>1, <3>2, <1>6
      <4>2. rk[nxt[x]] <= rk[y]
        BY <4>1, <3>1, <1>1, <1>5
      <4> QED BY <4>2, <3>1, <1>2 DEF Before
    <3> QED BY <3>2
  <2>2. ASSUME NEW y \in S PROVE y \in T
    <3>1. y \in D /\ own[y] = own[c] /\ rk[nxt[x]] <= rk[y] /\ rk[y] < rk[c]
      BY DEF Before
    <3>2. rk[x] <= rk[y]
      BY <3>1, <1>1, <1>3, <1>4
    <3> QED BY <3>1, <3>2 DEF Before
  <2>3. x \in T
    BY <1>1, <1>2 DEF Before
  <2> QED BY <2>1, <2>2, <2>3
<1>8. x \notin S
  <2> SUFFICES ASSUME x \in S PROVE FALSE
    OBVIOUS
  <2>1. rk[nxt[x]] <= rk[x]
    BY DEF Before
  <2> QED BY <2>1, <1>1, <1>3, <1>4
<1>9. IsFiniteSet(S)
  <2>1. S \in SUBSET D
    BY DEF Before
  <2> HIDE DEF S
  <2> QED BY <2>1, FS_Subset
<1> HIDE DEF S, T
<1>10. Cardinality(S) \in Nat /\ Cardinality(T) = Cardinality(S) + 1
  BY <1>7, <1>8, <1>9, FS_AddElement, FS_CardinalityType
<1>11. c \in From(D, own, rk, nxt[x])
  BY <1>2, <1>3, <1>4 DEF From
<1> QED BY <1>3, <1>10, <1>11 DEF S, T

\* Found is a solution of the equation that defines the walk, which therefore
\* has one.
LEMMA FoundIsWalk ==
    ASSUME NEW I, NEW D, NEW head, NEW nxt, NEW own, NEW rk,
           InOrder(I, D, head, nxt, own, rk), IsFiniteSet(D),
           NULL \notin D, Junk \notin D
    PROVE  Found(D, own, rk) = Walk(D, nxt, Found(D, own, rk))
<1> DEFINE F == Found(D, own, rk)
           N == 0..Cardinality(D)
           X == D \cup {NULL, Junk}
           G(n, x) == IF n = 0 \/ x \in {NULL, Junk} THEN {} ELSE {x} \cup F[n - 1][nxt[x]]
<1>1. own \in [D -> I] /\ rk \in [D -> Nat] /\ nxt \in [D -> D \cup {NULL}]
  BY DEF InOrder
<1>2. Cardinality(D) \in Nat
  BY FS_CardinalityType
<1>3. /\ \A n \in N : \A x \in {NULL, Junk} : F[n][x] = {}
      /\ \A n \in N : \A x \in D : F[n][x] =
           { c \in From(D, own, rk, x) : Cardinality(Before(D, own, rk, x, c)) < n }
      /\ F = [n \in N |-> [x \in X |-> F[n][x]]]
  BY DEF Found
<1>4. \A x \in D : \A c \in From(D, own, rk, x) :
        Cardinality(Before(D, own, rk, x, c)) \in Nat
  <2> SUFFICES ASSUME NEW x \in D, NEW c \in From(D, own, rk, x)
               PROVE  Cardinality(Before(D, own, rk, x, c)) \in Nat
    OBVIOUS
  <2>1. Before(D, own, rk, x, c) \in SUBSET D
    BY DEF Before
  <2> QED BY <2>1, FS_Subset, FS_CardinalityType
<1> HIDE DEF F
<1>5. ASSUME NEW n \in N, NEW x \in X PROVE F[n][x] = G(n, x)
  <2>1. CASE x \in {NULL, Junk}
    BY <2>1, <1>3
  <2>2. CASE n = 0 /\ x \in D
    BY <2>2, <1>3, <1>4
  <2>3. CASE n # 0 /\ x \in D
    <3>1. n - 1 \in N /\ n - 1 \in Nat /\ n \in Nat
      BY <2>3, <1>2
    <3>2. G(n, x) = {x} \cup F[n-1][nxt[x]]
      BY <2>3
    <3>3. x \in F[n][x]
      <4>1. x \in From(D, own, rk, x)
        BY <2>3, <1>1 DEF From
      <4>2. Before(D, own, rk, x, x) = {}
        BY <2>3, <1>1 DEF Before
      <4>3. Cardinality(Before(D, own, rk, x, x)) = 0
        BY <4>2, FS_EmptySet
      <4> QED BY <2>3, <3>1, <4>1, <4>3, <1>3
    <3>4. ASSUME NEW c, c # x PROVE c \in F[n][x] <=> c \in F[n-1][nxt[x]]
      <4>1. ASSUME c \in F[n][x] PROVE c \in F[n-1][nxt[x]]
        <5>1. c \in From(D, own, rk, x) /\ Cardinality(Before(D, own, rk, x, c)) < n
          BY <4>1, <2>3, <1>3
        <5>2. /\ nxt[x] \in D /\ c \in From(D, own, rk, nxt[x])
              /\ Cardinality(Before(D, own, rk, nxt[x], c)) \in Nat
              /\ Cardinality(Before(D, own, rk, x, c))
                   = Cardinality(Before(D, own, rk, nxt[x], c)) + 1
          BY <5>1, <3>4, <2>3, OneLess
        <5>3. Cardinality(Before(D, own, rk, nxt[x], c)) < n - 1
          BY <5>1, <5>2, <3>1
        <5> QED BY <5>2, <5>3, <3>1, <1>3
      <4>2. ASSUME c \in F[n-1][nxt[x]] PROVE c \in F[n][x]
        <5>1. nxt[x] \in D
          BY <4>2, <2>3, <3>1, <1>1, <1>3
        <5>2. /\ c \in From(D, own, rk, nxt[x])
              /\ Cardinality(Before(D, own, rk, nxt[x], c)) < n - 1
          BY <4>2, <5>1, <3>1, <1>3
        <5>3. c \in From(D, own, rk, x)
          <6>1. own[nxt[x]] = own[x] /\ rk[x] < rk[nxt[x]]
            BY <5>1, <2>3 DEF InOrder
          <6>2. c \in D /\ own[c] = own[nxt[x]] /\ rk[nxt[x]] <= rk[c]
            BY <5>2 DEF From
          <6>3. rk[x] <= rk[c]
            BY <6>1, <6>2, <5>1, <2>3, <1>1
          <6> QED BY <6>1, <6>2, <6>3 DEF From
        <5>4. /\ Cardinality(Before(D, own, rk, nxt[x], c)) \in Nat
              /\ Cardinality(Before(D, own, rk, x, c))
                   = Cardinality(Before(D, own, rk, nxt[x], c)) + 1
          BY <5>3, <3>4, <2>3, OneLess
        <5>5. Cardinality(Before(D, own, rk, x, c)) < n
          BY <5>2, <5>4, <3>1
        <5> QED BY <5>3, <5>5, <2>3, <1>3
      <4> QED BY <4>1, <4>2
    <3> QED BY <3>2, <3>3, <3>4
  <2> QED BY <2>1, <2>2, <2>3
<1>6. F = [n \in N |-> [x \in X |-> G(n, x)]]
  <2> HIDE DEF G
  <2> QED BY <1>3, <1>5
<1> QED BY <1>6 DEF Walk, F

\* The equation has no other solution.
LEMMA WalkUnique ==
    ASSUME NEW D, IsFiniteSet(D), NEW nxt \in [D -> D \cup {NULL}],
           NULL \notin D, Junk \notin D,
           NEW f, f = Walk(D, nxt, f), NEW g, g = Walk(D, nxt, g)
    PROVE  f = g
<1> DEFINE N == 0..Cardinality(D)
           X == D \cup {NULL, Junk}
           Bad == { n \in N : f[n] # g[n] }
           E(n, u) == [x \in X |-> IF n = 0 \/ x \in {NULL, Junk} THEN {}
                                   ELSE {x} \cup u[nxt[x]]]
<1>1. Cardinality(D) \in Nat
  BY FS_CardinalityType
<1>2. /\ f = [n \in N |-> [x \in X |-> IF n = 0 \/ x \in {NULL, Junk} THEN {}
                                       ELSE {x} \cup f[n-1][nxt[x]]]]
      /\ g = [n \in N |-> [x \in X |-> IF n = 0 \/ x \in {NULL, Junk} THEN {}
                                       ELSE {x} \cup g[n-1][nxt[x]]]]
  BY DEF Walk
<1>3. /\ \A n \in N : f[n] = E(n, f[n-1])
      /\ \A n \in N : g[n] = E(n, g[n-1])
  BY <1>2
<1>30. \A u, v : E(0, u) = E(0, v)
  OBVIOUS
<1>4. ASSUME Bad # {} PROVE FALSE
  <2>1. Bad \subseteq Nat
    OBVIOUS
  <2>2. PICK n \in Bad : \A m \in Bad : n <= m
    BY <2>1, <1>4, LeastNatural
  <2>3. CASE n = 0
    <3> HIDE DEF E
    <3>1. f[0] = E(0, f[0-1]) /\ g[0] = E(0, g[0-1])
      BY <2>3, <1>3
    <3>2. E(0, f[0-1]) = E(0, g[0-1])
      BY <1>30
    <3> QED BY <2>2, <2>3, <3>1, <3>2
  <2>4. CASE n # 0
    <3>1. n - 1 \in N /\ n - 1 \notin Bad
      BY <2>2, <2>4, <1>1
    <3>2. f[n-1] = g[n-1] /\ n \in N
      BY <3>1
    <3> HIDE DEF E, Bad
    <3>3. f[n] = g[n]
      BY <3>2, <1>3
    <3> QED BY <3>3, <2>2 DEF Bad
  <2> QED BY <2>3, <2>4
<1>5. \A n \in N : f[n] = g[n]
  BY <1>4
<1>6. f = [n \in N |-> f[n]] /\ g = [n \in N |-> g[n]]
  BY <1>2
<1> QED BY <1>5, <1>6, Zenon

Nexts(h) == [b \in DOMAIN h.pool |-> h.pool[b].next]

\* The pool of h is linked as own and rk say.
WellLinked(h, own, rk) ==
  /\ IsFiniteSet(DOMAIN h.pool) /\ NULL \notin DOMAIN h.pool /\ Junk \notin DOMAIN h.pool
  /\ \E I, head : InOrder(I, DOMAIN h.pool, head, Nexts(h), own, rk)

FoundFrom(h, own, rk, b) ==
  Found(DOMAIN h.pool, own, rk)[Cardinality(DOMAIN h.pool)][b]

\* The chain from b on is given by the ranks.
LEMMA ChainIsFound ==
    ASSUME NEW h, NEW own, NEW rk, WellLinked(h, own, rk),
           NEW b
    PROVE  Chain(h, b) = FoundFrom(h, own, rk, b)
<1> DEFINE D == DOMAIN h.pool
           nxt == Nexts(h)
           Eq(f) == [n \in 0..Cardinality(DOMAIN h.pool) |->
                       [x \in DOMAIN h.pool \cup {NULL, Junk} |->
                          IF n = 0 \/ x \in {NULL, Junk} THEN {}
                          ELSE {x} \cup f[n - 1][h.pool[x].next]]]
           g == CHOOSE f : f = Eq(f)
<1>0. IsFiniteSet(D) /\ NULL \notin D /\ Junk \notin D
  BY DEF WellLinked
<1>00. PICK I, head : InOrder(I, D, head, nxt, own, rk)
  BY DEF WellLinked
<1>1. Chain(h, b) = g[Cardinality(DOMAIN h.pool)][b]
  BY DEF Chain
<1>2. \A f : Walk(D, nxt, f) = Eq(f)
  BY DEF Walk, Nexts
<1>3. Found(D, own, rk) = Walk(D, nxt, Found(D, own, rk))
  BY <1>0, <1>00, FoundIsWalk
<1>4. g = Eq(g)
  <2> HIDE DEF Eq
  <2>1. Found(D, own, rk) = Eq(Found(D, own, rk))
    BY <1>2, <1>3
  <2> QED BY <2>1
<1> HIDE DEF g, Eq
<1>40. g = Walk(D, nxt, g)
  BY <1>2, <1>4
<1>5. nxt \in [D -> D \cup {NULL}]
  BY <1>00 DEF InOrder
<1>6. g = Found(D, own, rk)
  BY <1>0, <1>3, <1>40, <1>5, WalkUnique
<1> QED BY <1>1, <1>6 DEF FoundFrom

\* No bucket of a chain has as many before it as there are buckets.
LEMMA FewBefore ==
    ASSUME NEW D, IsFiniteSet(D), NEW own, NEW rk \in [D -> Nat],
           NEW b, NEW c \in D
    PROVE  Cardinality(Before(D, own, rk, b, c)) < Cardinality(D)
<1> DEFINE S == Before(D, own, rk, b, c)
<1>1. S \in SUBSET D /\ c \notin S
  BY DEF Before
<1> HIDE DEF S
<1>2. /\ Cardinality(S) \in Nat /\ Cardinality(S) <= Cardinality(D) /\ S # D
      /\ Cardinality(D) \in Nat
  BY <1>1, FS_Subset, FS_CardinalityType
<1>3. Cardinality(S) # Cardinality(D)
  BY <1>1, <1>2, FS_Subset
<1> QED BY <1>2, <1>3 DEF S

LEMMA ChainIsFrom ==
    ASSUME NEW h, NEW own, NEW rk, WellLinked(h, own, rk),
           NEW b \in DOMAIN h.pool
    PROVE  Chain(h, b) = From(DOMAIN h.pool, own, rk, b)
<1> DEFINE D == DOMAIN h.pool
<1>1. Chain(h, b) = { c \in From(D, own, rk, b) :
                        Cardinality(Before(D, own, rk, b, c)) < Cardinality(D) }
  <2>1. Chain(h, b) = FoundFrom(h, own, rk, b)
    BY ChainIsFound
  <2>2. Cardinality(D) \in 0..Cardinality(D)
    BY FS_CardinalityType DEF WellLinked
  <2>3. b \notin {NULL, Junk}
    BY DEF WellLinked
  <2>4. FoundFrom(h, own, rk, b) =
          { c \in From(D, own, rk, b) :
              Cardinality(Before(D, own, rk, b, c)) < Cardinality(D) }
    BY <2>2, <2>3 DEF Found, FoundFrom
  <2> QED BY <2>1, <2>4
<1>2. IsFiniteSet(D) /\ rk \in [D -> Nat] /\ \A c \in From(D, own, rk, b) : c \in D
  BY DEF WellLinked, InOrder, From
<1>3. \A c \in From(D, own, rk, b) : Cardinality(Before(D, own, rk, b, c)) < Cardinality(D)
  BY <1>2, FewBefore
<1> QED BY <1>1, <1>3

LEMMA ChainOfNone ==
    ASSUME NEW h, NEW own, NEW rk, WellLinked(h, own, rk),
           NEW b \in {NULL, Junk}
    PROVE  Chain(h, b) = {}
<1> DEFINE D == DOMAIN h.pool
<1>1. Chain(h, b) = FoundFrom(h, own, rk, b)
  BY ChainIsFound
<1>2. Cardinality(D) \in 0..Cardinality(D)
  BY FS_CardinalityType DEF WellLinked
<1> QED BY <1>1, <1>2 DEF Found, FoundFrom

----------------------------------------------------------------------------
(* A hash with its order: w.own and w.rk are the owners and the ranks of its  *)
(* buckets.                                                                   *)

Heads(h) == [i \in {Free} \cup DOMAIN h.table |->
               IF i = Free THEN h.free_list ELSE h.table[i]]
Ordered(h, w) ==
  InOrder({Free} \cup DOMAIN h.table, DOMAIN h.pool, Heads(h), Nexts(h), w.own, w.rk)

\* The buckets that are in the table.
Used(w) == { b \in DOMAIN w.own : w.own[b] # Free }

Bucket(P) == [key : Keys \cup {Junk}, value : Values \cup {Junk},
              next : 0..(P-1) \cup {NULL}]

\* Hashes with a table of length T and a pool of P buckets.
HashRec(T, P) ==
  [max_chain : Int, entries : Nat, free_list : 0..(P-1) \cup {NULL}, seed : Seeds,
   key_type : {"ascii", "utf8"}, table : [0..(T-1) -> 0..(P-1) \cup {NULL, Junk}],
   pool : [0..(P-1) -> Bucket(P)]]

HashOK(h, w, T, P) ==
  /\ T \in Nat /\ P \in Nat /\ h \in HashRec(T, P) /\ Ordered(h, w)
  /\ \A b \in Used(w) : h.pool[b].key \in Keys /\ h.pool[b].value \in Values
  /\ \A b, c \in Used(w) : h.pool[b].key = h.pool[c].key => b = c

\* A used bucket is in the chain of its key: S are those that a growing hash
\* has given their new home.
Homes(h, w, S) ==
  \A b \in Used(w) :
    w.own[b] = HashVal[h.seed][h.pool[b].key]
                 % (IF b \in S THEN Grown(h) ELSE h.max_chain + 1)

\* N_BUCKETS
Buckets(n) == (n * MAXFULL_PERCENT) \div 100

\* A size of a hash that has been expanded, or of a new one.
SizeOK(h) ==
  \/ h.max_chain = -1
  \/ h.max_chain \in Nat /\ (h.max_chain + 1) * MAXFULL_PERCENT >= 100

\* The table is reallocated first, then the pool.
TableSize(h, ph) == IF ph \in {"grow_pool", "move"} THEN Grown(h) ELSE h.max_chain + 1
PoolSize(h, ph) == Buckets(IF ph = "move" THEN Grown(h) ELSE h.max_chain + 1)

\* In phase ph of growing ("stable" if it does not grow), with p entries counted
\* that have no bucket yet.
Good(h, w, ph, S, p) ==
  /\ HashOK(h, w, TableSize(h, ph), PoolSize(h, ph))
  /\ Homes(h, w, S)
  /\ \A i \in DOMAIN h.table : h.table[i] = Junk => ph = "grow_pool" /\ i > h.max_chain
  /\ SizeOK(h) /\ (ph = "stable" => h.max_chain # -1)
  /\ h.entries = Cardinality(Used(w)) + p

\* What the ranks say about the fields of a hash.
LEMMA OrderedFacts ==
    ASSUME NEW h, NEW w, NEW T, NEW P, HashOK(h, w, T, P)
    PROVE  /\ DOMAIN h.pool = 0..(P-1) /\ DOMAIN h.table = 0..(T-1)
           /\ T \in Nat /\ P \in Nat
           /\ w.own \in [0..(P-1) -> {Free} \cup 0..(T-1)] /\ w.rk \in [0..(P-1) -> Nat]
           /\ \A i \in 0..(T-1) : h.table[i] \in 0..(P-1) => w.own[h.table[i]] = i
           /\ h.free_list \in 0..(P-1) => w.own[h.free_list] = Free
           /\ Used(w) = { b \in 0..(P-1) : w.own[b] \in 0..(T-1) }
           /\ IsFiniteSet(Used(w)) /\ IsFiniteSet(DOMAIN h.pool)
           /\ NULL \notin 0..(P-1) /\ Junk \notin 0..(P-1) /\ Free \notin 0..(T-1)
<1>1. h \in HashRec(T, P) /\ Ordered(h, w) /\ T \in Nat /\ P \in Nat
  BY DEF HashOK
<1>2. DOMAIN h.pool = 0..(P-1) /\ DOMAIN h.table = 0..(T-1)
  BY <1>1 DEF HashRec
<1>3. NULL \notin 0..(P-1) /\ Junk \notin 0..(P-1) /\ Free \notin 0..(T-1)
  BY HashAssumption DEF Free
<1>4. w.own \in [0..(P-1) -> {Free} \cup 0..(T-1)] /\ w.rk \in [0..(P-1) -> Nat]
  BY <1>1, <1>2 DEF Ordered, InOrder
<1>5. Used(w) = { b \in 0..(P-1) : w.own[b] \in 0..(T-1) }
  BY <1>3, <1>4 DEF Used
<1>6. IsFiniteSet(0..(P-1))
  BY <1>1, FS_Interval
<1>7. IsFiniteSet(Used(w))
  <2>1. Used(w) \in SUBSET (0..(P-1))
    BY <1>5
  <2> QED BY <2>1, <1>6, FS_Subset
<1>8. \A i \in {Free} \cup 0..(T-1) : Heads(h)[i] \in 0..(P-1) => w.own[Heads(h)[i]] = i
  BY <1>1, <1>2 DEF Ordered, InOrder
<1>9. /\ Heads(h)[Free] = h.free_list
      /\ \A i \in 0..(T-1) : Heads(h)[i] = h.table[i]
  BY <1>2, <1>3 DEF Heads
<1> QED BY <1>1, <1>2, <1>3, <1>4, <1>5, <1>6, <1>7, <1>8, <1>9

\* The chains in terms of owners and ranks.
LEMMA ChainFacts ==
    ASSUME NEW h, NEW w, NEW T, NEW P, HashOK(h, w, T, P)
    PROVE  /\ \A b \in 0..(P-1) : Chain(h, b) = From(0..(P-1), w.own, w.rk, b)
           /\ \A i \in 0..(T-1) : Chain(h, h.table[i]) = { b \in 0..(P-1) : w.own[b] = i }
           /\ Chain(h, h.free_list) = { b \in 0..(P-1) : w.own[b] = Free }
           /\ Chain(h, NULL) = {}
           /\ UNION Chains(h) = Used(w)
           /\ KeysOf(h) = { h.pool[b].key : b \in Used(w) }
<1> DEFINE D == 0..(P-1)
           I == {Free} \cup 0..(T-1)
<1>1. /\ DOMAIN h.pool = D /\ DOMAIN h.table = 0..(T-1)
      /\ NULL \notin D /\ Junk \notin D /\ Free \notin 0..(T-1) /\ IsFiniteSet(DOMAIN h.pool)
      /\ Used(w) = { b \in D : w.own[b] \in 0..(T-1) }
      /\ w.own \in [D -> I] /\ w.rk \in [D -> Nat]
  BY OrderedFacts
<1>2. InOrder(I, D, Heads(h), Nexts(h), w.own, w.rk)
  BY <1>1 DEF HashOK, Ordered
<1>3. /\ Chain(h, NULL) = {} /\ Chain(h, Junk) = {}
      /\ \A b \in D : Chain(h, b) = From(D, w.own, w.rk, b)
  <2>1. InOrder(I, DOMAIN h.pool, Heads(h), Nexts(h), w.own, w.rk)
    BY <1>1, <1>2
  <2>3. IsFiniteSet(DOMAIN h.pool) /\ NULL \notin DOMAIN h.pool /\ Junk \notin DOMAIN h.pool
    BY <1>1
  <2> HIDE DEF I, D
  <2>4. WellLinked(h, w.own, w.rk)
    BY <2>1, <2>3 DEF WellLinked
  <2> QED BY <1>1, <2>4, ChainIsFrom, ChainOfNone DEF D
<1>4. ASSUME NEW i \in I
      PROVE  Chain(h, Heads(h)[i]) = { b \in D : w.own[b] = i }
  <2>1. Heads(h)[i] \in D \cup {NULL, Junk}
    BY <1>2 DEF InOrder
  <2>2. CASE Heads(h)[i] \in {NULL, Junk}
    <3>1. \A b \in D : w.own[b] # i
      <4> SUFFICES ASSUME NEW b \in D, w.own[b] = i PROVE FALSE
        OBVIOUS
      <4>1. Heads(h)[w.own[b]] \in D
        BY <1>2 DEF InOrder
      <4> QED BY <4>1, <2>2, <1>1
    <3> QED BY <2>2, <3>1, <1>3
  <2>3. CASE Heads(h)[i] \in D
    <3>1. Chain(h, Heads(h)[i]) = From(D, w.own, w.rk, Heads(h)[i])
      BY <2>3, <1>3
    <3>2. w.own[Heads(h)[i]] = i
      BY <2>3, <1>2 DEF InOrder
    <3>3. \A c \in D : w.own[c] = i => w.rk[Heads(h)[i]] <= w.rk[c]
      BY <1>2 DEF InOrder
    <3> QED BY <3>1, <3>2, <3>3 DEF From
  <2> QED BY <2>1, <2>2, <2>3
<1>5. /\ Heads(h)[Free] = h.free_list
      /\ \A i \in 0..(T-1) : Heads(h)[i] = h.table[i]
  BY <1>1 DEF Heads
<1>6. \A i \in 0..(T-1) : Chain(h, h.table[i]) = { b \in D : w.own[b] = i }
  BY <1>4, <1>5
<1>7. Chain(h, h.free_list) = { b \in D : w.own[b] = Free }
  BY <1>4, <1>5
<1>8. UNION Chains(h) = Used(w)
  BY <1>1, <1>6 DEF Chains
<1>9. KeysOf(h) = { h.pool[b].key : b \in Used(w) }
  BY <1>8 DEF KeysOf
<1> QED BY <1>3, <1>6, <1>7, <1>8, <1>9

\* The bucket with key k.
LEMMA FindBucket ==
    ASSUME NEW h, NEW w, NEW T, NEW P, HashOK(h, w, T, P),
           T = h.max_chain + 1, T > 0, Homes(h, w, {}), NEW k \in Keys
    PROVE  /\ Slot(h, k) \in 0..(T-1)
           /\ \/ /\ find_bucket(h, k) \in Used(w) /\ h.pool[find_bucket(h, k)].key = k
                 /\ w.own[find_bucket(h, k)] = Slot(h, k) /\ find_bucket(h, k) # NULL
                 /\ k \in KeysOf(h)
              \/ find_bucket(h, k) = NULL /\ k \notin KeysOf(h)
<1> DEFINE D == 0..(P-1)
           hits == { b \in Chain(h, h.table[Slot(h, k)]) : h.pool[b].key = k }
<1>1. /\ DOMAIN h.pool = D /\ DOMAIN h.table = 0..(T-1) /\ T \in Nat
      /\ Used(w) = { b \in D : w.own[b] \in 0..(T-1) }
      /\ NULL \notin D
      /\ w.own \in [D -> {Free} \cup 0..(T-1)] /\ w.rk \in [D -> Nat]
  BY OrderedFacts
<1>2. h.seed \in Seeds
  BY DEF HashOK, HashRec
<1>3. HashVal[h.seed][k] \in Nat
  BY <1>2, HashAssumption
<1>4. Slot(h, k) \in 0..(T-1)
  BY <1>1, <1>3 DEF Slot
<1>5. Chain(h, h.table[Slot(h, k)]) = { b \in D : w.own[b] = Slot(h, k) }
  BY <1>4, ChainFacts
<1>6. \A b : b \in hits <=> b \in Used(w) /\ h.pool[b].key = k
  <2>1. \A b \in Used(w) : h.pool[b].key = k => w.own[b] = Slot(h, k)
    BY DEF Homes, Slot
  <2> QED BY <2>1, <1>1, <1>4, <1>5
<1>7. \A b, c \in hits : b = c
  BY <1>6 DEF HashOK
<1>8. k \in KeysOf(h) <=> hits # {}
  <2>1. KeysOf(h) = { h.pool[b].key : b \in Used(w) }
    BY ChainFacts
  <2> HIDE DEF hits
  <2> QED BY <2>1, <1>6
<1>9. CASE hits = {}
  BY <1>4, <1>8, <1>9 DEF find_bucket
<1>10. CASE hits # {}
  <2>1. PICK b : b \in hits
    BY <1>10
  <2>2. hits = {b} /\ b \in D /\ b \in Used(w) /\ h.pool[b].key = k /\ w.own[b] = Slot(h, k)
    <3> HIDE DEF hits
    <3>1. b \in D /\ b \in Used(w) /\ h.pool[b].key = k
      BY <2>1, <1>1, <1>6
    <3>2. w.own[b] = Slot(h, k)
      BY <3>1 DEF Homes, Slot
    <3> QED BY <2>1, <3>1, <3>2, <1>7
  <2>3. hits \subseteq Chain(h, b)
    <3>1. Chain(h, b) = From(D, w.own, w.rk, b)
      BY <2>2, ChainFacts
    <3>2. b \in Chain(h, b)
      <4>1. w.rk[b] <= w.rk[b]
        <5> HIDE DEF hits
        <5>1. b \in D /\ w.rk[b] \in Nat
          BY <2>2, <1>1
        <5> QED BY <5>1
      <4> QED BY <2>2, <3>1, <4>1 DEF From
    <3> HIDE DEF hits
    <3> QED BY <2>2, <3>2
  <2>4. find_bucket(h, k) = CHOOSE x \in hits : hits \subseteq Chain(h, x)
    BY <1>10 DEF find_bucket
  <2>5. find_bucket(h, k) = b
    <3> HIDE DEF hits
    <3> QED BY <2>1, <2>2, <2>3, <2>4
  <2> HIDE DEF hits
  <2> QED BY <1>1, <1>4, <1>8, <1>10, <2>2, <2>5
<1> QED BY <1>9, <1>10

----------------------------------------------------------------------------
(* The sizes of a growing hash.                                             *)

LEMMA Remainder ==
    ASSUME NEW d \in Nat, d > 0, NEW q \in Nat, NEW r \in 0..(d-1)
    PROVE  (d * q + r) % d = r
OBVIOUS

\* The new home of a key is the old one, or that one in the new half.
LEMMA TwiceTheSize ==
    ASSUME NEW x \in Nat, NEW m \in Nat, m > 0
    PROVE  /\ x % m \in 0..(m-1) /\ x % (2 * m) \in 0..(2*m-1)
           /\ x % (2 * m) = x % m \/ x % (2 * m) = (x % m) + m
<1> DEFINE q == x \div m
           r == x % m
           p == q \div 2
<1>1. x = m * q + r /\ r \in 0..(m-1) /\ q \in Nat
  OBVIOUS
<1>2. p \in Nat /\ (q = 2 * p \/ q = 2 * p + 1)
  BY <1>1
<1>3. m * (2 * p) = (2 * m) * p /\ m * (2 * p + 1) = (2 * m) * p + m
  BY <1>2
<1> HIDE DEF q, r, p
<1>4. CASE q = 2 * p
  <2>1. x = (2 * m) * p + r /\ r \in 0..(2 * m - 1) /\ 2 * m \in Nat /\ 2 * m > 0
    BY <1>1, <1>3, <1>4
  <2>2. x % (2 * m) = r
    BY <2>1, <1>2, Remainder
  <2> QED BY <2>1, <2>2, <1>1 DEF r
<1>5. CASE q = 2 * p + 1
  <2>1. x = (2 * m) * p + (r + m) /\ r + m \in 0..(2 * m - 1) /\ 2 * m \in Nat /\ 2 * m > 0
    <3>1. (2 * m) * p \in Int
      BY <1>2
    <3> QED BY <3>1, <1>1, <1>3, <1>5
  <2>2. x % (2 * m) = r + m
    BY <2>1, <1>2, Remainder
  <2> QED BY <2>1, <2>2, <1>1 DEF r
<1> QED BY <1>2, <1>4, <1>5

LEMMA MoreBuckets ==
    ASSUME NEW s \in Nat, s * MAXFULL_PERCENT >= 100
    PROVE  /\ Buckets(s) \in Nat /\ Buckets(s) >= 1 /\ Buckets(2 * s) \in Nat
           /\ Buckets(2 * s) > Buckets(s) /\ (2 * s) * MAXFULL_PERCENT >= 100
<1>1. MAXFULL_PERCENT \in Nat
  BY HashAssumption
<1> DEFINE a == s * MAXFULL_PERCENT
<1>2. a \in Nat /\ a >= 100 /\ (2 * s) * MAXFULL_PERCENT = 2 * a
  BY <1>1
<1>3. Buckets(s) = a \div 100 /\ Buckets(2 * s) = (2 * a) \div 100
  BY <1>2 DEF Buckets
<1> HIDE DEF a
<1> QED BY <1>2, <1>3

\* Growing adds slots and buckets.
LEMMA Sizes ==
    ASSUME NEW h, SizeOK(h)
    PROVE  /\ h.max_chain \in Int /\ h.max_chain + 1 \in Nat
           /\ Grown(h) \in Nat /\ Grown(h) > h.max_chain + 1
           /\ Grown(h) * MAXFULL_PERCENT >= 100
           /\ Buckets(h.max_chain + 1) \in Nat /\ Buckets(Grown(h)) \in Nat
           /\ Buckets(h.max_chain + 1) < Buckets(Grown(h))
           /\ h.max_chain # -1 => Grown(h) = 2 * (h.max_chain + 1)
<1>1. CASE h.max_chain = -1
  <2>1. Grown(h) = INITIAL_BUCKETS /\ INITIAL_BUCKETS \in Nat /\ h.max_chain + 1 = 0
    BY <1>1, HashAssumption DEF Grown
  <2>2. INITIAL_BUCKETS * MAXFULL_PERCENT >= 100
    BY HashAssumption
  <2>3. INITIAL_BUCKETS > 0 /\ Buckets(0) = 0
    BY <2>1, <2>2, HashAssumption DEF Buckets
  <2>4. Buckets(INITIAL_BUCKETS) \in Nat /\ Buckets(INITIAL_BUCKETS) >= 1
    BY <2>1, <2>2, MoreBuckets
  <2> QED BY <1>1, <2>1, <2>2, <2>3, <2>4
<1>2. CASE h.max_chain \in Nat /\ (h.max_chain + 1) * MAXFULL_PERCENT >= 100
  <2>1. Grown(h) = 2 * (h.max_chain + 1)
    BY <1>2 DEF Grown
  <2> QED BY <1>2, <2>1, MoreBuckets
<1> QED BY <1>1, <1>2 DEF SizeOK

----------------------------------------------------------------------------
(* What the operations do to a hash and its order.                          *)

\* The owners and ranks when b goes to the front of chain j.
Shift(h, w, b, j) ==
  [own |-> [w.own EXCEPT ![b] = j], rk |-> InFront(DOMAIN h.pool, w.rk, b)]

\* A bucket leaves its chain for the front of chain j.
LEMMA OrderedMove ==
    ASSUME NEW h, NEW w, NEW T, NEW P, HashOK(h, w, T, P),
           NEW h2 \in HashRec(T, P), NEW b \in 0..(P-1),
           NEW j \in {Free} \cup 0..(T-1), j # w.own[b], Heads(h)[j] # Junk,
           NEW hd, NEW nx, IsCut(0..(P-1), Heads(h), Nexts(h), w.own, b, hd, nx),
           Heads(h2) = [hd EXCEPT ![j] = b], Nexts(h2) = [nx EXCEPT ![b] = hd[j]]
    PROVE  /\ Ordered(h2, Shift(h, w, b, j))
           /\ Used(Shift(h, w, b, j)) = IF j = Free THEN Used(w) \ {b} ELSE Used(w) \cup {b}
           /\ Shift(h, w, b, j).own = [w.own EXCEPT ![b] = j]
           /\ \A x, y \in 0..(P-1) \ {b} :
                Shift(h, w, b, j).rk[x] <= Shift(h, w, b, j).rk[y] <=> w.rk[x] <= w.rk[y]
           /\ \A x \in 0..(P-1) \ {b} : Shift(h, w, b, j).rk[b] < Shift(h, w, b, j).rk[x]
<1> DEFINE D == 0..(P-1)
           I == {Free} \cup 0..(T-1)
           w2 == Shift(h, w, b, j)
<1>1. /\ DOMAIN h.pool = D /\ DOMAIN h.table = 0..(T-1) /\ T \in Nat /\ P \in Nat
      /\ NULL \notin D /\ Junk \notin D /\ Free \notin 0..(T-1)
      /\ w.own \in [D -> I] /\ w.rk \in [D -> Nat]
  BY OrderedFacts
<1>2. InOrder(I, D, Heads(h), Nexts(h), w.own, w.rk)
  BY <1>1 DEF HashOK, Ordered
<1>3. w2.own = [w.own EXCEPT ![b] = j] /\ w2.rk = InFront(D, w.rk, b)
  BY <1>1 DEF Shift
<1>4. DOMAIN h2.pool = D /\ DOMAIN h2.table = 0..(T-1)
  BY DEF HashRec
<1> HIDE DEF w2
<1>5. Ordered(h2, w2)
  <2> HIDE DEF D, I
  <2>1. b \in D /\ j \in I
    BY DEF D, I
  <2>2. IsCut(D, Heads(h), Nexts(h), w.own, b, hd, nx)
    BY DEF D
  <2>3. InOrder(I, D, [hd EXCEPT ![j] = b], [nx EXCEPT ![b] = hd[j]],
                [w.own EXCEPT ![b] = j], InFront(D, w.rk, b))
    <3>1. NULL \notin D /\ Junk \notin D /\ InOrder(I, D, Heads(h), Nexts(h), w.own, w.rk)
      BY <1>1, <1>2
    <3> QED BY <2>1, <2>2, <3>1, MoveFront
  <2>4. InOrder(I, D, Heads(h2), Nexts(h2), w2.own, w2.rk)
    BY <1>3, <2>3
  <2> QED BY <1>4, <2>4 DEF Ordered, I
<1>6. Used(w2) = IF j = Free THEN Used(w) \ {b} ELSE Used(w) \cup {b}
  <2>1. DOMAIN w2.own = D /\ \A x \in D : w2.own[x] = IF x = b THEN j ELSE w.own[x]
    BY <1>1, <1>3
  <2> QED BY <1>1, <2>1 DEF Used
<1>7. \A x \in D : w2.rk[x] = IF x = b THEN 0 ELSE w.rk[x] + 1
  BY <1>3 DEF InFront
<1>70. b \in D /\ w2.rk[b] = 0 /\ \A x \in D \ {b} : w2.rk[x] = w.rk[x] + 1
  BY <1>7
<1>71. \A x \in D : w.rk[x] \in Nat
  BY <1>1
<1> HIDE DEF D
<1>8. \A x, y \in D \ {b} : w2.rk[x] <= w2.rk[y] <=> w.rk[x] <= w.rk[y]
  <2> TAKE x, y \in D \ {b}
  <2>1. w2.rk[x] = w.rk[x] + 1 /\ w2.rk[y] = w.rk[y] + 1
    BY <1>70
  <2>2. w.rk[x] \in Nat /\ w.rk[y] \in Nat
    BY <1>71
  <2> QED BY <2>1, <2>2
<1>9. \A x \in D \ {b} : w2.rk[b] < w2.rk[x]
  <2> TAKE x \in D \ {b}
  <2>1. w2.rk[x] = w.rk[x] + 1 /\ w2.rk[b] = 0
    BY <1>70
  <2>2. w.rk[x] \in Nat
    BY <1>71
  <2> QED BY <2>1, <2>2
<1> QED BY <1>3, <1>5, <1>6, <1>8, <1>9 DEF w2, D

\* The buckets keep their places and their keys.
LEMMA SameLinks ==
    ASSUME NEW h, NEW w, NEW ph, NEW S, NEW p, Good(h, w, ph, S, p),
           NEW h2, NEW q,
           h2 \in HashRec(TableSize(h, ph), PoolSize(h, ph)),
           h2.max_chain = h.max_chain, h2.seed = h.seed,
           h2.free_list = h.free_list, h2.table = h.table,
           \A b \in DOMAIN h.pool : h2.pool[b].next = h.pool[b].next,
           \A b \in Used(w) : h2.pool[b].key = h.pool[b].key /\ h2.pool[b].value \in Values,
           h2.entries = Cardinality(Used(w)) + q
    PROVE  Good(h2, w, ph, S, q)
<1> DEFINE T == TableSize(h, ph)
           P == PoolSize(h, ph)
<1>1. T = TableSize(h2, ph) /\ P = PoolSize(h2, ph) /\ Grown(h2) = Grown(h)
  BY DEF TableSize, PoolSize, Grown
<1>2. HashOK(h, w, T, P)
  BY DEF Good
<1>3. DOMAIN h.pool = 0..(P-1) /\ DOMAIN h2.pool = 0..(P-1)
  BY <1>2 DEF HashOK, HashRec
<1> HIDE DEF T, P
<1>4. Nexts(h2) = Nexts(h) /\ Heads(h2) = Heads(h)
  BY <1>3 DEF Nexts, Heads
<1>5. Ordered(h2, w)
  BY <1>2, <1>3, <1>4 DEF HashOK, Ordered
<1>6. HashOK(h2, w, T, P)
  BY <1>2, <1>5 DEF HashOK, T, P
<1>7. Homes(h2, w, S)
  BY <1>1 DEF Good, Homes
<1>8. SizeOK(h2)
  BY DEF Good, SizeOK
<1> QED BY <1>1, <1>6, <1>7, <1>8 DEF Good

\* promote_hash_key changes the type.
LEMMA GoodType ==
    ASSUME NEW h, NEW w, Good(h, w, "stable", {}, 0)
    PROVE  Good([h EXCEPT !.key_type = "utf8"], w, "stable", {}, 0)
<1> DEFINE h2 == [h EXCEPT !.key_type = "utf8"]
<1>1. h \in HashRec(TableSize(h, "stable"), PoolSize(h, "stable"))
  BY DEF Good, HashOK
<1>2. h2 \in HashRec(TableSize(h, "stable"), PoolSize(h, "stable"))
  BY <1>1 DEF HashRec
<1>3. /\ h2.max_chain = h.max_chain /\ h2.seed = h.seed /\ h2.free_list = h.free_list
      /\ h2.table = h.table /\ h2.pool = h.pool /\ h2.entries = h.entries
  BY <1>1 DEF HashRec
<1>4. \A b \in Used(w) : h.pool[b].value \in Values
  BY DEF Good, HashOK
<1>5. h2.entries = Cardinality(Used(w)) + 0
  BY <1>3 DEF Good
<1> HIDE DEF h2
<1>6. Good(h2, w, "stable", {}, 0)
  BY <1>2, <1>3, <1>4, <1>5, SameLinks
<1> QED BY <1>6 DEF h2

\* hash_put counts an entry before there is a bucket for it.
LEMMA GoodMore ==
    ASSUME NEW h, NEW w, Good(h, w, "stable", {}, 0)
    PROVE  Good([h EXCEPT !.entries = @ + 1], w, "stable", {}, 1)
<1> DEFINE h2 == [h EXCEPT !.entries = @ + 1]
<1>1. h \in HashRec(TableSize(h, "stable"), PoolSize(h, "stable"))
  BY DEF Good, HashOK
<1>2. h2 \in HashRec(TableSize(h, "stable"), PoolSize(h, "stable"))
  BY <1>1 DEF HashRec
<1>3. /\ h2.max_chain = h.max_chain /\ h2.seed = h.seed /\ h2.free_list = h.free_list
      /\ h2.table = h.table /\ h2.pool = h.pool /\ h2.entries = h.entries + 1
  BY <1>1 DEF HashRec
<1>4. \A b \in Used(w) : h.pool[b].value \in Values
  BY DEF Good, HashOK
<1>5. h2.entries = Cardinality(Used(w)) + 1
  <2>1. h.entries = Cardinality(Used(w)) + 0
    BY DEF Good
  <2>2. Cardinality(Used(w)) \in Nat
    <3>1. IsFiniteSet(Used(w))
      BY OrderedFacts DEF Good
    <3> QED BY <3>1, FS_CardinalityType
  <2> QED BY <1>3, <2>1, <2>2
<1> HIDE DEF h2
<1>6. Good(h2, w, "stable", {}, 1)
  BY <1>2, <1>3, <1>4, <1>5, SameLinks
<1> QED BY <1>6 DEF h2

\* hash_put replaces a value.
LEMMA GoodValue ==
    ASSUME NEW h, NEW w, Good(h, w, "stable", {}, 0), NEW b \in Used(w), NEW v \in Values
    PROVE  /\ Good([h EXCEPT !.pool[b].value = v], w, "stable", {}, 0)
           /\ [h EXCEPT !.pool[b].value = v].pool[b].value = v
           /\ \A c \in Used(w) :
                /\ [h EXCEPT !.pool[b].value = v].pool[c].key = h.pool[c].key
                /\ c # b => [h EXCEPT !.pool[b].value = v].pool[c].value = h.pool[c].value
<1> DEFINE h2 == [h EXCEPT !.pool[b].value = v]
           T == TableSize(h, "stable")
           P == PoolSize(h, "stable")
<1>1. h \in HashRec(T, P)
  BY DEF Good, HashOK
<1>2. DOMAIN h.pool = 0..(P-1) /\ b \in 0..(P-1) /\ Used(w) \subseteq 0..(P-1)
  BY OrderedFacts DEF Good
<1>3. /\ h2.max_chain = h.max_chain /\ h2.seed = h.seed /\ h2.free_list = h.free_list
      /\ h2.table = h.table /\ h2.entries = h.entries /\ h2.key_type = h.key_type
      /\ h2.pool = [h.pool EXCEPT ![b].value = v]
  BY <1>1 DEF HashRec
<1> DEFINE q == [h.pool EXCEPT ![b].value = v]
<1>4. /\ q \in [0..(P-1) -> Bucket(P)]
      /\ \A c \in 0..(P-1) : q[c].next = h.pool[c].next /\ q[c].key = h.pool[c].key
      /\ \A c \in 0..(P-1) : q[c].value = IF c = b THEN v ELSE h.pool[c].value
  BY <1>1, <1>2 DEF HashRec, Bucket
<1>5. h2 \in HashRec(T, P)
  BY <1>1, <1>4 DEF HashRec
<1> HIDE DEF q
<1>6. \A c \in Used(w) : h.pool[c].value \in Values
  BY DEF Good, HashOK
<1>7. h2.entries = Cardinality(Used(w)) + 0
  BY <1>3 DEF Good
<1>8. h2.pool = q
  BY <1>3 DEF q
<1> HIDE DEF h2
<1>9. /\ \A c \in DOMAIN h.pool : h2.pool[c].next = h.pool[c].next
      /\ \A c \in Used(w) : h2.pool[c].key = h.pool[c].key /\ h2.pool[c].value \in Values
  BY <1>2, <1>4, <1>6, <1>8
<1>10. Good(h2, w, "stable", {}, 0)
  BY <1>3, <1>5, <1>7, <1>9, SameLinks
<1> QED BY <1>2, <1>4, <1>8, <1>10 DEF h2

\* The same keys and values are in the chains of both hashes.
SameContent(h, w, h2, w2) ==
  /\ Used(w2) = Used(w)
  /\ \A b \in Used(w) : h2.pool[b].key = h.pool[b].key /\ h2.pool[b].value = h.pool[b].value

\* h2 has one more key.
Adds(h, w, h2, w2, k, v) ==
  \E b : /\ b \notin Used(w) /\ Used(w2) = Used(w) \cup {b}
         /\ h2.pool[b].key = k /\ h2.pool[b].value = v
         /\ \A c \in Used(w) : /\ h2.pool[c].key = h.pool[c].key
                               /\ h2.pool[c].value = h.pool[c].value

\* h2 has not got the key k, and its other buckets are where they were.
Removes(h, w, h2, w2, k) ==
  \E b \in Used(w) :
    /\ h.pool[b].key = k /\ Used(w2) = Used(w) \ {b}
    /\ \A c \in Used(w2) : /\ h2.pool[c].key = h.pool[c].key
                           /\ h2.pool[c].value = h.pool[c].value
                           /\ w2.own[c] = w.own[c]
    /\ \A c, d \in Used(w2) : w2.rk[c] <= w2.rk[d] <=> w.rk[c] <= w.rk[d]

\* hash_put of a new key, with a bucket of the free list.
LEMMA GoodLinked ==
    ASSUME NEW h, NEW w, Good(h, w, "stable", {}, 1), h.free_list # NULL,
           NEW k \in Keys, k \notin KeysOf(h), NEW v \in Values
    PROVE  \E w2 : /\ Good(Linked(h, k, v), w2, "stable", {}, 0)
                   /\ Adds(h, w, Linked(h, k, v), w2, k, v)
<1> DEFINE T == TableSize(h, "stable")
           P == PoolSize(h, "stable")
           h2 == Linked(h, k, v)
           b == h.free_list
           j == Slot(h, k)
           w2 == Shift(h, w, b, j)
<1>1. HashOK(h, w, T, P) /\ Homes(h, w, {}) /\ SizeOK(h) /\ h.max_chain # -1
  BY DEF Good
<1>2. /\ DOMAIN h.pool = 0..(P-1) /\ DOMAIN h.table = 0..(T-1) /\ T \in Nat /\ P \in Nat
      /\ w.own \in [0..(P-1) -> {Free} \cup 0..(T-1)]
      /\ (h.free_list \in 0..(P-1) => w.own[h.free_list] = Free)
      /\ Used(w) = { c \in 0..(P-1) : w.own[c] \in 0..(T-1) }
      /\ IsFiniteSet(Used(w)) /\ NULL \notin 0..(P-1) /\ Free \notin 0..(T-1)
  BY <1>1, OrderedFacts
<1>3. h \in HashRec(T, P)
  BY <1>1 DEF HashOK
<1>4. b \in 0..(P-1) /\ w.own[b] = Free /\ b \notin Used(w)
  BY <1>2, <1>3 DEF HashRec
<1>5. T = h.max_chain + 1 /\ T > 0
  BY <1>1, Sizes DEF TableSize, SizeOK
<1>6. j \in 0..(T-1)
  BY <1>1, <1>5, FindBucket
<1>7. h.table[j] # Junk
  BY <1>2, <1>6 DEF Good
<1> HIDE DEF T, P, j
<1> DEFINE q == [h.pool EXCEPT ![b] = [key |-> k, value |-> v, next |-> h.table[j]]]
           t == [h.table EXCEPT ![j] = b]
<1>8. /\ h2.max_chain = h.max_chain /\ h2.seed = h.seed /\ h2.entries = h.entries
      /\ h2.key_type = h.key_type /\ h2.free_list = h.pool[b].next
      /\ h2.table = t /\ h2.pool = q
  BY <1>3 DEF HashRec, Linked, j
<1>9. /\ q \in [0..(P-1) -> Bucket(P)] /\ t \in [0..(T-1) -> 0..(P-1) \cup {NULL, Junk}]
      /\ h.pool[b].next \in 0..(P-1) \cup {NULL}
      /\ q[b] = [key |-> k, value |-> v, next |-> h.table[j]]
      /\ \A c \in 0..(P-1) \ {b} : q[c] = h.pool[c]
      /\ t[j] = b /\ \A i \in 0..(T-1) \ {j} : t[i] = h.table[i]
  BY <1>2, <1>3, <1>4, <1>6, <1>7 DEF HashRec, Bucket
<1>10. h2 \in HashRec(T, P)
  <2>1. h2 = [h EXCEPT !.free_list = h.pool[b].next, !.pool = q, !.table = t]
    BY <1>3 DEF Linked, HashRec, j
  <2> HIDE DEF h2, q, t
  <2> QED BY <2>1, <1>3, <1>9 DEF HashRec
<1> HIDE DEF h2, q, t, w2
<1> DEFINE hd == [Heads(h) EXCEPT ![Free] = Nexts(h)[b]]
           nx == Nexts(h)
<1>11. /\ DOMAIN Heads(h) = {Free} \cup 0..(T-1) /\ Heads(h)[Free] = b
       /\ \A i \in 0..(T-1) : Heads(h)[i] = h.table[i]
       /\ DOMAIN Nexts(h) = 0..(P-1) /\ \A c \in 0..(P-1) : Nexts(h)[c] = h.pool[c].next
  BY <1>2 DEF Heads, Nexts
<1>12. IsCut(0..(P-1), Heads(h), Nexts(h), w.own, b, hd, nx)
  BY <1>4, <1>11 DEF IsCut
<1>13. Heads(h2) = [hd EXCEPT ![j] = b]
  <2>1. DOMAIN h2.table = 0..(T-1) /\ h2.free_list = Nexts(h)[b] /\ j # Free
    BY <1>2, <1>4, <1>6, <1>8, <1>9, <1>11
  <2>2. /\ [hd EXCEPT ![j] = b][Free] = Nexts(h)[b]
        /\ \A i \in 0..(T-1) : [hd EXCEPT ![j] = b][i] = IF i = j THEN b ELSE h.table[i]
    BY <2>1, <1>2, <1>6, <1>11
  <2>3. \A i \in {Free} \cup 0..(T-1) :
          [hd EXCEPT ![j] = b][i] = IF i = Free THEN h2.free_list ELSE h2.table[i]
    BY <2>1, <2>2, <1>2, <1>8, <1>9
  <2>4. DOMAIN [hd EXCEPT ![j] = b] = {Free} \cup 0..(T-1)
    BY <1>11
  <2>5. [hd EXCEPT ![j] = b] = [i \in {Free} \cup 0..(T-1) |-> [hd EXCEPT ![j] = b][i]]
    BY <2>4
  <2> HIDE DEF hd
  <2> QED BY <2>1, <2>3, <2>5 DEF Heads
<1>14. Nexts(h2) = [nx EXCEPT ![b] = hd[j]]
  <2>1. DOMAIN h2.pool = 0..(P-1) /\ hd[j] = h.table[j]
    BY <1>2, <1>6, <1>8, <1>9, <1>11
  <2>2. \A c \in 0..(P-1) : h2.pool[c].next = [nx EXCEPT ![b] = hd[j]][c]
    BY <2>1, <1>4, <1>8, <1>9, <1>11
  <2> QED BY <2>1, <2>2, <1>11 DEF Nexts
<1>15. /\ Ordered(h2, w2) /\ w2.own = [w.own EXCEPT ![b] = j]
       /\ Used(w2) = Used(w) \cup {b}
  <2>1. j \in {Free} \cup 0..(T-1) /\ j # w.own[b] /\ Heads(h)[j] # Junk /\ j # Free
    BY <1>2, <1>4, <1>6, <1>7, <1>11
  <2> HIDE DEF hd, nx
  <2> QED BY <2>1, <1>1, <1>4, <1>10, <1>12, <1>13, <1>14, OrderedMove DEF w2
<1> HIDE DEF hd, nx
<1>16. /\ h2.pool[b].key = k /\ h2.pool[b].value = v
       /\ \A c \in Used(w) : h2.pool[c] = h.pool[c]
  BY <1>2, <1>4, <1>8, <1>9
<1>17. HashOK(h2, w2, T, P)
  <2>1. \A c \in Used(w) : h.pool[c].key # k
    BY <1>1, ChainFacts
  <2>2. \A c \in Used(w) : h.pool[c].key \in Keys /\ h.pool[c].value \in Values
    BY <1>1 DEF HashOK
  <2>3. \A c, d \in Used(w) : h.pool[c].key = h.pool[d].key => c = d
    BY <1>1 DEF HashOK
  <2>4. \A c \in Used(w2) : h2.pool[c].key \in Keys /\ h2.pool[c].value \in Values
    BY <2>2, <1>15, <1>16
  <2>5. \A c, d \in Used(w2) : h2.pool[c].key = h2.pool[d].key => c = d
    BY <2>1, <2>3, <1>15, <1>16
  <2> QED BY <2>4, <2>5, <1>2, <1>10, <1>15 DEF HashOK
<1>18. Homes(h2, w2, {})
  <2>1. \A c \in Used(w) : w.own[c] = HashVal[h.seed][h.pool[c].key] % (h.max_chain + 1)
    BY <1>1 DEF Homes
  <2>2. w2.own[b] = j /\ \A c \in Used(w) : w2.own[c] = w.own[c]
    BY <1>2, <1>4, <1>15
  <2>3. j = HashVal[h.seed][k] % (h.max_chain + 1)
    BY DEF j, Slot
  <2>4. h2.max_chain = h.max_chain /\ h2.seed = h.seed
    BY <1>8
  <2> SUFFICES ASSUME NEW c \in Used(w2)
               PROVE  w2.own[c] = HashVal[h2.seed][h2.pool[c].key] % (h2.max_chain + 1)
    BY DEF Homes
  <2>5. CASE c = b
    BY <2>2, <2>3, <2>4, <2>5, <1>16
  <2>6. CASE c \in Used(w)
    BY <2>1, <2>2, <2>4, <2>6, <1>16
  <2> QED BY <2>5, <2>6, <1>15
<1>19. h2.entries = Cardinality(Used(w2)) + 0
  <2>1. Cardinality(Used(w2)) = Cardinality(Used(w)) + 1 /\ Cardinality(Used(w)) \in Nat
    BY <1>2, <1>4, <1>15, FS_AddElement, FS_CardinalityType
  <2>2. h.entries = Cardinality(Used(w)) + 1
    BY DEF Good
  <2> QED BY <2>1, <2>2, <1>8
<1>20. \A i \in DOMAIN h2.table : h2.table[i] # Junk
  <2>1. \A i \in 0..(T-1) : h.table[i] # Junk
    BY <1>2 DEF Good
  <2>2. b # Junk
    BY <1>1, <1>4, OrderedFacts
  <2> QED BY <2>1, <2>2, <1>2, <1>6, <1>8, <1>9 DEF t
<1>21. SizeOK(h2) /\ h2.max_chain # -1
  BY <1>1, <1>8 DEF SizeOK
<1>22. TableSize(h2, "stable") = T /\ PoolSize(h2, "stable") = P
  BY <1>8 DEF TableSize, PoolSize, T, P
<1>23. Good(h2, w2, "stable", {}, 0)
  BY <1>17, <1>18, <1>19, <1>20, <1>21, <1>22 DEF Good
<1>24. Adds(h, w, h2, w2, k, v)
  BY <1>4, <1>15, <1>16 DEF Adds
<1> QED BY <1>23, <1>24 DEF h2

\* b, the first bucket of chain i or the one after p, is taken out.
CutAt(h, i, p, b) ==
  IF p = NULL THEN [h EXCEPT !.table[i] = h.pool[b].next]
  ELSE [h EXCEPT !.pool[p].next = h.pool[b].next]

\* A bucket gets another next.
LEMMA SetNext ==
    ASSUME NEW P, NEW pool \in [0..(P-1) -> Bucket(P)], NEW b \in 0..(P-1),
           NEW x \in 0..(P-1) \cup {NULL}
    PROVE  LET q == [pool EXCEPT ![b].next = x] IN
           /\ q \in [0..(P-1) -> Bucket(P)]
           /\ \A c \in 0..(P-1) : /\ q[c].key = pool[c].key /\ q[c].value = pool[c].value
                                  /\ q[c].next = IF c = b THEN x ELSE pool[c].next
<1> DEFINE q == [pool EXCEPT ![b].next = x]
           r == [pool[b] EXCEPT !.next = x]
<1>1. /\ r \in Bucket(P) /\ r.key = pool[b].key /\ r.value = pool[b].value /\ r.next = x
  BY DEF Bucket
<1>2. q = [pool EXCEPT ![b] = r]
  OBVIOUS
<1> HIDE DEF q, r
<1>3. q \in [0..(P-1) -> Bucket(P)] /\ q[b] = r /\ \A c \in 0..(P-1) \ {b} : q[c] = pool[c]
  BY <1>1, <1>2
<1> QED BY <1>1, <1>3 DEF q

\* CutAt leaves a well-formed hash, and takes b out of its chain.
LEMMA CutFacts ==
    ASSUME NEW h, NEW w, NEW T, NEW P, HashOK(h, w, T, P),
           NEW b \in Used(w), NEW i, i = w.own[b], NEW p,
           (p = NULL /\ h.table[i] = b) \/ (p \in 0..(P-1) /\ h.pool[p].next = b),
           NEW u, u = CutAt(h, i, p, b)
    PROVE  /\ u \in HashRec(T, P) /\ u.max_chain = h.max_chain /\ u.seed = h.seed
           /\ u.key_type = h.key_type /\ u.entries = h.entries /\ u.free_list = h.free_list
           /\ \A c \in 0..(P-1) : u.pool[c].key = h.pool[c].key /\ u.pool[c].value = h.pool[c].value
           /\ \A l \in 0..(T-1) \ {i} : u.table[l] = h.table[l]
           /\ u.table[i] # Junk
           /\ IsCut(0..(P-1), Heads(h), Nexts(h), w.own, b, Heads(u), Nexts(u))
<1>1. /\ DOMAIN h.pool = 0..(P-1) /\ DOMAIN h.table = 0..(T-1) /\ T \in Nat /\ P \in Nat
      /\ Used(w) = { c \in 0..(P-1) : w.own[c] \in 0..(T-1) }
      /\ NULL \notin 0..(P-1) /\ Junk \notin 0..(P-1) /\ Free \notin 0..(T-1)
      /\ w.own \in [0..(P-1) -> {Free} \cup 0..(T-1)] /\ w.rk \in [0..(P-1) -> Nat]
  BY OrderedFacts
<1>2. h \in HashRec(T, P)
  BY DEF HashOK
<1>3. b \in 0..(P-1) /\ i \in 0..(T-1)
  BY <1>1
<1>4. h.pool[b].next \in 0..(P-1) \cup {NULL}
  BY <1>2, <1>3 DEF HashRec, Bucket
<1>5. /\ DOMAIN Heads(h) = {Free} \cup 0..(T-1) /\ Heads(h)[Free] = h.free_list
      /\ \A l \in 0..(T-1) : Heads(h)[l] = h.table[l]
      /\ DOMAIN Nexts(h) = 0..(P-1) /\ \A c \in 0..(P-1) : Nexts(h)[c] = h.pool[c].next
  BY <1>1 DEF Heads, Nexts
<1>6. CASE p = NULL /\ h.table[i] = b
  <2> DEFINE t == [h.table EXCEPT ![i] = h.pool[b].next]
  <2>1. /\ u.max_chain = h.max_chain /\ u.seed = h.seed /\ u.key_type = h.key_type
        /\ u.entries = h.entries /\ u.free_list = h.free_list /\ u.pool = h.pool
        /\ u.table = t /\ u = [h EXCEPT !.table = t]
    BY <1>2, <1>6 DEF HashRec, CutAt
  <2>2. /\ t \in [0..(T-1) -> 0..(P-1) \cup {NULL, Junk}] /\ t[i] = h.pool[b].next
        /\ \A l \in 0..(T-1) \ {i} : t[l] = h.table[l]
    BY <1>2, <1>3, <1>4 DEF HashRec
  <2> HIDE DEF t
  <2>3. u \in HashRec(T, P)
    BY <2>1, <2>2, <1>2 DEF HashRec
  <2>4. Nexts(u) = Nexts(h)
    BY <2>1 DEF Nexts
  <2>5. Heads(u) = [Heads(h) EXCEPT ![w.own[b]] = Nexts(h)[b]]
    <3>1. DOMAIN u.table = 0..(T-1) /\ i # Free
      BY <2>1, <2>2, <1>1, <1>3
    <3>2. Heads(u) = [l \in {Free} \cup 0..(T-1) |-> IF l = Free THEN h.free_list ELSE t[l]]
      BY <3>1, <2>1 DEF Heads
    <3>3. \A l \in {Free} \cup 0..(T-1) :
            [Heads(h) EXCEPT ![i] = Nexts(h)[b]][l] = IF l = Free THEN h.free_list ELSE t[l]
      BY <3>1, <2>2, <1>3, <1>5
    <3>4. [Heads(h) EXCEPT ![i] = Nexts(h)[b]]
            = [l \in {Free} \cup 0..(T-1) |-> [Heads(h) EXCEPT ![i] = Nexts(h)[b]][l]]
      BY <1>5
    <3> QED BY <3>2, <3>3, <3>4
  <2>6. Heads(h)[w.own[b]] = b
    BY <1>3, <1>5, <1>6
  <2>7. IsCut(0..(P-1), Heads(h), Nexts(h), w.own, b, Heads(u), Nexts(u))
    BY <2>4, <2>5, <2>6 DEF IsCut
  <2>8. u.table[i] # Junk
    BY <2>1, <2>2, <1>1, <1>4, HashAssumption
  <2> QED BY <2>1, <2>2, <2>3, <2>7, <2>8
<1>7. CASE p \in 0..(P-1) /\ h.pool[p].next = b
  <2> DEFINE q == [h.pool EXCEPT ![p].next = h.pool[b].next]
  <2>1. p # NULL
    BY <1>1, <1>7
  <2>2. /\ u.max_chain = h.max_chain /\ u.seed = h.seed /\ u.key_type = h.key_type
        /\ u.entries = h.entries /\ u.free_list = h.free_list /\ u.table = h.table
        /\ u.pool = q /\ u = [h EXCEPT !.pool = q]
    BY <2>1, <1>2 DEF HashRec, CutAt
  <2>3. /\ q \in [0..(P-1) -> Bucket(P)]
        /\ \A c \in 0..(P-1) : q[c].key = h.pool[c].key /\ q[c].value = h.pool[c].value
        /\ \A c \in 0..(P-1) : q[c].next = IF c = p THEN h.pool[b].next ELSE h.pool[c].next
    <3>1. h.pool \in [0..(P-1) -> Bucket(P)]
      BY <1>2 DEF HashRec
    <3> QED BY <3>1, <1>4, <1>7, SetNext
  <2> HIDE DEF q
  <2>4. u \in HashRec(T, P)
    BY <2>2, <2>3, <1>2 DEF HashRec
  <2>5. Heads(u) = Heads(h)
    BY <2>2 DEF Heads
  <2>6. Nexts(u) = [Nexts(h) EXCEPT ![p] = Nexts(h)[b]]
    <3>1. DOMAIN u.pool = 0..(P-1)
      BY <2>2, <2>3
    <3>2. \A c \in 0..(P-1) : u.pool[c].next = [Nexts(h) EXCEPT ![p] = Nexts(h)[b]][c]
      BY <2>2, <2>3, <1>3, <1>5, <1>7
    <3>3. [Nexts(h) EXCEPT ![p] = Nexts(h)[b]]
            = [c \in 0..(P-1) |-> [Nexts(h) EXCEPT ![p] = Nexts(h)[b]][c]]
      BY <1>5
    <3>4. Nexts(u) = [c \in 0..(P-1) |-> u.pool[c].next]
      BY <3>1 DEF Nexts
    <3> QED BY <3>2, <3>3, <3>4
  <2>7. IsCut(0..(P-1), Heads(h), Nexts(h), w.own, b, Heads(u), Nexts(u))
    BY <2>5, <2>6, <1>5, <1>7 DEF IsCut
  <2>8. u.table[i] # Junk
    <3>1. InOrder({Free} \cup 0..(T-1), 0..(P-1), Heads(h), Nexts(h), w.own, w.rk)
      BY <1>1 DEF HashOK, Ordered
    <3>2. Heads(h)[w.own[b]] \in 0..(P-1)
      BY <3>1, <1>3 DEF InOrder
    <3> QED BY <3>2, <2>2, <1>1, <1>3, <1>5
  <2> QED BY <2>2, <2>3, <2>4, <2>7, <2>8
<1> QED BY <1>6, <1>7

\* hash_delete takes the bucket out of its chain.
LEMMA UnlinkedIsCut ==
    ASSUME NEW h, NEW w, NEW T, NEW P, HashOK(h, w, T, P), NEW b \in Used(w)
    PROVE  \E p : /\ (p = NULL /\ h.table[w.own[b]] = b) \/ (p \in 0..(P-1) /\ h.pool[p].next = b)
                  /\ Unlinked(h, w.own[b], b) = CutAt(h, w.own[b], p, b)
<1>1. /\ DOMAIN h.pool = 0..(P-1) /\ DOMAIN h.table = 0..(T-1)
      /\ Used(w) = { c \in 0..(P-1) : w.own[c] \in 0..(T-1) }
      /\ NULL \notin 0..(P-1) /\ Free \notin 0..(T-1)
      /\ w.own \in [0..(P-1) -> {Free} \cup 0..(T-1)] /\ w.rk \in [0..(P-1) -> Nat]
  BY OrderedFacts
<1>2. InOrder({Free} \cup 0..(T-1), 0..(P-1), Heads(h), Nexts(h), w.own, w.rk)
  BY <1>1 DEF HashOK, Ordered
<1>3. b \in 0..(P-1) /\ w.own[b] \in 0..(T-1)
  BY <1>1
<1>4. /\ Heads(h)[w.own[b]] = h.table[w.own[b]]
      /\ \A c \in 0..(P-1) : Nexts(h)[c] = h.pool[c].next
  BY <1>1, <1>3 DEF Heads, Nexts
<1>5. CASE h.table[w.own[b]] = b
  BY <1>5 DEF Unlinked, CutAt
<1>6. CASE h.table[w.own[b]] # b
  <2> DEFINE C == Chain(h, h.table[w.own[b]])
             p == CHOOSE x \in C : h.pool[x].next = b
  <2>1. C = { x \in 0..(P-1) : w.own[x] = w.own[b] }
    BY <1>3, ChainFacts
  <2>2. PICK x \in 0..(P-1) : Nexts(h)[x] = b
    <3>1. Heads(h)[w.own[b]] # b
      BY <1>4, <1>6
    <3>2. \A I, D : InOrder(I, D, Heads(h), Nexts(h), w.own, w.rk) /\ b \in D
                     => \E x \in D : Nexts(h)[x] = b
      BY <3>1, HasPrevious
    <3> QED BY <3>2, <1>2, <1>3
  <2>3. w.own[x] = w.own[b]
    BY <1>2, <1>3, <2>2 DEF InOrder
  <2>4. x \in C /\ h.pool[x].next = b
    BY <1>4, <2>1, <2>2, <2>3
  <2>5. p \in C /\ h.pool[p].next = b
    <3> HIDE DEF C
    <3> QED BY <2>4
  <2>6. Unlinked(h, w.own[b], b) = [h EXCEPT !.pool[p].next = h.pool[b].next]
    BY <1>6 DEF Unlinked
  <2> HIDE DEF p
  <2>7. p \in 0..(P-1) /\ p # NULL
    BY <1>1, <2>1, <2>5
  <2> QED BY <2>5, <2>6, <2>7 DEF CutAt
<1> QED BY <1>5, <1>6

\* What hash_delete makes of h, if k is in bucket b.
Deleted(h, k, b) ==
  [Unlinked(h, Slot(h, k), b) EXCEPT
     !.entries = @ - 1, !.free_list = b,
     !.pool[b] = [key |-> Junk, value |-> Junk, next |-> h.free_list]]

LEMMA GoodDeleted ==
    ASSUME NEW h, NEW w, Good(h, w, "stable", {}, 0), NEW k \in Keys,
           NEW b \in Used(w), h.pool[b].key = k
    PROVE  \E w2 : /\ Good(Deleted(h, k, b), w2, "stable", {}, 0)
                   /\ Removes(h, w, Deleted(h, k, b), w2, k)
<1> DEFINE T == TableSize(h, "stable")
           P == PoolSize(h, "stable")
           h2 == Deleted(h, k, b)
           u == Unlinked(h, Slot(h, k), b)
           w2 == Shift(h, w, b, Free)
<1>1. HashOK(h, w, T, P) /\ Homes(h, w, {}) /\ SizeOK(h) /\ h.max_chain # -1
  BY DEF Good
<1>2. /\ DOMAIN h.pool = 0..(P-1) /\ DOMAIN h.table = 0..(T-1) /\ T \in Nat /\ P \in Nat
      /\ w.own \in [0..(P-1) -> {Free} \cup 0..(T-1)]
      /\ Used(w) = { c \in 0..(P-1) : w.own[c] \in 0..(T-1) }
      /\ IsFiniteSet(Used(w)) /\ NULL \notin 0..(P-1) /\ Junk \notin 0..(P-1) /\ Free \notin 0..(T-1)
  BY <1>1, OrderedFacts
<1>3. h \in HashRec(T, P)
  BY <1>1 DEF HashOK
<1>4. b \in 0..(P-1) /\ w.own[b] \in 0..(T-1) /\ w.own[b] # Free
  BY <1>2
<1>5. Slot(h, k) = w.own[b]
  BY <1>1 DEF Homes, Slot
<1>6. PICK p : /\ (p = NULL /\ h.table[w.own[b]] = b) \/ (p \in 0..(P-1) /\ h.pool[p].next = b)
               /\ u = CutAt(h, w.own[b], p, b)
  BY <1>1, <1>5, UnlinkedIsCut
<1> HIDE DEF T, P
<1>7. /\ u \in HashRec(T, P) /\ u.max_chain = h.max_chain /\ u.seed = h.seed
      /\ u.key_type = h.key_type /\ u.entries = h.entries /\ u.free_list = h.free_list
      /\ \A c \in 0..(P-1) : u.pool[c].key = h.pool[c].key /\ u.pool[c].value = h.pool[c].value
      /\ \A l \in 0..(T-1) \ {w.own[b]} : u.table[l] = h.table[l]
      /\ u.table[w.own[b]] # Junk
      /\ IsCut(0..(P-1), Heads(h), Nexts(h), w.own, b, Heads(u), Nexts(u))
  <2> HIDE DEF u
  <2> QED BY <1>1, <1>6, CutFacts
<1> HIDE DEF u
<1> DEFINE q == [u.pool EXCEPT ![b] = [key |-> Junk, value |-> Junk, next |-> h.free_list]]
<1>8. /\ h2.max_chain = h.max_chain /\ h2.seed = h.seed /\ h2.entries = h.entries - 1
      /\ h2.key_type = h.key_type /\ h2.free_list = b
      /\ h2.table = u.table /\ h2.pool = q
      /\ h2 = [u EXCEPT !.entries = @ - 1, !.free_list = b, !.pool = q]
  BY <1>7 DEF HashRec, Deleted, u
<1>9. /\ q \in [0..(P-1) -> Bucket(P)] /\ q[b].next = h.free_list
      /\ \A c \in 0..(P-1) \ {b} : q[c] = u.pool[c]
      /\ h.free_list \in 0..(P-1) \cup {NULL}
  BY <1>3, <1>4, <1>7 DEF HashRec, Bucket
<1> HIDE DEF q, h2, w2
<1>10. Cardinality(Used(w) \ {b}) = Cardinality(Used(w)) - 1 /\ Cardinality(Used(w) \ {b}) \in Nat
  <2>1. IsFiniteSet(Used(w) \ {b})
    BY <1>2, FS_Subset
  <2>2. Cardinality(Used(w) \ {b}) = Cardinality(Used(w)) - 1
    BY <1>2, FS_RemoveElement
  <2> QED BY <2>1, <2>2, FS_CardinalityType
<1>11. h.entries - 1 \in Nat /\ h.entries - 1 = Cardinality(Used(w) \ {b}) + 0
  <2>1. h.entries = Cardinality(Used(w)) + 0 /\ Cardinality(Used(w)) \in Nat
    BY <1>2, FS_CardinalityType DEF Good
  <2> QED BY <2>1, <1>10
<1>12. h2 \in HashRec(T, P)
  BY <1>4, <1>7, <1>8, <1>9, <1>11 DEF HashRec
<1>13. /\ DOMAIN Heads(u) = {Free} \cup 0..(T-1) /\ Heads(u)[Free] = h.free_list
       /\ \A i \in 0..(T-1) : Heads(u)[i] = u.table[i]
       /\ DOMAIN Nexts(u) = 0..(P-1) /\ \A c \in 0..(P-1) : Nexts(u)[c] = u.pool[c].next
       /\ Heads(h)[Free] = h.free_list
  BY <1>2, <1>7 DEF Heads, Nexts, HashRec
<1>14. Heads(h2) = [Heads(u) EXCEPT ![Free] = b]
  <2>1. DOMAIN h2.table = 0..(T-1) /\ h2.free_list = b
    BY <1>7, <1>8 DEF HashRec
  <2>2. Heads(h2) = [i \in {Free} \cup 0..(T-1) |-> IF i = Free THEN b ELSE u.table[i]]
    BY <2>1, <1>8 DEF Heads
  <2>3. \A i \in {Free} \cup 0..(T-1) :
          [Heads(u) EXCEPT ![Free] = b][i] = IF i = Free THEN b ELSE u.table[i]
    BY <1>2, <1>13
  <2>4. [Heads(u) EXCEPT ![Free] = b]
          = [i \in {Free} \cup 0..(T-1) |-> [Heads(u) EXCEPT ![Free] = b][i]]
    BY <1>13
  <2> QED BY <2>2, <2>3, <2>4
<1>15. Nexts(h2) = [Nexts(u) EXCEPT ![b] = Heads(u)[Free]]
  <2>1. DOMAIN h2.pool = 0..(P-1)
    BY <1>8, <1>9
  <2>2. \A c \in 0..(P-1) : h2.pool[c].next = [Nexts(u) EXCEPT ![b] = Heads(u)[Free]][c]
    BY <2>1, <1>4, <1>8, <1>9, <1>13
  <2> QED BY <2>1, <2>2, <1>13 DEF Nexts
<1>16. /\ Ordered(h2, w2) /\ w2.own = [w.own EXCEPT ![b] = Free]
       /\ Used(w2) = Used(w) \ {b}
       /\ \A x, y \in 0..(P-1) \ {b} : w2.rk[x] <= w2.rk[y] <=> w.rk[x] <= w.rk[y]
  <2>1. Free # w.own[b] /\ Heads(h)[Free] # Junk
    BY <1>2, <1>4, <1>9, <1>13, HashAssumption
  <2>2. IsCut(0..(P-1), Heads(h), Nexts(h), w.own, b, Heads(u), Nexts(u))
    BY <1>7
  <2>3. Free \in {Free} \cup 0..(T-1)
    OBVIOUS
  <2> DEFINE s == Shift(h, w, b, Free)
  <2>4. /\ Ordered(h2, s)
        /\ Used(s) = IF Free = Free THEN Used(w) \ {b} ELSE Used(w) \cup {b}
        /\ s.own = [w.own EXCEPT ![b] = Free]
        /\ \A x, y \in 0..(P-1) \ {b} : s.rk[x] <= s.rk[y] <=> w.rk[x] <= w.rk[y]
    BY <2>1, <2>2, <2>3, <1>1, <1>4, <1>12, <1>14, <1>15, OrderedMove
  <2>5. s = w2
    BY DEF w2
  <2> HIDE DEF s
  <2> QED BY <2>4, <2>5
<1>17. /\ Used(w2) \subseteq 0..(P-1) \ {b}
       /\ \A c \in Used(w2) : /\ h2.pool[c].key = h.pool[c].key
                              /\ h2.pool[c].value = h.pool[c].value
                              /\ w2.own[c] = w.own[c] /\ c \in Used(w)
  <2>1. \A c \in Used(w) : c \in 0..(P-1)
    BY <1>2
  <2>2. \A c \in Used(w2) : c \in Used(w) /\ c # b
    BY <1>16
  <2>3. \A c \in Used(w2) : h2.pool[c] = u.pool[c] /\ w2.own[c] = w.own[c]
    BY <2>1, <2>2, <1>2, <1>8, <1>9, <1>16
  <2> QED BY <2>1, <2>2, <2>3, <1>7
<1>18. HashOK(h2, w2, T, P)
  <2>1. \A c \in Used(w) : h.pool[c].key \in Keys /\ h.pool[c].value \in Values
    BY <1>1 DEF HashOK
  <2>2. \A c, d \in Used(w) : h.pool[c].key = h.pool[d].key => c = d
    BY <1>1 DEF HashOK
  <2>3. \A c \in Used(w2) : h2.pool[c].key \in Keys /\ h2.pool[c].value \in Values
    BY <2>1, <1>17
  <2>4. \A c, d \in Used(w2) : h2.pool[c].key = h2.pool[d].key => c = d
    BY <2>2, <1>17
  <2> QED BY <2>3, <2>4, <1>2, <1>12, <1>16 DEF HashOK
<1>19. Homes(h2, w2, {})
  BY <1>1, <1>8, <1>17 DEF Homes
<1>20. \A i \in DOMAIN h2.table : h2.table[i] # Junk
  <2>1. \A i \in 0..(T-1) : h.table[i] # Junk
    BY <1>2 DEF Good
  <2>2. DOMAIN u.table = 0..(T-1)
    BY <1>7 DEF HashRec
  <2>3. \A i \in 0..(T-1) : u.table[i] # Junk
    BY <2>1, <1>7
  <2> QED BY <2>2, <2>3, <1>8
<1>21. SizeOK(h2) /\ h2.max_chain # -1
  BY <1>1, <1>8 DEF SizeOK
<1>22. TableSize(h2, "stable") = T /\ PoolSize(h2, "stable") = P
  BY <1>8 DEF TableSize, PoolSize, T, P
<1>23. Good(h2, w2, "stable", {}, 0)
  BY <1>8, <1>11, <1>16, <1>18, <1>19, <1>20, <1>21, <1>22 DEF Good
<1>24. Removes(h, w, h2, w2, k)
  BY <1>16, <1>17 DEF Removes
<1> QED BY <1>23, <1>24 DEF h2

\* The phases of growing.
LEMMA GoodStart ==
    ASSUME NEW h, NEW w, NEW p, Good(h, w, "stable", {}, p)
    PROVE  Good(h, w, "grow_table", {}, p)
BY DEF Good, TableSize, PoolSize

LEMMA GoodFresh ==
    ASSUME NEW s \in Seeds, NEW type \in {"ascii", "utf8"}
    PROVE  \E w : Good(Fresh(s, type), w, "grow_table", {}, 0) /\ Used(w) = {}
<1> DEFINE h == Fresh(s, type)
           e == [b \in {} |-> 0]
           w == [own |-> e, rk |-> e]
<1>1. /\ h.max_chain = -1 /\ h.entries = 0 /\ h.free_list = NULL /\ h.seed = s
      /\ h.key_type = type /\ DOMAIN h.table = {} /\ DOMAIN h.pool = {}
      /\ h.table = [i \in {} |-> 0] /\ h.pool = [b \in {} |-> 0]
  BY DEF Fresh
<1>2. h.max_chain + 1 = 0 /\ Buckets(0) = 0 /\ 0..(0-1) = {}
  BY <1>1, HashAssumption DEF Buckets
<1>3. h \in HashRec(0, 0)
  BY <1>2 DEF HashRec, Fresh
<1>4. Used(w) = {}
  BY DEF Used
<1>5. Ordered(h, w)
  <2>1. /\ Heads(h) \in [{Free} -> {NULL}] /\ Nexts(h) \in [{} -> {}]
        /\ w.own \in [{} -> {Free}] /\ w.rk \in [{} -> Nat]
    BY <1>1 DEF Heads, Nexts
  <2> HIDE DEF h, w
  <2> QED BY <2>1, <1>1 DEF Ordered, InOrder
<1> HIDE DEF h, w
<1>6. HashOK(h, w, 0, 0)
  BY <1>3, <1>4, <1>5 DEF HashOK
<1>7. Homes(h, w, {}) /\ SizeOK(h)
  BY <1>1, <1>4 DEF Homes, SizeOK
<1>8. h.entries = Cardinality(Used(w)) + 0
  BY <1>1, <1>4, FS_EmptySet
<1>9. Good(h, w, "grow_table", {}, 0)
  BY <1>1, <1>2, <1>6, <1>7, <1>8 DEF Good, TableSize, PoolSize
<1> QED BY <1>4, <1>9 DEF h

\* GrowTable
LEMMA GoodGrowTable ==
    ASSUME NEW h, NEW w, NEW p, Good(h, w, "grow_table", {}, p), NEW h2,
           h2 = [h EXCEPT !.table =
                  [i \in 0..(Grown(h) - 1) |-> IF i \in DOMAIN @ THEN @[i] ELSE Junk]]
    PROVE  Good(h2, w, "grow_pool", {}, p) /\ SameContent(h, w, h2, w)
<1> DEFINE T == TableSize(h, "grow_table")
           P == PoolSize(h, "grow_table")
           G == Grown(h)
           t == [i \in 0..(G - 1) |-> IF i \in 0..(T-1) THEN h.table[i] ELSE Junk]
<1>1. HashOK(h, w, T, P) /\ Homes(h, w, {}) /\ SizeOK(h)
  BY DEF Good
<1>2. /\ DOMAIN h.pool = 0..(P-1) /\ DOMAIN h.table = 0..(T-1) /\ T \in Nat /\ P \in Nat
      /\ NULL \notin 0..(P-1) /\ Junk \notin 0..(P-1) /\ Free \notin 0..(T-1)
  BY <1>1, OrderedFacts
<1>3. h \in HashRec(T, P)
  BY <1>1 DEF HashOK
<1>4. T = h.max_chain + 1 /\ G \in Nat /\ T < G /\ h.max_chain \in Int
  BY <1>1, Sizes DEF TableSize
<1>5. /\ h2.max_chain = h.max_chain /\ h2.seed = h.seed /\ h2.entries = h.entries
      /\ h2.key_type = h.key_type /\ h2.free_list = h.free_list
      /\ h2.table = t /\ h2.pool = h.pool /\ h2 = [h EXCEPT !.table = t]
  BY <1>2, <1>3 DEF HashRec
<1>6. Grown(h2) = G /\ TableSize(h2, "grow_pool") = G /\ PoolSize(h2, "grow_pool") = P
  BY <1>5 DEF Grown, TableSize, PoolSize
<1> HIDE DEF T, P, G
<1>7. /\ t \in [0..(G-1) -> 0..(P-1) \cup {NULL, Junk}]
      /\ \A i \in 0..(G-1) : t[i] = IF i \in 0..(T-1) THEN h.table[i] ELSE Junk
  BY <1>3 DEF HashRec
<1> HIDE DEF t
<1>8. h2 \in HashRec(G, P)
  BY <1>3, <1>5, <1>7 DEF HashRec
<1>9. InOrder({Free} \cup 0..(T-1), 0..(P-1), Heads(h), Nexts(h), w.own, w.rk)
  BY <1>1, <1>2 DEF HashOK, Ordered
<1>10. /\ Heads(h)[Free] = h.free_list /\ Heads(h2)[Free] = h.free_list
       /\ \A i \in 0..(T-1) : Heads(h)[i] = h.table[i]
       /\ \A i \in 0..(G-1) : Heads(h2)[i] = t[i]
       /\ Heads(h2) \in [{Free} \cup 0..(G-1) -> 0..(P-1) \cup {NULL, Junk}]
  <2>1. DOMAIN h2.table = 0..(G-1) /\ Free \notin 0..(G-1)
    BY <1>4, <1>5, <1>7 DEF Free
  <2>2. h.free_list \in 0..(P-1) \cup {NULL}
    BY <1>3 DEF HashRec
  <2> QED BY <2>1, <2>2, <1>2, <1>5, <1>7 DEF Heads
<1>11. InOrder({Free} \cup 0..(G-1), 0..(P-1), Heads(h2), Nexts(h), w.own, w.rk)
  <2> DEFINE I == {Free} \cup 0..(T-1)
             J == {Free} \cup 0..(G-1)
             D == 0..(P-1)
  <2>1. I \subseteq J
    BY <1>2, <1>4
  <2>2. \A i \in I : Heads(h2)[i] = Heads(h)[i]
    BY <2>1, <1>7, <1>10
  <2>3. \A i \in J \ I : Heads(h2)[i] \notin D
    BY <1>2, <1>7, <1>10
  <2>4. Heads(h2) \in [J -> D \cup {NULL, Junk}]
    BY <1>10
  <2>5. InOrder(I, D, Heads(h), Nexts(h), w.own, w.rk)
    BY <1>9
  <2>6. NULL \notin D /\ Junk \notin D
    BY <1>2
  <2> HIDE DEF I, J, D
  <2>7. InOrder(J, D, Heads(h2), Nexts(h), w.own, w.rk)
    BY <2>1, <2>2, <2>3, <2>4, <2>5, <2>6, NewHeads
  <2> QED BY <2>7 DEF J, D
<1>12. Ordered(h2, w)
  <2>1. Nexts(h2) = Nexts(h)
    BY <1>5 DEF Nexts
  <2>2. DOMAIN h2.table = 0..(G-1) /\ DOMAIN h2.pool = 0..(P-1)
    BY <1>2, <1>5, <1>7
  <2> QED BY <2>1, <2>2, <1>11 DEF Ordered
<1>13. HashOK(h2, w, G, P)
  BY <1>1, <1>2, <1>4, <1>5, <1>8, <1>12 DEF HashOK
<1>14. Homes(h2, w, {}) /\ SizeOK(h2)
  BY <1>1, <1>5 DEF Homes, SizeOK
<1>15. \A i \in DOMAIN h2.table : h2.table[i] = Junk => i > h.max_chain
  <2>1. \A i \in 0..(T-1) : h.table[i] # Junk
    BY <1>2 DEF Good
  <2>2. DOMAIN h2.table = 0..(G-1)
    BY <1>5, <1>7
  <2> SUFFICES ASSUME NEW i \in 0..(G-1), h2.table[i] = Junk PROVE i > h.max_chain
    BY <2>2
  <2>3. i \notin 0..(T-1)
    <3> SUFFICES ASSUME i \in 0..(T-1) PROVE FALSE
      OBVIOUS
    <3>1. t[i] = Junk
      BY <1>5
    <3>2. t[i] = h.table[i]
      BY <1>7
    <3> QED BY <2>1, <3>1, <3>2
  <2> QED BY <2>3, <1>4
<1>16. h2.entries = Cardinality(Used(w)) + p
  BY <1>5 DEF Good
<1>17. Good(h2, w, "grow_pool", {}, p)
  BY <1>5, <1>6, <1>13, <1>14, <1>15, <1>16 DEF Good
<1> QED BY <1>5, <1>17 DEF SameContent

\* GrowPool
GrownPool(h) ==
  LET m == Pooled(h, Cardinality(DOMAIN h.pool), (Grown(h) * MAXFULL_PERCENT) \div 100) IN
  [m EXCEPT !.table = [i \in DOMAIN @ |-> IF i > h.max_chain THEN NULL ELSE @[i]]]

LEMMA GoodGrowPool ==
    ASSUME NEW h, NEW w, NEW p, Good(h, w, "grow_pool", {}, p), NEW h2, h2 = GrownPool(h)
    PROVE  /\ h2.free_list # NULL /\ h2.max_chain = h.max_chain /\ h2.key_type = h.key_type
           /\ \E w2 : /\ Good(h2, w2, "move", {}, p) /\ SameContent(h, w, h2, w2)
                      /\ \A b \in Used(w2) : w2.own[b] \in 0..h2.max_chain
<1> DEFINE T == Grown(h)
           P == PoolSize(h, "grow_pool")
           Q == Buckets(Grown(h))
           t == [i \in 0..(T-1) |-> IF i > h.max_chain THEN NULL ELSE h.table[i]]
           o == [b \in 0..(Q-1) |-> IF b < P THEN w.own[b] ELSE Free]
           r == [b \in 0..(Q-1) |-> IF b < P THEN w.rk[b] + Q ELSE Q - 1 - b]
           w2 == [own |-> o, rk |-> r]
           nx == [b \in 0..(Q-1) |-> IF b < P THEN Nexts(h)[b]
                                     ELSE IF b = P THEN h.free_list ELSE b - 1]
           q == [b \in 0..(Q-1) |-> IF b < P THEN h.pool[b]
                                    ELSE [key |-> Junk, value |-> Junk,
                                          next |-> IF b = P THEN h.free_list ELSE b - 1]]
<1>1. HashOK(h, w, T, P) /\ Homes(h, w, {}) /\ SizeOK(h)
  BY DEF Good, TableSize
<1>2. /\ DOMAIN h.pool = 0..(P-1) /\ DOMAIN h.table = 0..(T-1) /\ T \in Nat /\ P \in Nat
      /\ w.own \in [0..(P-1) -> {Free} \cup 0..(T-1)] /\ w.rk \in [0..(P-1) -> Nat]
      /\ \A i \in 0..(T-1) : h.table[i] \in 0..(P-1) => w.own[h.table[i]] = i
      /\ Used(w) = { c \in 0..(P-1) : w.own[c] \in 0..(T-1) }
      /\ NULL \notin 0..(P-1) /\ Junk \notin 0..(P-1) /\ Free \notin 0..(T-1)
  BY <1>1, OrderedFacts
<1>3. h \in HashRec(T, P)
  BY <1>1 DEF HashOK
<1>4. Q \in Nat /\ P < Q /\ h.max_chain \in Int /\ h.max_chain + 1 \in Nat /\ h.max_chain + 1 < T
  BY <1>1, Sizes DEF PoolSize
<1>5. Cardinality(DOMAIN h.pool) = P
  <2> HIDE DEF P
  <2>0. 0 \in Int /\ P - 1 \in Int
    BY <1>2
  <2>1. Cardinality(0..(P-1)) = P
    <3>1. Cardinality(0..(P-1)) = IF 0 > P - 1 THEN 0 ELSE P - 1 - 0 + 1
      BY <2>0, FS_Interval
    <3>2. P \in Nat
      BY <1>2
    <3> QED BY <3>1, <3>2
  <2> QED BY <2>1, <1>2
<1>6. /\ h2.max_chain = h.max_chain /\ h2.seed = h.seed /\ h2.entries = h.entries
      /\ h2.key_type = h.key_type /\ h2.free_list = Q - 1
      /\ h2.table = t /\ h2.pool = q
      /\ h2 = [h EXCEPT !.table = t, !.pool = q, !.free_list = Q - 1]
  <2> DEFINE m == Pooled(h, P, Q)
  <2>1. h2 = [m EXCEPT !.table = [i \in DOMAIN @ |-> IF i > h.max_chain THEN NULL ELSE @[i]]]
    BY <1>5 DEF GrownPool, Buckets
  <2>2. m = [h EXCEPT !.pool = q, !.free_list = Q - 1]
    BY DEF Pooled
  <2> HIDE DEF q, Q, m
  <2>3. m.table = h.table
    BY <2>2, <1>3 DEF HashRec
  <2>4. h2 = [m EXCEPT !.table = t]
    BY <2>1, <2>3, <1>2
  <2>5. h2 = [h EXCEPT !.pool = q, !.free_list = Q - 1, !.table = t]
    <3> HIDE DEF t
    <3> QED BY <2>2, <2>4
  <2> HIDE DEF t
  <2> QED BY <2>5, <1>3 DEF HashRec
<1>60. Used(w) \subseteq 0..(P-1)
  BY <1>2
<1> HIDE DEF P, Q, T
<1>7. Q - 1 # NULL /\ P..(Q-1) \subseteq 0..(Q-1) /\ 0..(P-1) \subseteq 0..(Q-1) /\ Q - 1 \in 0..(Q-1)
  BY <1>2, <1>4, HashAssumption
<1>8. h.free_list \in 0..(P-1) \cup {NULL} /\ h.free_list # Junk
  <2>1. h.free_list \in 0..(P-1) \cup {NULL}
    BY <1>3 DEF HashRec
  <2> QED BY <2>1, <1>2, HashAssumption
<1>9. /\ q \in [0..(Q-1) -> Bucket(Q)]
      /\ \A b \in 0..(P-1) : q[b] = h.pool[b]
      /\ \A b \in 0..(Q-1) : q[b].next = nx[b]
  <2>1. \A b \in 0..(P-1) : h.pool[b] \in Bucket(P) /\ Nexts(h)[b] = h.pool[b].next
    BY <1>2, <1>3 DEF HashRec, Nexts
  <2>2. \A b \in 0..(Q-1) : b < P => b \in 0..(P-1)
    BY <1>2
  <2>3. \A b \in 0..(Q-1) : q[b] \in Bucket(Q)
    BY <2>1, <2>2, <1>2, <1>4, <1>7, <1>8 DEF Bucket
  <2>4. \A b \in 0..(Q-1) : q[b].next = nx[b]
    BY <2>1, <2>2
  <2>5. \A b \in 0..(P-1) : q[b] = h.pool[b]
    BY <1>2, <1>7
  <2> QED BY <2>3, <2>4, <2>5
<1>10. t \in [0..(T-1) -> 0..(P-1) \cup {NULL, Junk}]
  BY <1>3 DEF HashRec
<1>11. h2 \in HashRec(T, Q)
  <2>1. t \in [0..(T-1) -> 0..(Q-1) \cup {NULL, Junk}]
    BY <1>7, <1>10
  <2> HIDE DEF t, q
  <2> QED BY <2>1, <1>3, <1>6, <1>7, <1>9 DEF HashRec
<1> HIDE DEF q
\* First the new slots are cleared: no bucket was there.
<1>12. \A b \in Used(w) : w.own[b] <= h.max_chain /\ w.own[b] \in Nat
  <2> SUFFICES ASSUME NEW b \in Used(w) PROVE w.own[b] <= h.max_chain /\ w.own[b] \in Nat
    OBVIOUS
  <2>1. h.max_chain # -1
    <3>1. P = Buckets(h.max_chain + 1)
      BY DEF P, PoolSize
    <3>2. Buckets(0) = 0
      BY HashAssumption DEF Buckets
    <3> QED BY <3>1, <3>2, <1>60
  <2>2. HashVal[h.seed][h.pool[b].key] \in Nat
    <3>1. h.seed \in Seeds /\ h.pool[b].key \in Keys
      BY <1>1, <1>3 DEF HashRec, HashOK
    <3> QED BY <3>1, HashAssumption
  <2>3. w.own[b] = HashVal[h.seed][h.pool[b].key] % (h.max_chain + 1)
    BY <1>1 DEF Homes
  <2> QED BY <2>1, <2>2, <2>3, <1>4
<1>13. \A i \in 0..(T-1) : i > h.max_chain => h.table[i] \notin 0..(P-1)
  <2> SUFFICES ASSUME NEW i \in 0..(T-1), i > h.max_chain, h.table[i] \in 0..(P-1)
               PROVE  FALSE
    OBVIOUS
  <2>1. w.own[h.table[i]] = i /\ h.table[i] \in Used(w)
    BY <1>2
  <2> QED BY <2>1, <1>4, <1>12
<1> DEFINE H == [i \in {Free} \cup 0..(T-1) |-> IF i = Free THEN h.free_list ELSE t[i]]
<1>14. InOrder({Free} \cup 0..(T-1), 0..(P-1), H, Nexts(h), w.own, w.rk)
  <2> DEFINE I == {Free} \cup 0..(T-1)
             D == 0..(P-1)
  <2>1. InOrder(I, D, Heads(h), Nexts(h), w.own, w.rk)
    BY <1>1, <1>2 DEF HashOK, Ordered
  <2>2. H \in [I -> D \cup {NULL, Junk}]
    BY <1>8, <1>10
  <2>3. \A i \in I : H[i] = Heads(h)[i] \/ (Heads(h)[i] \notin D /\ H[i] \notin D)
    BY <1>2, <1>13 DEF Heads
  <2>4. NULL \notin D /\ Junk \notin D
    BY <1>2
  <2> HIDE DEF H, I, D
  <2>5. InOrder(I, D, H, Nexts(h), w.own, w.rk)
    BY <2>1, <2>2, <2>3, <2>4, NewHeads
  <2> QED BY <2>5 DEF I, D
<1>15. H[Free] = h.free_list
  OBVIOUS
<1>16. InOrder({Free} \cup 0..(T-1), 0..(Q-1), [H EXCEPT ![Free] = Q - 1], nx, o, r)
  <2> HIDE DEF H
  <2> DEFINE I == {Free} \cup 0..(T-1)
  <2>1. Free \in I /\ InOrder(I, 0..(P-1), H, Nexts(h), w.own, w.rk)
    BY <1>14
  <2>2. nx = [b \in 0..(Q-1) |-> IF b < P THEN Nexts(h)[b]
                                 ELSE IF b = P THEN H[Free] ELSE b - 1]
    BY <1>15
  <2>3. NULL \notin Nat /\ Junk \notin Nat
    BY HashAssumption
  <2>4. IsLonger(P, Q, H, Nexts(h), w.own, w.rk, [H EXCEPT ![Free] = Q - 1], nx, o, r)
    BY <2>2, <1>2, <1>4 DEF IsLonger
  <2> HIDE DEF I, nx, o, r
  <2>5. H[Free] # Junk
    BY <1>8, <1>15
  <2>7. InOrder(I, 0..(Q-1), [H EXCEPT ![Free] = Q - 1], nx, o, r)
    BY <2>1, <2>3, <2>4, <2>5, NewBuckets
  <2> QED BY <2>7 DEF I
<1>17. Heads(h2) = [H EXCEPT ![Free] = Q - 1]
  <2>1. DOMAIN h2.table = 0..(T-1)
    BY <1>6, <1>10
  <2>2. Heads(h2) = [i \in {Free} \cup 0..(T-1) |-> IF i = Free THEN Q - 1 ELSE t[i]]
    <3>1. h2.free_list = Q - 1 /\ h2.table = t
      BY <1>6
    <3> HIDE DEF t
    <3>2. Heads(h2) = [i \in {Free} \cup 0..(T-1) |->
                         IF i = Free THEN h2.free_list ELSE h2.table[i]]
      BY <2>1 DEF Heads
    <3> QED BY <3>1, <3>2
  <2>3. DOMAIN H = {Free} \cup 0..(T-1) /\ \A i \in 0..(T-1) : i # Free => H[i] = t[i]
    OBVIOUS
  <2> HIDE DEF t, H
  <2>4. \A i \in {Free} \cup 0..(T-1) :
          [H EXCEPT ![Free] = Q - 1][i] = IF i = Free THEN Q - 1 ELSE t[i]
    BY <2>3
  <2> QED BY <2>2, <2>3, <2>4
<1>18. Nexts(h2) = nx
  BY <1>6, <1>9 DEF Nexts
<1> HIDE DEF H, nx
<1>19. Ordered(h2, w2)
  BY <1>6, <1>9, <1>10, <1>16, <1>17, <1>18 DEF Ordered
<1>20. Used(w2) = Used(w) /\ \A b \in Used(w) : w2.own[b] = w.own[b]
  <2>1. DOMAIN o = 0..(Q-1) /\ \A b \in 0..(Q-1) : o[b] = IF b < P THEN w.own[b] ELSE Free
    OBVIOUS
  <2>2. \A b : b \in 0..(P-1) <=> b \in 0..(Q-1) /\ b < P
    BY <1>2, <1>4
  <2>3. w2.own = o /\ DOMAIN w.own = 0..(P-1)
    BY <1>2
  <2> HIDE DEF o, w2
  <2>4. Used(w2) = { b \in 0..(Q-1) : o[b] # Free } /\ Used(w) = { b \in 0..(P-1) : w.own[b] # Free }
    BY <2>1, <2>3 DEF Used
  <2> QED BY <2>1, <2>2, <2>3, <2>4
<1> HIDE DEF w2, o, r, t
<1>21. \A b \in Used(w) : h2.pool[b] = h.pool[b]
  BY <1>6, <1>9, <1>60
<1>22. HashOK(h2, w2, T, Q)
  <2>1. /\ \A b \in Used(w) : h.pool[b].key \in Keys /\ h.pool[b].value \in Values
        /\ \A b, c \in Used(w) : h.pool[b].key = h.pool[c].key => b = c
    BY <1>1 DEF HashOK
  <2>2. /\ \A b \in Used(w2) : h2.pool[b].key \in Keys /\ h2.pool[b].value \in Values
        /\ \A b, c \in Used(w2) : h2.pool[b].key = h2.pool[c].key => b = c
    BY <2>1, <1>20, <1>21
  <2> QED BY <2>2, <1>2, <1>4, <1>11, <1>19 DEF HashOK
<1>23. Homes(h2, w2, {}) /\ SizeOK(h2)
  BY <1>1, <1>6, <1>20, <1>21 DEF Homes, SizeOK
<1>24. \A i \in DOMAIN h2.table : h2.table[i] # Junk
  <2>1. \A i \in 0..(T-1) : i <= h.max_chain => h.table[i] # Junk
    <3>1. \A i \in 0..(T-1) : h.table[i] = Junk => i > h.max_chain
      BY <1>2 DEF Good
    <3> QED BY <3>1, <1>2, <1>4
  <2>2. \A i \in 0..(T-1) : t[i] = IF i > h.max_chain THEN NULL ELSE h.table[i]
    BY DEF t
  <2>3. \A i \in 0..(T-1) : t[i] # Junk
    BY <2>1, <2>2, <1>2, <1>4, HashAssumption
  <2> QED BY <2>3, <1>6, <1>10
<1>25. h2.entries = Cardinality(Used(w2)) + p
  BY <1>6, <1>20 DEF Good
<1>26. TableSize(h2, "move") = T /\ PoolSize(h2, "move") = Q
  BY <1>6 DEF TableSize, PoolSize, Grown, T, Q
<1>27. Good(h2, w2, "move", {}, p)
  BY <1>22, <1>23, <1>24, <1>25, <1>26 DEF Good
<1>28. SameContent(h, w, h2, w2)
  BY <1>20, <1>21 DEF SameContent
<1>29. \A b \in Used(w2) : w2.own[b] \in 0..h2.max_chain
  <2> SUFFICES ASSUME NEW b \in Used(w) PROVE w.own[b] \in 0..h.max_chain
    BY <1>6, <1>20
  <2>1. w.own[b] <= h.max_chain /\ w.own[b] \in Nat
    BY <1>12
  <2> QED BY <2>1, <1>4
<1> QED BY <1>6, <1>7, <1>27, <1>28, <1>29

\* The new home of a bucket that moves is in the new part of the table.
LEMMA NewHome ==
    ASSUME NEW h, NEW w, NEW S, NEW p, Good(h, w, "move", S, p), h.max_chain \in Nat,
           NEW b \in Used(w), b \notin S
    PROVE  LET loc == HashVal[h.seed][h.pool[b].key] % Grown(h) IN
           /\ loc \in 0..(Grown(h) - 1) /\ w.own[b] \in 0..h.max_chain
           /\ loc # w.own[b] => loc > h.max_chain
<1> DEFINE x == HashVal[h.seed][h.pool[b].key]
           m == h.max_chain + 1
<1>1. x \in Nat
  <2>1. h.seed \in Seeds /\ h.pool[b].key \in Keys
    BY DEF Good, HashOK, HashRec
  <2> QED BY <2>1, HashAssumption
<1>2. Grown(h) = 2 * m /\ m \in Nat /\ m > 0
  BY Sizes DEF Good
<1>3. w.own[b] = x % m
  BY DEF Good, Homes
<1> HIDE DEF x, m
<1>4. /\ x % m \in 0..(m-1) /\ x % (2 * m) \in 0..(2*m-1)
      /\ x % (2 * m) = x % m \/ x % (2 * m) = (x % m) + m
  BY <1>1, <1>2, TwiceTheSize
<1>5. x % Grown(h) \in 0..(Grown(h) - 1) /\ w.own[b] \in 0..(m-1)
  BY <1>2, <1>3, <1>4
<1>6. x % Grown(h) # w.own[b] => x % Grown(h) >= m
  BY <1>2, <1>3, <1>4
<1>7. x % Grown(h) # w.own[b] => x % Grown(h) > h.max_chain
  BY <1>2, <1>5, <1>6 DEF m
<1>8. w.own[b] \in 0..h.max_chain
  BY <1>5 DEF m
<1> QED BY <1>5, <1>7, <1>8 DEF x

\* MoveBucket, of a bucket that stays.
LEMMA GoodKept ==
    ASSUME NEW h, NEW w, NEW S, NEW p, Good(h, w, "move", S, p),
           NEW b \in Used(w), HashVal[h.seed][h.pool[b].key] % Grown(h) = w.own[b]
    PROVE  Good(h, w, "move", S \cup {b}, p)
BY DEF Good, Homes

\* The loop of expand_hash is at bucket b, the first of its chain or after e.
IsAt(h, w, b, e) ==
  (e = NULL /\ h.table[w.own[b]] = b) \/ (e \in DOMAIN h.pool /\ h.pool[e].next = b)

PutAt(u, b, loc) == [u EXCEPT !.pool[b].next = u.table[loc], !.table[loc] = b]
MovedTo(h, w, b, e, loc) == PutAt(CutAt(h, w.own[b], e, b), b, loc)

\* The chain of b in the table that has grown.
NewSlot(h, b) == HashVal[h.seed][h.pool[b].key] % Grown(h)

\* The hash with b moved to the chain loc is as good, and the others stay.
MovesWell(h, w, S, p, b, loc, h2, w2) ==
  /\ Good(h2, w2, "move", S \cup {b}, p) /\ SameContent(h, w, h2, w2)
  /\ w2.own[b] = loc /\ (\A x \in Used(w) \ {b} : w2.own[x] = w.own[x])
  /\ loc > h.max_chain
  /\ \A x, y \in DOMAIN h.pool \ {b} : w2.rk[x] <= w2.rk[y] <=> w.rk[x] <= w.rk[y]
  /\ h2.max_chain = h.max_chain /\ h2.free_list = h.free_list
  /\ h2.key_type = h.key_type

\* MoveBucket, of a bucket that moves.
LEMMA GoodMoved ==
    ASSUME NEW h, NEW w, NEW S, NEW p, Good(h, w, "move", S, p), h.max_chain \in Nat,
           NEW b \in Used(w), b \notin S, NEW e, IsAt(h, w, b, e),
           NEW loc, loc = NewSlot(h, b), loc # w.own[b]
    PROVE  MovesWell(h, w, S, p, b, loc, MovedTo(h, w, b, e, loc), Shift(h, w, b, loc))
<1> DEFINE T == Grown(h)
           P == Buckets(Grown(h))
           u == CutAt(h, w.own[b], e, b)
           h2 == PutAt(u, b, loc)
           w2 == Shift(h, w, b, loc)
<1>0. loc # w.own[b] /\ loc = HashVal[h.seed][h.pool[b].key] % Grown(h)
  BY DEF NewSlot
<1>1. HashOK(h, w, T, P) /\ Homes(h, w, S) /\ SizeOK(h)
  BY DEF Good, TableSize, PoolSize
<1>2. /\ DOMAIN h.pool = 0..(P-1) /\ DOMAIN h.table = 0..(T-1) /\ T \in Nat /\ P \in Nat
      /\ w.own \in [0..(P-1) -> {Free} \cup 0..(T-1)]
      /\ Used(w) = { c \in 0..(P-1) : w.own[c] \in 0..(T-1) }
      /\ NULL \notin 0..(P-1) /\ Junk \notin 0..(P-1) /\ Free \notin 0..(T-1)
  BY <1>1, OrderedFacts
<1>3. loc \in 0..(T-1) /\ loc > h.max_chain
  BY <1>0, NewHome
<1> HIDE DEF u, h2, w2
<1>4. h \in HashRec(T, P)
  BY <1>1 DEF HashOK
<1>5. b \in 0..(P-1) /\ w.own[b] \in 0..(T-1) /\ w.own[b] # Free
  BY <1>2
<1>60. (e = NULL /\ h.table[w.own[b]] = b) \/ (e \in 0..(P-1) /\ h.pool[e].next = b)
  BY <1>2 DEF IsAt
<1>6. /\ u \in HashRec(T, P) /\ u.max_chain = h.max_chain /\ u.seed = h.seed
      /\ u.key_type = h.key_type /\ u.entries = h.entries /\ u.free_list = h.free_list
      /\ \A c \in 0..(P-1) : u.pool[c].key = h.pool[c].key /\ u.pool[c].value = h.pool[c].value
      /\ \A l \in 0..(T-1) \ {w.own[b]} : u.table[l] = h.table[l]
      /\ u.table[w.own[b]] # Junk
      /\ IsCut(0..(P-1), Heads(h), Nexts(h), w.own, b, Heads(u), Nexts(u))
  <2> HIDE DEF T, P
  <2>1. u = CutAt(h, w.own[b], e, b)
    BY DEF u
  <2> QED BY <2>1, <1>1, <1>60, CutFacts
<1>7. \A i \in 0..(T-1) : h.table[i] # Junk
  BY <1>2 DEF Good
<1>8. u.table[loc] \in 0..(P-1) \cup {NULL} /\ u.table[loc] = h.table[loc]
  <2> HIDE DEF T, P
  <2>1. u.table[loc] = h.table[loc]
    BY <1>0, <1>3, <1>6
  <2>2. h.table[loc] \in 0..(P-1) \cup {NULL, Junk}
    BY <1>3, <1>4 DEF HashRec
  <2> QED BY <2>1, <2>2, <1>3, <1>7
<1> HIDE DEF T, P
<1> DEFINE q == [u.pool EXCEPT ![b].next = u.table[loc]]
           t == [u.table EXCEPT ![loc] = b]
<1>9. /\ h2.max_chain = h.max_chain /\ h2.seed = h.seed /\ h2.entries = h.entries
      /\ h2.key_type = h.key_type /\ h2.free_list = h.free_list
      /\ h2.table = t /\ h2.pool = q
      /\ h2 = [u EXCEPT !.pool = q, !.table = t]
  BY <1>6 DEF HashRec, h2, PutAt
<1>10. /\ q \in [0..(P-1) -> Bucket(P)]
       /\ \A c \in 0..(P-1) : q[c].key = h.pool[c].key /\ q[c].value = h.pool[c].value
       /\ \A c \in 0..(P-1) : q[c].next = IF c = b THEN u.table[loc] ELSE u.pool[c].next
  <2>1. u.pool \in [0..(P-1) -> Bucket(P)]
    BY <1>6 DEF HashRec
  <2>2. /\ q \in [0..(P-1) -> Bucket(P)]
        /\ \A c \in 0..(P-1) : /\ q[c].key = u.pool[c].key /\ q[c].value = u.pool[c].value
                               /\ q[c].next = IF c = b THEN u.table[loc] ELSE u.pool[c].next
    BY <2>1, <1>5, <1>8, SetNext
  <2> QED BY <2>2, <1>6
<1>11. /\ t \in [0..(T-1) -> 0..(P-1) \cup {NULL, Junk}]
       /\ \A i \in 0..(T-1) : t[i] = IF i = loc THEN b ELSE u.table[i]
  BY <1>3, <1>5, <1>6 DEF HashRec
<1> HIDE DEF q, t
<1>12. h2 \in HashRec(T, P)
  BY <1>6, <1>9, <1>10, <1>11 DEF HashRec
<1>13. /\ DOMAIN Heads(u) = {Free} \cup 0..(T-1) /\ Heads(u)[Free] = h.free_list
       /\ \A i \in 0..(T-1) : Heads(u)[i] = u.table[i]
       /\ DOMAIN Nexts(u) = 0..(P-1) /\ \A c \in 0..(P-1) : Nexts(u)[c] = u.pool[c].next
       /\ \A i \in 0..(T-1) : Heads(h)[i] = h.table[i]
  BY <1>2, <1>6 DEF Heads, Nexts, HashRec
<1>14. Heads(h2) = [Heads(u) EXCEPT ![loc] = b]
  <2>1. DOMAIN h2.table = 0..(T-1) /\ h2.free_list = h.free_list /\ loc # Free
    BY <1>2, <1>3, <1>9, <1>11
  <2>2. Heads(h2) = [i \in {Free} \cup 0..(T-1) |-> IF i = Free THEN h.free_list ELSE t[i]]
    BY <2>1, <1>9 DEF Heads
  <2>3. \A i \in {Free} \cup 0..(T-1) :
          [Heads(u) EXCEPT ![loc] = b][i] = IF i = Free THEN h.free_list ELSE t[i]
    BY <2>1, <1>2, <1>11, <1>13
  <2>4. [Heads(u) EXCEPT ![loc] = b]
          = [i \in {Free} \cup 0..(T-1) |-> [Heads(u) EXCEPT ![loc] = b][i]]
    BY <1>13
  <2> QED BY <2>2, <2>3, <2>4
<1>15. Nexts(h2) = [Nexts(u) EXCEPT ![b] = Heads(u)[loc]]
  <2>1. DOMAIN h2.pool = 0..(P-1)
    BY <1>9, <1>10
  <2>2. \A c \in 0..(P-1) : h2.pool[c].next = [Nexts(u) EXCEPT ![b] = Heads(u)[loc]][c]
    BY <2>1, <1>3, <1>5, <1>9, <1>10, <1>13
  <2> QED BY <2>1, <2>2, <1>13 DEF Nexts
<1>16. /\ Ordered(h2, w2) /\ w2.own = [w.own EXCEPT ![b] = loc]
       /\ Used(w2) = Used(w) \cup {b}
       /\ \A x, y \in 0..(P-1) \ {b} : w2.rk[x] <= w2.rk[y] <=> w.rk[x] <= w.rk[y]
  <2>1. loc \in {Free} \cup 0..(T-1) /\ loc # Free /\ Heads(h)[loc] # Junk
    BY <1>2, <1>3, <1>7, <1>13
  <2>2. b \in 0..(P-1) /\ loc # w.own[b]
        /\ IsCut(0..(P-1), Heads(h), Nexts(h), w.own, b, Heads(u), Nexts(u))
    BY <1>0, <1>5, <1>6
  <2>3. \A j : /\ j \in {Free} \cup 0..(T-1) /\ j # w.own[b] /\ Heads(h)[j] # Junk
               /\ Heads(h2) = [Heads(u) EXCEPT ![j] = b]
               /\ Nexts(h2) = [Nexts(u) EXCEPT ![b] = Heads(u)[j]]
               => /\ Ordered(h2, Shift(h, w, b, j)) 
                  /\ Used(Shift(h, w, b, j)) = IF j = Free THEN Used(w) \ {b} ELSE Used(w) \cup {b}
                  /\ Shift(h, w, b, j).own = [w.own EXCEPT ![b] = j]
                  /\ \A x, y \in 0..(P-1) \ {b} :
                       Shift(h, w, b, j).rk[x] <= Shift(h, w, b, j).rk[y] <=> w.rk[x] <= w.rk[y]
    BY <2>2, <1>1, <1>12, OrderedMove
  <2> QED BY <2>1, <2>2, <2>3, <1>14, <1>15 DEF w2
<1>17. /\ Used(w2) = Used(w)
       /\ \A c \in Used(w) : /\ h2.pool[c].key = h.pool[c].key
                             /\ h2.pool[c].value = h.pool[c].value
       /\ \A c \in Used(w) \ {b} : w2.own[c] = w.own[c]
       /\ w2.own[b] = loc
  <2>1. Used(w2) = Used(w) /\ b \in Used(w) /\ Used(w) \subseteq 0..(P-1)
    BY <1>2, <1>16
  <2>2. \A c \in Used(w) : h2.pool[c].key = h.pool[c].key /\ h2.pool[c].value = h.pool[c].value
    BY <2>1, <1>9, <1>10
  <2>3. w2.own[b] = loc /\ \A c \in Used(w) \ {b} : w2.own[c] = w.own[c]
    BY <2>1, <1>2, <1>5, <1>16
  <2> QED BY <2>1, <2>2, <2>3
<1>18. HashOK(h2, w2, T, P)
  <2>1. \A c \in Used(w) : h.pool[c].key \in Keys /\ h.pool[c].value \in Values
    BY <1>1 DEF HashOK
  <2>2. \A c, d \in Used(w) : h.pool[c].key = h.pool[d].key => c = d
    BY <1>1 DEF HashOK
  <2>3. \A c \in Used(w2) : h2.pool[c].key \in Keys /\ h2.pool[c].value \in Values
    BY <2>1, <1>17
  <2>4. \A c, d \in Used(w2) : h2.pool[c].key = h2.pool[d].key => c = d
    BY <2>2, <1>17
  <2> QED BY <2>3, <2>4, <1>2, <1>12, <1>16 DEF HashOK
<1>19. Grown(h2) = Grown(h)
  BY <1>9 DEF Grown
<1>20. Homes(h2, w2, S \cup {b})
  <2> SUFFICES ASSUME NEW c \in Used(w)
               PROVE  w2.own[c] = HashVal[h2.seed][h2.pool[c].key]
                                    % (IF c \in S \cup {b} THEN Grown(h2) ELSE h2.max_chain + 1)
    BY <1>17 DEF Homes
  <2>1. CASE c = b
    BY <2>1, <1>0, <1>9, <1>17, <1>19
  <2>2. CASE c # b
    <3>1. w.own[c] = HashVal[h.seed][h.pool[c].key]
                       % (IF c \in S THEN Grown(h) ELSE h.max_chain + 1)
      BY <1>1 DEF Homes
    <3>2. c \in S <=> c \in S \cup {b}
      BY <2>2
    <3>3. w2.own[c] = w.own[c] /\ h2.pool[c].key = h.pool[c].key
      BY <2>2, <1>17
    <3> QED BY <3>1, <3>2, <3>3, <1>9, <1>19
  <2> QED BY <2>1, <2>2
<1>21. \A i \in DOMAIN h2.table : h2.table[i] # Junk
  <2>1. DOMAIN h2.table = 0..(T-1)
    BY <1>9, <1>11
  <2>2. \A i \in 0..(T-1) : u.table[i] # Junk
    BY <1>6, <1>7
  <2>3. b # Junk
    BY <1>2, <1>5
  <2> QED BY <2>1, <2>2, <2>3, <1>9, <1>11
<1>22. SizeOK(h2)
  BY <1>1, <1>9 DEF SizeOK
<1>23. TableSize(h2, "move") = T /\ PoolSize(h2, "move") = P
  BY <1>19 DEF TableSize, PoolSize, T, P
<1>24. h2.entries = Cardinality(Used(w2)) + p
  BY <1>9, <1>17 DEF Good
<1>25. Good(h2, w2, "move", S \cup {b}, p)
  BY <1>18, <1>20, <1>21, <1>22, <1>23, <1>24 DEF Good
<1>26. SameContent(h, w, h2, w2)
  BY <1>17 DEF SameContent
<1>27. /\ w2.own[b] = loc /\ (\A x \in Used(w) \ {b} : w2.own[x] = w.own[x])
        /\ loc > h.max_chain
       /\ \A x, y \in DOMAIN h.pool \ {b} : w2.rk[x] <= w2.rk[y] <=> w.rk[x] <= w.rk[y]
       /\ h2.max_chain = h.max_chain /\ h2.free_list = h.free_list
       /\ h2.key_type = h.key_type
  BY <1>2, <1>3, <1>9, <1>16
<1>28. MovesWell(h, w, S, p, b, loc, h2, w2)
  BY <1>25, <1>26, <1>27 DEF MovesWell
<1> QED BY <1>28 DEF u, h2, w2, MovedTo

\* Expanded
LEMMA GoodExpanded ==
    ASSUME NEW h, NEW w, NEW S, NEW p, Good(h, w, "move", S, p), Used(w) \subseteq S, NEW h2,
           h2 = [h EXCEPT !.max_chain = Grown(h) - 1]
    PROVE  Good(h2, w, "stable", {}, p) /\ SameContent(h, w, h2, w)
<1> DEFINE T == Grown(h)
           P == Buckets(Grown(h))
<1>1. HashOK(h, w, T, P) /\ Homes(h, w, S) /\ SizeOK(h)
  BY DEF Good, TableSize, PoolSize
<1>2. T \in Nat /\ T > 0 /\ T * MAXFULL_PERCENT >= 100
  <2>1. Grown(h) \in Nat /\ Grown(h) > h.max_chain + 1 /\ h.max_chain + 1 \in Nat
        /\ Grown(h) * MAXFULL_PERCENT >= 100
    BY <1>1, Sizes
  <2> QED BY <2>1
<1>3. h \in HashRec(T, P) /\ Ordered(h, w)
  BY <1>1 DEF HashOK
<1>4. /\ h2.max_chain = T - 1 /\ h2.seed = h.seed /\ h2.entries = h.entries
      /\ h2.key_type = h.key_type /\ h2.free_list = h.free_list
      /\ h2.table = h.table /\ h2.pool = h.pool
  BY <1>3 DEF HashRec
<1> HIDE DEF T, P
<1>5. h2 \in HashRec(T, P)
  BY <1>2, <1>3, <1>4 DEF HashRec, T
<1>6. Ordered(h2, w)
  BY <1>3, <1>4 DEF Ordered, Heads, Nexts
<1>7. HashOK(h2, w, T, P)
  BY <1>1, <1>4, <1>5, <1>6 DEF HashOK
<1>8. h2.max_chain + 1 = T /\ h2.max_chain \in Nat
  BY <1>2, <1>4
<1>9. Homes(h2, w, {})
  <2>1. \A b \in Used(w) : w.own[b] = HashVal[h.seed][h.pool[b].key] % T
    BY <1>1 DEF Homes, T
  <2> QED BY <2>1, <1>4, <1>8 DEF Homes
<1>10. SizeOK(h2) /\ h2.max_chain # -1
  BY <1>2, <1>8 DEF SizeOK
<1>11. \A i \in DOMAIN h2.table : h2.table[i] # Junk
  BY <1>4 DEF Good
<1>12. TableSize(h2, "stable") = T /\ PoolSize(h2, "stable") = P
  BY <1>8 DEF TableSize, PoolSize, T, P
<1>13. Good(h2, w, "stable", {}, p)
  BY <1>4, <1>7, <1>9, <1>10, <1>11, <1>12 DEF Good
<1> QED BY <1>4, <1>13 DEF SameContent

----------------------------------------------------------------------------
(* The invariant. W gives each hash its order.                              *)

\* x is behind b when the table is walked.
After(w, b, x) == w.own[x] > w.own[b] \/ (w.own[x] = w.own[b] /\ w.rk[x] > w.rk[b])

Pairs(h, B) == { <<h.pool[b].key, h.pool[b].value>> : b \in B }

\* Hash n grows, or not, when op is o.
Phase(o, n) == IF o.at \in {"grow_table", "grow_pool", "move"} /\ o.on = n THEN o.at ELSE "stable"
ScannedIn(o, n) == IF Phase(o, n) = "move" THEN o.scanned ELSE {}
PendIn(o, n) == IF Phase(o, n) # "stable" /\ o.key # NULL THEN 1 ELSE 0

FromRec == [i : Nat, bi : Nat \cup {NULL}]
CloneRec == [at : {"clone"}, from : FromRec]
GrowRec == [at : {"grow_table", "grow_pool"}, on : Names, key : Keys \cup {NULL},
            value : Values \cup {NULL}, ret : {Idle} \cup CloneRec]
MoveRec == [at : {"move"}, on : Names, key : Keys \cup {NULL},
            value : Values \cup {NULL}, ret : {Idle} \cup CloneRec,
            hi : Nat, prev : Nat \cup {NULL}, scanned : SUBSET Nat]
IterRec == [active : {TRUE}, i : Int, bi : Nat \cup {NULL, Junk}, got : Seq(Keys),
            all : SUBSET Keys]

\* A call that has to grow a hash, for a key that is not in it.
GrowOK ==
  op.at \notin {"idle", "clone"} =>
    /\ op.on \in Live
    /\ op.key # NULL => op.value \in Values /\ op.key \notin KeysOf(hash[op.on])
    /\ op.ret # Idle => op.on = "clone"

OpOK == op \in {Idle} \cup CloneRec \cup GrowRec \cup MoveRec /\ GrowOK

\* What expand_hash has moved, when it is in chain hi behind prev: the new part
\* of the table, the chains before hi and the part of hi up to prev.
Scanned(h, w, hi, prev) ==
  { b \in Used(w) : \/ w.own[b] > h.max_chain \/ w.own[b] < hi
                    \/ w.own[b] = hi /\ prev # NULL /\ w.rk[b] <= w.rk[prev] }
MoveOK(h, w, hi, prev, S) ==
  /\ h.free_list # NULL /\ hi <= h.max_chain + 1 /\ S = Scanned(h, w, hi, prev)
  /\ prev # NULL => prev \in Used(w) /\ w.own[prev] = hi /\ hi <= h.max_chain

\* hash_clone has copied what is not behind from.
FromOp == IF op.at = "clone" THEN op.from ELSE op.ret.from
Visited(w, from) == IF from.bi = NULL THEN {} ELSE { x \in Used(w) : ~ After(w, from.bi, x) }
Pending == IF op.at # "clone" /\ op.key # NULL THEN {<<op.key, op.value>>} ELSE {}
CloneOK(W) ==
  Cloning =>
    /\ "clone" \in Live
    /\ FromOp.bi # NULL => /\ FromOp.bi \in Used(W["hash"])
                           /\ W["hash"].own[FromOp.bi] = FromOp.i
    /\ Pairs(hash["clone"], Used(W["clone"])) \cup Pending
         = Pairs(hash["hash"], Visited(W["hash"], FromOp))

\* The buckets an iterator has not returned yet.
Rest(w, t) ==
  IF t.i = -1 THEN {} ELSE IF t.bi = Junk THEN Used(w)
  ELSE { x \in Used(w) : x = t.bi \/ After(w, t.bi, x) }
RestKeys(h, w, t) == { h.pool[x].key : x \in Rest(w, t) }
IterOK(h, w, t) ==
  /\ \/ t.i = -1
     \/ t.i = 0 /\ t.bi = Junk /\ t.got = <<>> /\ Used(w) # {}
     \/ t.bi \in Used(w) /\ t.i = w.own[t.bi]
  /\ t.all = Range(t.got) \cup RestKeys(h, w, t)
  /\ Range(t.got) \cap RestKeys(h, w, t) = {}
  /\ \A j, l \in DOMAIN t.got : t.got[j] = t.got[l] => j = l

ShapeOK ==
  /\ DOMAIN hash = Names /\ hash = [n \in Names |-> hash[n]]
  /\ "hash" \in Live /\ utf8 \subseteq Keys

IInv(W) ==
  /\ ShapeOK /\ OpOK
  /\ \A n \in Live : Good(hash[n], W[n], Phase(op, n), ScannedIn(op, n), PendIn(op, n))
  /\ op.at = "move" => MoveOK(hash[op.on], W[op.on], op.hi, op.prev, op.scanned)
  /\ CloneOK(W)
  /\ it # NoIter => it \in IterRec /\ Phase(op, "hash") = "stable" /\ IterOK(hash["hash"], W["hash"], it)

Inv == \E W : IInv(W)

----------------------------------------------------------------------------
(* Walks of the table.                                                      *)

LEMMA GoodIsLive ==
    ASSUME NEW h, NEW w, NEW ph, NEW S, NEW p, Good(h, w, ph, S, p)
    PROVE  h # NoHash
<1>1. "pool" \in DOMAIN h
  BY DEF Good, HashOK, HashRec
<1> QED BY <1>1 DEF NoHash

\* A hash that does not grow.
LEMMA StableFacts ==
    ASSUME NEW h, NEW w, NEW p, Good(h, w, "stable", {}, p)
    PROVE  /\ h.max_chain \in Nat
           /\ \A b \in Used(w) : /\ b \in DOMAIN h.pool /\ b \in Nat /\ b # NULL /\ b # Junk
                                 /\ w.own[b] \in 0..h.max_chain /\ w.rk[b] \in Nat
           /\ \A i \in 0..h.max_chain :
                \/ /\ h.table[i] \in Used(w) /\ w.own[h.table[i]] = i
                   /\ \A x \in Used(w) : w.own[x] = i => w.rk[h.table[i]] <= w.rk[x]
                \/ h.table[i] = NULL /\ \A x \in Used(w) : w.own[x] # i
           /\ \A b \in Used(w) :
                \/ /\ h.pool[b].next \in Used(w) /\ w.own[h.pool[b].next] = w.own[b]
                   /\ w.rk[b] < w.rk[h.pool[b].next]
                   /\ \A x \in Used(w) : w.own[x] = w.own[b] /\ w.rk[b] < w.rk[x]
                                           => w.rk[h.pool[b].next] <= w.rk[x]
                \/ /\ h.pool[b].next = NULL
                   /\ \A x \in Used(w) : w.own[x] = w.own[b] => w.rk[x] <= w.rk[b]
           /\ \A b, c \in Used(w) : w.own[b] = w.own[c] /\ w.rk[b] = w.rk[c] => b = c
<1> DEFINE T == h.max_chain + 1
           P == PoolSize(h, "stable")
           D == 0..(P-1)
           I == {Free} \cup 0..(T-1)
<1>1. HashOK(h, w, T, P)
  BY DEF Good, TableSize
<1>2. /\ DOMAIN h.pool = D /\ DOMAIN h.table = 0..(T-1) /\ T \in Nat /\ P \in Nat
      /\ w.own \in [D -> I] /\ w.rk \in [D -> Nat]
      /\ Used(w) = { b \in D : w.own[b] \in 0..(T-1) }
      /\ NULL \notin D /\ Junk \notin D /\ Free \notin 0..(T-1)
  BY <1>1, OrderedFacts
<1>3. h.max_chain \in Nat /\ 0..(T-1) = 0..h.max_chain
  BY DEF Good, SizeOK
<1>4. InOrder(I, D, Heads(h), Nexts(h), w.own, w.rk)
  BY <1>1, <1>2 DEF HashOK, Ordered
<1>5. /\ \A i \in 0..(T-1) : Heads(h)[i] = h.table[i] /\ h.table[i] \in D \cup {NULL}
      /\ \A b \in D : Nexts(h)[b] = h.pool[b].next /\ h.pool[b].next \in D \cup {NULL}
  <2>1. \A i \in 0..(T-1) : h.table[i] # Junk
    BY <1>2 DEF Good
  <2>2. /\ \A i \in 0..(T-1) : h.table[i] \in D \cup {NULL, Junk}
        /\ \A b \in D : h.pool[b].next \in D \cup {NULL}
    BY <1>1 DEF HashOK, HashRec, Bucket
  <2> QED BY <2>1, <2>2, <1>2 DEF Heads, Nexts
<1>6. \A b \in Used(w) : b \in D /\ b \in Nat /\ w.own[b] \in 0..(T-1) /\ w.rk[b] \in Nat
  BY <1>2
<1> HIDE DEF D, T, P
<1>7. ASSUME NEW i \in 0..(T-1)
      PROVE  \/ /\ h.table[i] \in Used(w) /\ w.own[h.table[i]] = i
                /\ \A x \in Used(w) : w.own[x] = i => w.rk[h.table[i]] <= w.rk[x]
             \/ h.table[i] = NULL /\ \A x \in Used(w) : w.own[x] # i
  <2>1. /\ Heads(h)[i] \in D => w.own[Heads(h)[i]] = i
        /\ \A x \in D : w.own[x] = i => Heads(h)[i] \in D /\ w.rk[Heads(h)[i]] <= w.rk[x]
    BY <1>4 DEF InOrder
  <2> QED BY <2>1, <1>2, <1>5
<1>8. ASSUME NEW b \in Used(w)
      PROVE  \/ /\ h.pool[b].next \in Used(w) /\ w.own[h.pool[b].next] = w.own[b]
                /\ w.rk[b] < w.rk[h.pool[b].next]
                /\ \A x \in Used(w) : w.own[x] = w.own[b] /\ w.rk[b] < w.rk[x]
                                        => w.rk[h.pool[b].next] <= w.rk[x]
             \/ /\ h.pool[b].next = NULL
                /\ \A x \in Used(w) : w.own[x] = w.own[b] => w.rk[x] <= w.rk[b]
  <2>1. /\ Nexts(h)[b] \in D => w.own[Nexts(h)[b]] = w.own[b] /\ w.rk[b] < w.rk[Nexts(h)[b]]
        /\ \A x \in D : w.own[b] = w.own[x] /\ w.rk[b] < w.rk[x]
                          => Nexts(h)[b] \in D /\ w.rk[Nexts(h)[b]] <= w.rk[x]
    BY <1>4, <1>6 DEF InOrder
  <2>2. Nexts(h)[b] = h.pool[b].next /\ h.pool[b].next \in D \cup {NULL}
    BY <1>5, <1>6
  <2>3. CASE h.pool[b].next \in D
    <3>1. h.pool[b].next \in Used(w)
      BY <2>1, <2>2, <2>3, <1>2, <1>6
    <3>2. \A x \in Used(w) : x \in D
      BY <1>6
    <3> QED BY <2>1, <2>2, <2>3, <3>1, <3>2
  <2>4. CASE h.pool[b].next = NULL
    <3>1. \A x \in Used(w) : w.own[x] = w.own[b] => ~ (w.rk[b] < w.rk[x])
      BY <2>1, <2>2, <2>4, <1>2, <1>6
    <3>2. \A x \in Used(w) : ~ (w.rk[b] < w.rk[x]) => w.rk[x] <= w.rk[b]
      BY <1>6
    <3> QED BY <2>4, <3>1, <3>2
  <2> QED BY <2>2, <2>3, <2>4
<1>9. \A b, c \in Used(w) : w.own[b] = w.own[c] /\ w.rk[b] = w.rk[c] => b = c
  BY <1>4, <1>6 DEF InOrder
<1>10. \A b \in Used(w) : b \in DOMAIN h.pool /\ b # NULL /\ b # Junk
  BY <1>2, <1>6
<1> QED BY <1>3, <1>6, <1>7, <1>8, <1>9, <1>10

\* Locate finds the first bucket of the chains from i on.
LEMMA LocateFacts ==
    ASSUME NEW h, NEW w, NEW p, Good(h, w, "stable", {}, p), NEW i \in Nat,
           NEW f, f = Locate(h, i)
    PROVE  \/ f.bi = NULL /\ f.i = -1 /\ \A x \in Used(w) : w.own[x] < i
           \/ /\ f.bi \in Used(w) /\ f.i = w.own[f.bi] /\ f.i >= i
              /\ \A x \in Used(w) : w.own[x] >= i <=> x = f.bi \/ After(w, f.bi, x)
<1> DEFINE full == { j \in i..h.max_chain : h.table[j] # NULL }
<1>1. /\ h.max_chain \in Nat
      /\ \A b \in Used(w) : w.own[b] \in 0..h.max_chain /\ w.rk[b] \in Nat
      /\ \A l \in 0..h.max_chain :
           \/ /\ h.table[l] \in Used(w) /\ w.own[h.table[l]] = l
              /\ \A x \in Used(w) : w.own[x] = l => w.rk[h.table[l]] <= w.rk[x]
           \/ h.table[l] = NULL /\ \A x \in Used(w) : w.own[x] # l
      /\ \A b, c \in Used(w) : w.own[b] = w.own[c] /\ w.rk[b] = w.rk[c] => b = c
      /\ \A b \in Used(w) : b # NULL
  BY StableFacts
<1>2. \A x \in Used(w) : w.own[x] >= i => w.own[x] \in full
  BY <1>1
<1>3. CASE full = {}
  <2>1. f = [i |-> -1, bi |-> NULL]
    BY <1>3 DEF Locate
  <2>2. \A x \in Used(w) : ~ (w.own[x] >= i)
    BY <1>2, <1>3
  <2>3. \A x \in Used(w) : w.own[x] < i
    BY <2>2, <1>1
  <2> QED BY <2>1, <2>3
<1>4. CASE full # {}
  <2>1. full \subseteq Nat
    BY <1>1
  <2>2. \E j \in full : \A l \in full : j <= l
    <3> HIDE DEF full
    <3> QED BY <2>1, <1>4, LeastNatural
  <2> DEFINE j == CHOOSE j \in full : \A l \in full : j <= l
  <2>3. f = [i |-> j, bi |-> h.table[j]]
    BY <1>4 DEF Locate
  <2>4. j \in full /\ \A l \in full : j <= l
    <3> HIDE DEF full
    <3> QED BY <2>2
  <2> HIDE DEF j
  <2>5. j \in 0..h.max_chain /\ j >= i /\ j \in Nat /\ h.table[j] # NULL
    BY <2>4, <1>1
  <2>6. /\ f.bi \in Used(w) /\ f.i = w.own[f.bi] /\ f.i = j /\ w.own[f.bi] = j
        /\ \A x \in Used(w) : w.own[x] = j => w.rk[f.bi] <= w.rk[x]
    BY <2>3, <2>5, <1>1
  <2> HIDE DEF full
  <2>7. ASSUME NEW x \in Used(w), w.own[x] >= i
        PROVE  x = f.bi \/ After(w, f.bi, x)
    <3>1. j <= w.own[x] /\ w.own[x] \in Nat /\ w.rk[x] \in Nat /\ w.rk[f.bi] \in Nat
      BY <2>4, <2>6, <2>7, <1>1, <1>2
    <3>2. CASE w.own[x] = j /\ w.rk[x] = w.rk[f.bi]
      BY <3>2, <2>6, <1>1
    <3>3. CASE w.own[x] = j /\ w.rk[x] # w.rk[f.bi]
      <4>1. w.rk[f.bi] <= w.rk[x]
        BY <3>3, <2>6
      <4> QED BY <4>1, <3>1, <3>3, <2>6 DEF After
    <3>4. CASE w.own[x] # j
      BY <3>1, <3>4, <2>5, <2>6 DEF After
    <3> QED BY <3>2, <3>3, <3>4
  <2>8. ASSUME NEW x \in Used(w), x = f.bi \/ After(w, f.bi, x)
        PROVE  w.own[x] >= i
    <3>1. w.own[x] \in Nat /\ w.own[x] >= j
      BY <2>5, <2>6, <2>8, <1>1 DEF After
    <3> QED BY <3>1, <2>5
  <2> QED BY <2>5, <2>6, <2>7, <2>8
<1> QED BY <1>3, <1>4

\* Following finds the next bucket of a walk.
LEMMA FollowingFacts ==
    ASSUME NEW h, NEW w, NEW p, Good(h, w, "stable", {}, p), NEW b \in Used(w),
           NEW f, f = Following(h, w.own[b], b)
    PROVE  \/ f.bi = NULL /\ f.i = -1 /\ \A x \in Used(w) : ~ After(w, b, x)
           \/ /\ f.bi \in Used(w) /\ f.i = w.own[f.bi] /\ After(w, b, f.bi)
              /\ \A x \in Used(w) : After(w, b, x) <=> x = f.bi \/ After(w, f.bi, x)
<1>1. \A x \in Used(w) : w.own[x] \in Nat /\ w.rk[x] \in Nat /\ x # NULL
  BY StableFacts
<1>2. \/ /\ h.pool[b].next \in Used(w) /\ w.own[h.pool[b].next] = w.own[b]
         /\ w.rk[b] < w.rk[h.pool[b].next]
         /\ \A x \in Used(w) : w.own[x] = w.own[b] /\ w.rk[b] < w.rk[x]
                                 => w.rk[h.pool[b].next] <= w.rk[x]
      \/ /\ h.pool[b].next = NULL
         /\ \A x \in Used(w) : w.own[x] = w.own[b] => w.rk[x] <= w.rk[b]
  BY StableFacts
<1>3. \A x, c \in Used(w) : w.own[x] = w.own[c] /\ w.rk[x] = w.rk[c] => x = c
  BY StableFacts
<1>4. CASE h.pool[b].next # NULL
  <2> DEFINE c == h.pool[b].next
  <2>1. f = [i |-> w.own[b], bi |-> c]
    BY <1>4 DEF Following
  <2>2. /\ c \in Used(w) /\ w.own[c] = w.own[b] /\ w.rk[b] < w.rk[c]
        /\ \A x \in Used(w) : w.own[x] = w.own[b] /\ w.rk[b] < w.rk[x] => w.rk[c] <= w.rk[x]
    BY <1>2, <1>4
  <2> HIDE DEF c
  <2>3. ASSUME NEW x \in Used(w), After(w, b, x)
        PROVE  x = c \/ After(w, c, x)
    <3>1. CASE w.own[x] > w.own[b]
      BY <3>1, <2>2 DEF After
    <3>2. CASE w.own[x] = w.own[b] /\ w.rk[x] > w.rk[b]
      <4>1. w.rk[c] <= w.rk[x]
        BY <3>2, <2>2, <1>1
      <4>2. w.rk[c] = w.rk[x] => x = c
        BY <3>2, <2>2, <1>3
      <4> QED BY <4>1, <4>2, <3>2, <2>2, <1>1 DEF After
    <3> QED BY <2>3, <3>1, <3>2 DEF After
  <2>4. ASSUME NEW x \in Used(w), x = c \/ After(w, c, x)
        PROVE  After(w, b, x)
    BY <2>2, <2>4, <1>1 DEF After
  <2> QED BY <2>1, <2>2, <2>3, <2>4
<1>5. CASE h.pool[b].next = NULL
  <2>1. f = Locate(h, w.own[b] + 1) /\ w.own[b] + 1 \in Nat
    BY <1>1, <1>5 DEF Following
  <2>2. \A x \in Used(w) : After(w, b, x) <=> w.own[x] >= w.own[b] + 1
    <3> TAKE x \in Used(w)
    <3>1. w.own[x] = w.own[b] => ~ (w.rk[x] > w.rk[b])
      BY <1>1, <1>2, <1>5
    <3> QED BY <3>1, <1>1 DEF After
  <2>3. \/ f.bi = NULL /\ f.i = -1 /\ \A x \in Used(w) : w.own[x] < w.own[b] + 1
        \/ /\ f.bi \in Used(w) /\ f.i = w.own[f.bi] /\ f.i >= w.own[b] + 1
           /\ \A x \in Used(w) : w.own[x] >= w.own[b] + 1 <=> x = f.bi \/ After(w, f.bi, x)
    BY <2>1, LocateFacts
  <2>4. CASE f.bi = NULL /\ f.i = -1 /\ \A x \in Used(w) : w.own[x] < w.own[b] + 1
    BY <2>2, <2>4, <1>1
  <2>5. CASE /\ f.bi \in Used(w) /\ f.i = w.own[f.bi] /\ f.i >= w.own[b] + 1
             /\ \A x \in Used(w) : w.own[x] >= w.own[b] + 1 <=> x = f.bi \/ After(w, f.bi, x)
    BY <2>2, <2>5
  <2> QED BY <2>3, <2>4, <2>5
<1> QED BY <1>4, <1>5

----------------------------------------------------------------------------
(* The loop of expand_hash.                                                 *)

CursorOf(h, hi, prev) == IF prev = NULL THEN h.table[hi] ELSE h.pool[prev].next

\* The bucket after b is the first of those behind b in the chain.
LEMMA NextInOrder ==
    ASSUME NEW I, NEW D, NEW head, NEW nxt, NEW own, NEW rk,
           InOrder(I, D, head, nxt, own, rk), NEW b \in D
    PROVE  /\ nxt[b] \in D => own[nxt[b]] = own[b] /\ rk[b] < rk[nxt[b]]
           /\ \A c \in D : own[c] = own[b] /\ rk[b] < rk[c]
                             => nxt[b] \in D /\ rk[nxt[b]] <= rk[c]
BY DEF InOrder

\* The loop is at the first bucket of its chain that it has not seen, or at the end.
LEMMA CursorFacts ==
    ASSUME NEW h, NEW w, NEW S, NEW p, Good(h, w, "move", S, p),
           NEW hi \in Nat, hi <= h.max_chain, NEW prev, MoveOK(h, w, hi, prev, S),
           NEW c, c = CursorOf(h, hi, prev)
    PROVE  \/ /\ c \in Used(w) /\ w.own[c] = hi /\ c \notin S /\ IsAt(h, w, c, prev)
              /\ \A x \in Used(w) : w.own[x] = hi /\ x \notin S => w.rk[c] <= w.rk[x]
           \/ c = NULL /\ \A x \in Used(w) : w.own[x] = hi => x \in S
<1> DEFINE T == Grown(h)
           P == Buckets(Grown(h))
           D == 0..(P-1)
           I == {Free} \cup 0..(T-1)
<1>1. HashOK(h, w, T, P) /\ SizeOK(h)
  BY DEF Good, TableSize, PoolSize
<1>2. /\ DOMAIN h.pool = D /\ DOMAIN h.table = 0..(T-1) /\ T \in Nat /\ P \in Nat
      /\ w.own \in [D -> I] /\ w.rk \in [D -> Nat]
      /\ Used(w) = { b \in D : w.own[b] \in 0..(T-1) }
      /\ NULL \notin D /\ Junk \notin D /\ Free \notin 0..(T-1)
  BY <1>1, OrderedFacts
<1>3. hi \in 0..(T-1) /\ h.max_chain \in Int /\ ~ (hi > h.max_chain) /\ ~ (hi < hi)
  <2>1. h.max_chain \in Int /\ Grown(h) > h.max_chain + 1
    BY <1>1, Sizes
  <2> QED BY <2>1, <1>2
<1>4. InOrder(I, D, Heads(h), Nexts(h), w.own, w.rk)
  BY <1>1, <1>2 DEF HashOK, Ordered
<1>5. /\ Heads(h)[hi] = h.table[hi] /\ h.table[hi] \in D \cup {NULL}
      /\ \A b \in D : Nexts(h)[b] = h.pool[b].next /\ h.pool[b].next \in D \cup {NULL}
  <2>1. h.table[hi] # Junk
    BY <1>2, <1>3 DEF Good
  <2>2. /\ h.table[hi] \in D \cup {NULL, Junk}
        /\ \A b \in D : h.pool[b].next \in D \cup {NULL}
    BY <1>1, <1>3 DEF HashOK, HashRec, Bucket
  <2> QED BY <2>1, <2>2, <1>2, <1>3 DEF Heads, Nexts
<1>6. /\ \A x \in Used(w) : w.own[x] = hi => (x \in S <=> prev # NULL /\ w.rk[x] <= w.rk[prev])
      /\ prev # NULL => prev \in Used(w) /\ w.own[prev] = hi
  BY <1>3 DEF MoveOK, Scanned
<1>7. \A x \in Used(w) : x \in D /\ w.rk[x] \in Nat
  BY <1>2
<1> HIDE DEF D, T, P
<1>8. CASE prev = NULL
  <2>1. c = Heads(h)[hi] /\ c \in D \cup {NULL}
    BY <1>5, <1>8 DEF CursorOf
  <2>2. /\ c \in D => w.own[c] = hi
        /\ \A x \in D : w.own[x] = hi => c \in D /\ w.rk[c] <= w.rk[x]
    BY <2>1, <1>3, <1>4 DEF InOrder
  <2>3. c \in D => c \in Used(w) /\ c \notin S /\ IsAt(h, w, c, prev)
    BY <2>1, <2>2, <1>2, <1>3, <1>5, <1>6, <1>8 DEF IsAt
  <2> QED BY <2>1, <2>2, <2>3, <1>2, <1>6, <1>7, <1>8
<1>9. CASE prev # NULL
  <2>1. prev \in D /\ prev \in Used(w) /\ w.own[prev] = hi
    BY <1>6, <1>7, <1>9
  <2>2. c = Nexts(h)[prev] /\ c \in D \cup {NULL} /\ c = h.pool[prev].next
    BY <2>1, <1>5, <1>9 DEF CursorOf
  <2>3. /\ c \in D => w.own[c] = hi /\ w.rk[prev] < w.rk[c]
        /\ \A x \in D : w.own[x] = hi /\ w.rk[prev] < w.rk[x] => c \in D /\ w.rk[c] <= w.rk[x]
    <3>1. prev \in D
      BY <2>1
    <3>2. /\ Nexts(h)[prev] \in D => w.own[Nexts(h)[prev]] = w.own[prev]
                                     /\ w.rk[prev] < w.rk[Nexts(h)[prev]]
          /\ \A x \in D : w.own[x] = w.own[prev] /\ w.rk[prev] < w.rk[x]
                            => Nexts(h)[prev] \in D /\ w.rk[Nexts(h)[prev]] <= w.rk[x]
      BY <3>1, <1>4, NextInOrder
    <3> QED BY <3>2, <2>1, <2>2
  <2>4. \A x \in Used(w) : w.own[x] = hi => (x \in S <=> ~ (w.rk[prev] < w.rk[x]))
    BY <2>1, <1>6, <1>7, <1>9
  <2>5. c \in D => c \in Used(w) /\ c \notin S /\ IsAt(h, w, c, prev)
    BY <2>1, <2>2, <2>3, <2>4, <1>2, <1>3 DEF IsAt
  <2> QED BY <2>2, <2>3, <2>4, <2>5, <1>2, <1>7
<1> QED BY <1>8, <1>9

\* The pool has grown: nothing has been moved.
LEMMA MoveStarts ==
    ASSUME NEW h, NEW w, h.max_chain \in Int, h.max_chain + 1 \in Nat, h.free_list # NULL,
           \A b \in Used(w) : w.own[b] \in 0..h.max_chain
    PROVE  MoveOK(h, w, 0, NULL, {})
<1>1. \A b \in Used(w) : ~ (w.own[b] > h.max_chain) /\ ~ (w.own[b] < 0)
  <2> TAKE b \in Used(w)
  <2>1. w.own[b] \in 0..h.max_chain
    OBVIOUS
  <2> QED BY <2>1
<1> QED BY <1>1 DEF MoveOK, Scanned

LEMMA MoveKeeps ==
    ASSUME NEW h, NEW w, NEW S, NEW p, Good(h, w, "move", S, p),
           NEW hi \in Nat, hi <= h.max_chain, NEW prev, MoveOK(h, w, hi, prev, S),
           NEW c, c = CursorOf(h, hi, prev), c # NULL
    PROVE  MoveOK(h, w, hi, c, S \cup {c})
<1>1. /\ c \in Used(w) /\ w.own[c] = hi /\ c \notin S
      /\ \A x \in Used(w) : w.own[x] = hi /\ x \notin S => w.rk[c] <= w.rk[x]
  BY CursorFacts
<1>2. HashOK(h, w, Grown(h), Buckets(Grown(h)))
  BY DEF Good, TableSize, PoolSize
<1>3. \A x \in Used(w) : w.rk[x] \in Nat
  BY <1>2, OrderedFacts
<1>4. \A x, y \in Used(w) : w.own[x] = w.own[y] /\ w.rk[x] = w.rk[y] => x = y
  <2>1. Used(w) \subseteq DOMAIN h.pool
    BY <1>2, OrderedFacts
  <2> QED BY <2>1, <1>2 DEF HashOK, Ordered, InOrder
<1>5. \A x \in Used(w) : w.own[x] = hi => (x \in S <=> prev # NULL /\ w.rk[x] <= w.rk[prev])
  BY <1>1 DEF MoveOK, Scanned
<1>6. prev # NULL => prev \in Used(w) /\ w.own[prev] = hi /\ w.rk[prev] < w.rk[c]
  BY <1>1, <1>3, <1>5 DEF MoveOK
<1>7. ASSUME NEW x \in Used(w), w.own[x] = hi
      PROVE  x \in S \cup {c} <=> w.rk[x] <= w.rk[c]
  <2>1. CASE x \in S
    <3>1. w.rk[x] <= w.rk[prev] /\ w.rk[prev] < w.rk[c] /\ w.rk[prev] \in Nat
      BY <2>1, <1>3, <1>5, <1>6, <1>7
    <3> QED BY <2>1, <3>1, <1>1, <1>3
  <2>2. CASE x \notin S
    <3>1. w.rk[c] <= w.rk[x]
      BY <2>2, <1>1, <1>7
    <3>2. w.rk[c] = w.rk[x] => x = c
      BY <1>1, <1>4, <1>7
    <3> QED BY <2>2, <3>1, <3>2, <1>1, <1>3
  <2> QED BY <2>1, <2>2
<1>8. S \cup {c} = Scanned(h, w, hi, c)
  <2>1. S \subseteq Used(w)
    BY DEF MoveOK, Scanned
  <2>2. \A x \in Used(w) : w.own[x] # hi =>
          (x \in S <=> w.own[x] > h.max_chain \/ w.own[x] < hi)
    BY DEF MoveOK, Scanned
  <2>3. ~ (hi > h.max_chain) /\ ~ (hi < hi)
    BY DEF Good, SizeOK
  <2> QED BY <2>1, <2>2, <2>3, <1>1, <1>7 DEF Scanned
<1> QED BY <1>1, <1>8 DEF MoveOK

LEMMA MoveGoesOn ==
    ASSUME NEW h, NEW w, NEW S, NEW p, Good(h, w, "move", S, p),
           NEW hi \in Nat, hi <= h.max_chain, NEW prev, MoveOK(h, w, hi, prev, S),
           CursorOf(h, hi, prev) = NULL
    PROVE  MoveOK(h, w, hi + 1, NULL, S)
<1>0. HashOK(h, w, Grown(h), Buckets(Grown(h))) /\ h.max_chain \in Nat
  <2>1. SizeOK(h)
    BY DEF Good
  <2> QED BY <2>1 DEF Good, TableSize, PoolSize, SizeOK
<1>1. \A x \in Used(w) : w.own[x] \in Nat /\ x # NULL
  BY <1>0, OrderedFacts
<1>2. \A x \in Used(w) : w.own[x] = hi => x \in S
  <2>1. NULL \notin Used(w)
    BY <1>1
  <2> QED BY <2>1, CursorFacts
<1>3. \A x \in Used(w) : w.own[x] < hi + 1 <=> w.own[x] < hi \/ w.own[x] = hi
  BY <1>1
<1>4. S = Scanned(h, w, hi, prev) /\ h.free_list # NULL
  BY DEF MoveOK
<1>5. \A x \in Used(w) : x \in S => w.own[x] > h.max_chain \/ w.own[x] < hi \/ w.own[x] = hi
  BY <1>4 DEF Scanned
<1>6. \A x \in Used(w) : w.own[x] > h.max_chain \/ w.own[x] < hi => x \in S
  BY <1>4 DEF Scanned
<1>7. S = Scanned(h, w, hi + 1, NULL)
  <2>1. S \subseteq Used(w)
    BY <1>4 DEF Scanned
  <2> QED BY <2>1, <1>2, <1>3, <1>5, <1>6 DEF Scanned
<1>8. hi + 1 <= h.max_chain + 1
  BY <1>0
<1> QED BY <1>4, <1>7, <1>8 DEF MoveOK

LEMMA MoveMoves ==
    ASSUME NEW h, NEW w, NEW S, NEW p, Good(h, w, "move", S, p),
           NEW hi \in Nat, hi <= h.max_chain, NEW prev, MoveOK(h, w, hi, prev, S),
           NEW c, c = CursorOf(h, hi, prev), c # NULL, NEW loc, loc > h.max_chain,
           NEW h2, h2.max_chain = h.max_chain, h2.free_list = h.free_list,
           NEW w2, w2.own[c] = loc, \A x \in Used(w) \ {c} : w2.own[x] = w.own[x],
           Used(w2) = Used(w),
           \A x, y \in DOMAIN h.pool \ {c} : w2.rk[x] <= w2.rk[y] <=> w.rk[x] <= w.rk[y]
    PROVE  MoveOK(h2, w2, hi, prev, S \cup {c})
<1>1. c \in Used(w) /\ w.own[c] = hi /\ c \notin S
  BY CursorFacts
<1>2. Used(w) \subseteq DOMAIN h.pool /\ Used(w) \subseteq DOMAIN w.own
  <2>1. HashOK(h, w, Grown(h), Buckets(Grown(h)))
    BY DEF Good, TableSize, PoolSize
  <2> QED BY <2>1, OrderedFacts
<1>3. w2.own[c] = loc /\ \A x \in Used(w) \ {c} : w2.own[x] = w.own[x]
  BY <1>1, <1>2
<1>4. prev # NULL => prev \in Used(w) /\ w.own[prev] = hi /\ hi <= h.max_chain /\ prev # c
  <2>1. prev # NULL => prev \in Used(w) /\ w.own[prev] = hi /\ hi <= h.max_chain
    BY DEF MoveOK
  <2>2. prev # NULL => prev \in S
    <3>1. prev \in Used(w) => w.rk[prev] <= w.rk[prev]
      <4>1. HashOK(h, w, Grown(h), Buckets(Grown(h)))
        BY DEF Good, TableSize, PoolSize
      <4>2. prev \in Used(w) => w.rk[prev] \in Nat
        BY <4>1, OrderedFacts
      <4> QED BY <4>2
    <3> QED BY <2>1, <3>1 DEF MoveOK, Scanned
  <2> QED BY <2>1, <2>2, <1>1
<1>5. \A x \in Used(w) \ {c} : prev # NULL => (w2.rk[x] <= w2.rk[prev] <=> w.rk[x] <= w.rk[prev])
  BY <1>2, <1>4
<1>6. S \cup {c} = Scanned(h2, w2, hi, prev)
  <2>1. S = Scanned(h, w, hi, prev)
    BY DEF MoveOK
  <2> QED BY <2>1, <1>1, <1>3, <1>5 DEF Scanned
<1> QED BY <1>3, <1>4, <1>6 DEF MoveOK

----------------------------------------------------------------------------
(* hash_put and hash_delete, for the hash they are called with.             *)

Replaces(h, w, h2, k, v) ==
  \E b \in Used(w) :
    /\ h.pool[b].key = k /\ h2.pool[b].value = v
    /\ \A c \in Used(w) : /\ h2.pool[c].key = h.pool[c].key
                          /\ c # b => h2.pool[c].value = h.pool[c].value

GrowOp(n, k, v, ret) == [at |-> "grow_table", on |-> n, key |-> k, value |-> v, ret |-> ret]

\* What hash_put makes of h: the value is replaced, or the key is new and gets
\* a bucket, or there is none for it.
PutOutcome(h, w, h2, w2, n, k, v, ret, o) ==
  \/ /\ o = ret /\ k \in KeysOf(h) /\ w2 = w
     /\ Good(h2, w2, "stable", {}, 0) /\ Replaces(h, w, h2, k, v)
  \/ /\ o = ret /\ k \notin KeysOf(h)
     /\ Good(h2, w2, "stable", {}, 0) /\ Adds(h, w, h2, w2, k, v)
  \/ /\ o = GrowOp(n, k, v, ret) /\ k \notin KeysOf(h) /\ k \notin KeysOf(h2) /\ w2 = w
     /\ Good(h2, w2, "grow_table", {}, 1) /\ SameContent(h, w, h2, w2)

\* What is in the chains, whatever the phase.
LEMMA KeysAre ==
    ASSUME NEW h, NEW w, NEW ph, NEW S, NEW p, Good(h, w, ph, S, p)
    PROVE  KeysOf(h) = { h.pool[b].key : b \in Used(w) }
BY ChainFacts DEF Good

LEMMA PutFacts ==
    ASSUME NEW n, NEW k \in Keys, NEW v \in Values, NEW ret, NEW w,
           Good(hash[n], w, "stable", {}, 0), Put(n, k, v, ret)
    PROVE  \E h2, w2 :
             /\ hash' = [hash EXCEPT ![n] = h2] /\ utf8' = Converted(hash[n], k)
             /\ h2.key_type = promote_hash_key(hash[n], k).key_type
             /\ PutOutcome(hash[n], w, h2, w2, n, k, v, ret, op')
<1> DEFINE g == hash[n]
           h == promote_hash_key(g, k)
           b == find_bucket(h, k)
           more == [h EXCEPT !.entries = @ + 1]
<1>1. Good(g, w, "stable", {}, 0) /\ utf8' = Converted(g, k)
  BY DEF Put
<1>2. \/ b # NULL /\ hash' = [hash EXCEPT ![n] = [h EXCEPT !.pool[b].value = v]] /\ op' = ret
      \/ /\ b = NULL /\ h.free_list # NULL
         /\ hash' = [hash EXCEPT ![n] = Linked(more, k, v)] /\ op' = ret
      \/ /\ b = NULL /\ hash' = [hash EXCEPT ![n] = more] /\ op' = GrowOp(n, k, v, ret)
  BY DEF Put, GrowOp
<1> HIDE DEF g
<1>3. Good(h, w, "stable", {}, 0) /\ SameContent(g, w, h, w)
  <2>1. h = g \/ h = [g EXCEPT !.key_type = "utf8"]
    BY DEF promote_hash_key
  <2>2. [g EXCEPT !.key_type = "utf8"].pool = g.pool
    BY <1>1 DEF Good, HashOK, HashRec
  <2>3. h.pool = g.pool
    BY <2>1, <2>2
  <2> QED BY <1>1, <2>1, <2>3, GoodType DEF SameContent
<1>4. KeysOf(g) = { g.pool[c].key : c \in Used(w) }
  BY <1>1, KeysAre
<1>5. KeysOf(h) = KeysOf(g)
  <2> HIDE DEF h
  <2>1. KeysOf(h) = { h.pool[c].key : c \in Used(w) }
    BY <1>3, KeysAre
  <2> QED BY <2>1, <1>3, <1>4 DEF SameContent
<1> HIDE DEF h
<1>6. \/ b \in Used(w) /\ h.pool[b].key = k /\ k \in KeysOf(g) /\ b # NULL
      \/ b = NULL /\ k \notin KeysOf(g)
  <2>1. HashOK(h, w, h.max_chain + 1, PoolSize(h, "stable")) /\ Homes(h, w, {})
    BY <1>3 DEF Good, TableSize
  <2>2. h.max_chain + 1 > 0
    BY <1>3, StableFacts
  <2> QED BY <2>1, <2>2, <1>5, FindBucket
<1> HIDE DEF b
<1>7. CASE b # NULL
  <2> DEFINE h2 == [h EXCEPT !.pool[b].value = v]
  <2>1. b \in Used(w) /\ h.pool[b].key = k /\ k \in KeysOf(g)
    BY <1>6, <1>7
  <2>2. /\ Good(h2, w, "stable", {}, 0) /\ h2.pool[b].value = v
        /\ \A c \in Used(w) : /\ h2.pool[c].key = h.pool[c].key
                              /\ c # b => h2.pool[c].value = h.pool[c].value
    BY <2>1, <1>3, GoodValue
  <2>3. h2.key_type = h.key_type
    BY <1>3 DEF Good, HashOK, HashRec
  <2>4. hash' = [hash EXCEPT ![n] = h2] /\ op' = ret
    BY <1>2, <1>7
  <2> HIDE DEF h2
  <2>5. Replaces(g, w, h2, k, v)
    BY <2>1, <2>2, <1>3 DEF Replaces, SameContent
  <2>6. PutOutcome(g, w, h2, w, n, k, v, ret, op')
    BY <2>1, <2>2, <2>4, <2>5 DEF PutOutcome
  <2> QED BY <2>3, <2>4, <2>6, <1>1 DEF g, h
<1>8. CASE b = NULL
  <2>1. Good(more, w, "stable", {}, 1) /\ SameContent(h, w, more, w)
        /\ more.key_type = h.key_type /\ more.free_list = h.free_list
    <3>1. more.pool = h.pool /\ more.key_type = h.key_type /\ more.free_list = h.free_list
      BY <1>3 DEF Good, HashOK, HashRec
    <3> QED BY <3>1, <1>3, GoodMore DEF SameContent
  <2> HIDE DEF more
  <2>2. KeysOf(more) = KeysOf(g) /\ k \notin KeysOf(g)
    <3>1. KeysOf(more) = { more.pool[c].key : c \in Used(w) }
      BY <2>1, KeysAre
    <3> QED BY <3>1, <2>1, <1>3, <1>4, <1>6, <1>8 DEF SameContent
  <2>3. CASE h.free_list # NULL /\ hash' = [hash EXCEPT ![n] = Linked(more, k, v)] /\ op' = ret
    <3> DEFINE h2 == Linked(more, k, v)
    <3>1. PICK w2 : Good(h2, w2, "stable", {}, 0) /\ Adds(more, w, h2, w2, k, v)
      BY <2>1, <2>2, <2>3, GoodLinked
    <3>2. h2.key_type = more.key_type
      BY <2>1 DEF Linked, Good, HashOK, HashRec
    <3>3. hash' = [hash EXCEPT ![n] = h2] /\ op' = ret
      BY <2>3
    <3> HIDE DEF h2
    <3>4. Adds(g, w, h2, w2, k, v)
      BY <3>1, <2>1, <1>3 DEF Adds, SameContent
    <3>5. PutOutcome(g, w, h2, w2, n, k, v, ret, op')
      BY <3>1, <3>3, <3>4, <2>2 DEF PutOutcome
    <3>6. h2.key_type = promote_hash_key(g, k).key_type
      BY <3>2, <2>1 DEF h
    <3> QED BY <3>3, <3>5, <3>6, <1>1 DEF g
  <2>4. CASE hash' = [hash EXCEPT ![n] = more] /\ op' = GrowOp(n, k, v, ret)
    <3>1. Good(more, w, "grow_table", {}, 1)
      BY <2>1, GoodStart
    <3>2. SameContent(g, w, more, w)
      BY <2>1, <1>3 DEF SameContent
    <3>3. PutOutcome(g, w, more, w, n, k, v, ret, op')
      BY <3>1, <3>2, <2>2, <2>4 DEF PutOutcome
    <3>4. more.key_type = promote_hash_key(g, k).key_type
      BY <2>1 DEF h
    <3> QED BY <3>3, <3>4, <2>4, <1>1 DEF g
  <2> QED BY <2>3, <2>4, <1>2, <1>8 DEF more
<1> QED BY <1>7, <1>8

LEMMA DeleteFacts ==
    ASSUME NEW n \in Names, NEW k \in Keys, NEW w,
           Good(hash[n], w, "stable", {}, 0), hash_delete(n, k)
    PROVE  \/ hash' = hash /\ k \notin KeysOf(hash[n])
           \/ \E h2, w2 : /\ hash' = [hash EXCEPT ![n] = h2] /\ h2.key_type = hash[n].key_type
                          /\ Good(h2, w2, "stable", {}, 0) /\ Removes(hash[n], w, h2, w2, k)
<1> DEFINE h == hash[n]
           b == find_bucket(h, k)
           h2 == Deleted(h, k, b)
<1>1. \/ b = NULL /\ hash' = hash
      \/ b # NULL /\ hash' = [hash EXCEPT ![n] = h2]
  BY DEF hash_delete, Deleted
<1>2. Good(h, w, "stable", {}, 0)
  OBVIOUS
<1> HIDE DEF h
<1>3. \/ b \in Used(w) /\ h.pool[b].key = k /\ b # NULL
      \/ b = NULL /\ k \notin KeysOf(h)
  <2>1. HashOK(h, w, h.max_chain + 1, PoolSize(h, "stable")) /\ Homes(h, w, {})
    BY <1>2 DEF Good, TableSize
  <2>2. h.max_chain + 1 > 0
    BY <1>2, StableFacts
  <2> QED BY <2>1, <2>2, FindBucket
<1> HIDE DEF b
<1>4. CASE b = NULL
  BY <1>1, <1>3, <1>4 DEF h
<1>5. CASE b # NULL
  <2>1. b \in Used(w) /\ h.pool[b].key = k /\ hash' = [hash EXCEPT ![n] = h2]
    BY <1>1, <1>3, <1>5
  <2>2. PICK w2 : Good(h2, w2, "stable", {}, 0) /\ Removes(h, w, h2, w2, k)
    BY <2>1, <1>2, GoodDeleted
  <2>3. h2.key_type = h.key_type
    BY <1>2 DEF Deleted, Unlinked, Good, HashOK, HashRec
  <2> HIDE DEF h2
  <2> QED BY <2>1, <2>2, <2>3 DEF h
<1> QED BY <1>4, <1>5

----------------------------------------------------------------------------
(* The steps keep the invariant.                                            *)

LEMMA NoGrowth ==
    ASSUME NEW o \in {Idle} \cup CloneRec
    PROVE  /\ o.at \in {"idle", "clone"} /\ o.at # "move"
           /\ \A n : Phase(o, n) = "stable" /\ ScannedIn(o, n) = {} /\ PendIn(o, n) = 0
<1>1. o.at \in {"idle", "clone"}
  BY DEF Idle, CloneRec
<1> QED BY <1>1 DEF Phase, ScannedIn, PendIn

LEMMA Growth ==
    ASSUME NEW o \in GrowRec \cup MoveRec
    PROVE  /\ o.at \in {"grow_table", "grow_pool", "move"} /\ o # Idle
           /\ \A n : o.on = n => /\ Phase(o, n) = o.at
                                 /\ ScannedIn(o, n) = IF o.at = "move" THEN o.scanned ELSE {}
                                 /\ PendIn(o, n) = IF o.key # NULL THEN 1 ELSE 0
           /\ \A n : o.on # n => Phase(o, n) = "stable" /\ ScannedIn(o, n) = {} /\ PendIn(o, n) = 0
<1>1. o.at \in {"grow_table", "grow_pool", "move"}
  BY DEF GrowRec, MoveRec
<1>2. o # Idle
  BY <1>1 DEF Idle
<1> QED BY <1>1, <1>2 DEF Phase, ScannedIn, PendIn

\* What there is at a step that is not in the middle of growing.
LEMMA StableHash ==
    ASSUME NEW W, IInv(W), op.at \in {"idle", "clone"}, NEW n \in Live
    PROVE  n \in Names /\ Good(hash[n], W[n], "stable", {}, 0) /\ op \in {Idle} \cup CloneRec
<1>1. op \in {Idle} \cup CloneRec
  BY DEF IInv, OpOK, GrowRec, MoveRec
<1> QED BY <1>1, NoGrowth DEF IInv, Live

LEMMA InvInit == Init => Inv
<1> SUFFICES ASSUME Init PROVE Inv
  OBVIOUS
<1>1. PICK s \in Seeds : hash = [n \in Names |-> IF n = "hash" THEN Fresh(s, "ascii") ELSE NoHash]
  BY DEF Init
<1>2. utf8 = {} /\ it = NoIter /\ op = GrowOp("hash", NULL, NULL, Idle)
  BY DEF Init, Growing, GrowOp
<1>3. PICK w : Good(Fresh(s, "ascii"), w, "grow_table", {}, 0)
  BY GoodFresh
<1> DEFINE W == [n \in Names |-> w]
<1>4. hash["hash"] = Fresh(s, "ascii") /\ hash["clone"] = NoHash
  BY <1>1 DEF Names
<1>5. Live = {"hash"}
  BY <1>3, <1>4, GoodIsLive DEF Live, Names
<1>6. ShapeOK
  BY <1>1, <1>2, <1>5 DEF ShapeOK
<1>7. op \in GrowRec /\ op.at = "grow_table" /\ op.on = "hash" /\ op.key = NULL /\ op.ret = Idle
  BY <1>2 DEF GrowOp, GrowRec, Names
<1>8. OpOK
  BY <1>5, <1>7 DEF OpOK, GrowOK
<1>9. Good(hash["hash"], W["hash"], Phase(op, "hash"), ScannedIn(op, "hash"), PendIn(op, "hash"))
  <2>1. W["hash"] = w
    BY DEF Names
  <2>2. /\ Phase(op, "hash") = "grow_table" /\ ScannedIn(op, "hash") = {}
        /\ PendIn(op, "hash") = 0
    BY <1>7, Growth
  <2> QED BY <2>1, <2>2, <1>3, <1>4
<1>10. CloneOK(W)
  BY <1>7 DEF CloneOK, Cloning
<1>11. IInv(W)
  BY <1>2, <1>5, <1>6, <1>7, <1>8, <1>9, <1>10 DEF IInv
<1> QED BY <1>11 DEF Inv

\* A step that leaves the hashes alone.
LEMMA SameHashes ==
    ASSUME Inv, UNCHANGED <<hash, utf8, op, it>>
    PROVE  Inv'
<1>1. PICK W : IInv(W)
  BY DEF Inv
<1>2. IInv(W)'
  BY <1>1 DEF IInv, ShapeOK, OpOK, GrowOK, Live, MoveOK, CloneOK, Cloning, FromOp, Pending
<1> QED BY <1>2 DEF Inv

\* A step of a hash that grows.
LEMMA GrowStep ==
    ASSUME NEW W, IInv(W), op.at \notin {"idle", "clone"}, NEW n, n = op.on,
           NEW h2, hash' = [hash EXCEPT ![n] = h2],
           NEW w2, SameContent(hash[n], W[n], h2, w2),
           op' \in GrowRec \cup MoveRec, op'.on = n, op'.key = op.key,
           op'.value = op.value, op'.ret = op.ret, utf8' = utf8, it' = it,
           Good(h2, w2, op'.at, IF op'.at = "move" THEN op'.scanned ELSE {},
                IF op.key # NULL THEN 1 ELSE 0),
           op'.at = "move" => MoveOK(h2, w2, op'.hi, op'.prev, op'.scanned)
    PROVE  Inv'
<1> DEFINE W2 == [m \in Names |-> IF m = n THEN w2 ELSE W[m]]
<1>1. /\ op \in GrowRec \cup MoveRec /\ n \in Names /\ n \in Live
      /\ op.key # NULL => op.value \in Values /\ op.key \notin KeysOf(hash[n])
      /\ op.ret # Idle => n = "clone"
  <2>1. op \in GrowRec \cup MoveRec
    BY DEF IInv, OpOK, Idle, CloneRec
  <2> QED BY <2>1 DEF IInv, OpOK, GrowOK, GrowRec, MoveRec
<1>2. DOMAIN hash = Names /\ "hash" \in Live /\ utf8 \subseteq Keys
  BY DEF IInv, ShapeOK
<1>3. /\ DOMAIN hash' = Names /\ hash' = [m \in Names |-> hash'[m]]
      /\ hash'[n] = h2 /\ \A m \in Names : m # n => hash'[m] = hash[m]
  BY <1>1, <1>2
<1>4. h2 # NoHash
  BY GoodIsLive
<1>5. Live' = Live
  BY <1>1, <1>3, <1>4 DEF Live
<1>6. ShapeOK'
  BY <1>2, <1>3, <1>5 DEF ShapeOK
<1>7. W2[n] = w2 /\ \A m \in Names : m # n => W2[m] = W[m]
  BY <1>1
<1> HIDE DEF W2
<1>8. KeysOf(h2) = KeysOf(hash[n])
  <2>1. KeysOf(h2) = { h2.pool[c].key : c \in Used(w2) }
    BY KeysAre
  <2>2. Good(hash[n], W[n], Phase(op, n), ScannedIn(op, n), PendIn(op, n))
    BY <1>1 DEF IInv
  <2>3. KeysOf(hash[n]) = { hash[n].pool[c].key : c \in Used(W[n]) }
    BY <2>2, KeysAre
  <2> QED BY <2>1, <2>3 DEF SameContent
<1>9. OpOK'
  BY <1>1, <1>3, <1>5, <1>8 DEF OpOK, GrowOK
<1>10. \A m \in Live' : Good(hash'[m], W2[m], Phase(op', m), ScannedIn(op', m), PendIn(op', m))
  <2> TAKE m \in Live'
  <2>1. m \in Live /\ m \in Names
    BY <1>5 DEF Live
  <2>2. CASE m = n
    BY <2>2, <1>3, <1>7, Growth
  <2>3. CASE m # n
    <3>1. Good(hash[m], W[m], Phase(op, m), ScannedIn(op, m), PendIn(op, m))
      BY <2>1 DEF IInv
    <3>2. /\ Phase(op, m) = "stable" /\ ScannedIn(op, m) = {} /\ PendIn(op, m) = 0
          /\ Phase(op', m) = "stable" /\ ScannedIn(op', m) = {} /\ PendIn(op', m) = 0
      BY <2>3, <1>1, Growth
    <3> QED BY <2>1, <2>3, <3>1, <3>2, <1>3, <1>7
  <2> QED BY <2>2, <2>3
<1>11. op'.at = "move" => MoveOK(hash'[op'.on], W2[op'.on], op'.hi, op'.prev, op'.scanned)
  BY <1>3, <1>7
<1>12. CloneOK(W2)'
  <2>1. op.at \notin {"idle", "clone"} /\ op'.at \notin {"idle", "clone"} /\ op # Idle /\ op' # Idle
    BY <1>1, Growth
  <2>2. Cloning' <=> Cloning
    BY <2>1 DEF Cloning
  <2>3. FromOp' = FromOp /\ Pending' = Pending
    BY <2>1 DEF FromOp, Pending
  <2> SUFFICES ASSUME Cloning PROVE CloneOK(W2)'
    BY <2>2 DEF CloneOK
  <2>4. n = "clone" /\ n # "hash"
    BY <2>1, <1>1 DEF Cloning
  <2>5. hash'["hash"] = hash["hash"] /\ W2["hash"] = W["hash"]
    BY <2>4, <1>3, <1>7 DEF Names
  <2>6. Pairs(hash'["clone"], Used(W2["clone"])) = Pairs(hash["clone"], Used(W["clone"]))
    BY <2>4, <1>3, <1>7 DEF Pairs, SameContent
  <2>7. CloneOK(W)
    BY DEF IInv
  <2> QED BY <2>3, <2>5, <2>6, <2>7, <1>5 DEF CloneOK
<1>13. it' # NoIter => /\ it' \in IterRec /\ Phase(op', "hash") = "stable"
                       /\ IterOK(hash'["hash"], W2["hash"], it')
  <2> SUFFICES ASSUME it # NoIter
               PROVE  /\ it \in IterRec /\ Phase(op', "hash") = "stable"
                      /\ IterOK(hash'["hash"], W2["hash"], it)
    OBVIOUS
  <2>1. it \in IterRec /\ Phase(op, "hash") = "stable" /\ IterOK(hash["hash"], W["hash"], it)
    BY DEF IInv
  <2>2. n # "hash"
    BY <2>1, <1>1, Growth
  <2> QED BY <2>1, <2>2, <1>1, <1>3, <1>7, Growth DEF Names
<1>14. IInv(W2)'
  BY <1>6, <1>9, <1>10, <1>11, <1>12, <1>13 DEF IInv
<1> QED BY <1>14 DEF Inv

\* The steps of expand_hash up to the last.
GrowOne(W, n, h2, w2) ==
  /\ IInv(W) /\ op.at \notin {"idle", "clone"} /\ n = op.on /\ n \in Live
  /\ hash' = [hash EXCEPT ![n] = h2] /\ SameContent(hash[n], W[n], h2, w2)
  /\ h2.key_type = hash[n].key_type
  /\ op' \in GrowRec \cup MoveRec /\ op'.on = n /\ op'.key = op.key
  /\ op'.value = op.value /\ op'.ret = op.ret /\ utf8' = utf8 /\ it' = it /\ last' = last
  /\ Good(h2, w2, op'.at, IF op'.at = "move" THEN op'.scanned ELSE {},
          IF op.key # NULL THEN 1 ELSE 0)
  /\ op'.at = "move" => MoveOK(h2, w2, op'.hi, op'.prev, op'.scanned)

Grows == \E W, n, h2, w2 : GrowOne(W, n, h2, w2)

LEMMA GrowsWell == Grows => Inv'
<1> SUFFICES ASSUME Grows PROVE Inv'
  OBVIOUS
<1>1. PICK W, n, h2, w2 : GrowOne(W, n, h2, w2)
  BY DEF Grows
<1>2. /\ IInv(W) /\ op.at \notin {"idle", "clone"} /\ n = op.on
      /\ hash' = [hash EXCEPT ![n] = h2] /\ SameContent(hash[n], W[n], h2, w2)
      /\ op' \in GrowRec \cup MoveRec /\ op'.on = n /\ op'.key = op.key
      /\ op'.value = op.value /\ op'.ret = op.ret /\ utf8' = utf8 /\ it' = it
      /\ Good(h2, w2, op'.at, IF op'.at = "move" THEN op'.scanned ELSE {},
              IF op.key # NULL THEN 1 ELSE 0)
      /\ op'.at = "move" => MoveOK(h2, w2, op'.hi, op'.prev, op'.scanned)
  BY <1>1 DEF GrowOne
<1> QED BY <1>2, GrowStep

\* What GrowStep starts from.
LEMMA GrowStart ==
    ASSUME NEW W, IInv(W), op.at \notin {"idle", "clone"}
    PROVE  /\ op \in GrowRec \cup MoveRec /\ op.on \in Names /\ op.on \in Live
           /\ op.at = "move" => op \in MoveRec
           /\ Good(hash[op.on], W[op.on], op.at, IF op.at = "move" THEN op.scanned ELSE {},
                   IF op.key # NULL THEN 1 ELSE 0)
<1>1. op \in GrowRec \cup MoveRec
  BY DEF IInv, OpOK, Idle, CloneRec
<1>2. op.on \in Names /\ op.on \in Live
  BY <1>1 DEF IInv, OpOK, GrowOK, GrowRec, MoveRec
<1>3. op.at = "move" => op \in MoveRec
  BY <1>1 DEF GrowRec
<1> QED BY <1>1, <1>2, <1>3, Growth DEF IInv

LEMMA GrowTableGrows == Inv /\ GrowTable => Grows
<1> SUFFICES ASSUME Inv, GrowTable PROVE Grows
  OBVIOUS
<1>1. PICK W : IInv(W)
  BY DEF Inv
<1>2. /\ op.at = "grow_table" /\ op' = [op EXCEPT !.at = "grow_pool"]
      /\ utf8' = utf8 /\ it' = it /\ last' = last
  BY DEF GrowTable, Working
<1>3. PICK n \in Names : n = op.on
  BY <1>1, <1>2, GrowStart
<1>4. /\ op \in GrowRec
      /\ Good(hash[n], W[n], "grow_table", {}, IF op.key # NULL THEN 1 ELSE 0)
  BY <1>1, <1>2, <1>3, GrowStart DEF MoveRec
<1>5. PICK h2 : h2 = [hash[n] EXCEPT !.table =
                 [i \in 0..(Grown(hash[n]) - 1) |-> IF i \in DOMAIN @ THEN @[i] ELSE Junk]]
  OBVIOUS
<1>6. hash' = [hash EXCEPT ![n] = h2]
  BY <1>3, <1>5 DEF GrowTable, Become, OpHash
<1>7. /\ Good(h2, W[n], "grow_pool", {}, IF op.key # NULL THEN 1 ELSE 0)
      /\ SameContent(hash[n], W[n], h2, W[n])
  BY <1>4, <1>5, GoodGrowTable
<1>8. /\ op' \in GrowRec /\ op'.at = "grow_pool" /\ op'.on = n /\ op'.key = op.key
      /\ op'.value = op.value /\ op'.ret = op.ret
  BY <1>2, <1>3, <1>4 DEF GrowRec
<1>9. h2.key_type = hash[n].key_type /\ n \in Live
  BY <1>1, <1>2, <1>3, <1>4, <1>5, GrowStart DEF Good, HashOK, HashRec
<1>10. GrowOne(W, n, h2, W[n])
  BY <1>1, <1>2, <1>3, <1>6, <1>7, <1>8, <1>9 DEF GrowOne
<1> QED BY <1>10 DEF Grows

LEMMA StepGrowTable == Inv /\ GrowTable => Inv'
BY GrowTableGrows, GrowsWell

LEMMA GrowPoolGrows == Inv /\ GrowPool => Grows
<1> SUFFICES ASSUME Inv, GrowPool PROVE Grows
  OBVIOUS
<1>1. PICK W : IInv(W)
  BY DEF Inv
<1>2. /\ op.at = "grow_pool" /\ utf8' = utf8 /\ it' = it /\ last' = last
      /\ op' = [at |-> "move", on |-> op.on, key |-> op.key, value |-> op.value,
                ret |-> op.ret, hi |-> 0, prev |-> NULL, scanned |-> {}]
  BY DEF GrowPool, Working
<1>3. PICK n \in Names : n = op.on
  BY <1>1, <1>2, GrowStart
<1>4. /\ op \in GrowRec
      /\ Good(hash[n], W[n], "grow_pool", {}, IF op.key # NULL THEN 1 ELSE 0)
  BY <1>1, <1>2, <1>3, GrowStart DEF MoveRec
<1>6. PICK h2 : h2 = GrownPool(hash[n])
  OBVIOUS
<1>7. hash' = [hash EXCEPT ![n] = h2]
  <2>1. Become(GrownPool(OpHash))
    BY DEF GrowPool, GrownPool
  <2>2. OpHash = hash[n]
    BY <1>3 DEF OpHash
  <2> QED BY <2>1, <2>2, <1>3, <1>6 DEF Become
<1>8. /\ h2.free_list # NULL /\ h2.max_chain = hash[n].max_chain
      /\ h2.key_type = hash[n].key_type
      /\ \E w2 : /\ Good(h2, w2, "move", {}, IF op.key # NULL THEN 1 ELSE 0)
                 /\ SameContent(hash[n], W[n], h2, w2)
                 /\ \A b \in Used(w2) : w2.own[b] \in 0..h2.max_chain
  BY <1>4, <1>6, GoodGrowPool
<1>9. PICK w2 : /\ Good(h2, w2, "move", {}, IF op.key # NULL THEN 1 ELSE 0)
                /\ SameContent(hash[n], W[n], h2, w2)
                /\ \A b \in Used(w2) : w2.own[b] \in 0..h2.max_chain
  BY <1>8
<1>10. MoveOK(h2, w2, 0, NULL, {})
  <2>1. h2.max_chain \in Int /\ h2.max_chain + 1 \in Nat
    <3>1. SizeOK(h2)
      BY <1>9 DEF Good
    <3> QED BY <3>1, Sizes
  <2> QED BY <2>1, <1>8, <1>9, MoveStarts
<1>11. /\ op' \in MoveRec /\ op'.at = "move" /\ op'.on = n /\ op'.key = op.key
       /\ op'.value = op.value /\ op'.ret = op.ret
       /\ op'.hi = 0 /\ op'.prev = NULL /\ op'.scanned = {}
  BY <1>2, <1>3, <1>4 DEF GrowRec, MoveRec
<1>12. n \in Live
  BY <1>1, <1>2, <1>3, GrowStart
<1>13. GrowOne(W, n, h2, w2)
  BY <1>1, <1>2, <1>3, <1>7, <1>8, <1>9, <1>10, <1>11, <1>12 DEF GrowOne
<1> QED BY <1>13 DEF Grows

LEMMA StepGrowPool == Inv /\ GrowPool => Inv'
BY GrowPoolGrows, GrowsWell

LEMMA NextChainGrows == Inv /\ NextChain => Grows
<1> SUFFICES ASSUME Inv, NextChain PROVE Grows
  OBVIOUS
<1>1. PICK W : IInv(W)
  BY DEF Inv
<1>2. /\ op.at = "move" /\ utf8' = utf8 /\ it' = it /\ hash' = hash /\ last' = last
      /\ op.hi <= OpHash.max_chain /\ Cursor = NULL
      /\ op' = [op EXCEPT !.hi = @ + 1, !.prev = NULL]
  BY DEF NextChain, Working
<1>3. PICK n \in Names : n = op.on
  BY <1>1, <1>2, GrowStart
<1>4. /\ op \in MoveRec
      /\ Good(hash[n], W[n], "move", op.scanned, IF op.key # NULL THEN 1 ELSE 0)
      /\ MoveOK(hash[n], W[n], op.hi, op.prev, op.scanned)
  BY <1>1, <1>2, <1>3, GrowStart DEF IInv
<1>5. op.hi \in Nat /\ op.hi <= hash[n].max_chain /\ CursorOf(hash[n], op.hi, op.prev) = NULL
  BY <1>2, <1>3, <1>4 DEF MoveRec, OpHash, Cursor, CursorOf
<1>6. MoveOK(hash[n], W[n], op.hi + 1, NULL, op.scanned)
  BY <1>4, <1>5, MoveGoesOn
<1>7. /\ op' \in MoveRec /\ op'.at = "move" /\ op'.on = n /\ op'.key = op.key
      /\ op'.value = op.value /\ op'.ret = op.ret
      /\ op'.hi = op.hi + 1 /\ op'.prev = NULL /\ op'.scanned = op.scanned
  <2>1. op \in MoveRec /\ op.hi \in Nat /\ op.hi + 1 \in Nat
    BY <1>4, <1>5
  <2>2. op' = [op EXCEPT !.hi = op.hi + 1, !.prev = NULL]
    BY <1>2
  <2> QED BY <2>1, <2>2, <1>3, <1>4 DEF MoveRec
<1>8. hash' = [hash EXCEPT ![n] = hash[n]]
  BY <1>1, <1>2 DEF IInv, ShapeOK
<1>9. SameContent(hash[n], W[n], hash[n], W[n])
  BY DEF SameContent
<1>10. n \in Live
  BY <1>1, <1>2, <1>3, GrowStart
<1>11. GrowOne(W, n, hash[n], W[n])
  BY <1>1, <1>2, <1>3, <1>4, <1>6, <1>7, <1>8, <1>9, <1>10 DEF GrowOne
<1> QED BY <1>11 DEF Grows

LEMMA StepNextChain == Inv /\ NextChain => Inv'
BY NextChainGrows, GrowsWell

LEMMA MoveBucketGrows == Inv /\ MoveBucket => Grows
<1> SUFFICES ASSUME Inv, MoveBucket PROVE Grows
  OBVIOUS
<1>1. PICK W : IInv(W)
  BY DEF Inv
<1>2. /\ op.at = "move" /\ utf8' = utf8 /\ it' = it /\ last' = last
      /\ op.hi <= OpHash.max_chain /\ Cursor # NULL
  BY DEF MoveBucket, Working
<1>3. PICK n \in Names : n = op.on
  BY <1>1, <1>2, GrowStart
<1> DEFINE h == hash[n]
           w == W[n]
           S == op.scanned
           p == IF op.key # NULL THEN 1 ELSE 0
<1>4. /\ op \in MoveRec /\ n \in Live /\ Good(h, w, "move", S, p)
      /\ MoveOK(h, w, op.hi, op.prev, S)
  BY <1>1, <1>2, <1>3, GrowStart DEF IInv
<1>5. op.hi \in Nat /\ op.hi <= h.max_chain
  BY <1>2, <1>3, <1>4 DEF MoveRec, OpHash
<1>6. PICK b : b = Cursor
  OBVIOUS
<1>7. b = CursorOf(h, op.hi, op.prev) /\ b # NULL
  BY <1>2, <1>3, <1>6 DEF OpHash, Cursor, CursorOf
<1>8. b \in Used(w) /\ w.own[b] = op.hi /\ b \notin S /\ IsAt(h, w, b, op.prev)
  BY <1>4, <1>5, <1>7, CursorFacts
<1>9. PICK loc : loc = HashVal[h.seed][h.pool[b].key] % Grown(h)
  OBVIOUS
<1>10. \/ loc # op.hi /\ Become(Moved(h, b, loc)) /\ op' = [op EXCEPT !.scanned = @ \cup {b}]
       \/ loc = op.hi /\ hash' = hash /\ op' = [op EXCEPT !.prev = b, !.scanned = @ \cup {b}]
  BY <1>3, <1>6, <1>9 DEF MoveBucket, OpHash
<1>11. h.max_chain \in Nat /\ b \in Nat /\ op.scanned \cup {b} \in SUBSET Nat
  <2>1. HashOK(h, w, Grown(h), Buckets(Grown(h))) /\ SizeOK(h)
    BY <1>4 DEF Good, TableSize, PoolSize
  <2>2. b \in Nat
    BY <2>1, <1>8, OrderedFacts
  <2>3. h.max_chain \in Nat
    BY <2>1, <1>5 DEF SizeOK
  <2> QED BY <2>2, <2>3, <1>4 DEF MoveRec
<1> HIDE DEF p
<1>12. CASE loc # op.hi
  <2>1. PICK h2 : h2 = Moved(h, b, loc)
    OBVIOUS
  <2>2. hash' = [hash EXCEPT ![n] = h2] /\ op' = [op EXCEPT !.scanned = S \cup {b}]
    BY <2>1, <1>3, <1>10, <1>12 DEF Become
  <2>3. h2 = MovedTo(h, w, b, op.prev, loc)
    BY <2>1, <1>8 DEF Moved, MovedTo, PutAt, CutAt
  <2>4. PICK w2 : w2 = Shift(h, w, b, loc)
    OBVIOUS
  <2> HIDE DEF h, w, S
  <2>5. HashVal[h.seed][h.pool[b].key] % Grown(h) # w.own[b]
    BY <1>8, <1>9, <1>12
  <2>6. /\ Good(h2, w2, "move", S \cup {b}, p) /\ SameContent(h, w, h2, w2)
        /\ w2.own[b] = loc /\ (\A x \in Used(w) \ {b} : w2.own[x] = w.own[x])
        /\ loc > h.max_chain
        /\ \A x, y \in DOMAIN h.pool \ {b} : w2.rk[x] <= w2.rk[y] <=> w.rk[x] <= w.rk[y]
        /\ h2.max_chain = h.max_chain /\ h2.free_list = h.free_list /\ h2.key_type = h.key_type
    <3>1. /\ Good(h, w, "move", S, p) /\ h.max_chain \in Nat /\ b \in Used(w) /\ b \notin S
          /\ IsAt(h, w, b, op.prev)
          /\ loc = NewSlot(h, b) /\ loc # w.own[b]
      BY <2>5, <1>4, <1>8, <1>9, <1>11 DEF NewSlot
    <3>2. MovesWell(h, w, S, p, b, loc, MovedTo(h, w, b, op.prev, loc), Shift(h, w, b, loc))
      BY <3>1, GoodMoved
    <3>3. MovesWell(h, w, S, p, b, loc, h2, w2)
      BY <2>3, <2>4, <3>2
    <3> QED BY <3>3 DEF MovesWell
  <2>7. Used(w2) = Used(w)
    BY <2>6 DEF SameContent
  <2>8. MoveOK(h2, w2, op.hi, op.prev, S \cup {b})
    BY <2>6, <2>7, <1>4, <1>5, <1>7, MoveMoves
  <2>9. /\ op' \in MoveRec /\ op'.at = "move" /\ op'.on = n /\ op'.key = op.key
        /\ op'.value = op.value /\ op'.ret = op.ret
        /\ op'.hi = op.hi /\ op'.prev = op.prev /\ op'.scanned = S \cup {b}
    BY <2>2, <1>2, <1>3, <1>4, <1>11 DEF MoveRec, S
  <2>10. GrowOne(W, n, h2, w2)
    BY <1>1, <1>2, <1>3, <1>4, <2>2, <2>6, <2>8, <2>9 DEF GrowOne, h, w, p
  <2> QED BY <2>10 DEF Grows
<1>13. CASE loc = op.hi
  <2>1. hash' = [hash EXCEPT ![n] = h] /\ op' = [op EXCEPT !.prev = b, !.scanned = S \cup {b}]
    BY <1>1, <1>3, <1>10, <1>13 DEF IInv, ShapeOK
  <2> HIDE DEF h, w, S
  <2>2. Good(h, w, "move", S \cup {b}, p)
    BY <1>4, <1>8, <1>9, <1>13, GoodKept
  <2>3. MoveOK(h, w, op.hi, b, S \cup {b})
    BY <1>4, <1>5, <1>7, MoveKeeps
  <2>4. SameContent(h, w, h, w)
    BY DEF SameContent
  <2>5. /\ op' \in MoveRec /\ op'.at = "move" /\ op'.on = n /\ op'.key = op.key
        /\ op'.value = op.value /\ op'.ret = op.ret
        /\ op'.hi = op.hi /\ op'.prev = b /\ op'.scanned = S \cup {b}
    BY <2>1, <1>2, <1>3, <1>4, <1>11 DEF MoveRec, S
  <2>6. GrowOne(W, n, h, w)
    BY <1>1, <1>2, <1>3, <1>4, <2>1, <2>2, <2>3, <2>4, <2>5 DEF GrowOne, h, w, p
  <2> QED BY <2>6 DEF Grows
<1> QED BY <1>12, <1>13

LEMMA StepMoveBucket == Inv /\ MoveBucket => Inv'
BY MoveBucketGrows, GrowsWell

\* A step that changes hash n only, and ends with n at rest or about to grow.
LEMMA OneHash ==
    ASSUME NEW W, IInv(W), NEW n \in Names, op.at \in {"idle", "clone"} \/ op.on = n,
           NEW h2, hash' = [hash EXCEPT ![n] = h2],
           NEW W2, \A m \in Names : m # n => W2[m] = W[m],
           op' \in {Idle} \cup CloneRec \cup GrowRec, op' \in GrowRec => op'.on = n,
           GrowOK', Good(h2, W2[n], Phase(op', n), {}, PendIn(op', n)),
           utf8' \subseteq Keys, CloneOK(W2)',
           it' # NoIter => /\ it' \in IterRec /\ Phase(op', "hash") = "stable"
                           /\ IterOK(hash'["hash"], W2["hash"], it')
    PROVE  Inv'
<1>1. /\ DOMAIN hash = Names /\ "hash" \in Live /\ n \in Names
      /\ op \in {Idle} \cup CloneRec \cup GrowRec \cup MoveRec
  BY DEF IInv, ShapeOK, OpOK, Live
<1>3. /\ DOMAIN hash' = Names /\ hash' = [m \in Names |-> hash'[m]]
      /\ hash'[n] = h2 /\ \A m \in Names : m # n => hash'[m] = hash[m]
  BY <1>1
<1>4. h2 # NoHash
  BY GoodIsLive
<1>5. Live' = Live \cup {n}
  BY <1>1, <1>3, <1>4 DEF Live
<1>6. ShapeOK'
  BY <1>1, <1>3, <1>5 DEF ShapeOK
<1>7. op'.at # "move"
  BY NoGrowth DEF GrowRec
<1>8. ScannedIn(op', n) = {}
  BY <1>7 DEF ScannedIn, Phase
<1>9. ASSUME NEW m \in Live, m # n
      PROVE  /\ Phase(op, m) = "stable" /\ ScannedIn(op, m) = {} /\ PendIn(op, m) = 0
             /\ Phase(op', m) = "stable" /\ ScannedIn(op', m) = {} /\ PendIn(op', m) = 0
  <2>1. /\ Phase(op, m) = "stable" /\ ScannedIn(op, m) = {} /\ PendIn(op, m) = 0
    BY <1>9 DEF Phase, ScannedIn, PendIn
  <2>2. /\ Phase(op', m) = "stable" /\ ScannedIn(op', m) = {} /\ PendIn(op', m) = 0
    <3>1. op' \in {Idle} \cup CloneRec \/ (op' \in GrowRec /\ op'.on # m)
      BY <1>9
    <3> QED BY <3>1, NoGrowth, Growth
  <2> QED BY <2>1, <2>2
<1>10. \A m \in Live' : Good(hash'[m], W2[m], Phase(op', m), ScannedIn(op', m), PendIn(op', m))
  <2> TAKE m \in Live'
  <2>1. m \in Names /\ (m # n => m \in Live)
    BY <1>1, <1>5 DEF Live
  <2>2. CASE m = n
    BY <2>2, <1>3, <1>8
  <2>3. CASE m # n
    <3>1. Good(hash[m], W[m], Phase(op, m), ScannedIn(op, m), PendIn(op, m))
      BY <2>1, <2>3 DEF IInv
    <3> QED BY <2>1, <2>3, <3>1, <1>3, <1>9
  <2> QED BY <2>2, <2>3
<1>11. OpOK'
  BY DEF OpOK
<1>12. IInv(W2)'
  BY <1>6, <1>7, <1>10, <1>11 DEF IInv
<1> QED BY <1>12 DEF Inv

LEMMA PairsOf ==
    ASSUME NEW h, NEW w, NEW h2, NEW w2, NEW k, NEW v
    PROVE  /\ SameContent(h, w, h2, w2) => Pairs(h2, Used(w2)) = Pairs(h, Used(w))
           /\ Adds(h, w, h2, w2, k, v) => Pairs(h2, Used(w2)) = Pairs(h, Used(w)) \cup {<<k, v>>}
<1>1. SameContent(h, w, h2, w2) => Pairs(h2, Used(w2)) = Pairs(h, Used(w))
  BY DEF SameContent, Pairs
<1>2. ASSUME Adds(h, w, h2, w2, k, v)
      PROVE  Pairs(h2, Used(w2)) = Pairs(h, Used(w)) \cup {<<k, v>>}
  <2>1. PICK b : /\ b \notin Used(w) /\ Used(w2) = Used(w) \cup {b}
                 /\ h2.pool[b].key = k /\ h2.pool[b].value = v
                 /\ \A c \in Used(w) : /\ h2.pool[c].key = h.pool[c].key
                                       /\ h2.pool[c].value = h.pool[c].value
    BY <1>2 DEF Adds
  <2>2. Pairs(h2, Used(w2)) = Pairs(h2, Used(w)) \cup {<<k, v>>}
    BY <2>1 DEF Pairs
  <2>3. Pairs(h2, Used(w)) = Pairs(h, Used(w))
    BY <2>1 DEF Pairs
  <2> QED BY <2>2, <2>3
<1> QED BY <1>1, <1>2

\* The end of expand_hash.
LEMMA EndOfMove ==
    ASSUME NEW h, NEW w, NEW S, NEW p, Good(h, w, "move", S, p),
           NEW hi \in Nat, hi > h.max_chain, NEW prev, MoveOK(h, w, hi, prev, S)
    PROVE  Used(w) \subseteq S
<1>1. HashOK(h, w, Grown(h), Buckets(Grown(h))) /\ h.max_chain \in Int
  BY Sizes DEF Good, TableSize, PoolSize
<1>2. \A x \in Used(w) : w.own[x] \in Nat
  BY <1>1, OrderedFacts
<1>3. \A x \in Used(w) : w.own[x] > h.max_chain \/ w.own[x] < hi
  BY <1>1, <1>2
<1> QED BY <1>3 DEF MoveOK, Scanned

LEMMA ExpandedFacts ==
    ASSUME NEW W, IInv(W), Expanded
    PROVE  \E n, h2, w2 :
             /\ n = op.on /\ n \in Live /\ hash' = [hash EXCEPT ![n] = h2]
             /\ Good(h2, w2, "stable", {}, 0) /\ h2.key_type = hash[n].key_type
             /\ \/ op.key = NULL /\ SameContent(hash[n], W[n], h2, w2)
                \/ /\ op.key # NULL /\ op.key \in Keys /\ op.value \in Values
                   /\ op.key \notin KeysOf(hash[n])
                   /\ Adds(hash[n], W[n], h2, w2, op.key, op.value)
<1>2. op.at = "move" /\ op.hi > OpHash.max_chain
  BY DEF Expanded, Working
<1>3. PICK n \in Names : n = op.on
  BY <1>2, GrowStart
<1> DEFINE h == hash[n]
           w == W[n]
           S == op.scanned
           p == IF op.key # NULL THEN 1 ELSE 0
<1>4. /\ op \in MoveRec /\ n \in Live /\ Good(h, w, "move", S, p)
      /\ MoveOK(h, w, op.hi, op.prev, S)
  BY <1>2, <1>3, GrowStart DEF IInv
<1>5. op.hi \in Nat /\ op.hi > h.max_chain
  BY <1>2, <1>3, <1>4 DEF MoveRec, OpHash
<1>6. op.key # NULL => op.key \in Keys /\ op.value \in Values /\ op.key \notin KeysOf(h)
  BY <1>2, <1>3, <1>4 DEF IInv, OpOK, GrowOK, MoveRec
<1>7. PICK g : g = [h EXCEPT !.max_chain = Grown(h) - 1]
  OBVIOUS
<1>8. \/ op.key = NULL /\ hash' = [hash EXCEPT ![n] = g]
      \/ op.key # NULL /\ hash' = [hash EXCEPT ![n] = Linked(g, op.key, op.value)]
  BY <1>3, <1>7 DEF Expanded, Become, OpHash
<1> HIDE DEF h, w, S, p
<1>9. Good(g, w, "stable", {}, p) /\ SameContent(h, w, g, w)
  BY <1>4, <1>5, <1>7, EndOfMove, GoodExpanded
<1>10. g.free_list # NULL /\ g.key_type = h.key_type
  <2>1. h.free_list # NULL /\ g.free_list = h.free_list /\ g.key_type = h.key_type
    BY <1>4, <1>7 DEF MoveOK, Good, HashOK, HashRec
  <2> QED BY <2>1
<1>11. CASE op.key = NULL
  <2>1. Good(g, w, "stable", {}, 0)
    BY <1>9, <1>11 DEF p
  <2> QED BY <2>1, <1>3, <1>4, <1>8, <1>9, <1>10, <1>11 DEF h, w
<1>12. CASE op.key # NULL
  <2>1. Good(g, w, "stable", {}, 1)
    BY <1>9, <1>12 DEF p
  <2>2. op.key \in Keys /\ op.value \in Values /\ op.key \notin KeysOf(g)
    <3>1. KeysOf(g) = { g.pool[c].key : c \in Used(w) }
      BY <2>1, KeysAre
    <3>2. KeysOf(h) = { h.pool[c].key : c \in Used(w) }
      BY <1>4, KeysAre
    <3> QED BY <3>1, <3>2, <1>6, <1>9, <1>12 DEF SameContent
  <2>3. PICK h2 : h2 = Linked(g, op.key, op.value)
    OBVIOUS
  <2>4. PICK w2 : Good(h2, w2, "stable", {}, 0) /\ Adds(g, w, h2, w2, op.key, op.value)
    BY <2>1, <2>2, <2>3, <1>10, GoodLinked
  <2>5. Adds(h, w, h2, w2, op.key, op.value)
    BY <2>4, <1>9 DEF Adds, SameContent
  <2>6. h2.key_type = h.key_type
    BY <2>1, <2>3, <1>10 DEF Linked, Good, HashOK, HashRec
  <2>7. hash' = [hash EXCEPT ![n] = h2]
    BY <2>3, <1>8, <1>12
  <2> QED BY <2>2, <2>4, <2>5, <2>6, <2>7, <1>3, <1>4, <1>6, <1>12 DEF h, w
<1> QED BY <1>11, <1>12

LEMMA StepExpanded == Inv /\ Expanded => Inv'
<1> SUFFICES ASSUME Inv, Expanded PROVE Inv'
  OBVIOUS
<1>1. PICK W : IInv(W)
  BY DEF Inv
<1>2. op.at = "move" /\ op' = op.ret /\ utf8' = utf8 /\ it' = it
  BY DEF Expanded, Working
<1>3. PICK n, h2, w2 :
        /\ n = op.on /\ n \in Live /\ hash' = [hash EXCEPT ![n] = h2]
        /\ Good(h2, w2, "stable", {}, 0)
        /\ \/ op.key = NULL /\ SameContent(hash[n], W[n], h2, w2)
           \/ op.key # NULL /\ Adds(hash[n], W[n], h2, w2, op.key, op.value)
  BY <1>1, ExpandedFacts
<1> DEFINE h == hash[n]
           w == W[n]
<1>4. op \in MoveRec /\ n \in Names
  BY <1>1, <1>2, <1>3, GrowStart
<1>5. op' \in {Idle} \cup CloneRec /\ op # Idle
  BY <1>2, <1>4, Growth DEF MoveRec
<1>6. op.ret # Idle => n = "clone"
  BY <1>1, <1>2, <1>3 DEF IInv, OpOK, GrowOK
<1>9. it # NoIter => n # "hash" /\ it \in IterRec /\ IterOK(hash["hash"], W["hash"], it)
  <2>1. Phase(op, n) # "stable"
    BY <1>2, <1>3, <1>4, Growth
  <2> QED BY <2>1, <1>1 DEF IInv
<1>10. CloneOK(W) /\ DOMAIN hash = Names /\ utf8 \subseteq Keys
  BY <1>1 DEF IInv, ShapeOK
<1> HIDE DEF h, w
<1>14. /\ hash' = [hash EXCEPT ![n] = h2] /\ Good(h2, w2, "stable", {}, 0)
       /\ Pairs(h2, Used(w2)) = Pairs(h, Used(w))
             \cup (IF op.key # NULL THEN {<<op.key, op.value>>} ELSE {})
  <2>1. CASE op.key = NULL /\ SameContent(h, w, h2, w2)
    <3>1. Pairs(h2, Used(w2)) = Pairs(h, Used(w))
      BY <2>1 DEF SameContent, Pairs
    <3> QED BY <2>1, <3>1, <1>3
  <2>2. CASE op.key # NULL /\ Adds(h, w, h2, w2, op.key, op.value)
    <3>1. Pairs(h2, Used(w2)) = Pairs(h, Used(w)) \cup {<<op.key, op.value>>}
      BY <2>2, PairsOf
    <3> QED BY <2>2, <3>1, <1>3
  <2> QED BY <2>1, <2>2, <1>3 DEF h, w
<1> DEFINE W2 == [m \in Names |-> IF m = n THEN w2 ELSE W[m]]
<1>15. W2[n] = w2 /\ \A m \in Names : m # n => W2[m] = W[m]
  BY <1>4
<1>16. hash'[n] = h2 /\ \A m \in Names : m # n => hash'[m] = hash[m]
  BY <1>4, <1>10, <1>14
<1> HIDE DEF W2
<1>17. Good(h2, W2[n], Phase(op', n), {}, PendIn(op', n)) /\ Phase(op', "hash") = "stable"
  BY <1>5, <1>14, <1>15, NoGrowth
<1>18. op'.at \in {"idle", "clone"} /\ (op' = Idle => op'.at # "clone")
  BY <1>5, NoGrowth DEF Idle
<1>19. "clone" \in Live => ("clone" \in Live)'
  <2>1. h2 # NoHash
    BY <1>14, GoodIsLive
  <2> QED BY <2>1, <1>16 DEF Live, Names
<1>20. CloneOK(W2)'
  <2> SUFFICES ASSUME Cloning' PROVE CloneOK(W2)'
    BY DEF CloneOK
  <2>1. op.ret # Idle /\ op' # Idle /\ op'.at = "clone" /\ n = "clone" /\ Cloning
    BY <1>2, <1>5, <1>6, <1>18 DEF Cloning, CloneRec
  <2>2. FromOp' = FromOp /\ Pending' = {}
    BY <2>1, <1>2 DEF FromOp, Pending
  <2>3. Pending = IF op.key # NULL THEN {<<op.key, op.value>>} ELSE {}
    BY <1>2 DEF Pending
  <2>4. hash'["hash"] = hash["hash"] /\ W2["hash"] = W["hash"] /\ hash'["clone"] = h2 /\ W2["clone"] = w2
    BY <2>1, <1>15, <1>16 DEF Names
  <2>5. Pairs(hash'["clone"], Used(W2["clone"])) = Pairs(hash["clone"], Used(W["clone"])) \cup Pending
    BY <2>1, <2>3, <2>4, <1>14 DEF h, w
  <2> QED BY <2>1, <2>2, <2>4, <2>5, <1>10, <1>19 DEF CloneOK
<1>21. it' # NoIter => /\ it' \in IterRec /\ Phase(op', "hash") = "stable"
                       /\ IterOK(hash'["hash"], W2["hash"], it')
  BY <1>2, <1>9, <1>15, <1>16, <1>17 DEF Names
<1>22. GrowOK' /\ op' \notin GrowRec
  BY <1>18 DEF GrowOK, GrowRec
<1> QED BY <1>1, <1>2, <1>3, <1>4, <1>5, <1>10, <1>14, <1>15, <1>17, <1>20, <1>21, <1>22, OneHash

LEMMA ConvertedKeys ==
    ASSUME utf8 \subseteq Keys, NEW h, NEW w, NEW ph, NEW S, NEW p, Good(h, w, ph, S, p), NEW k
    PROVE  KeysOf(h) \subseteq Keys /\ Converted(h, k) \subseteq Keys
<1>1. KeysOf(h) = { h.pool[b].key : b \in Used(w) }
  BY KeysAre
<1>2. \A b \in Used(w) : h.pool[b].key \in Keys
  BY DEF Good, HashOK
<1> QED BY <1>1, <1>2 DEF Converted

\* The next bucket that hash_clone copies.
NextOf(h, from) ==
  IF from.bi = NULL THEN Locate(h, 0) ELSE Following(h, from.i, from.bi)

LEMMA NextFacts ==
    ASSUME NEW h, NEW w, NEW p, Good(h, w, "stable", {}, p), NEW from,
           from.bi # NULL => from.bi \in Used(w) /\ w.own[from.bi] = from.i,
           NEW next, next = NextOf(h, from)
    PROVE  \/ next.bi = NULL /\ Visited(w, from) = Used(w)
           \/ /\ next.bi \in Used(w) /\ next.bi # NULL /\ next.i = w.own[next.bi]
              /\ next \in FromRec /\ next.bi \notin Visited(w, from)
              /\ Visited(w, next) = Visited(w, from) \cup {next.bi}
<1>1. /\ \A x \in Used(w) : x # NULL /\ x \in Nat /\ w.own[x] \in Nat /\ w.rk[x] \in Nat
      /\ \A x \in Used(w) : w.own[x] >= 0
  <2>1. h.max_chain \in Nat /\ \A x \in Used(w) : x # NULL /\ x \in Nat /\ w.own[x] \in 0..h.max_chain /\ w.rk[x] \in Nat
    BY StableFacts
  <2> QED BY <2>1
<1>2. \A x \in Used(w) : ~ After(w, x, x)
  BY <1>1 DEF After
<1>3. next \in FromRec \/ next.bi \notin Used(w) \/ next.i # w.own[next.bi]
  <2> SUFFICES ASSUME next.bi \in Used(w), next.i = w.own[next.bi] PROVE next \in FromRec
    OBVIOUS
  <2>1. next.bi \in Nat /\ next.i \in Nat
    BY <1>1
  <2>2. next = [i |-> next.i, bi |-> next.bi]
    BY DEF NextOf, Following, Locate
  <2> QED BY <2>1, <2>2 DEF FromRec
<1>4. CASE from.bi = NULL
  <2>1. next = Locate(h, 0) /\ Visited(w, from) = {}
    BY <1>4 DEF NextOf, Visited
  <2>2. \/ next.bi = NULL /\ \A x \in Used(w) : w.own[x] < 0
        \/ /\ next.bi \in Used(w) /\ next.i = w.own[next.bi]
           /\ \A x \in Used(w) : w.own[x] >= 0 <=> x = next.bi \/ After(w, next.bi, x)
    BY <2>1, LocateFacts
  <2>3. CASE next.bi = NULL /\ \A x \in Used(w) : w.own[x] < 0
    BY <2>1, <2>3, <1>1
  <2>4. CASE /\ next.bi \in Used(w) /\ next.i = w.own[next.bi]
             /\ \A x \in Used(w) : w.own[x] >= 0 <=> x = next.bi \/ After(w, next.bi, x)
    <3>1. Visited(w, next) = {next.bi}
      BY <2>4, <1>1, <1>2 DEF Visited
    <3> QED BY <2>1, <2>4, <3>1, <1>1, <1>3
  <2> QED BY <2>2, <2>3, <2>4
<1>5. CASE from.bi # NULL
  <2>1. next = Following(h, w.own[from.bi], from.bi) /\ from.bi \in Used(w)
    BY <1>5 DEF NextOf
  <2>2. \/ next.bi = NULL /\ \A x \in Used(w) : ~ After(w, from.bi, x)
        \/ /\ next.bi \in Used(w) /\ next.i = w.own[next.bi] /\ After(w, from.bi, next.bi)
           /\ \A x \in Used(w) : After(w, from.bi, x) <=> x = next.bi \/ After(w, next.bi, x)
    BY <2>1, FollowingFacts
  <2>3. CASE next.bi = NULL /\ \A x \in Used(w) : ~ After(w, from.bi, x)
    BY <2>3, <1>5 DEF Visited
  <2>4. CASE /\ next.bi \in Used(w) /\ next.i = w.own[next.bi] /\ After(w, from.bi, next.bi)
             /\ \A x \in Used(w) : After(w, from.bi, x) <=> x = next.bi \/ After(w, next.bi, x)
    <3>1. Visited(w, next) = Visited(w, from) \cup {next.bi}
      BY <2>4, <1>1, <1>2, <1>5 DEF Visited
    <3>2. next.bi \notin Visited(w, from)
      BY <2>4, <1>5 DEF Visited
    <3> QED BY <2>4, <3>1, <3>2, <1>1, <1>3
  <2> QED BY <2>2, <2>3, <2>4
<1> QED BY <1>4, <1>5

\* The key of the next bucket is not in the clone yet.
LEMMA NotCopied ==
    ASSUME NEW h, NEW w, NEW p, Good(h, w, "stable", {}, p), NEW from,
           NEW b \in Used(w), b \notin Visited(w, from),
           NEW g, NEW v, NEW q, Good(g, v, "stable", {}, q),
           Pairs(g, Used(v)) = Pairs(h, Visited(w, from))
    PROVE  h.pool[b].key \notin KeysOf(g)
<1> SUFFICES ASSUME h.pool[b].key \in KeysOf(g) PROVE FALSE
  OBVIOUS
<1>1. PICK c \in Used(v) : g.pool[c].key = h.pool[b].key
  BY KeysAre
<1>2. <<g.pool[c].key, g.pool[c].value>> \in Pairs(h, Visited(w, from))
  BY <1>1 DEF Pairs
<1>3. PICK x \in Visited(w, from) : <<g.pool[c].key, g.pool[c].value>> = <<h.pool[x].key, h.pool[x].value>>
  BY <1>2 DEF Pairs
<1>4. x \in Used(w) /\ h.pool[x].key = h.pool[b].key
  BY <1>1, <1>3 DEF Visited
<1>5. x = b
  BY <1>4 DEF Good, HashOK
<1> QED BY <1>3, <1>5

LEMMA StepCloneBucket == Inv /\ CloneBucket => Inv'
<1> SUFFICES ASSUME Inv, CloneBucket PROVE Inv'
  OBVIOUS
<1>1. PICK W : IInv(W)
  BY DEF Inv
<1>2. op.at = "clone" /\ it' = it
  BY DEF CloneBucket, Working
<1>3. op \in CloneRec /\ "hash" \in Live /\ "clone" \in Live
  <2>1. op \in CloneRec
    BY <1>1, <1>2 DEF IInv, OpOK, Idle, GrowRec, MoveRec
  <2>2. Cloning
    BY <1>2 DEF Cloning
  <2> QED BY <2>1, <2>2, <1>1 DEF IInv, ShapeOK, CloneOK
<1> DEFINE h == hash["hash"]
           w == W["hash"]
           g == hash["clone"]
           v == W["clone"]
<1>4. Good(h, w, "stable", {}, 0) /\ Good(g, v, "stable", {}, 0)
  BY <1>1, <1>2, <1>3, StableHash
<1>5. /\ op.from.bi # NULL => op.from.bi \in Used(w) /\ w.own[op.from.bi] = op.from.i
      /\ Pairs(g, Used(v)) = Pairs(h, Visited(w, op.from))
  <2>1. Cloning /\ FromOp = op.from /\ Pending = {}
    BY <1>2 DEF Cloning, FromOp, Pending
  <2> QED BY <2>1, <1>1 DEF IInv, CloneOK
<1>6. /\ DOMAIN hash = Names /\ hash = [m \in Names |-> hash[m]] /\ utf8 \subseteq Keys
      /\ it # NoIter => it \in IterRec /\ IterOK(h, w, it)
  BY <1>1 DEF IInv, ShapeOK
<1>7. PICK next : next = NextOf(h, op.from)
  OBVIOUS
<1>8. \/ next.bi = NULL /\ op' = Idle /\ UNCHANGED <<hash, utf8>>
      \/ next.bi # NULL /\ Put("clone", h.pool[next.bi].key, h.pool[next.bi].value,
                               [at |-> "clone", from |-> next])
  BY <1>7 DEF CloneBucket, NextOf
<1>9. CASE next.bi = NULL
  <2>1. op' = Idle /\ hash' = hash /\ utf8' = utf8
    BY <1>8, <1>9
  <2>2. hash' = [hash EXCEPT !["hash"] = h]
    BY <2>1, <1>6
  <2>3. op' \in {Idle} \cup CloneRec /\ op' \notin GrowRec /\ GrowOK'
    BY <2>1 DEF GrowOK, GrowRec, Idle
  <2>4. CloneOK(W)'
    BY <2>1 DEF CloneOK, Cloning, Idle
  <2>5. Phase(op', "hash") = "stable" /\ PendIn(op', "hash") = 0
    BY <2>3, NoGrowth
  <2> QED BY <1>1, <1>2, <1>3, <1>4, <1>6, <2>1, <2>2, <2>3, <2>4, <2>5, OneHash DEF Names
<1>10. CASE next.bi # NULL
  <2> DEFINE k == h.pool[next.bi].key
             x == h.pool[next.bi].value
             ret == [at |-> "clone", from |-> next]
  <2>1. Put("clone", k, x, ret)
    BY <1>8, <1>10
  <2> HIDE DEF h, w, g, v
  <2>2. /\ next.bi \in Used(w) /\ next.i = w.own[next.bi]
        /\ next \in FromRec /\ next.bi \notin Visited(w, op.from)
        /\ Visited(w, next) = Visited(w, op.from) \cup {next.bi}
    BY <1>4, <1>5, <1>7, <1>10, NextFacts
  <2>3. k \in Keys /\ x \in Values
    BY <2>2, <1>4 DEF Good, HashOK
  <2>4. k \notin KeysOf(g)
    BY <2>2, <1>4, <1>5, NotCopied
  <2>5. Pairs(h, Visited(w, next)) = Pairs(h, Visited(w, op.from)) \cup {<<k, x>>}
    BY <2>2 DEF Pairs
  <2>6. ret \in CloneRec /\ ret.from = next /\ ret.at = "clone" /\ ret # Idle
    BY <2>2 DEF CloneRec, Idle
  <2> HIDE DEF k, x, ret
  <2>7. PICK h2, w2 : /\ hash' = [hash EXCEPT !["clone"] = h2] /\ utf8' = Converted(g, k)
                      /\ PutOutcome(g, v, h2, w2, "clone", k, x, ret, op')
    BY <2>1, <2>3, <1>4, PutFacts DEF g
  <2>8. utf8' \subseteq Keys
    BY <2>7, <1>4, <1>6, ConvertedKeys
  <2> DEFINE W2 == [m \in Names |-> IF m = "clone" THEN w2 ELSE W[m]]
  <2>9. W2["clone"] = w2 /\ W2["hash"] = w /\ \A m \in Names : m # "clone" => W2[m] = W[m]
    BY DEF Names, w
  <2>10. hash'["clone"] = h2 /\ hash'["hash"] = h
    BY <2>7, <1>6 DEF Names, h
  <2> HIDE DEF W2
  <2>11. \/ op' = ret /\ Good(h2, w2, "stable", {}, 0) /\ Adds(g, v, h2, w2, k, x)
         \/ /\ op' = GrowOp("clone", k, x, ret) /\ k \notin KeysOf(h2)
            /\ Good(h2, w2, "grow_table", {}, 1) /\ SameContent(g, v, h2, w2)
    BY <2>4, <2>7 DEF PutOutcome
  <2>12. "hash" \in Live' /\ "clone" \in Live'
    <3>1. h2 # NoHash
      BY <2>11, GoodIsLive
    <3> QED BY <3>1, <1>3, <2>10 DEF Live, h, Names
  <2>13. /\ op' \in CloneRec \cup GrowRec /\ (op' \in GrowRec => op'.on = "clone") /\ GrowOK'
         /\ Good(h2, w2, Phase(op', "clone"), {}, PendIn(op', "clone"))
         /\ Phase(op', "hash") = "stable" /\ Cloning' /\ FromOp' = next
         /\ Pairs(h2, Used(w2)) \cup Pending' = Pairs(g, Used(v)) \cup {<<k, x>>}
    <3>1. CASE op' = ret /\ Good(h2, w2, "stable", {}, 0) /\ Adds(g, v, h2, w2, k, x)
      <4>1. Phase(op', "clone") = "stable" /\ Phase(op', "hash") = "stable" /\ PendIn(op', "clone") = 0
        BY <3>1, <2>6, NoGrowth
      <4>2. op'.at = "clone" /\ op' \notin GrowRec /\ GrowOK' /\ Cloning' /\ FromOp' = next /\ Pending' = {}
        BY <3>1, <2>6 DEF GrowRec, GrowOK, Cloning, FromOp, Pending
      <4>3. Pairs(h2, Used(w2)) = Pairs(g, Used(v)) \cup {<<k, x>>}
        BY <3>1, PairsOf
      <4> QED BY <4>1, <4>2, <4>3, <3>1, <2>6
    <3>2. CASE /\ op' = GrowOp("clone", k, x, ret) /\ k \notin KeysOf(h2)
               /\ Good(h2, w2, "grow_table", {}, 1) /\ SameContent(g, v, h2, w2)
      <4>1. /\ op' \in GrowRec /\ op'.at = "grow_table" /\ op'.on = "clone" /\ op'.key = k
            /\ op'.value = x /\ op'.ret = ret /\ k # NULL /\ op'.at # "clone"
        <5>1. k # NULL
          BY <2>3, HashAssumption
        <5> QED BY <5>1, <3>2, <2>3, <2>6 DEF GrowOp, GrowRec, Names
      <4>2. Phase(op', "clone") = "grow_table" /\ Phase(op', "hash") = "stable" /\ PendIn(op', "clone") = 1
        BY <4>1, Growth
      <4>3. GrowOK'
        BY <4>1, <3>2, <2>3, <2>10, <2>12 DEF GrowOK
      <4>4. op' # Idle
        BY <4>1 DEF Idle
      <4>5. Cloning' /\ FromOp' = next /\ Pending' = {<<k, x>>}
        BY <4>1, <4>4, <2>6 DEF Cloning, FromOp, Pending
      <4>6. Pairs(h2, Used(w2)) = Pairs(g, Used(v))
        BY <3>2 DEF SameContent, Pairs
      <4> QED BY <4>1, <4>2, <4>3, <4>5, <4>6, <3>2
    <3> QED BY <2>11, <3>1, <3>2
  <2>14. CloneOK(W2)'
    <3>1. FromOp'.bi # NULL => FromOp'.bi \in Used(W2["hash"]) /\ W2["hash"].own[FromOp'.bi] = FromOp'.i
      BY <2>2, <2>9, <2>13
    <3>2. Pairs(hash'["clone"], Used(W2["clone"])) \cup Pending'
            = Pairs(hash'["hash"], Visited(W2["hash"], FromOp'))
      BY <2>5, <2>9, <2>10, <2>13, <1>5
    <3> QED BY <3>1, <3>2, <2>12 DEF CloneOK
  <2>15. it' # NoIter => /\ it' \in IterRec /\ Phase(op', "hash") = "stable"
                         /\ IterOK(hash'["hash"], W2["hash"], it')
    BY <2>9, <2>10, <2>13, <1>2, <1>6 DEF h, w
  <2>16. Good(h2, W2["clone"], Phase(op', "clone"), {}, PendIn(op', "clone"))
    BY <2>9, <2>13
  <2> QED BY <1>1, <1>2, <1>3, <2>7, <2>8, <2>9, <2>13, <2>14, <2>15, <2>16, OneHash DEF Names
<1> QED BY <1>9, <1>10

\* A step of an iterator.
LEMMA IterStep ==
    ASSUME NEW W, IInv(W), UNCHANGED <<hash, utf8, op>>,
           it' # NoIter => /\ it' \in IterRec /\ Phase(op, "hash") = "stable"
                           /\ IterOK(hash["hash"], W["hash"], it')
    PROVE  Inv'
<1>1. ShapeOK' /\ OpOK' /\ CloneOK(W)'
  BY DEF IInv, ShapeOK, OpOK, GrowOK, Live, CloneOK, Cloning, FromOp, Pending
<1>2. \A n \in Live' : Good(hash'[n], W[n], Phase(op', n), ScannedIn(op', n), PendIn(op', n))
  BY DEF IInv, Live
<1>3. op'.at = "move" => MoveOK(hash'[op'.on], W[op'.on], op'.hi, op'.prev, op'.scanned)
  BY DEF IInv
<1>4. IInv(W)'
  BY <1>1, <1>2, <1>3 DEF IInv
<1> QED BY <1>4 DEF Inv

\* A step that drops one of the two hashes.
LEMMA OnlyHash ==
    ASSUME NEW W, IInv(W), op = Idle, op' = op, utf8' = utf8,
           DOMAIN hash' = Names, hash' = [n \in Names |-> hash'[n]],
           hash'["clone"] = NoHash, NEW v, Good(hash'["hash"], v, "stable", {}, 0),
           it' # NoIter => it' \in IterRec /\ IterOK(hash'["hash"], v, it')
    PROVE  Inv'
<1> DEFINE W2 == [n \in Names |-> v]
<1>1. Live' = {"hash"}
  BY GoodIsLive DEF Live, Names
<1>2. ShapeOK'
  BY <1>1 DEF IInv, ShapeOK
<1>3. op' \in {Idle} \cup CloneRec /\ op'.at = "idle"
  BY DEF Idle
<1>4. OpOK'
  BY <1>3 DEF OpOK, GrowOK
<1>5. \A n : Phase(op', n) = "stable" /\ ScannedIn(op', n) = {} /\ PendIn(op', n) = 0
  BY <1>3, NoGrowth
<1>6. CloneOK(W2)'
  BY DEF CloneOK, Cloning, Idle
<1>7. W2["hash"] = v
  BY DEF Names
<1> HIDE DEF W2
<1>8. \A n \in Live' : Good(hash'[n], W2[n], Phase(op', n), ScannedIn(op', n), PendIn(op', n))
  BY <1>1, <1>5, <1>7
<1>9. IInv(W2)'
  BY <1>2, <1>3, <1>4, <1>5, <1>6, <1>7, <1>8 DEF IInv
<1> QED BY <1>9 DEF Inv

LEMMA IterReplaces ==
    ASSUME NEW h, NEW w, NEW t, IterOK(h, w, t),
           NEW h2, NEW k, NEW v, Replaces(h, w, h2, k, v)
    PROVE  IterOK(h2, w, t)
<1>1. \A x \in Used(w) : h2.pool[x].key = h.pool[x].key
  BY DEF Replaces
<1>2. \A x \in Rest(w, t) : x \in Used(w)
  BY DEF Rest
<1>3. RestKeys(h2, w, t) = RestKeys(h, w, t)
  BY <1>1, <1>2 DEF RestKeys
<1> QED BY <1>3 DEF IterOK

LEMMA IterRemoves ==
    ASSUME NEW h, NEW w, NEW t \in IterRec, IterOK(h, w, t), Good(h, w, "stable", {}, 0),
           NEW h2, NEW w2, NEW k, Removes(h, w, h2, w2, k), Good(h2, w2, "stable", {}, 0),
           t.got # <<>>, t.got[Len(t.got)] = k
    PROVE  IterOK(h2, w2, t)
<1>1. PICK b \in Used(w) :
        /\ h.pool[b].key = k /\ Used(w2) = Used(w) \ {b}
        /\ \A c \in Used(w2) : /\ h2.pool[c].key = h.pool[c].key
                               /\ w2.own[c] = w.own[c]
        /\ \A c, d \in Used(w2) : w2.rk[c] <= w2.rk[d] <=> w.rk[c] <= w.rk[d]
  BY DEF Removes
<1>2. k \in Range(t.got)
  <2>1. t.got \in Seq(Keys)
    BY DEF IterRec
  <2>2. Len(t.got) \in DOMAIN t.got
    BY <2>1
  <2> QED BY <2>2 DEF Range
<1>3. b \notin Rest(w, t)
  <2>1. k \notin RestKeys(h, w, t)
    BY <1>2 DEF IterOK
  <2> QED BY <2>1, <1>1 DEF RestKeys
<1>4. /\ \A x \in Used(w) : x # Junk /\ w.own[x] \in Nat /\ w.rk[x] \in Nat
      /\ \A x \in Used(w2) : w2.rk[x] \in Nat
  <2>1. h.max_chain \in Nat /\ \A x \in Used(w) : x # Junk /\ w.own[x] \in 0..h.max_chain /\ w.rk[x] \in Nat
    BY StableFacts
  <2>2. \A x \in Used(w2) : w2.rk[x] \in Nat
    BY StableFacts
  <2> QED BY <2>1, <2>2
<1>5. /\ t.i = -1 \/ (t.bi \in Used(w2) /\ t.i = w2.own[t.bi])
      /\ Rest(w2, t) = Rest(w, t)
  <2>1. CASE t.i = -1
    BY <2>1 DEF Rest
  <2>2. CASE t.i # -1
    <3>1. t.bi \in Used(w) /\ t.i = w.own[t.bi] /\ t.bi # Junk
      BY <2>2, <1>4 DEF IterOK
    <3>2. t.bi # b
      BY <3>1, <2>2, <1>3 DEF Rest
    <3>3. t.bi \in Used(w2) /\ t.i = w2.own[t.bi]
      BY <3>1, <3>2, <1>1
    <3>4. ASSUME NEW x \in Used(w2)
          PROVE  After(w2, t.bi, x) <=> After(w, t.bi, x)
      <4>1. x \in Used(w) /\ t.bi \in Used(w)
        BY <3>3, <1>1
      <4>2. w2.own[x] = w.own[x] /\ w2.own[t.bi] = w.own[t.bi]
        BY <3>3, <1>1
      <4>3. w2.rk[x] <= w2.rk[t.bi] <=> w.rk[x] <= w.rk[t.bi]
        BY <3>3, <1>1
      <4>4. w2.rk[x] \in Nat /\ w2.rk[t.bi] \in Nat /\ w.rk[x] \in Nat /\ w.rk[t.bi] \in Nat
        BY <4>1, <3>3, <1>4
      <4>5. w2.rk[x] > w2.rk[t.bi] <=> w.rk[x] > w.rk[t.bi]
        BY <4>3, <4>4
      <4> QED BY <4>2, <4>5 DEF After
    <3>5. Rest(w, t) = { x \in Used(w) : x = t.bi \/ After(w, t.bi, x) }
      BY <3>1, <2>2 DEF Rest
    <3>6. Rest(w2, t) = { x \in Used(w2) : x = t.bi \/ After(w2, t.bi, x) }
      BY <3>1, <2>2 DEF Rest
    <3> QED BY <3>3, <3>4, <3>5, <3>6, <1>1, <1>3
  <2> QED BY <2>1, <2>2
<1>6. RestKeys(h2, w2, t) = RestKeys(h, w, t)
  <2>1. \A x \in Rest(w, t) : x \in Used(w2)
    BY <1>5 DEF Rest
  <2> QED BY <2>1, <1>1, <1>5 DEF RestKeys
<1> QED BY <1>5, <1>6 DEF IterOK

LEMMA StepPut == ASSUME Inv, NEW n \in Names, NEW k \in Keys, NEW x \in Values, hash_put(n, k, x)
                 PROVE  Inv'
<1>1. PICK W : IInv(W)
  BY DEF Inv
<1>2. op = Idle /\ n \in Live /\ op.at = "idle"
  BY DEF hash_put, Ready, Live, Idle
<1> DEFINE g == hash[n]
           v == W[n]
<1>3. Good(g, v, "stable", {}, 0)
  BY <1>1, <1>2, StableHash
<1>4. /\ DOMAIN hash = Names /\ utf8 \subseteq Keys /\ "hash" \in Live
      /\ it # NoIter => it \in IterRec /\ IterOK(hash["hash"], W["hash"], it)
  BY <1>1 DEF IInv, ShapeOK
<1>5. it' = IF n = "hash" /\ k \notin KeysOf(g) THEN NoIter ELSE it
  BY DEF hash_put
<1>6. PICK h2, w2 : /\ hash' = [hash EXCEPT ![n] = h2] /\ utf8' = Converted(g, k)
                    /\ PutOutcome(g, v, h2, w2, n, k, x, Idle, op')
  BY <1>3, PutFacts DEF hash_put
<1> HIDE DEF g, v
<1> DEFINE W2 == [m \in Names |-> IF m = n THEN w2 ELSE W[m]]
<1>7. W2[n] = w2 /\ \A m \in Names : m # n => W2[m] = W[m]
  OBVIOUS
<1>8. hash'[n] = h2 /\ \A m \in Names : m # n => hash'[m] = hash[m]
  BY <1>4, <1>6
<1> HIDE DEF W2
<1>9. utf8' \subseteq Keys
  BY <1>3, <1>4, <1>6, ConvertedKeys
<1>10. \/ op' = Idle /\ Good(h2, w2, "stable", {}, 0)
       \/ /\ op' = GrowOp(n, k, x, Idle) /\ k \notin KeysOf(h2) /\ Good(h2, w2, "grow_table", {}, 1)
          /\ k \notin KeysOf(g)
  BY <1>6 DEF PutOutcome
<1>11. /\ op' \in {Idle} \cup GrowRec /\ (op' \in GrowRec => op'.on = n) /\ GrowOK'
       /\ Good(h2, w2, Phase(op', n), {}, PendIn(op', n)) /\ ~ Cloning'
       /\ Phase(op', "hash") = "stable" \/ it' = NoIter
  <2>1. CASE op' = Idle /\ Good(h2, w2, "stable", {}, 0)
    <3>1. Phase(op', n) = "stable" /\ Phase(op', "hash") = "stable" /\ PendIn(op', n) = 0
      BY <2>1, NoGrowth
    <3>2. op' \notin GrowRec /\ GrowOK' /\ ~ Cloning'
      BY <2>1 DEF GrowRec, GrowOK, Cloning, Idle
    <3> QED BY <3>1, <3>2, <2>1
  <2>2. CASE /\ op' = GrowOp(n, k, x, Idle) /\ k \notin KeysOf(h2) /\ Good(h2, w2, "grow_table", {}, 1)
             /\ k \notin KeysOf(g)
    <3>1. /\ op' \in GrowRec /\ op'.at = "grow_table" /\ op'.on = n /\ op'.key = k
          /\ op'.value = x /\ op'.ret = Idle /\ k # NULL
      <4>1. k # NULL
        BY HashAssumption
      <4> QED BY <4>1, <2>2 DEF GrowOp, GrowRec
    <3>2. Phase(op', n) = "grow_table" /\ (n # "hash" => Phase(op', "hash") = "stable") /\ PendIn(op', n) = 1
      BY <3>1, Growth
    <3>3. h2 # NoHash
      BY <2>2, GoodIsLive
    <3>4. GrowOK' /\ ~ Cloning'
      BY <3>1, <3>3, <2>2, <1>8 DEF GrowOK, Live, Cloning
    <3> QED BY <3>1, <3>2, <3>4, <2>2, <1>5
  <2> QED BY <1>10, <2>1, <2>2
<1>12. CloneOK(W2)'
  BY <1>11 DEF CloneOK
<1>13. ASSUME it' # NoIter
       PROVE  it' \in IterRec /\ Phase(op', "hash") = "stable" /\ IterOK(hash'["hash"], W2["hash"], it')
  <2>1. it' = it /\ it \in IterRec /\ IterOK(hash["hash"], W["hash"], it) /\ Phase(op', "hash") = "stable"
    BY <1>13, <1>4, <1>5, <1>11
  <2>2. CASE n = "hash"
    <3>1. w2 = v /\ Replaces(g, v, h2, k, x)
      BY <2>2, <1>5, <1>6, <1>13 DEF PutOutcome
    <3> QED BY <2>1, <2>2, <3>1, <1>7, <1>8, IterReplaces DEF g, v
  <2>3. CASE n # "hash"
    BY <2>1, <2>3, <1>7, <1>8 DEF Names
  <2> QED BY <2>2, <2>3
<1> QED BY <1>1, <1>2, <1>6, <1>7, <1>9, <1>11, <1>12, <1>13, OneHash

LEMMA StepDelete == ASSUME Inv, NEW n \in Names, NEW k \in Keys, hash_delete(n, k)
                    PROVE  Inv'
<1>1. PICK W : IInv(W)
  BY DEF Inv
<1>2. op = Idle /\ n \in Live /\ op.at = "idle" /\ op' = op /\ utf8' = utf8
  BY DEF hash_delete, Ready, Live, Idle
<1> DEFINE g == hash[n]
           v == W[n]
<1>3. Good(g, v, "stable", {}, 0)
  BY <1>1, <1>2, StableHash
<1>4. /\ DOMAIN hash = Names /\ utf8 \subseteq Keys
      /\ it # NoIter => it \in IterRec /\ IterOK(hash["hash"], W["hash"], it)
  BY <1>1 DEF IInv, ShapeOK
<1>5. it' = IF n = "hash" /\ it.active /\ (it.got = <<>> \/ it.got[Len(it.got)] # k)
            THEN NoIter ELSE it
  BY DEF hash_delete
<1>6. \/ hash' = hash
      \/ \E h2, w2 : /\ hash' = [hash EXCEPT ![n] = h2]
                     /\ Good(h2, w2, "stable", {}, 0) /\ Removes(g, v, h2, w2, k)
  BY <1>3, DeleteFacts
<1>7. \A m : Phase(op', m) = "stable" /\ PendIn(op', m) = 0
  BY <1>2, NoGrowth
<1>8. CASE hash' = hash
  BY <1>1, <1>2, <1>4, <1>5, <1>7, <1>8, IterStep
<1>9. CASE hash' # hash
  <2>1. PICK h2, w2 : /\ hash' = [hash EXCEPT ![n] = h2]
                      /\ Good(h2, w2, "stable", {}, 0) /\ Removes(g, v, h2, w2, k)
    BY <1>6, <1>9
  <2> HIDE DEF g, v
  <2> DEFINE W2 == [m \in Names |-> IF m = n THEN w2 ELSE W[m]]
  <2>2. W2[n] = w2 /\ \A m \in Names : m # n => W2[m] = W[m]
    OBVIOUS
  <2>3. hash'[n] = h2 /\ \A m \in Names : m # n => hash'[m] = hash[m]
    BY <2>1, <1>4
  <2> HIDE DEF W2
  <2>4. op' \in {Idle} \cup CloneRec /\ op' \notin GrowRec /\ GrowOK' /\ CloneOK(W2)'
    BY <1>2 DEF GrowRec, GrowOK, CloneOK, Cloning, Idle
  <2>5. ASSUME it' # NoIter
        PROVE  it' \in IterRec /\ Phase(op', "hash") = "stable" /\ IterOK(hash'["hash"], W2["hash"], it')
    <3>1. it' = it /\ it \in IterRec /\ IterOK(hash["hash"], W["hash"], it) /\ it.active
      BY <2>5, <1>4, <1>5 DEF IterRec
    <3>2. CASE n = "hash"
      <4>1. it.got # <<>> /\ it.got[Len(it.got)] = k
        BY <2>5, <3>1, <3>2, <1>5
      <4>2. IterOK(h2, w2, it)
        BY <3>1, <3>2, <4>1, <2>1, <1>3, IterRemoves DEF g, v
      <4> QED BY <3>1, <3>2, <4>2, <2>2, <2>3, <1>7
    <3>3. CASE n # "hash"
      BY <3>1, <3>3, <2>2, <2>3, <1>7 DEF Names
    <3> QED BY <3>2, <3>3
  <2>6. Good(h2, W2[n], Phase(op', n), {}, PendIn(op', n)) /\ utf8' \subseteq Keys
    BY <2>1, <2>2, <1>2, <1>4, <1>7
  <2> QED BY <1>1, <1>2, <2>1, <2>2, <2>4, <2>5, <2>6, OneHash
<1> QED BY <1>8, <1>9

LEMMA StepGet == ASSUME Inv, NEW n \in Names, NEW k \in Keys, hash_get(n, k) PROVE Inv'
BY SameHashes DEF hash_get

LEMMA StepClone == Inv /\ hash_clone => Inv'
<1> SUFFICES ASSUME Inv, hash_clone PROVE Inv'
  OBVIOUS
<1>1. PICK W : IInv(W)
  BY DEF Inv
<1>2. op = Idle /\ "hash" \in Live /\ op.at = "idle" /\ it' = it /\ utf8' = utf8
  BY DEF hash_clone, Ready, Live, Names, Idle
<1> DEFINE h == hash["hash"]
           w == W["hash"]
           ret == [at |-> "clone", from |-> [i |-> 0, bi |-> NULL]]
<1>3. Good(h, w, "stable", {}, 0)
  BY <1>1, <1>2, StableHash
<1>4. /\ DOMAIN hash = Names /\ utf8 \subseteq Keys
      /\ it # NoIter => it \in IterRec /\ IterOK(h, w, it)
  BY <1>1 DEF IInv, ShapeOK
<1>5. PICK s \in Seeds : hash' = [hash EXCEPT !["clone"] = Fresh(s, h.key_type)]
  BY DEF hash_clone
<1>6. op' = GrowOp("clone", NULL, NULL, ret)
  BY DEF hash_clone, Growing, GrowOp
<1>7. h.key_type \in {"ascii", "utf8"}
  BY <1>3 DEF Good, HashOK, HashRec
<1>8. PICK h2 : h2 = Fresh(s, h.key_type)
  OBVIOUS
<1>9. PICK w2 : Good(h2, w2, "grow_table", {}, 0) /\ Used(w2) = {}
  BY <1>7, <1>8, GoodFresh
<1>10. hash' = [hash EXCEPT !["clone"] = h2]
  BY <1>5, <1>8
<1> HIDE DEF h, w
<1> DEFINE W2 == [m \in Names |-> IF m = "clone" THEN w2 ELSE W[m]]
<1>11. W2["clone"] = w2 /\ W2["hash"] = w /\ \A m \in Names : m # "clone" => W2[m] = W[m]
  BY DEF Names, w
<1>12. hash'["clone"] = h2 /\ hash'["hash"] = h
  BY <1>4, <1>10 DEF Names, h
<1> HIDE DEF W2
<1>13. /\ op' \in GrowRec /\ op'.at = "grow_table" /\ op'.on = "clone" /\ op'.key = NULL
       /\ op'.ret = ret /\ ret \in CloneRec /\ ret # Idle /\ ret.from.bi = NULL
  <2>1. ret \in CloneRec /\ ret # Idle /\ ret.from.bi = NULL
    BY DEF CloneRec, FromRec, Idle
  <2> QED BY <2>1, <1>6 DEF GrowOp, GrowRec, Names
<1>14. Phase(op', "clone") = "grow_table" /\ Phase(op', "hash") = "stable" /\ PendIn(op', "clone") = 0
  BY <1>13, Growth
<1>15. "clone" \in Live'
  <2>1. h2 # NoHash
    BY <1>9, GoodIsLive
  <2> QED BY <2>1, <1>12 DEF Live, Names
<1>16. GrowOK'
  BY <1>13, <1>15 DEF GrowOK
<1>17. CloneOK(W2)'
  <2>1. FromOp'.bi = NULL /\ Pending' = {}
    BY <1>13 DEF FromOp, Pending
  <2>2. Pairs(hash'["clone"], Used(W2["clone"])) = {}
    BY <1>9, <1>11 DEF Pairs
  <2>3. Pairs(hash'["hash"], Visited(W2["hash"], FromOp')) = {}
    BY <2>1 DEF Pairs, Visited
  <2> QED BY <2>1, <2>2, <2>3, <1>15 DEF CloneOK
<1>18. it' # NoIter => /\ it' \in IterRec /\ Phase(op', "hash") = "stable"
                       /\ IterOK(hash'["hash"], W2["hash"], it')
  BY <1>2, <1>4, <1>11, <1>12, <1>14
<1>19. Good(h2, W2["clone"], Phase(op', "clone"), {}, PendIn(op', "clone")) /\ utf8' \subseteq Keys
  BY <1>2, <1>4, <1>9, <1>11, <1>14
<1> QED BY <1>1, <1>2, <1>10, <1>11, <1>13, <1>16, <1>17, <1>18, <1>19, OneHash DEF Names

LEMMA StepDropClone == Inv /\ DropClone => Inv'
<1> SUFFICES ASSUME Inv, DropClone PROVE Inv'
  OBVIOUS
<1>1. PICK W : IInv(W)
  BY DEF Inv
<1>2. /\ op = Idle /\ op' = op /\ it' = it /\ utf8' = utf8 /\ op.at = "idle"
      /\ hash' = [hash EXCEPT !["clone"] = NoHash]
  BY DEF DropClone, Idle
<1>3. /\ DOMAIN hash = Names /\ "hash" \in Live
      /\ it # NoIter => it \in IterRec /\ IterOK(hash["hash"], W["hash"], it)
  BY <1>1 DEF IInv, ShapeOK
<1>4. Good(hash["hash"], W["hash"], "stable", {}, 0)
  BY <1>1, <1>2, <1>3, StableHash
<1>5. /\ DOMAIN hash' = Names /\ hash' = [n \in Names |-> hash'[n]]
      /\ hash'["clone"] = NoHash /\ hash'["hash"] = hash["hash"]
  BY <1>2, <1>3 DEF Names
<1> QED BY <1>1, <1>2, <1>3, <1>4, <1>5, OnlyHash

LEMMA StepUseClone == Inv /\ UseClone => Inv'
<1> SUFFICES ASSUME Inv, UseClone PROVE Inv'
  OBVIOUS
<1>1. PICK W : IInv(W)
  BY DEF Inv
<1>2. /\ op = Idle /\ op' = op /\ it' = NoIter /\ utf8' = utf8 /\ op.at = "idle"
      /\ hash' = [hash EXCEPT !["hash"] = hash["clone"], !["clone"] = NoHash]
      /\ "clone" \in Live
  BY DEF UseClone, Idle, Live, Names
<1>3. DOMAIN hash = Names
  BY <1>1 DEF IInv, ShapeOK
<1>4. Good(hash["clone"], W["clone"], "stable", {}, 0)
  BY <1>1, <1>2, StableHash
<1>5. /\ DOMAIN hash' = Names /\ hash' = [n \in Names |-> hash'[n]]
      /\ hash'["clone"] = NoHash /\ hash'["hash"] = hash["clone"]
  BY <1>2, <1>3 DEF Names
<1> QED BY <1>1, <1>2, <1>4, <1>5, OnlyHash

LEMMA StepStartIter == Inv /\ StartIter => Inv'
<1> SUFFICES ASSUME Inv, StartIter PROVE Inv'
  OBVIOUS
<1>1. PICK W : IInv(W)
  BY DEF Inv
<1> DEFINE h == hash["hash"]
           w == W["hash"]
<1>2. /\ op = Idle /\ op.at = "idle" /\ "hash" \in Live /\ hash' = hash /\ utf8' = utf8 /\ op' = op
      /\ it' = [active |-> TRUE, i |-> IF h.entries = 0 THEN -1 ELSE 0,
                bi |-> Junk, got |-> <<>>, all |-> KeysOf(h)]
  BY DEF StartIter, Ready, Idle, Live, Names
<1>3. Good(h, w, "stable", {}, 0)
  BY <1>1, <1>2, StableHash
<1>4. Phase(op, "hash") = "stable" /\ utf8 \subseteq Keys
  BY <1>1, <1>2, NoGrowth DEF IInv, ShapeOK
<1> HIDE DEF h, w
<1>5. KeysOf(h) \subseteq Keys /\ KeysOf(h) = { h.pool[x].key : x \in Used(w) }
  BY <1>3, <1>4, KeysAre, ConvertedKeys
<1>6. h.entries = 0 <=> Used(w) = {}
  <2>1. IsFiniteSet(Used(w)) /\ h.entries = Cardinality(Used(w)) + 0
    BY <1>3, OrderedFacts DEF Good
  <2>2. Cardinality(Used(w)) \in Nat /\ (Cardinality(Used(w)) = 0 <=> Used(w) = {})
    BY <2>1, FS_CardinalityType, FS_EmptySet
  <2> QED BY <2>1, <2>2
<1>7. /\ it' \in IterRec /\ it'.bi = Junk /\ it'.got = <<>> /\ it'.all = KeysOf(h)
      /\ it'.i = IF h.entries = 0 THEN -1 ELSE 0
  BY <1>2, <1>5 DEF IterRec
<1>8. Range(it'.got) = {}
  BY <1>7 DEF Range
<1>9. RestKeys(h, w, it') = KeysOf(h)
  BY <1>5, <1>6, <1>7 DEF RestKeys, Rest
<1>10. IterOK(h, w, it')
  BY <1>6, <1>7, <1>8, <1>9 DEF IterOK
<1> QED BY <1>1, <1>2, <1>4, <1>7, <1>10, IterStep DEF h, w

LEMMA AppendFacts ==
    ASSUME NEW S, NEW s \in Seq(S), NEW e \in S
    PROVE  /\ Append(s, e) \in Seq(S) /\ Range(Append(s, e)) = Range(s) \cup {e}
           /\ (\A j, l \in DOMAIN s : s[j] = s[l] => j = l) /\ e \notin Range(s)
                => \A j, l \in DOMAIN Append(s, e) : Append(s, e)[j] = Append(s, e)[l] => j = l
<1> DEFINE t == Append(s, e)
<1>1. /\ t \in Seq(S) /\ DOMAIN t = 1..(Len(s) + 1) /\ DOMAIN s = 1..Len(s) /\ Len(s) \in Nat
      /\ t[Len(s) + 1] = e /\ \A j \in 1..Len(s) : t[j] = s[j]
  OBVIOUS
<1> HIDE DEF t
<1>2. DOMAIN t = DOMAIN s \cup {Len(s) + 1} /\ Len(s) + 1 \notin DOMAIN s
  BY <1>1
<1>3. Range(t) = Range(s) \cup {e}
  BY <1>1, <1>2 DEF Range
<1>4. ASSUME \A j, l \in DOMAIN s : s[j] = s[l] => j = l, e \notin Range(s),
             NEW j \in DOMAIN t, NEW l \in DOMAIN t, t[j] = t[l]
      PROVE  j = l
  <2>1. \A m \in DOMAIN s : t[m] = s[m] /\ s[m] # e
    BY <1>1, <1>4 DEF Range
  <2> QED BY <2>1, <1>1, <1>2, <1>4
<1> QED BY <1>1, <1>3, <1>4 DEF t

LEMMA StepGetIdx == Inv /\ hash_get_idx => Inv'
<1> SUFFICES ASSUME Inv, hash_get_idx PROVE Inv'
  OBVIOUS
<1>1. PICK W : IInv(W)
  BY DEF Inv
<1> DEFINE h == hash["hash"]
           w == W["hash"]
<1>2. PICK cur : cur = IF it.bi = Junk THEN Locate(h, it.i) ELSE [i |-> it.i, bi |-> it.bi]
  OBVIOUS
<1>3. PICK next : next = Following(h, cur.i, cur.bi)
  OBVIOUS
<1>4. /\ op = Idle /\ op.at = "idle" /\ "hash" \in Live /\ hash' = hash /\ utf8' = utf8 /\ op' = op
      /\ it.active /\ it.i # -1
      /\ it' = [it EXCEPT !.i = next.i, !.bi = next.bi, !.got = Append(@, h.pool[cur.bi].key)]
  BY <1>2, <1>3 DEF hash_get_idx, Ready, Idle, Live, Names
<1>5. Good(h, w, "stable", {}, 0) /\ Phase(op, "hash") = "stable"
  BY <1>1, <1>4, StableHash, NoGrowth
<1>6. it \in IterRec /\ IterOK(h, w, it)
  <2>1. it # NoIter
    BY <1>4 DEF NoIter
  <2> QED BY <2>1, <1>1 DEF IInv
<1> HIDE DEF h, w
<1>7. /\ \A x \in Used(w) : x # Junk /\ x # NULL /\ x \in Nat /\ w.own[x] \in Nat /\ w.rk[x] \in Nat
      /\ \A x \in Used(w) : w.own[x] >= 0 /\ w.own[x] # -1
      /\ \A x \in Used(w) : ~ After(w, x, x)
  <2>1. /\ h.max_chain \in Nat
        /\ \A x \in Used(w) : x # Junk /\ x # NULL /\ x \in Nat /\ w.own[x] \in 0..h.max_chain /\ w.rk[x] \in Nat
    BY <1>5, StableFacts
  <2> QED BY <2>1 DEF After
<1>8. cur.bi \in Used(w) /\ cur.i = w.own[cur.bi]
      /\ Rest(w, it) = { x \in Used(w) : x = cur.bi \/ After(w, cur.bi, x) }
  <2>1. CASE it.bi = Junk
    <3>1. it.i = 0 /\ Used(w) # {} /\ cur = Locate(h, 0)
      BY <2>1, <1>2, <1>4, <1>6, <1>7 DEF IterOK
    <3>2. \/ cur.bi = NULL /\ \A x \in Used(w) : w.own[x] < 0
          \/ /\ cur.bi \in Used(w) /\ cur.i = w.own[cur.bi]
             /\ \A x \in Used(w) : w.own[x] >= 0 <=> x = cur.bi \/ After(w, cur.bi, x)
      BY <3>1, <1>5, LocateFacts
    <3>3. /\ cur.bi \in Used(w) /\ cur.i = w.own[cur.bi]
          /\ \A x \in Used(w) : x = cur.bi \/ After(w, cur.bi, x)
      BY <3>1, <3>2, <1>7
    <3>4. Rest(w, it) = Used(w)
      BY <2>1, <1>4 DEF Rest
    <3> QED BY <3>3, <3>4
  <2>2. CASE it.bi # Junk
    <3>1. cur.i = it.i /\ cur.bi = it.bi
      BY <2>2, <1>2
    <3> QED BY <2>2, <3>1, <1>4, <1>6 DEF IterOK, Rest
  <2> QED BY <2>1, <2>2
<1>9. PICK k : k = h.pool[cur.bi].key
  OBVIOUS
<1>10. k \in Keys
  BY <1>5, <1>8, <1>9 DEF Good, HashOK
<1>11. next = Following(h, w.own[cur.bi], cur.bi)
  BY <1>3, <1>8
<1>12. \/ next.bi = NULL /\ next.i = -1 /\ \A x \in Used(w) : ~ After(w, cur.bi, x)
       \/ /\ next.bi \in Used(w) /\ next.i = w.own[next.bi] /\ After(w, cur.bi, next.bi)
          /\ \A x \in Used(w) : After(w, cur.bi, x) <=> x = next.bi \/ After(w, next.bi, x)
  BY <1>5, <1>8, <1>11, FollowingFacts
<1>13. /\ it' \in IterRec /\ it'.i = next.i /\ it'.bi = next.bi /\ it'.got = Append(it.got, k)
       /\ it'.all = it.all /\ it.got \in Seq(Keys)
  <2>1. next.i \in Int /\ next.bi \in Nat \cup {NULL, Junk}
    BY <1>7, <1>12
  <2>2. it.got \in Seq(Keys) /\ Append(it.got, k) \in Seq(Keys)
    BY <1>6, <1>10, AppendFacts DEF IterRec
  <2>3. it' = [it EXCEPT !.i = next.i, !.bi = next.bi, !.got = Append(it.got, k)]
    BY <1>4, <1>9
  <2> QED BY <2>1, <2>2, <2>3, <1>6 DEF IterRec
<1>14. /\ Rest(w, it') = Rest(w, it) \ {cur.bi} /\ cur.bi \in Rest(w, it)
       /\ it'.i = -1 \/ (it'.bi \in Used(w) /\ it'.i = w.own[it'.bi])
  <2>1. CASE next.bi = NULL /\ next.i = -1 /\ \A x \in Used(w) : ~ After(w, cur.bi, x)
    <3>1. Rest(w, it') = {} /\ Rest(w, it) = {cur.bi}
      BY <2>1, <1>8, <1>13 DEF Rest
    <3> QED BY <2>1, <3>1, <1>13
  <2>2. CASE /\ next.bi \in Used(w) /\ next.i = w.own[next.bi] /\ After(w, cur.bi, next.bi)
             /\ \A x \in Used(w) : After(w, cur.bi, x) <=> x = next.bi \/ After(w, next.bi, x)
    <3>1. Rest(w, it') = { x \in Used(w) : x = next.bi \/ After(w, next.bi, x) }
      BY <2>2, <1>7, <1>13 DEF Rest
    <3> QED BY <2>2, <3>1, <1>7, <1>8, <1>13
  <2> QED BY <1>12, <2>1, <2>2
<1>15. RestKeys(h, w, it) = RestKeys(h, w, it') \cup {k} /\ k \notin RestKeys(h, w, it')
  <2>1. RestKeys(h, w, it) = RestKeys(h, w, it') \cup {k}
    BY <1>9, <1>14 DEF RestKeys
  <2>2. \A x \in Rest(w, it') : x \in Used(w) /\ x # cur.bi
    BY <1>14 DEF Rest
  <2>3. \A x, y \in Used(w) : h.pool[x].key = h.pool[y].key => x = y
    BY <1>5 DEF Good, HashOK
  <2> QED BY <2>1, <2>2, <2>3, <1>8, <1>9 DEF RestKeys
<1>16. /\ it.all = Range(it.got) \cup RestKeys(h, w, it)
       /\ Range(it.got) \cap RestKeys(h, w, it) = {}
       /\ \A j, l \in DOMAIN it.got : it.got[j] = it.got[l] => j = l
  BY <1>6 DEF IterOK
<1>17. k \notin Range(it.got)
  BY <1>15, <1>16
<1>18. /\ Range(it'.got) = Range(it.got) \cup {k}
       /\ \A j, l \in DOMAIN it'.got : it'.got[j] = it'.got[l] => j = l
  BY <1>10, <1>13, <1>16, <1>17, AppendFacts
<1>19. it'.all = Range(it'.got) \cup RestKeys(h, w, it') /\ Range(it'.got) \cap RestKeys(h, w, it') = {}
  BY <1>13, <1>15, <1>16, <1>18
<1>20. IterOK(h, w, it')
  BY <1>14, <1>18, <1>19 DEF IterOK
<1> QED BY <1>1, <1>4, <1>5, <1>13, <1>20, IterStep DEF h, w

LEMMA StepEndIter == Inv /\ EndIter => Inv'
<1> SUFFICES ASSUME Inv, EndIter PROVE Inv'
  OBVIOUS
<1>1. PICK W : IInv(W)
  BY DEF Inv
<1> QED BY <1>1, IterStep DEF EndIter

LEMMA InvNext == Inv /\ [Next]_vars => Inv'
<1> SUFFICES ASSUME Inv, [Next]_vars PROVE Inv'
  OBVIOUS
<1>1. ASSUME NEW n \in Names, NEW k \in Keys, NEW v \in Values, hash_put(n, k, v) PROVE Inv'
  BY <1>1, StepPut
<1>2. ASSUME NEW n \in Names, NEW k \in Keys, hash_get(n, k) PROVE Inv'
  BY <1>2, StepGet
<1>3. ASSUME NEW n \in Names, NEW k \in Keys, hash_delete(n, k) PROVE Inv'
  BY <1>3, StepDelete
<1>4. CASE hash_clone
  BY <1>4, StepClone
<1>5. CASE DropClone
  BY <1>5, StepDropClone
<1>6. CASE UseClone
  BY <1>6, StepUseClone
<1>7. CASE StartIter
  BY <1>7, StepStartIter
<1>8. CASE hash_get_idx
  BY <1>8, StepGetIdx
<1>9. CASE EndIter
  BY <1>9, StepEndIter
<1>10. CASE GrowTable
  BY <1>10, StepGrowTable
<1>11. CASE GrowPool
  BY <1>11, StepGrowPool
<1>12. CASE MoveBucket
  BY <1>12, StepMoveBucket
<1>13. CASE NextChain
  BY <1>13, StepNextChain
<1>14. CASE Expanded
  BY <1>14, StepExpanded
<1>15. CASE CloneBucket
  BY <1>15, StepCloneBucket
<1>16. CASE UNCHANGED vars
  BY <1>16, SameHashes DEF vars
<1> QED BY <1>1, <1>2, <1>3, <1>4, <1>5, <1>6, <1>7, <1>8, <1>9, <1>10, <1>11, <1>12,
           <1>13, <1>14, <1>15, <1>16 DEF Next, Calls, Inside

LEMMA InvHolds == Spec => []Inv
BY InvInit, InvNext, PTL DEF Spec

----------------------------------------------------------------------------
(* What the invariant says.                                                 *)

\* Every field of a hash keeps its type, in every phase of growing: a free
\* list, a slot or a next link is a bucket of the pool or NULL (HASH,
\* HASHBUCKET and expand_hash of src/hash.c).
THEOREM TypeCorrect == Spec => []TypeOK
<1> SUFFICES ASSUME Inv PROVE TypeOK
  BY InvHolds, PTL
<1>1. PICK W : IInv(W)
  BY DEF Inv
<1>2. utf8 \subseteq Keys /\ op.at \in {"idle", "grow_table", "grow_pool", "move", "clone"}
  BY <1>1, NoGrowth, Growth DEF IInv, ShapeOK, OpOK
<1>3. ASSUME NEW n \in Live
      PROVE  LET h == hash[n] B == DOMAIN h.pool IN
             /\ h.max_chain \in Int /\ h.entries \in Nat /\ h.seed \in Seeds
             /\ h.free_list \in B \cup {NULL} /\ h.key_type \in {"ascii", "utf8"}
             /\ \A i \in DOMAIN h.table : h.table[i] \in B \cup {NULL, Junk}
             /\ \A b \in B : h.pool[b].next \in B \cup {NULL}
  <2> DEFINE h == hash[n]
  <2>1. PICK T, P : h \in HashRec(T, P)
    BY <1>1 DEF IInv, Good, HashOK
  <2> HIDE DEF h
  <2>2. DOMAIN h.pool = 0..(P-1) /\ DOMAIN h.table = 0..(T-1)
    BY <2>1 DEF HashRec
  <2> QED BY <2>1, <2>2 DEF HashRec, Bucket, h
<1> QED BY <1>2, <1>3 DEF TypeOK

\* Every bucket of the pool is in one chain or on the free list, once: at every
\* step of expand_hash, and after any calls of hash_put, hash_delete and
\* hash_clone.
THEOREM BucketsInOnePlace == Spec => []BucketsKept
<1> SUFFICES ASSUME Inv PROVE BucketsKept
  BY InvHolds, PTL
<1>1. PICK W : IInv(W)
  BY DEF Inv
<1> SUFFICES ASSUME NEW n \in Live
             PROVE  LET h == hash[n]
                        free == Chain(h, h.free_list)
                        owners(b) == { i \in DOMAIN h.table : b \in Chain(h, h.table[i]) } IN
                    \A b \in DOMAIN h.pool :
                      /\ IF b \in free THEN owners(b) = {}
                         ELSE \E i \in DOMAIN h.table : owners(b) = {i}
                      /\ b \notin Chain(h, h.pool[b].next)
  BY DEF BucketsKept
<1> DEFINE h == hash[n]
           w == W[n]
           owners(b) == { i \in DOMAIN h.table : b \in Chain(h, h.table[i]) }
<1>2. PICK T, P : HashOK(h, w, T, P)
  BY <1>1 DEF IInv, Good
<1> HIDE DEF h, w
<1>3. /\ DOMAIN h.pool = 0..(P-1) /\ DOMAIN h.table = 0..(T-1)
      /\ w.own \in [0..(P-1) -> {Free} \cup 0..(T-1)] /\ w.rk \in [0..(P-1) -> Nat]
      /\ Free \notin 0..(T-1)
  BY <1>2, OrderedFacts
<1>4. /\ \A b \in 0..(P-1) : Chain(h, b) = From(0..(P-1), w.own, w.rk, b)
      /\ \A i \in 0..(T-1) : Chain(h, h.table[i]) = { b \in 0..(P-1) : w.own[b] = i }
      /\ Chain(h, h.free_list) = { b \in 0..(P-1) : w.own[b] = Free }
      /\ Chain(h, NULL) = {}
  BY <1>2, ChainFacts
<1>5. ASSUME NEW b \in DOMAIN h.pool
      PROVE  /\ IF b \in Chain(h, h.free_list) THEN owners(b) = {}
                ELSE \E i \in DOMAIN h.table : owners(b) = {i}
             /\ b \notin Chain(h, h.pool[b].next)
  <2>1. owners(b) = { i \in 0..(T-1) : w.own[b] = i }
    BY <1>3, <1>4
  <2>2. b \in Chain(h, h.free_list) <=> w.own[b] = Free
    BY <1>3, <1>4
  <2>3. IF b \in Chain(h, h.free_list) THEN owners(b) = {}
        ELSE \E i \in DOMAIN h.table : owners(b) = {i}
    <3> HIDE DEF owners
    <3>1. w.own[b] \in {Free} \cup 0..(T-1)
      BY <1>3
    <3> QED BY <2>1, <2>2, <3>1, <1>3
  <2>4. b \notin Chain(h, h.pool[b].next)
    <3>1. h.pool[b].next \in 0..(P-1) \cup {NULL}
      BY <1>2, <1>3 DEF HashOK, HashRec, Bucket
    <3>2. CASE h.pool[b].next \in 0..(P-1)
      <4>1. w.rk[b] < w.rk[h.pool[b].next]
        BY <3>2, <1>2, <1>3 DEF HashOK, Ordered, InOrder, Nexts
      <4>2. w.rk[b] \in Nat /\ w.rk[h.pool[b].next] \in Nat
        BY <3>2, <1>3
      <4>3. ~ (w.rk[h.pool[b].next] <= w.rk[b])
        BY <4>1, <4>2
      <4> QED BY <3>2, <4>3, <1>4 DEF From
    <3> QED BY <3>1, <3>2, <1>4
  <2> QED BY <2>3, <2>4
<1> QED BY <1>5 DEF h

\* "No bucket will be scanned twice": the comment in expand_hash, for every
\* table and every hash function.
THEOREM NoneScannedTwice == Spec => []ScannedOnce
<1> SUFFICES ASSUME Inv PROVE ScannedOnce
  BY InvHolds, PTL
<1> SUFFICES ASSUME op.at = "move", op.hi <= OpHash.max_chain, Cursor # NULL
             PROVE  Cursor \notin op.scanned
  BY DEF ScannedOnce
<1>1. PICK W : IInv(W)
  BY DEF Inv
<1> DEFINE h == hash[op.on]
           w == W[op.on]
           p == IF op.key # NULL THEN 1 ELSE 0
<1>2. op \in MoveRec /\ Good(h, w, "move", op.scanned, p) /\ MoveOK(h, w, op.hi, op.prev, op.scanned)
  BY <1>1, GrowStart DEF IInv
<1>3. op.hi \in Nat /\ op.hi <= h.max_chain
  BY <1>2 DEF MoveRec, OpHash
<1>4. Cursor = CursorOf(h, op.hi, op.prev)
  BY DEF OpHash, Cursor, CursorOf
<1> HIDE DEF h, w, p
<1> QED BY <1>2, <1>3, <1>4, CursorFacts

\* What mark_hash finds are the used buckets.
LEMMA MarkFacts ==
    ASSUME NEW h, NEW w, NEW ph \in {"stable", "grow_table", "grow_pool"}, NEW p \in {0, 1},
           Good(h, w, ph, {}, p)
    PROVE  LET found == UNION { Chain(h, h.table[i]) : i \in mark_hash(h) } IN
           /\ \A i \in mark_hash(h) : h.table[i] # Junk
           /\ Cardinality(found) <= h.entries
           /\ { h.pool[b].key : b \in found } = KeysOf(h)
<1> DEFINE T == TableSize(h, ph)
           P == PoolSize(h, ph)
           found == UNION { Chain(h, h.table[i]) : i \in mark_hash(h) }
<1>1. HashOK(h, w, T, P) /\ Homes(h, w, {}) /\ SizeOK(h)
  BY DEF Good
<1>2. /\ DOMAIN h.pool = 0..(P-1) /\ DOMAIN h.table = 0..(T-1)
      /\ Used(w) = { b \in 0..(P-1) : w.own[b] \in 0..(T-1) }
      /\ IsFiniteSet(Used(w))
  BY <1>1, OrderedFacts
<1>3. \A i \in 0..(T-1) : Chain(h, h.table[i]) = { b \in 0..(P-1) : w.own[b] = i }
  BY <1>1, ChainFacts
<1>4. h.max_chain \in Int /\ \A i \in 0..h.max_chain : i \in 0..(T-1)
  <2>1. h.max_chain \in Int /\ Grown(h) \in Nat /\ Grown(h) > h.max_chain + 1
    BY <1>1, Sizes
  <2>2. T = Grown(h) \/ T = h.max_chain + 1
    BY DEF TableSize
  <2> QED BY <2>1, <2>2
<1>5. \A b \in Used(w) : w.own[b] \in 0..h.max_chain
  <2> TAKE b \in Used(w)
  <2>1. CASE h.max_chain = -1
    <3>1. h.max_chain + 1 = 0 /\ P = 0
      BY <2>1, HashAssumption DEF PoolSize, Buckets
    <3>2. 0..(P-1) = {}
      BY <3>1
    <3> HIDE DEF P
    <3> QED BY <3>2, <1>2
  <2>2. CASE h.max_chain \in Nat
    <3>1. HashVal[h.seed][h.pool[b].key] \in Nat
      <4>1. h.seed \in Seeds /\ h.pool[b].key \in Keys
        BY <1>1 DEF HashOK, HashRec
      <4> QED BY <4>1, HashAssumption
    <3>2. w.own[b] = HashVal[h.seed][h.pool[b].key] % (h.max_chain + 1)
      BY <1>1 DEF Homes
    <3> QED BY <3>1, <3>2, <2>2
  <2> QED BY <2>1, <2>2, <1>1 DEF SizeOK
<1> HIDE DEF T, P
<1>6. \A i \in mark_hash(h) : i \in 0..h.max_chain
  BY DEF mark_hash
<1>7. \A i \in mark_hash(h) : h.table[i] # Junk
  <2> TAKE i \in mark_hash(h)
  <2>1. i \in 0..h.max_chain /\ i \in DOMAIN h.table
    BY <1>2, <1>4, <1>6
  <2>2. ~ (i > h.max_chain)
    BY <2>1, <1>4
  <2> QED BY <2>1, <2>2 DEF Good
<1>8. found = Used(w)
  <2>1. \A b \in Used(w) : mark_hash(h) = 0..h.max_chain
    <3> TAKE b \in Used(w)
    <3>1. DOMAIN h.pool # {} /\ DOMAIN h.table # {}
      BY <1>2
    <3>2. h.pool # <<>> /\ h.table # <<>>
      <4>1. DOMAIN <<>> = {}
        OBVIOUS
      <4> QED BY <3>1, <4>1
    <3> QED BY <3>2 DEF mark_hash
  <2>2. ASSUME NEW b \in Used(w)
        PROVE  b \in found
    <3>1. w.own[b] \in mark_hash(h) /\ w.own[b] \in 0..(T-1) /\ b \in 0..(P-1)
      BY <2>1, <1>2, <1>5
    <3>2. b \in Chain(h, h.table[w.own[b]])
      BY <3>1, <1>3
    <3> QED BY <3>1, <3>2
  <2>3. ASSUME NEW b \in found
        PROVE  b \in Used(w)
    <3>1. PICK i \in mark_hash(h) : b \in Chain(h, h.table[i])
      OBVIOUS
    <3>2. i \in 0..(T-1)
      BY <1>4, <1>6
    <3>3. b \in 0..(P-1) /\ w.own[b] = i
      BY <3>1, <3>2, <1>3
    <3> QED BY <3>2, <3>3, <1>2
  <2> HIDE DEF found
  <2> QED BY <2>2, <2>3
<1> HIDE DEF found
<1>9. Cardinality(found) <= h.entries
  <2>1. h.entries = Cardinality(Used(w)) + p
    BY DEF Good
  <2>2. Cardinality(Used(w)) \in Nat
    BY <1>2, FS_CardinalityType
  <2> QED BY <2>1, <2>2, <1>8
<1>10. { h.pool[b].key : b \in found } = KeysOf(h)
  BY <1>8, KeysAre
<1> QED BY <1>7, <1>9, <1>10 DEF found

\* A collector run at an allocation, in the middle of expand_hash too, finds
\* all keys of every hash, no slot that is not initialized and no more buckets
\* than entries (mark_hash).
THEOREM MarkedWhileGrowing == Spec => []Markable
<1> SUFFICES ASSUME Inv PROVE Markable
  BY InvHolds, PTL
<1> SUFFICES ASSUME op.at \in {"idle", "grow_table", "grow_pool", "clone"}, NEW n \in Live
             PROVE  LET h == hash[n]
                        slots == mark_hash(h)
                        found == UNION { Chain(h, h.table[i]) : i \in slots } IN
                    /\ \A i \in slots : h.table[i] # Junk
                    /\ Cardinality(found) <= h.entries
                    /\ { h.pool[b].key : b \in found } = KeysOf(h)
  BY DEF Markable
<1>1. PICK W : IInv(W)
  BY DEF Inv
<1>2. /\ Good(hash[n], W[n], Phase(op, n), {}, PendIn(op, n))
      /\ Phase(op, n) \in {"stable", "grow_table", "grow_pool"} /\ PendIn(op, n) \in {0, 1}
  BY <1>1 DEF IInv, Phase, ScannedIn, PendIn
<1> QED BY <1>2, MarkFacts

LEMMA DistinctElements ==
    ASSUME NEW S, NEW s \in Seq(S), \A j, l \in DOMAIN s : s[j] = s[l] => j = l
    PROVE  Cardinality(Range(s)) = Len(s)
<1>1. Len(s) \in Nat /\ DOMAIN s = 1..Len(s)
  OBVIOUS
<1>2. s \in [1..Len(s) -> Range(s)] /\ \A e \in Range(s) : \E j \in 1..Len(s) : s[j] = e
  BY <1>1 DEF Range
<1>3. s \in Bijection(1..Len(s), Range(s))
  BY <1>1, <1>2 DEF Bijection, Injection, Surjection, IsInjective
<1> QED BY <1>1, <1>3, FS_CountingElements DEF ExistsBijection

\* hash_get_idx: an iterator returns no key twice and, at its end, has returned
\* every key that the hash had when it started.
THEOREM IteratorComplete == Spec => []IteratesOnce
<1> SUFFICES ASSUME Inv PROVE IteratesOnce
  BY InvHolds, PTL
<1> SUFFICES ASSUME it.active
             PROVE  /\ Cardinality(Range(it.got)) = Len(it.got)
                    /\ it.i = -1 => Range(it.got) = it.all
  BY DEF IteratesOnce
<1>1. PICK W : IInv(W)
  BY DEF Inv
<1>2. it \in IterRec /\ IterOK(hash["hash"], W["hash"], it)
  <2>1. it # NoIter
    BY DEF NoIter
  <2> QED BY <2>1, <1>1 DEF IInv
<1>3. Cardinality(Range(it.got)) = Len(it.got)
  <2>1. it.got \in Seq(Keys)
    BY <1>2 DEF IterRec
  <2> QED BY <2>1, <1>2, DistinctElements DEF IterOK
<1>4. it.i = -1 => Range(it.got) = it.all
  BY <1>2 DEF IterOK, RestKeys, Rest
<1> QED BY <1>3, <1>4

----------------------------------------------------------------------------
(* Hashes as maps.                                                          *)

\* A map with one more key, or another value, and a map with a key less.
With(f, k, v) == [x \in DOMAIN f \cup {k} |-> IF x = k THEN v ELSE f[x]]
Less(f, k) == [x \in DOMAIN f \ {k} |-> f[x]]

LEMMA DictIs ==
    ASSUME NEW h, NEW w, NEW ph, NEW S, NEW p, Good(h, w, ph, S, p)
    PROVE  /\ DictOf(h) \in [KeysOf(h) -> Values] /\ DOMAIN DictOf(h) = KeysOf(h)
           /\ KeysOf(h) \subseteq Keys /\ DictOf(h) # NoDict
           /\ \A b \in Used(w) : DictOf(h)[h.pool[b].key] = h.pool[b].value
<1> DEFINE at(k) == CHOOSE b \in UNION Chains(h) : h.pool[b].key = k
<1>1. UNION Chains(h) = Used(w) /\ KeysOf(h) = { h.pool[b].key : b \in Used(w) }
  BY ChainFacts DEF Good
<1>2. /\ \A b \in Used(w) : h.pool[b].key \in Keys /\ h.pool[b].value \in Values
      /\ \A b, c \in Used(w) : h.pool[b].key = h.pool[c].key => b = c
  BY DEF Good, HashOK
<1>3. DictOf(h) = [k \in KeysOf(h) |-> h.pool[at(k)].value]
  BY DEF DictOf, KeysOf
<1>4. \A b \in Used(w) : at(h.pool[b].key) = b
  BY <1>1, <1>2
<1> HIDE DEF at
<1>5. KeysOf(h) \in SUBSET Keys
  BY <1>1, <1>2
<1>6. ASSUME NEW k \in KeysOf(h)
      PROVE  h.pool[at(k)].value \in Values
  <2>1. PICK b \in Used(w) : k = h.pool[b].key
    BY <1>1
  <2> QED BY <2>1, <1>2, <1>4
<1>7. DictOf(h) \in [KeysOf(h) -> Values]
  BY <1>3, <1>6
<1>8. DictOf(h) # NoDict
  BY <1>5, <1>7, HashAssumption
<1> QED BY <1>1, <1>3, <1>4, <1>5, <1>7, <1>8

LEMMA DictSame ==
    ASSUME NEW h, NEW w, NEW ph, NEW S, NEW p, Good(h, w, ph, S, p),
           NEW h2, NEW w2, NEW ph2, NEW S2, NEW p2, Good(h2, w2, ph2, S2, p2),
           SameContent(h, w, h2, w2)
    PROVE  KeysOf(h2) = KeysOf(h) /\ DictOf(h2) = DictOf(h)
<1> DEFINE f == DictOf(h)
           g == DictOf(h2)
<1>1. /\ f \in [KeysOf(h) -> Values] /\ \A b \in Used(w) : f[h.pool[b].key] = h.pool[b].value
      /\ g \in [KeysOf(h2) -> Values] /\ \A b \in Used(w2) : g[h2.pool[b].key] = h2.pool[b].value
  BY DictIs
<1>2. /\ KeysOf(h) = { h.pool[b].key : b \in Used(w) }
      /\ KeysOf(h2) = { h2.pool[b].key : b \in Used(w2) }
  BY KeysAre
<1>3. KeysOf(h2) = KeysOf(h)
  BY <1>2 DEF SameContent
<1>4. \A b \in Used(w) : b \in Used(w2) /\ h2.pool[b].key = h.pool[b].key /\ h2.pool[b].value = h.pool[b].value
  BY DEF SameContent
<1> HIDE DEF f, g
<1>5. ASSUME NEW k \in KeysOf(h)
      PROVE  f[k] = g[k]
  <2>1. PICK b \in Used(w) : k = h.pool[b].key
    BY <1>2
  <2> QED BY <2>1, <1>1, <1>4
<1>6. f = g
  BY <1>1, <1>3, <1>5
<1> QED BY <1>3, <1>6 DEF f, g

\* A value was put: the key is new, or it had another value.
LEMMA DictPut ==
    ASSUME NEW h, NEW w, NEW ph, NEW S, NEW p, Good(h, w, ph, S, p),
           NEW h2, NEW w2, NEW ph2, NEW S2, NEW p2, Good(h2, w2, ph2, S2, p2),
           NEW k, NEW v,
           Adds(h, w, h2, w2, k, v) \/ (w2 = w /\ Replaces(h, w, h2, k, v))
    PROVE  KeysOf(h2) = KeysOf(h) \cup {k} /\ DictOf(h2) = With(DictOf(h), k, v)
<1> DEFINE f == DictOf(h)
           g == DictOf(h2)
<1>1. /\ f \in [KeysOf(h) -> Values] /\ \A b \in Used(w) : f[h.pool[b].key] = h.pool[b].value
      /\ g \in [KeysOf(h2) -> Values] /\ \A b \in Used(w2) : g[h2.pool[b].key] = h2.pool[b].value
  BY DictIs
<1>2. /\ KeysOf(h) = { h.pool[b].key : b \in Used(w) }
      /\ KeysOf(h2) = { h2.pool[b].key : b \in Used(w2) }
  BY KeysAre
<1>3. \E b : /\ Used(w2) = Used(w) \cup {b} /\ h2.pool[b].key = k /\ h2.pool[b].value = v
             /\ \A c \in Used(w) : /\ h2.pool[c].key = h.pool[c].key
                                   /\ c # b => h2.pool[c].value = h.pool[c].value
  <2>1. CASE Adds(h, w, h2, w2, k, v)
    BY <2>1 DEF Adds
  <2>2. CASE w2 = w /\ Replaces(h, w, h2, k, v)
    <3>1. PICK b \in Used(w) :
            /\ h.pool[b].key = k /\ h2.pool[b].value = v
            /\ \A c \in Used(w) : /\ h2.pool[c].key = h.pool[c].key
                                  /\ c # b => h2.pool[c].value = h.pool[c].value
      BY <2>2 DEF Replaces
    <3>2. Used(w2) = Used(w) \cup {b}
      BY <2>2, <3>1
    <3> QED BY <3>1, <3>2
  <2> QED BY <2>1, <2>2
<1>4. PICK b : /\ Used(w2) = Used(w) \cup {b} /\ h2.pool[b].key = k /\ h2.pool[b].value = v
               /\ \A c \in Used(w) : /\ h2.pool[c].key = h.pool[c].key
                                     /\ c # b => h2.pool[c].value = h.pool[c].value
  BY <1>3
<1>5. KeysOf(h2) = KeysOf(h) \cup {k}
  BY <1>2, <1>4
<1> HIDE DEF f, g
<1>6. g[k] = v
  BY <1>1, <1>4
<1>7. ASSUME NEW x \in KeysOf(h), x # k
      PROVE  g[x] = f[x]
  <2>1. PICK c \in Used(w) : x = h.pool[c].key
    BY <1>2
  <2>2. c \in Used(w2) /\ c # b /\ h2.pool[c].key = x
    BY <2>1, <1>4, <1>7
  <2> QED BY <2>1, <2>2, <1>1, <1>4
<1>8. DOMAIN f = KeysOf(h) /\ DOMAIN g = KeysOf(h) \cup {k} /\ g = [x \in DOMAIN g |-> g[x]]
  BY <1>1, <1>5
<1>9. \A x \in KeysOf(h) \cup {k} : g[x] = IF x = k THEN v ELSE f[x]
  BY <1>6, <1>7
<1>10. g = With(f, k, v)
  BY <1>8, <1>9 DEF With
<1> QED BY <1>5, <1>10 DEF f, g

LEMMA DictDelete ==
    ASSUME NEW h, NEW w, NEW ph, NEW S, NEW p, Good(h, w, ph, S, p),
           NEW h2, NEW w2, NEW ph2, NEW S2, NEW p2, Good(h2, w2, ph2, S2, p2),
           NEW k, Removes(h, w, h2, w2, k)
    PROVE  /\ KeysOf(h2) = KeysOf(h) \ {k}
           /\ DictOf(h2) = Less(DictOf(h), k)
<1> DEFINE f == DictOf(h)
           g == DictOf(h2)
<1>1. /\ f \in [KeysOf(h) -> Values] /\ \A b \in Used(w) : f[h.pool[b].key] = h.pool[b].value
      /\ g \in [KeysOf(h2) -> Values] /\ \A b \in Used(w2) : g[h2.pool[b].key] = h2.pool[b].value
  BY DictIs
<1>2. /\ KeysOf(h) = { h.pool[b].key : b \in Used(w) }
      /\ KeysOf(h2) = { h2.pool[b].key : b \in Used(w2) }
  BY KeysAre
<1>3. PICK b \in Used(w) :
        /\ h.pool[b].key = k /\ Used(w2) = Used(w) \ {b}
        /\ \A c \in Used(w2) : h2.pool[c].key = h.pool[c].key /\ h2.pool[c].value = h.pool[c].value
  BY DEF Removes
<1>4. \A c \in Used(w) : c # b => h.pool[c].key # k
  BY <1>3 DEF Good, HashOK
<1>5. KeysOf(h2) = KeysOf(h) \ {k}
  BY <1>2, <1>3, <1>4
<1> HIDE DEF f, g
<1>6. ASSUME NEW x \in KeysOf(h2)
      PROVE  g[x] = f[x]
  <2>1. PICK c \in Used(w2) : x = h2.pool[c].key
    BY <1>2
  <2> QED BY <2>1, <1>1, <1>3
<1>7. DOMAIN f = KeysOf(h) /\ DOMAIN g = KeysOf(h) \ {k} /\ g = [x \in DOMAIN g |-> g[x]]
  BY <1>1, <1>5
<1>8. g = Less(f, k)
  BY <1>5, <1>6, <1>7 DEF Less
<1> QED BY <1>5, <1>8 DEF f, g

LEMMA DictFresh ==
    ASSUME NEW s, NEW type
    PROVE  KeysOf(Fresh(s, type)) = {} /\ DictOf(Fresh(s, type)) = [k \in {} |-> 0]
<1> DEFINE h == Fresh(s, type)
<1>1. UNION Chains(h) = {}
  BY DEF Chains, Fresh
<1> HIDE DEF h
<1>2. KeysOf(h) = {}
  BY <1>1 DEF KeysOf
<1> DEFINE val(k) == h.pool[CHOOSE b \in UNION Chains(h) : h.pool[b].key = k].value
<1>3. DictOf(h) = [k \in KeysOf(h) |-> val(k)]
  BY DEF DictOf, KeysOf
<1> HIDE DEF val
<1>4. DictOf(h) = [k \in {} |-> 0]
  BY <1>2, <1>3
<1> QED BY <1>2, <1>4 DEF h

\* hash_clone has copied every bucket.
LEMMA DictCopied ==
    ASSUME NEW h, NEW w, NEW p, Good(h, w, "stable", {}, p),
           NEW g, NEW v, NEW q, Good(g, v, "stable", {}, q),
           Pairs(g, Used(v)) = Pairs(h, Used(w))
    PROVE  DictOf(g) = DictOf(h)
<1> DEFINE e == DictOf(g)
           f == DictOf(h)
<1>1. /\ f \in [KeysOf(h) -> Values] /\ \A b \in Used(w) : f[h.pool[b].key] = h.pool[b].value
      /\ e \in [KeysOf(g) -> Values] /\ \A b \in Used(v) : e[g.pool[b].key] = g.pool[b].value
  BY DictIs
<1>2. /\ KeysOf(h) = { h.pool[b].key : b \in Used(w) }
      /\ KeysOf(g) = { g.pool[b].key : b \in Used(v) }
  BY KeysAre
<1>3. /\ \A b \in Used(w) : \E c \in Used(v) :
           h.pool[b].key = g.pool[c].key /\ h.pool[b].value = g.pool[c].value
      /\ \A c \in Used(v) : \E b \in Used(w) : h.pool[b].key = g.pool[c].key
  <2>1. ASSUME NEW b \in Used(w)
        PROVE  \E c \in Used(v) : h.pool[b].key = g.pool[c].key /\ h.pool[b].value = g.pool[c].value
    <3>1. <<h.pool[b].key, h.pool[b].value>> \in Pairs(g, Used(v))
      BY DEF Pairs
    <3>2. PICK c \in Used(v) : <<h.pool[b].key, h.pool[b].value>> = <<g.pool[c].key, g.pool[c].value>>
      BY <3>1 DEF Pairs
    <3> QED BY <3>2
  <2>2. ASSUME NEW c \in Used(v)
        PROVE  \E b \in Used(w) : h.pool[b].key = g.pool[c].key
    <3>1. <<g.pool[c].key, g.pool[c].value>> \in Pairs(h, Used(w))
      BY DEF Pairs
    <3>2. PICK b \in Used(w) : <<g.pool[c].key, g.pool[c].value>> = <<h.pool[b].key, h.pool[b].value>>
      BY <3>1 DEF Pairs
    <3> QED BY <3>2
  <2> QED BY <2>1, <2>2
<1>4. KeysOf(g) = KeysOf(h)
  BY <1>2, <1>3
<1> HIDE DEF e, f
<1>5. ASSUME NEW k \in KeysOf(h)
      PROVE  f[k] = e[k]
  <2>1. PICK b \in Used(w) : k = h.pool[b].key
    BY <1>2
  <2>2. PICK c \in Used(v) : h.pool[b].key = g.pool[c].key /\ h.pool[b].value = g.pool[c].value
    BY <1>3
  <2> QED BY <2>1, <2>2, <1>1
<1>6. e = f
  BY <1>1, <1>4, <1>5
<1> QED BY <1>6 DEF e, f

----------------------------------------------------------------------------
(* A hash implements a map.                                                 *)

Shown(n) == n \in Live /\ ~ (n = "clone" /\ Cloning)

LEMMA DictsAre ==
    /\ DOMAIN Dicts = Names /\ Dicts = [n \in Names |-> Dicts[n]]
    /\ \A n \in Names : Dicts[n] = IF Shown(n) THEN DictOf(hash[n]) ELSE NoDict
BY DEF Dicts, Shown

LEMMA DictsAreThen ==
    /\ DOMAIN Dicts' = Names /\ Dicts' = [n \in Names |-> Dicts'[n]]
    /\ \A n \in Names : Dicts'[n] = IF Shown(n)' THEN DictOf(hash'[n]) ELSE NoDict
BY DEF Dicts, Shown, Live, Cloning

\* A step at which one hash changes.
LEMMA OneDict ==
    ASSUME NEW n \in Names, NEW d, Dicts'[n] = d,
           \A m \in Names : m # n => hash'[m] = hash[m] /\ (Shown(m)' <=> Shown(m))
    PROVE  Dicts' = [Dicts EXCEPT ![n] = d]
<1>1. \A m \in Names : m # n => Dicts'[m] = Dicts[m]
  BY DictsAre, DictsAreThen
<1>2. /\ DOMAIN Dicts = Names /\ Dicts = [m \in Names |-> Dicts[m]]
      /\ DOMAIN Dicts' = Names /\ Dicts' = [m \in Names |-> Dicts'[m]]
  BY DictsAre, DictsAreThen
<1> QED BY <1>1, <1>2

LEMMA SameDicts ==
    ASSUME \A m \in Names : Dicts'[m] = Dicts[m]
    PROVE  Dicts' = Dicts
BY DictsAre, DictsAreThen

\* The steps of expand_hash change no map.
LEMMA GrowsSame == Grows => Dicts' = Dicts /\ last' = last
<1> SUFFICES ASSUME Grows PROVE Dicts' = Dicts /\ last' = last
  OBVIOUS
<1>1. PICK W, n, h2, w2 : GrowOne(W, n, h2, w2)
  BY DEF Grows
<1>2. /\ IInv(W) /\ op.at \notin {"idle", "clone"} /\ n = op.on /\ n \in Live
      /\ hash' = [hash EXCEPT ![n] = h2] /\ SameContent(hash[n], W[n], h2, w2)
      /\ op' \in GrowRec \cup MoveRec /\ op'.ret = op.ret /\ last' = last
  BY <1>1 DEF GrowOne
<1>3. PICK p, S : Good(h2, w2, op'.at, S, p)
  BY <1>1 DEF GrowOne
<1>4. Good(hash[n], W[n], Phase(op, n), ScannedIn(op, n), PendIn(op, n))
  BY <1>2 DEF IInv
<1>5. DictOf(h2) = DictOf(hash[n])
  BY <1>2, <1>3, <1>4, DictSame
<1>6. op \in GrowRec \cup MoveRec
  BY <1>2, GrowStart
<1>7. Cloning' <=> Cloning
  <2>1. op.at # "clone" /\ op # Idle /\ op'.at # "clone" /\ op' # Idle
    BY <1>2, <1>6, Growth
  <2> QED BY <2>1, <1>2 DEF Cloning
<1>8. DOMAIN hash = Names /\ n \in Names
  BY <1>2 DEF IInv, ShapeOK, Live
<1>9. hash'[n] = h2 /\ \A m \in Names : m # n => hash'[m] = hash[m]
  BY <1>2, <1>8
<1>10. h2 # NoHash
  BY <1>3, GoodIsLive
<1>11. \A m \in Names : Shown(m)' <=> Shown(m)
  BY <1>2, <1>7, <1>9, <1>10 DEF Shown, Live
<1>12. \A m \in Names : Dicts'[m] = Dicts[m]
  BY <1>5, <1>9, <1>11, DictsAre, DictsAreThen
<1> QED BY <1>2, <1>12, SameDicts

\* No clone is being made before a call, nor after a call that returns or
\* grows its own hash.
LEMMA NotCloning ==
    ASSUME op = Idle
    PROVE  /\ ~ Cloning /\ \A m : Shown(m) <=> m \in Live
           /\ op' = Idle \/ (op'.at = "grow_table" /\ op'.ret = Idle)
                => ~ Cloning' /\ \A m : Shown(m)' <=> m \in Live'
<1>1. ~ Cloning
  BY DEF Cloning, Idle
<1>2. op' = Idle \/ (op'.at = "grow_table" /\ op'.ret = Idle) => ~ Cloning'
  BY DEF Cloning, Idle
<1> QED BY <1>1, <1>2 DEF Shown

LEMMA DictPutStep ==
    ASSUME Inv, NEW n \in Names, NEW k \in Keys, NEW x \in Values, hash_put(n, k, x)
    PROVE  Dict!DNext
<1>1. PICK W : IInv(W)
  BY DEF Inv
<1>2. op = Idle /\ n \in Live /\ op.at = "idle"
  BY DEF hash_put, Ready, Live, Idle
<1> DEFINE g == hash[n]
           v == W[n]
<1>3. Good(g, v, "stable", {}, 0)
  BY <1>1, <1>2, StableHash
<1>4. DOMAIN hash = Names
  BY <1>1 DEF IInv, ShapeOK
<1>5. PICK h2, w2 : /\ hash' = [hash EXCEPT ![n] = h2]
                    /\ PutOutcome(g, v, h2, w2, n, k, x, Idle, op')
  BY <1>3, PutFacts DEF hash_put
<1>6. last' = IF op' = Idle THEN [call |-> "put", on |-> n, key |-> k, value |-> x] ELSE NoCall
  BY DEF hash_put
<1>7. hash'[n] = h2 /\ \A m \in Names : m # n => hash'[m] = hash[m]
  BY <1>4, <1>5
<1>8. Dicts[n] = DictOf(g)
  BY <1>2, NotCloning, DictsAre DEF g
<1>9. DictOf(g) # NoDict
  BY <1>3, DictIs
<1> HIDE DEF g, v
<1>10. \/ /\ op' = Idle /\ Good(h2, w2, "stable", {}, 0)
          /\ Adds(g, v, h2, w2, k, x) \/ (w2 = v /\ Replaces(g, v, h2, k, x))
       \/ /\ op' = GrowOp(n, k, x, Idle)
          /\ Good(h2, w2, "grow_table", {}, 1) /\ SameContent(g, v, h2, w2)
  BY <1>5 DEF PutOutcome
<1>11. h2 # NoHash
  BY <1>10, GoodIsLive
<1>12. op' = Idle \/ (op'.at = "grow_table" /\ op'.ret = Idle)
  BY <1>10 DEF GrowOp
<1>13. Shown(n)' /\ \A m \in Names : m # n => (Shown(m)' <=> Shown(m))
  BY <1>2, <1>7, <1>11, <1>12, NotCloning DEF Live
<1>14. Dicts'[n] = DictOf(h2)
  BY <1>7, <1>13, DictsAreThen
<1>15. CASE /\ op' = Idle /\ Good(h2, w2, "stable", {}, 0)
            /\ Adds(g, v, h2, w2, k, x) \/ (w2 = v /\ Replaces(g, v, h2, k, x))
  <2>1. Dicts'[n] = With(Dicts[n], k, x)
    BY <1>3, <1>8, <1>14, <1>15, DictPut
  <2>2. Dicts' = [Dicts EXCEPT ![n] = With(Dicts[n], k, x)]
    BY <2>1, <1>7, <1>13, OneDict
  <2>3. last'.call = "put" /\ last'.on = n /\ last'.key = k /\ last'.value = x
    BY <1>6, <1>15
  <2>4. Dict!DPut(n)
    BY <2>2, <2>3, <1>8, <1>9 DEF Dict!DPut, With
  <2> QED BY <2>4 DEF Dict!DNext
<1>16. CASE /\ op' = GrowOp(n, k, x, Idle)
            /\ Good(h2, w2, "grow_table", {}, 1) /\ SameContent(g, v, h2, w2)
  <2>1. Dicts'[n] = Dicts[n]
    BY <1>3, <1>8, <1>14, <1>16, DictSame
  <2>2. \A m \in Names : Dicts'[m] = Dicts[m]
    BY <2>1, <1>7, <1>13, DictsAre, DictsAreThen
  <2>3. Dicts' = Dicts
    BY <2>2, SameDicts
  <2>4. last'.call = "none"
    BY <1>6, <1>16 DEF GrowOp, Idle, NoCall
  <2> QED BY <2>3, <2>4 DEF Dict!DNext, Dict!DOther
<1> QED BY <1>10, <1>15, <1>16

LEMMA DictGetStep ==
    ASSUME Inv, NEW n \in Names, NEW k \in Keys, hash_get(n, k)
    PROVE  Dict!DNext
<1>1. PICK W : IInv(W)
  BY DEF Inv
<1>2. op = Idle /\ n \in Live /\ op.at = "idle" /\ UNCHANGED <<hash, op>>
  BY DEF hash_get, Ready, Live, Idle
<1> DEFINE g == hash[n]
           v == W[n]
           b == find_bucket(g, k)
<1>3. Good(g, v, "stable", {}, 0)
  BY <1>1, <1>2, StableHash
<1>4. last' = [call |-> "get", on |-> n, key |-> k, found |-> b # NULL,
               value |-> IF b # NULL THEN g.pool[b].value ELSE NULL]
  BY DEF hash_get
<1>5. Dicts[n] = DictOf(g)
  BY <1>2, NotCloning, DictsAre
<1>6. Dicts' = Dicts
  BY <1>2 DEF Dicts, Live, Cloning
<1> HIDE DEF g, v, b
<1>7. \/ b \in Used(v) /\ g.pool[b].key = k /\ b # NULL
      \/ b = NULL /\ k \notin KeysOf(g)
  <2>1. HashOK(g, v, g.max_chain + 1, PoolSize(g, "stable")) /\ Homes(g, v, {})
    BY <1>3 DEF Good, TableSize
  <2>2. g.max_chain + 1 > 0
    BY <1>3, StableFacts
  <2> QED BY <2>1, <2>2, FindBucket DEF b
<1>8. /\ DictOf(g) # NoDict /\ DOMAIN DictOf(g) = KeysOf(g)
      /\ \A c \in Used(v) : DictOf(g)[g.pool[c].key] = g.pool[c].value
      /\ KeysOf(g) = { g.pool[c].key : c \in Used(v) }
  BY <1>3, DictIs, KeysAre
<1>9. (b # NULL) = (k \in DOMAIN Dicts[n])
  BY <1>5, <1>7, <1>8
<1>10. b # NULL => g.pool[b].value = Dicts[n][k]
  BY <1>5, <1>7, <1>8
<1>11. Dict!DGet(n)
  BY <1>4, <1>5, <1>6, <1>8, <1>9, <1>10 DEF Dict!DGet
<1> QED BY <1>11 DEF Dict!DNext

LEMMA DictDeleteStep ==
    ASSUME Inv, NEW n \in Names, NEW k \in Keys, hash_delete(n, k)
    PROVE  Dict!DNext
<1>1. PICK W : IInv(W)
  BY DEF Inv
<1>2. op = Idle /\ n \in Live /\ op.at = "idle" /\ op' = op
  BY DEF hash_delete, Ready, Live, Idle
<1> DEFINE g == hash[n]
           v == W[n]
<1>3. Good(g, v, "stable", {}, 0)
  BY <1>1, <1>2, StableHash
<1>4. DOMAIN hash = Names
  BY <1>1 DEF IInv, ShapeOK
<1>5. last' = [call |-> "delete", on |-> n, key |-> k]
  BY DEF hash_delete
<1>6. Dicts[n] = DictOf(g)
  BY <1>2, NotCloning, DictsAre
<1>7. \/ hash' = hash /\ k \notin KeysOf(g)
      \/ \E h2, w2 : /\ hash' = [hash EXCEPT ![n] = h2]
                     /\ Good(h2, w2, "stable", {}, 0) /\ Removes(g, v, h2, w2, k)
  BY <1>3, DeleteFacts
<1> HIDE DEF g, v
<1>8. DictOf(g) # NoDict /\ DOMAIN DictOf(g) = KeysOf(g) /\ DictOf(g) = [x \in KeysOf(g) |-> DictOf(g)[x]]
  BY <1>3, DictIs
<1>9. Dicts'[n] = Less(DictOf(g), k)
      /\ \A m \in Names : m # n => hash'[m] = hash[m] /\ (Shown(m)' <=> Shown(m))
  <2>1. CASE hash' = hash /\ k \notin KeysOf(g)
    <3>1. Dicts' = Dicts /\ \A m \in Names : Shown(m)' <=> Shown(m)
      BY <2>1, <1>2 DEF Dicts, Shown, Live, Cloning
    <3>2. Less(DictOf(g), k) = DictOf(g)
      <4>1. DOMAIN DictOf(g) \ {k} = KeysOf(g)
        BY <2>1, <1>8
      <4> QED BY <4>1, <1>8 DEF Less
    <3> QED BY <2>1, <3>1, <3>2, <1>6
  <2>2. CASE \E h2, w2 : /\ hash' = [hash EXCEPT ![n] = h2]
                         /\ Good(h2, w2, "stable", {}, 0) /\ Removes(g, v, h2, w2, k)
    <3>1. PICK h2, w2 : /\ hash' = [hash EXCEPT ![n] = h2]
                        /\ Good(h2, w2, "stable", {}, 0) /\ Removes(g, v, h2, w2, k)
      BY <2>2
    <3>2. hash'[n] = h2 /\ \A m \in Names : m # n => hash'[m] = hash[m]
      BY <3>1, <1>4
    <3>3. h2 # NoHash
      BY <3>1, GoodIsLive
    <3>4. Shown(n)' /\ \A m \in Names : m # n => (Shown(m)' <=> Shown(m))
      BY <3>2, <3>3, <1>2, NotCloning DEF Live
    <3>5. Dicts'[n] = DictOf(h2)
      BY <3>2, <3>4, DictsAreThen
    <3>6. DictOf(h2) = Less(DictOf(g), k)
      BY <3>1, <1>3, DictDelete
    <3> QED BY <3>2, <3>4, <3>5, <3>6
  <2> QED BY <1>7, <2>1, <2>2
<1>10. Dicts' = [Dicts EXCEPT ![n] = Less(DictOf(g), k)]
  BY <1>9, OneDict
<1>11. Less(DictOf(g), k) = Dict!Without(Dicts[n], k)
  BY <1>6 DEF Less, Dict!Without, Dict!Restrict
<1>12. last'.call = "delete" /\ last'.on = n /\ last'.key = k
  BY <1>5
<1>13. Dict!DDelete(n)
  BY <1>6, <1>8, <1>10, <1>11, <1>12 DEF Dict!DDelete
<1> QED BY <1>13 DEF Dict!DNext

\* The clone is not shown until it is complete.
LEMMA DictCloneStep == Inv /\ hash_clone => Dict!DNext
<1> SUFFICES ASSUME Inv, hash_clone PROVE Dict!DNext
  OBVIOUS
<1>1. PICK W : IInv(W)
  BY DEF Inv
<1>2. op = Idle /\ "hash" \in Live /\ "clone" \notin Live /\ last' = NoCall
  BY DEF hash_clone, Ready, Live, Names
<1>3. DOMAIN hash = Names
  BY <1>1 DEF IInv, ShapeOK
<1>4. hash'["hash"] = hash["hash"]
  BY <1>3 DEF hash_clone, Names
<1>5. Cloning'
  BY DEF hash_clone, Growing, Cloning, Idle
<1>6. /\ Shown("hash") /\ ~ Shown("clone")
      /\ Shown("hash")' /\ ~ Shown("clone")'
  BY <1>2, <1>4, <1>5, NotCloning DEF Shown, Live, Names
<1>7. \A m \in Names : Dicts'[m] = Dicts[m]
  BY <1>4, <1>6, DictsAre, DictsAreThen DEF Names
<1>8. Dicts' = Dicts /\ last'.call = "none"
  BY <1>2, <1>7, SameDicts DEF NoCall
<1> QED BY <1>8 DEF Dict!DNext, Dict!DOther

LEMMA DictCloneBucketStep == Inv /\ CloneBucket => Dict!DNext \/ (Dicts' = Dicts /\ last' = last)
<1> SUFFICES ASSUME Inv, CloneBucket
             PROVE  Dict!DNext \/ (Dicts' = Dicts /\ last' = last)
  OBVIOUS
<1>1. PICK W : IInv(W)
  BY DEF Inv
<1>2. op.at = "clone" /\ last' = last /\ Cloning
  BY DEF CloneBucket, Working, Cloning
<1>3. op \in CloneRec /\ "hash" \in Live /\ "clone" \in Live
  <2>1. op \in CloneRec
    BY <1>1, <1>2 DEF IInv, OpOK, Idle, GrowRec, MoveRec
  <2> QED BY <2>1, <1>1, <1>2 DEF IInv, ShapeOK, CloneOK
<1> DEFINE h == hash["hash"]
           w == W["hash"]
           g == hash["clone"]
           v == W["clone"]
<1>4. Good(h, w, "stable", {}, 0) /\ Good(g, v, "stable", {}, 0)
  BY <1>1, <1>2, <1>3, StableHash
<1>5. /\ op.from.bi # NULL => op.from.bi \in Used(w) /\ w.own[op.from.bi] = op.from.i
      /\ Pairs(g, Used(v)) = Pairs(h, Visited(w, op.from))
  <2>1. FromOp = op.from /\ Pending = {}
    BY <1>2 DEF FromOp, Pending
  <2> QED BY <2>1, <1>1, <1>2 DEF IInv, CloneOK
<1>6. DOMAIN hash = Names
  BY <1>1 DEF IInv, ShapeOK
<1>7. PICK next : next = NextOf(h, op.from)
  OBVIOUS
<1>8. \/ next.bi = NULL /\ op' = Idle /\ UNCHANGED <<hash, utf8>>
      \/ next.bi # NULL /\ Put("clone", h.pool[next.bi].key, h.pool[next.bi].value,
                               [at |-> "clone", from |-> next])
  BY <1>7 DEF CloneBucket, NextOf
<1>9. Shown("hash") /\ ~ Shown("clone") /\ Dicts["hash"] = DictOf(h) /\ Dicts["clone"] = NoDict
  <2>1. Shown("hash") /\ ~ Shown("clone")
    BY <1>2, <1>3 DEF Shown
  <2> QED BY <2>1, DictsAre DEF Names
<1>10. CASE next.bi = NULL
  <2>1. op' = Idle /\ hash' = hash
    BY <1>8, <1>10
  <2>2. ~ Cloning'
    BY <2>1 DEF Cloning, Idle
  <2>3. Dicts'["clone"] = DictOf(g) /\ \A m \in Names : m # "clone" => Shown(m)' /\ Shown(m)
    <3>1. Shown("clone")' /\ Shown("hash")'
      BY <2>1, <2>2, <1>3 DEF Shown, Live
    <3> QED BY <3>1, <2>1, <1>9, DictsAreThen DEF Names
  <2> HIDE DEF h, w, g, v
  <2>4. Visited(w, op.from) = Used(w)
    BY <1>4, <1>5, <1>7, <1>10, NextFacts
  <2>5. DictOf(g) = DictOf(h)
    BY <2>4, <1>4, <1>5, DictCopied
  <2>6. Dicts' = [Dicts EXCEPT !["clone"] = DictOf(h)]
    BY <2>1, <2>3, <2>5, OneDict DEF Names
  <2>7. DictOf(h) # NoDict
    BY <1>4, DictIs
  <2>8. Dict!DClone("hash", "clone")
    BY <2>6, <2>7, <1>2, <1>9 DEF Dict!DClone
  <2> QED BY <2>8 DEF Dict!DNext, Names
<1>11. CASE next.bi # NULL
  <2> DEFINE k == h.pool[next.bi].key
             x == h.pool[next.bi].value
             ret == [at |-> "clone", from |-> next]
  <2>1. Put("clone", k, x, ret)
    BY <1>8, <1>11
  <2>2. hash'["hash"] = h
    BY <2>1, <1>6 DEF Put, Names
  <2>3. Cloning'
    <3>1. ret.at = "clone" /\ ret # Idle
      BY DEF Idle
    <3> HIDE DEF h, k, x, ret
    <3>2. op' = ret \/ op' = GrowOp("clone", k, x, ret)
      BY <2>1 DEF Put, GrowOp
    <3>3. CASE op' = GrowOp("clone", k, x, ret)
      BY <3>1, <3>3 DEF GrowOp, Cloning, Idle
    <3> QED BY <3>1, <3>2, <3>3 DEF Cloning
  <2>4. Shown("hash")' /\ ~ Shown("clone")'
    BY <2>2, <2>3, <1>3 DEF Shown, Live, Names
  <2>5. \A m \in Names : Dicts'[m] = Dicts[m]
    BY <2>2, <2>4, <1>9, DictsAreThen DEF Names
  <2> QED BY <2>5, <1>2, SameDicts
<1> QED BY <1>10, <1>11

LEMMA DictExpandedStep == Inv /\ Expanded => Dict!DNext \/ (Dicts' = Dicts /\ last' = last)
<1> SUFFICES ASSUME Inv, Expanded
             PROVE  Dict!DNext \/ (Dicts' = Dicts /\ last' = last)
  OBVIOUS
<1>1. PICK W : IInv(W)
  BY DEF Inv
<1>2. op.at = "move" /\ op' = op.ret
  BY DEF Expanded, Working
<1>3. PICK n, h2, w2 :
        /\ n = op.on /\ n \in Live /\ hash' = [hash EXCEPT ![n] = h2]
        /\ Good(h2, w2, "stable", {}, 0)
        /\ \/ op.key = NULL /\ SameContent(hash[n], W[n], h2, w2)
           \/ op.key # NULL /\ Adds(hash[n], W[n], h2, w2, op.key, op.value)
  BY <1>1, ExpandedFacts
<1> DEFINE h == hash[n]
           w == W[n]
<1>4. op \in MoveRec /\ n \in Names /\ op # Idle
  BY <1>1, <1>2, <1>3, GrowStart, Growth
<1>5. op.ret # Idle => n = "clone"
  BY <1>1, <1>2, <1>3 DEF IInv, OpOK, GrowOK
<1>6. DOMAIN hash = Names
  BY <1>1 DEF IInv, ShapeOK
<1>7. PICK p, S : Good(h, w, "move", S, p)
  BY <1>1, <1>2, <1>3, GrowStart
<1>8. hash'[n] = h2 /\ \A m \in Names : m # n => hash'[m] = hash[m]
  BY <1>3, <1>4, <1>6
<1>9. op.ret \in {Idle} \cup CloneRec
  BY <1>4 DEF MoveRec
<1>10. (Cloning <=> op.ret # Idle) /\ (Cloning' <=> op.ret # Idle)
  <2>1. Cloning <=> op.ret # Idle
    BY <1>2, <1>4 DEF Cloning
  <2>2. Cloning' <=> op.ret # Idle
    BY <1>2, <1>9 DEF Cloning, CloneRec, Idle
  <2> QED BY <2>1, <2>2
<1>11. h2 # NoHash
  BY <1>3, GoodIsLive
<1>12. \A m \in Names : (Shown(m)' <=> Shown(m)) /\ (m # n => hash'[m] = hash[m])
  BY <1>3, <1>8, <1>10, <1>11 DEF Shown, Live
<1> HIDE DEF h, w
<1>13. CASE op.ret # Idle
  <2>1. last' = last
    BY <1>2, <1>13 DEF Expanded
  <2>2. ~ Shown(n) /\ ~ Shown(n)'
    BY <1>5, <1>10, <1>13 DEF Shown
  <2>3. \A m \in Names : Dicts'[m] = Dicts[m]
    BY <2>2, <1>12, DictsAre, DictsAreThen
  <2> QED BY <2>1, <2>3, SameDicts
<1>14. CASE op.ret = Idle
  <2>1. Shown(n) /\ Shown(n)'
    BY <1>3, <1>10, <1>12, <1>14, <1>4 DEF Shown
  <2>2. Dicts[n] = DictOf(h) /\ Dicts'[n] = DictOf(h2)
    BY <2>1, <1>4, <1>8, DictsAre, DictsAreThen DEF h
  <2>3. CASE op.key = NULL /\ SameContent(h, w, h2, w2)
    <3>1. Dicts'[n] = Dicts[n]
      BY <2>2, <2>3, <1>3, <1>7, DictSame
    <3>2. \A m \in Names : Dicts'[m] = Dicts[m]
      BY <3>1, <1>12, DictsAre, DictsAreThen
    <3>3. last' = last
      BY <2>3 DEF Expanded
    <3> QED BY <3>2, <3>3, SameDicts
  <2>4. CASE op.key # NULL /\ Adds(h, w, h2, w2, op.key, op.value)
    <3>1. Dicts'[n] = With(Dicts[n], op.key, op.value)
      BY <2>2, <2>4, <1>3, <1>7, DictPut
    <3>2. Dicts' = [Dicts EXCEPT ![n] = With(Dicts[n], op.key, op.value)]
      BY <3>1, <1>4, <1>12, OneDict
    <3>3. last' = [call |-> "put", on |-> n, key |-> op.key, value |-> op.value]
      BY <2>4, <1>3, <1>14 DEF Expanded
    <3>4. DictOf(h) # NoDict
      BY <1>7, DictIs
    <3>5. Dict!DPut(n)
      BY <2>2, <3>2, <3>3, <3>4 DEF Dict!DPut, With
    <3> QED BY <3>5, <1>4 DEF Dict!DNext
  <2> QED BY <2>3, <2>4, <1>3 DEF h, w
<1> QED BY <1>13, <1>14

LEMMA DictDropStep == Inv /\ DropClone => Dict!DNext
<1> SUFFICES ASSUME Inv, DropClone PROVE Dict!DNext
  OBVIOUS
<1>1. op = Idle /\ op' = Idle /\ last' = last /\ hash' = [hash EXCEPT !["clone"] = NoHash]
  BY DEF DropClone
<1>2. DOMAIN hash = Names
  BY DEF Inv, IInv, ShapeOK
<1>3. hash'["clone"] = NoHash /\ hash'["hash"] = hash["hash"]
  BY <1>1, <1>2 DEF Names
<1>4. ~ Shown("clone")' /\ (Shown("hash")' <=> Shown("hash"))
  BY <1>1, <1>3, NotCloning DEF Live, Names
<1>5. Dicts'["clone"] = NoDict
  BY <1>4, DictsAreThen DEF Names
<1>6. Dicts' = [Dicts EXCEPT !["clone"] = NoDict]
  BY <1>3, <1>4, <1>5, OneDict DEF Names
<1>7. Dict!DDrop("clone")
  BY <1>1, <1>6 DEF Dict!DDrop
<1> QED BY <1>7 DEF Dict!DNext, Names

LEMMA DictUseStep == Inv /\ UseClone => Dict!DNext
<1> SUFFICES ASSUME Inv, UseClone PROVE Dict!DNext
  OBVIOUS
<1>1. /\ op = Idle /\ op' = Idle /\ op.at = "idle" /\ last' = last /\ "clone" \in Live
      /\ hash' = [hash EXCEPT !["hash"] = hash["clone"], !["clone"] = NoHash]
  BY DEF UseClone, Live, Names, Idle
<1>2. PICK W : IInv(W)
  BY DEF Inv
<1>3. DOMAIN hash = Names /\ Good(hash["clone"], W["clone"], "stable", {}, 0)
  BY <1>1, <1>2, StableHash DEF IInv, ShapeOK
<1>4. hash'["clone"] = NoHash /\ hash'["hash"] = hash["clone"]
  BY <1>1, <1>3 DEF Names
<1>5. Shown("clone") /\ ~ Shown("clone")' /\ Shown("hash")'
  BY <1>1, <1>4, NotCloning DEF Live, Names
<1>6. Dicts["clone"] = DictOf(hash["clone"]) /\ Dicts'["clone"] = NoDict
      /\ Dicts'["hash"] = DictOf(hash["clone"]) /\ Dicts["clone"] # NoDict
  <2>1. DictOf(hash["clone"]) # NoDict
    BY <1>3, DictIs
  <2> QED BY <2>1, <1>4, <1>5, DictsAre, DictsAreThen DEF Names
<1>7. Dicts' = [Dicts EXCEPT !["hash"] = Dicts["clone"], !["clone"] = NoDict]
  <2>1. /\ DOMAIN Dicts = Names /\ Dicts = [m \in Names |-> Dicts[m]]
        /\ DOMAIN Dicts' = Names /\ Dicts' = [m \in Names |-> Dicts'[m]]
    BY DictsAre, DictsAreThen
  <2> QED BY <2>1, <1>6 DEF Names
<1>8. Dict!DRename("clone", "hash")
  BY <1>1, <1>6, <1>7 DEF Dict!DRename
<1> QED BY <1>8 DEF Dict!DNext, Names

LEMMA DictInit == Init => Dict!DInit
<1> SUFFICES ASSUME Init, NEW n \in Names PROVE Dicts[n] \in {NoDict, [k \in {} |-> 0]}
  BY DEF Dict!DInit
<1>1. PICK s \in Seeds : hash = [m \in Names |-> IF m = "hash" THEN Fresh(s, "ascii") ELSE NoHash]
  BY DEF Init
<1>2. hash["hash"] = Fresh(s, "ascii") /\ hash["clone"] = NoHash
  BY <1>1 DEF Names
<1>3. DictOf(hash["hash"]) = [k \in {} |-> 0] /\ "clone" \notin Live
  BY <1>2, DictFresh DEF Live
<1> QED BY <1>3, DictsAre DEF Shown, Names

LEMMA DictStep == Inv /\ [Next]_vars => Dict!DNext \/ (Dicts' = Dicts /\ last' = last)
<1> DEFINE Same == Dicts' = Dicts /\ last' = last
<1> SUFFICES ASSUME Inv, [Next]_vars PROVE Dict!DNext \/ Same
  OBVIOUS
<1>1. ASSUME NEW n \in Names, NEW k \in Keys, NEW v \in Values, hash_put(n, k, v) PROVE Dict!DNext
  BY <1>1, DictPutStep
<1>2. ASSUME NEW n \in Names, NEW k \in Keys, hash_get(n, k) PROVE Dict!DNext
  BY <1>2, DictGetStep
<1>3. ASSUME NEW n \in Names, NEW k \in Keys, hash_delete(n, k) PROVE Dict!DNext
  BY <1>3, DictDeleteStep
<1>4. hash_clone => Dict!DNext
  BY DictCloneStep
<1>5. (DropClone => Dict!DNext) /\ (UseClone => Dict!DNext)
  BY DictDropStep, DictUseStep
<1>6. UNCHANGED <<hash, op>> => Dicts' = Dicts
  BY DEF Dicts, Live, Cloning
<1>7. ASSUME StartIter \/ hash_get_idx PROVE Dict!DNext
  <2>1. UNCHANGED <<hash, op>> /\ last' = NoCall
    BY <1>7 DEF StartIter, hash_get_idx
  <2>2. Dicts' = Dicts /\ last'.call = "none"
    BY <2>1, <1>6 DEF NoCall
  <2> QED BY <2>2 DEF Dict!DNext, Dict!DOther
<1>8. EndIter \/ UNCHANGED vars => Same
  BY <1>6 DEF EndIter, vars
<1>9. GrowTable \/ GrowPool \/ MoveBucket \/ NextChain => Same
  BY GrowTableGrows, GrowPoolGrows, MoveBucketGrows, NextChainGrows, GrowsSame
<1>10. Expanded \/ CloneBucket => Dict!DNext \/ Same
  BY DictExpandedStep, DictCloneBucketStep
<1> QED BY <1>1, <1>2, <1>3, <1>4, <1>5, <1>7, <1>8, <1>9, <1>10 DEF Next, Calls, Inside

\* Every hash is a map, through growing, conversion of its keys, deletion and
\* cloning: what hash_put stored is what hash_get finds, until hash_delete, and
\* a complete clone equals its hash (src/hash.c).
THEOREM HashesAreMaps == Spec => ImplementsDict
<1>1. Init => Dict!DInit
  BY DictInit
<1>2. Inv /\ [Next]_vars => [Dict!DNext]_(Dict!dvars)
  BY DictStep DEF Dict!dvars
<1> QED BY <1>1, <1>2, InvHolds, PTL DEF Spec, ImplementsDict, Dict!DSpec

=============================================================================
