--------------------------- MODULE TSQueueProofs ----------------------------
(***************************************************************************)
(* Proofs that the linked lists of TSQueue keep their shape, that no entry *)
(* has two owners, that no signal for a waiting thread is lost and that    *)
(* the queue implements AbstractQueue, for every finite set of threads and *)
(* every set of queues and entries.                                        *)
(*                                                                         *)
(* The four operations that add an entry are reduced to one, PutAt, which  *)
(* links an entry behind the k-th one of a queue; the invariant is shown   *)
(* once for PutAt and once for TakeHead, the removal of the first entry.   *)
(***************************************************************************)
EXTENDS TSQueue, QueueFacts, FiniteSetTheorems

-----------------------------------------------------------------------------
(***************************************************************************)
(* Adding an entry.                                                        *)
(***************************************************************************)
\* Thread t links its entry into its queue behind the k-th entry; r is the
\* sequence of the entries then.
PutAt(t, k, r) ==
    LET q == qof[t]  e == hand[t]  s == lst[qof[t]]
    IN  /\ k \in 0 .. Len(s)
        /\ IsInsertion(Entry, r, s, k, e)
        /\ lst' = [lst EXCEPT ![q] = r]
        /\ head' = [head EXCEPT ![q] = IF k = 0 THEN e ELSE @]
        /\ tail' = [tail EXCEPT ![q] = IF k = Len(s) THEN e ELSE @]
        /\ next' = [x \in Entry |->
                       IF x = e THEN IF k = Len(s) THEN NULL ELSE s[k+1]
                       ELSE IF k > 0 /\ x = s[k] THEN e ELSE next[x]]
        /\ hand' = [hand EXCEPT ![t] = NULL]
        /\ pc' = [pc EXCEPT ![t] = "signal"]
        /\ UNCHANGED <<mutex, qof, prev, cur>>

\* Linking an entry into a queue whose mutex the thread owns keeps the
\* invariant.
LEMMA PutKeepsInv ==
    ASSUME Inv, NEW t \in Thread, NEW k, NEW r, PutAt(t, k, r),
           pc[t] \in Holding, hand[t] # NULL
    PROVE  Inv'
<1> DEFINE q == qof[t]
           e == hand[t]
           s == lst[qof[t]]
<1> USE NullAssumption
<1>1. /\ q \in Queue /\ e \in Entry /\ s \in Seq(Entry)
      /\ Len(s) \in Nat /\ k \in 0 .. Len(s)
      /\ \A i \in 1 .. Len(s) : s[i] \in Entry /\ s[i] # e
  <2>1. q \in Queue /\ e \in Entry /\ s \in Seq(Entry)
    BY DEF Inv, TypeOK, EntryOrNull
  <2>2. \A i \in 1 .. Len(s) : s[i] # e
    BY <2>1 DEF Inv, OneOwner
  <2> QED BY <2>1, <2>2, LenProperties, ElementOfSeq DEF PutAt
<1>2. /\ r \in Seq(Entry) /\ Len(r) = Len(s) + 1
      /\ \A i \in 1 .. Len(s) + 1 :
            r[i] = IF i <= k THEN s[i] ELSE IF i = k+1 THEN e ELSE s[i-1]
  BY DEF PutAt, IsInsertion
<1>3. TypeOK'
  <2>1. next' \in [Entry -> EntryOrNull]
    BY <1>1 DEF PutAt, Inv, TypeOK, EntryOrNull
  <2>2. lst' \in [Queue -> Seq(Entry)]
    BY <1>1, <1>2 DEF PutAt, Inv, TypeOK
  <2>3. pc' \in [Thread -> PC]
    BY DEF PutAt, Inv, TypeOK, PC
  <2>4. head' \in [Queue -> EntryOrNull] /\ tail' \in [Queue -> EntryOrNull]
    BY <1>1 DEF PutAt, Inv, TypeOK, EntryOrNull
  <2>5. hand' \in [Thread -> EntryOrNull]
    BY DEF PutAt, Inv, TypeOK, EntryOrNull
  <2> QED BY <2>1, <2>2, <2>3, <2>4, <2>5 DEF PutAt, Inv, TypeOK
<1>4. MutexOwned'
  BY DEF PutAt, Inv, TypeOK, MutexOwned, Holding
\* the entries of the other queues and in the other hands are not touched
<1>5. ASSUME NEW x \in Entry, x # e, \A i \in 1 .. Len(s) : x # s[i]
      PROVE  next'[x] = next[x]
  BY <1>1, <1>5 DEF PutAt
<1>6. HandOK'
  <2> SUFFICES ASSUME NEW u \in Thread, u # t
               PROVE  hand[u] # NULL => next'[hand[u]] = NULL
    BY DEF PutAt, Inv, TypeOK, HandOK
  <2> SUFFICES ASSUME hand[u] # NULL PROVE next'[hand[u]] = NULL
    OBVIOUS
  <2>1. hand[u] \in Entry /\ hand[u] # e /\ \A i \in 1 .. Len(s) : hand[u] # s[i]
    BY <1>1 DEF Inv, TypeOK, EntryOrNull, OneOwner
  <2>2. next[hand[u]] = NULL
    BY DEF Inv, HandOK
  <2> QED BY <1>5, <2>1, <2>2
<1>7. WalkOK'
  <2> SUFFICES ASSUME NEW u \in Thread, pc'[u] = "walk"
               PROVE  /\ Len(lst'[qof'[u]]) > 0
                      /\ \E j \in 0 .. Len(lst'[qof'[u]]) : WalkedTo(u, j)'
    BY DEF WalkOK
  <2>1. u # t /\ pc[u] = "walk" /\ qof[u] # q
    BY DEF PutAt, Inv, TypeOK, MutexOwned, Holding
  <2>2. lst'[qof'[u]] = lst[qof[u]] /\ hand'[u] = hand[u]
    BY <2>1, <1>1 DEF PutAt, Inv, TypeOK
  <2>3. Len(lst[qof[u]]) > 0 /\ \E j \in 0 .. Len(lst[qof[u]]) : WalkedTo(u, j)
    BY <2>1 DEF Inv, WalkOK
  <2> QED BY <2>2, <2>3 DEF WalkedTo, PutAt
<1>8. ListShape'
  <2> SUFFICES ASSUME NEW p \in Queue PROVE Linked(p)'
    BY DEF ListShape
  <2>1. CASE p # q
    <3>1. lst'[p] = lst[p] /\ head'[p] = head[p] /\ tail'[p] = tail[p]
      BY <2>1, <1>1 DEF PutAt, Inv, TypeOK
    <3>2. \A i \in 1 .. Len(lst[p]) : next'[lst[p][i]] = next[lst[p][i]]
      <4> SUFFICES ASSUME NEW i \in 1 .. Len(lst[p])
                   PROVE  next'[lst[p][i]] = next[lst[p][i]]
        OBVIOUS
      <4>1. lst[p][i] \in Entry
        BY ElementOfSeq DEF Inv, TypeOK
      <4>2. lst[p][i] # e /\ \A j \in 1 .. Len(s) : lst[p][i] # s[j]
        BY <2>1, <1>1 DEF Inv, OneOwner
      <4> QED BY <4>1, <4>2, <1>5
    <3> QED BY <3>1, <3>2 DEF Inv, ListShape, Linked
  <2>2. CASE p = q
    <3>1. /\ lst'[q] = r
          /\ head'[q] = IF k = 0 THEN e ELSE head[q]
          /\ tail'[q] = IF k = Len(s) THEN e ELSE tail[q]
      BY <1>1 DEF PutAt, Inv, TypeOK
    <3>2. /\ head[q] = IF Len(s) = 0 THEN NULL ELSE s[1]
          /\ tail[q] = IF Len(s) = 0 THEN NULL ELSE s[Len(s)]
          /\ \A i \in 1 .. Len(s) : next[s[i]] = IF i = Len(s) THEN NULL ELSE s[i+1]
      BY <1>1 DEF Inv, ListShape, Linked
    <3>3. \A i, j \in 1 .. Len(s) : s[i] = s[j] => i = j
      BY <1>1 DEF Inv, OneOwner
    <3>4. head'[q] = r[1] /\ tail'[q] = r[Len(r)]
      <4>1. k \in 0 .. Len(s) /\ Len(s) \in Nat /\ Len(r) = Len(s) + 1
        BY <1>1, <1>2
      <4>2. /\ r[1] = IF k = 0 THEN e ELSE s[1]
            /\ r[Len(r)] = IF k = Len(s) THEN e ELSE s[Len(s)]
        BY <4>1, <1>2
      <4> QED BY <4>1, <4>2, <3>1, <3>2
    <3>5. ASSUME NEW i \in 1 .. Len(r)
          PROVE  next'[r[i]] = IF i = Len(r) THEN NULL ELSE r[i+1]
      <4>1. /\ next'[e] = IF k = Len(s) THEN NULL ELSE s[k+1]
            /\ \A j \in 1 .. Len(s) : next'[s[j]] = IF j = k THEN e ELSE next[s[j]]
        BY <1>1, <3>3 DEF PutAt
      <4>2. CASE i <= k
        <5>1. i \in 1 .. Len(s) /\ i + 1 \in 1 .. Len(s) + 1 /\ i # Len(r)
          BY <4>2, <1>1, <1>2
        <5>2. r[i] = s[i] /\ r[i+1] = IF i = k THEN e ELSE s[i+1]
          BY <5>1, <4>2, <1>1, <1>2
        <5>3. next'[s[i]] = IF i = k THEN e ELSE next[s[i]]
          BY <5>1, <4>1
        <5>4. i # k => next[s[i]] = s[i+1]
          BY <5>1, <4>2, <1>1, <3>2
        <5> QED BY <5>1, <5>2, <5>3, <5>4
      <4>3. CASE i = k + 1
        BY <4>1, <4>3, <1>1, <1>2
      <4>4. CASE i > k + 1
        <5>1. r[i] = s[i-1] /\ i - 1 \in 1 .. Len(s) /\ i - 1 # k
          BY <4>4, <1>1, <1>2
        <5>2. next'[r[i]] = next[s[i-1]]
          BY <5>1, <4>1
        <5>3. (i - 1) + 1 = i /\ (i + 1) - 1 = i /\ (i - 1 = Len(s) <=> i = Len(r))
          BY <1>1, <1>2
        <5>4. ASSUME i # Len(r) PROVE r[i+1] = s[i]
          <6>1. i \in Nat /\ k \in Nat /\ Len(s) \in Nat /\ i < Len(s) + 1
            BY <5>4, <1>1, <1>2
          <6>2. i + 1 \in 1 .. Len(s) + 1 /\ ~(i + 1 <= k) /\ i + 1 # k + 1
            BY <6>1, <4>4
          <6> QED BY <6>2, <5>3, <1>2
        <5>5. next[s[i-1]] = IF i - 1 = Len(s) THEN NULL ELSE s[i]
          BY <5>1, <5>3, <3>2
        <5> QED BY <5>2, <5>3, <5>4, <5>5
      <4> QED BY <4>2, <4>3, <4>4, <1>1, <1>2
    <3>6. Len(r) # 0
      BY <1>1, <1>2
    <3> QED BY <2>2, <3>1, <3>4, <3>5, <3>6 DEF Linked
  <2> QED BY <2>1, <2>2
<1>9. OneOwner'
  <2>1. \A p \in Queue : p # q => lst'[p] = lst[p]
    BY <1>1 DEF PutAt, Inv, TypeOK
  <2>2. lst'[q] = r
    BY <1>1 DEF PutAt, Inv, TypeOK
  \* where the entries of the longer queue come from
  <2>3. ASSUME NEW i \in 1 .. Len(r)
        PROVE  \/ r[i] = e /\ i = k + 1
               \/ i <= k /\ i \in 1 .. Len(s) /\ r[i] = s[i]
               \/ i > k + 1 /\ i - 1 \in 1 .. Len(s) /\ r[i] = s[i-1]
    BY <1>1, <1>2
  <2>4. \A i, j \in 1 .. Len(s) : s[i] = s[j] => i = j
    BY <1>1 DEF Inv, OneOwner
  <2>5. ASSUME NEW i \in 1 .. Len(r), NEW j \in 1 .. Len(r), r[i] = r[j]
        PROVE  i = j
    <3>1. k \in Nat /\ i \in Nat /\ j \in Nat
      BY <1>1, <1>2
    <3>2. CASE r[i] = e /\ i = k + 1
      BY <3>2, <2>3, <2>5, <1>1
    <3>3. CASE i <= k /\ i \in 1 .. Len(s) /\ r[i] = s[i]
      <4>1. r[j] # e
        BY <3>3, <2>5, <1>1
      <4> QED BY <4>1, <3>1, <3>3, <2>3, <2>4, <2>5
    <3>4. CASE i > k + 1 /\ i - 1 \in 1 .. Len(s) /\ r[i] = s[i-1]
      <4>1. r[j] # e
        BY <3>4, <2>5, <1>1
      <4>2. CASE j <= k /\ j \in 1 .. Len(s) /\ r[j] = s[j]
        <5>1. i - 1 = j
          BY <4>2, <3>4, <2>4, <2>5
        <5> QED BY <5>1, <4>2, <3>1, <3>4
      <4>3. CASE j > k + 1 /\ j - 1 \in 1 .. Len(s) /\ r[j] = s[j-1]
        <5>1. i - 1 = j - 1
          BY <4>3, <3>4, <2>4, <2>5
        <5> QED BY <5>1, <3>1
      <4> QED BY <4>1, <4>2, <4>3, <2>3
    <3> QED BY <3>2, <3>3, <3>4, <2>3
  <2>6. ASSUME NEW p \in Queue, p # q, NEW i \in 1 .. Len(lst[p]),
               NEW j \in 1 .. Len(r)
        PROVE  lst[p][i] # r[j]
    <3>1. lst[p][i] # e /\ \A m \in 1 .. Len(s) : lst[p][i] # s[m]
      BY <2>6, <1>1 DEF Inv, OneOwner
    <3> QED BY <3>1, <2>3
  <2>7. ASSUME NEW p1 \in Queue, NEW p2 \in Queue,
               NEW i \in 1 .. Len(lst'[p1]), NEW j \in 1 .. Len(lst'[p2]),
               lst'[p1][i] = lst'[p2][j]
        PROVE  p1 = p2 /\ i = j
    <3>1. CASE p1 = q /\ p2 = q
      BY <3>1, <2>2, <2>5, <2>7
    <3>2. CASE p1 = q /\ p2 # q
      BY <3>2, <2>1, <2>2, <2>6, <2>7
    <3>3. CASE p1 # q /\ p2 = q
      BY <3>3, <2>1, <2>2, <2>6, <2>7
    <3>4. CASE p1 # q /\ p2 # q
      BY <3>4, <2>1, <2>7 DEF Inv, OneOwner
    <3> QED BY <3>1, <3>2, <3>3, <3>4
  <2>8. ASSUME NEW u \in Thread, hand'[u] # NULL
        PROVE  /\ \A v \in Thread : hand'[v] = hand'[u] => v = u
               /\ \A p \in Queue : \A i \in 1 .. Len(lst'[p]) : lst'[p][i] # hand'[u]
    <3>1. u # t /\ hand'[u] = hand[u] /\ hand'[t] = NULL
      BY <2>8 DEF PutAt, Inv, TypeOK
    <3>2. \A v \in Thread : v # t => hand'[v] = hand[v]
      BY DEF PutAt, Inv, TypeOK
    <3>3. hand[u] # e /\ \A p \in Queue : \A i \in 1 .. Len(lst[p]) : lst[p][i] # hand[u]
      BY <2>8, <3>1 DEF Inv, OneOwner
    <3>4. \A v \in Thread : hand'[v] = hand'[u] => v = u
      BY <2>8, <3>1, <3>2 DEF Inv, OneOwner
    <3>5. \A i \in 1 .. Len(r) : r[i] # hand[u]
      BY <3>3, <2>3, <1>1
    <3>6. ASSUME NEW p \in Queue, NEW i \in 1 .. Len(lst'[p])
          PROVE  lst'[p][i] # hand'[u]
      BY <3>1, <3>3, <3>5, <2>1, <2>2
    <3> QED BY <3>4, <3>6
  <2> QED BY <2>7, <2>8 DEF OneOwner
<1> QED BY <1>3, <1>4, <1>6, <1>7, <1>8, <1>9 DEF Inv

-----------------------------------------------------------------------------
(***************************************************************************)
(* Removing the first entry.                                               *)
(***************************************************************************)
\* nosync_pop_entry on a queue whose mutex the thread owns keeps the
\* invariant.
LEMMA PopKeepsInv ==
    ASSUME Inv, NEW t \in Thread, nosync_pop_entry(t), head[qof[t]] # NULL,
           pc[t] \in Holding, hand[t] = NULL
    PROVE  Inv'
<1> DEFINE q == qof[t]
           s == lst[qof[t]]
<1> USE NullAssumption
<1>1. /\ q \in Queue /\ s \in Seq(Entry) /\ Len(s) \in Nat /\ Len(s) > 0
      /\ \A i \in 1 .. Len(s) : s[i] \in Entry
  <2>1. q \in Queue /\ s \in Seq(Entry)
    BY DEF Inv, TypeOK
  <2>2. Len(s) # 0
    BY <2>1 DEF Inv, ListShape, Linked
  <2> QED BY <2>1, <2>2, LenProperties, ElementOfSeq
<1>2. /\ head[q] = s[1] /\ tail[q] = s[Len(s)]
      /\ \A i \in 1 .. Len(s) : next[s[i]] = IF i = Len(s) THEN NULL ELSE s[i+1]
  BY <1>1 DEF Inv, ListShape, Linked
<1>3. \A i, j \in 1 .. Len(s) : s[i] = s[j] => i = j
  BY <1>1 DEF Inv, OneOwner
<1> DEFINE r == Tail(s)
<1>4. /\ r \in Seq(Entry) /\ Len(r) \in Nat /\ Len(r) = Len(s) - 1
      /\ \A i \in 1 .. Len(r) : i + 1 \in 1 .. Len(s) /\ r[i] = s[i+1]
  <2>1. s # <<>>
    BY <1>1, EmptySeq
  <2>2. r \in Seq(Entry) /\ Len(r) = Len(s) - 1 /\ \A i \in 1 .. Len(r) : r[i] = s[i+1]
    BY <1>1, <2>1, HeadTailProperties
  <2> HIDE DEF r
  <2> QED BY <1>1, <2>2
<1>5. lst' = [lst EXCEPT ![q] = r]
  BY DEF nosync_pop_entry
<1> HIDE DEF r
\* the entry taken is the only one whose next field changes
<1>6. /\ hand' = [hand EXCEPT ![t] = s[1]]
      /\ next' = [next EXCEPT ![s[1]] = NULL]
      /\ head'[q] = IF Len(s) = 1 THEN NULL ELSE s[2]
      /\ tail'[q] = IF Len(s) = 1 THEN NULL ELSE s[Len(s)]
      /\ \A p \in Queue : p # q => head'[p] = head[p] /\ tail'[p] = tail[p]
  <2>1. s[1] = s[Len(s)] <=> Len(s) = 1
    <3>1. Len(s) \in Nat /\ Len(s) > 0
      BY <1>1
    <3>2. 1 \in 1 .. Len(s) /\ Len(s) \in 1 .. Len(s)
      BY <3>1
    <3> QED BY <3>2, <1>3
  <2>2. Len(s) # 1 => next[s[1]] = s[2]
    <3>1. Len(s) \in Nat /\ Len(s) > 0
      BY <1>1
    <3>2. 1 \in 1 .. Len(s) /\ 1 + 1 = 2
      BY <3>1
    <3>3. next[s[1]] = IF 1 = Len(s) THEN NULL ELSE s[1 + 1]
      BY <3>2, <1>2
    <3> QED BY <3>2, <3>3
  <2>3. head \in [Queue -> EntryOrNull] /\ tail \in [Queue -> EntryOrNull]
    BY DEF Inv, TypeOK
  <2> QED BY <2>1, <2>2, <2>3, <1>1, <1>2 DEF nosync_pop_entry
<1>7. /\ pc' = [pc EXCEPT ![t] = "unlock"]
      /\ UNCHANGED <<mutex, qof, prev, cur>>
  BY DEF nosync_pop_entry, GoTo, walk
<1>8. s[1] \in Entry /\ s[1] # NULL
  BY <1>1
<1>9. ASSUME NEW x \in Entry, x # s[1] PROVE next'[x] = next[x]
  BY <1>6, <1>8, <1>9 DEF Inv, TypeOK
<1>10. TypeOK'
  <2>1. lst' \in [Queue -> Seq(Entry)]
    BY <1>4, <1>5 DEF Inv, TypeOK
  <2>2. next' \in [Entry -> EntryOrNull] /\ hand' \in [Thread -> EntryOrNull]
    BY <1>6, <1>8 DEF Inv, TypeOK, EntryOrNull
  <2>3. head' \in [Queue -> EntryOrNull] /\ tail' \in [Queue -> EntryOrNull]
    <3>1. next[head[q]] \in EntryOrNull /\ NULL \in EntryOrNull
      BY <1>2, <1>8 DEF Inv, TypeOK, EntryOrNull
    <3> QED BY <3>1 DEF nosync_pop_entry, Inv, TypeOK
  <2>4. pc' \in [Thread -> PC]
    BY <1>7 DEF Inv, TypeOK, PC
  <2> QED BY <2>1, <2>2, <2>3, <2>4, <1>7 DEF Inv, TypeOK
<1>11. MutexOwned'
  BY <1>7 DEF Inv, TypeOK, MutexOwned, Holding
<1>12. HandOK'
  <2> SUFFICES ASSUME NEW u \in Thread
               PROVE  hand'[u] # NULL => next'[hand'[u]] = NULL
    BY <1>6, <1>7 DEF Inv, TypeOK, HandOK
  <2>1. CASE u = t
    BY <2>1, <1>6, <1>8 DEF Inv, TypeOK
  <2>2. CASE u # t /\ hand[u] # NULL
    <3>1. hand'[u] = hand[u] /\ hand[u] \in Entry /\ hand[u] # s[1]
      BY <2>2, <1>1, <1>6 DEF Inv, TypeOK, EntryOrNull, OneOwner
    <3>2. next[hand[u]] = NULL
      BY <2>2 DEF Inv, HandOK
    <3> QED BY <3>1, <3>2, <1>9
  <2>3. CASE u # t /\ hand[u] = NULL
    BY <2>3, <1>6 DEF Inv, TypeOK
  <2> QED BY <2>1, <2>2, <2>3
<1>13. WalkOK'
  <2> SUFFICES ASSUME NEW u \in Thread, pc'[u] = "walk"
               PROVE  /\ Len(lst'[qof'[u]]) > 0
                      /\ \E j \in 0 .. Len(lst'[qof'[u]]) : WalkedTo(u, j)'
    BY DEF WalkOK
  <2>1. u # t /\ pc[u] = "walk" /\ qof[u] # q
    BY <1>7 DEF Inv, TypeOK, MutexOwned, Holding
  <2>2. lst'[qof'[u]] = lst[qof[u]] /\ hand'[u] = hand[u]
    BY <2>1, <1>5, <1>6, <1>7 DEF Inv, TypeOK
  <2>3. Len(lst[qof[u]]) > 0 /\ \E j \in 0 .. Len(lst[qof[u]]) : WalkedTo(u, j)
    BY <2>1 DEF Inv, WalkOK
  <2> QED BY <2>2, <2>3, <1>7 DEF WalkedTo
<1>14. ListShape'
  <2> SUFFICES ASSUME NEW p \in Queue PROVE Linked(p)'
    BY DEF ListShape
  <2>1. CASE p # q
    <3>1. lst'[p] = lst[p] /\ head'[p] = head[p] /\ tail'[p] = tail[p]
      BY <2>1, <1>5, <1>6 DEF Inv, TypeOK
    <3>2. \A i \in 1 .. Len(lst[p]) : next'[lst[p][i]] = next[lst[p][i]]
      <4> SUFFICES ASSUME NEW i \in 1 .. Len(lst[p])
                   PROVE  next'[lst[p][i]] = next[lst[p][i]]
        OBVIOUS
      <4>1. lst[p][i] \in Entry
        BY ElementOfSeq DEF Inv, TypeOK
      <4>2. lst[p][i] # s[1]
        BY <2>1, <1>1 DEF Inv, OneOwner
      <4> QED BY <4>1, <4>2, <1>9
    <3> QED BY <3>1, <3>2 DEF Inv, ListShape, Linked
  <2>2. CASE p = q
    <3>1. lst'[q] = r
      BY <1>1, <1>5 DEF Inv, TypeOK
    <3>2. Len(r) = 0 <=> Len(s) = 1
      BY <1>1, <1>4
    <3>3. /\ Len(r) # 0 => s[2] = r[1] /\ s[Len(s)] = r[Len(r)]
      <4>1. Len(r) \in Nat /\ Len(s) \in Nat /\ Len(r) = Len(s) - 1
        BY <1>1, <1>4
      <4>2. Len(r) + 1 = Len(s) /\ 1 + 1 = 2
        BY <4>1
      <4>3. Len(r) # 0 => 1 \in 1 .. Len(r) /\ Len(r) \in 1 .. Len(r)
        <5>1. \A n \in Nat : n # 0 => 1 \in 1 .. n /\ n \in 1 .. n
          OBVIOUS
        <5> QED BY <4>1, <5>1, Zenon
      <4>4. Len(r) # 0 => r[1] = s[1 + 1] /\ r[Len(r)] = s[Len(r) + 1]
        BY <4>3, <1>4
      <4> QED BY <4>2, <4>4
    <3>4. ASSUME NEW i \in 1 .. Len(r)
          PROVE  next'[r[i]] = IF i = Len(r) THEN NULL ELSE r[i+1]
      <4>1. r[i] = s[i+1] /\ i + 1 \in 1 .. Len(s) /\ i + 1 # 1
        BY <1>4
      <4>2. next'[r[i]] = next[s[i+1]]
        BY <4>1, <1>1, <1>3, <1>9
      <4>3. i # Len(r) => r[i+1] = s[(i+1)+1]
        <5>1. i # Len(r) => i + 1 \in 1 .. Len(r)
          BY <1>1, <1>4
        <5> QED BY <5>1, <1>4
      <4>4. i = Len(r) <=> i + 1 = Len(s)
        BY <1>1, <1>4
      <4> QED BY <4>1, <4>2, <4>3, <4>4, <1>2
    <3> QED BY <2>2, <3>1, <3>2, <3>3, <3>4, <1>6 DEF Linked
  <2> QED BY <2>1, <2>2
<1>15. OneOwner'
  <2>1. \A p \in Queue : p # q => lst'[p] = lst[p]
    BY <1>5 DEF Inv, TypeOK
  <2>2. lst'[q] = r
    BY <1>1, <1>5 DEF Inv, TypeOK
  <2>3. ASSUME NEW i \in 1 .. Len(r), NEW j \in 1 .. Len(r), r[i] = r[j]
        PROVE  i = j
    <3>1. i + 1 = j + 1
      BY <2>3, <1>3, <1>4
    <3> QED BY <3>1
  <2>4. ASSUME NEW i \in 1 .. Len(r) PROVE r[i] # s[1]
    <3>1. r[i] = s[i+1] /\ i + 1 \in 1 .. Len(s) /\ i + 1 # 1
      BY <1>4
    <3> QED BY <3>1, <1>1, <1>3
  <2>5. ASSUME NEW p1 \in Queue, NEW p2 \in Queue,
               NEW i \in 1 .. Len(lst'[p1]), NEW j \in 1 .. Len(lst'[p2]),
               lst'[p1][i] = lst'[p2][j]
        PROVE  p1 = p2 /\ i = j
    <3>1. CASE p1 = q /\ p2 = q
      BY <3>1, <2>2, <2>3, <2>5
    <3>2. CASE p1 = q /\ p2 # q
      <4>1. s[i+1] = lst[p2][j] /\ i + 1 \in 1 .. Len(s)
        BY <3>2, <2>1, <2>2, <2>5, <1>4
      <4> QED BY <3>2, <4>1, <2>1, <2>5 DEF Inv, OneOwner
    <3>3. CASE p1 # q /\ p2 = q
      <4>1. s[j+1] = lst[p1][i] /\ j + 1 \in 1 .. Len(s)
        BY <3>3, <2>1, <2>2, <2>5, <1>4
      <4> QED BY <3>3, <4>1, <2>1, <2>5 DEF Inv, OneOwner
    <3>4. CASE p1 # q /\ p2 # q
      BY <3>4, <2>1, <2>5 DEF Inv, OneOwner
    <3> QED BY <3>1, <3>2, <3>3, <3>4
  <2>6. hand'[t] = s[1] /\ \A v \in Thread : v # t => hand'[v] = hand[v]
    BY <1>6 DEF Inv, TypeOK
  <2>7. ASSUME NEW v \in Thread, v # t PROVE hand[v] # s[1]
    BY <1>1, <1>8 DEF Inv, OneOwner
  <2>8. ASSUME NEW p \in Queue, p # q, NEW i \in 1 .. Len(lst[p])
        PROVE  lst[p][i] # s[1]
    BY <2>8, <1>1 DEF Inv, OneOwner
  <2>9. ASSUME NEW u \in Thread, hand'[u] # NULL
        PROVE  /\ \A v \in Thread : hand'[v] = hand'[u] => v = u
               /\ \A p \in Queue : \A i \in 1 .. Len(lst'[p]) : lst'[p][i] # hand'[u]
    <3>1. CASE u = t
      BY <3>1, <2>1, <2>2, <2>4, <2>6, <2>7, <2>8
    <3>2. CASE u # t
      <4>1. hand'[u] = hand[u] /\ hand[u] # NULL /\ hand[u] # s[1]
        BY <3>2, <2>6, <2>7, <2>9
      <4>2. \A v \in Thread : hand'[v] = hand'[u] => v = u
        BY <4>1, <2>6 DEF Inv, OneOwner
      <4>3. \A i \in 1 .. Len(r) : r[i] # hand[u]
        <5>1. \A i \in 1 .. Len(s) : s[i] # hand[u]
          BY <4>1, <1>1 DEF Inv, OneOwner
        <5> QED BY <5>1, <1>4
      <4>4. \A p \in Queue : \A i \in 1 .. Len(lst[p]) : lst[p][i] # hand[u]
        BY <4>1 DEF Inv, OneOwner
      <4> QED BY <4>1, <4>2, <4>3, <4>4, <2>1, <2>2
    <3> QED BY <3>1, <3>2
  <2> QED BY <2>5, <2>9 DEF OneOwner
<1> QED BY <1>10, <1>11, <1>12, <1>13, <1>14, <1>15 DEF Inv

-----------------------------------------------------------------------------
(***************************************************************************)
(* The operations that add an entry are instances of PutAt.                *)
(***************************************************************************)
\* push_entry links behind the last entry.
LEMMA PushPuts ==
    ASSUME Inv, NEW t \in Thread, push_entry(t)
    PROVE  PutAt(t, Len(lst[qof[t]]), Append(lst[qof[t]], hand[t]))
<1> DEFINE q == qof[t]
           e == hand[t]
           s == lst[qof[t]]
<1>1. /\ q \in Queue /\ e \in Entry /\ e # NULL /\ s \in Seq(Entry)
      /\ next[e] = NULL
  BY DEF push_entry, Inv, TypeOK, EntryOrNull, HandOK
<1>2. /\ Len(s) \in Nat
      /\ tail[q] = IF Len(s) = 0 THEN NULL ELSE s[Len(s)]
      /\ Len(s) # 0 => s[Len(s)] \in Entry
  <2>1. Len(s) \in Nat
    BY <1>1, LenProperties
  <2>2. Len(s) # 0 => Len(s) \in 1 .. Len(s)
    BY <2>1
  <2> QED BY <1>1, <2>1, <2>2, ElementOfSeq DEF Inv, ListShape, Linked
<1>3. IsInsertion(Entry, Append(s, e), s, Len(s), e)
  BY <1>1, AppendInserts
<1>4. Len(s) # 0 => s[Len(s)] # e
  <2>1. Len(s) # 0 => Len(s) \in 1 .. Len(s)
    BY <1>2
  <2> QED BY <2>1, <1>1 DEF Inv, OneOwner
<1>5. next' = [x \in Entry |-> IF x = e THEN NULL
                               ELSE IF Len(s) > 0 /\ x = s[Len(s)] THEN e ELSE next[x]]
  <2>1. next \in [Entry -> EntryOrNull]
    BY DEF Inv, TypeOK
  <2>2. CASE Len(s) = 0
    BY <2>1, <2>2, <1>1, <1>2, NullAssumption DEF push_entry
  <2>3. CASE Len(s) # 0
    <3>1. Len(s) > 0
      BY <2>3, <1>2
    <3>2. next' = [next EXCEPT ![s[Len(s)]] = e]
      BY <2>3, <1>2, NullAssumption DEF push_entry
    <3> QED BY <3>1, <3>2, <2>1, <2>3, <1>1, <1>2, <1>4
  <2> QED BY <2>2, <2>3
<1>6. head' = [head EXCEPT ![q] = IF Len(s) = 0 THEN e ELSE @]
  <2>1. head \in [Queue -> EntryOrNull]
    BY DEF Inv, TypeOK
  <2>2. CASE Len(s) = 0
    BY <2>2, <1>2, NullAssumption DEF push_entry
  <2>3. CASE Len(s) # 0
    BY <2>1, <2>3, <1>1, <1>2, NullAssumption DEF push_entry
  <2> QED BY <2>2, <2>3
<1>7. tail' = [tail EXCEPT ![q] = e]
  BY DEF push_entry
<1>8. /\ lst' = [lst EXCEPT ![q] = Append(s, e)]
      /\ hand' = [hand EXCEPT ![t] = NULL]
      /\ pc' = [pc EXCEPT ![t] = "signal"]
      /\ UNCHANGED <<mutex, qof, prev, cur>>
  BY DEF push_entry, Link, GoTo, walk
<1> DEFINE r == Append(s, e)
<1>9. Len(s) \in 0 .. Len(s)
  BY <1>2
<1> HIDE DEF r
<1>10. IsInsertion(Entry, r, s, Len(s), e) /\ lst' = [lst EXCEPT ![q] = r]
  BY <1>3, <1>8 DEF r
<1>11. PutAt(t, Len(s), r)
  BY <1>5, <1>6, <1>7, <1>8, <1>9, <1>10 DEF PutAt
<1> QED BY <1>11 DEF r

\* unshift_entry links before the first entry.
LEMMA UnshiftPuts ==
    ASSUME Inv, NEW t \in Thread, unshift_entry(t)
    PROVE  PutAt(t, 0, Cons(hand[t], lst[qof[t]]))
<1> DEFINE q == qof[t]
           e == hand[t]
           s == lst[qof[t]]
           r == Cons(hand[t], lst[qof[t]])
<1>1. /\ q \in Queue /\ e \in Entry /\ e # NULL /\ s \in Seq(Entry)
      /\ next[e] = NULL
  BY DEF unshift_entry, Inv, TypeOK, EntryOrNull, HandOK
<1>2. /\ Len(s) \in Nat
      /\ head[q] = IF Len(s) = 0 THEN NULL ELSE s[1]
      /\ Len(s) # 0 => s[1] \in Entry
  <2>1. Len(s) \in Nat
    BY <1>1, LenProperties
  <2>2. Len(s) # 0 => 1 \in 1 .. Len(s)
    BY <2>1
  <2> QED BY <1>1, <2>1, <2>2, ElementOfSeq DEF Inv, ListShape, Linked
<1>3. /\ head[q] = NULL <=> Len(s) = 0
      /\ head \in [Queue -> EntryOrNull] /\ tail \in [Queue -> EntryOrNull]
      /\ next \in [Entry -> EntryOrNull]
  BY <1>2, NullAssumption DEF Inv, TypeOK
<1>4. next' = [x \in Entry |-> IF x = e THEN IF 0 = Len(s) THEN NULL ELSE s[1]
                               ELSE next[x]]
  BY <1>1, <1>2, <1>3 DEF unshift_entry
<1>5. tail' = [tail EXCEPT ![q] = IF 0 = Len(s) THEN e ELSE @]
  BY <1>1, <1>3 DEF unshift_entry
<1>6. /\ head' = [head EXCEPT ![q] = e]
      /\ lst' = [lst EXCEPT ![q] = r]
      /\ hand' = [hand EXCEPT ![t] = NULL]
      /\ pc' = [pc EXCEPT ![t] = "signal"]
      /\ UNCHANGED <<mutex, qof, prev, cur>>
  BY DEF unshift_entry, Link, GoTo, walk
<1>7. IsInsertion(Entry, r, s, 0, e)
  BY <1>1, ConsInserts
<1>8. 0 \in 0 .. Len(s) /\ 0 + 1 = 1 /\ ~(0 > 0)
  BY <1>2
<1> HIDE DEF r
<1>9. PutAt(t, 0, r)
  BY <1>4, <1>5, <1>6, <1>7, <1>8 DEF PutAt
<1> QED BY <1>9 DEF r

\* nosync_insert_entry on an empty queue.
LEMMA InsertEmptyPuts ==
    ASSUME Inv, NEW t \in Thread, InsertEmpty(t)
    PROVE  PutAt(t, 0, <<hand[t]>>) /\ Len(lst[qof[t]]) = 0
<1> DEFINE q == qof[t]
           e == hand[t]
           s == lst[qof[t]]
<1>1. /\ q \in Queue /\ e \in Entry /\ e # NULL /\ s \in Seq(Entry)
      /\ next[e] = NULL /\ next \in [Entry -> EntryOrNull]
  BY NullAssumption, TimedAssumption
     DEF InsertEmpty, Inv, TypeOK, EntryOrNull, HandOK
<1>2. Len(s) = 0
  <2>1. Len(s) \in Nat
    BY <1>1, LenProperties
  <2>2. Len(s) # 0 => 1 \in 1 .. Len(s)
    BY <2>1
  <2>3. Len(s) # 0 => s[1] \in Entry
    BY <2>2, <1>1, ElementOfSeq
  <2> QED BY <1>1, <2>3, NullAssumption DEF InsertEmpty, Inv, ListShape, Linked
<1> DEFINE r == <<e>>
<1>3. r \in Seq(Entry) /\ Len(r) = 1 /\ r[1] = e
  BY <1>1
<1>4. /\ head' = [head EXCEPT ![q] = e]
      /\ tail' = [tail EXCEPT ![q] = e]
      /\ next' = next
      /\ lst' = [lst EXCEPT ![q] = r]
      /\ hand' = [hand EXCEPT ![t] = NULL]
      /\ pc' = [pc EXCEPT ![t] = "signal"]
      /\ UNCHANGED <<mutex, qof, prev, cur>>
  BY DEF InsertEmpty, Link, GoTo, walk
<1> HIDE DEF r
<1>5. IsInsertion(Entry, r, s, 0, e)
  BY <1>2, <1>3 DEF IsInsertion
<1>6. next' = [x \in Entry |-> IF x = e THEN NULL ELSE next[x]]
  BY <1>1, <1>4
<1>7. 0 \in 0 .. Len(s) /\ ~(0 > 0)
  BY <1>2
<1>8. PutAt(t, 0, r)
  BY <1>2, <1>4, <1>5, <1>6, <1>7 DEF PutAt
<1> QED BY <1>2, <1>8 DEF r

\* When the walk of nosync_insert_entry ends, prev and cur are the
\* neighbours of the place where the entry belongs.
LEMMA InsertLinkPuts ==
    ASSUME Inv, NEW t \in Thread, InsertLink(t)
    PROVE  \E k \in 0 .. Len(lst[qof[t]]) :
              /\ IsInsertPoint(lst[qof[t]], k, hand[t], Timed, AbsTime)
              /\ PutAt(t, k, InsertAt(lst[qof[t]], k+1, hand[t]))
<1> DEFINE q == qof[t]
           e == hand[t]
           s == lst[qof[t]]
<1>1. /\ q \in Queue /\ e \in Entry /\ e # NULL /\ s \in Seq(Entry)
      /\ next \in [Entry -> EntryOrNull] /\ head \in [Queue -> EntryOrNull]
      /\ tail \in [Queue -> EntryOrNull]
  BY NullAssumption, TimedAssumption
     DEF InsertLink, Inv, TypeOK, EntryOrNull, HandOK
<1>2. Len(s) \in Nat /\ \A i \in 1 .. Len(s) : s[i] \in Entry
  BY <1>1, LenProperties, ElementOfSeq
<1>3. PICK k \in 0 .. Len(s) :
           /\ IsInsertPoint(s, k, e, Timed, AbsTime)
           /\ Link(t, InsertAt(s, k+1, e))
  BY DEF InsertLink
<1>4. Len(s) > 0 /\ \E j \in 0 .. Len(s) : WalkedTo(t, j)
  BY DEF InsertLink, Inv, WalkOK
<1>5. PICK j \in 0 .. Len(s) : WalkedTo(t, j)
  BY <1>4
<1>6. IsInsertPoint(s, j, e, Timed, AbsTime)
  <2>1. ASSUME j < Len(s) PROVE ~ WalksOver(e, s[j+1], Timed, AbsTime)
    <3>1. cur[t] = s[j+1] /\ j + 1 \in 1 .. Len(s)
      BY <2>1, <1>2, <1>5 DEF WalkedTo
    <3>2. cur[t] # NULL
      BY <3>1, <1>2, NullAssumption
    <3> QED BY <3>1, <3>2 DEF InsertLink, KeepsWalking
  <2> QED BY <2>1, <1>5 DEF IsInsertPoint, WalkedTo
<1>7. j = k
  BY <1>1, <1>3, <1>6, InsertPointUnique
<1>8. /\ prev[t] = IF k = 0 THEN NULL ELSE s[k]
      /\ cur[t] = IF k = Len(s) THEN NULL ELSE s[k+1]
  BY <1>5, <1>7 DEF WalkedTo
<1>9. k # 0 => k \in 1 .. Len(s) /\ s[k] \in Entry /\ s[k] # NULL /\ s[k] # e
  <2>1. k # 0 => k \in 1 .. Len(s)
    BY <1>2
  <2>2. \A i \in 1 .. Len(s) : s[i] # e
    BY <1>1 DEF Inv, OneOwner
  <2> QED BY <2>1, <2>2, <1>2, NullAssumption
<1>10. tail[q] = s[Len(s)] /\ (k # 0 => (s[k] = tail[q] <=> k = Len(s)))
  <2>1. Len(s) \in 1 .. Len(s)
    BY <1>2, <1>4
  <2>2. tail[q] = s[Len(s)]
    BY <1>1, <1>4 DEF Inv, ListShape, Linked
  <2>3. \A i, m \in 1 .. Len(s) : s[i] = s[m] => i = m
    BY <1>1 DEF Inv, OneOwner
  <2> QED BY <2>1, <2>2, <2>3, <1>9
<1>11. head' = [head EXCEPT ![q] = IF k = 0 THEN e ELSE @]
  BY <1>1, <1>8, <1>9 DEF InsertLink
<1>12. tail' = [tail EXCEPT ![q] = IF k = Len(s) THEN e ELSE @]
  <2>1. CASE k = 0
    <3>1. k # Len(s)
      BY <2>1, <1>2, <1>4
    <3> QED BY <2>1, <3>1, <1>1, <1>8 DEF InsertLink
  <2>2. CASE k # 0
    BY <2>2, <1>1, <1>8, <1>9, <1>10 DEF InsertLink
  <2> QED BY <2>1, <2>2
<1>13. next' = [x \in Entry |->
                  IF x = e THEN IF k = Len(s) THEN NULL ELSE s[k+1]
                  ELSE IF k > 0 /\ x = s[k] THEN e ELSE next[x]]
  <2>1. CASE k = 0
    BY <2>1, <1>1, <1>8 DEF InsertLink
  <2>2. CASE k # 0
    <3>1. k > 0
      BY <2>2, <1>2
    <3>2. next' = [next EXCEPT ![s[k]] = e, ![e] = cur[t]]
      BY <2>2, <1>8, <1>9 DEF InsertLink
    <3> QED BY <2>2, <3>1, <3>2, <1>1, <1>8, <1>9
  <2> QED BY <2>1, <2>2
<1> DEFINE r == InsertAt(s, k+1, e)
<1>14. IsInsertion(Entry, r, s, k, e)
  BY <1>1, InsertAtInserts
<1>15. /\ lst' = [lst EXCEPT ![q] = r]
       /\ hand' = [hand EXCEPT ![t] = NULL]
       /\ pc' = [pc EXCEPT ![t] = "signal"]
       /\ UNCHANGED <<mutex, qof, prev, cur>>
  BY <1>3 DEF Link, GoTo, walk
<1> HIDE DEF r
<1>16. PutAt(t, k, r)
  BY <1>11, <1>12, <1>13, <1>14, <1>15 DEF PutAt
<1> QED BY <1>3, <1>16 DEF r

-----------------------------------------------------------------------------
(***************************************************************************)
(* The steps that leave every list as it is.                               *)
(***************************************************************************)
\* A step that changes no pointer keeps the shape of the lists.
LEMMA ListsUntouched ==
    ASSUME Inv, UNCHANGED <<head, tail, next, lst>>
    PROVE  ListShape'
BY DEF Inv, ListShape, Linked

\* A step that moves no entry keeps every entry with its one owner.
LEMMA HandsUntouched ==
    ASSUME Inv, UNCHANGED <<lst, hand>>
    PROVE  OneOwner'
BY DEF Inv, OneOwner

\* A walk of nosync_insert_entry stays where it is while its list and its locals
\* do.
LEMMA WalkUntouched ==
    ASSUME Inv, NEW u \in Thread, pc[u] = "walk",
           qof'[u] = qof[u], hand'[u] = hand[u],
           prev'[u] = prev[u], cur'[u] = cur[u], UNCHANGED lst
    PROVE  /\ Len(lst'[qof'[u]]) > 0
           /\ \E k \in 0 .. Len(lst'[qof'[u]]) : WalkedTo(u, k)'
<1>1. Len(lst[qof[u]]) > 0 /\ \E k \in 0 .. Len(lst[qof[u]]) : WalkedTo(u, k)
  BY DEF Inv, WalkOK
<1> QED BY <1>1 DEF WalkedTo

\* A new entry is in no queue and in no other hand.
LEMMA AllocKeepsInv ==
    ASSUME Inv, NEW t \in Thread, NEW e \in Entry, Alloc(t, e)
    PROVE  Inv'
<1> USE NullAssumption
<1>1. /\ hand' = [hand EXCEPT ![t] = e] /\ next' = [next EXCEPT ![e] = NULL]
      /\ UNCHANGED <<head, tail, mutex, pc, qof, prev, cur, lst>>
      /\ pc[t] = "idle" /\ hand[t] = NULL
  BY DEF Alloc, walk
<1>2. /\ \A u \in Thread : hand[u] # e
      /\ \A q \in Queue : \A i \in 1 .. Len(lst[q]) : lst[q][i] # e
  <2>1. e \notin Queued /\ e \notin Held /\ e # NULL
    BY DEF Alloc
  <2>2. \A u \in Thread : hand[u] # e
    BY <2>1 DEF Held
  <2>3. ASSUME NEW q \in Queue, NEW i \in 1 .. Len(lst[q]) PROVE lst[q][i] # e
    <3>1. DOMAIN lst[q] = 1 .. Len(lst[q])
      BY LenProperties DEF Inv, TypeOK
    <3>2. lst[q][i] \in ToSet(lst[q])
      BY <3>1 DEF ToSet
    <3> QED BY <2>1, <3>2 DEF Queued
  <2> QED BY <2>2, <2>3
<1>3. TypeOK'
  BY <1>1 DEF Inv, TypeOK, EntryOrNull
<1>4. MutexOwned'
  BY <1>1 DEF Inv, MutexOwned
<1>5. HandOK'
  BY <1>1, <1>2 DEF Inv, TypeOK, EntryOrNull, HandOK
<1>6. WalkOK'
  <2> SUFFICES ASSUME NEW u \in Thread, pc'[u] = "walk"
               PROVE  /\ Len(lst'[qof'[u]]) > 0
                      /\ \E k \in 0 .. Len(lst'[qof'[u]]) : WalkedTo(u, k)'
    BY DEF WalkOK
  <2>1. u # t /\ hand'[u] = hand[u]
    BY <1>1 DEF Inv, TypeOK
  <2> QED BY <1>1, <2>1, WalkUntouched
<1>7. ListShape'
  <2> SUFFICES ASSUME NEW q \in Queue PROVE Linked(q)'
    BY DEF ListShape
  <2>1. ASSUME NEW i \in 1 .. Len(lst[q]) PROVE next'[lst[q][i]] = next[lst[q][i]]
    <3>1. lst[q][i] \in Entry /\ lst[q][i] # e
      BY <1>2, ElementOfSeq DEF Inv, TypeOK
    <3> QED BY <1>1, <3>1 DEF Inv, TypeOK
  <2> QED BY <1>1, <2>1 DEF Inv, ListShape, Linked
<1>8. OneOwner'
  BY <1>1, <1>2 DEF Inv, TypeOK, OneOwner
<1> QED BY <1>3, <1>4, <1>5, <1>6, <1>7, <1>8 DEF Inv

\* Freeing an entry that is in no queue keeps the invariant.
LEMMA FreeKeepsInv ==
    ASSUME Inv, NEW t \in Thread, Free(t)
    PROVE  Inv'
<1> USE NullAssumption
<1>1. /\ hand' = [hand EXCEPT ![t] = NULL] /\ pc[t] = "idle"
      /\ UNCHANGED <<head, tail, next, lst, mutex, pc, qof, prev, cur>>
  BY DEF Free, list, walk
<1>2. TypeOK'
  BY <1>1 DEF Inv, TypeOK, EntryOrNull
<1>3. MutexOwned'
  BY <1>1 DEF Inv, MutexOwned
<1>4. HandOK'
  BY <1>1 DEF Inv, TypeOK, HandOK
<1>5. WalkOK'
  <2> SUFFICES ASSUME NEW u \in Thread, pc'[u] = "walk"
               PROVE  /\ Len(lst'[qof'[u]]) > 0
                      /\ \E k \in 0 .. Len(lst'[qof'[u]]) : WalkedTo(u, k)'
    BY DEF WalkOK
  <2>1. u # t /\ hand'[u] = hand[u]
    BY <1>1 DEF Inv, TypeOK
  <2> QED BY <1>1, <2>1, WalkUntouched
<1>6. OneOwner'
  BY <1>1 DEF Inv, TypeOK, OneOwner
<1> QED BY <1>1, <1>2, <1>3, <1>4, <1>5, <1>6, ListsUntouched DEF Inv

\* The steps between the calls of the operations: they change no entry, no
\* list and no hand.
LEMMA ControlKeepsInv ==
    ASSUME Inv, NEW t \in Thread,
           UNCHANGED <<head, tail, next, lst, hand, prev, cur>>,
           TypeOK', MutexOwned', HandOK',
           \A u \in Thread : pc'[u] = "walk" => pc[u] = "walk" /\ qof'[u] = qof[u]
    PROVE  Inv'
<1>1. WalkOK'
  <2> SUFFICES ASSUME NEW u \in Thread, pc'[u] = "walk"
               PROVE  /\ Len(lst'[qof'[u]]) > 0
                      /\ \E k \in 0 .. Len(lst'[qof'[u]]) : WalkedTo(u, k)'
    BY DEF WalkOK
  <2> QED BY WalkUntouched
<1> QED BY <1>1, ListsUntouched, HandsUntouched DEF Inv

\* Calling a queue function takes no mutex yet.
LEMMA CallKeepsInv ==
    ASSUME Inv, NEW t \in Thread, NEW q \in Queue,
           NEW op \in {"push", "unshift", "insert", "pop", "wait"}, Call(t, q, op)
    PROVE  Inv'
<1>1. /\ UNCHANGED <<head, tail, next, lst, mutex, hand, prev, cur>>
      /\ pc' = [pc EXCEPT ![t] = op] /\ qof' = [qof EXCEPT ![t] = q]
  BY DEF Call, GoTo, list, walk
<1>2. TypeOK'
  BY <1>1 DEF Inv, TypeOK, PC
<1>3. MutexOwned'
  BY <1>1 DEF Inv, TypeOK, MutexOwned, Holding
<1>4. HandOK'
  BY <1>1 DEF Call, Inv, TypeOK, HandOK
<1>5. \A u \in Thread : pc'[u] = "walk" => pc[u] = "walk" /\ qof'[u] = qof[u]
  BY <1>1 DEF Inv, TypeOK
<1> QED BY <1>1, <1>2, <1>3, <1>4, <1>5, ControlKeepsInv

\* queue_lock makes the caller the one owner of the mutex.
LEMMA LockKeepsInv ==
    ASSUME Inv, NEW t \in Thread, Lock(t)
    PROVE  Inv'
<1> DEFINE l == LockedPC[pc[t]]
<1>1. /\ UNCHANGED <<head, tail, next, lst, qof, hand, prev, cur>>
      /\ mutex[qof[t]] = NULL /\ mutex' = [mutex EXCEPT ![qof[t]] = t]
      /\ pc' = [pc EXCEPT ![t] = l]
  BY DEF Lock, GoTo, list, walk
<1>2. /\ pc[t] \in {"push", "unshift", "insert", "pop", "wait", "woken"}
      /\ pc[t] = "push" => l = "push_locked"
      /\ pc[t] = "unshift" => l = "unshift_locked"
      /\ pc[t] = "insert" => l = "insert_locked"
      /\ pc[t] = "pop" => l = "pop_locked"
      /\ pc[t] \in {"wait", "woken"} => l = "wait_locked"
  BY DEF Lock, LockedPC
<1> HIDE DEF l
<1>3. TypeOK'
  BY <1>1, <1>2 DEF Inv, TypeOK, PC
<1>4. MutexOwned'
  BY <1>1, NullAssumption DEF Inv, TypeOK, MutexOwned
<1>5. HandOK'
  BY <1>1, <1>2 DEF Inv, TypeOK, HandOK
<1>6. \A u \in Thread : pc'[u] = "walk" => pc[u] = "walk" /\ qof'[u] = qof[u]
  BY <1>1, <1>2 DEF Inv, TypeOK
<1> QED BY <1>1, <1>3, <1>4, <1>5, <1>6, ControlKeepsInv

\* Releasing the mutex: queue_unlock and queue_wait.
LEMMA ReleaseKeepsInv ==
    ASSUME Inv, NEW t \in Thread, pc[t] \in {"unlock", "wait_locked"},
           NEW l \in {"idle", "waiting"}, l = "waiting" => hand[t] = NULL,
           mutex' = [mutex EXCEPT ![qof[t]] = NULL],
           pc' = [pc EXCEPT ![t] = l],
           UNCHANGED <<head, tail, next, lst, qof, hand, prev, cur>>
    PROVE  Inv'
<1>1. TypeOK'
  BY DEF Inv, TypeOK, PC
<1>2. mutex[qof[t]] = t
  BY DEF Inv, MutexOwned, Holding
<1>3. MutexOwned'
  BY <1>2 DEF Inv, TypeOK, MutexOwned, Holding
<1>4. HandOK'
  BY DEF Inv, TypeOK, HandOK
<1>5. \A u \in Thread : pc'[u] = "walk" => pc[u] = "walk" /\ qof'[u] = qof[u]
  BY DEF Inv, TypeOK
<1> QED BY <1>1, <1>3, <1>4, <1>5, ControlKeepsInv

\* COND_SIGNAL and queue_unlock at the end of the operations that add an entry.
LEMMA SignalKeepsInv ==
    ASSUME Inv, NEW t \in Thread, SignalUnlock(t)
    PROVE  Inv'
<1>1. /\ UNCHANGED <<head, tail, next, lst, qof, hand, prev, cur>>
      /\ pc[t] = "signal" /\ mutex' = [mutex EXCEPT ![qof[t]] = NULL]
  BY DEF SignalUnlock, list, walk
<1>2. /\ pc' \in [Thread -> PC] /\ pc'[t] = "idle"
      /\ \A u \in Thread : u # t => \/ pc'[u] = pc[u]
                                    \/ pc[u] = "waiting" /\ pc'[u] = "woken"
  <2>1. CASE pc' = [pc EXCEPT ![t] = "idle"]
    BY <2>1 DEF Inv, TypeOK, PC
  <2>2. CASE \E w \in Waiters(qof[t]) : pc' = [pc EXCEPT ![t] = "idle", ![w] = "woken"]
    <3>1. PICK w \in Waiters(qof[t]) : pc' = [pc EXCEPT ![t] = "idle", ![w] = "woken"]
      BY <2>2
    <3>2. w \in Thread /\ pc[w] = "waiting" /\ w # t
      BY <1>1, <3>1 DEF Waiters
    <3> QED BY <3>1, <3>2 DEF Inv, TypeOK, PC
  <2> QED BY <2>1, <2>2 DEF SignalUnlock, GoTo
<1>3. TypeOK'
  BY <1>1, <1>2 DEF Inv, TypeOK
<1>4. mutex[qof[t]] = t
  BY <1>1 DEF Inv, MutexOwned, Holding
<1>5. MutexOwned'
  BY <1>1, <1>2, <1>4 DEF Inv, TypeOK, MutexOwned, Holding
<1>6. HandOK'
  BY <1>1, <1>2 DEF Inv, TypeOK, HandOK
<1>7. \A u \in Thread : pc'[u] = "walk" => pc[u] = "walk" /\ qof'[u] = qof[u]
  BY <1>1, <1>2
<1> QED BY <1>1, <1>3, <1>5, <1>6, <1>7, ControlKeepsInv

\* A spurious wakeup, and pop_entry on an empty queue.
LEMMA StepPcKeepsInv ==
    ASSUME Inv, NEW t \in Thread,
           \/ pc[t] = "waiting" /\ pc' = [pc EXCEPT ![t] = "woken"]
           \/ pc[t] = "pop_locked" /\ pc' = [pc EXCEPT ![t] = "unlock"],
           UNCHANGED <<head, tail, next, lst, mutex, qof, hand, prev, cur>>
    PROVE  Inv'
<1>1. TypeOK'
  BY DEF Inv, TypeOK, PC
<1>2. MutexOwned'
  BY DEF Inv, TypeOK, MutexOwned, Holding
<1>3. HandOK'
  BY DEF Inv, TypeOK, HandOK
<1>4. \A u \in Thread : pc'[u] = "walk" => pc[u] = "walk" /\ qof'[u] = qof[u]
  BY DEF Inv, TypeOK
<1> QED BY <1>1, <1>2, <1>3, <1>4, ControlKeepsInv

\* The walk starts before the first entry.
LEMMA InsertStartKeepsInv ==
    ASSUME Inv, NEW t \in Thread, InsertStart(t)
    PROVE  Inv'
<1> DEFINE q == qof[t]
           s == lst[qof[t]]
<1>1. /\ UNCHANGED <<head, tail, next, lst, mutex, qof, hand>>
      /\ pc[t] = "insert_locked" /\ head[q] # NULL
      /\ prev' = [prev EXCEPT ![t] = NULL] /\ cur' = [cur EXCEPT ![t] = head[q]]
      /\ pc' = [pc EXCEPT ![t] = "walk"]
  BY DEF InsertStart, GoTo, list
<1>2. q \in Queue /\ s \in Seq(Entry)
  BY DEF Inv, TypeOK
<1>3. Len(s) \in Nat /\ Len(s) > 0 /\ head[q] = s[1]
  <2>1. Len(s) \in Nat
    BY <1>2, LenProperties
  <2>2. head[q] = IF Len(s) = 0 THEN NULL ELSE s[1]
    BY <1>2 DEF Inv, ListShape, Linked
  <2> QED BY <1>1, <2>1, <2>2
<1>4. TypeOK'
  BY <1>1, <1>2 DEF Inv, TypeOK, PC, EntryOrNull
<1>5. MutexOwned'
  BY <1>1 DEF Inv, TypeOK, MutexOwned, Holding
<1>6. HandOK'
  BY <1>1 DEF Inv, TypeOK, HandOK
<1>7. WalkOK'
  <2> SUFFICES ASSUME NEW u \in Thread, pc'[u] = "walk"
               PROVE  /\ Len(lst'[qof'[u]]) > 0
                      /\ \E k \in 0 .. Len(lst'[qof'[u]]) : WalkedTo(u, k)'
    BY DEF WalkOK
  <2>1. CASE u # t
    <3>1. pc[u] = "walk" /\ prev'[u] = prev[u] /\ cur'[u] = cur[u]
      BY <2>1, <1>1 DEF Inv, TypeOK
    <3> QED BY <1>1, <3>1, WalkUntouched
  <2>2. CASE u = t
    <3>1. prev'[t] = NULL /\ cur'[t] = s[1] /\ lst' = lst /\ qof' = qof
      BY <1>1, <1>3 DEF Inv, TypeOK
    <3>2. 0 \in 0 .. Len(s) /\ 0 # Len(s) /\ 0 + 1 = 1 /\ 1 .. 0 = {}
      BY <1>3
    <3>3. WalkedTo(t, 0)'
      BY <3>1, <3>2 DEF WalkedTo
    <3> QED BY <2>2, <1>3, <3>1, <3>2, <3>3
  <2> QED BY <2>1, <2>2
<1> QED BY <1>1, <1>4, <1>5, <1>6, <1>7, ListsUntouched, HandsUntouched DEF Inv

\* The walk passes an entry that is due before the new one.
LEMMA InsertWalkKeepsInv ==
    ASSUME Inv, NEW t \in Thread, InsertWalk(t)
    PROVE  Inv'
<1> DEFINE q == qof[t]
           s == lst[qof[t]]
<1>1. /\ UNCHANGED <<head, tail, next, lst, mutex, pc, qof, hand>>
      /\ pc[t] = "walk" /\ KeepsWalking(t)
      /\ prev' = [prev EXCEPT ![t] = cur[t]]
      /\ cur' = [cur EXCEPT ![t] = next[cur[t]]]
  BY DEF InsertWalk, list
<1>2. q \in Queue /\ s \in Seq(Entry)
  BY DEF Inv, TypeOK
<1>3. Len(s) \in Nat /\ Len(s) > 0 /\ \E k \in 0 .. Len(s) : WalkedTo(t, k)
  BY <1>1, <1>2, LenProperties DEF Inv, WalkOK
<1>4. PICK k \in 0 .. Len(s) : WalkedTo(t, k)
  BY <1>3
<1>5. k # Len(s) /\ cur[t] = s[k+1]
  BY <1>1, <1>4 DEF KeepsWalking, WalkedTo
<1>6. k + 1 \in 1 .. Len(s) /\ k + 1 \in 0 .. Len(s) /\ k + 1 # 0
  BY <1>3, <1>5
<1>7. cur[t] \in Entry
  BY <1>1 DEF KeepsWalking, Inv, TypeOK, EntryOrNull
<1>8. next[cur[t]] = IF k + 1 = Len(s) THEN NULL ELSE s[(k+1)+1]
  BY <1>2, <1>5, <1>6 DEF Inv, ListShape, Linked
<1>9. \A i \in 1 .. k+1 : WalksOver(hand[t], s[i], Timed, AbsTime)
  <2>1. \A i \in 1 .. k : WalksOver(hand[t], s[i], Timed, AbsTime)
    BY <1>4 DEF WalkedTo
  <2>2. WalksOver(hand[t], s[k+1], Timed, AbsTime)
    BY <1>1, <1>5 DEF KeepsWalking
  <2>3. \A i \in 1 .. k+1 : i \in 1 .. k \/ i = k + 1
    BY <1>3
  <2> QED BY <2>1, <2>2, <2>3
<1>10. TypeOK'
  BY <1>1, <1>7 DEF Inv, TypeOK
<1>11. MutexOwned'
  BY <1>1 DEF Inv, MutexOwned
<1>12. HandOK'
  BY <1>1 DEF Inv, HandOK
<1>13. WalkOK'
  <2> SUFFICES ASSUME NEW u \in Thread, pc'[u] = "walk"
               PROVE  /\ Len(lst'[qof'[u]]) > 0
                      /\ \E j \in 0 .. Len(lst'[qof'[u]]) : WalkedTo(u, j)'
    BY DEF WalkOK
  <2>1. CASE u # t
    <3>1. pc[u] = "walk" /\ prev'[u] = prev[u] /\ cur'[u] = cur[u]
      BY <2>1, <1>1 DEF Inv, TypeOK
    <3> QED BY <1>1, <3>1, WalkUntouched
  <2>2. CASE u = t
    <3>1. prev'[t] = s[k+1] /\ cur'[t] = next[cur[t]]
      BY <1>1, <1>5 DEF Inv, TypeOK
    <3>2. WalkedTo(t, k+1)'
      BY <1>1, <1>6, <1>8, <1>9, <3>1 DEF WalkedTo
    <3> QED BY <2>2, <1>1, <1>3, <1>6, <3>2
  <2> QED BY <2>1, <2>2
<1> QED BY <1>1, <1>10, <1>11, <1>12, <1>13, ListsUntouched, HandsUntouched DEF Inv

-----------------------------------------------------------------------------
(***************************************************************************)
(* The theorems.                                                           *)
(***************************************************************************)
\* Every step of a thread inside a call keeps the invariant.
LEMMA StepKeepsInv ==
    ASSUME Inv, NEW t \in Thread, Step(t)
    PROVE  Inv'
<1>1. CASE Lock(t)
  BY <1>1, LockKeepsInv
<1>2. CASE push_entry(t)
  <2>1. pc[t] \in Holding /\ hand[t] # NULL
    BY <1>2 DEF push_entry, Holding, Inv, HandOK
  <2> QED BY <1>2, <2>1, PushPuts, PutKeepsInv
<1>3. CASE unshift_entry(t)
  <2>1. pc[t] \in Holding /\ hand[t] # NULL
    BY <1>3 DEF unshift_entry, Holding, Inv, HandOK
  <2> QED BY <1>3, <2>1, UnshiftPuts, PutKeepsInv
<1>4. CASE nosync_insert_entry(t)
  <2>1. pc[t] \in {"insert_locked", "walk"} => pc[t] \in Holding /\ hand[t] # NULL
    BY NullAssumption, TimedAssumption DEF Holding, Inv, HandOK
  <2>2. CASE InsertEmpty(t)
    <3>1. pc[t] = "insert_locked"
      BY <2>2 DEF InsertEmpty
    <3> QED BY <2>1, <2>2, <3>1, InsertEmptyPuts, PutKeepsInv
  <2>3. CASE InsertStart(t)
    BY <2>3, InsertStartKeepsInv
  <2>4. CASE InsertWalk(t)
    BY <2>4, InsertWalkKeepsInv
  <2>5. CASE InsertLink(t)
    <3>1. pc[t] = "walk"
      BY <2>5 DEF InsertLink
    <3> QED BY <2>1, <2>5, <3>1, InsertLinkPuts, PutKeepsInv
  <2> QED BY <1>4, <2>2, <2>3, <2>4, <2>5 DEF nosync_insert_entry
<1>5. CASE pop_entry(t)
  <2>1. pc[t] = "pop_locked" /\ pc[t] \in Holding /\ hand[t] = NULL
    BY <1>5 DEF pop_entry, Holding, Inv, HandOK
  <2>2. CASE head[qof[t]] # NULL /\ nosync_pop_entry(t)
    BY <2>1, <2>2, PopKeepsInv
  <2>3. CASE GoTo(t, "unlock") /\ UNCHANGED <<list, mutex, qof, walk, hand>>
    BY <2>1, <2>3, StepPcKeepsInv DEF GoTo, list, walk
  <2> QED BY <1>5, <2>2, <2>3 DEF pop_entry
<1>6. CASE wait_for_entry(t)
  <2>1. pc[t] = "wait_locked" /\ pc[t] \in Holding /\ hand[t] = NULL
    BY <1>6 DEF wait_for_entry, Holding, Inv, HandOK
  <2>2. CASE head[qof[t]] # NULL /\ nosync_pop_entry(t)
    BY <2>1, <2>2, PopKeepsInv
  <2>3. CASE queue_wait(t)
    <3>1. /\ mutex' = [mutex EXCEPT ![qof[t]] = NULL]
          /\ pc' = [pc EXCEPT ![t] = "waiting"]
          /\ UNCHANGED <<head, tail, next, lst, qof, hand, prev, cur>>
      BY <2>3 DEF queue_wait, GoTo, list, walk
    <3> QED BY <2>1, <3>1, ReleaseKeepsInv
  <2> QED BY <1>6, <2>2, <2>3 DEF wait_for_entry
<1>7. CASE SignalUnlock(t)
  BY <1>7, SignalKeepsInv
<1>8. CASE queue_unlock(t)
  <2>1. /\ pc[t] = "unlock"
        /\ mutex' = [mutex EXCEPT ![qof[t]] = NULL]
        /\ pc' = [pc EXCEPT ![t] = "idle"]
        /\ UNCHANGED <<head, tail, next, lst, qof, hand, prev, cur>>
    BY <1>8 DEF queue_unlock, GoTo, list, walk
  <2> QED BY <2>1, ReleaseKeepsInv
<1> QED BY <1>1, <1>2, <1>3, <1>4, <1>5, <1>6, <1>7, <1>8 DEF Step

\* The queues start empty, with free mutexes and nobody in a call.
LEMMA InitInv == Init => Inv
<1> SUFFICES ASSUME Init PROVE Inv
  OBVIOUS
<1>1. <<>> \in Seq(Entry) /\ Len(<<>>) = 0
  BY EmptySeq
<1>2. \A q \in Queue : lst[q] = <<>> /\ Len(lst[q]) = 0
  BY <1>1 DEF Init
<1>3. TypeOK
  BY <1>1 DEF Init, TypeOK, PC, EntryOrNull
<1>4. MutexOwned /\ HandOK /\ WalkOK
  BY DEF Init, MutexOwned, Holding, HandOK, WalkOK
<1>5. ListShape
  BY <1>2 DEF Init, ListShape, Linked
<1>6. OneOwner
  BY <1>2 DEF Init, OneOwner
<1> QED BY <1>3, <1>4, <1>5, <1>6 DEF Inv

\* Every step of the system keeps the invariant.
LEMMA NextKeepsInv == Inv /\ [Next]_vars => Inv'
<1> SUFFICES ASSUME Inv, [Next]_vars PROVE Inv'
  OBVIOUS
<1>1. CASE UNCHANGED vars
  BY <1>1, HandsUntouched, ListsUntouched
     DEF vars, Inv, TypeOK, MutexOwned, HandOK, WalkOK, WalkedTo
<1>2. ASSUME NEW t \in Thread, NEW e \in Entry, Alloc(t, e) PROVE Inv'
  BY <1>2, AllocKeepsInv
<1>3. ASSUME NEW t \in Thread, Free(t) PROVE Inv'
  BY <1>3, FreeKeepsInv
<1>4. ASSUME NEW t \in Thread, NEW q \in Queue,
             NEW op \in {"push", "unshift", "insert", "pop", "wait"}, Call(t, q, op)
      PROVE  Inv'
  BY <1>4, CallKeepsInv
<1>5. ASSUME NEW t \in Thread, Step(t) PROVE Inv'
  BY <1>5, StepKeepsInv
<1>6. ASSUME NEW t \in Thread, SpuriousWakeup(t) PROVE Inv'
  BY <1>6, StepPcKeepsInv DEF SpuriousWakeup, GoTo, list, walk
<1> QED BY <1>1, <1>2, <1>3, <1>4, <1>5, <1>6 DEF Next

\* The invariant holds in every reachable state.
THEOREM Invariance == Spec => []Inv
BY InitInv, NextKeepsInv, PTL DEF Spec

\* The variables of the queue functions keep their types.
THEOREM TypeCorrect == Spec => []TypeOK
<1>1. Inv => TypeOK
  BY DEF Inv
<1> QED BY <1>1, Invariance, PTL

\* The pointers of every queue form the list of the entries put into it and
\* not yet removed, whatever the interleaving of push_entry, unshift_entry,
\* insert_entry, pop_entry and wait_for_entry.
THEOREM ListsIntact == Spec => []ListShape
<1>1. Inv => ListShape
  BY DEF Inv
<1> QED BY <1>1, Invariance, PTL

\* No QUEUE_ENTRY is ever in two queues, twice in one, or in a queue while a
\* thread may still free it.
THEOREM SingleOwner == Spec => []OneOwner
<1>1. Inv => OneOwner
  BY DEF Inv
<1> QED BY <1>1, Invariance, PTL

\* The operators of the instance are those of this module.
LEMMA SameOperators ==
    /\ \A s, e : Abstract!Cons(e, s) = Cons(e, s)
    /\ \A s, k, e : Abstract!InsertAt(s, k, e) = InsertAt(s, k, e)
    /\ \A s : Abstract!ToSet(s) = ToSet(s)
    /\ \A s, k, e : Abstract!IsInsertPoint(s, k, e, Timed, AbsTime)
                       <=> IsInsertPoint(s, k, e, Timed, AbsTime)
<1>1. \A s, e : Abstract!Cons(e, s) = Cons(e, s)
  BY DEF Cons, Abstract!Cons
<1>2. \A s, k, e : Abstract!InsertAt(s, k, e) = InsertAt(s, k, e)
  BY DEF InsertAt, Abstract!InsertAt
<1>3. \A s : Abstract!ToSet(s) = ToSet(s)
  BY DEF ToSet, Abstract!ToSet
<1>4. \A s, k, e : Abstract!IsInsertPoint(s, k, e, Timed, AbsTime)
                     <=> IsInsertPoint(s, k, e, Timed, AbsTime)
  BY DEF IsInsertPoint, Abstract!IsInsertPoint, WalksOver, Abstract!WalksOver
<1> QED BY <1>1, <1>2, <1>3, <1>4

\* Every step of the queue functions is a step of the abstract queue, or
\* leaves its variables alone.
LEMMA StepSimulation ==
    ASSUME Inv, NEW t \in Thread, Step(t)
    PROVE  [Abstract!ANext]_<<lst, hand>>
<1> DEFINE q == qof[t]
           s == lst[qof[t]]
<1>1. q \in Queue /\ s \in Seq(Entry)
  BY DEF Inv, TypeOK
<1>2. CASE Lock(t) \/ SignalUnlock(t) \/ queue_unlock(t)
  BY <1>2 DEF Lock, SignalUnlock, queue_unlock, list
<1>3. CASE push_entry(t)
  <2>1. Abstract!APush(t, q)
    BY <1>3 DEF push_entry, Link, Inv, HandOK, Abstract!APush, Abstract!APut
  <2> QED BY <1>1, <2>1 DEF Abstract!ANext
<1>4. CASE unshift_entry(t)
  <2>1. Abstract!AUnshift(t, q)
    BY <1>4, SameOperators
       DEF unshift_entry, Link, Inv, HandOK, Abstract!AUnshift, Abstract!APut
  <2> QED BY <1>1, <2>1 DEF Abstract!ANext
<1>5. CASE InsertEmpty(t)
  <2>1. Len(s) = 0
    BY <1>5, InsertEmptyPuts
  <2>2. hand[t] \in Timed /\ hand[t] # NULL /\ hand[t] \in Entry
    BY <1>5, NullAssumption, TimedAssumption DEF InsertEmpty, Inv, HandOK
  <2>3. IsInsertPoint(s, 0, hand[t], Timed, AbsTime)
    BY <2>1 DEF IsInsertPoint
  <2>4. InsertAt(s, 0+1, hand[t]) = <<hand[t]>>
    <3>1. 0 \in 0 .. Len(s) /\ 0 + 1 = 1
      BY <2>1
    <3>2. IsInsertion(Entry, InsertAt(s, 0+1, hand[t]), s, 0, hand[t])
      BY <1>1, <2>2, <3>1, InsertAtInserts
    <3> DEFINE r == InsertAt(s, 0+1, hand[t])
               w == <<hand[t]>>
    <3>3. w \in Seq(Entry) /\ Len(w) = 1 /\ w[1] = hand[t]
      BY <2>2
    <3>4. IsInsertion(Entry, r, s, 0, hand[t])
      BY <3>2
    <3> HIDE DEF r, w
    <3>5. r \in Seq(Entry) /\ Len(r) = 1 /\ r[1] = hand[t]
      BY <2>1, <3>4 DEF IsInsertion
    <3>6. \A i \in 1 .. Len(r) : r[i] = w[i]
      BY <3>3, <3>5
    <3>7. r = w
      BY <3>3, <3>5, <3>6, SeqEqual
    <3> QED BY <3>7 DEF r, w
  <2>5. Abstract!APut(t, q, InsertAt(s, 0+1, hand[t]))
    BY <1>5, <2>2, <2>4 DEF InsertEmpty, Link, Abstract!APut
  <2>6. Abstract!AInsert(t, q)
    <3>1. 0 \in 0 .. Len(s)
      BY <2>1
    <3> QED BY <2>2, <2>3, <2>5, <3>1, SameOperators DEF Abstract!AInsert
  <2> QED BY <1>1, <2>6 DEF Abstract!ANext
<1>6. CASE InsertLink(t)
  <2>1. hand[t] \in Timed /\ hand[t] # NULL
    BY <1>6, NullAssumption, TimedAssumption DEF InsertLink, Inv, HandOK
  <2>2. PICK k \in 0 .. Len(s) :
            /\ IsInsertPoint(s, k, hand[t], Timed, AbsTime)
            /\ Link(t, InsertAt(s, k+1, hand[t]))
    BY <1>6 DEF InsertLink
  <2>3. Abstract!APut(t, q, InsertAt(s, k+1, hand[t]))
    BY <2>1, <2>2 DEF Link, Abstract!APut
  <2>4. Abstract!AInsert(t, q)
    BY <2>1, <2>2, <2>3, SameOperators DEF Abstract!AInsert
  <2> QED BY <1>1, <2>4 DEF Abstract!ANext
<1>7. CASE InsertStart(t) \/ InsertWalk(t)
  BY <1>7 DEF InsertStart, InsertWalk, list
<1>8. ASSUME nosync_pop_entry(t), head[q] # NULL, hand[t] = NULL
      PROVE  Abstract!ANext
  <2>1. head[q] = IF Len(s) = 0 THEN NULL ELSE s[1]
    BY <1>1 DEF Inv, ListShape, Linked
  <2>2. s # <<>> /\ Head(s) = s[1] /\ head[q] = s[1]
    <3>1. s # <<>>
      BY <1>8, <2>1, EmptySeq
    <3> QED BY <1>1, <1>8, <2>1, <3>1
  <2>3. Abstract!APop(t, q)
    BY <1>8, <2>2 DEF nosync_pop_entry, Abstract!APop
  <2> QED BY <1>1, <2>3 DEF Abstract!ANext
<1>9. CASE pop_entry(t)
  <2>1. hand[t] = NULL
    BY <1>9 DEF pop_entry, Inv, HandOK
  <2>2. CASE head[q] # NULL /\ nosync_pop_entry(t)
    BY <1>8, <2>1, <2>2
  <2>3. CASE UNCHANGED <<list, mutex, qof, walk, hand>>
    BY <2>3 DEF list
  <2> QED BY <1>9, <2>2, <2>3 DEF pop_entry
<1>10. CASE wait_for_entry(t)
  <2>1. hand[t] = NULL
    BY <1>10 DEF wait_for_entry, Inv, HandOK
  <2>2. CASE head[q] # NULL /\ nosync_pop_entry(t)
    BY <1>8, <2>1, <2>2
  <2>3. CASE queue_wait(t)
    BY <2>3 DEF queue_wait, list
  <2> QED BY <1>10, <2>2, <2>3 DEF wait_for_entry
<1> QED BY <1>2, <1>3, <1>4, <1>5, <1>6, <1>7, <1>9, <1>10
        DEF Step, nosync_insert_entry

\* Every step of the system is a step of the abstract queue or leaves it
\* alone.
LEMMA NextSimulation == Inv /\ [Next]_vars => [Abstract!ANext]_<<lst, hand>>
<1> SUFFICES ASSUME Inv, [Next]_vars PROVE [Abstract!ANext]_<<lst, hand>>
  OBVIOUS
<1>1. CASE UNCHANGED vars
  BY <1>1 DEF vars
<1>2. ASSUME NEW t \in Thread, NEW e \in Entry, Alloc(t, e)
      PROVE  Abstract!ANext
  <2>1. Abstract!AAlloc(t, e)
    <3>1. Abstract!Queued = Queued
      BY SameOperators DEF Queued, Abstract!Queued
    <3>2. Abstract!Held = Held
      BY DEF Held, Abstract!Held
    <3> QED BY <1>2, <3>1, <3>2 DEF Alloc, Abstract!AAlloc
  <2> QED BY <2>1 DEF Abstract!ANext
<1>3. ASSUME NEW t \in Thread, Free(t) PROVE Abstract!ANext
  <2>1. Abstract!AFree(t)
    BY <1>3 DEF Free, list, Abstract!AFree
  <2> QED BY <2>1 DEF Abstract!ANext
<1>4. ASSUME NEW t \in Thread, NEW q \in Queue,
             NEW op \in {"push", "unshift", "insert", "pop", "wait"}, Call(t, q, op)
      PROVE  UNCHANGED <<lst, hand>>
  BY <1>4 DEF Call, list
<1>5. ASSUME NEW t \in Thread, Step(t) PROVE [Abstract!ANext]_<<lst, hand>>
  BY <1>5, StepSimulation
<1>6. ASSUME NEW t \in Thread, SpuriousWakeup(t) PROVE UNCHANGED <<lst, hand>>
  BY <1>6 DEF SpuriousWakeup, list
<1> QED BY <1>1, <1>2, <1>3, <1>4, <1>5, <1>6 DEF Next

\* The linked lists of tsq.c implement the abstract queue: each operation
\* takes effect in one step, in the right place, and nothing is lost.
THEOREM QueueRefinement == Spec => ImplementsQueue
<1>1. Init => Abstract!AInit
  BY DEF Init, Abstract!AInit
<1>2. Inv /\ [Next]_vars => [Abstract!ANext]_(Abstract!avars)
  BY NextSimulation DEF Abstract!avars
<1> QED BY <1>1, <1>2, Invariance, PTL DEF Spec, ImplementsQueue, Abstract!ASpec

-----------------------------------------------------------------------------
(***************************************************************************)
(* Wakeups.  Per queue, the entries are compared with the threads that are *)
(* awake for them: a put adds one of each (the thread that will signal),   *)
(* the signal passes the duty on to a waiter, and the woken thread's pop   *)
(* removes one of each.                                                    *)
(***************************************************************************)
Covered(q) == Waiters(q) # {} => Len(lst[q]) <= Cardinality(Woken(q))

\* The threads that are awake for a queue can be counted.
LEMMA AwakeCount ==
    ASSUME NEW q \in Queue
    PROVE  /\ IsFiniteSet(Woken(q)) /\ Cardinality(Woken(q)) \in Nat
           /\ IsFiniteSet(Woken(q)') /\ Cardinality(Woken(q)') \in Nat
<1>1. Woken(q) \subseteq Thread /\ Woken(q)' \subseteq Thread
  BY DEF Woken
<1> QED BY <1>1, ThreadAssumption, FS_Subset, FS_CardinalityType

\* A step that adds neither a waiter to a queue that had none nor an entry,
\* and puts no woken thread to sleep, keeps the entries covered.
LEMMA StaysCovered ==
    ASSUME Inv, NEW q \in Queue, Covered(q), lst'[q] = lst[q],
           Waiters(q) = {} => Waiters(q)' = {},
           Woken(q) \subseteq Woken(q)'
    PROVE  Covered(q)'
<1>1. Cardinality(Woken(q)) <= Cardinality(Woken(q)')
  BY AwakeCount, FS_Subset
<1>2. Len(lst[q]) \in Nat
  BY LenProperties DEF Inv, TypeOK
<1>3. Len(lst[q])' = Len(lst[q])
  OBVIOUS
<1> QED BY <1>1, <1>2, <1>3, AwakeCount DEF Covered

\* A step that changes only where threads are that neither wait nor are awake
\* for an entry.
LEMMA BystanderCovered ==
    ASSUME Inv, NEW t \in Thread, NEW l, NEW q \in Queue, Covered(q),
           pc' = [pc EXCEPT ![t] = l], lst'[q] = lst[q],
           \A u \in Thread : u # t => qof'[u] = qof[u],
           pc[t] \notin {"waiting", "woken", "wait_locked", "signal"},
           l # "waiting"
    PROVE  Covered(q)'
<1>1. Waiters(q)' = Waiters(q)
  BY DEF Inv, TypeOK, Waiters
<1>2. Woken(q) \subseteq Woken(q)'
  BY DEF Inv, TypeOK, Woken
<1> QED BY <1>1, <1>2, StaysCovered

\* An entry linked into a queue is covered by the thread that put it there.
LEMMA PutCovered ==
    ASSUME Inv, NEW t \in Thread, NEW k, NEW r, PutAt(t, k, r),
           pc[t] \in {"push_locked", "unshift_locked", "insert_locked", "walk"},
           NEW q \in Queue, Covered(q)
    PROVE  Covered(q)'
<1>1. /\ pc' = [pc EXCEPT ![t] = "signal"] /\ qof' = qof
      /\ lst' = [lst EXCEPT ![qof[t]] = r] /\ Len(r) = Len(lst[qof[t]]) + 1
  BY DEF PutAt, IsInsertion
<1>2. CASE q # qof[t]
  <2>1. lst'[q] = lst[q]
    BY <1>1, <1>2 DEF Inv, TypeOK
  <2> QED BY <1>1, <2>1, BystanderCovered
<1>3. CASE q = qof[t]
  <2>1. Len(lst[q]) \in Nat /\ lst'[q] = r
    BY <1>1, <1>3, LenProperties DEF Inv, TypeOK
  <2>2. Waiters(q)' = Waiters(q)
    BY <1>1 DEF Inv, TypeOK, Waiters
  <2>3. t \notin Woken(q) /\ Woken(q)' = Woken(q) \cup {t}
    BY <1>1, <1>3 DEF Inv, TypeOK, Woken
  <2>4. Cardinality(Woken(q)') = Cardinality(Woken(q)) + 1
    BY <2>3, AwakeCount, FS_AddElement
  <2>5. Len(lst[q])' = Len(lst[q]) + 1
    BY <1>1, <1>3, <2>1
  <2> QED BY <2>1, <2>2, <2>4, <2>5, AwakeCount DEF Covered
<1> QED BY <1>2, <1>3

\* A removed entry needs no thread any more.
LEMMA PopCovered ==
    ASSUME Inv, NEW t \in Thread, nosync_pop_entry(t), head[qof[t]] # NULL,
           pc[t] \in {"pop_locked", "wait_locked"},
           NEW q \in Queue, Covered(q)
    PROVE  Covered(q)'
<1>1. /\ pc' = [pc EXCEPT ![t] = "unlock"] /\ qof' = qof
      /\ lst' = [lst EXCEPT ![qof[t]] = Tail(lst[qof[t]])]
  BY DEF nosync_pop_entry, GoTo
<1>2. Waiters(q)' = Waiters(q)
  BY <1>1 DEF Inv, TypeOK, Waiters
<1>3. CASE q # qof[t]
  <2>1. lst'[q] = lst[q]
    BY <1>1, <1>3 DEF Inv, TypeOK
  <2>2. Woken(q)' = Woken(q)
    BY <1>1, <1>3 DEF Inv, TypeOK, Woken
  <2> QED BY <1>2, <2>1, <2>2, StaysCovered
<1>4. CASE q = qof[t]
  <2>1. lst[q] \in Seq(Entry) /\ lst[q] # <<>>
    <3>1. lst[q] \in Seq(Entry)
      BY DEF Inv, TypeOK
    <3>2. head[q] = IF Len(lst[q]) = 0 THEN NULL ELSE lst[q][1]
      BY DEF Inv, ListShape, Linked
    <3> QED BY <1>4, <3>1, <3>2, EmptySeq
  <2>2. Len(lst[q]) \in Nat /\ Len(Tail(lst[q])) = Len(lst[q]) - 1
    BY <2>1, HeadTailProperties, LenProperties
  <2>3. Len(lst[q])' = Len(lst[q]) - 1
    <3>1. lst'[q] = Tail(lst[q])
      BY <1>1, <1>4 DEF Inv, TypeOK
    <3> QED BY <2>2, <3>1
  <2>4. Woken(q)' = Woken(q) \ {t}
    BY <1>1, <1>4 DEF Inv, TypeOK, Woken
  <2>5. Cardinality(Woken(q)') >= Cardinality(Woken(q)) - 1
    <3>1. Cardinality(Woken(q) \ {t}) =
             IF t \in Woken(q) THEN Cardinality(Woken(q)) - 1
                               ELSE Cardinality(Woken(q))
      BY AwakeCount, FS_RemoveElement
    <3> QED BY <2>4, <3>1, AwakeCount
  <2> QED BY <1>2, <2>2, <2>3, <2>5, AwakeCount DEF Covered
<1> QED BY <1>3, <1>4

\* COND_SIGNAL hands the duty to a waiter, or there is none.
LEMMA SignalCovered ==
    ASSUME Inv, NEW t \in Thread, SignalUnlock(t), NEW q \in Queue, Covered(q)
    PROVE  Covered(q)'
<1>1. pc[t] = "signal" /\ qof' = qof /\ lst' = lst
  BY DEF SignalUnlock, list
<1>2. Len(lst[q]) \in Nat /\ lst'[q] = lst[q] /\ Len(lst[q])' = Len(lst[q])
  BY <1>1, LenProperties DEF Inv, TypeOK
<1>3. CASE Waiters(qof[t]) = {} /\ pc' = [pc EXCEPT ![t] = "idle"]
  <2>1. Waiters(q)' = Waiters(q)
    BY <1>1, <1>3 DEF Inv, TypeOK, Waiters
  <2>2. CASE q = qof[t]
    BY <1>3, <2>1, <2>2 DEF Covered
  <2>3. CASE q # qof[t]
    <3>1. Woken(q)' = Woken(q)
      BY <1>1, <1>3, <2>3 DEF Inv, TypeOK, Woken
    <3> QED BY <1>2, <2>1, <3>1, StaysCovered
  <2> QED BY <2>2, <2>3
<1>4. ASSUME NEW w \in Waiters(qof[t]),
             pc' = [pc EXCEPT ![t] = "idle", ![w] = "woken"]
      PROVE  Covered(q)'
  <2>1. w \in Thread /\ w # t /\ pc[w] = "waiting" /\ qof[w] = qof[t]
    BY <1>1, <1>4 DEF Waiters
  <2>2. Waiters(q)' \subseteq Waiters(q)
    BY <1>1, <1>4, <2>1 DEF Inv, TypeOK, Waiters
  <2>3. CASE q # qof[t]
    <3>1. Woken(q)' = Woken(q)
      BY <1>1, <1>4, <2>1, <2>3 DEF Inv, TypeOK, Woken
    <3> QED BY <1>2, <2>2, <3>1, StaysCovered
  <2>4. CASE q = qof[t]
    <3> DEFINE R == Woken(q) \ {t}
    <3>1. t \in Woken(q) /\ w \notin R /\ Woken(q)' = R \cup {w}
      BY <1>1, <1>4, <2>1, <2>4 DEF Inv, TypeOK, Woken
    <3>2. IsFiniteSet(R) /\ Cardinality(R) = Cardinality(Woken(q)) - 1
      BY <3>1, AwakeCount, FS_RemoveElement
    <3>3. Cardinality(R \cup {w}) = Cardinality(R) + 1
      BY <3>1, <3>2, FS_AddElement
    <3>4. Cardinality(Woken(q)') = Cardinality(Woken(q))
      BY <3>1, <3>2, <3>3, AwakeCount
    <3> QED BY <1>2, <2>2, <3>4 DEF Covered
  <2> QED BY <2>3, <2>4
<1> QED BY <1>3, <1>4 DEF SignalUnlock, GoTo

\* Every step of a thread inside a call keeps the entries covered.
LEMMA StepCovered ==
    ASSUME Inv, NEW t \in Thread, Step(t), NEW q \in Queue, Covered(q)
    PROVE  Covered(q)'
<1>1. CASE Lock(t)
  <2>1. /\ pc[t] \in DOMAIN LockedPC /\ pc' = [pc EXCEPT ![t] = LockedPC[pc[t]]]
        /\ qof' = qof /\ lst' = lst
    BY <1>1 DEF Lock, GoTo, list
  <2>2. /\ pc[t] \in {"push", "unshift", "insert", "pop", "wait", "woken"}
        /\ LockedPC[pc[t]] # "waiting"
        /\ pc[t] = "woken" => LockedPC[pc[t]] = "wait_locked"
    BY <2>1 DEF LockedPC
  <2>3. Waiters(q)' = Waiters(q)
    BY <2>1, <2>2 DEF Inv, TypeOK, Waiters
  <2>4. Woken(q) \subseteq Woken(q)'
    BY <2>1, <2>2 DEF Inv, TypeOK, Woken
  <2> QED BY <2>1, <2>3, <2>4, StaysCovered
<1>2. CASE push_entry(t)
  <2>1. pc[t] = "push_locked"
    BY <1>2 DEF push_entry
  <2> QED BY <1>2, <2>1, PushPuts, PutCovered
<1>3. CASE unshift_entry(t)
  <2>1. pc[t] = "unshift_locked"
    BY <1>3 DEF unshift_entry
  <2> QED BY <1>3, <2>1, UnshiftPuts, PutCovered
<1>4. CASE InsertEmpty(t)
  <2>1. pc[t] = "insert_locked"
    BY <1>4 DEF InsertEmpty
  <2> QED BY <1>4, <2>1, InsertEmptyPuts, PutCovered
<1>5. CASE InsertLink(t)
  <2>1. pc[t] = "walk"
    BY <1>5 DEF InsertLink
  <2> QED BY <1>5, <2>1, InsertLinkPuts, PutCovered
<1>6. CASE InsertStart(t)
  <2>1. pc[t] = "insert_locked" /\ pc' = [pc EXCEPT ![t] = "walk"]
        /\ qof' = qof /\ lst' = lst
    BY <1>6 DEF InsertStart, GoTo, list
  <2> QED BY <2>1, BystanderCovered
<1>7. CASE InsertWalk(t)
  <2>1. pc' = pc /\ qof' = qof /\ lst' = lst
    BY <1>7 DEF InsertWalk, list
  <2>2. Waiters(q)' = Waiters(q) /\ Woken(q)' = Woken(q)
    BY <2>1 DEF Waiters, Woken
  <2> QED BY <2>1, <2>2, StaysCovered
<1>8. CASE pop_entry(t)
  <2>1. pc[t] = "pop_locked"
    BY <1>8 DEF pop_entry
  <2>2. CASE head[qof[t]] # NULL /\ nosync_pop_entry(t)
    BY <2>1, <2>2, PopCovered
  <2>3. CASE GoTo(t, "unlock") /\ UNCHANGED <<list, mutex, qof, walk, hand>>
    <3>1. pc' = [pc EXCEPT ![t] = "unlock"] /\ qof' = qof /\ lst' = lst
      BY <2>3 DEF GoTo, list
    <3> QED BY <2>1, <3>1, BystanderCovered
  <2> QED BY <1>8, <2>2, <2>3 DEF pop_entry
<1>9. CASE wait_for_entry(t)
  <2>1. pc[t] = "wait_locked"
    BY <1>9 DEF wait_for_entry
  <2>2. CASE head[qof[t]] # NULL /\ nosync_pop_entry(t)
    BY <2>1, <2>2, PopCovered
  <2>3. CASE head[qof[t]] = NULL /\ queue_wait(t)
    <3>1. pc' = [pc EXCEPT ![t] = "waiting"] /\ qof' = qof /\ lst' = lst
      BY <2>3 DEF queue_wait, GoTo, list
    <3>2. CASE q # qof[t]
      <4>1. Waiters(q)' = Waiters(q) /\ Woken(q)' = Woken(q)
        BY <2>1, <3>1, <3>2 DEF Inv, TypeOK, Waiters, Woken
      <4> QED BY <3>1, <4>1, StaysCovered
    \* a thread goes to sleep only on an empty queue
    <3>3. CASE q = qof[t]
      <4>1. lst[q] \in Seq(Entry) /\ Len(lst[q]) \in Nat
        BY LenProperties DEF Inv, TypeOK
      <4>2. head[q] = IF Len(lst[q]) = 0 THEN NULL ELSE lst[q][1]
        BY DEF Inv, ListShape, Linked
      <4>3. Len(lst[q]) = 0
        <5> SUFFICES ASSUME Len(lst[q]) # 0 PROVE FALSE
          OBVIOUS
        <5>1. lst[q][1] \in Entry
          BY <4>1, ElementOfSeq
        <5> QED BY <2>3, <3>3, <4>2, <5>1, NullAssumption
      <4>4. Len(lst[q])' = 0
        BY <3>1, <4>3
      <4> QED BY <4>4, AwakeCount DEF Covered
    <3> QED BY <3>2, <3>3
  <2> QED BY <1>9, <2>2, <2>3 DEF wait_for_entry
<1>10. CASE SignalUnlock(t)
  BY <1>10, SignalCovered
<1>11. CASE queue_unlock(t)
  <2>1. /\ pc[t] = "unlock" /\ pc' = [pc EXCEPT ![t] = "idle"]
        /\ qof' = qof /\ lst' = lst
    BY <1>11 DEF queue_unlock, GoTo, list
  <2> QED BY <2>1, BystanderCovered
<1> QED BY <1>1, <1>2, <1>3, <1>4, <1>5, <1>6, <1>7, <1>8, <1>9, <1>10, <1>11
        DEF Step, nosync_insert_entry

\* Every step of the system keeps the entries of a queue covered.
LEMMA NextCovered ==
    ASSUME Inv, [Next]_vars, NEW q \in Queue, Covered(q)
    PROVE  Covered(q)'
<1>1. ASSUME UNCHANGED <<pc, qof, lst>> PROVE Covered(q)'
  <2>1. Waiters(q)' = Waiters(q) /\ Woken(q)' = Woken(q)
    BY <1>1 DEF Waiters, Woken
  <2> QED BY <1>1, <2>1, StaysCovered
<1>2. CASE UNCHANGED vars
  BY <1>1, <1>2 DEF vars
<1>3. ASSUME NEW t \in Thread, NEW e \in Entry, Alloc(t, e) PROVE Covered(q)'
  BY <1>1, <1>3 DEF Alloc
<1>4. ASSUME NEW t \in Thread, Free(t) PROVE Covered(q)'
  BY <1>1, <1>4 DEF Free, list
<1>5. ASSUME NEW t \in Thread, NEW p \in Queue,
             NEW op \in {"push", "unshift", "insert", "pop", "wait"}, Call(t, p, op)
      PROVE  Covered(q)'
  <2>1. /\ pc[t] = "idle" /\ pc' = [pc EXCEPT ![t] = op] /\ lst' = lst
        /\ \A u \in Thread : u # t => qof'[u] = qof[u]
    BY <1>5 DEF Call, GoTo, list, Inv, TypeOK
  <2> QED BY <2>1, BystanderCovered
<1>6. ASSUME NEW t \in Thread, Step(t) PROVE Covered(q)'
  BY <1>6, StepCovered
<1>7. ASSUME NEW t \in Thread, SpuriousWakeup(t) PROVE Covered(q)'
  <2>1. /\ pc[t] = "waiting" /\ pc' = [pc EXCEPT ![t] = "woken"]
        /\ qof' = qof /\ lst' = lst
    BY <1>7 DEF SpuriousWakeup, GoTo, list
  <2>2. Waiters(q)' \subseteq Waiters(q)
    BY <2>1 DEF Inv, TypeOK, Waiters
  <2>3. Woken(q) \subseteq Woken(q)'
    BY <2>1 DEF Inv, TypeOK, Woken
  <2> QED BY <2>1, <2>2, <2>3, StaysCovered
<1> QED BY <1>2, <1>3, <1>4, <1>5, <1>6, <1>7 DEF Next

\* While a thread sleeps in wait_for_entry, every entry of its queue has a
\* thread that is awake for it, for any number of waiting threads: the
\* single COND_SIGNAL of push_entry and insert_entry loses no wakeup.
THEOREM WakeupsKept == Spec => []NoLostWakeup
<1>1. Init => NoLostWakeup
  BY DEF Init, NoLostWakeup, Waiters
<1>2. Inv /\ NoLostWakeup /\ [Next]_vars => NoLostWakeup'
  BY NextCovered DEF NoLostWakeup, Covered
<1> QED BY <1>1, <1>2, Invariance, PTL DEF Spec

=============================================================================
