----------------------------- MODULE QueueFacts -----------------------------
(***************************************************************************)
(* What the queue operations of QueueOps do to a sequence, for the proofs  *)
(* about TSQueue and about Events: each of them adds an entry behind the   *)
(* k-th one, or takes the first one.                                       *)
(***************************************************************************)
EXTENDS QueueOps, NumberFacts, SequenceTheorems

\* r is s with e added behind its k-th element
IsInsertion(S, r, s, k, e) ==
    /\ r \in Seq(S)
    /\ Len(r) = Len(s) + 1
    /\ \A i \in 1 .. Len(s) + 1 :
          r[i] = IF i <= k THEN s[i] ELSE IF i = k+1 THEN e ELSE s[i-1]

\* What push_entry does to the sequence: the new entry follows the last one.
LEMMA AppendInserts ==
    ASSUME NEW S, NEW s \in Seq(S), NEW e \in S
    PROVE  IsInsertion(S, Append(s, e), s, Len(s), e)
BY AppendProperties, LenProperties DEF IsInsertion

\* What nosync_insert_entry does to the sequence.
LEMMA InsertAtInserts ==
    ASSUME NEW S, NEW s \in Seq(S), NEW e \in S, NEW k \in 0 .. Len(s)
    PROVE  IsInsertion(S, InsertAt(s, k+1, e), s, k, e)
<1> DEFINE l == SubSeq(s, 1, k)
           m == <<e>>
           r == SubSeq(s, k+1, Len(s))
<1>1. /\ Len(s) \in Nat /\ k \in Nat /\ k <= Len(s)
      /\ \A i \in 1 .. Len(s) : s[i] \in S
  BY LenProperties, ElementOfSeq
<1>2. l \in Seq(S) /\ Len(l) = k /\ \A i \in 1 .. k : l[i] = s[i]
  BY <1>1, SubSeqProperties
<1>3. m \in Seq(S) /\ Len(m) = 1 /\ m[1] = e
  OBVIOUS
<1>4. /\ r \in Seq(S) /\ Len(r) = Len(s) - k
      /\ \A i \in 1 .. Len(s) - k : r[i] = s[k+i]
  <2>1. \A i \in k+1 .. Len(s) : s[i] \in S
    BY <1>1
  <2> QED BY <1>1, <2>1, SubSeqProperties
<1>5. /\ l \o m \in Seq(S) /\ Len(l \o m) = k + 1
      /\ \A i \in 1 .. k+1 : (l \o m)[i] = IF i <= k THEN s[i] ELSE e
  <2> HIDE DEF l, m
  <2>1. /\ l \o m \in Seq(S) /\ Len(l \o m) = Len(l) + Len(m)
        /\ \A i \in 1 .. Len(l) + Len(m) : (l \o m)[i] =
              IF i <= Len(l) THEN l[i] ELSE m[i - Len(l)]
    BY <1>2, <1>3, ConcatProperties
  <2> QED BY <1>1, <1>2, <1>3, <2>1
<1> DEFINE lm  == l \o m
           lmr == lm \o r
<1>6. /\ lm \in Seq(S) /\ Len(lm) = k + 1
      /\ \A i \in 1 .. k+1 : lm[i] = IF i <= k THEN s[i] ELSE e
  BY <1>5
<1> HIDE DEF l, m, lm, r
<1>7. /\ lmr \in Seq(S)
      /\ Len(lmr) = Len(lm) + Len(r)
      /\ \A i \in 1 .. Len(lm) + Len(r) :
            lmr[i] = IF i <= Len(lm) THEN lm[i] ELSE r[i - Len(lm)]
  BY <1>6, <1>4, ConcatProperties
<1> HIDE DEF lmr
<1>8. Len(lm) + Len(r) = Len(s) + 1
  BY <1>1, <1>4, <1>6
<1>9. ASSUME NEW i \in 1 .. Len(s) + 1
      PROVE  lmr[i] = IF i <= k THEN s[i] ELSE IF i = k+1 THEN e ELSE s[i-1]
  <2>1. CASE i <= k + 1
    BY <1>1, <1>6, <1>7, <1>8, <2>1
  <2>2. CASE i > k + 1
    <3>1. lmr[i] = r[i - (k + 1)]
      BY <1>1, <1>6, <1>7, <1>8, <2>2
    <3>2. i - (k + 1) \in 1 .. Len(s) - k /\ k + (i - (k + 1)) = i - 1
      BY <1>1, <2>2
    <3>3. r[i - (k + 1)] = s[i - 1]
      BY <1>4, <3>2
    <3> QED BY <1>1, <2>2, <3>1, <3>3
  <2> QED BY <1>1, <2>1, <2>2
<1>10. IsInsertion(S, lmr, s, k, e)
  BY <1>7, <1>8, <1>9 DEF IsInsertion
<1>11. InsertAt(s, k+1, e) = lmr
  <2>1. (k + 1) - 1 = k
    BY <1>1
  <2> QED BY <2>1 DEF InsertAt, l, m, r, lm, lmr
<1> QED BY <1>10, <1>11

\* What unshift_entry does to the sequence: the new entry comes first.
LEMMA ConsInserts ==
    ASSUME NEW S, NEW s \in Seq(S), NEW e \in S
    PROVE  IsInsertion(S, Cons(e, s), s, 0, e)
<1>1. <<e>> \in Seq(S) /\ Len(<<e>>) = 1 /\ <<e>>[1] = e
  OBVIOUS
<1>2. Len(s) \in Nat
  BY LenProperties
<1>3. /\ <<e>> \o s \in Seq(S) /\ Len(<<e>> \o s) = 1 + Len(s)
      /\ \A i \in 1 .. 1 + Len(s) : (<<e>> \o s)[i] =
            IF i <= 1 THEN <<e>>[i] ELSE s[i - 1]
  BY <1>1, ConcatProperties
<1> QED BY <1>1, <1>2, <1>3 DEF IsInsertion, Cons

\* The place where an entry is inserted is unique.
LEMMA InsertPointUnique ==
    ASSUME NEW S, NEW s \in Seq(S), NEW e, NEW j, NEW k, NEW timed, NEW due,
           IsInsertPoint(s, j, e, timed, due),
           IsInsertPoint(s, k, e, timed, due)
    PROVE  j = k
<1>1. Len(s) \in Nat
  BY LenProperties
<1>2. j \in 0 .. Len(s) /\ k \in 0 .. Len(s)
  BY DEF IsInsertPoint
<1>3. ~(j < k)
  <2> SUFFICES ASSUME j < k PROVE FALSE
    OBVIOUS
  <2>1. j < Len(s) /\ j + 1 \in 1 .. k
    BY <1>1, <1>2
  <2> QED BY <2>1 DEF IsInsertPoint
<1>4. ~(k < j)
  <2> SUFFICES ASSUME k < j PROVE FALSE
    OBVIOUS
  <2>1. k < Len(s) /\ k + 1 \in 1 .. j
    BY <1>1, <1>2
  <2> QED BY <2>1 DEF IsInsertPoint
<1> QED BY <1>1, <1>2, <1>3, <1>4

\* The walk of nosync_insert_entry ends: there is a place for every entry.
LEMMA InsertPointExists ==
    ASSUME NEW S, NEW s \in Seq(S), NEW e, NEW timed, NEW due
    PROVE  \E k \in 0 .. Len(s) : IsInsertPoint(s, k, e, timed, due)
<1> DEFINE K == {k \in 0 .. Len(s) : k < Len(s) => ~ WalksOver(e, s[k+1], timed, due)}
<1>1. Len(s) \in Nat
  BY LenProperties
<1>2. Len(s) \in K /\ K \subseteq Nat
  BY <1>1
<1>3. PICK k \in K : \A y \in K : k <= y
  BY <1>2, LeastNatural
<1>4. k \in 0 .. Len(s) /\ (k < Len(s) => ~ WalksOver(e, s[k+1], timed, due))
  BY <1>3
<1>5. ASSUME NEW i \in 1 .. k PROVE WalksOver(e, s[i], timed, due)
  <2>1. i - 1 \in 0 .. Len(s) /\ i - 1 < k /\ (i - 1) + 1 = i /\ i - 1 < Len(s)
    BY <1>1, <1>4
  <2>2. i - 1 \notin K
    BY <1>1, <1>3, <1>4, <2>1
  <2> QED BY <2>1, <2>2
<1> QED BY <1>4, <1>5 DEF IsInsertPoint

\* What insert_entry does to the sequence.
LEMMA InsertedInserts ==
    ASSUME NEW S, NEW s \in Seq(S), NEW e \in S, NEW timed, NEW due
    PROVE  \E k \in 0 .. Len(s) :
              /\ IsInsertPoint(s, k, e, timed, due)
              /\ IsInsertion(S, Inserted(s, e, timed, due), s, k, e)
<1> DEFINE k == CHOOSE k \in 0 .. Len(s) : IsInsertPoint(s, k, e, timed, due)
<1>1. k \in 0 .. Len(s) /\ IsInsertPoint(s, k, e, timed, due)
  BY InsertPointExists
<1>2. Inserted(s, e, timed, due) = InsertAt(s, k+1, e)
  BY DEF Inserted
<1> HIDE DEF k
<1> QED BY <1>1, <1>2, InsertAtInserts

-----------------------------------------------------------------------------
(***************************************************************************)
(* The entries of a queue.                                                 *)
(***************************************************************************)
\* x is an entry of the queue s
In(x, s) == \E k \in 1 .. Len(s) : s[k] = x

\* No entry is twice in s
Once(s) == \A j, k \in 1 .. Len(s) : s[j] = s[k] => j = k

\* An entry that is added is in the queue, with all that were in it.
LEMMA InsertionAdds ==
    ASSUME NEW S, NEW s \in Seq(S), NEW e \in S, NEW k \in 0 .. Len(s), NEW r,
           IsInsertion(S, r, s, k, e)
    PROVE  /\ r \in Seq(S)
           /\ \A x : In(x, r) <=> x = e \/ In(x, s)
           /\ Once(s) /\ ~ In(e, s) => Once(r)
<1>1. /\ Len(s) \in Nat /\ k \in Nat /\ k <= Len(s)
      /\ Len(r) = Len(s) + 1 /\ r \in Seq(S)
      /\ \A i \in 1 .. Len(s) + 1 :
            r[i] = IF i <= k THEN s[i] ELSE IF i = k+1 THEN e ELSE s[i-1]
  BY LenProperties DEF IsInsertion
<1> DEFINE old(i) == IF i <= k THEN i ELSE i - 1
<1>2. ASSUME NEW i \in 1 .. Len(r)
      PROVE  \/ i = k+1 /\ r[i] = e
             \/ i # k+1 /\ old(i) \in 1 .. Len(s) /\ r[i] = s[old(i)]
  <2>1. CASE i <= k
    BY <1>1, <2>1
  <2>2. CASE i = k + 1
    BY <1>1, <2>2
  <2>3. CASE i > k + 1
    BY <1>1, <2>3
  <2> QED BY <1>1, <2>1, <2>2, <2>3
<1>3. ASSUME NEW i \in 1 .. Len(s) PROVE In(s[i], r)
  <2>1. CASE i <= k
    BY <1>1, <2>1 DEF In
  <2>2. CASE i > k
    <3>1. i + 1 \in 1 .. Len(r) /\ i + 1 > k + 1 /\ (i + 1) - 1 = i
      BY <1>1, <2>2
    <3>2. r[i + 1] = s[i]
      BY <1>1, <3>1
    <3> QED BY <3>1, <3>2 DEF In
  <2> QED BY <1>1, <2>1, <2>2
<1>4. In(e, r)
  <2>1. k + 1 \in 1 .. Len(r) /\ r[k + 1] = e
    BY <1>1
  <2> QED BY <2>1 DEF In
<1>5. \A x : In(x, r) <=> x = e \/ In(x, s)
  <2> SUFFICES ASSUME NEW x PROVE In(x, r) <=> x = e \/ In(x, s)
    OBVIOUS
  <2>1. ASSUME In(x, r) PROVE x = e \/ In(x, s)
    <3>1. PICK i \in 1 .. Len(r) : r[i] = x
      BY <2>1 DEF In
    <3> QED BY <1>2, <3>1 DEF In
  <2>2. ASSUME In(x, s) PROVE In(x, r)
    <3>1. PICK i \in 1 .. Len(s) : s[i] = x
      BY <2>2 DEF In
    <3> QED BY <1>3, <3>1
  <2> QED BY <1>4, <2>1, <2>2
<1>6. ASSUME Once(s), ~ In(e, s) PROVE Once(r)
  <2> SUFFICES ASSUME NEW i \in 1 .. Len(r), NEW j \in 1 .. Len(r), r[i] = r[j]
               PROVE  i = j
    BY DEF Once
  <2>1. i = k+1 <=> j = k+1
    BY <1>2, <1>6 DEF In
  <2>2. CASE i = k + 1
    BY <2>1, <2>2
  <2>3. CASE i # k + 1
    <3>1. /\ old(i) \in 1 .. Len(s) /\ old(j) \in 1 .. Len(s)
          /\ s[old(i)] = s[old(j)]
      BY <1>2, <2>1, <2>3
    <3>2. old(i) = old(j)
      BY <1>6, <3>1 DEF Once
    <3> QED BY <1>1, <2>1, <2>3, <3>2
  <2> QED BY <2>2, <2>3
<1> HIDE DEF old
<1> QED BY <1>1, <1>5, <1>6

\* Taking the first entry removes that one and no other.
LEMMA TailRemoves ==
    ASSUME NEW S, NEW s \in Seq(S), s # <<>>
    PROVE  /\ Tail(s) \in Seq(S) /\ Head(s) \in S /\ In(Head(s), s)
           /\ Once(s) => /\ Once(Tail(s))
                         /\ \A x : In(x, Tail(s)) <=> In(x, s) /\ x # Head(s)
<1> DEFINE r == Tail(s)
<1>1. /\ Len(s) \in Nat /\ Len(s) # 0 /\ Len(r) = Len(s) - 1 /\ r \in Seq(S)
      /\ Head(s) = s[1] /\ Head(s) \in S
      /\ \A i \in 1 .. Len(r) : r[i] = s[i + 1]
  BY LenProperties, EmptySeq, HeadTailProperties
<1> HIDE DEF r
<1>2. In(Head(s), s)
  BY <1>1 DEF In
<1>3. ASSUME Once(s) PROVE Once(r)
  <2> SUFFICES ASSUME NEW i \in 1 .. Len(r), NEW j \in 1 .. Len(r), r[i] = r[j]
               PROVE  i = j
    BY DEF Once
  <2>1. i + 1 \in 1 .. Len(s) /\ j + 1 \in 1 .. Len(s) /\ s[i+1] = s[j+1]
    BY <1>1
  <2>2. i + 1 = j + 1
    BY <1>3, <2>1 DEF Once
  <2> QED BY <1>1, <2>2
<1>4. ASSUME Once(s), NEW x PROVE In(x, r) <=> In(x, s) /\ x # Head(s)
  <2>1. ASSUME In(x, r) PROVE In(x, s) /\ x # Head(s)
    <3>1. PICK i \in 1 .. Len(r) : r[i] = x
      BY <2>1 DEF In
    <3>2. i + 1 \in 1 .. Len(s) /\ i + 1 # 1 /\ s[i+1] = x /\ 1 \in 1 .. Len(s)
      BY <1>1, <3>1
    <3>3. x # s[1]
      BY <1>4, <3>2 DEF Once
    <3> QED BY <1>1, <3>2, <3>3 DEF In
  <2>2. ASSUME In(x, s), x # Head(s) PROVE In(x, r)
    <3>1. PICK i \in 1 .. Len(s) : s[i] = x
      BY <2>2 DEF In
    <3>2. i - 1 \in 1 .. Len(r) /\ (i - 1) + 1 = i
      BY <1>1, <2>2, <3>1
    <3>3. r[i - 1] = x
      BY <1>1, <3>1, <3>2
    <3> QED BY <3>2, <3>3 DEF In
  <2> QED BY <2>1, <2>2
<1> QED BY <1>1, <1>2, <1>3, <1>4 DEF r

=============================================================================
