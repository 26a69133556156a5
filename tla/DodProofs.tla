----------------------------- MODULE DodProofs ------------------------------
(* Proofs about dead object detection (Dod). For every program: the types.   *)
(* For the programs that keep objects with timely destruction out of         *)
(* containers (EarlyNested = FALSE, the ones for which the marking of dod.c  *)
(* is right): the mark invariant, that nothing in reach is freed, that a     *)
(* finished run frees everything else, that lazy runs stop early only when   *)
(* they may, and that the header pools implement AbstractHeap; all of it for *)
(* any number of headers, registers and references.                          *)
EXTENDS Dod, NumberFacts, SequenceTheorems, FiniteSetTheorems

----------------------------------------------------------------------------
(* The inductive invariants.                                                *)

Running == phase \in {"roots", "trace"}

SeqOK ==
  /\ pending \in Seq(Headers \cup {NULL}) /\ words \in Seq(Headers)
  /\ todo \in Seq(Pools) /\ temps \in Seq(Headers)

\* A PMC is counted as seen only when it gets its live bit.
SeenBound == seen <= Cardinality(live \cap Pmcs)

TInv == TypeOK /\ SeqOK /\ SeenBound

\* When an op holds temporaries: while it allocates.
Phases ==
  /\ phase = "ops" => todo = <<>> /\ temps = <<>>
  /\ phase = "more" => todo # <<>>
  /\ phase = "alloc" => todo # <<>> \/ temps # <<>>
  /\ Running /\ todo = <<>> => temps = <<>>

\* What the object in header h refers to.
Refs(h) ==
  IF h \in Pmcs THEN ((IF h \in ext THEN {meta[h]} ELSE {}) \cup {data[h]}) \ {NULL}
  ELSE {}

\* No used object refers to a header that is not used, and the others are
\* empty.
HeapOK ==
  /\ Roots \subseteq Used
  /\ \A h \in Used : Refs(h) \subseteq Used
  /\ \A h \in Pmcs \ Used : meta[h] = NULL /\ data[h] = NULL

\* PMCs that need early DOD are used, counted, and in no container.
EarlyOK ==
  /\ hi = early /\ early \subseteq Used
  /\ \A h \in Used : Refs(h) \cap early = {}
  /\ Range(temps) \cap early = {}
  /\ trace_ptr # NULL => Range(pending) \cap early = {}
  /\ num_early >= Cardinality(early)

\* The live bits: only used objects have one, between two runs no PMC.
LiveOK ==
  /\ live \subseteq Used
  /\ ~ Running => /\ live \cap Pmcs = {} /\ ~ lazy /\ trace_ptr = NULL
                  /\ next = [h \in Pmcs |-> h]

\* The list of the objects to trace ends at mark_ptr, trace_ptr is on it, and
\* only live objects are; the run starts with Globals.
ListOK ==
  Running =>
    /\ mark_ptr \in Pmcs /\ next[mark_ptr] = mark_ptr
    /\ \A h \in Pmcs \ live : next[h] = h
    /\ \A h \in live \cap Pmcs : next[h] \in live
    /\ trace_ptr # NULL => trace_ptr \in live
    /\ Globals \in live => mark_ptr \in live
    /\ Globals \notin live => /\ mark_ptr = Globals /\ phase = "roots"
                              /\ pending # <<>> /\ pending[1] = Globals
    /\ IF Current = trace_ptr THEN trace_ptr = mark_ptr ELSE mark_ptr \in ToTrace
    /\ phase = "roots" => trace_ptr = NULL

\* What a run can mark: what is in reach of the roots and of the C stack.
Markable == Reachable(HeapRefs, Roots \cup (Range(words) \cap Used))

RunOK ==
  Running =>
    /\ Range(pending) \cup Range(words) \subseteq Used \cup free \cup {NULL}
    /\ (live \cap Pmcs) \cup (Range(pending) \cap Used) \subseteq Markable
    /\ lazy => words = <<>>
    /\ seen = Cardinality(live \cap early)

\* The inductive invariant.
IInv == /\ TInv /\ Phases /\ HeapOK /\ EarlyOK /\ LiveOK /\ ListOK
        /\ MarkInvariant /\ RunOK

----------------------------------------------------------------------------
(* Sequences as sets.                                                       *)

\* The elements of a sequence are its values on 1..Len.
LEMMA RangeIs ==
  ASSUME NEW S, NEW s \in Seq(S)
  PROVE  /\ Range(s) = { s[i] : i \in 1..Len(s) }
         /\ Range(s) \subseteq S
         /\ Len(s) \in Nat /\ DOMAIN s = 1..Len(s)
BY LenProperties, ElementOfSeq DEF Range

\* The empty sequence has no elements, and no other sequence has none.
LEMMA RangeEmpty ==
  /\ Range(<<>>) = {}
  /\ \A S : \A s \in Seq(S) : s # <<>> => Len(s) > 0 /\ s[1] \in Range(s)
<1>1. Range(<<>>) = {}
  <2> DEFINE e == <<>>
  <2>1. e \in Seq(Headers) /\ Len(e) = 0
    BY EmptySeq
  <2> HIDE DEF e
  <2>2. Range(e) = {}
    <3>1. DOMAIN e = 1..0
      BY <2>1, LenProperties
    <3> QED BY <3>1 DEF Range
  <2> QED BY <2>2 DEF e
<1>2. ASSUME NEW S, NEW s \in Seq(S), s # <<>>
      PROVE  Len(s) > 0 /\ s[1] \in Range(s)
  <2>1. Len(s) \in Nat \ {0}
    BY <1>2, EmptySeq
  <2> QED BY <2>1, RangeIs
<1> QED BY <1>1, <1>2

\* The elements of a sequence of one element.
LEMMA RangeOne ==
  ASSUME NEW S, NEW e \in S
  PROVE  <<e>> \in Seq(S) /\ Range(<<e>>) = {e}
<1> DEFINE s == <<e>>
<1>1. s \in Seq(S) /\ Len(s) = 1 /\ s[1] = e
  OBVIOUS
<1> HIDE DEF s
<1>2. Range(s) = {e}
  <2>1. Range(s) = { s[i] : i \in 1..1 }
    BY <1>1, RangeIs
  <2> QED BY <1>1, <2>1
<1> QED BY <1>1, <1>2 DEF s

\* The elements of two sequences one after the other.
LEMMA RangeConcat ==
  ASSUME NEW S, NEW s \in Seq(S), NEW t \in Seq(S)
  PROVE  s \o t \in Seq(S) /\ Range(s \o t) = Range(s) \cup Range(t)
<1> DEFINE r == s \o t
<1>1. /\ r \in Seq(S) /\ Len(r) = Len(s) + Len(t)
      /\ \A i \in 1..(Len(s) + Len(t)) : r[i] = IF i <= Len(s) THEN s[i] ELSE t[i - Len(s)]
  BY ConcatProperties
<1>2. /\ Range(s) = { s[i] : i \in 1..Len(s) } /\ Len(s) \in Nat
      /\ Range(t) = { t[i] : i \in 1..Len(t) } /\ Len(t) \in Nat
  BY RangeIs
<1> HIDE DEF r
<1>3. Range(r) = { r[i] : i \in 1..(Len(s) + Len(t)) }
  BY <1>1, RangeIs
<1>4. Range(r) \subseteq Range(s) \cup Range(t)
  <2> SUFFICES ASSUME NEW i \in 1..(Len(s) + Len(t))
               PROVE  r[i] \in Range(s) \cup Range(t)
    BY <1>3
  <2>1. CASE i <= Len(s)
    BY <1>1, <1>2, <2>1
  <2>2. CASE i > Len(s)
    <3>1. i - Len(s) \in 1..Len(t) /\ ~ (i <= Len(s))
      BY <1>2, <2>2
    <3> QED BY <1>1, <1>2, <3>1
  <2> QED BY <1>2, <2>1, <2>2
<1>5. Range(s) \subseteq Range(r)
  <2> SUFFICES ASSUME NEW i \in 1..Len(s) PROVE s[i] \in Range(r)
    BY <1>2
  <2>1. i \in 1..(Len(s) + Len(t)) /\ i <= Len(s)
    BY <1>2
  <2> QED BY <1>1, <1>3, <2>1
<1>6. Range(t) \subseteq Range(r)
  <2> SUFFICES ASSUME NEW i \in 1..Len(t) PROVE t[i] \in Range(r)
    BY <1>2
  <2>1. /\ i + Len(s) \in 1..(Len(s) + Len(t)) /\ ~ (i + Len(s) <= Len(s))
        /\ (i + Len(s)) - Len(s) = i
    BY <1>2
  <2>2. r[i + Len(s)] = t[i]
    BY <1>1, <2>1
  <2> QED BY <1>3, <2>1, <2>2
<1> QED BY <1>1, <1>4, <1>5, <1>6 DEF r

\* The elements of a sequence with one more at its end.
LEMMA RangeAppend ==
  ASSUME NEW S, NEW s \in Seq(S), NEW e \in S
  PROVE  /\ Append(s, e) \in Seq(S) /\ Append(s, e) # <<>>
         /\ Range(Append(s, e)) = Range(s) \cup {e}
<1> DEFINE r == Append(s, e)
<1>1. Len(s) \in Nat /\ Range(s) = { s[i] : i \in 1..Len(s) }
  BY RangeIs
<1>2. /\ r \in Seq(S) /\ Len(r) = Len(s) + 1
      /\ \A i \in 1..(Len(s) + 1) : r[i] = IF i <= Len(s) THEN s[i] ELSE e
  BY <1>1, AppendProperties
<1> HIDE DEF r
<1>3. Range(r) = { r[i] : i \in 1..(Len(s) + 1) }
  BY <1>2, RangeIs
<1>4. Range(r) = Range(s) \cup {e}
  <2>1. \A i \in 1..Len(s) : i \in 1..(Len(s) + 1) /\ r[i] = s[i]
    BY <1>1, <1>2
  <2>2. Len(s) + 1 \in 1..(Len(s) + 1) /\ r[Len(s) + 1] = e
    BY <1>1, <1>2
  <2>3. \A i \in 1..(Len(s) + 1) : i \in 1..Len(s) \/ i = Len(s) + 1
    BY <1>1
  <2> QED BY <1>1, <1>3, <2>1, <2>2, <2>3
<1>5. r # <<>>
  BY <1>1, <1>2, EmptySeq
<1> QED BY <1>2, <1>4, <1>5 DEF r

\* What is left of a sequence behind its i-th element.
LEMMA RangeRest ==
  ASSUME NEW S, NEW s \in Seq(S), NEW i \in 1..Len(s)
  PROVE  LET rest == SubSeq(s, i + 1, Len(s)) IN
         /\ rest \in Seq(S) /\ Range(rest) \subseteq Range(s)
         /\ \A j \in 1..Len(s) : j < i \/ j = i \/ s[j] \in Range(rest)
<1> DEFINE m == i + 1
           n == Len(s)
           rest == SubSeq(s, m, n)
<1>1. n \in Nat /\ i \in Nat /\ m \in Int /\ n \in Int
  BY LenProperties
<1>2. \A j \in m..n : s[j] \in S
  BY <1>1, ElementOfSeq
<1>3. /\ rest \in Seq(S) /\ Len(rest) = IF m <= n THEN n - m + 1 ELSE 0
      /\ \A j \in 1..(n - m + 1) : rest[j] = s[m + j - 1]
  <2> HIDE DEF m, n
  <2> QED BY <1>1, <1>2, SubSeqProperties
<1> HIDE DEF rest
<1>4. Len(rest) = n - i /\ \A j \in 1..(n - i) : rest[j] = s[i + j]
  <2>1. n - m + 1 = n - i /\ \A j \in 1..(n - i) : m + j - 1 = i + j
    BY <1>1
  <2>2. i <= n /\ (m <= n <=> i # n)
    BY <1>1
  <2>3. Len(rest) = n - i
    <3>1. CASE i = n
      <4>1. n - i = 0 /\ ~ (m <= n)
        BY <1>1, <2>2, <3>1
      <4> HIDE DEF m, n
      <4> QED BY <1>3, <4>1
    <3>2. CASE i # n
      <4> HIDE DEF m, n
      <4> QED BY <1>3, <2>1, <2>2, <3>2
    <3> QED BY <3>1, <3>2
  <2> HIDE DEF m, n
  <2> QED BY <1>3, <2>1, <2>3
<1>5. /\ Range(rest) = { rest[j] : j \in 1..(n - i) }
      /\ Range(s) = { s[j] : j \in 1..n }
  BY <1>3, <1>4, RangeIs
<1>6. Range(rest) \subseteq Range(s)
  <2> SUFFICES ASSUME NEW j \in 1..(n - i) PROVE rest[j] \in Range(s)
    BY <1>5
  <2>1. i + j \in 1..n
    BY <1>1
  <2> QED BY <1>4, <1>5, <2>1
<1>7. ASSUME NEW j \in 1..n, ~ (j < i), j # i PROVE s[j] \in Range(rest)
  <2>1. j - i \in 1..(n - i) /\ i + (j - i) = j
    BY <1>1, <1>7
  <2>2. rest[j - i] = s[j]
    BY <1>4, <2>1
  <2> QED BY <1>5, <2>1, <2>2
<1> QED BY <1>3, <1>6, <1>7 DEF rest, m, n

----------------------------------------------------------------------------
(* Reachability.                                                            *)

\* The roots can be reached.
LEMMA ReachRoots ==
  ASSUME NEW edges, NEW roots, roots \subseteq DOMAIN edges
  PROVE  roots \subseteq Reachable(edges, roots)
BY DEF Reachable

\* What an object in reach refers to is in reach.
LEMMA ReachEdges ==
  ASSUME NEW edges, NEW roots, NEW h \in Reachable(edges, roots),
         edges[h] \subseteq DOMAIN edges
  PROVE  edges[h] \subseteq Reachable(edges, roots)
BY DEF Reachable, ClosedUnder

\* A closed set around the roots holds all that is in reach.
LEMMA ReachLeast ==
  ASSUME NEW edges, NEW roots, NEW S \in SUBSET DOMAIN edges,
         roots \subseteq S, ClosedUnder(edges, S)
  PROVE  Reachable(edges, roots) \subseteq S
BY DEF Reachable

\* The list that starts at c, with n the next pointers.
ListFrom(n, c) == Reachable([h \in Pmcs |-> {n[h]}], {c})

\* Objects are on the list that starts with them.
LEMMA ListStart ==
  ASSUME NEW n \in [Pmcs -> Pmcs], NEW c \in Pmcs
  PROVE  c \in ListFrom(n, c)
BY ReachRoots DEF ListFrom

\* A list without its first object.
LEMMA ListRest ==
  ASSUME NEW n \in [Pmcs -> Pmcs], NEW c \in Pmcs
  PROVE  ListFrom(n, c) \subseteq {c} \cup (IF n[c] = c THEN {} ELSE ListFrom(n, n[c]))
<1> DEFINE E == [h \in Pmcs |-> {n[h]}]
           S == {c} \cup (IF n[c] = c THEN {} ELSE ListFrom(n, n[c]))
<1>1. DOMAIN E = Pmcs /\ \A h \in Pmcs : E[h] = {n[h]} /\ n[h] \in Pmcs
  OBVIOUS
<1>2. S \subseteq Pmcs
  BY <1>1 DEF ListFrom, Reachable
<1>3. ASSUME NEW h \in S PROVE E[h] \subseteq S
  <2>1. CASE h = c
    <3>1. n[c] # c => n[c] \in ListFrom(n, n[c])
      BY <1>1, ListStart
    <3> QED BY <1>1, <2>1, <3>1
  <2>2. CASE h # c
    <3>1. n[c] # c /\ h \in Reachable(E, {n[c]})
      BY <1>3, <2>2 DEF ListFrom
    <3>2. E[h] \subseteq DOMAIN E
      BY <1>1, <1>2, <1>3
    <3> HIDE DEF E
    <3>3. E[h] \subseteq Reachable(E, {n[c]})
      BY <3>1, <3>2, ReachEdges
    <3> QED BY <3>1, <3>3 DEF ListFrom, E
  <2> QED BY <2>1, <2>2
<1>4. ClosedUnder(E, S)
  BY <1>3 DEF ClosedUnder
<1>5. Reachable(E, {c}) \subseteq S
  <2> HIDE DEF E, S
  <2>1. S \in SUBSET DOMAIN E
    BY <1>1, <1>2
  <2>2. {c} \subseteq S
    BY DEF S
  <2> QED BY <1>4, <2>1, <2>2, ReachLeast
<1> QED BY <1>5 DEF ListFrom

\* An object that is linked behind the last one of a list is on the list, and
\* so are all that were on it.
LEMMA ListGrows ==
  ASSUME NEW n \in [Pmcs -> Pmcs], NEW c \in Pmcs, NEW m \in ListFrom(n, c),
         NEW o \in Pmcs, n[m] = m, n[o] = o
  PROVE  LET n2 == [n EXCEPT ![m] = o, ![o] = o] IN
         o \in ListFrom(n2, c) /\ ListFrom(n, c) \subseteq ListFrom(n2, c)
<1> DEFINE n2 == [n EXCEPT ![m] = o, ![o] = o]
           E == [h \in Pmcs |-> {n[h]}]
           E2 == [h \in Pmcs |-> {n2[h]}]
<1>1. m \in Pmcs
  BY DEF ListFrom, Reachable
<1>2. /\ n2 \in [Pmcs -> Pmcs] /\ n2[m] = o /\ n2[o] = o
      /\ \A h \in Pmcs : h # m /\ h # o => n2[h] = n[h]
  BY <1>1
<1>3. DOMAIN E = Pmcs /\ DOMAIN E2 = Pmcs
  OBVIOUS
\* a set that is closed under the new pointers is closed under the old ones
<1>4. ASSUME NEW S \in SUBSET Pmcs, c \in S, ClosedUnder(E2, S)
      PROVE  ListFrom(n, c) \subseteq S /\ o \in S
  <2>1. \A h \in S : n2[h] \in S
    BY <1>4 DEF ClosedUnder
  <2>2. \A h \in S : n[h] \in S
    BY <1>2, <2>1
  <2>3. ClosedUnder(E, S)
    BY <2>2 DEF ClosedUnder
  <2>4. Reachable(E, {c}) \subseteq S
    <3> HIDE DEF E
    <3> QED BY <1>3, <1>4, <2>3, ReachLeast
  <2>5. m \in S
    BY <2>4 DEF ListFrom
  <2> QED BY <1>2, <2>1, <2>4, <2>5 DEF ListFrom
<1>5. ListFrom(n, c) \subseteq Pmcs
  BY DEF ListFrom, Reachable
<1> HIDE DEF n2, E, E2
<1>6. ListFrom(n, c) \subseteq Reachable(E2, {c}) /\ o \in Reachable(E2, {c})
  BY <1>3, <1>4, <1>5 DEF Reachable
<1> QED BY <1>6 DEF ListFrom, E2, n2

----------------------------------------------------------------------------
(* What objects contain.                                                    *)

\* A pointer that is followed, as a sequence.
LEMMA IfSetIs ==
  ASSUME NEW h \in Headers \cup {NULL}
  PROVE  IfSet(h) \in Seq(Headers) /\ Range(IfSet(h)) = {h} \ {NULL}
<1>1. CASE h = NULL
  BY <1>1, RangeEmpty, EmptySeq DEF IfSet
<1>2. CASE h # NULL
  <2>1. h \in Headers /\ IfSet(h) = <<h>>
    BY <1>2 DEF IfSet
  <2>2. <<h>> \in Seq(Headers) /\ Range(<<h>>) = {h}
    BY <2>1, RangeOne
  <2> QED BY <1>2, <2>1, <2>2
<1> QED BY <1>1, <1>2

\* Marking an object marks what it refers to.
LEMMA ContentsRefs ==
  TypeOK => \A h \in Headers : /\ Contents(h) \in Seq(Headers)
                               /\ Range(Contents(h)) = Refs(h)
                               /\ Refs(h) \subseteq Headers
<1> SUFFICES ASSUME TypeOK, NEW h \in Headers
             PROVE  /\ Contents(h) \in Seq(Headers)
                    /\ Range(Contents(h)) = Refs(h)
                    /\ Refs(h) \subseteq Headers
  OBVIOUS
<1>1. CASE h \in Bufs
  <2>1. h \notin Pmcs /\ h \notin ext
    BY <1>1, DodAssumption DEF TypeOK
  <2>2. Contents(h) = <<>> /\ Refs(h) = {}
    BY <1>1, <2>1 DEF Contents, Refs
  <2> QED BY <2>2, RangeEmpty, EmptySeq
<1>2. CASE h \notin Bufs
  <2>1. h \in Pmcs /\ meta[h] \in Headers \cup {NULL} /\ data[h] \in Headers \cup {NULL}
    BY <1>2 DEF TypeOK, Headers
  <2>2. /\ IfSet(meta[h]) \in Seq(Headers) /\ Range(IfSet(meta[h])) = {meta[h]} \ {NULL}
        /\ IfSet(data[h]) \in Seq(Headers) /\ Range(IfSet(data[h])) = {data[h]} \ {NULL}
    BY <2>1, IfSetIs
  <2>3. /\ IfSet(meta[h]) \o IfSet(data[h]) \in Seq(Headers)
        /\ Range(IfSet(meta[h]) \o IfSet(data[h])) = {meta[h], data[h]} \ {NULL}
    BY <2>2, RangeConcat
  <2>4. Contents(h) = IF h \in ext THEN IfSet(meta[h]) \o IfSet(data[h]) ELSE IfSet(data[h])
    BY <1>2 DEF Contents
  <2>5. Refs(h) = (IF h \in ext THEN {meta[h], data[h]} ELSE {data[h]}) \ {NULL}
    BY <2>1 DEF Refs
  <2> HIDE DEF Contents, Refs
  <2> QED BY <2>1, <2>2, <2>3, <2>4, <2>5
<1> QED BY <1>1, <1>2

\* The same after a step.
LEMMA ContentsRefsNext ==
  TypeOK' => (\A h \in Headers : /\ Contents(h) \in Seq(Headers)
                                 /\ Range(Contents(h)) = Refs(h)
                                 /\ Refs(h) \subseteq Headers)'
BY ContentsRefs, PTL

----------------------------------------------------------------------------
(* Types.                                                                   *)

\* The elements of the sequences.
LEMMA SeqRanges ==
  SeqOK => /\ Range(pending) \subseteq Headers \cup {NULL} /\ Range(words) \subseteq Headers
           /\ Range(todo) \subseteq Pools /\ Range(temps) \subseteq Headers
BY RangeIs DEF SeqOK

\* The same after a step.
LEMMA SeqRangesNext ==
  SeqOK' => (/\ Range(pending) \subseteq Headers \cup {NULL} /\ Range(words) \subseteq Headers
             /\ Range(todo) \subseteq Pools /\ Range(temps) \subseteq Headers)'
BY SeqRanges, PTL

\* Finite sets of headers.
LEMMA PmcCount ==
  ASSUME NEW S
  PROVE  /\ IsFiniteSet(S \cap Pmcs) /\ Cardinality(S \cap Pmcs) \in Nat
         /\ Cardinality(Pmcs) \in Nat /\ Cardinality(S \cap Pmcs) <= Cardinality(Pmcs)
BY FS_Subset, FS_CardinalityType, DodAssumption

\* The initial types.
LEMMA InitTInv == Init => TInv
<1> SUFFICES ASSUME Init PROVE TInv
  OBVIOUS
<1> USE DodAssumption
<1>1. SeqOK
  BY EmptySeq DEF Init, SeqOK
<1>2. Globals \in Headers /\ Cardinality(Pmcs) \in Nat /\ Cardinality(live \cap Pmcs) \in Nat
  BY PmcCount DEF Headers
<1>3. free \subseteq Headers /\ fresh \subseteq Headers \ free
  BY DEF Init, kSubset, Headers
<1>4. num_early \in 0..(UintMod - 1) /\ seen \in 0..Cardinality(Pmcs)
  BY <1>2 DEF Init
<1>5. TypeOK
  BY <1>1, <1>2, <1>3, <1>4, SeqRanges DEF Init, TypeOK
<1>6. SeenBound
  BY <1>2 DEF Init, SeenBound
<1> QED BY <1>1, <1>5, <1>6 DEF TInv

\* Steps that do not touch the collector's state.
LEMMA OpTypes ==
  ASSUME TInv, NotRunning,
         ext' \subseteq Pmcs,
         meta' \in [Pmcs -> Pmcs \cup {NULL}], data' \in [Pmcs -> Headers \cup {NULL}],
         regs' \in [Regs -> Pmcs \cup {NULL}], sreg' \in Bufs \cup {NULL},
         early' \subseteq Pmcs, hi' \subseteq Pmcs, num_early' \in 0..(UintMod - 1),
         phase' \in {"ops", "alloc", "roots", "trace", "more", "panic"}
  PROVE  TInv'
<1> USE DEF NotRunning, poolvars, runvars, taskvars
<1>1. SeqOK' /\ SeenBound'
  BY DEF TInv, SeqOK, SeenBound
<1>2. TypeOK'
  BY <1>1, SeqRangesNext DEF TInv, TypeOK
<1> QED BY <1>1, <1>2 DEF TInv

\* The ops that use objects keep the types.
LEMMA OpsTInv ==
  ASSUME TInv,
         \/ \E c \in Pmcs : \E h \in Pmcs \cup {NULL} : StorePmc(c, h)
         \/ \E c \in Pmcs : StoreString(c) \/ \E r \in Regs : Load(r, c)
         \/ \E r \in Regs : NullRegister(r) \/ needs_destroy(r)
         \/ NullString
  PROVE  TInv'
<1> USE DEF earlyvars, heapvars
<1>t. TypeOK
  BY DEF TInv
<1>1. ASSUME NEW c \in Pmcs, NEW h \in Pmcs \cup {NULL}, StorePmc(c, h) PROVE TInv'
  BY <1>1, <1>t, OpTypes DEF StorePmc, TypeOK, Headers
<1>2. ASSUME NEW c \in Pmcs, StoreString(c) PROVE TInv'
  BY <1>2, <1>t, OpTypes DEF StoreString, TypeOK, Headers
<1>3. ASSUME NEW c \in Pmcs, NEW r \in Regs, Load(r, c) PROVE TInv'
  BY <1>3, <1>t, OpTypes DEF Load, TypeOK, Headers
<1>4. ASSUME NEW r \in Regs, NullRegister(r) PROVE TInv'
  BY <1>4, <1>t, OpTypes DEF NullRegister, TypeOK
<1>5. ASSUME NEW r \in Regs, needs_destroy(r) PROVE TInv'
  <2>1. num_early' \in 0..(UintMod - 1)
    BY <1>5, <1>t, DodAssumption DEF needs_destroy, TypeOK
  <2> QED BY <1>5, <1>t, <2>1, OpTypes DEF needs_destroy, TypeOK
<1>6. CASE NullString
  BY <1>6, <1>t, OpTypes DEF NullString, TypeOK
<1> QED BY <1>1, <1>2, <1>3, <1>4, <1>5, <1>6

\* The pools after alloc_objects.
LEMMA AllocTypes ==
  ASSUME NEW p, TypeOK, alloc_objects(p)
  PROVE  /\ phase' \in {"alloc", "panic"}
         /\ free \subseteq free' /\ free' \subseteq Headers
         /\ fresh' \subseteq fresh /\ fresh' \subseteq Headers \ free'
         /\ free' \cup fresh' = free \cup fresh
<1> DEFINE rest == InPool(p) \cap fresh
           have == InPool(p) \ fresh
           n == Min({Max({3 * Cardinality(have), 1}), Cardinality(rest)})
<1>1. CASE rest = {} /\ phase' = "panic" /\ UNCHANGED poolvars
  BY <1>1 DEF TypeOK, poolvars
<1>2. CASE phase' = "alloc" /\ \E more \in kSubset(n, rest) : free' = free \cup more /\ fresh' = fresh \ more
  <2>1. PICK more \in SUBSET rest : free' = free \cup more /\ fresh' = fresh \ more
    BY <1>2 DEF kSubset
  <2> QED BY <1>2, <2>1 DEF TypeOK
<1>3. \/ rest = {} /\ phase' = "panic" /\ UNCHANGED poolvars
      \/ phase' = "alloc" /\ \E more \in kSubset(n, rest) : free' = free \cup more /\ fresh' = fresh \ more
  BY Zenon DEF alloc_objects
<1> QED BY <1>1, <1>2, <1>3

\* The pool that the next object comes from.
LEMMA HeadPool ==
  ASSUME TInv, todo # <<>>
  PROVE  Head(todo) \in Pools /\ Tail(todo) \in Seq(Pools)
BY HeadTailProperties DEF TInv, SeqOK

\* The sequences of registers and of words of the C stack.
LEMMA RootSeqs ==
  ASSUME TInv
  PROVE  /\ regs \in Seq(Headers \cup {NULL})
         /\ Range(regs) \ {NULL} = Held
         /\ <<Globals>> \o regs \in Seq(Headers \cup {NULL})
         /\ Range(<<Globals>> \o regs) = {Globals} \cup Range(regs)
         /\ \A ws \in StackWords : ws \in Seq(Headers)
<1>1. regs \in [Regs -> Pmcs \cup {NULL}] /\ temps \in Seq(Headers)
  BY DEF TInv, TypeOK, SeqOK
<1>2. Cardinality(Regs) \in Nat
  BY DodAssumption, FS_CardinalityType
<1>3. regs \in Seq(Headers \cup {NULL})
  <2> DEFINE n == Cardinality(Regs)
  <2>1. Regs = 1..n /\ n \in Nat
    BY <1>2, DodAssumption
  <2> HIDE DEF n
  <2>2. regs \in [1..n -> Headers \cup {NULL}]
    BY <1>1, <2>1 DEF Headers
  <2> QED BY <2>1, <2>2, SeqDef
<1>4. Range(regs) \ {NULL} = Held
  BY <1>1 DEF Range, Held
<1>5. <<Globals>> \in Seq(Headers \cup {NULL}) /\ Range(<<Globals>>) = {Globals}
  BY RangeOne, DodAssumption DEF Headers
<1>6. /\ <<Globals>> \o regs \in Seq(Headers \cup {NULL})
      /\ Range(<<Globals>> \o regs) = {Globals} \cup Range(regs)
  <2> DEFINE g == <<Globals>>
             H == Headers \cup {NULL}
  <2>1. g \in Seq(H) /\ regs \in Seq(H) /\ Range(g) = {Globals}
    BY <1>3, <1>5
  <2> HIDE DEF g, H
  <2>2. g \o regs \in Seq(H) /\ Range(g \o regs) = Range(g) \cup Range(regs)
    BY <2>1, RangeConcat
  <2> QED BY <2>1, <2>2 DEF g, H
<1>7. \A ws \in StackWords : ws \in Seq(Headers)
  <2>1. \A h \in Headers : Append(temps, h) \in Seq(Headers)
    BY <1>1, RangeAppend
  <2> QED BY <1>1, <2>1 DEF StackWords
<1> QED BY <1>3, <1>4, <1>6, <1>7

\* The start of a run keeps the types.
LEMMA StartTInv ==
  ASSUME TInv, NEW lz \in BOOLEAN, NEW ws \in Seq(Headers), StartRun(lz, ws)
  PROVE  TInv'
<1> USE DEF StartRun, heapvars, earlyvars, poolvars, taskvars
<1>1. SeqOK'
  BY RootSeqs DEF TInv, SeqOK
<1>2. seen' \in 0..Cardinality(Pmcs) /\ SeenBound'
  <2>1. Cardinality(Pmcs) \in Nat /\ Cardinality(live' \cap Pmcs) \in Nat /\ seen' = 0
    BY PmcCount
  <2> QED BY <2>1 DEF SeenBound
<1>3. TypeOK'
  BY <1>1, <1>2, SeqRangesNext, DodAssumption DEF TInv, TypeOK
<1> QED BY <1>1, <1>2, <1>3 DEF TInv

\* Ops that allocate, and the ops sweep, keep the types.
LEMMA AllocTInv ==
  ASSUME TInv,
         \/ \E p \in Pools : New(<<p>>) \/ New(<<"pmc", p>>)
         \/ sweep1 \/ sweep0
         \/ get_free_object \/ Made \/ more_traceable_objects \/ MoreAfterRun
  PROVE  TInv'
<1> USE DEF heapvars, earlyvars, poolvars, runvars, taskvars
<1>t. TypeOK /\ SeqOK /\ SeenBound
  BY DEF TInv
<1>1. ASSUME NEW pools \in Seq(Pools), New(pools) PROVE TInv'
  <2>1. SeqOK' /\ SeenBound'
    BY <1>1, <1>t DEF New, SeqOK, SeenBound
  <2>2. TypeOK'
    BY <1>1, <1>t, <2>1, SeqRangesNext DEF New, TypeOK
  <2> QED BY <2>1, <2>2 DEF TInv
<1>2. ASSUME NEW p \in Pools, New(<<p>>) \/ New(<<"pmc", p>>) PROVE TInv'
  <2>1. "pmc" \in Pools
    BY DEF Pools
  <2>2. <<p>> \in Seq(Pools) /\ <<"pmc", p>> \in Seq(Pools)
    BY <2>1
  <2> QED BY <1>1, <1>2, <2>2
<1>3. CASE sweep1 \/ sweep0
  <2>1. <<>> \in Seq(Headers)
    BY EmptySeq
  <2> QED BY <1>3, <2>1, StartTInv DEF sweep1, sweep0
<1>4. CASE get_free_object
  <2>1. /\ Head(todo) \in Pools /\ Tail(todo) \in Seq(Pools)
        /\ InPool(Head(todo)) \subseteq Headers
    BY <1>4, HeadPool DEF get_free_object, InPool, Headers
  <2>2. PICK h \in free \cap InPool(Head(todo)) :
          /\ free' = free \ {h}
          /\ ext' \in {ext} \cup (IF Head(todo) = "pmc" THEN {ext \cup {h}} ELSE {})
          /\ temps' = Append(temps, h)
    BY <1>4 DEF get_free_object
  <2>3. ext' \subseteq Pmcs
    BY <1>t, <2>2 DEF TypeOK, InPool
  <2>4. SeqOK' /\ SeenBound'
    BY <1>4, <1>t, <2>1, <2>2, RangeAppend DEF get_free_object, SeqOK, SeenBound
  <2>5. TypeOK'
    BY <1>4, <1>t, <2>2, <2>3, <2>4, SeqRangesNext DEF get_free_object, TypeOK
  <2> QED BY <2>4, <2>5 DEF TInv
<1>5. CASE Made
  <2>1. SeqOK' /\ SeenBound'
    BY <1>5, <1>t, EmptySeq DEF Made, SeqOK, SeenBound
  <2>2. Len(temps) = 2 => temps[2] \in Headers
    <3>1. ASSUME Len(temps) = 2 PROVE temps[2] \in Headers
      <4>1. 2 \in 1..Len(temps)
        BY <3>1
      <4> QED BY <1>t, <4>1, ElementOfSeq DEF SeqOK
    <3> QED BY <3>1
  <2>3. data' \in [Pmcs -> Headers \cup {NULL}]
    BY <1>5, <1>t, <2>2 DEF Made, TypeOK
  <2>4. TypeOK'
    BY <1>5, <1>t, <2>1, <2>3, SeqRangesNext DEF Made, TypeOK
  <2> QED BY <2>1, <2>4 DEF TInv
<1>6. CASE more_traceable_objects
  <2>2. CASE \E ws \in StackWords : StartRun(FALSE, ws)
    BY <2>2, RootSeqs, StartTInv
  <2>3. CASE /\ alloc_objects(Head(todo))
             /\ UNCHANGED <<heapvars, earlyvars, live, runvars, taskvars>>
    <3>1. SeqOK' /\ SeenBound'
      BY <2>3, <1>t DEF SeqOK, SeenBound
    <3>2. TypeOK'
      BY <2>3, <1>t, <3>1, SeqRangesNext, AllocTypes DEF TypeOK
    <3> QED BY <3>1, <3>2 DEF TInv
  <2> QED BY <1>6, <2>2, <2>3 DEF more_traceable_objects
<1>7. CASE MoreAfterRun
  <2>1. SeqOK' /\ SeenBound'
    BY <1>7, <1>t DEF MoreAfterRun, SeqOK, SeenBound
  <2>3. CASE alloc_objects(Head(todo))
    <3>1. TypeOK'
      BY <1>7, <2>1, <2>3, <1>t, SeqRangesNext, AllocTypes DEF MoreAfterRun, TypeOK
    <3> QED BY <2>1, <3>1 DEF TInv
  <2>4. CASE phase' = "alloc" /\ UNCHANGED poolvars
    <3>1. TypeOK'
      BY <1>7, <2>1, <2>4, <1>t, SeqRangesNext DEF MoreAfterRun, TypeOK
    <3> QED BY <2>1, <3>1 DEF TInv
  <2> QED BY <1>7, <2>3, <2>4 DEF MoreAfterRun
<1> QED BY <1>2, <1>3, <1>4, <1>5, <1>6, <1>7

\* The object that pobject_lives marks next, and the calls that are left then:
\* those before it have nothing to do.
LEMMA FirstDue ==
  ASSUME TInv, Due # {}
  PROVE  LET i == Min(Due)
             rest == SubSeq(pending, i + 1, Len(pending)) IN
         /\ pending[i] \in Range(pending)
         /\ pending[i] \in Headers /\ pending[i] \notin live \cup free
         /\ rest \in Seq(Headers \cup {NULL}) /\ Range(rest) \subseteq Range(pending)
         /\ Range(pending) \subseteq Range(rest) \cup {pending[i]} \cup live \cup free \cup {NULL}
         /\ 1 \in Due => i = 1
<1> DEFINE i == Min(Due)
           rest == SubSeq(pending, i + 1, Len(pending))
<1>1. /\ pending \in Seq(Headers \cup {NULL}) /\ Len(pending) \in Nat
      /\ DOMAIN pending = 1..Len(pending)
      /\ Range(pending) = { pending[j] : j \in 1..Len(pending) }
      /\ Range(pending) \subseteq Headers \cup {NULL}
  BY RangeIs DEF TInv, SeqOK
<1>2. Due \subseteq 1..Len(pending) /\ Due \subseteq Nat
  BY <1>1 DEF Due
<1>3. i \in Due /\ \A j \in Due : i <= j
  BY <1>2, MinIsLeast
<1> HIDE DEF i
<1>4. i \in 1..Len(pending) /\ pending[i] \notin {NULL} \cup live \cup free
  BY <1>1, <1>3 DEF Due, OnFreeList
<1>5. pending[i] \in Range(pending) /\ pending[i] \in Headers
  BY <1>1, <1>4
<1>6. /\ rest \in Seq(Headers \cup {NULL}) /\ Range(rest) \subseteq Range(pending)
      /\ \A j \in 1..Len(pending) : j < i \/ j = i \/ pending[j] \in Range(rest)
  BY <1>1, <1>4, RangeRest
<1>7. ASSUME NEW j \in 1..Len(pending), j < i
      PROVE  pending[j] \in live \cup free \cup {NULL}
  <2>1. j \notin Due
    BY <1>2, <1>3, <1>7
  <2> QED BY <1>1, <2>1 DEF Due, OnFreeList
<1> HIDE DEF rest
<1>8. Range(pending) \subseteq Range(rest) \cup {pending[i]} \cup live \cup free \cup {NULL}
  BY <1>1, <1>6, <1>7
<1>9. 1 \in Due => i = 1
  BY <1>2, <1>3
<1> QED BY <1>4, <1>5, <1>6, <1>8, <1>9 DEF i, rest

\* The end of a run keeps the types.
LEMMA EndTypes ==
  ASSUME TInv, EndRun,
         ext' \subseteq Pmcs,
         meta' \in [Pmcs -> Pmcs \cup {NULL}], data' \in [Pmcs -> Headers \cup {NULL}],
         early' \subseteq Pmcs, hi' \subseteq Pmcs, num_early' \in 0..(UintMod - 1),
         live' \subseteq Headers, free' \subseteq Headers, fresh' \subseteq Headers \ free'
  PROVE  TInv'
<1> USE DEF EndRun, taskvars
<1>1. SeqOK'
  BY EmptySeq DEF TInv, SeqOK
<1>2. seen' \in 0..Cardinality(Pmcs) /\ SeenBound'
  <2>1. Cardinality(Pmcs) \in Nat /\ Cardinality(live' \cap Pmcs) \in Nat /\ seen' = 0
    BY PmcCount
  <2> QED BY <2>1 DEF SeenBound
<1>3. TypeOK'
  BY <1>1, <1>2, SeqRangesNext DEF TInv, TypeOK
<1> QED BY <1>1, <1>2, <1>3 DEF TInv

\* The steps of the collector keep the types.
LEMMA CollectorTInv ==
  ASSUME TInv, CollectorStep
  PROVE  TInv'
<1> USE DEF heapvars, earlyvars, poolvars, taskvars
<1>t. TypeOK /\ SeqOK /\ SeenBound
  BY DEF TInv
<1>1. CASE pobject_lives
  <2> DEFINE i == Min(Due)
             obj == pending[i]
             rest == SubSeq(pending, i + 1, Len(pending))
  <2>1. obj \in Headers /\ obj \notin live /\ rest \in Seq(Headers \cup {NULL})
    BY <1>1, FirstDue DEF pobject_lives
  <2>2. live' = live \cup {obj} /\ mark_special(obj, rest)
    BY <1>1 DEF pobject_lives
  <2>3. Contents(obj) \in Seq(Headers \cup {NULL})
    BY <1>t, <2>1, ContentsRefs, SeqMonotonic
  <2> HIDE DEF obj, rest
  <2>4. Contents(obj) \o rest \in Seq(Headers \cup {NULL})
    BY <2>1, <2>3, RangeConcat
  <2>5. pending' \in Seq(Headers \cup {NULL})
    BY <2>1, <2>2, <2>4 DEF mark_special
  <2>6. SeqOK'
    BY <1>1, <1>t, <2>5 DEF pobject_lives, SeqOK
  <2>7. hi' \subseteq Pmcs
    BY <1>t, <2>2 DEF mark_special, TypeOK
  <2>8. next' \in [Pmcs -> Pmcs] /\ mark_ptr' \in Pmcs \cup {NULL}
    <3>1. CASE obj \in ext
      <4>1. obj \in Pmcs
        BY <1>t, <3>1 DEF TypeOK
      <4>2. ASSUME NEW hp \in BOOLEAN, hp => trace_ptr # NULL, Linked(obj, hp)
             PROVE  next' \in [Pmcs -> Pmcs] /\ mark_ptr' \in Pmcs \cup {NULL}
        <5>1. CASE hp
          BY <1>t, <4>1, <4>2, <5>1 DEF Linked, TypeOK
        <5>2. CASE ~ hp
          BY <1>t, <4>1, <4>2, <5>2 DEF Linked, TypeOK
        <5> QED BY <5>1, <5>2
      <4> QED BY <2>2, <3>1, <4>2 DEF mark_special
    <3>2. CASE obj \notin ext
      BY <1>t, <2>2, <3>2 DEF mark_special, TypeOK
    <3> QED BY <3>1, <3>2
  <2>9. SeenBound' /\ seen' \in 0..Cardinality(Pmcs)
    <3>1. /\ Cardinality(Pmcs) \in Nat /\ seen \in Nat
          /\ IsFiniteSet(live \cap Pmcs) /\ Cardinality(live \cap Pmcs) \in Nat
          /\ Cardinality(live' \cap Pmcs) \in Nat
          /\ Cardinality(live' \cap Pmcs) <= Cardinality(Pmcs)
          /\ seen <= Cardinality(live \cap Pmcs)
      BY <1>t, PmcCount DEF TypeOK, SeenBound
    <3>2. CASE obj \in Pmcs
      <4>1. live' \cap Pmcs = (live \cap Pmcs) \cup {obj} /\ obj \notin live \cap Pmcs
        BY <2>1, <2>2, <3>2
      <4>2. Cardinality(live' \cap Pmcs) = Cardinality(live \cap Pmcs) + 1
        BY <3>1, <4>1, FS_AddElement
      <4>3. seen' = seen \/ seen' = seen + 1
        BY <2>2 DEF mark_special
      <4> QED BY <3>1, <4>2, <4>3 DEF SeenBound
    <3>3. CASE obj \notin Pmcs
      <4>1. live' \cap Pmcs = live \cap Pmcs /\ seen' = seen
        BY <1>t, <2>2, <3>3 DEF mark_special, NeedsEarly, TypeOK
      <4> QED BY <3>1, <4>1 DEF SeenBound
    <3> QED BY <3>2, <3>3
  <2>10. live' \subseteq Headers
    BY <1>t, <2>1, <2>2 DEF TypeOK
  <2>11. TypeOK'
    BY <1>1, <1>t, <2>6, <2>7, <2>8, <2>9, <2>10, SeqRangesNext DEF pobject_lives, TypeOK
  <2> QED BY <2>6, <2>9, <2>11 DEF TInv
<1>2. CASE AbortRun
  BY <1>2, <1>t, EndTypes DEF AbortRun, clear_live_bits, TypeOK
<1>3. CASE RootsDone
  <2>1. CASE /\ pending' = words /\ phase' = "trace"
             /\ UNCHANGED <<heapvars, earlyvars, live, poolvars, lazy, words,
                            seen, trace_ptr, mark_ptr, next, taskvars>>
    <3>1. SeqOK' /\ SeenBound'
      BY <1>t, <2>1, SeqMonotonic DEF SeqOK, SeenBound
    <3>2. TypeOK'
      BY <1>t, <2>1, <3>1, SeqRangesNext DEF TypeOK
    <3> QED BY <3>1, <3>2 DEF TInv
  <2> QED BY <1>2, <1>3, <2>1 DEF RootsDone
<1>4. CASE trace_children
  <2>1. CASE /\ trace_ptr' = Current
             /\ pending' = Contents(Current)
             /\ UNCHANGED <<heapvars, earlyvars, live, poolvars, phase, lazy,
                            words, seen, mark_ptr, next, taskvars>>
    <3>1. Current \in Pmcs
      BY <1>t, DodAssumption DEF Current, TypeOK
    <3>2. Contents(Current) \in Seq(Headers \cup {NULL})
      BY <1>t, <3>1, ContentsRefs, SeqMonotonic DEF Headers
    <3>3. SeqOK' /\ SeenBound'
      BY <1>t, <2>1, <3>2 DEF SeqOK, SeenBound
    <3>4. TypeOK'
      BY <1>t, <2>1, <3>1, <3>3, SeqRangesNext DEF TypeOK
    <3> QED BY <3>3, <3>4 DEF TInv
  <2> QED BY <1>2, <1>4, <2>1 DEF trace_children
<1>5. CASE free_unused_pobjects
  <2>1. num_early' \in 0..(UintMod - 1)
    <3>1. EarlyFreed \in Nat /\ num_early \in Nat /\ UintMod \in Nat /\ UintMod > 0
      <4>1. { h \in Dead \cap Pmcs : NeedsEarly(h) } = { h \in Dead : NeedsEarly(h) } \cap Pmcs
        OBVIOUS
      <4>2. EarlyFreed \in Nat
        BY <4>1, PmcCount DEF EarlyFreed
      <4> QED BY <1>t, <4>2, DodAssumption DEF TypeOK
    <3>2. num_early' = (num_early - EarlyFreed) % UintMod
      BY <1>5 DEF free_unused_pobjects
    <3> HIDE DEF EarlyFreed
    <3> QED BY <3>1, <3>2
  <2>2. free' \subseteq Headers /\ fresh' \subseteq Headers \ free' /\ live' = {}
    BY <1>5, <1>t DEF free_unused_pobjects, Dead, Used, TypeOK
  <2>3. /\ ext' \subseteq Pmcs /\ early' \subseteq Pmcs /\ hi' \subseteq Pmcs
        /\ meta' \in [Pmcs -> Pmcs \cup {NULL}] /\ data' \in [Pmcs -> Headers \cup {NULL}]
    BY <1>5, <1>t DEF free_unused_pobjects, TypeOK
  <2>4. EndRun
    BY <1>5 DEF free_unused_pobjects
  <2> QED BY <2>1, <2>2, <2>3, <2>4, EndTypes
<1> QED BY <1>1, <1>3, <1>4, <1>5 DEF CollectorStep

\* A step keeps the types.
LEMMA NextTInv == TInv /\ [Next]_vars => TInv'
<1> SUFFICES ASSUME TInv, [Next]_vars PROVE TInv'
  OBVIOUS
<1>1. CASE UNCHANGED vars
  BY <1>1 DEF vars, heapvars, earlyvars, poolvars, runvars, taskvars,
              TInv, TypeOK, SeqOK, SeenBound
<1>2. CASE Next
  BY <1>1, <1>2, OpsTInv, AllocTInv, CollectorTInv DEF Next, Panicked
<1> QED BY <1>1, <1>2

\* Every variable keeps its type, for every program: in particular the number
\* of objects that need early DOD stays a UINTVAL, and no more objects are
\* counted as seen in a run than there are PMCs.
THEOREM TypeCorrect == Spec => []TypeOK
<1>1. Spec => []TInv
  BY InitTInv, NextTInv, PTL DEF Spec
<1>2. TInv => TypeOK
  BY DEF TInv
<1> QED BY <1>1, <1>2, PTL

----------------------------------------------------------------------------
(* The heap between two runs.                                               *)

\* Outside of a run only the heap matters.
LEMMA QuietIInv ==
  ASSUME TInv', ~ Running', Phases', HeapOK', EarlyOK', LiveOK'
  PROVE  IInv'
BY DEF IInv, ListOK, MarkInvariant, RunOK, Running

\* What the program holds, and the PMCs that need early DOD, in one place.
LEMMA HeldUsed ==
  ASSUME IInv
  PROVE  /\ Held \subseteq Used /\ Globals \in Used /\ NULL \notin Used
         /\ sreg # NULL => sreg \in Used
         /\ Range(temps) \subseteq Used /\ free \cap Used = {} /\ fresh \cap Used = {}
         /\ IsFiniteSet(early) /\ Cardinality(early) \in Nat
<1>1. IsFiniteSet(early) /\ Cardinality(early) \in Nat
  BY FS_Subset, FS_CardinalityType, DodAssumption DEF IInv, TInv, TypeOK
<1>2. NULL \notin Headers
  BY DodAssumption DEF Headers
<1> QED BY <1>1, <1>2 DEF IInv, HeapOK, Roots, Used

\* Steps in which the program changes what it holds and what one container
\* refers to: all of it was held before, or contained in what was held.
LEMMA MutateIInv ==
  ASSUME IInv, TInv', NotRunning, phase = "ops", phase' = "ops", UNCHANGED <<ext, earlyvars>>,
         NEW c \in Used, NEW new \in SUBSET Used, new \cap early = {},
         \A h \in Pmcs : h # c => meta'[h] = meta[h] /\ data'[h] = data[h],
         Refs(c)' \subseteq Refs(c) \cup new,
         Roots' \subseteq Used
  PROVE  IInv'
<1> USE DEF NotRunning, poolvars, runvars, taskvars, earlyvars
<1>1. Used' = Used /\ ~ Running /\ ~ Running'
  BY DEF Used, Running
<1>2. ASSUME NEW h \in Used PROVE Refs(h)' \subseteq Used /\ Refs(h)' \cap early = {}
  <2>1. Refs(h)' \subseteq Refs(h) \cup new
    BY DEF Refs
  <2> QED BY <2>1 DEF IInv, HeapOK, EarlyOK
<1>3. HeapOK'
  BY <1>1, <1>2 DEF IInv, HeapOK
<1>4. EarlyOK'
  BY <1>1, <1>2 DEF IInv, EarlyOK
<1>5. LiveOK' /\ Phases'
  BY <1>1 DEF IInv, LiveOK, Phases
<1> QED BY <1>1, <1>3, <1>4, <1>5, QuietIInv

\* The ops that use objects keep the invariant.
LEMMA OpsIInv ==
  ASSUME IInv, TInv', EarlyNested = FALSE,
         \/ \E c \in Pmcs : \E h \in Pmcs \cup {NULL} : StorePmc(c, h)
         \/ \E c \in Pmcs : StoreString(c) \/ \E r \in Regs : Load(r, c)
         \/ \E r \in Regs : NullRegister(r) \/ needs_destroy(r)
         \/ NullString
  PROVE  IInv'
<1>t. TypeOK /\ HeapOK /\ EarlyOK
  BY DEF IInv, TInv
<1>h. /\ Held \subseteq Used /\ Globals \in Used /\ NULL \notin Used
      /\ sreg # NULL => sreg \in Used
  BY HeldUsed
<1>1. ASSUME NEW c \in Pmcs, NEW h \in Pmcs \cup {NULL}, StorePmc(c, h) PROVE IInv'
  <2> DEFINE new == {h} \ {NULL}
  <2>1. c \in Used /\ new \subseteq Used /\ new \cap early = {}
    BY <1>1, <1>h DEF StorePmc, Container, NeedsEarly
  <2>2. \A x \in Pmcs : x # c => meta'[x] = meta[x] /\ data'[x] = data[x]
    BY <1>1, <1>t DEF StorePmc, TypeOK
  <2>3. Refs(c)' \subseteq Refs(c) \cup new
    BY <1>1, <1>t DEF StorePmc, Refs, TypeOK
  <2>4. Roots' = Roots /\ Roots \subseteq Used
    BY <1>1, <1>t DEF StorePmc, NotRunning, taskvars, Roots, Held, HeapOK
  <2>5. NotRunning /\ phase = "ops" /\ phase' = "ops" /\ UNCHANGED <<ext, earlyvars>>
    BY <1>1 DEF StorePmc
  <2> HIDE DEF new
  <2> QED BY <2>1, <2>2, <2>3, <2>4, <2>5, MutateIInv
<1>2. ASSUME NEW c \in Pmcs, StoreString(c) PROVE IInv'
  <2>1. c \in Used /\ {sreg} \subseteq Used /\ {sreg} \cap early = {}
    BY <1>2, <1>h, <1>t, DodAssumption DEF StoreString, Container, TypeOK
  <2>2. \A x \in Pmcs : x # c => meta'[x] = meta[x] /\ data'[x] = data[x]
    BY <1>2, <1>t DEF StoreString, TypeOK
  <2>3. Refs(c)' \subseteq Refs(c) \cup {sreg}
    BY <1>2, <1>t DEF StoreString, Refs, TypeOK
  <2>4. Roots' = Roots /\ Roots \subseteq Used
    BY <1>2, <1>t DEF StoreString, NotRunning, taskvars, Roots, Held, HeapOK
  <2>5. NotRunning /\ phase = "ops" /\ phase' = "ops" /\ UNCHANGED <<ext, earlyvars>>
    BY <1>2 DEF StoreString
  <2> QED BY <2>1, <2>2, <2>3, <2>4, <2>5, MutateIInv
\* the ops that only change the registers
<1>3. ASSUME UNCHANGED <<ext, meta, data, earlyvars, phase>>, NotRunning, phase = "ops",
             Roots' \subseteq Used
      PROVE  IInv'
  <2>1. Globals \in Used /\ {} \in SUBSET Used /\ {} \cap early = {}
    BY <1>h
  <2>2. /\ \A x \in Pmcs : x # Globals => meta'[x] = meta[x] /\ data'[x] = data[x]
        /\ Refs(Globals)' \subseteq Refs(Globals) \cup {}
    BY <1>3 DEF Refs
  <2>3. phase' = "ops" /\ UNCHANGED <<ext, earlyvars>>
    BY <1>3
  <2> QED BY <1>3, <2>1, <2>2, <2>3, MutateIInv
<1>4. ASSUME NEW c \in Pmcs, NEW r \in Regs, Load(r, c) PROVE IInv'
  <2>1. c \in Used /\ Range(Contents(c)) \subseteq Used
    BY <1>4, <1>h, <1>t, ContentsRefs DEF Load, Container, HeapOK, Headers
  <2>2. Held' \subseteq Used /\ (sreg' # NULL => sreg' \in Used) /\ temps' = temps
    BY <1>4, <1>h, <1>t, <2>1 DEF Load, Held, TypeOK, NotRunning, taskvars
  <2>3. Roots' \subseteq Used
    BY <1>t, <2>2 DEF Roots, HeapOK
  <2> QED BY <1>3, <1>4, <2>3 DEF Load
<1>5. ASSUME NEW r \in Regs, NullRegister(r) PROVE IInv'
  <2>1. Held' \subseteq Held /\ sreg' = sreg /\ temps' = temps
    BY <1>5, <1>t DEF NullRegister, Held, TypeOK, NotRunning, taskvars
  <2>2. Roots' \subseteq Used
    BY <1>t, <2>1 DEF Roots, HeapOK
  <2> QED BY <1>3, <1>5, <2>2 DEF NullRegister
<1>6. CASE NullString
  <2>1. Held' = Held /\ sreg' = NULL /\ temps' = temps
    BY <1>6 DEF NullString, Held, NotRunning, taskvars
  <2>2. Roots' \subseteq Used
    BY <1>t, <2>1 DEF Roots, HeapOK
  <2> QED BY <1>3, <1>6, <2>2 DEF NullString
<1>7. ASSUME NEW r \in Regs, needs_destroy(r) PROVE IInv'
  <2> USE DEF NotRunning, heapvars, poolvars, runvars, taskvars
  <2>1. regs[r] \in Held /\ regs[r] \in Used
    BY <1>7, <1>h DEF needs_destroy, Held
  <2>2. Used' = Used /\ ~ Running /\ ~ Running'
    BY <1>7 DEF needs_destroy, Used, Running
  <2>3. \A h \in Used : Refs(h)' = Refs(h)
    BY <1>7 DEF needs_destroy, Refs
  <2>4. HeapOK' /\ LiveOK' /\ Phases'
    <3>1. Roots' = Roots
      BY <1>7 DEF needs_destroy, Roots, Held
    <3>2. HeapOK'
      BY <1>7, <1>t, <2>2, <2>3, <3>1 DEF needs_destroy, HeapOK
    <3>3. LiveOK' /\ Phases'
      BY <1>7, <2>2 DEF needs_destroy, IInv, LiveOK, Phases
    <3> QED BY <3>2, <3>3
  <2>5. \A h \in Used : regs[r] \notin Refs(h)
    <3>1. ~ Contained(regs[r])
      BY <1>7 DEF needs_destroy
    <3>2. \A h \in Used \cap Pmcs : regs[r] \notin Refs(h)
      BY <1>t, <3>1, ContentsRefs DEF Contained, Headers
    <3> QED BY <3>2 DEF Refs
  <2>6. num_early' >= Cardinality(early')
    <3>1. /\ IsFiniteSet(early) /\ Cardinality(early) \in Nat /\ num_early \in Nat
          /\ num_early >= Cardinality(early)
      BY <1>t, HeldUsed DEF TypeOK, EarlyOK
    <3>2. early' = early \cup {regs[r]} /\ num_early' = num_early + 1
      BY <1>7 DEF needs_destroy
    <3>3. Cardinality(early') = Cardinality(early) \/ Cardinality(early') = Cardinality(early) + 1
      BY <3>1, <3>2, FS_AddElement
    <3> QED BY <3>1, <3>2, <3>3
  <2>7. Range(temps) = {} /\ trace_ptr = NULL
    BY <1>7, <2>2, RangeEmpty DEF needs_destroy, IInv, Phases, LiveOK
  <2>8. EarlyOK'
    BY <1>7, <1>t, <2>1, <2>2, <2>3, <2>5, <2>6, <2>7 DEF needs_destroy, EarlyOK
  <2> QED BY <2>2, <2>4, <2>8, QuietIInv
<1> QED BY <1>1, <1>2, <1>4, <1>5, <1>6, <1>7

\* A run starts: nothing is marked yet.
LEMMA StartIInv ==
  ASSUME IInv, TInv', NEW lz \in BOOLEAN, NEW ws \in Seq(Headers), StartRun(lz, ws),
         ~ Running, todo = <<>> => temps = <<>>, lz => ws = <<>>,
         Range(temps) \subseteq Range(ws), Range(ws) \subseteq Used \cup free
  PROVE  IInv'
<1> USE DEF StartRun, heapvars, earlyvars, poolvars, taskvars
<1>t. TInv /\ TypeOK /\ HeapOK /\ EarlyOK /\ LiveOK
  BY DEF IInv, TInv
<1>1. Running' /\ phase' = "roots" /\ Used' = Used /\ Roots' = Roots /\ Markable' = Reachable(HeapRefs, Roots \cup (Range(ws) \cap Used))
  BY DEF Running, Used, Roots, Held, Markable, HeapRefs, Contents
<1>2. \A h : Refs(h)' = Refs(h)
  BY DEF Refs
<1>3. /\ live \cap Pmcs = {} /\ Globals \notin live
      /\ next \in [Pmcs -> Pmcs] /\ \A h \in Pmcs : next[h] = h
  BY <1>t, DodAssumption DEF LiveOK, TypeOK
<1>4. Phases'
  BY <1>1 DEF Phases
<1>5. HeapOK' /\ EarlyOK' /\ LiveOK'
  BY <1>t, <1>1, <1>2 DEF HeapOK, EarlyOK, LiveOK
<1>6. /\ pending' \in Seq(Headers \cup {NULL}) /\ pending' # <<>> /\ pending'[1] = Globals
      /\ Range(pending') \ {NULL} = {Globals} \cup Held
  <2>1. /\ regs \in Seq(Headers \cup {NULL}) /\ pending' \in Seq(Headers \cup {NULL})
        /\ Range(regs) \ {NULL} = Held
        /\ Range(pending') = {Globals} \cup Range(regs)
    BY <1>t, RootSeqs
  <2>2. pending'[1] = Globals /\ pending' # <<>>
    BY <2>1
  <2>3. Globals # NULL
    BY DodAssumption
  <2> QED BY <2>1, <2>2, <2>3
<1>7. ListOK'
  <2>1. Current' = Globals /\ ToTrace' = ListFrom(next, Globals)
    <3>1. trace_ptr' = NULL /\ next' = next /\ Globals # NULL
      BY DodAssumption
    <3> QED BY <3>1 DEF Current, ToTrace, ListFrom
  <2>2. Globals \in ToTrace'
    BY <1>3, <2>1, ListStart, DodAssumption
  <2> QED BY <1>1, <1>3, <1>6, <2>1, <2>2, DodAssumption DEF ListOK
<1>8. MarkInvariant'
  <2>1. Roots \ {sreg} \subseteq {Globals} \cup Held \cup Range(ws)
    BY DEF Roots
  <2> QED BY <1>1, <1>3, <1>6, <2>1 DEF MarkInvariant
<1>9. RunOK'
  <2>1. Held \cup {Globals} \subseteq Roots /\ Roots \subseteq Used
    BY <1>t DEF Roots, HeapOK
  <2>2. Roots \subseteq Markable'
    <3> DEFINE R == Roots \cup (Range(ws) \cap Used)
    <3>1. R \subseteq DOMAIN HeapRefs
      BY <2>1 DEF HeapRefs, Used
    <3> HIDE DEF R
    <3>2. R \subseteq Reachable(HeapRefs, R)
      BY <3>1, ReachRoots
    <3> QED BY <1>1, <3>2 DEF R
  <2>3. seen' = Cardinality(live' \cap early')
    <3>1. live' \cap early' = {}
      BY <1>t, <1>3 DEF TypeOK
    <3> QED BY <3>1, FS_EmptySet
  <2>4. Range(pending') \cup Range(ws) \subseteq Used \cup free \cup {NULL}
    BY <1>6, <2>1
  <2>5. (live' \cap Pmcs) \cup (Range(pending') \cap Used) \subseteq Markable'
    <3>1. live' \cap Pmcs = {}
      BY <1>3
    <3>2. Range(pending') \cap Used \subseteq {Globals} \cup Held
      BY <1>6, HeldUsed
    <3> QED BY <3>1, <3>2, <2>1, <2>2
  <2>6. words' = ws /\ lazy' = lz /\ free' = free
    OBVIOUS
  <2>7. Range(pending') \cup Range(words') \subseteq Used' \cup free' \cup {NULL}
    BY <1>1, <2>4, <2>6
  <2>8. (live' \cap Pmcs) \cup (Range(pending') \cap Used') \subseteq Markable'
    BY <1>1, <2>5
  <2>9. lazy' => words' = <<>>
    BY <2>6
  <2> HIDE DEF StartRun
  <2> QED BY <2>3, <2>7, <2>8, <2>9 DEF RunOK
<1> QED BY <1>4, <1>5, <1>7, <1>8, <1>9 DEF IInv

\* An allocation from the rest of the arena changes the free list only.
LEMMA GrowIInv ==
  ASSUME IInv, TInv', ~ Running, NEW p, alloc_objects(p), todo # <<>>,
         UNCHANGED <<heapvars, earlyvars, live, runvars, taskvars>>
  PROVE  IInv'
<1> USE DEF heapvars, earlyvars, runvars, taskvars
<1>1. phase' \in {"alloc", "panic"} /\ free' \cup fresh' = free \cup fresh
  BY AllocTypes DEF IInv, TInv
<1>2. Used' = Used /\ Roots' = Roots /\ ~ Running'
  BY <1>1 DEF Used, Roots, Held, Running
<1>3. \A h : Refs(h)' = Refs(h)
  BY DEF Refs
<1>4. HeapOK' /\ EarlyOK' /\ LiveOK'
  BY <1>2, <1>3 DEF IInv, HeapOK, EarlyOK, LiveOK
<1>5. Phases'
  BY <1>1, <1>2 DEF Phases
<1> QED BY <1>2, <1>4, <1>5, QuietIInv

\* An object is taken from the free list: it is empty and nothing refers to it.
LEMMA GetIInv ==
  ASSUME IInv, TInv', get_free_object
  PROVE  \E h \in Headers \ Used :
           /\ IInv'
           /\ Used' = Used \cup {h} /\ Roots' = Roots \cup {h}
           /\ Refs(h) = {} /\ \A x \in Headers : Refs(x)' = Refs(x)
<1>t. TypeOK /\ SeqOK /\ HeapOK /\ EarlyOK /\ LiveOK /\ Phases
  BY DEF IInv, TInv
<1>1. PICK h \in free :
        /\ free' = free \ {h}
        /\ ext' = ext \/ ext' = ext \cup {h}
        /\ temps' = Append(temps, h)
  BY DEF get_free_object
<1>2. /\ phase = "alloc" /\ phase' = "alloc" /\ fresh' = fresh
      /\ UNCHANGED <<meta, data, regs, sreg, earlyvars, live, runvars>>
  BY DEF get_free_object
<1>3. h \in Headers \ Used /\ Used' = Used \cup {h}
  BY <1>t, <1>1, <1>2 DEF TypeOK, Used
<1>4. temps' \in Seq(Headers) /\ temps' # <<>> /\ Range(temps') = Range(temps) \cup {h}
  BY <1>t, <1>1, <1>3, RangeAppend DEF SeqOK
<1>5. Roots' = Roots \cup {h}
  BY <1>2, <1>4 DEF Roots, Held
<1>6. Refs(h) = {}
  BY <1>t, <1>3 DEF HeapOK, Refs
<1>7. \A x \in Headers : Refs(x)' = Refs(x)
  BY <1>t, <1>1, <1>2, <1>3 DEF Refs, HeapOK
<1>8. HeapOK'
  <2>1. \A x \in Used' : x \in Headers
    BY DEF Used
  <2>2. \A x \in Used' : Refs(x)' \subseteq Used'
    BY <1>t, <1>3, <1>6, <1>7, <2>1 DEF HeapOK
  <2> QED BY <1>t, <1>2, <1>3, <1>5, <2>2 DEF HeapOK
<1>9. EarlyOK'
  <2>1. \A x \in Used' : Refs(x)' \cap early = {}
    BY <1>t, <1>3, <1>6, <1>7 DEF EarlyOK, Used
  <2>2. h \notin early
    BY <1>t, <1>3 DEF EarlyOK
  <2> QED BY <1>t, <1>2, <1>3, <1>4, <2>1, <2>2 DEF EarlyOK, earlyvars, runvars
<1>10. LiveOK' /\ Phases' /\ ~ Running'
  BY <1>t, <1>2, <1>3, <1>4 DEF LiveOK, Phases, Running, runvars
<1>11. IInv'
  BY <1>8, <1>9, <1>10, QuietIInv
<1> QED BY <1>3, <1>5, <1>6, <1>7, <1>11

\* The op stores what it made: what only the C stack held, registers hold now.
LEMMA MadeIInv ==
  ASSUME IInv, TInv', Made
  PROVE  /\ IInv'
         /\ Used' = Used /\ Roots' \subseteq Roots
         /\ \A x \in Headers : Refs(x)' # Refs(x) =>
              x \in Roots /\ Refs(x)' \subseteq Refs(x) \cup Roots
<1>t. TypeOK /\ SeqOK /\ HeapOK /\ EarlyOK /\ LiveOK /\ Phases
  BY DEF IInv, TInv
<1> DEFINE h == temps[1]
<1>1. /\ phase = "alloc" /\ phase' = "ops" /\ todo = <<>> /\ todo' = <<>> /\ temps' = <<>>
      /\ UNCHANGED <<ext, meta, earlyvars, live, poolvars, runvars>>
      /\ data' = IF Len(temps) = 2 THEN [data EXCEPT ![h] = temps[2]] ELSE data
      /\ \/ h \in Bufs /\ sreg' = h /\ regs' = regs
         \/ h \in Pmcs /\ sreg' = sreg /\ \E r \in Regs : regs' = [regs EXCEPT ![r] = h]
  BY DEF Made
<1>2. h \in Range(temps) /\ (Len(temps) = 2 => temps[2] \in Range(temps))
  <2>1. temps # <<>>
    BY <1>t, <1>1 DEF Phases
  <2>2. h \in Range(temps)
    BY <1>t, <2>1, RangeEmpty DEF SeqOK
  <2>3. ASSUME Len(temps) = 2 PROVE temps[2] \in Range(temps)
    <3>1. Range(temps) = { temps[i] : i \in 1..Len(temps) } /\ 2 \in 1..Len(temps)
      <4>1. temps \in Seq(Headers)
        BY <1>t DEF SeqOK
      <4> QED BY <4>1, <2>3, RangeIs
    <3> QED BY <3>1
  <2> QED BY <2>2, <2>3
<1>3. Range(temps') = {} /\ Range(temps) \subseteq Roots /\ Roots \subseteq Used
  BY <1>t, <1>1, RangeEmpty DEF Roots, HeapOK
<1> HIDE DEF h
<1>4. Used' = Used
  BY <1>1 DEF Used, poolvars
<1>5. Roots' \subseteq Roots
  <2>1. Held' \subseteq Held \cup {h} /\ (sreg' = sreg \/ sreg' = h)
    BY <1>t, <1>1 DEF Held, TypeOK
  <2> QED BY <1>2, <1>3, <2>1 DEF Roots
<1>6. \A x \in Headers : Refs(x)' # Refs(x) => x = h
  BY <1>t, <1>1 DEF Refs, TypeOK
<1>7. \A x \in Headers : Refs(x)' \subseteq Refs(x) \cup Range(temps)
  BY <1>t, <1>1, <1>2 DEF Refs, TypeOK
<1>8. HeapOK'
  <2>1. \A x \in Used : x \in Headers
    BY DEF Used
  <2>2. \A x \in Used : Refs(x)' \subseteq Used
    BY <1>t, <1>3, <1>7, <2>1 DEF HeapOK
  <2>3. \A x \in Pmcs \ Used : meta'[x] = NULL /\ data'[x] = NULL
    BY <1>t, <1>1, <1>2, <1>3 DEF HeapOK, TypeOK
  <2> QED BY <1>3, <1>4, <1>5, <2>2, <2>3 DEF HeapOK
<1>9. EarlyOK'
  <2>1. \A x \in Used : x \in Headers
    BY DEF Used
  <2>2. \A x \in Used : Refs(x)' \cap early = {}
    BY <1>t, <1>7, <2>1 DEF EarlyOK
  <2> QED BY <1>t, <1>1, <1>3, <1>4, <2>2 DEF EarlyOK, earlyvars, runvars
<1>10. LiveOK' /\ Phases' /\ ~ Running'
  BY <1>t, <1>1, <1>4 DEF LiveOK, Phases, Running, runvars
<1>11. IInv'
  BY <1>8, <1>9, <1>10, QuietIInv
<1> QED BY <1>2, <1>3, <1>4, <1>5, <1>6, <1>7, <1>11

\* The ops that allocate, and the ops sweep, keep the invariant.
LEMMA AllocIInv ==
  ASSUME IInv, TInv',
         \/ \E p \in Pools : New(<<p>>) \/ New(<<"pmc", p>>)
         \/ sweep1 \/ sweep0
         \/ get_free_object \/ Made \/ more_traceable_objects \/ MoreAfterRun
  PROVE  IInv'
<1>t. TInv /\ TypeOK /\ SeqOK /\ HeapOK /\ EarlyOK /\ LiveOK /\ Phases
  BY DEF IInv, TInv
<1>1. ASSUME NEW pools, pools # <<>>, New(pools) PROVE IInv'
  <2> USE DEF heapvars, earlyvars, poolvars, runvars
  <2>1. Used' = Used /\ Roots' = Roots /\ ~ Running /\ ~ Running'
    BY <1>1 DEF New, Used, Roots, Held, Running
  <2>2. \A h : Refs(h)' = Refs(h)
    BY <1>1 DEF New, Refs
  <2>3. HeapOK' /\ EarlyOK' /\ LiveOK'
    BY <1>1, <1>t, <2>1, <2>2 DEF New, HeapOK, EarlyOK, LiveOK
  <2>4. Phases'
    BY <1>1, <1>t, <2>1 DEF New, Phases
  <2> QED BY <2>1, <2>3, <2>4, QuietIInv
<1>2. ASSUME NEW p, New(<<p>>) \/ New(<<"pmc", p>>) PROVE IInv'
  <2>1. <<p>> # <<>> /\ <<"pmc", p>> # <<>>
    OBVIOUS
  <2> QED BY <1>1, <1>2, <2>1
<1>3. CASE sweep1 \/ sweep0
  <2>1. PICK lz \in BOOLEAN : StartRun(lz, <<>>)
    BY <1>3 DEF sweep1, sweep0
  <2>2. /\ phase = "ops" /\ temps = <<>> /\ ~ Running /\ <<>> \in Seq(Headers)
        /\ Range(temps) \subseteq Range(<<>>) /\ Range(<<>>) \subseteq Used \cup free
    BY <1>3, <1>t, EmptySeq, RangeEmpty DEF sweep1, sweep0, Phases, Running
  <2> QED BY <2>1, <2>2, StartIInv
<1>4. CASE get_free_object
  BY <1>4, GetIInv
<1>5. CASE Made
  BY <1>5, MadeIInv
<1>6. CASE more_traceable_objects
  <2>1. phase = "alloc" /\ todo # <<>> /\ ~ Running
    BY <1>6 DEF more_traceable_objects, Running
  <2>2. ASSUME NEW ws \in StackWords, StartRun(FALSE, ws) PROVE IInv'
    <3>1. ws \in Seq(Headers)
      BY <1>t, <2>2, RootSeqs
    <3>2. Range(temps) \subseteq Range(ws) /\ Range(ws) \subseteq Used \cup free
      <4>1. Range(temps) \subseteq Used
        BY HeldUsed
      <4>2. ASSUME NEW h \in Headers \ fresh
            PROVE  Range(Append(temps, h)) = Range(temps) \cup {h} /\ h \in Used \cup free
        BY <1>t, RangeAppend DEF SeqOK, Used
      <4> QED BY <2>2, <4>1, <4>2 DEF StackWords
    <3> QED BY <2>1, <2>2, <3>1, <3>2, StartIInv
  <2> QED BY <1>6, <2>1, <2>2, GrowIInv DEF more_traceable_objects
<1>7. CASE MoreAfterRun
  <2>1. phase = "more" /\ todo # <<>> /\ ~ Running
    BY <1>7, <1>t DEF MoreAfterRun, Running, Phases
  <2>2. CASE alloc_objects(Head(todo))
    BY <1>7, <2>1, <2>2, GrowIInv DEF MoreAfterRun
  <2>3. CASE phase' = "alloc" /\ UNCHANGED poolvars
    <3> USE DEF heapvars, earlyvars, poolvars, runvars, taskvars
    <3>1. Used' = Used /\ Roots' = Roots /\ ~ Running'
      BY <1>7, <2>3 DEF MoreAfterRun, Used, Roots, Held, Running
    <3>2. \A h : Refs(h)' = Refs(h)
      BY <1>7 DEF MoreAfterRun, Refs
    <3>3. HeapOK' /\ EarlyOK' /\ LiveOK'
      BY <1>7, <1>t, <2>1, <3>1, <3>2 DEF MoreAfterRun, HeapOK, EarlyOK, LiveOK
    <3>4. Phases'
      BY <1>7, <2>1, <2>3, <3>1 DEF MoreAfterRun, Phases
    <3> QED BY <3>1, <3>3, <3>4, QuietIInv
  <2> QED BY <1>7, <2>2, <2>3 DEF MoreAfterRun
<1> QED BY <1>2, <1>3, <1>4, <1>5, <1>6, <1>7

----------------------------------------------------------------------------
(* Marking.                                                                 *)

\* Calls with nothing to do are for objects that are live or free.
LEMMA NothingDue ==
  ASSUME TInv, Due = {}
  PROVE  Range(pending) \subseteq live \cup free \cup {NULL}
BY RangeIs DEF TInv, SeqOK, Due, OnFreeList

\* Globals is marked first: it is due until it is live.
LEMMA GlobalsDue ==
  ASSUME IInv, Running, Globals \notin live
  PROVE  1 \in Due /\ pending[1] = Globals
<1>1. pending \in Seq(Headers \cup {NULL}) /\ pending # <<>> /\ pending[1] = Globals
  BY DEF IInv, TInv, SeqOK, ListOK
<1>2. Len(pending) \in Nat \ {0} /\ DOMAIN pending = 1..Len(pending)
  BY <1>1, EmptySeq, RangeIs
<1>3. Globals \notin free /\ Globals # NULL
  BY HeldUsed DEF Used
<1> QED BY <1>1, <1>2, <1>3 DEF Due, OnFreeList

\* The edges of the object graph are the references of the used objects.
LEMMA HeapRefsAre ==
  TypeOK => /\ DOMAIN HeapRefs = Headers
            /\ \A h \in Headers : HeapRefs[h] = IF h \in Used THEN Refs(h) ELSE {}
BY ContentsRefs DEF HeapRefs

\* The same after a step.
LEMMA HeapRefsAreNext ==
  TypeOK' => (/\ DOMAIN HeapRefs = Headers
              /\ \A h \in Headers : HeapRefs[h] = IF h \in Used THEN Refs(h) ELSE {})'
BY HeapRefsAre, PTL

\* What a markable object refers to is markable.
LEMMA MarkableRefs ==
  ASSUME IInv, NEW h \in Markable
  PROVE  Refs(h) \subseteq Markable
<1>1. TypeOK /\ h \in Headers
  BY HeapRefsAre DEF IInv, TInv, Markable, Reachable
<1>2. h \in Used => HeapRefs[h] = Refs(h)
  BY <1>1, HeapRefsAre
<1>3. HeapRefs[h] \subseteq Headers
  BY <1>1, HeapRefsAre, ContentsRefs
<1>4. HeapRefs[h] \subseteq Markable
  BY <1>1, <1>3, HeapRefsAre, ReachEdges DEF Markable
<1>5. h \notin Used => Refs(h) = {}
  BY <1>1 DEF IInv, HeapOK, Refs
<1> QED BY <1>2, <1>4, <1>5

\* Steps within a run leave the heap alone.
LEMMA MarkFrame ==
  ASSUME IInv, UNCHANGED <<heapvars, early, num_early, poolvars, lazy, words, taskvars>>
  PROVE  /\ Used' = Used /\ Roots' = Roots /\ Markable' = Markable
         /\ \A h : Refs(h)' = Refs(h) /\ Contents(h)' = Contents(h)
         /\ HeapOK'
<1> USE DEF heapvars, poolvars, taskvars
<1>1. Used' = Used /\ Roots' = Roots
  BY DEF Used, Roots, Held
<1>2. \A h : Refs(h)' = Refs(h) /\ Contents(h)' = Contents(h)
  BY DEF Refs, Contents
<1>3. Markable' = Markable
  BY <1>1, <1>2 DEF Markable, HeapRefs
<1>4. HeapOK'
  BY <1>1, <1>2 DEF IInv, HeapOK
<1> QED BY <1>1, <1>2, <1>3, <1>4

\* The object that is marked next goes to the end of the list if it has
\* children to trace, and nothing is lost from the list.
LEMMA LinkedList ==
  ASSUME IInv, Running, NEW obj \in Pmcs \ live, Globals \notin live => obj = Globals,
         next' = [next EXCEPT ![mark_ptr] = obj, ![obj] = obj],
         mark_ptr' = obj, trace_ptr' = trace_ptr, live' = live \cup {obj}, phase' = phase
  PROVE  ListOK' /\ obj \in ToTrace' /\ ToTrace \subseteq ToTrace'
<1>t. /\ next \in [Pmcs -> Pmcs] /\ trace_ptr \in Pmcs \cup {NULL} /\ mark_ptr \in Pmcs
      /\ next[mark_ptr] = mark_ptr /\ NULL \notin Pmcs /\ Globals \in Pmcs
  BY DodAssumption DEF IInv, TInv, TypeOK, ListOK
<1>l. /\ \A h \in Pmcs \ live : next[h] = h
      /\ \A h \in live \cap Pmcs : next[h] \in live
      /\ trace_ptr # NULL => trace_ptr \in live
      /\ Globals \in live => mark_ptr \in live
      /\ Globals \notin live => mark_ptr = Globals /\ phase = "roots"
      /\ IF Current = trace_ptr THEN trace_ptr = mark_ptr ELSE mark_ptr \in ToTrace
      /\ phase = "roots" => trace_ptr = NULL
  BY DEF IInv, ListOK
<1>1. next[obj] = obj /\ (mark_ptr \in live \/ mark_ptr = obj)
  BY <1>l
<1>2. /\ next' \in [Pmcs -> Pmcs] /\ next'[mark_ptr] = obj /\ next'[obj] = obj
      /\ \A h \in Pmcs : h # mark_ptr /\ h # obj => next'[h] = next[h]
  BY <1>t
<1>3. ASSUME NEW c \in Pmcs, mark_ptr \in ListFrom(next, c)
      PROVE  obj \in ListFrom(next', c) /\ ListFrom(next, c) \subseteq ListFrom(next', c)
  BY <1>t, <1>1, <1>3, ListGrows
<1>4. Current' # trace_ptr /\ obj \in ToTrace' /\ ToTrace \subseteq ToTrace'
  <2>1. CASE trace_ptr = NULL
    <3>1. Current = Globals /\ Current' = Globals /\ Globals # trace_ptr
      BY <1>t, <2>1 DEF Current
    <3>2. ToTrace = ListFrom(next, Globals) /\ ToTrace' = ListFrom(next', Globals)
      BY <3>1 DEF ToTrace, ListFrom
    <3>3. mark_ptr \in ListFrom(next, Globals)
      BY <1>l, <3>1, <3>2
    <3> QED BY <1>t, <1>3, <3>1, <3>2, <3>3
  <2>2. CASE trace_ptr # NULL /\ Current = trace_ptr
    <3>1. trace_ptr = mark_ptr /\ trace_ptr # obj /\ ToTrace = {}
      BY <1>l, <2>2 DEF ToTrace
    <3>2. Current' = obj
      BY <1>2, <2>2, <3>1 DEF Current
    <3>3. ToTrace' = ListFrom(next', obj)
      BY <3>1, <3>2 DEF ToTrace, ListFrom
    <3> QED BY <1>2, <3>1, <3>2, <3>3, ListStart
  <2>3. CASE trace_ptr # NULL /\ Current # trace_ptr
    <3>1. Current = next[trace_ptr] /\ trace_ptr \in Pmcs /\ trace_ptr # obj /\ trace_ptr # mark_ptr
      BY <1>t, <1>l, <2>3 DEF Current
    <3>2. Current' = Current /\ Current \in Pmcs
      BY <1>t, <1>2, <2>3, <3>1 DEF Current
    <3>3. ToTrace = ListFrom(next, Current) /\ ToTrace' = ListFrom(next', Current)
      BY <2>3, <3>2 DEF ToTrace, ListFrom
    <3>4. mark_ptr \in ListFrom(next, Current)
      BY <1>l, <2>3, <3>3
    <3> QED BY <1>3, <2>3, <3>2, <3>3, <3>4
  <2> QED BY <2>1, <2>2, <2>3
<1>5. \A h \in Pmcs \ live' : next'[h] = h
  BY <1>l, <1>1, <1>2
<1>6. \A h \in live' \cap Pmcs : next'[h] \in live'
  BY <1>l, <1>1, <1>2
<1>7. Globals \in live'
  BY <1>l
<1>8. ListOK'
  BY <1>l, <1>2, <1>4, <1>5, <1>6, <1>7 DEF ListOK
<1> QED BY <1>4, <1>8

\* A call of pobject_lives marks an object that is in use, and queues or calls
\* what it refers to.
LEMMA LivesIInv ==
  ASSUME IInv, TInv', pobject_lives
  PROVE  IInv' /\ phase' = phase /\ Running
<1>t. TInv /\ TypeOK /\ HeapOK /\ EarlyOK /\ LiveOK /\ ListOK /\ MarkInvariant /\ RunOK
  BY DEF IInv, TInv
<1> DEFINE i == Min(Due)
           obj == pending[i]
           rest == SubSeq(pending, i + 1, Len(pending))
<1>1. /\ obj \in Range(pending) /\ obj \in Headers /\ obj \notin live \cup free
      /\ rest \in Seq(Headers \cup {NULL}) /\ Range(rest) \subseteq Range(pending)
      /\ Range(pending) \subseteq Range(rest) \cup {obj} \cup live \cup free \cup {NULL}
      /\ 1 \in Due => i = 1
  BY <1>t, FirstDue DEF pobject_lives
<1>2. live' = live \cup {obj} /\ mark_special(obj, rest)
  BY DEF pobject_lives
<1>3. /\ Running /\ phase' = phase /\ trace_ptr' = trace_ptr
      /\ UNCHANGED <<heapvars, early, num_early, poolvars, lazy, words, taskvars>>
  BY DEF pobject_lives, Running
<1>4. Globals \notin live => obj = Globals
  BY <1>1, <1>3, GlobalsDue
<1> HIDE DEF i, obj, rest
<1>5. /\ Used' = Used /\ Roots' = Roots /\ Markable' = Markable
      /\ \A h : Refs(h)' = Refs(h) /\ Contents(h)' = Contents(h)
      /\ HeapOK'
  BY <1>3, MarkFrame
<1>6. obj \in Used /\ obj \in Markable /\ NULL \notin Used /\ free \cap Used = {} /\ obj # NULL
  <2>1. NULL \notin Headers
    BY DodAssumption DEF Headers
  <2>2. /\ Range(pending) \subseteq Used \cup free \cup {NULL}
        /\ Range(pending) \cap Used \subseteq Markable
    BY <1>t, <1>3 DEF RunOK
  <2>3. obj \in Used /\ obj \in Markable /\ obj # NULL
    BY <1>1, <2>1, <2>2
  <2> QED BY <2>3, HeldUsed
<1>7. ~ (obj \in hi /\ trace_ptr # NULL)
  BY <1>t, <1>1 DEF EarlyOK
<1>8. /\ seen' = (IF obj \in early THEN seen + 1 ELSE seen) /\ hi' = hi
      /\ \/ /\ obj \in ext /\ pending' = rest /\ mark_ptr' = obj
            /\ next' = [next EXCEPT ![mark_ptr] = obj, ![obj] = obj]
         \/ obj \notin ext /\ pending' = Contents(obj) \o rest /\ UNCHANGED <<next, mark_ptr>>
  BY <1>t, <1>2, <1>7 DEF mark_special, Linked, NeedsEarly, EarlyOK
<1>9. Contents(obj) \in Seq(Headers) /\ Range(Contents(obj)) = Refs(obj)
  BY <1>t, <1>1, ContentsRefs
<1>10. Range(pending') = Range(rest) \cup (IF obj \in ext THEN {} ELSE Refs(obj))
  <2>1. CASE obj \in ext
    BY <1>8, <2>1
  <2>2. CASE obj \notin ext
    <3>1. Contents(obj) \in Seq(Headers \cup {NULL})
      BY <1>9, SeqMonotonic
    <3>2. Range(Contents(obj) \o rest) = Range(Contents(obj)) \cup Range(rest)
      BY <1>1, <3>1, RangeConcat
    <3> QED BY <1>8, <1>9, <2>2, <3>2
  <2> QED BY <2>1, <2>2
<1>11. ListOK' /\ (obj \in ext => obj \in ToTrace') /\ ToTrace \subseteq ToTrace'
  <2>1. CASE obj \in ext
    <3>1. obj \in Pmcs \ live
      BY <1>t, <1>1, <2>1 DEF TypeOK
    <3> QED BY <1>2, <1>3, <1>4, <1>8, <2>1, <3>1, LinkedList
  <2>2. CASE obj \notin ext
    <3>1. Current' = Current /\ ToTrace' = ToTrace
      BY <1>3, <1>8, <2>2 DEF Current, ToTrace
    <3>2. Globals \in live' /\ mark_ptr \in live'
      BY <1>t, <1>2, <1>3, <1>4 DEF ListOK
    <3>3. \A h \in live' \cap Pmcs : next[h] \in live'
      BY <1>t, <1>1, <1>2, <1>3 DEF ListOK
    <3> QED BY <1>t, <1>2, <1>3, <1>8, <2>2, <3>1, <3>2, <3>3 DEF ListOK, Running
  <2> QED BY <2>1, <2>2
\* nothing that was to be marked is forgotten
<1>12. \A h \in Used : h \in live \cup Range(pending) => h \in live' \cup Range(pending')
  BY <1>1, <1>2, <1>6, <1>10
<1>13. MarkInvariant'
  <2>1. Roots' \ {sreg'} \subseteq live' \cup Range(pending')
                               \cup (IF phase' = "roots" THEN Range(words') ELSE {})
    <3>1. Roots \ {sreg} \subseteq live \cup Range(pending)
                               \cup (IF phase = "roots" THEN Range(words) ELSE {})
      BY <1>t, <1>3 DEF MarkInvariant, Running
    <3>2. sreg' = sreg /\ words' = words /\ Roots \subseteq Used
      BY <1>t, <1>3 DEF heapvars, HeapOK
    <3> QED BY <1>3, <1>5, <1>12, <3>1, <3>2
  <2>2. ASSUME NEW h \in live' \cap Pmcs, h \notin ToTrace'
        PROVE  Range(Contents(h)) \subseteq live' \cup Range(pending')
    <3>1. CASE h = obj
      BY <1>9, <1>10, <1>11, <2>2, <3>1
    <3>2. CASE h # obj
      <4>1. h \in live \cap Pmcs /\ h \notin ToTrace
        BY <1>2, <1>11, <2>2, <3>2
      <4>2. Range(Contents(h)) \subseteq live \cup Range(pending)
        BY <1>t, <1>3, <4>1 DEF MarkInvariant, Running
      <4>3. h \in Used /\ h \in Headers
        BY <1>t, <4>1 DEF LiveOK, Used
      <4>4. Range(Contents(h)) \subseteq Used
        BY <1>t, <4>3, ContentsRefs DEF HeapOK
      <4> QED BY <1>12, <4>2, <4>4
    <3> QED BY <3>1, <3>2
  <2>3. \A h : Contents(h)' = Contents(h)
    BY <1>5
  <2> QED BY <2>1, <2>2, <2>3 DEF MarkInvariant
<1>14. EarlyOK'
  <2>1. Refs(obj) \cap early = {}
    BY <1>t, <1>6 DEF EarlyOK
  <2>2. temps' = temps /\ early' = early /\ num_early' = num_early
    BY <1>3 DEF taskvars
  <2>3. trace_ptr' # NULL => Range(pending') \cap early = {}
    BY <1>t, <1>1, <1>3, <1>10, <2>1 DEF EarlyOK
  <2> QED BY <1>t, <1>5, <1>8, <2>2, <2>3 DEF EarlyOK
<1>15. LiveOK' /\ Phases'
  BY <1>t, <1>2, <1>3, <1>5, <1>6 DEF IInv, LiveOK, Phases, Running, taskvars
<1>16. RunOK'
  <2>1. Refs(obj) \subseteq Used /\ Refs(obj) \subseteq Markable
    BY <1>t, <1>6, MarkableRefs DEF HeapOK
  <2>2. /\ Range(pending) \cup Range(words) \subseteq Used \cup free \cup {NULL}
        /\ (live \cap Pmcs) \cup (Range(pending) \cap Used) \subseteq Markable
        /\ lazy => words = <<>>
        /\ seen = Cardinality(live \cap early)
    BY <1>t, <1>3 DEF RunOK
  <2>3. Range(pending') \subseteq Used \cup free \cup {NULL}
    BY <1>1, <1>10, <2>1, <2>2
  <2>4. (live' \cap Pmcs) \cup (Range(pending') \cap Used) \subseteq Markable
    BY <1>1, <1>2, <1>6, <1>10, <2>1, <2>2
  <2>5. seen' = Cardinality(live' \cap early)
    <3>1. IsFiniteSet(live \cap early)
      BY HeldUsed, FS_Intersection
    <3>2. CASE obj \in early
      <4>1. live' \cap early = (live \cap early) \cup {obj} /\ obj \notin live \cap early
        BY <1>1, <1>2, <3>2
      <4> QED BY <1>8, <2>2, <3>1, <3>2, <4>1, FS_AddElement
    <3>3. CASE obj \notin early
      <4>1. live' \cap early = live \cap early
        BY <1>2, <3>3
      <4> QED BY <1>8, <2>2, <3>3, <4>1
    <3> QED BY <3>2, <3>3
  <2>6. words' = words /\ lazy' = lazy /\ free' = free /\ early' = early
    BY <1>3 DEF poolvars
  <2> QED BY <1>5, <2>2, <2>3, <2>4, <2>5, <2>6 DEF RunOK
<1> QED BY <1>3, <1>5, <1>11, <1>13, <1>14, <1>15, <1>16 DEF IInv

\* What was to be marked is marked when nothing is due any more.
LEMMA AllMarked ==
  ASSUME IInv, Running, Due = {}
  PROVE  /\ \A h \in Used : h \in live \cup Range(pending) => h \in live
         /\ Globals \in live
         /\ Roots \ {sreg} \subseteq live \cup (IF phase = "roots" THEN Range(words) ELSE {})
         /\ \A h \in live \cap Pmcs : h \in ToTrace \/ Refs(h) \subseteq live
<1>t. TInv /\ TypeOK /\ HeapOK /\ LiveOK /\ MarkInvariant
  BY DEF IInv, TInv
<1>1. \A h \in Used : h \in live \cup Range(pending) => h \in live
  BY <1>t, NothingDue, HeldUsed
<1>2. Globals \in live
  BY GlobalsDue
<1>3. Roots \ {sreg} \subseteq live \cup (IF phase = "roots" THEN Range(words) ELSE {})
  BY <1>t, <1>1 DEF MarkInvariant, Running, HeapOK
<1>4. ASSUME NEW h \in live \cap Pmcs, h \notin ToTrace PROVE Refs(h) \subseteq live
  <2>1. h \in Headers /\ h \in Used
    BY <1>t DEF TypeOK, LiveOK
  <2>2. Refs(h) \subseteq live \cup Range(pending)
    BY <1>t, <1>4, <2>1, ContentsRefs DEF MarkInvariant, Running
  <2>3. Refs(h) \subseteq Used
    BY <1>t, <2>1 DEF HeapOK
  <2> QED BY <1>1, <2>2, <2>3
<1> QED BY <1>1, <1>2, <1>3, <1>4

\* The walk of the C stack begins.
LEMMA StackWalkIInv ==
  ASSUME IInv, TInv', phase = "roots", Due = {},
         pending' = words, phase' = "trace",
         UNCHANGED <<heapvars, earlyvars, live, poolvars, lazy, words,
                     seen, trace_ptr, mark_ptr, next, taskvars>>
  PROVE  IInv'
<1>t. TInv /\ TypeOK /\ HeapOK /\ EarlyOK /\ LiveOK /\ ListOK /\ RunOK
  BY DEF IInv, TInv
<1>1. Running /\ Running' /\ early' = early /\ hi' = hi /\ num_early' = num_early
      /\ temps' = temps /\ todo' = todo /\ sreg' = sreg /\ free' = free
  BY DEF Running, earlyvars, taskvars, heapvars, poolvars
<1>2. /\ Used' = Used /\ Roots' = Roots /\ Markable' = Markable
      /\ \A h : Refs(h)' = Refs(h) /\ Contents(h)' = Contents(h)
      /\ HeapOK'
  BY <1>1, MarkFrame
<1>3. trace_ptr = NULL /\ Globals \in live
  BY <1>t, <1>1, AllMarked DEF ListOK
<1>4. Current' = Current /\ ToTrace' = ToTrace
  BY DEF Current, ToTrace
<1>5. EarlyOK' /\ LiveOK' /\ Phases'
  BY <1>t, <1>1, <1>2, <1>3 DEF IInv, EarlyOK, LiveOK, Phases, Running
<1>6. ListOK'
  BY <1>t, <1>1, <1>3, <1>4 DEF ListOK
<1>7. MarkInvariant'
  <2>1. Roots \ {sreg} \subseteq live \cup Range(words)
    BY <1>1, AllMarked
  <2>2. ASSUME NEW h \in live \cap Pmcs
        PROVE  h \in ToTrace \/ Range(Contents(h)) \subseteq live
    <3>1. h \in Headers
      BY <1>t DEF TypeOK
    <3> QED BY <1>t, <1>1, <3>1, AllMarked, ContentsRefs
  <2>3. \A h : Contents(h)' = Contents(h)
    BY <1>2
  <2> QED BY <1>1, <1>2, <1>4, <2>1, <2>2, <2>3 DEF MarkInvariant
<1>8. RunOK'
  <2>1. Range(words) \cap Used \subseteq Markable
    <3> DEFINE R == Roots \cup (Range(words) \cap Used)
    <3>1. R \subseteq DOMAIN HeapRefs
      BY <1>t DEF HeapRefs, HeapOK, Used
    <3> HIDE DEF R
    <3>2. R \subseteq Reachable(HeapRefs, R)
      BY <3>1, ReachRoots
    <3> QED BY <3>2 DEF R, Markable
  <2> QED BY <1>t, <1>1, <1>2, <2>1 DEF RunOK
<1> QED BY <1>2, <1>5, <1>6, <1>7, <1>8 DEF IInv

\* The next object of the list is traced.
LEMMA TraceIInv ==
  ASSUME IInv, TInv', phase = "trace", Due = {}, Current # trace_ptr,
         trace_ptr' = Current, pending' = Contents(Current),
         UNCHANGED <<heapvars, earlyvars, live, poolvars, phase, lazy,
                     words, seen, mark_ptr, next, taskvars>>
  PROVE  IInv'
<1>t. TInv /\ TypeOK /\ HeapOK /\ EarlyOK /\ LiveOK /\ ListOK /\ RunOK
  BY DEF IInv, TInv
<1>1. Running /\ Running' /\ early' = early /\ hi' = hi /\ num_early' = num_early
      /\ temps' = temps /\ todo' = todo /\ sreg' = sreg /\ free' = free
  BY DEF Running, earlyvars, taskvars, heapvars, poolvars
<1>2. /\ Used' = Used /\ Roots' = Roots /\ Markable' = Markable
      /\ \A h : Refs(h)' = Refs(h) /\ Contents(h)' = Contents(h)
      /\ HeapOK'
  BY <1>1, MarkFrame
<1>3. /\ next \in [Pmcs -> Pmcs] /\ mark_ptr \in Pmcs /\ next[mark_ptr] = mark_ptr
      /\ Current \in Pmcs /\ Current \in live /\ NULL \notin Pmcs
  <2>1. Globals \in live /\ Globals \in Pmcs /\ NULL \notin Pmcs
    BY <1>1, AllMarked, DodAssumption
  <2>2. trace_ptr # NULL => trace_ptr \in live \cap Pmcs
    BY <1>t, <1>1 DEF ListOK, TypeOK
  <2>3. next \in [Pmcs -> Pmcs] /\ \A h \in live \cap Pmcs : next[h] \in live
    BY <1>t, <1>1 DEF ListOK, TypeOK
  <2> QED BY <1>t, <1>1, <2>1, <2>2, <2>3 DEF Current, ListOK
<1>4. mark_ptr \in ListFrom(next, Current) /\ ToTrace = ListFrom(next, Current)
  BY <1>t, <1>1 DEF ListOK, ToTrace, ListFrom
<1>5. /\ Current' = next[Current]
      /\ ToTrace' = IF next[Current] = Current THEN {} ELSE ListFrom(next, next[Current])
  <2>1. Current # NULL /\ next' = next
    BY <1>3
  <2>2. Current' = next[Current]
    BY <2>1 DEF Current
  <2> QED BY <2>1, <2>2 DEF ToTrace, ListFrom
<1>6. ToTrace \subseteq {Current} \cup ToTrace'
  BY <1>3, <1>4, <1>5, ListRest
<1>7. IF Current' = trace_ptr' THEN trace_ptr' = mark_ptr' ELSE mark_ptr' \in ToTrace'
  BY <1>3, <1>4, <1>5, <1>6
<1>8. ListOK'
  BY <1>t, <1>1, <1>3, <1>7, AllMarked DEF ListOK
<1>9. Range(pending') = Refs(Current) /\ Current \in Used
  BY <1>t, <1>3, ContentsRefs DEF Headers, LiveOK
<1>10. MarkInvariant'
  <2>1. Roots \ {sreg} \subseteq live
    BY <1>1, AllMarked
  <2>2. ASSUME NEW h \in live \cap Pmcs
        PROVE  h \in ToTrace' \/ Range(Contents(h)) \subseteq live \cup Range(pending')
    <3>1. h \in Headers
      BY <1>t DEF TypeOK
    <3>2. Range(Contents(h)) = Refs(h)
      BY <1>t, <3>1, ContentsRefs
    <3> QED BY <1>1, <1>6, <1>9, <3>2, AllMarked
  <2>3. \A h : Contents(h)' = Contents(h)
    BY <1>2
  <2> QED BY <1>1, <1>2, <2>1, <2>2, <2>3 DEF MarkInvariant
<1>11. EarlyOK' /\ LiveOK' /\ Phases'
  BY <1>t, <1>1, <1>2, <1>9 DEF IInv, EarlyOK, LiveOK, Phases, Running
<1>12. RunOK'
  <2>1. Current \in Markable
    BY <1>t, <1>1, <1>3 DEF RunOK
  <2>2. Refs(Current) \subseteq Markable /\ Refs(Current) \subseteq Used
    BY <1>t, <1>9, <2>1, MarkableRefs DEF HeapOK
  <2> QED BY <1>t, <1>1, <1>2, <1>9, <2>2 DEF RunOK
<1> QED BY <1>2, <1>8, <1>10, <1>11, <1>12 DEF IInv

\* A lazy run stops early: the live bits of the PMCs are cleared.
LEMMA AbortIInv ==
  ASSUME IInv, TInv', Running, AbortRun
  PROVE  IInv' /\ Used' = Used /\ Roots' = Roots /\ \A h : Refs(h)' = Refs(h)
<1> USE DEF AbortRun, EndRun, earlyvars, poolvars, taskvars
<1>1. Used' = Used /\ Roots' = Roots
  BY DEF Used, Roots, Held
<1>2. \A h : Refs(h)' = Refs(h)
  BY DEF Refs
<1>3. HeapOK' /\ EarlyOK'
  BY <1>1, <1>2 DEF IInv, HeapOK, EarlyOK
<1>4. LiveOK' /\ Phases' /\ ~ Running'
  BY <1>1 DEF IInv, LiveOK, Phases, Running, clear_live_bits
<1>5. IInv'
  BY <1>3, <1>4, QuietIInv
<1> QED BY <1>1, <1>2, <1>5

----------------------------------------------------------------------------
(* The sweep.                                                               *)

\* When marking is complete, what is not dead holds the roots and refers to
\* nothing dead: all in reach is kept.
LEMMA SweepKeeps ==
  ASSUME IInv, MarkDone
  PROVE  /\ Roots \subseteq Used \ Dead
         /\ \A h \in Used \ Dead : Refs(h) \subseteq Used \ Dead
         /\ Dead \cap Reachable(HeapRefs, Roots) = {}
         /\ (Used \ Dead) \cap Pmcs = live \cap Pmcs
<1>t. TypeOK /\ HeapOK /\ LiveOK
  BY DEF IInv, TInv
<1>1. Running /\ ToTrace = {} /\ Due = {} /\ phase = "trace"
  BY DEF MarkDone, Running, ToTrace
<1>2. Used \ Dead = live \cup (({sreg} \ {NULL}) \cap Used)
  BY <1>t DEF Dead, trace_active_buffers, LiveOK
<1>3. sreg # NULL => sreg \in Used /\ sreg \notin Pmcs
  BY <1>t, HeldUsed, DodAssumption DEF TypeOK
<1>4. Roots \subseteq Used \ Dead
  <2>1. Roots \ {sreg} \subseteq live
    BY <1>1, AllMarked
  <2>2. NULL \notin Roots
    BY <1>t, HeldUsed DEF HeapOK
  <2> QED BY <1>2, <1>3, <2>1, <2>2
<1>5. (Used \ Dead) \cap Pmcs = live \cap Pmcs
  BY <1>2, <1>3
<1>6. \A h \in Used \ Dead : Refs(h) \subseteq Used \ Dead
  <2>1. \A h \in live \cap Pmcs : Refs(h) \subseteq live
    BY <1>1, AllMarked
  <2>2. \A h : h \notin Pmcs => Refs(h) = {}
    BY DEF Refs
  <2> QED BY <1>2, <1>5, <2>1, <2>2
<1>7. Reachable(HeapRefs, Roots) \subseteq Used \ Dead
  <2> DEFINE S == Used \ Dead
  <2>1. S \in SUBSET DOMAIN HeapRefs
    BY DEF HeapRefs, Used
  <2>2. ClosedUnder(HeapRefs, S)
    BY <1>t, <1>6, HeapRefsAre DEF ClosedUnder, Used
  <2> HIDE DEF S
  <2>3. Roots \subseteq S
    BY <1>4 DEF S
  <2>4. Reachable(HeapRefs, Roots) \subseteq S
    BY <2>1, <2>2, <2>3, ReachLeast
  <2> QED BY <2>4 DEF S
<1> QED BY <1>4, <1>5, <1>6, <1>7

\* The counter of the objects that need early DOD does not fall below their
\* number, nor below 0, when dead ones are freed.
LEMMA SweepCount ==
  ASSUME IInv, num_early' = (num_early - EarlyFreed) % UintMod,
         early' = early \ (Dead \cap Pmcs)
  PROVE  num_early' >= Cardinality(early')
<1>t. TypeOK /\ EarlyOK
  BY DEF IInv, TInv
<1> DEFINE gone == early \cap (Dead \cap Pmcs)
<1>1. EarlyFreed = Cardinality(gone)
  <2>1. { h \in Dead \cap Pmcs : NeedsEarly(h) } = gone
    BY <1>t DEF NeedsEarly, EarlyOK
  <2> QED BY <2>1 DEF EarlyFreed
<1>2. IsFiniteSet(early) /\ Cardinality(early) \in Nat
  BY HeldUsed
<1>3. Cardinality(early') = Cardinality(early) - Cardinality(gone)
  BY <1>2, FS_Difference
<1>4. Cardinality(gone) \in Nat /\ Cardinality(gone) <= Cardinality(early)
  <2>1. IsFiniteSet(gone) /\ Cardinality(gone) <= Cardinality(early)
    BY <1>2, FS_Intersection
  <2> QED BY <2>1, FS_CardinalityType
<1>5. num_early \in 0..(UintMod - 1) /\ num_early >= Cardinality(early) /\ UintMod \in Nat
  BY <1>t, DodAssumption DEF TypeOK, EarlyOK
<1> DEFINE n == num_early - EarlyFreed
<1>6. n \in 0..(UintMod - 1) /\ n >= Cardinality(early')
  <2> HIDE DEF gone
  <2> QED BY <1>1, <1>2, <1>3, <1>4, <1>5
<1>7. num_early' = n
  <2>1. num_early' = n % UintMod
    OBVIOUS
  <2> HIDE DEF n
  <2>2. n % UintMod = n
    BY <1>5, <1>6
  <2> QED BY <2>1, <2>2
<1> QED BY <1>6, <1>7

\* The sweep keeps the invariant.
LEMMA SweepIInv ==
  ASSUME IInv, TInv', free_unused_pobjects
  PROVE  /\ IInv' /\ MarkDone
         /\ Used' = Used \ Dead /\ Roots' = Roots
         /\ \A h \in Used \ Dead : Refs(h)' = Refs(h)
<1>t. TInv /\ TypeOK /\ HeapOK /\ EarlyOK /\ LiveOK /\ Phases
  BY DEF IInv, TInv
<1>1. MarkDone /\ Running
  BY DEF free_unused_pobjects, MarkDone, Running
<1>2. /\ Roots \subseteq Used \ Dead
      /\ \A h \in Used \ Dead : Refs(h) \subseteq Used \ Dead
  BY <1>1, SweepKeeps
<1>3. /\ free' = free \cup Dead /\ fresh' = fresh /\ live' = {}
      /\ early' = early \ (Dead \cap Pmcs) /\ hi' = hi \ (Dead \cap Pmcs)
      /\ ext' = ext \ (Dead \cap Pmcs)
      /\ meta' = [h \in Pmcs |-> IF h \in Dead \cap Pmcs THEN NULL ELSE meta[h]]
      /\ data' = [h \in Pmcs |-> IF h \in Dead \cap Pmcs THEN NULL ELSE data[h]]
      /\ num_early' = (num_early - EarlyFreed) % UintMod
      /\ EndRun
  BY DEF free_unused_pobjects
<1>4. Used' = Used \ Dead /\ Dead \subseteq Used
  BY <1>3 DEF Used, Dead
<1>5. Roots' = Roots
  BY <1>3 DEF EndRun, taskvars, Roots, Held
<1>6. \A h \in Used \ Dead : Refs(h)' = Refs(h)
  BY <1>3 DEF Refs
<1>7. HeapOK'
  <2>1. \A h \in Pmcs \ Used' : meta'[h] = NULL /\ data'[h] = NULL
    BY <1>t, <1>3, <1>4 DEF HeapOK
  <2> QED BY <1>2, <1>4, <1>5, <1>6, <2>1 DEF HeapOK
<1>8. EarlyOK'
  <2>1. num_early' >= Cardinality(early')
    BY <1>3, SweepCount
  <2>2. temps' = temps /\ trace_ptr' = NULL
    BY <1>3 DEF EndRun, taskvars
  <2>3. hi' = early' /\ early' \subseteq Used'
    BY <1>t, <1>3, <1>4 DEF EarlyOK, TypeOK
  <2>4. \A h \in Used' : Refs(h)' \cap early' = {}
    BY <1>t, <1>3, <1>4, <1>6 DEF EarlyOK
  <2>5. Range(temps') \cap early' = {}
    BY <1>t, <1>3, <2>2 DEF EarlyOK
  <2> QED BY <2>1, <2>2, <2>3, <2>4, <2>5 DEF EarlyOK
<1>9. LiveOK' /\ Phases' /\ ~ Running'
  BY <1>t, <1>1, <1>3 DEF EndRun, taskvars, LiveOK, Phases, Running
<1>10. IInv'
  BY <1>7, <1>8, <1>9, QuietIInv
<1> QED BY <1>1, <1>4, <1>5, <1>6, <1>10

----------------------------------------------------------------------------
(* The theorems.                                                            *)

\* Initially the invariant holds.
LEMMA InitIInv == Init => IInv
<1> SUFFICES ASSUME Init PROVE IInv
  OBVIOUS
<1> USE DodAssumption
<1>1. TInv
  BY InitTInv
<1>2. ~ Running /\ Phases
  BY DEF Init, Running, Phases
<1>3. Used = {Globals}
  BY DEF Init, Used, Headers, kSubset
<1>4. Roots = {Globals}
  BY RangeEmpty DEF Init, Roots, Held
<1>5. HeapOK
  BY <1>3, <1>4 DEF Init, HeapOK, Refs
<1>6. EarlyOK
  BY RangeEmpty, FS_EmptySet DEF Init, EarlyOK
<1>7. LiveOK
  BY DEF Init, LiveOK
<1> QED BY <1>1, <1>2, <1>5, <1>6, <1>7 DEF IInv, ListOK, MarkInvariant, RunOK, Running

\* A step keeps the invariant.
LEMMA NextIInv == EarlyNested = FALSE => (IInv /\ [Next]_vars => IInv')
<1> SUFFICES ASSUME EarlyNested = FALSE, IInv, [Next]_vars PROVE IInv'
  OBVIOUS
<1>1. TInv'
  BY NextTInv DEF IInv
<1>2. CASE CollectorStep
  <2>1. CASE pobject_lives
    BY <1>1, <2>1, LivesIInv
  <2>2. CASE RootsDone
    BY <1>1, <2>2, StackWalkIInv, AbortIInv DEF RootsDone, Running
  <2>3. CASE trace_children
    BY <1>1, <2>3, TraceIInv, AbortIInv DEF trace_children, Running
  <2>4. CASE free_unused_pobjects
    BY <1>1, <2>4, SweepIInv
  <2> QED BY <1>2, <2>1, <2>2, <2>3, <2>4 DEF CollectorStep
<1>3. CASE UNCHANGED vars
  <2> USE <1>3 DEF vars, heapvars, earlyvars, poolvars, runvars, taskvars
  <2>1. /\ Used' = Used /\ Roots' = Roots /\ Markable' = Markable
        /\ \A h : Refs(h)' = Refs(h) /\ Contents(h)' = Contents(h)
        /\ HeapOK'
    BY MarkFrame
  <2>2. Running' = Running /\ Current' = Current /\ ToTrace' = ToTrace
    BY DEF Running, Current, ToTrace
  <2>3. Phases' /\ EarlyOK' /\ LiveOK' /\ ListOK' /\ RunOK'
    BY <2>1, <2>2 DEF IInv, Phases, EarlyOK, LiveOK, ListOK, RunOK
  <2>4. MarkInvariant'
    BY <2>1, <2>2 DEF IInv, MarkInvariant
  <2> QED BY <1>1, <2>1, <2>3, <2>4 DEF IInv
<1> QED BY <1>1, <1>2, <1>3, OpsIInv, AllocIInv DEF Next, Panicked

\* The inductive invariant holds for the programs that keep objects with timely
\* destruction out of containers. (For the others it does not hold: mark_ptr
\* stays where it is when such an object is put behind the last one of the
\* list, and what is linked next overwrites it, as the run Dod_early shows.)
THEOREM Invariance == ASSUME EarlyNested = FALSE PROVE Spec => []IInv
<1>1. IInv /\ [Next]_vars => IInv'
  BY NextIInv
<1> QED BY <1>1, InitIInv, PTL DEF Spec

\* While a run marks, no object that is in use is lost from the list of the
\* objects to trace (trace_children, mark_special and pobject_lives).
THEOREM MarksAll == ASSUME EarlyNested = FALSE PROVE Spec => []MarkInvariant
<1>1. IInv => MarkInvariant
  BY DEF IInv
<1> QED BY <1>1, Invariance, PTL

\* num_early_DOD_PMCs covers the objects that need early DOD: needs_destroy
\* counts an object each time it is called, the sweep once, and the counter
\* does not wrap.
THEOREM CounterCovers == ASSUME EarlyNested = FALSE PROVE Spec => []EarlyCounted
<1>1. IInv => EarlyCounted
  <2> SUFFICES ASSUME IInv PROVE EarlyCounted
    OBVIOUS
  <2>1. early \cap Used = early /\ num_early >= Cardinality(early)
    BY DEF IInv, EarlyOK
  <2> QED BY <2>1 DEF EarlyCounted
<1> QED BY <1>1, Invariance, PTL

\* Nothing that the program can reach is ever on a free list.
LEMMA ReachUsed == IInv => ReachableKept
<1> SUFFICES ASSUME IInv PROVE ReachableKept
  OBVIOUS
<1>t. TypeOK /\ HeapOK
  BY DEF IInv, TInv
<1>1. Used \in SUBSET DOMAIN HeapRefs
  BY DEF HeapRefs, Used
<1>2. ClosedUnder(HeapRefs, Used)
  BY <1>t, HeapRefsAre DEF ClosedUnder, HeapOK, Used
<1>3. Roots \subseteq Used
  BY <1>t DEF HeapOK
<1> QED BY <1>1, <1>2, <1>3, ReachLeast DEF ReachableKept

\* Nothing that the program can reach from its registers, its globals or the C
\* stack is put onto a free list, if no object with timely destruction is put
\* into a container.
THEOREM NothingLost == ASSUME EarlyNested = FALSE PROVE Spec => []ReachableKept
BY Invariance, ReachUsed, PTL

\* Only the steps of the collector are taken within a run.
LEMMA RunSteps ==
  ASSUME Running, [Next]_vars
  PROVE  CollectorStep \/ UNCHANGED vars
BY DEF Running, Next, StorePmc, StoreString, Load, NullRegister, needs_destroy, New,
       NullString, sweep1, sweep0, get_free_object, Made, more_traceable_objects,
       MoreAfterRun, Panicked

\* When a sweep is done, every PMC that is still used can be reached.
LEMMA SweepExact ==
  ASSUME IInv, TInv', free_unused_pobjects
  PROVE  Used' \cap Pmcs \subseteq Markable
<1>1. MarkDone /\ Used' = Used \ Dead
  BY SweepIInv
<1>2. Used' \cap Pmcs = live \cap Pmcs /\ Running
  BY <1>1, SweepKeeps DEF MarkDone, Running
<1> QED BY <1>2 DEF IInv, RunOK

\* A run that is not aborted leaves no PMC that cannot be reached, from the
\* roots or from a word of the C stack.
THEOREM FreesAll == ASSUME EarlyNested = FALSE PROVE Spec => SweepPrecise
<1> DEFINE A == MarkDone /\ phase' # "trace" =>
                  Used' \cap Pmcs \subseteq Reachable(HeapRefs, Roots \cup (Range(words) \cap Used))
<1>1. IInv /\ [Next]_vars => [A]_vars
  <2> SUFFICES ASSUME IInv, [Next]_vars, MarkDone, phase' # "trace"
               PROVE  Used' \cap Pmcs \subseteq Markable
    BY DEF Markable
  <2>1. TInv' /\ phase = "trace" /\ Running
    BY NextTInv DEF IInv, MarkDone, Running
  <2>2. CollectorStep
    BY <2>1, RunSteps DEF vars
  <2>3. free_unused_pobjects
    BY <2>2 DEF CollectorStep, MarkDone, pobject_lives, RootsDone, trace_children
  <2> QED BY <2>1, <2>3, SweepExact
<1>2. Spec => []IInv
  BY Invariance
<1> QED BY <1>1, <1>2, PTL DEF Spec, SweepPrecise

\* A lazy run that stops has seen all the objects that need early DOD: all of
\* them are in reach.
LEMMA AllSeenInReach ==
  ASSUME IInv, Running, AllSeen
  PROVE  early \subseteq Reachable(HeapRefs, Roots)
<1>t. TypeOK /\ EarlyOK /\ RunOK
  BY DEF IInv, TInv
<1>1. seen >= num_early /\ num_early >= Cardinality(early) /\ seen = Cardinality(live \cap early)
  BY <1>t DEF AllSeen, EarlyOK, RunOK
<1>2. /\ IsFiniteSet(early) /\ Cardinality(early) \in Nat /\ num_early \in Nat
      /\ Cardinality(live \cap early) <= Cardinality(early) /\ seen \in Nat
  BY <1>t, HeldUsed, FS_Intersection DEF TypeOK
<1>3. Cardinality(early) = Cardinality(live \cap early)
  BY <1>1, <1>2
<1>4. live \cap early = early
  BY <1>2, <1>3, FS_Subset
<1>5. early \subseteq Markable
  BY <1>t, <1>4 DEF RunOK, TypeOK
<1>6. words = <<>> /\ Range(words) = {}
  BY <1>t, RangeEmpty DEF AllSeen, RunOK
<1>7. Roots \cup (Range(words) \cap Used) = Roots
  BY <1>6
<1> QED BY <1>5, <1>7 DEF Markable

\* A lazy sweep ends, aborted or not, with every PMC that needs early DOD in
\* reach: those that are not have been destroyed.
THEOREM DestroysInTime == ASSUME EarlyNested = FALSE PROVE Spec => Timely
<1> DEFINE A == lazy /\ phase' = "ops" => Used' \cap early' \subseteq Reachable(HeapRefs, Roots)
<1>1. IInv /\ [Next]_vars => [A]_vars
  <2> SUFFICES ASSUME IInv, [Next]_vars, lazy, phase' = "ops"
               PROVE  Used' \cap early' \subseteq Reachable(HeapRefs, Roots)
    OBVIOUS
  <2>1. TInv' /\ Running /\ TypeOK
    BY NextTInv DEF IInv, TInv, LiveOK
  <2>2. CollectorStep
    BY <2>1, RunSteps DEF vars, Running
  <2>3. CASE AllSeen /\ AbortRun
    BY <2>1, <2>3, AllSeenInReach DEF AbortRun, earlyvars
  <2>4. CASE free_unused_pobjects
    <3>1. Used' \cap Pmcs \subseteq Markable /\ early' \subseteq Pmcs
      BY <2>1, <2>4, SweepExact DEF TInv, TypeOK
    <3>2. words = <<>> /\ Range(words) = {}
      BY <2>1, RangeEmpty DEF IInv, RunOK
    <3>3. Roots \cup (Range(words) \cap Used) = Roots
      BY <3>2
    <3> QED BY <3>1, <3>3 DEF Markable
  <2>5. ~ pobject_lives
    BY <2>1 DEF pobject_lives, Running
  <2> QED BY <2>2, <2>3, <2>4, <2>5 DEF CollectorStep, RootsDone, trace_children
<1>2. Spec => []IInv
  BY Invariance
<1> QED BY <1>1, <1>2, PTL DEF Spec, Timely

----------------------------------------------------------------------------
(* The header pools implement the abstract heap.                            *)

\* References that have not changed give the same object graph.
LEMMA SameGraph ==
  ASSUME TypeOK, TypeOK', Used' = Used, \A h \in Headers : Refs(h)' = Refs(h)
  PROVE  HeapRefs' = HeapRefs
<1>1. /\ DOMAIN HeapRefs = Headers
      /\ \A h \in Headers : HeapRefs[h] = IF h \in Used THEN Refs(h) ELSE {}
  BY HeapRefsAre
<1>2. /\ DOMAIN HeapRefs' = Headers
      /\ \A h \in Headers : HeapRefs'[h] = IF h \in Used THEN Refs(h) ELSE {}
  BY HeapRefsAreNext
<1>3. HeapRefs = [h \in Headers |-> HeapRefs[h]] /\ HeapRefs' = [h \in Headers |-> HeapRefs'[h]]
  BY <1>1, <1>2 DEF HeapRefs
<1> QED BY <1>1, <1>2, <1>3

\* What is in reach according to the abstract heap.
LEMMA InReachIs == Heap!InReach = Reachable(HeapRefs, Roots)
BY DEF Heap!InReach, Heap!Reachable, Reachable, Heap!ClosedUnder, ClosedUnder

\* A step of the program that only passes around what is in reach.
LEMMA MutateHeap ==
  ASSUME IInv, TypeOK', Used' = Used, NEW R, R = Reachable(HeapRefs, Roots),
         Roots' \subseteq R,
         \A h \in Headers : Refs(h)' # Refs(h) => h \in R /\ Refs(h)' \subseteq Refs(h) \cup R
  PROVE  Heap!HMutate
<1>1. TypeOK
  BY DEF IInv, TInv
<1>2. \A h \in Headers : HeapRefs[h] = IF h \in Used THEN Refs(h) ELSE {}
  BY <1>1, HeapRefsAre
<1>3. /\ HeapRefs' \in [Headers -> SUBSET Headers]
      /\ \A h \in Headers : HeapRefs'[h] = IF h \in Used THEN Refs(h)' ELSE {}
  <2>1. \A h \in Headers : Refs(h)' \subseteq Headers
    BY ContentsRefsNext
  <2>2. \A h \in Headers : HeapRefs'[h] = IF h \in Used THEN Refs(h)' ELSE {}
    BY HeapRefsAreNext
  <2>3. HeapRefs' = [h \in Headers |-> HeapRefs'[h]]
    BY DEF HeapRefs
  <2>4. \A h \in Headers : HeapRefs'[h] \in SUBSET Headers
    BY <2>1, <2>2
  <2> HIDE DEF HeapRefs
  <2> QED BY <2>2, <2>3, <2>4
<1>4. \A h \in Headers : HeapRefs'[h] # HeapRefs[h] =>
        h \in R /\ HeapRefs'[h] \subseteq HeapRefs[h] \cup R
  BY <1>2, <1>3
<1> HIDE DEF HeapRefs, Roots, Used
<1> QED BY <1>3, <1>4, InReachIs DEF Heap!HMutate

\* The roots, and what they refer to, are in reach.
LEMMA RootsInReach ==
  ASSUME IInv
  PROVE  /\ Roots \subseteq Reachable(HeapRefs, Roots)
         /\ \A h \in Roots : Refs(h) \subseteq Reachable(HeapRefs, Roots)
<1>t. TypeOK /\ HeapOK
  BY DEF IInv, TInv
<1>1. DOMAIN HeapRefs = Headers /\ \A h \in Used : HeapRefs[h] = Refs(h)
  BY <1>t, HeapRefsAre DEF Used
<1>2. Roots \subseteq Used /\ Used \subseteq Headers
  BY <1>t DEF HeapOK, Used
<1>3. Roots \subseteq Reachable(HeapRefs, Roots)
  BY <1>1, <1>2, ReachRoots
<1>4. ASSUME NEW h \in Roots PROVE Refs(h) \subseteq Reachable(HeapRefs, Roots)
  <2>1. HeapRefs[h] = Refs(h) /\ HeapRefs[h] \subseteq DOMAIN HeapRefs
    BY <1>t, <1>1, <1>2, ContentsRefs
  <2>2. h \in Reachable(HeapRefs, Roots)
    BY <1>3
  <2> QED BY <2>1, <2>2, ReachEdges
<1> QED BY <1>3, <1>4

\* The ops that use objects change the abstract heap as a program may.
LEMMA OpsHeap ==
  ASSUME IInv, TypeOK',
         \/ \E c \in Pmcs : \E h \in Pmcs \cup {NULL} : StorePmc(c, h)
         \/ \E c \in Pmcs : StoreString(c) \/ \E r \in Regs : Load(r, c)
         \/ \E r \in Regs : NullRegister(r)
         \/ NullString
  PROVE  Heap!HMutate
<1>t. TypeOK
  BY DEF IInv, TInv
<1> DEFINE R == Reachable(HeapRefs, Roots)
<1>r. Roots \subseteq R /\ \A h \in Roots : Refs(h) \subseteq R
  BY RootsInReach
<1>h. Held \cup {Globals} \subseteq Roots /\ (sreg # NULL => sreg \in Roots)
  BY DEF Roots
<1> HIDE DEF R
<1>m. ASSUME Used' = Used, Roots' \subseteq R,
             \A h \in Headers : Refs(h)' # Refs(h) => h \in R /\ Refs(h)' \subseteq Refs(h) \cup R
      PROVE  Heap!HMutate
  BY <1>m, MutateHeap DEF R
<1>1. ASSUME NEW c \in Pmcs, NEW h \in Pmcs \cup {NULL}, StorePmc(c, h) PROVE Heap!HMutate
  <2>1. c \in R /\ {h} \ {NULL} \subseteq R
    BY <1>1, <1>r, <1>h DEF StorePmc, Container
  <2>2. Used' = Used /\ Roots' = Roots
    BY <1>1 DEF StorePmc, NotRunning, poolvars, taskvars, Used, Roots, Held
  <2>3. \A x \in Headers : Refs(x)' # Refs(x) => x = c
    BY <1>1, <1>t DEF StorePmc, Refs, TypeOK
  <2>4. Refs(c)' \subseteq Refs(c) \cup ({h} \ {NULL})
    BY <1>1, <1>t DEF StorePmc, Refs, TypeOK
  <2> QED BY <1>m, <1>r, <2>1, <2>2, <2>3, <2>4
<1>2. ASSUME NEW c \in Pmcs, StoreString(c) PROVE Heap!HMutate
  <2>1. c \in R /\ sreg \in R
    BY <1>2, <1>r, <1>h DEF StoreString, Container
  <2>2. Used' = Used /\ Roots' = Roots
    BY <1>2 DEF StoreString, NotRunning, poolvars, taskvars, Used, Roots, Held
  <2>3. \A x \in Headers : Refs(x)' # Refs(x) => x = c
    BY <1>2, <1>t DEF StoreString, Refs, TypeOK
  <2>4. Refs(c)' \subseteq Refs(c) \cup {sreg}
    BY <1>2, <1>t DEF StoreString, Refs, TypeOK
  <2> QED BY <1>m, <1>r, <2>1, <2>2, <2>3, <2>4
\* the ops that only change the registers
<1>3. ASSUME UNCHANGED <<ext, meta, data>>, NotRunning, Roots' \subseteq R PROVE Heap!HMutate
  <2>1. Used' = Used /\ \A h : Refs(h)' = Refs(h)
    BY <1>3 DEF NotRunning, poolvars, Used, Refs
  <2> QED BY <1>m, <1>3, <2>1
<1>4. ASSUME NEW c \in Pmcs, NEW r \in Regs, Load(r, c) PROVE Heap!HMutate
  <2>1. c \in Roots /\ Range(Contents(c)) = Refs(c)
    BY <1>4, <1>t, <1>h, ContentsRefs DEF Load, Container, Headers
  <2>2. PICK h \in Refs(c) : /\ Held' \subseteq Held \cup {h} /\ (sreg' = sreg \/ sreg' = h)
                             /\ temps' = temps
    BY <1>4, <1>t, <2>1 DEF Load, Held, TypeOK, NotRunning, taskvars
  <2>3. h \in R
    BY <1>r, <2>1
  <2>4. Roots' \subseteq Roots \cup {h}
    BY <2>2 DEF Roots
  <2> QED BY <1>3, <1>4, <1>r, <2>3, <2>4 DEF Load
<1>5. ASSUME NEW r \in Regs, NullRegister(r) PROVE Heap!HMutate
  <2>1. Held' \subseteq Held /\ sreg' = sreg /\ temps' = temps
    BY <1>5, <1>t DEF NullRegister, Held, TypeOK, NotRunning, taskvars
  <2>2. Roots' \subseteq Roots
    BY <2>1 DEF Roots
  <2> QED BY <1>3, <1>5, <1>r, <2>2 DEF NullRegister
<1>6. CASE NullString
  <2>1. Held' = Held /\ sreg' = NULL /\ temps' = temps
    BY <1>6 DEF NullString, Held, NotRunning, taskvars
  <2>2. Roots' \subseteq Roots
    BY <2>1 DEF Roots
  <2> QED BY <1>3, <1>6, <1>r, <2>2 DEF NullString
<1> QED BY <1>1, <1>2, <1>4, <1>5, <1>6

\* A step that leaves the objects and the registers alone is not seen.
LEMMA HeapStutters ==
  ASSUME IInv, TypeOK', free' \cup fresh' = free \cup fresh, UNCHANGED <<heapvars, temps>>
  PROVE  UNCHANGED Heap!hvars
<1>1. Used' = Used /\ Roots' = Roots
  BY DEF heapvars, Used, Roots, Held
<1>2. \A h : Refs(h)' = Refs(h)
  BY DEF heapvars, Refs
<1>3. HeapRefs' = HeapRefs
  BY <1>1, <1>2, SameGraph DEF IInv, TInv
<1> QED BY <1>1, <1>3 DEF Heap!hvars

\* An allocation takes a header that is not in use.
LEMMA AllocHeap ==
  ASSUME IInv, TInv', get_free_object
  PROVE  Heap!HAlloc
<1>1. PICK h \in Headers \ Used :
        /\ Used' = Used \cup {h} /\ Roots' = Roots \cup {h}
        /\ Refs(h) = {} /\ \A x \in Headers : Refs(x)' = Refs(x)
  BY GetIInv
<1>2. TypeOK /\ TypeOK'
  BY DEF IInv, TInv
<1>3. \A x \in Headers : HeapRefs'[x] = HeapRefs[x]
  <2>1. \A x \in Headers : HeapRefs[x] = IF x \in Used THEN Refs(x) ELSE {}
    BY <1>2, HeapRefsAre
  <2>2. \A x \in Headers : HeapRefs'[x] = IF x \in Used' THEN Refs(x)' ELSE {}
    BY <1>2, HeapRefsAreNext
  <2> QED BY <1>1, <2>1, <2>2
<1>4. HeapRefs' = HeapRefs
  <2>1. HeapRefs = [x \in Headers |-> HeapRefs[x]] /\ HeapRefs' = [x \in Headers |-> HeapRefs'[x]]
    BY DEF HeapRefs
  <2> HIDE DEF HeapRefs
  <2> QED BY <1>3, <2>1
<1> QED BY <1>1, <1>4 DEF Heap!HAlloc

\* A sweep takes the headers of objects that cannot be reached.
LEMMA SweepHeap ==
  ASSUME IInv, TInv', free_unused_pobjects
  PROVE  Heap!HCollect
<1>1. /\ MarkDone /\ Used' = Used \ Dead /\ Roots' = Roots
      /\ \A h \in Used \ Dead : Refs(h)' = Refs(h)
  BY SweepIInv
<1>2. Dead \in SUBSET (Used \ Heap!InReach)
  BY <1>1, SweepKeeps, InReachIs DEF Dead
<1>3. TypeOK /\ TypeOK'
  BY DEF IInv, TInv
<1>4. \A x \in Headers : HeapRefs'[x] = IF x \in Dead THEN {} ELSE HeapRefs[x]
  <2>1. \A x \in Headers : HeapRefs[x] = IF x \in Used THEN Refs(x) ELSE {}
    BY <1>3, HeapRefsAre
  <2>2. \A x \in Headers : HeapRefs'[x] = IF x \in Used' THEN Refs(x)' ELSE {}
    BY <1>3, HeapRefsAreNext
  <2> QED BY <1>1, <2>1, <2>2
<1>5. HeapRefs' = [x \in Headers |-> IF x \in Dead THEN {} ELSE HeapRefs[x]]
  <2>1. HeapRefs' = [x \in Headers |-> HeapRefs'[x]]
    BY DEF HeapRefs
  <2> HIDE DEF HeapRefs
  <2> QED BY <1>4, <2>1
<1> QED BY <1>1, <1>2, <1>5 DEF Heap!HCollect

\* The header pools, with allocation, marking and sweeping in steps, implement
\* the abstract heap: a new object never takes the header of one that is in
\* reach, whatever allocations, aborted runs and ops came before.
THEOREM HeapRefinement == ASSUME EarlyNested = FALSE PROVE Spec => ImplementsHeap
<1>1. Init => Heap!HInit
  <2> SUFFICES ASSUME Init PROVE Heap!HInit
    OBVIOUS
  <2> USE DodAssumption
  <2>1. Used = {Globals} /\ Used \subseteq Headers
    BY DEF Init, Used, Headers, kSubset
  <2>2. Roots = {Globals}
    BY RangeEmpty DEF Init, Roots, Held
  <2>3. \A h \in Headers : HeapRefs[h] = {}
    BY <2>1, InitTInv, HeapRefsAre DEF TInv, Init, Refs
  <2>4. HeapRefs = [h \in Headers |-> {}]
    <3>1. HeapRefs = [h \in Headers |-> HeapRefs[h]]
      BY DEF HeapRefs
    <3> HIDE DEF HeapRefs
    <3> QED BY <2>3, <3>1
  <2> QED BY <2>1, <2>2, <2>4 DEF Heap!HInit
<1>2. IInv /\ [Next]_vars => [Heap!HNext]_(Heap!hvars)
  <2> SUFFICES ASSUME IInv, [Next]_vars PROVE Heap!HNext \/ UNCHANGED Heap!hvars
    OBVIOUS
  <2>t. TInv' /\ TypeOK /\ TypeOK'
    BY NextTInv DEF IInv, TInv
  <2>s. ASSUME free' \cup fresh' = free \cup fresh, UNCHANGED <<heapvars, temps>>
        PROVE  UNCHANGED Heap!hvars
    BY <2>s, <2>t, HeapStutters
  <2>1. CASE UNCHANGED vars
    BY <2>1, <2>s DEF vars, poolvars, taskvars
  <2>2. CASE \/ \E c \in Pmcs : \E h \in Pmcs \cup {NULL} : StorePmc(c, h)
             \/ \E c \in Pmcs : StoreString(c) \/ \E r \in Regs : Load(r, c)
             \/ \E r \in Regs : NullRegister(r)
             \/ NullString
    BY <2>2, <2>t, OpsHeap DEF Heap!HNext
  <2>3. ASSUME NEW r \in Regs, needs_destroy(r) PROVE UNCHANGED Heap!hvars
    BY <2>3, <2>s DEF needs_destroy, NotRunning, poolvars, taskvars
  <2>4. ASSUME NEW pools, New(pools) PROVE UNCHANGED Heap!hvars
    BY <2>4, <2>s DEF New, poolvars
  <2>5. ASSUME NEW lz, NEW ws, StartRun(lz, ws) PROVE UNCHANGED Heap!hvars
    BY <2>5, <2>s DEF StartRun, poolvars, taskvars
  <2>6. CASE get_free_object
    BY <2>6, <2>t, AllocHeap DEF Heap!HNext
  <2>7. CASE Made
    <3>1. /\ Used' = Used /\ Roots' \subseteq Roots
          /\ \A x \in Headers : Refs(x)' # Refs(x) =>
               x \in Roots /\ Refs(x)' \subseteq Refs(x) \cup Roots
      BY <2>7, <2>t, MadeIInv
    <3> DEFINE R == Reachable(HeapRefs, Roots)
    <3>2. Roots \subseteq R
      BY RootsInReach
    <3>3. Heap!HMutate
      <4>1. R = Reachable(HeapRefs, Roots)
        OBVIOUS
      <4> HIDE DEF R
      <4> QED BY <2>t, <3>1, <3>2, <4>1, MutateHeap
    <3> QED BY <3>3 DEF Heap!HNext
  <2>8. ASSUME NEW p, alloc_objects(p), UNCHANGED <<heapvars, taskvars>>
        PROVE  UNCHANGED Heap!hvars
    <3>1. free' \cup fresh' = free \cup fresh
      BY <2>8, <2>t, AllocTypes
    <3> QED BY <2>8, <2>s, <3>1 DEF taskvars
  <2>9. CASE more_traceable_objects
    BY <2>9, <2>5, <2>8 DEF more_traceable_objects
  <2>10. CASE MoreAfterRun
    <3>1. CASE UNCHANGED poolvars
      BY <2>10, <2>s, <3>1 DEF MoreAfterRun, poolvars, taskvars
    <3> QED BY <2>10, <2>8, <3>1 DEF MoreAfterRun
  <2>11. CASE CollectorStep
    <3>1. CASE pobject_lives
      BY <2>s, <3>1 DEF pobject_lives, poolvars, taskvars
    <3>2. CASE AbortRun
      BY <2>s, <3>2 DEF AbortRun, EndRun, heapvars, poolvars, taskvars
    <3>3. CASE RootsDone
      BY <2>s, <3>2, <3>3 DEF RootsDone, poolvars, taskvars
    <3>4. CASE trace_children
      BY <2>s, <3>2, <3>4 DEF trace_children, poolvars, taskvars
    <3>5. CASE free_unused_pobjects
      BY <2>t, <3>5, SweepHeap DEF Heap!HNext
    <3> QED BY <2>11, <3>1, <3>3, <3>4, <3>5 DEF CollectorStep
  <2> QED BY <2>1, <2>2, <2>3, <2>4, <2>5, <2>6, <2>7, <2>9, <2>10, <2>11
          DEF Next, Panicked, sweep1, sweep0
<1>3. Spec => []IInv
  BY Invariance
<1> QED BY <1>1, <1>2, <1>3, PTL DEF Spec, ImplementsHeap, Heap!HSpec

=============================================================================
