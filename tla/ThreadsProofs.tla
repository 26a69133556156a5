--------------------------- MODULE ThreadsProofs ----------------------------
(***************************************************************************)
(* Proofs of the invariants of Threads for every set of interpreters, every *)
(* size of the array and every program; those of all but ExitWaits as long  *)
(* as no JOIN of pt_thread_join returns an error.                           *)
(***************************************************************************)
EXTENDS Threads, NumberFacts, FiniteSetTheorems

-----------------------------------------------------------------------------
(***************************************************************************)
(* The inductive invariant.                                                *)
(***************************************************************************)
\* The first interpreter stays in slot 0 and never ends.
MainStays ==
    /\ 0 \in Tids /\ interpreter_array[0] = Main
    /\ tid[Main] = 0 /\ thread[Main] = "running"

\* An interpreter is in a slot exactly as long as it exists, and knows which.
SlotsAgree ==
    /\ \A k \in Tids : interpreter_array[k] # NULL =>
          /\ memory[interpreter_array[k]] = "alive"
          /\ tid[interpreter_array[k]] = k
    /\ \A i \in Interp : memory[i] = "alive" =>
          tid[i] \in Tids /\ interpreter_array[tid[i]] = i

\* The life of a thread: an interpreter exists before its thread does and is
\* destroyed after it has ended; FINISHED says that it has ended.
LifeOrder ==
    \A i \in Interp :
        /\ memory[i] = "none" => thread[i] = "none"
        /\ thread[i] = "none" => state[i] = {}
        /\ thread[i] = "running" => memory[i] = "alive"
        /\ memory[i] \in {"destroyed", "freed"} => thread[i] = "ended"
        /\ thread[i] = "ended" <=> "FINISHED" \in state[i]

\* A thread is joined or detached, never both; a detached one is not left in
\* the array when it has finished; only a joined one is freed.
BitsAgree ==
    \A i \in Interp :
        /\ ~ ({"JOINED", "DETACHED"} \subseteq state[i])
        /\ memory[i] = "alive" => ~ ({"FINISHED", "DETACHED"} \subseteq state[i])

\* Who waits in pt_thread_join has marked its thread, and no other joiner
\* waits for the same one.
JoinersAgree ==
    /\ \A a \in Interp : pc[a] \in {"join", "joined"} =>
          /\ other[a] \in Interp /\ other[a] # Main
          /\ memory[other[a]] = "alive"
          /\ "JOINED" \in state[other[a]]
    /\ \A a \in Interp : pc[a] = "joined" => thread[other[a]] = "ended"
    /\ \A a, b \in Interp :
          /\ pc[a] \in {"join", "joined"} /\ pc[b] \in {"join", "joined"}
          /\ other[a] = other[b]
          => a = b
    /\ \A a \in Interp : pc[a] \in {"exit_join", "kill"} => other[a] \in Interp

\* running_threads counts the threads that were created and not joined.
Counted == {i \in Interp : i # Main /\ memory[i] \in {"alive", "destroyed"}}

CounterAgrees == running_threads = Cardinality(Counted)

IInv == /\ TypeOK /\ MainStays /\ SlotsAgree /\ LifeOrder /\ BitsAgree
        /\ JoinersAgree /\ CounterAgrees

\* For JoinOnce: the JOINED bit is there for every thread that was joined.
JoinsAgree == \A i \in joined : i \in Interp /\ "JOINED" \in state[i]

\* For ExitWaits: when the exit joins all threads, no slot is ever emptied,
\* and the threads below next_tid have ended, except the one it waits for.
ExitAgrees ==
    /\ uses \subseteq {"exit"}
    /\ \A a \in Interp : pc[a] \notin {"join", "joined", "kill"}
    /\ \A a \in Interp \ {Main} : pc[a] \notin {"exit", "exit_join", "exited"}
    /\ pc[Main] = "exit_join" => other[Main] # Main
    /\ \A i \in Interp : /\ memory[i] \in {"none", "alive"}
                         /\ "DETACHED" \notin state[i]
    /\ \A i \in Interp \ {Main} : "JOINED" \in state[i] => tid[i] < next_tid[Main]
    /\ \A i \in Interp \ {Main} :
          memory[i] = "alive" /\ tid[i] < next_tid[Main] =>
              \/ thread[i] = "ended"
              \/ pc[Main] = "exit_join" /\ other[Main] = i
    /\ next_tid[Main] - 1 \in Tids
    /\ \A k \in Tids : interpreter_array[k] # NULL
    /\ pc[Main] = "exited" =>
          \A i \in Interp \ {Main} : thread[i] # "running"

-----------------------------------------------------------------------------
\* The array has the slots 0 to n-1.
LEMMA ArrayShape ==
    ASSUME TypeOK
    PROVE  \E n \in 1 .. MaxSlots :
              /\ Tids = 0 .. n-1
              /\ interpreter_array \in [0 .. n-1 -> Interp \cup {NULL}]
              /\ FreshSlot = n
<1>1. PICK n \in 1 .. MaxSlots :
          interpreter_array \in [0 .. n-1 -> Interp \cup {NULL}]
  BY DEF TypeOK
<1>2. Tids = 0 .. n-1
  BY <1>1 DEF Tids
<1>3. n \in Nat /\ n - 1 \in Int /\ ~ (0 > n - 1) /\ n - 1 - 0 + 1 = n
  BY SlotsAssumption
<1>4. Cardinality(0 .. n-1) = n
  BY <1>3, FS_Interval
<1> QED BY <1>1, <1>2, <1>4 DEF FreshSlot

\* The counter after the set of counted threads gets or loses a thread.
LEMMA CountedFinite == IsFiniteSet(Counted) /\ Cardinality(Counted) \in Nat
<1>1. Counted \in SUBSET Interp
  BY DEF Counted
<1>2. IsFiniteSet(Counted)
  BY <1>1, FiniteAssumption, FS_Subset
<1> QED BY <1>2, FS_CardinalityType

LEMMA InitIInv == Init => IInv
<1> SUFFICES ASSUME Init PROVE IInv
  OBVIOUS
<1> USE MainAssumption, SlotsAssumption DEF Init
<1>1. TypeOK
  <2>1. 1 \in 1 .. MaxSlots /\ 0 .. 1-1 = {0}
    BY SlotsAssumption
  <2>2. interpreter_array \in [0 .. 1-1 -> Interp \cup {NULL}]
    BY <2>1
  <2>3. \E n \in 1 .. MaxSlots : interpreter_array \in [0 .. n-1 -> Interp \cup {NULL}]
    BY <2>1, <2>2
  <2> QED BY <2>3 DEF TypeOK
<1>2. MainStays
  BY DEF MainStays, Tids
<1>3. SlotsAgree
  BY DEF SlotsAgree, Tids
<1>4. LifeOrder /\ BitsAgree
  BY DEF LifeOrder, BitsAgree
<1>5. JoinersAgree
  BY DEF JoinersAgree
<1>6. CounterAgrees
  <2>1. Counted = {}
    BY DEF Counted
  <2> QED BY <2>1, FS_EmptySet DEF CounterAgrees
<1> QED BY <1>1, <1>2, <1>3, <1>4, <1>5, <1>6 DEF IInv

-----------------------------------------------------------------------------
(***************************************************************************)
(* The actions.                                                            *)
(***************************************************************************)
\* A new interpreter takes an empty slot or a new one; nobody loses a slot.
LEMMA AddKeeps ==
    ASSUME IInv, NEW a \in Interp, NEW i \in Interp, pt_add_to_interpreters(a, i)
    PROVE  IInv'
<1> DEFINE empty == {k \in Tids : interpreter_array[k] = NULL}
           slot == IF empty = {} THEN FreshSlot ELSE Min(empty)
<1>0. PICK n \in 1 .. MaxSlots :
          /\ Tids = 0 .. n-1
          /\ interpreter_array \in [0 .. n-1 -> Interp \cup {NULL}]
          /\ FreshSlot = n
  BY ArrayShape DEF IInv
<1>1. /\ slot \in 0 .. MaxSlots - 1
      /\ slot \in Tids => interpreter_array[slot] = NULL
      /\ slot \notin Tids => slot = n
  <2>1. empty \subseteq Nat
    BY <1>0
  <2>2. CASE empty = {}
    BY <1>0, <2>2, SlotsAssumption DEF pt_add_to_interpreters
  <2>3. CASE empty # {}
    <3>1. Min(empty) \in empty
      BY <2>1, <2>3, MinIsLeast
    <3> QED BY <1>0, <2>3, <3>1, SlotsAssumption
  <2> QED BY <2>2, <2>3
<1>2. /\ memory[i] = "none" /\ slot < MaxSlots
      /\ interpreter_array' =
              [k \in Tids \cup {slot} |-> IF k = slot THEN i ELSE interpreter_array[k]]
      /\ tid' = [tid EXCEPT ![i] = slot]
      /\ memory' = [memory EXCEPT ![i] = "alive"]
      /\ running_threads' = running_threads + 1
      /\ UNCHANGED <<state, thread, pc, other, next_tid,
                  interpreter_array_mutex, terms, joined>>
  BY DEF pt_add_to_interpreters
<1> HIDE DEF slot, empty
<1>3. Tids' = Tids \cup {slot}
  BY <1>2 DEF Tids
<1>4. i # Main /\ thread[i] = "none"
  BY <1>2 DEF IInv, MainStays, LifeOrder
<1>5. TypeOK'
  <2>1. \E m \in 1 .. MaxSlots : Tids \cup {slot} = 0 .. m-1
    <3>1. CASE slot \in Tids
      BY <1>0, <3>1
    <3>2. CASE slot = n
      <4>1. n + 1 \in 1 .. MaxSlots
        BY <1>0, <1>1, <3>2, SlotsAssumption
      <4>2. (0 .. n-1) \cup {n} = 0 .. (n+1)-1
        BY SlotsAssumption
      <4> QED BY <1>0, <3>2, <4>1, <4>2
    <3> QED BY <1>1, <3>1, <3>2
  <2>2. PICK m \in 1 .. MaxSlots : Tids \cup {slot} = 0 .. m-1
    BY <2>1
  <2>3. interpreter_array' \in [0 .. m-1 -> Interp \cup {NULL}]
    BY <1>0, <1>2, <2>2
  <2>4. \E m1 \in 1 .. MaxSlots : interpreter_array' \in [0 .. m1-1 -> Interp \cup {NULL}]
    BY <2>3
  <2>5. tid' \in [Interp -> 0 .. MaxSlots-1] /\ running_threads' \in Nat
    BY <1>1, <1>2 DEF IInv, TypeOK
  <2> QED BY <1>2, <2>4, <2>5 DEF IInv, TypeOK
<1>6. MainStays'
  BY <1>1, <1>2, <1>3, <1>4, MainAssumption DEF IInv, MainStays, TypeOK
<1>7. SlotsAgree'
  BY <1>0, <1>1, <1>2, <1>3, <1>4, MainAssumption DEF IInv, SlotsAgree, TypeOK
<1>8. LifeOrder' /\ BitsAgree'
  BY <1>2, <1>4 DEF IInv, LifeOrder, BitsAgree, TypeOK
<1>9. JoinersAgree'
  BY <1>2 DEF IInv, JoinersAgree, TypeOK
<1>10. CounterAgrees'
  <2>1. Counted' = Counted \cup {i} /\ i \notin Counted
    BY <1>2, <1>4 DEF Counted, IInv, TypeOK
  <2> QED BY <1>2, <2>1, CountedFinite, FS_AddElement DEF IInv, CounterAgrees
<1> QED BY <1>5, <1>6, <1>7, <1>8, <1>9, <1>10 DEF IInv

\* Emptying a slot keeps the shape of the array.
LEMMA EmptiedArray ==
    ASSUME TypeOK, NEW k \in Tids
    PROVE  /\ DOMAIN Emptied(k) = Tids
           /\ Emptied(k)[k] = NULL
           /\ \A j \in Tids \ {k} : Emptied(k)[j] = interpreter_array[j]
           /\ \E n \in 1 .. MaxSlots : Emptied(k) \in [0 .. n-1 -> Interp \cup {NULL}]
<1>1. PICK n \in 1 .. MaxSlots :
          /\ Tids = 0 .. n-1
          /\ interpreter_array \in [0 .. n-1 -> Interp \cup {NULL}]
  BY ArrayShape
<1>2. Emptied(k) \in [0 .. n-1 -> Interp \cup {NULL}]
  BY <1>1 DEF Emptied
<1> QED BY <1>1, <1>2 DEF Emptied, Tids

\* An interpreter that is destroyed, and what that does to memory.
LEMMA DestroyedMemory ==
    ASSUME TypeOK, NEW i \in Interp, NEW bits
    PROVE  /\ Destroyed(i, bits) \in [Interp -> {"none", "alive", "destroyed", "freed"}]
           /\ Destroyed(i, bits)[i] = IF "JOINED" \in bits THEN "freed" ELSE "destroyed"
           /\ \A j \in Interp \ {i} : Destroyed(i, bits)[j] = memory[j]
BY DEF TypeOK, Destroyed

\* Destroying an interpreter that has ended and taking it out of its slot, as
\* the end of a join, a detach and the end of a detached thread do.
LEMMA DestroyKeepsSlots ==
    ASSUME IInv, NEW i \in Interp, i # Main, memory[i] = "alive",
           tid' = tid,
           interpreter_array' = Emptied(tid[i]),
           memory' = Destroyed(i, state[i])
    PROVE  SlotsAgree' /\ Tids' = Tids /\ interpreter_array'[0] = Main
<1>1. tid[i] \in Tids /\ interpreter_array[tid[i]] = i
  BY DEF IInv, SlotsAgree
<1>2. /\ DOMAIN Emptied(tid[i]) = Tids
      /\ Emptied(tid[i])[tid[i]] = NULL
      /\ \A j \in Tids \ {tid[i]} : Emptied(tid[i])[j] = interpreter_array[j]
  BY <1>1, EmptiedArray DEF IInv
<1>3. /\ Destroyed(i, state[i])[i] # "alive"
      /\ \A j \in Interp \ {i} : Destroyed(i, state[i])[j] = memory[j]
  BY DestroyedMemory DEF IInv
<1>4. Tids' = Tids
  BY <1>2 DEF Tids
<1>5. interpreter_array \in [Tids -> Interp \cup {NULL}]
  BY ArrayShape DEF IInv
<1>6. tid[i] # 0 /\ 0 \in Tids /\ interpreter_array[0] = Main
  BY <1>1 DEF IInv, MainStays
<1>7. SlotsAgree'
  BY <1>1, <1>2, <1>3, <1>4, <1>5, MainAssumption DEF IInv, SlotsAgree
<1> QED BY <1>2, <1>4, <1>6, <1>7

\* A thread starts to run.
LEMMA RunKeeps ==
    ASSUME IInv, NEW a \in Interp, NEW i \in Interp, pt_thread_run(a, i)
    PROVE  IInv'
<1> USE DEF pt_thread_run
<1>1. state[i] = {} /\ i # Main
  BY DEF IInv, LifeOrder, MainStays
<1>2. state' = state
  BY <1>1 DEF IInv, TypeOK
<1>3. TypeOK'
  BY <1>2 DEF IInv, TypeOK
<1>4. MainStays' /\ SlotsAgree'
  BY <1>1 DEF IInv, MainStays, SlotsAgree, Tids, TypeOK
<1>5. LifeOrder' /\ BitsAgree'
  BY <1>1, <1>2 DEF IInv, LifeOrder, BitsAgree, TypeOK
<1>6. JoinersAgree'
  BY <1>2 DEF IInv, JoinersAgree, TypeOK
<1>7. CounterAgrees'
  <2>1. Counted' = Counted
    BY DEF Counted
  <2> QED BY <2>1 DEF IInv, CounterAgrees
<1> QED BY <1>3, <1>4, <1>5, <1>6, <1>7 DEF IInv

\* The interpreter in a slot the program may refer to.
LEMMA ValidInterp ==
    ASSUME IInv, NEW k \in Tids, ValidTid(k)
    PROVE  /\ interpreter_array[k] \in Interp
           /\ interpreter_array[k] # Main
           /\ memory[interpreter_array[k]] = "alive"
           /\ tid[interpreter_array[k]] = k
           /\ thread[interpreter_array[k]] # "none"
<1>1. interpreter_array \in [Tids -> Interp \cup {NULL}]
  BY ArrayShape DEF IInv
<1> QED BY <1>1 DEF IInv, ValidTid, IllegalTid, Started, SlotsAgree, MainStays

\* A join marks a thread that nobody has marked.
LEMMA JoinStartKeeps ==
    ASSUME IInv, NEW a \in Interp, NEW k \in Tids, JoinStart(a, k)
    PROVE  IInv'
<1> DEFINE i == interpreter_array[k]
<1>1. /\ i \in Interp /\ i # Main /\ memory[i] = "alive" /\ i # a
      /\ "JOINED" \notin state[i] /\ "DETACHED" \notin state[i]
      /\ state' = [state EXCEPT ![i] = @ \cup {"JOINED"}]
      /\ joined' = joined \cup {i}
      /\ pc' = [pc EXCEPT ![a] = "join"]
      /\ other' = [other EXCEPT ![a] = i]
      /\ UNCHANGED <<interpreter_array, running_threads, tid, memory, thread,
                     next_tid, interpreter_array_mutex, terms>>
      /\ thread[i] # "none"
  BY ValidInterp DEF JoinStart, Joinable
<1> HIDE DEF i
<1>2. TypeOK'
  BY <1>1 DEF IInv, TypeOK, Bits
<1>3. MainStays' /\ SlotsAgree'
  BY <1>1 DEF IInv, MainStays, SlotsAgree, Tids
<1>4. LifeOrder' /\ BitsAgree'
  BY <1>1 DEF IInv, LifeOrder, BitsAgree, TypeOK
<1>5. JoinersAgree'
  BY <1>1 DEF IInv, JoinersAgree, TypeOK
<1>6. CounterAgrees'
  <2>1. Counted' = Counted
    BY <1>1 DEF Counted
  <2> QED BY <1>1, <2>1 DEF IInv, CounterAgrees
<1> QED BY <1>2, <1>3, <1>4, <1>5, <1>6 DEF IInv

\* Steps that move one thread and change nothing it has a part in.
LEMMA JoinReturnsKeeps ==
    ASSUME IInv, NEW a \in Interp, JoinReturns(a), JoinErrors => pc[a] # "join"
    PROVE  IInv'
<1> USE DEF JoinReturns
<1>1. TypeOK'
  BY DEF IInv, TypeOK
<1>2. MainStays' /\ SlotsAgree' /\ LifeOrder' /\ BitsAgree'
  BY DEF IInv, MainStays, SlotsAgree, LifeOrder, BitsAgree, Tids
<1>3. JoinersAgree'
  BY DEF IInv, JoinersAgree, TypeOK
<1>4. CounterAgrees'
  BY DEF IInv, CounterAgrees, Counted
<1> QED BY <1>1, <1>2, <1>3, <1>4 DEF IInv

\* The end of a join: the one joiner frees the interpreter of a thread that
\* has ended.
LEMMA JoinFinishKeeps ==
    ASSUME IInv, NEW a \in Interp, JoinFinish(a)
    PROVE  IInv'
<1> DEFINE i == other[a]
<1>1. /\ i \in Interp /\ i # Main /\ memory[i] = "alive" /\ thread[i] = "ended"
      /\ "JOINED" \in state[i]
      /\ pc[a] = "joined"
      /\ interpreter_array' = Emptied(tid[i])
      /\ running_threads' = running_threads - 1
      /\ memory' = Destroyed(i, state[i])
      /\ pc' = [pc EXCEPT ![a] = "run"]
      /\ other' = [other EXCEPT ![a] = NULL]
      /\ UNCHANGED <<state, tid, thread, next_tid,
                  interpreter_array_mutex, terms, joined>>
  BY DEF IInv, JoinersAgree, JoinFinish
<1>2. \A b \in Interp : pc[b] \in {"join", "joined"} /\ other[b] = i => b = a
  BY <1>1 DEF IInv, JoinersAgree
<1> HIDE DEF i
<1>3. /\ memory' \in [Interp -> {"none", "alive", "destroyed", "freed"}]
      /\ memory'[i] = "freed"
      /\ \A j \in Interp \ {i} : memory'[j] = memory[j]
  BY <1>1, DestroyedMemory DEF IInv
<1>4. SlotsAgree' /\ Tids' = Tids /\ interpreter_array'[0] = Main
  BY <1>1, DestroyKeepsSlots
<1>5. CounterAgrees' /\ running_threads' \in Nat
  <2>1. Counted' = Counted \ {i} /\ i \in Counted
    BY <1>1, <1>3 DEF Counted
  <2>2. Cardinality(Counted \ {i}) = Cardinality(Counted) - 1
    BY <2>1, CountedFinite, FS_RemoveElement
  <2>3. IsFiniteSet(Counted \ {i})
    BY CountedFinite, FS_RemoveElement
  <2>4. Cardinality(Counted \ {i}) \in Nat
    BY <2>3, FS_CardinalityType
  <2> QED BY <1>1, <2>1, <2>2, <2>4 DEF IInv, CounterAgrees
<1>6. TypeOK'
  <2>1. tid[i] \in Tids
    BY <1>1 DEF IInv, SlotsAgree
  <2>2. \E n \in 1 .. MaxSlots : interpreter_array' \in [0 .. n-1 -> Interp \cup {NULL}]
    BY <1>1, <2>1, EmptiedArray DEF IInv
  <2> QED BY <1>1, <1>3, <1>5, <2>2 DEF IInv, TypeOK
<1>7. MainStays'
  BY <1>1, <1>4 DEF IInv, MainStays
<1>8. LifeOrder' /\ BitsAgree'
  BY <1>1, <1>3 DEF IInv, LifeOrder, BitsAgree
<1>9. JoinersAgree'
  BY <1>1, <1>2, <1>3 DEF IInv, JoinersAgree, TypeOK
<1> QED BY <1>4, <1>5, <1>6, <1>7, <1>8, <1>9 DEF IInv

\* detach: the state bits and the slots agree afterwards, and no thread that
\* somebody joins is touched.
LEMMA DetachKeeps ==
    ASSUME IInv, NEW k \in Tids, DetachStep(k),
           UNCHANGED <<running_threads, tid, thread, next_tid,
                  interpreter_array_mutex, terms, joined>>
    PROVE  /\ MainStays' /\ SlotsAgree' /\ LifeOrder' /\ BitsAgree' /\ CounterAgrees'
           /\ \E n \in 1 .. MaxSlots :
                 interpreter_array' \in [0 .. n-1 -> Interp \cup {NULL}]
           /\ state' \in [Interp -> SUBSET Bits]
           /\ memory' \in [Interp -> {"none", "alive", "destroyed", "freed"}]
           /\ \A j \in Interp : "JOINED" \in state[j] =>
                 memory'[j] = memory[j] /\ state'[j] = state[j]
           /\ \A j \in Interp : "JOINED" \in state'[j] <=> "JOINED" \in state[j]
<1> DEFINE i == interpreter_array[k]
<1>1. /\ i \in Interp /\ i # Main /\ memory[i] = "alive" /\ tid[i] = k
      /\ thread[i] # "none" /\ ValidTid(k)
  BY ValidInterp DEF DetachStep
<1>2. CASE ~ Joinable(i)
  <2>1. UNCHANGED <<state, interpreter_array, memory>>
    BY <1>2 DEF DetachStep
  <2> QED BY <2>1 DEF IInv, MainStays, SlotsAgree, LifeOrder, BitsAgree, CounterAgrees,
                      Counted, Tids, TypeOK
<1>3. CASE Joinable(i)
  <2> HIDE DEF i
  <2>1. /\ state' = [state EXCEPT ![i] = @ \cup {"DETACHED"}]
        /\ "JOINED" \notin state[i] /\ "DETACHED" \notin state[i]
    BY <1>3 DEF DetachStep, Joinable, i
  <2>2. state' \in [Interp -> SUBSET Bits]
    BY <1>1, <2>1 DEF IInv, TypeOK, Bits
  <2>3. CASE "FINISHED" \notin state[i]
    <3>1. UNCHANGED <<interpreter_array, memory>>
      BY <1>3, <2>3 DEF DetachStep, i
    <3>2. MainStays' /\ SlotsAgree' /\ CounterAgrees'
      BY <3>1 DEF IInv, MainStays, SlotsAgree, CounterAgrees, Counted, Tids
    <3>3. LifeOrder' /\ BitsAgree'
      BY <1>1, <2>1, <2>3, <3>1 DEF IInv, LifeOrder, BitsAgree, TypeOK
    <3>4. \A j \in Interp : "JOINED" \in state'[j] <=> "JOINED" \in state[j]
      BY <2>1 DEF IInv, TypeOK
    <3>5. \A j \in Interp : "JOINED" \in state[j] => state'[j] = state[j]
      BY <2>1 DEF IInv, TypeOK
    <3> QED BY <2>2, <3>1, <3>2, <3>3, <3>4, <3>5 DEF IInv, TypeOK
  <2>4. CASE "FINISHED" \in state[i]
    <3>1. interpreter_array' = Emptied(tid[i]) /\ memory' = Destroyed(i, state[i])
      BY <1>1, <1>3, <2>4 DEF DetachStep, i
    <3>2. /\ memory' \in [Interp -> {"none", "alive", "destroyed", "freed"}]
          /\ memory'[i] = "destroyed"
          /\ \A j \in Interp \ {i} : memory'[j] = memory[j]
      BY <1>1, <2>1, <3>1, DestroyedMemory DEF IInv
    <3>3. SlotsAgree' /\ Tids' = Tids /\ interpreter_array'[0] = Main
      BY <1>1, <3>1, DestroyKeepsSlots
    <3>4. MainStays'
      BY <3>3 DEF IInv, MainStays
    <3>5. LifeOrder' /\ BitsAgree'
      BY <1>1, <2>1, <2>4, <3>2 DEF IInv, LifeOrder, BitsAgree, TypeOK
    <3>6. CounterAgrees'
      <4>1. Counted' = Counted
        BY <1>1, <3>2 DEF Counted
      <4> QED BY <4>1 DEF IInv, CounterAgrees
    <3>7. \E n \in 1 .. MaxSlots :
              interpreter_array' \in [0 .. n-1 -> Interp \cup {NULL}]
      BY <1>1, <3>1, EmptiedArray DEF IInv
    <3>8. \A j \in Interp : "JOINED" \in state'[j] <=> "JOINED" \in state[j]
      BY <2>1 DEF IInv, TypeOK
    <3>9. \A j \in Interp : "JOINED" \in state[j] =>
              memory'[j] = memory[j] /\ state'[j] = state[j]
      BY <2>1, <3>2 DEF IInv, TypeOK
    <3> QED BY <2>2, <3>2, <3>3, <3>4, <3>5, <3>6, <3>7, <3>8, <3>9
  <2> QED BY <2>3, <2>4
<1> QED BY <1>2, <1>3

LEMMA ThreadDetachKeeps ==
    ASSUME IInv, NEW a \in Interp, NEW k \in Tids, pt_thread_detach(a, k)
    PROVE  IInv'
<1>1. /\ DetachStep(k)
      /\ UNCHANGED <<running_threads, tid, thread, next_tid,
                  interpreter_array_mutex, terms, joined>>
      /\ UNCHANGED <<pc, other>>
  BY DEF pt_thread_detach
<1>2. /\ MainStays' /\ SlotsAgree' /\ LifeOrder' /\ BitsAgree' /\ CounterAgrees'
      /\ \E n \in 1 .. MaxSlots :
            interpreter_array' \in [0 .. n-1 -> Interp \cup {NULL}]
      /\ state' \in [Interp -> SUBSET Bits]
      /\ memory' \in [Interp -> {"none", "alive", "destroyed", "freed"}]
      /\ \A j \in Interp : "JOINED" \in state[j] =>
            memory'[j] = memory[j] /\ state'[j] = state[j]
  BY <1>1, DetachKeeps
<1>3. TypeOK'
  BY <1>1, <1>2 DEF IInv, TypeOK
<1>4. JoinersAgree'
  BY <1>1, <1>2 DEF IInv, JoinersAgree
<1> QED BY <1>2, <1>3, <1>4 DEF IInv

\* kill detaches the thread and keeps a pointer to it.
LEMMA KillDetachKeeps ==
    ASSUME IInv, NEW a \in Interp, NEW k \in Tids, KillDetach(a, k)
    PROVE  IInv'
<1> DEFINE i == interpreter_array[k]
<1>1. /\ DetachStep(k)
      /\ UNCHANGED <<running_threads, tid, thread, next_tid,
                  interpreter_array_mutex, terms, joined>>
      /\ \/ UNCHANGED <<pc, other>>
         \/ /\ pc' = [pc EXCEPT ![a] = "kill"]
            /\ other' = [other EXCEPT ![a] = i]
      /\ i \in Interp
  <2>1. DetachStep(k) /\ ValidTid(k)
    BY DEF KillDetach, DetachStep
  <2> QED BY <2>1, ValidInterp DEF KillDetach
<1>2. /\ MainStays' /\ SlotsAgree' /\ LifeOrder' /\ BitsAgree' /\ CounterAgrees'
      /\ \E n \in 1 .. MaxSlots :
            interpreter_array' \in [0 .. n-1 -> Interp \cup {NULL}]
      /\ state' \in [Interp -> SUBSET Bits]
      /\ memory' \in [Interp -> {"none", "alive", "destroyed", "freed"}]
      /\ \A j \in Interp : "JOINED" \in state[j] =>
            memory'[j] = memory[j] /\ state'[j] = state[j]
  BY <1>1, DetachKeeps
<1> HIDE DEF i
<1>3. TypeOK'
  <2>1. TypeOK
    BY DEF IInv
  <2>2. /\ pc' \in [Interp -> {"run", "join", "joined", "kill", "exit",
                                "exit_join", "exited", "ended"}]
        /\ other' \in [Interp -> Interp \cup {NULL}]
    <3>1. /\ pc \in [Interp -> {"run", "join", "joined", "kill", "exit",
                                  "exit_join", "exited", "ended"}]
          /\ other \in [Interp -> Interp \cup {NULL}]
      BY <2>1 DEF TypeOK
    <3>2. CASE UNCHANGED <<pc, other>>
      BY <3>1, <3>2
    <3>3. CASE /\ pc' = [pc EXCEPT ![a] = "kill"]
               /\ other' = [other EXCEPT ![a] = i]
      BY <3>1, <3>3, <1>1
    <3> QED BY <3>2, <3>3, <1>1
  <2> QED BY <2>1, <2>2, <1>1, <1>2 DEF TypeOK
<1>4. JoinersAgree'
  <2>1. CASE UNCHANGED <<pc, other>>
    BY <1>1, <1>2, <2>1 DEF IInv, JoinersAgree
  <2>2. CASE /\ pc' = [pc EXCEPT ![a] = "kill"]
             /\ other' = [other EXCEPT ![a] = i]
    BY <1>1, <1>2, <2>2 DEF IInv, JoinersAgree, TypeOK
  <2> QED BY <1>1, <2>1, <2>2
<1> QED BY <1>2, <1>3, <1>4 DEF IInv

\* The terminate event changes nothing that thread.c keeps.
LEMMA KillSendKeeps ==
    ASSUME IInv, NEW a \in Interp, KillSend(a)
    PROVE  IInv'
<1> USE DEF KillSend
<1>1. TypeOK'
  <2>1. other[a] \in Interp
    BY DEF IInv, JoinersAgree
  <2> QED BY <2>1 DEF IInv, TypeOK
<1>2. MainStays' /\ SlotsAgree' /\ LifeOrder' /\ BitsAgree'
  BY DEF IInv, MainStays, SlotsAgree, LifeOrder, BitsAgree, Tids
<1>3. JoinersAgree'
  BY DEF IInv, JoinersAgree, TypeOK
<1>4. CounterAgrees'
  BY DEF IInv, CounterAgrees, Counted
<1> QED BY <1>1, <1>2, <1>3, <1>4 DEF IInv

LEMMA DeliverKeeps ==
    ASSUME IInv, NEW a \in Interp, Deliver(a)
    PROVE  IInv'
BY DEF Deliver, IInv, TypeOK, MainStays, SlotsAgree, LifeOrder, BitsAgree, JoinersAgree,
       CounterAgrees, Counted, Tids

\* A thread ends; one that was detached takes its interpreter with it.
LEMMA ThreadFuncKeeps ==
    ASSUME IInv, NEW i \in Interp, thread_func(i)
    PROVE  IInv'
<1>1. /\ i # Main /\ thread[i] = "running" /\ pc[i] = "run" /\ memory[i] = "alive"
      /\ "FINISHED" \notin state[i]
      /\ state' = [state EXCEPT ![i] = @ \cup {"FINISHED"}]
      /\ thread' = [thread EXCEPT ![i] = "ended"]
      /\ pc' = [pc EXCEPT ![i] = "ended"]
      /\ UNCHANGED <<running_threads, tid, other, next_tid,
                  interpreter_array_mutex, terms, joined>>
  BY DEF thread_func, Runs, IInv, LifeOrder
<1>2. state' \in [Interp -> SUBSET Bits] /\ thread' \in [Interp -> {"none", "running", "ended"}]
  BY <1>1 DEF IInv, TypeOK, Bits
<1>3. CASE "DETACHED" \notin state[i]
  <2>1. UNCHANGED <<interpreter_array, memory>>
    BY <1>3 DEF thread_func
  <2>2. TypeOK'
    BY <1>1, <1>2, <2>1 DEF IInv, TypeOK
  <2>3. MainStays' /\ SlotsAgree' /\ CounterAgrees'
    BY <1>1, <2>1 DEF IInv, MainStays, SlotsAgree, CounterAgrees, Counted, Tids, TypeOK
  <2>4. LifeOrder' /\ BitsAgree'
    BY <1>1, <1>3, <2>1 DEF IInv, LifeOrder, BitsAgree, TypeOK
  <2>5. JoinersAgree'
    BY <1>1, <2>1 DEF IInv, JoinersAgree, TypeOK
  <2> QED BY <2>2, <2>3, <2>4, <2>5 DEF IInv
<1>4. CASE "DETACHED" \in state[i]
  <2>1. interpreter_array' = Emptied(tid[i]) /\ memory' = Destroyed(i, state[i])
    BY <1>4 DEF thread_func
  <2>2. "JOINED" \notin state[i]
    BY <1>4 DEF IInv, BitsAgree
  <2>3. /\ memory' \in [Interp -> {"none", "alive", "destroyed", "freed"}]
        /\ memory'[i] = "destroyed"
        /\ \A j \in Interp \ {i} : memory'[j] = memory[j]
    BY <2>1, <2>2, DestroyedMemory DEF IInv
  <2>4. SlotsAgree' /\ Tids' = Tids /\ interpreter_array'[0] = Main
    BY <1>1, <2>1, DestroyKeepsSlots
  <2>5. MainStays'
    BY <1>1, <2>4 DEF IInv, MainStays, TypeOK
  <2>6. LifeOrder' /\ BitsAgree'
    BY <1>1, <2>2, <2>3 DEF IInv, LifeOrder, BitsAgree, TypeOK
  <2>7. CounterAgrees'
    <3>1. Counted' = Counted
      BY <1>1, <2>3 DEF Counted
    <3> QED BY <1>1, <3>1 DEF IInv, CounterAgrees
  <2>8. JoinersAgree'
    BY <1>1, <2>2, <2>3 DEF IInv, JoinersAgree, TypeOK
  <2>9. TypeOK'
    <3>1. tid[i] \in Tids
      BY <1>1 DEF IInv, SlotsAgree
    <3>2. \E n \in 1 .. MaxSlots :
              interpreter_array' \in [0 .. n-1 -> Interp \cup {NULL}]
      BY <2>1, <3>1, EmptiedArray DEF IInv
    <3> QED BY <1>1, <1>2, <2>3, <3>2 DEF IInv, TypeOK
  <2> QED BY <2>4, <2>5, <2>6, <2>7, <2>8, <2>9 DEF IInv
<1> QED BY <1>3, <1>4

\* The thread that the loop of pt_join_threads waits for next.
LEMMA ThreadToWaitFor ==
    ASSUME IInv, NEW a \in Interp, NEW k \in Tids, WaitsFor(a, k)
    PROVE  /\ k \in Nat /\ next_tid[a] <= k /\ Following(k) \in 1 .. MaxSlots
           /\ interpreter_array[k] \in Interp
           /\ interpreter_array[k] # Main
           /\ memory[interpreter_array[k]] = "alive"
           /\ tid[interpreter_array[k]] = k
           /\ thread[interpreter_array[k]] # "none"
           /\ "DETACHED" \notin state[interpreter_array[k]]
<1>1. PICK n \in 1 .. MaxSlots :
          /\ Tids = 0 .. n-1
          /\ interpreter_array \in [0 .. n-1 -> Interp \cup {NULL}]
  BY ArrayShape DEF IInv
<1>2. /\ k >= next_tid[a] /\ interpreter_array[k] # NULL
      /\ thread[interpreter_array[k]] # "none"
      /\ state[interpreter_array[k]] = {} \/ "FINISHED" \in state[interpreter_array[k]]
  BY DEF WaitsFor, ToWaitFor, Started
<1>3. next_tid[a] \in 1 .. MaxSlots
  BY DEF IInv, TypeOK
<1>4. k \in 1 .. n-1 /\ next_tid[a] <= k
  BY <1>1, <1>2, <1>3
<1>5. /\ interpreter_array[k] \in Interp
      /\ memory[interpreter_array[k]] = "alive" /\ tid[interpreter_array[k]] = k
  BY <1>1, <1>2 DEF IInv, SlotsAgree
<1>6. interpreter_array[k] # Main
  BY <1>4, <1>5 DEF IInv, MainStays
<1>7. Following(k) \in 1 .. MaxSlots
  BY <1>1, <1>4, SlotsAssumption DEF Following
<1>8. "DETACHED" \notin state[interpreter_array[k]]
  BY <1>2, <1>5 DEF IInv, BitsAgree
<1> QED BY <1>1, <1>2, <1>4, <1>5, <1>6, <1>7, <1>8

\* The loop of pt_join_threads marks a thread, or ends.
LEMMA JoinThreadsKeeps ==
    ASSUME IInv, NEW a \in Interp, pt_join_threads(a)
    PROVE  IInv'
<1>1. /\ pc[a] = "exit"
      /\ UNCHANGED <<interpreter_array, running_threads, tid, memory, thread,
                     interpreter_array_mutex, terms>>
  BY DEF pt_join_threads
<1>2. MainStays' /\ SlotsAgree' /\ CounterAgrees'
  BY <1>1 DEF IInv, MainStays, SlotsAgree, CounterAgrees, Counted, Tids
<1>3. CASE LeavesLoop(a)
  <2>1. /\ pc' = [pc EXCEPT ![a] = "exited"]
        /\ other' = [other EXCEPT ![a] = NULL]
        /\ UNCHANGED <<state, joined, next_tid>>
    BY <1>3 DEF LeavesLoop
  <2>2. TypeOK'
    BY <1>1, <2>1 DEF IInv, TypeOK
  <2>3. LifeOrder' /\ BitsAgree'
    BY <1>1, <2>1 DEF IInv, LifeOrder, BitsAgree
  <2>4. JoinersAgree'
    BY <1>1, <2>1 DEF IInv, JoinersAgree, TypeOK
  <2> QED BY <1>2, <2>2, <2>3, <2>4 DEF IInv
<1>4. ASSUME NEW k \in Tids, WaitsFor(a, k)
      PROVE  IInv'
  <2> DEFINE i == interpreter_array[k]
  <2>1. /\ state' = [state EXCEPT ![i] = @ \cup {"JOINED"}]
        /\ joined' = joined \cup {i}
        /\ next_tid' = [next_tid EXCEPT ![a] = Following(k)]
        /\ pc' = [pc EXCEPT ![a] = "exit_join"]
        /\ other' = [other EXCEPT ![a] = i]
    BY <1>4 DEF WaitsFor
  <2>2. /\ i \in Interp /\ memory[i] = "alive" /\ thread[i] # "none"
        /\ Following(k) \in 1 .. MaxSlots
        /\ "DETACHED" \notin state[i]
    BY <1>4, ThreadToWaitFor
  <2> HIDE DEF i
  <2>3. state' \in [Interp -> SUBSET Bits] /\ joined' \subseteq Interp
    BY <2>1, <2>2 DEF IInv, TypeOK, Bits
  <2>4. TypeOK'
    BY <1>1, <2>1, <2>2, <2>3 DEF IInv, TypeOK
  <2>5. LifeOrder' /\ BitsAgree'
    BY <1>1, <2>1, <2>2 DEF IInv, LifeOrder, BitsAgree, TypeOK
  <2>6. JoinersAgree'
    BY <1>1, <2>1, <2>2 DEF IInv, JoinersAgree, TypeOK
  <2> QED BY <1>2, <2>4, <2>5, <2>6 DEF IInv
<1> QED BY <1>3, <1>4 DEF pt_join_threads

\* The ways into Parrot_exit take the thread from its program to the loop.
LEMMA ExitKeeps ==
    ASSUME IInv, NEW a \in Interp, pc[a] \in {"run", "joined"}, Parrot_exit(a),
           other' = other \/ other' = [other EXCEPT ![a] = NULL],
           interpreter_array_mutex' \in Interp \cup {NULL},
           UNCHANGED <<interpreter_array, running_threads, state, tid, memory,
                       thread, next_tid, terms, joined>>
    PROVE  IInv'
<1>1. TypeOK'
  BY DEF IInv, TypeOK, Parrot_exit
<1>2. MainStays' /\ SlotsAgree' /\ LifeOrder' /\ BitsAgree' /\ CounterAgrees'
  BY DEF IInv, MainStays, SlotsAgree, LifeOrder, BitsAgree, CounterAgrees, Counted, Tids
<1>3. /\ \A b \in Interp : pc'[b] = IF b = a THEN "exit" ELSE pc[b]
      /\ \A b \in Interp \ {a} : other'[b] = other[b]
  BY DEF IInv, TypeOK, Parrot_exit
<1>4. JoinersAgree'
  BY <1>3 DEF IInv, JoinersAgree
<1> QED BY <1>1, <1>2, <1>4 DEF IInv

LEMMA RefusedKeeps ==
    ASSUME IInv, NEW a \in Interp, NEW k, RefusedTid(a, k) \/ RefusedJoin(a, k)
    PROVE  IInv'
<1>1. /\ pc[a] = "run" /\ Parrot_exit(a)
      /\ UNCHANGED <<interpreter_array, running_threads, state, tid, memory, thread,
                     other, next_tid, interpreter_array_mutex, terms, joined>>
  BY DEF RefusedTid, RefusedJoin, Runs
<1>2. interpreter_array_mutex' \in Interp \cup {NULL}
  BY <1>1 DEF IInv, TypeOK
<1> QED BY <1>1, <1>2, ExitKeeps

LEMMA MainExitsKeeps ==
    ASSUME IInv, MainExits
    PROVE  IInv'
<1>1. /\ pc[Main] = "run" /\ Parrot_exit(Main)
      /\ UNCHANGED <<interpreter_array, running_threads, state, tid, memory, thread,
                     other, next_tid, interpreter_array_mutex, terms, joined>>
  BY DEF MainExits, Runs
<1>2. interpreter_array_mutex' \in Interp \cup {NULL}
  BY <1>1 DEF IInv, TypeOK
<1> QED BY <1>1, <1>2, MainAssumption, ExitKeeps

\* A clone that fails: the thread that was joined stays in its slot, marked,
\* so that nobody joins or destroys it again.
LEMMA CloneFailsKeeps ==
    ASSUME IInv, NEW a \in Interp, JoinCloneFails(a)
    PROVE  IInv'
<1>1. /\ pc[a] = "joined"
      /\ other' = [other EXCEPT ![a] = NULL]
      /\ UNCHANGED <<interpreter_array, running_threads, state, tid, memory, thread,
                     next_tid, terms, joined>>
  BY DEF JoinCloneFails
<1>2. interpreter_array_mutex' \in Interp \cup {NULL}
  BY DEF JoinCloneFails
<1>3. CASE Parrot_exit(a)
  BY <1>1, <1>2, <1>3, ExitKeeps
<1>4. CASE pc' = [pc EXCEPT ![a] = "run"]
  <2>1. TypeOK'
    BY <1>1, <1>2, <1>4 DEF IInv, TypeOK
  <2>2. MainStays' /\ SlotsAgree' /\ LifeOrder' /\ BitsAgree' /\ CounterAgrees'
    BY <1>1 DEF IInv, MainStays, SlotsAgree, LifeOrder, BitsAgree, CounterAgrees,
                Counted, Tids
  <2>3. /\ \A b \in Interp : pc'[b] = IF b = a THEN "run" ELSE pc[b]
        /\ \A b \in Interp \ {a} : other'[b] = other[b]
    BY <1>1, <1>4 DEF IInv, TypeOK
  <2>4. JoinersAgree'
    BY <1>1, <2>3 DEF IInv, JoinersAgree
  <2> QED BY <2>1, <2>2, <2>4 DEF IInv
<1> QED BY <1>3, <1>4 DEF JoinCloneFails

-----------------------------------------------------------------------------
\* Every step of every interpreter keeps the invariant, if no JOIN of
\* pt_thread_join returns before the thread has ended.
LEMMA NextKeepsIInv ==
    ASSUME JoinErrors => \A a \in Interp : pc[a] # "join"
    PROVE  IInv /\ [Next]_vars => IInv'
<1> SUFFICES ASSUME IInv, [Next]_vars PROVE IInv'
  OBVIOUS
<1>1. CASE UNCHANGED vars
  BY <1>1 DEF vars, IInv, TypeOK, MainStays, SlotsAgree, LifeOrder, BitsAgree,
              JoinersAgree, CounterAgrees, Counted, Tids
<1>2. CASE Next
  <2>1. ASSUME NEW a \in Interp, NEW i \in Interp,
               pt_add_to_interpreters(a, i) \/ pt_thread_run(a, i)
        PROVE  IInv'
    BY <2>1, AddKeeps, RunKeeps
  <2>2. ASSUME NEW a \in Interp, NEW k \in 0 .. MaxSlots, RefusedTid(a, k)
        PROVE  IInv'
    BY <2>2, RefusedKeeps
  <2>3. ASSUME NEW a \in Interp, NEW k \in Tids,
               \/ JoinStart(a, k) \/ RefusedJoin(a, k)
               \/ pt_thread_detach(a, k) \/ KillDetach(a, k)
        PROVE  IInv'
    BY <2>3, JoinStartKeeps, RefusedKeeps, ThreadDetachKeeps, KillDetachKeeps
  <2>4. ASSUME NEW a \in Interp, JoinReturns(a)
        PROVE  IInv'
    BY <2>4, JoinReturnsKeeps
  <2>5. ASSUME NEW a \in Interp, JoinFinish(a) \/ JoinCloneFails(a)
        PROVE  IInv'
    BY <2>5, JoinFinishKeeps, CloneFailsKeeps
  <2>6. ASSUME NEW a \in Interp, KillSend(a) \/ Deliver(a)
        PROVE  IInv'
    BY <2>6, KillSendKeeps, DeliverKeeps
  <2>7. ASSUME NEW a \in Interp, thread_func(a) \/ pt_join_threads(a)
        PROVE  IInv'
    BY <2>7, ThreadFuncKeeps, JoinThreadsKeeps
  <2> QED BY <1>2, <2>1, <2>2, <2>3, <2>4, <2>5, <2>6, <2>7, MainExitsKeeps DEF Next
<1> QED BY <1>1, <1>2

\* The state bits, the slots, the memory of the interpreters, the joiners and
\* the counter agree in every state, for every program, although errors make
\* any thread leave the process through pt_join_threads.
THEOREM Invariance == ASSUME ~ JoinErrors PROVE Spec => []IInv
<1>1. IInv /\ [Next]_vars => IInv'
  BY NextKeepsIInv
<1> QED BY <1>1, InitIInv, PTL DEF Spec

\* The variables of thread.c keep their types.
THEOREM TypeCorrect == ASSUME ~ JoinErrors PROVE Spec => []TypeOK
<1>1. IInv => TypeOK
  BY DEF IInv
<1> QED BY <1>1, Invariance, PTL

\* thread_func never finds another interpreter in the slot of its thread.
THEOREM OwnSlot == ASSUME ~ JoinErrors PROVE Spec => []InItsSlot
<1>1. IInv => InItsSlot
  BY DEF IInv, InItsSlot, SlotsAgree, LifeOrder
<1> QED BY <1>1, Invariance, PTL

\* No interpreter is destroyed while its thread runs or while the array still
\* refers to it, whoever joins, detaches or kills.
THEOREM DestroyedIsGone == ASSUME ~ JoinErrors PROVE Spec => []NoDeadInterpreter
<1>1. IInv => NoDeadInterpreter
  <2> SUFFICES ASSUME IInv PROVE NoDeadInterpreter
    OBVIOUS
  <2>1. NULL \notin Interp
    BY MainAssumption
  <2> QED BY <2>1 DEF IInv, NoDeadInterpreter, SlotsAgree, LifeOrder
<1> QED BY <1>1, Invariance, PTL

\* A join finds the interpreter it has marked when the thread has ended.
THEOREM JoinFindsInterpreter == ASSUME ~ JoinErrors PROVE Spec => []JoinedIsThere
<1>1. IInv => JoinedIsThere
  BY DEF IInv, JoinedIsThere, SlotsAgree, JoinersAgree
<1> QED BY <1>1, Invariance, PTL

\* running_threads is never smaller than the number of threads that run.
THEOREM CounterCovers == ASSUME ~ JoinErrors PROVE Spec => []CountsThreads
<1>1. IInv => CountsThreads
  <2> SUFFICES ASSUME IInv PROVE CountsThreads
    OBVIOUS
  <2> DEFINE R == {i \in Interp : i # Main /\ thread[i] = "running"}
  <2>1. R \in SUBSET Counted
    BY DEF IInv, LifeOrder, Counted
  <2>2. Cardinality(R) <= Cardinality(Counted)
    BY <2>1, CountedFinite, FS_Subset
  <2> QED BY <2>2 DEF IInv, CountsThreads, CounterAgrees
<1> QED BY <1>1, Invariance, PTL

-----------------------------------------------------------------------------
(***************************************************************************)
(* Joins: what the refused join and the exit that follows it may do.       *)
(***************************************************************************)
JInv == IInv /\ JoinsAgree

LEMMA NextKeepsJInv ==
    ASSUME ~ JoinErrors
    PROVE  JInv /\ [Next]_vars => JInv'
<1> SUFFICES ASSUME JInv, [Next]_vars PROVE JInv'
  OBVIOUS
<1>1. IInv'
  BY NextKeepsIInv DEF JInv
<1>2. IInv /\ JoinsAgree /\ state \in [Interp -> SUBSET Bits]
  BY DEF JInv, IInv, TypeOK
<1> SUFFICES JoinsAgree'
  BY <1>1 DEF JInv
<1>3. ASSUME joined' = joined, \A j \in Interp : "JOINED" \in state[j] => "JOINED" \in state'[j]
      PROVE  JoinsAgree'
  BY <1>2, <1>3 DEF JoinsAgree
<1>4. ASSUME NEW i \in Interp, joined' = joined \cup {i},
             state' = [state EXCEPT ![i] = @ \cup {"JOINED"}]
      PROVE  JoinsAgree'
  BY <1>2, <1>4 DEF JoinsAgree
<1>5. ASSUME UNCHANGED <<state, joined>> PROVE JoinsAgree'
  BY <1>3, <1>5
<1>6. ASSUME NEW a \in Interp, NEW i \in Interp,
             pt_add_to_interpreters(a, i) \/ pt_thread_run(a, i)
      PROVE  JoinsAgree'
  <2>1. CASE pt_add_to_interpreters(a, i)
    BY <1>5, <2>1 DEF pt_add_to_interpreters
  <2>2. CASE pt_thread_run(a, i)
    <3>1. state' = state /\ joined' = joined
      BY <1>2, <2>2 DEF pt_thread_run, IInv, LifeOrder
    <3> QED BY <1>5, <3>1
  <2> QED BY <1>6, <2>1, <2>2
<1>7. ASSUME NEW a \in Interp, NEW k, RefusedTid(a, k) \/ RefusedJoin(a, k)
      PROVE  JoinsAgree'
  BY <1>5, <1>7 DEF RefusedTid, RefusedJoin
<1>8. ASSUME NEW a \in Interp, NEW k \in Tids, JoinStart(a, k)
      PROVE  JoinsAgree'
  <2>1. interpreter_array[k] \in Interp
    BY <1>2, <1>8, ValidInterp DEF JoinStart
  <2> QED BY <1>4, <1>8, <2>1 DEF JoinStart
<1>9. ASSUME NEW a \in Interp, NEW k \in Tids, pt_thread_detach(a, k) \/ KillDetach(a, k)
      PROVE  JoinsAgree'
  <2>1. /\ DetachStep(k)
        /\ UNCHANGED <<running_threads, tid, thread, next_tid,
                       interpreter_array_mutex, terms, joined>>
    BY <1>9 DEF pt_thread_detach, KillDetach
  <2>2. \A j \in Interp : "JOINED" \in state'[j] <=> "JOINED" \in state[j]
    BY <1>2, <2>1, DetachKeeps
  <2> QED BY <1>3, <2>1, <2>2
<1>10. ASSUME NEW a \in Interp,
              \/ JoinReturns(a) \/ JoinFinish(a) \/ JoinCloneFails(a)
              \/ KillSend(a) \/ Deliver(a)
       PROVE  JoinsAgree'
  <2>1. UNCHANGED <<state, joined>>
    BY <1>10 DEF JoinReturns, JoinFinish, JoinCloneFails, KillSend, Deliver
  <2> QED BY <1>5, <2>1
<1>11. ASSUME NEW a \in Interp, thread_func(a) PROVE JoinsAgree'
  <2>1. joined' = joined /\ \A j \in Interp : "JOINED" \in state[j] => "JOINED" \in state'[j]
    BY <1>2, <1>11 DEF thread_func
  <2> QED BY <1>3, <2>1
<1>12. ASSUME NEW a \in Interp, pt_join_threads(a) PROVE JoinsAgree'
  <2>1. CASE LeavesLoop(a)
    BY <1>5, <2>1 DEF LeavesLoop
  <2>2. ASSUME NEW k \in Tids, WaitsFor(a, k) PROVE JoinsAgree'
    <3>1. interpreter_array[k] \in Interp
      BY <1>2, <2>2, ThreadToWaitFor
    <3> QED BY <1>4, <2>2, <3>1 DEF WaitsFor
  <2> QED BY <1>12, <2>1, <2>2 DEF pt_join_threads
<1>13. CASE MainExits
  BY <1>5, <1>13 DEF MainExits
<1>14. CASE UNCHANGED vars
  BY <1>5, <1>14 DEF vars
<1> QED BY <1>6, <1>7, <1>8, <1>9, <1>10, <1>11, <1>12, <1>13, <1>14 DEF Next

\* JOIN is called by the two actions that say so.
LEMMA WhoCallsJoin ==
    ASSUME IInv, [Next]_vars, NEW a \in Interp, NEW i \in Interp, CallsJoin(a, i)
    PROVE  \E k \in Tids : /\ interpreter_array[k] = i
                           /\ JoinStart(a, k) \/ (WaitsFor(a, k) /\ pc[a] = "exit")
<1>1. /\ pc \in [Interp -> {"run", "join", "joined", "kill", "exit",
                            "exit_join", "exited", "ended"}]
      /\ other \in [Interp -> Interp \cup {NULL}]
  BY DEF IInv, TypeOK
<1>2. pc'[a] # pc[a] /\ pc[a] \in {"run", "exit"} /\ other'[a] = i
      /\ pc'[a] \in {"join", "exit_join"}
  BY DEF CallsJoin
<1>3. ASSUME NEW b \in Interp, NEW p, p \notin {"join", "exit_join"},
             pc' = [pc EXCEPT ![b] = p]
      PROVE  FALSE
  BY <1>1, <1>2, <1>3
<1>4. ASSUME pc' = pc PROVE FALSE
  BY <1>2, <1>4
<1>5. ASSUME NEW b \in Interp, NEW j \in Interp,
             pt_add_to_interpreters(b, j) \/ pt_thread_run(b, j)
      PROVE  FALSE
  BY <1>4, <1>5 DEF pt_add_to_interpreters, pt_thread_run
<1>6. ASSUME NEW b \in Interp, NEW k, RefusedTid(b, k) \/ RefusedJoin(b, k)
      PROVE  FALSE
  <2>1. pc' = [pc EXCEPT ![b] = "exit"]
    BY <1>6 DEF RefusedTid, RefusedJoin, Parrot_exit
  <2> QED BY <1>3, <2>1
<1>7. ASSUME NEW b \in Interp, NEW k \in Tids, JoinStart(b, k)
      PROVE  /\ b = a /\ interpreter_array[k] = i
  <2>1. /\ pc' = [pc EXCEPT ![b] = "join"]
        /\ other' = [other EXCEPT ![b] = interpreter_array[k]]
    BY <1>7 DEF JoinStart
  <2> QED BY <1>1, <1>2, <2>1
<1>8. ASSUME NEW b \in Interp, NEW k \in Tids, pt_thread_detach(b, k) \/ KillDetach(b, k)
      PROVE  FALSE
  <2>1. pc' = pc \/ pc' = [pc EXCEPT ![b] = "kill"]
    BY <1>8 DEF pt_thread_detach, KillDetach
  <2> QED BY <1>3, <1>4, <2>1
<1>9. ASSUME NEW b \in Interp, JoinReturns(b)
      PROVE  FALSE
  <2>1. pc' = [pc EXCEPT ![b] = "joined"] \/ pc' = [pc EXCEPT ![b] = "exit"]
    BY <1>1, <1>9 DEF JoinReturns
  <2> QED BY <1>3, <2>1
<1>10. ASSUME NEW b \in Interp,
              \/ JoinFinish(b) \/ JoinCloneFails(b) \/ KillSend(b) \/ Deliver(b)
              \/ thread_func(b)
       PROVE  FALSE
  <2>1. \/ pc' = pc \/ pc' = [pc EXCEPT ![b] = "run"]
        \/ pc' = [pc EXCEPT ![b] = "exit"] \/ pc' = [pc EXCEPT ![b] = "ended"]
    BY <1>10 DEF JoinFinish, JoinCloneFails, Parrot_exit, KillSend, Deliver, thread_func
  <2> QED BY <1>3, <1>4, <2>1
<1>11. ASSUME NEW b \in Interp, pt_join_threads(b)
       PROVE  /\ b = a /\ pc[b] = "exit"
              /\ \E k \in Tids : WaitsFor(b, k) /\ interpreter_array[k] = i
  <2>1. CASE LeavesLoop(b)
    BY <1>3, <2>1 DEF LeavesLoop
  <2>2. ASSUME NEW k \in Tids, WaitsFor(b, k)
        PROVE  b = a /\ interpreter_array[k] = i
    <3>1. /\ pc' = [pc EXCEPT ![b] = "exit_join"]
          /\ other' = [other EXCEPT ![b] = interpreter_array[k]]
      BY <2>2 DEF WaitsFor
    <3> QED BY <1>1, <1>2, <3>1
  <2> QED BY <1>11, <2>1, <2>2 DEF pt_join_threads
<1>12. ASSUME MainExits PROVE FALSE
  BY <1>3, <1>12, MainAssumption DEF MainExits, Parrot_exit
<1>13. ASSUME UNCHANGED vars PROVE FALSE
  BY <1>4, <1>13 DEF vars
<1> QED BY <1>5, <1>6, <1>7, <1>8, <1>9, <1>10, <1>11, <1>12, <1>13 DEF Next

\* Nobody joins a detached thread, and pt_thread_join joins no thread that was
\* joined before, by a join that is under way, that failed, or by an exit.
THEOREM JoinedOnce == ASSUME ~ JoinErrors PROVE Spec => JoinOnce
<1>1. Init => JInv
  BY InitIInv DEF Init, JInv, JoinsAgree
<1>2. JInv /\ [Next]_vars => JInv'
  BY NextKeepsJInv
<1> DEFINE Once == \A a, i \in Interp : CallsJoin(a, i) =>
                      /\ "DETACHED" \notin state[i]
                      /\ pc[a] = "run" => i \notin joined
<1>3. JInv /\ [Next]_vars => [Once]_vars
  <2> SUFFICES ASSUME JInv, [Next]_vars, NEW a \in Interp, NEW i \in Interp,
                      CallsJoin(a, i)
               PROVE  "DETACHED" \notin state[i] /\ (pc[a] = "run" => i \notin joined)
    OBVIOUS
  <2>1. PICK k \in Tids : /\ interpreter_array[k] = i
                          /\ JoinStart(a, k) \/ (WaitsFor(a, k) /\ pc[a] = "exit")
    BY WhoCallsJoin DEF JInv
  <2>2. CASE JoinStart(a, k)
    BY <2>1, <2>2 DEF JoinStart, Joinable, JInv, JoinsAgree
  <2>3. CASE WaitsFor(a, k) /\ pc[a] = "exit"
    BY <2>1, <2>3, ThreadToWaitFor DEF JInv
  <2> QED BY <2>1, <2>2, <2>3
<1> HIDE DEF Once
<1>4. Spec => [][Once]_vars
  BY <1>1, <1>2, <1>3, PTL DEF Spec
<1> QED BY <1>4 DEF Once, JoinOnce

-----------------------------------------------------------------------------
(***************************************************************************)
(* The exit of the first interpreter.                                      *)
(***************************************************************************)
EInv == IInv /\ ExitAgrees

\* The programs that leave the joining to the exit of the first interpreter
LeftToExit == uses \subseteq {"exit"}

\* When the loop of pt_join_threads finds no thread to wait for, all have
\* ended.
LEMMA NobodyLeft ==
    ASSUME IInv, ExitAgrees, ToWaitFor(Main) = {}, pc[Main] = "exit"
    PROVE  \A i \in Interp \ {Main} : thread[i] # "running"
<1> SUFFICES ASSUME NEW i \in Interp, i # Main, thread[i] = "running"
             PROVE  FALSE
  OBVIOUS
<1>1. memory[i] = "alive" /\ tid[i] \in Tids /\ interpreter_array[tid[i]] = i
  BY DEF IInv, LifeOrder, SlotsAgree
<1>2. next_tid[Main] \in Nat /\ tid[i] \in Nat
  BY SlotsAssumption, MainAssumption DEF IInv, TypeOK
<1>3. tid[i] >= next_tid[Main]
  BY <1>1, <1>2 DEF ExitAgrees
<1>4. "JOINED" \notin state[i] /\ "DETACHED" \notin state[i]
  BY <1>2, <1>3 DEF ExitAgrees
<1>5. state[i] = {} \/ "FINISHED" \in state[i]
  BY <1>4 DEF IInv, TypeOK, Bits
<1>6. tid[i] \in ToWaitFor(Main)
  BY <1>1, <1>3, <1>5, MainAssumption DEF ToWaitFor
<1> QED BY <1>6

\* A new interpreter gets a slot behind all others.
LEMMA AddKeepsExit ==
    ASSUME IInv, ExitAgrees, uses' = uses,
           NEW a \in Interp, NEW i \in Interp, pt_add_to_interpreters(a, i)
    PROVE  ExitAgrees'
<1> DEFINE empty == {k \in Tids : interpreter_array[k] = NULL}
<1>0. next_tid[Main] \in Nat /\ next_tid[Main] > 0 /\ \A j \in Interp : tid[j] \in Nat
  BY SlotsAssumption, MainAssumption DEF IInv, TypeOK
<1>1. empty = {}
  BY DEF ExitAgrees
<1>2. PICK n \in 1 .. MaxSlots : Tids = 0 .. n-1 /\ FreshSlot = n
  BY ArrayShape DEF IInv
<1>3. /\ memory[i] = "none" /\ thread[i] = "none" /\ state[i] = {} /\ i # Main
      /\ pc[Main] # "exited"
  <2>1. memory[i] = "none" /\ Runs(a)
    BY DEF pt_add_to_interpreters
  <2>2. pc[Main] # "exited"
    BY <2>1 DEF ExitAgrees, Runs
  <2> QED BY <2>1, <2>2 DEF IInv, LifeOrder, MainStays
<1>4. /\ interpreter_array' =
            [k \in Tids \cup {n} |-> IF k = n THEN i ELSE interpreter_array[k]]
      /\ tid' = [tid EXCEPT ![i] = n]
      /\ memory' = [memory EXCEPT ![i] = "alive"]
      /\ UNCHANGED <<state, thread, pc, other, next_tid>>
  BY <1>1, <1>2 DEF pt_add_to_interpreters
<1> HIDE DEF empty
<1>5. next_tid[Main] <= n /\ next_tid[Main] - 1 \in Tids'
  <2>1. next_tid[Main] - 1 \in 0 .. n-1
    BY <1>2 DEF ExitAgrees
  <2>2. Tids' = Tids \cup {n}
    BY <1>4 DEF Tids
  <2> QED BY <1>0, <1>2, <2>1, <2>2
<1>6. \A k \in Tids' : interpreter_array'[k] # NULL
  BY <1>4, MainAssumption DEF ExitAgrees, Tids
<1>7. \A j \in Interp : /\ memory'[j] = IF j = i THEN "alive" ELSE memory[j]
                        /\ tid'[j] = IF j = i THEN n ELSE tid[j]
  BY <1>4 DEF IInv, TypeOK
<1>8. ~ (n < next_tid[Main])
  BY <1>0, <1>2, <1>5
<1>9. UNCHANGED <<state, thread, pc, other, next_tid>>
  BY <1>4
<1>10. /\ \A j \in Interp \ {Main} : "JOINED" \in state[j] => tid'[j] < next_tid[Main]
       /\ \A j \in Interp \ {Main} :
             memory'[j] = "alive" /\ tid'[j] < next_tid[Main] =>
                 \/ thread[j] = "ended"
                 \/ pc[Main] = "exit_join" /\ other[Main] = j
  BY <1>3, <1>7, <1>8 DEF ExitAgrees
<1> QED BY <1>3, <1>5, <1>6, <1>7, <1>9, <1>10 DEF ExitAgrees

LEMMA RunKeepsExit ==
    ASSUME IInv, ExitAgrees, uses' = uses,
           NEW a \in Interp, NEW i \in Interp, pt_thread_run(a, i)
    PROVE  ExitAgrees'
<1>1. state' = state /\ memory[i] = "alive" /\ thread[i] = "none" /\ Runs(a)
  BY DEF pt_thread_run, IInv, LifeOrder, TypeOK
<1>2. pc[Main] # "exited"
  BY <1>1 DEF ExitAgrees, Runs
<1>3. /\ \A j \in Interp : j # i => thread'[j] = thread[j]
      /\ UNCHANGED <<interpreter_array, tid, memory, pc, other, next_tid>>
  BY DEF pt_thread_run, IInv, TypeOK
<1>4. i # Main /\ tid[i] < next_tid[Main] => pc[Main] = "exit_join" /\ other[Main] = i
  BY <1>1 DEF ExitAgrees
<1> QED BY <1>1, <1>2, <1>3, <1>4 DEF ExitAgrees, Tids

LEMMA ThreadFuncKeepsExit ==
    ASSUME IInv, ExitAgrees, uses' = uses, NEW i \in Interp, thread_func(i)
    PROVE  ExitAgrees'
<1>1. /\ i # Main
      /\ state' = [state EXCEPT ![i] = @ \cup {"FINISHED"}]
      /\ thread' = [thread EXCEPT ![i] = "ended"]
      /\ pc' = [pc EXCEPT ![i] = "ended"]
      /\ UNCHANGED <<interpreter_array, tid, memory, other, next_tid>>
  BY DEF thread_func, ExitAgrees
<1>2. /\ \A j \in Interp : j # i => /\ state'[j] = state[j] /\ thread'[j] = thread[j]
                                   /\ pc'[j] = pc[j]
      /\ thread'[i] = "ended" /\ pc'[i] = "ended"
      /\ state'[i] = state[i] \cup {"FINISHED"}
  BY <1>1 DEF IInv, TypeOK
<1> QED BY <1>1, <1>2, MainAssumption DEF ExitAgrees, Tids

\* The loop of pt_join_threads keeps behind it only threads that have ended.
LEMMA JoinThreadsKeepsExit ==
    ASSUME IInv, ExitAgrees, uses' = uses, NEW a \in Interp, pt_join_threads(a)
    PROVE  ExitAgrees'
<1>0. next_tid[Main] \in Nat /\ next_tid[Main] > 0 /\ \A j \in Interp : tid[j] \in Nat
  BY SlotsAssumption, MainAssumption DEF IInv, TypeOK
<1>1. /\ a = Main /\ pc[Main] = "exit"
      /\ UNCHANGED <<interpreter_array, tid, memory, thread>>
  BY DEF pt_join_threads, ExitAgrees
<1>2. CASE LeavesLoop(Main)
  <2>1. /\ pc' = [pc EXCEPT ![Main] = "exited"] /\ ToWaitFor(Main) = {}
        /\ UNCHANGED <<interpreter_array, state, tid, memory, thread, next_tid>>
    BY <1>1, <1>2 DEF LeavesLoop
  <2>2. \A i \in Interp \ {Main} : thread[i] # "running"
    BY <1>1, <2>1, NobodyLeft
  <2>3. /\ pc'[Main] = "exited"
        /\ \A j \in Interp : j # Main => pc'[j] = pc[j]
    BY <2>1, MainAssumption DEF IInv, TypeOK
  <2> QED BY <1>1, <2>1, <2>2, <2>3 DEF ExitAgrees, Tids
<1>3. ASSUME NEW k \in Tids, WaitsFor(Main, k)
      PROVE  ExitAgrees'
  <2> DEFINE i == interpreter_array[k]
  <2>1. /\ state' = [state EXCEPT ![i] = @ \cup {"JOINED"}]
        /\ next_tid' = [next_tid EXCEPT ![Main] = Following(k)]
        /\ pc' = [pc EXCEPT ![Main] = "exit_join"]
        /\ other' = [other EXCEPT ![Main] = i]
        /\ \A j \in ToWaitFor(Main) : k <= j
    BY <1>3 DEF WaitsFor
  <2>2. /\ i \in Interp /\ i # Main /\ tid[i] = k /\ next_tid[Main] <= k /\ k \in Nat
    BY <1>3, MainAssumption, ThreadToWaitFor
  <2>3. interpreter_array[k] = i
    OBVIOUS
  <2> HIDE DEF i
  <2>4. next_tid'[Main] = k + 1
    BY <2>1, MainAssumption DEF Following, IInv, TypeOK
  <2>5. /\ pc'[Main] = "exit_join" /\ other'[Main] = i
        /\ state'[i] = state[i] \cup {"JOINED"}
        /\ \A j \in Interp : j # Main => pc'[j] = pc[j]
        /\ \A j \in Interp : j # i => state'[j] = state[j]
    BY <2>1, <2>2, MainAssumption DEF IInv, TypeOK
  <2>6. ASSUME NEW j \in Interp \ {Main}, memory[j] = "alive", tid[j] < k + 1, j # i
        PROVE  thread[j] = "ended"
    <3>1. tid[j] \in Tids /\ interpreter_array[tid[j]] = j
      BY <2>6 DEF IInv, SlotsAgree
    <3>2. tid[j] # k
      BY <2>3, <2>6, <3>1
    <3>3. CASE tid[j] < next_tid[Main]
      BY <1>1, <2>6, <3>3 DEF ExitAgrees
    <3>4. CASE tid[j] >= next_tid[Main]
      <4>1. tid[j] \notin ToWaitFor(Main)
        BY <1>0, <2>1, <2>2, <2>6, <3>2
      <4>2. "JOINED" \notin state[j] /\ "DETACHED" \notin state[j]
        BY <1>0, <2>6, <3>4 DEF ExitAgrees
      <4>3. state[j] = {} \/ "FINISHED" \in state[j]
        <5>1. state[j] \subseteq Bits
          BY DEF IInv, TypeOK
        <5> QED BY <5>1, <4>2 DEF Bits
      <4> QED BY <3>1, <3>4, <4>1, <4>3, MainAssumption DEF ToWaitFor, IInv, LifeOrder
    <3> QED BY <1>0, <3>3, <3>4
  <2>7. \A j \in Interp \ {Main} : "JOINED" \in state'[j] => tid'[j] < next_tid'[Main]
    <3>1. \A j \in Interp \ {Main} : "JOINED" \in state[j] => tid[j] < next_tid[Main]
      BY DEF ExitAgrees
    <3> QED BY <1>0, <1>1, <2>2, <2>4, <2>5, <3>1
  <2>8. /\ \A j \in Interp : pc'[j] \notin {"join", "joined", "kill"}
        /\ \A j \in Interp \ {Main} : pc'[j] \notin {"exit", "exit_join", "exited"}
        /\ \A j \in Interp : /\ memory'[j] \in {"none", "alive"}
                             /\ "DETACHED" \notin state'[j]
        /\ \A l \in Tids' : interpreter_array'[l] # NULL
    BY <1>1, <2>5 DEF ExitAgrees, Tids
  <2>9. next_tid'[Main] - 1 \in Tids'
    BY <1>1, <1>3, <2>2, <2>4 DEF Tids
  <2>10. uses' \subseteq {"exit"}
    BY DEF ExitAgrees
  <2>11. \A j \in Interp \ {Main} :
             memory'[j] = "alive" /\ tid'[j] < next_tid'[Main] =>
                 thread'[j] = "ended" \/ other'[Main] = j
    BY <1>1, <2>4, <2>5, <2>6
  <2> QED BY <2>2, <2>5, <2>7, <2>8, <2>9, <2>10, <2>11 DEF ExitAgrees
<1> QED BY <1>1, <1>2, <1>3 DEF pt_join_threads

LEMMA NextKeepsEInv == EInv /\ [Next]_vars => EInv'
<1> SUFFICES ASSUME EInv, [Next]_vars PROVE EInv'
  OBVIOUS
<1>1. IInv /\ ExitAgrees /\ \A a \in Interp : pc[a] # "join"
  BY DEF EInv, ExitAgrees
<1>2. IInv'
  BY <1>1, NextKeepsIInv
<1>3. uses' = uses
  BY DEF Next, vars
<1> SUFFICES ExitAgrees'
  BY <1>2 DEF EInv
<1>4. "join" \notin uses /\ "detach" \notin uses /\ "kill" \notin uses
  BY <1>1 DEF ExitAgrees
<1>5. CASE UNCHANGED vars
  BY <1>1, <1>5 DEF ExitAgrees, vars, Tids
<1>6. ASSUME NEW a \in Interp, NEW i \in Interp,
             pt_add_to_interpreters(a, i) \/ pt_thread_run(a, i)
      PROVE  ExitAgrees'
  BY <1>1, <1>3, <1>6, AddKeepsExit, RunKeepsExit
<1>7. ASSUME NEW a \in Interp, NEW k,
             \/ JoinStart(a, k) \/ RefusedJoin(a, k) \/ RefusedTid(a, k)
             \/ pt_thread_detach(a, k) \/ KillDetach(a, k)
      PROVE  FALSE
  BY <1>4, <1>7 DEF JoinStart, RefusedJoin, RefusedTid, pt_thread_detach, KillDetach
<1>8. ASSUME NEW a \in Interp, JoinFinish(a) \/ JoinCloneFails(a) \/ KillSend(a)
      PROVE  FALSE
  BY <1>1, <1>8 DEF JoinFinish, JoinCloneFails, KillSend, ExitAgrees
<1>9. ASSUME NEW a \in Interp, JoinReturns(a)
      PROVE  ExitAgrees'
  <2>1. /\ a = Main /\ pc[Main] = "exit_join" /\ other[Main] # Main
        /\ other[Main] \in Interp
    BY <1>1, <1>9 DEF JoinReturns, ExitAgrees, IInv, JoinersAgree
  <2>2. ~ Circular(Main)
    BY <1>1, <2>1 DEF Circular, ExitAgrees
  <2>3. /\ thread[other[Main]] = "ended"
        /\ pc' = [pc EXCEPT ![Main] = "exit"]
        /\ UNCHANGED <<interpreter_array, state, tid, memory, thread, other, next_tid>>
    BY <1>9, <2>1, <2>2 DEF JoinReturns
  <2>4. /\ pc'[Main] = "exit"
        /\ \A j \in Interp : j # Main => pc'[j] = pc[j]
    BY <1>1, <2>3, MainAssumption DEF IInv, TypeOK
  <2> QED BY <1>1, <1>3, <2>1, <2>3, <2>4 DEF ExitAgrees, Tids
<1>10. ASSUME NEW a \in Interp, Deliver(a)
       PROVE  ExitAgrees'
  BY <1>1, <1>3, <1>10 DEF Deliver, ExitAgrees, Tids
<1>11. ASSUME NEW a \in Interp, thread_func(a) \/ pt_join_threads(a)
       PROVE  ExitAgrees'
  BY <1>1, <1>3, <1>11, ThreadFuncKeepsExit, JoinThreadsKeepsExit
<1>12. CASE MainExits
  <2>1. /\ pc[Main] = "run" /\ pc' = [pc EXCEPT ![Main] = "exit"]
        /\ UNCHANGED <<interpreter_array, state, tid, memory, thread, other, next_tid>>
    BY <1>12 DEF MainExits, Parrot_exit, Runs
  <2>2. /\ pc'[Main] = "exit"
        /\ \A j \in Interp : j # Main => pc'[j] = pc[j]
    BY <1>1, <2>1, MainAssumption DEF IInv, TypeOK
  <2> QED BY <1>1, <1>3, <2>1, <2>2 DEF ExitAgrees, Tids
<1> QED BY <1>5, <1>6, <1>7, <1>8, <1>9, <1>10, <1>11, <1>12 DEF Next

\* The first interpreter is destroyed only after every thread of a program
\* that leaves the joining to the exit has ended.
THEOREM ExitWaitsForThreads == Spec => []ExitWaits
<1> DEFINE G == LeftToExit => EInv
<1>1. Init => G
  <2> SUFFICES ASSUME Init, LeftToExit PROVE EInv
    OBVIOUS
  <2>1. IInv
    BY InitIInv
  <2>2. ExitAgrees
    BY MainAssumption DEF Init, ExitAgrees, Tids, LeftToExit
  <2> QED BY <2>1, <2>2 DEF EInv
<1>2. G /\ [Next]_vars => G'
  <2>1. [Next]_vars => uses' = uses
    BY DEF Next, vars
  <2>2. EInv /\ [Next]_vars => EInv'
    BY NextKeepsEInv
  <2> QED BY <2>1, <2>2 DEF LeftToExit
<1>3. G => ExitWaits
  BY DEF EInv, ExitAgrees, ExitWaits, LeftToExit, Runs
<1> HIDE DEF G
<1> QED BY <1>1, <1>2, <1>3, PTL DEF Spec
=============================================================================
