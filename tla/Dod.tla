--------------------------------- MODULE Dod ---------------------------------
(* Dead object detection: the header pools of src/smallobject.c and          *)
(* src/headers.c, the mark and sweep of src/dod.c, and the ops of            *)
(* ops/core.ops that drive them.                                             *)
(*                                                                           *)
(* A PMC is "ext" (it has a PMC_EXT with metadata, and data that may refer   *)
(* to a PMC or a buffer) or not: then a mark vtable function marks its data  *)
(* (Ref, PerlString), or it has none. The program works on PMC registers and *)
(* one string register; Globals stands for the interpreter globals and the   *)
(* stashes, which are always marked. One arena per pool.                     *)
(*                                                                           *)
(* The is_special flag only avoids touching PMCs for which mark_special does *)
(* nothing, and is left out. A call of pobject_lives that has been made but  *)
(* not carried out is an element of pending; the recursion through           *)
(* VTABLE_mark puts the marked object's data in front of it.                 *)
(* Two things are left open that only decide which of several possible steps *)
(* comes next. The order of the free lists: an allocation takes any free     *)
(* header. And whether more_traceable_objects does a DOD run or gets more    *)
(* memory: the code skips the run if pool->skip is set or DOD is blocked,    *)
(* and a program can block it around any op with sweepoff and sweepon.       *)
EXTENDS Integers, FiniteSets, SequencesExt, HeapGraph

CONSTANTS
  NULL,
  Pmcs, Bufs,  \* the headers in the arenas of the two pools
  Globals,     \* the PMC of the interpreter globals
  Regs,        \* the PMC registers, 1..n
  PmcInit,     \* PMC headers put onto the free list at first (1024)
  MaxRefs,     \* bound: references between objects that a program stores
  MaxEarly,    \* bound: executions of needs_destroy that are outstanding
  UintMod,     \* the number of values of a UINTVAL
  EarlyNested  \* may objects that need early DOD be put into containers?

ASSUME DodAssumption ==
  /\ Globals \in Pmcs /\ Pmcs \cap Bufs = {} /\ NULL \notin Pmcs \cup Bufs
  /\ IsFiniteSet(Pmcs) /\ IsFiniteSet(Bufs) /\ IsFiniteSet(Regs)
  /\ Regs = 1..Cardinality(Regs) /\ PmcInit \in 1..Cardinality(Pmcs)
  /\ MaxRefs \in Nat /\ MaxEarly \in Nat /\ UintMod \in Nat /\ UintMod > MaxEarly
  /\ EarlyNested \in BOOLEAN

Headers == Pmcs \cup Bufs
Pools == {"pmc", "buf"}
InPool(p) == IF p = "pmc" THEN Pmcs ELSE Bufs

VARIABLES
  ext,                \* the PMCs that have a PMC_EXT
  meta, data,         \* metadata and data pointers of the PMCs
  regs, sreg,         \* the PMC registers and the string register
  early,              \* PMCs with bit 28 set: needs_destroy was called
  hi,                 \* PMCs with bit 27 set: high priority
  num_early,          \* num_early_DOD_PMCs
  live,               \* headers with the live flag
  free,               \* the headers on the free lists
  fresh,              \* the headers of the arenas that were never on a free list
  phase,              \* what is running: "ops", "alloc", "roots", "trace", "more", "panic"
  lazy,               \* the flags of this DOD run
  words,              \* what this DOD run finds on the C stack
  seen,               \* num_early_PMCs_seen
  trace_ptr, mark_ptr, next,   \* the list of the objects to trace
  pending,            \* pobject_lives calls still to be made, in order
  todo, temps         \* an op that allocates: the pools it still needs objects
                      \* from, the headers it holds on the C stack

heapvars == <<ext, meta, data, regs, sreg>>
earlyvars == <<early, hi, num_early>>
poolvars == <<free, fresh>>
runvars == <<lazy, words, seen, trace_ptr, mark_ptr, next, pending>>
taskvars == <<todo, temps>>
vars == <<heapvars, earlyvars, live, poolvars, phase, runvars, taskvars>>

OnFreeList(h) == h \in free
Used == Headers \ (free \cup fresh)

\* A pointer that is followed if it is set.
IfSet(h) == IF h = NULL THEN <<>> ELSE <<h>>

\* What marking an object marks, in this order: trace_children does the
\* metadata first.
Contents(h) ==
  CASE h \in Bufs -> <<>>
    [] h \in ext  -> IfSet(meta[h]) \o IfSet(data[h])
    [] OTHER     -> IfSet(data[h])

\* PObj_needs_early_DOD_TEST: any of the two bits.
NeedsEarly(h) == h \in early \cup hi

----------------------------------------------------------------------------
(* Ops of the program. They run only between two DOD runs.                  *)

NotRunning == UNCHANGED <<live, poolvars, runvars, taskvars>>

Held == { regs[r] : r \in Regs } \ {NULL}

\* The object graph, and what the running program holds.
HeapRefs == [h \in Headers |-> IF h \in Used THEN Range(Contents(h)) ELSE {}]
Roots == Held \cup {Globals} \cup ({sreg} \ {NULL}) \cup Range(temps)

\* A container the program can store into: a register's PMC or a global.
Container(h) == h \in Held \cup {Globals}

RefCount == FoldFunction(+, 0, [h \in Pmcs |-> Len(Contents(h))])

Contained(h) == \E c \in Used \cap Pmcs : h \in Range(Contents(c))

StorePmc(c, h) ==
  /\ phase = "ops" /\ Container(c) /\ h \in Held \cup {NULL}
  /\ NeedsEarly(h) => EarlyNested
  /\ h # NULL => RefCount < MaxRefs
  /\ \/ data' = [data EXCEPT ![c] = h] /\ UNCHANGED meta
     \/ c \in ext /\ meta' = [meta EXCEPT ![c] = h] /\ UNCHANGED data
  /\ UNCHANGED <<ext, regs, sreg, earlyvars, phase>> /\ NotRunning

StoreString(c) ==
  /\ phase = "ops" /\ Container(c) /\ sreg # NULL /\ RefCount < MaxRefs
  /\ data' = [data EXCEPT ![c] = sreg]
  /\ UNCHANGED <<ext, meta, regs, sreg, earlyvars, phase>> /\ NotRunning

Load(r, c) ==
  /\ phase = "ops" /\ Container(c)
  /\ \E h \in Range(Contents(c)) :
       \/ h \in Pmcs /\ regs' = [regs EXCEPT ![r] = h] /\ UNCHANGED sreg
       \/ h \in Bufs /\ sreg' = h /\ UNCHANGED regs
  /\ UNCHANGED <<ext, meta, data, earlyvars, phase>> /\ NotRunning

NullRegister(r) ==
  /\ phase = "ops" /\ regs[r] # NULL
  /\ regs' = [regs EXCEPT ![r] = NULL]
  /\ UNCHANGED <<ext, meta, data, sreg, earlyvars, phase>> /\ NotRunning

NullString ==
  /\ phase = "ops" /\ sreg # NULL
  /\ sreg' = NULL
  /\ UNCHANGED <<ext, meta, data, regs, earlyvars, phase>> /\ NotRunning

needs_destroy(r) ==
  /\ phase = "ops" /\ regs[r] # NULL /\ num_early < MaxEarly
  /\ Contained(regs[r]) => EarlyNested
  /\ early' = early \cup {regs[r]}
  /\ hi' = hi \cup {regs[r]}
  /\ num_early' = num_early + 1
  /\ UNCHANGED <<heapvars, phase>> /\ NotRunning

----------------------------------------------------------------------------
(* Allocation: get_free_object, more_traceable_objects, alloc_objects.      *)

\* An op that makes one object, or an aggregate whose contents it makes while
\* only the C stack holds it (PerlString's string, the clone of a container).
New(pools) ==
  /\ phase = "ops"
  /\ Len(pools) = 2 => RefCount < MaxRefs
  /\ phase' = "alloc" /\ todo' = pools
  /\ UNCHANGED <<heapvars, earlyvars, live, poolvars, runvars, temps>>

\* get_free_pmc and get_free_buffer, when the free list has an object; the
\* vtable decides whether the PMC gets a PMC_EXT.
get_free_object ==
  /\ phase = "alloc" /\ todo # <<>>
  /\ LET p == Head(todo) IN
     \E h \in free \cap InPool(p) :
       /\ free' = free \ {h}
       /\ ext' \in {ext} \cup (IF p = "pmc" THEN {ext \cup {h}} ELSE {})
       /\ temps' = Append(temps, h)
  /\ todo' = Tail(todo)
  /\ UNCHANGED <<meta, data, regs, sreg, earlyvars, live, fresh, phase, runvars>>

\* The op stores what it made.
Made ==
  /\ phase = "alloc" /\ todo = <<>>
  /\ LET h == temps[1] IN
     /\ data' = IF Len(temps) = 2 THEN [data EXCEPT ![h] = temps[2]] ELSE data
     /\ \/ h \in Bufs /\ sreg' = h /\ regs' = regs
        \/ h \in Pmcs /\ sreg' = sreg /\ \E r \in Regs : regs' = [regs EXCEPT ![r] = h]
  /\ phase' = "ops" /\ temps' = <<>>
  /\ UNCHANGED <<ext, meta, earlyvars, live, poolvars, runvars, todo>>

\* alloc_objects with add_to_free_list: four times as many as there were, or
\* the rest of the arena. Another arena is not modelled: PANIC ends the run.
alloc_objects(p) ==
  LET have == InPool(p) \ fresh
      rest == InPool(p) \cap fresh
      n == Min({Max({3 * Cardinality(have), 1}), Cardinality(rest)}) IN
  \/ rest = {} /\ phase' = "panic" /\ UNCHANGED poolvars
  \/ /\ rest # {} /\ phase' = "alloc"
     /\ \E more \in kSubset(n, rest) : free' = free \cup more /\ fresh' = fresh \ more

\* The start of a DOD run: flags, and the root set up to the C stack.
StartRun(lz, ws) ==
  /\ phase' = "roots" /\ lazy' = lz /\ words' = ws /\ seen' = 0
  /\ trace_ptr' = NULL /\ mark_ptr' = Globals
  /\ pending' = <<Globals>> \o regs
  /\ UNCHANGED <<heapvars, earlyvars, live, poolvars, next, taskvars>>

\* What the conservative stack walk may find: the temporaries of the op, and a
\* word that is left over from an earlier call and points to a dead or a free
\* object (one that points to a live object changes nothing).
StackWords ==
  {temps} \cup { Append(temps, h) :
                 h \in (Headers \ fresh) \ Reachable(HeapRefs, Roots) }

\* more_traceable_objects, up to the DOD run if there is one.
more_traceable_objects ==
  /\ phase = "alloc" /\ todo # <<>>
  /\ free \cap InPool(Head(todo)) = {}
  /\ \/ \E ws \in StackWords : StartRun(FALSE, ws)
     \/ /\ alloc_objects(Head(todo))
        /\ UNCHANGED <<heapvars, earlyvars, live, runvars, taskvars>>

\* more_traceable_objects, after the DOD run.
MoreAfterRun ==
  /\ phase = "more"
  /\ \/ free \cap InPool(Head(todo)) = {} /\ alloc_objects(Head(todo))
     \/ free \cap InPool(Head(todo)) # {} /\ phase' = "alloc" /\ UNCHANGED poolvars
  /\ UNCHANGED <<heapvars, earlyvars, live, runvars, taskvars>>

\* The op sweep with an argument that is not 0, and with 0.
sweep1 == phase = "ops" /\ StartRun(FALSE, <<>>)
sweep0 == phase = "ops" /\ num_early > 0 /\ StartRun(TRUE, <<>>)

----------------------------------------------------------------------------
(* Marking.                                                                 *)

\* Mutant: the end of the list is not moved.
Linked_KeepsMark(obj, hi_prio) ==
  /\ next' = [next EXCEPT ![mark_ptr] = obj, ![obj] = obj]
  /\ UNCHANGED mark_ptr

\* Put obj onto the list of objects to trace: directly behind the object that
\* is being traced, or at the end, which is where mark_ptr points.
Linked(obj, hi_prio) ==
  IF hi_prio
  THEN /\ next' = [next EXCEPT ![obj] = IF next[trace_ptr] = trace_ptr THEN obj
                                        ELSE next[trace_ptr],
                               ![trace_ptr] = obj]
       /\ UNCHANGED mark_ptr
  ELSE /\ next' = [next EXCEPT ![mark_ptr] = obj, ![obj] = obj]
       /\ mark_ptr' = obj

mark_special(obj, rest) ==
  LET hi_prio == obj \in hi /\ trace_ptr # NULL IN
  /\ seen' = IF NeedsEarly(obj) THEN seen + 1 ELSE seen
  /\ hi' = IF hi_prio THEN hi \cup {trace_ptr} ELSE hi
  /\ IF obj \in ext
     THEN Linked(obj, hi_prio) /\ pending' = rest
     ELSE pending' = Contents(obj) \o rest /\ UNCHANGED <<next, mark_ptr>>

\* The calls of pobject_lives that do not return at once: the object is
\* neither live nor on a free list. An empty register is not passed to it.
Due == { i \in DOMAIN pending :
           LET h == pending[i] IN ~ (h = NULL \/ h \in live \/ OnFreeList(h)) }

pobject_lives ==
  /\ phase \in {"roots", "trace"} /\ Due # {}
  /\ LET i == Min(Due) IN
     /\ live' = live \cup {pending[i]}
     /\ mark_special(pending[i], SubSeq(pending, i + 1, Len(pending)))
  /\ UNCHANGED <<heapvars, early, num_early, poolvars, phase, lazy, words,
                 trace_ptr, taskvars>>

EndRun ==
  /\ phase' = IF todo = <<>> THEN "ops" ELSE "more"
  /\ lazy' = FALSE /\ words' = <<>> /\ seen' = 0 /\ trace_ptr' = NULL
  /\ mark_ptr' = NULL /\ next' = [h \in Pmcs |-> h] /\ pending' = <<>>
  /\ UNCHANGED <<regs, sreg, taskvars>>

\* Mutant: stops one object too early.
AllSeen_OneShort == lazy /\ seen + 1 >= num_early

\* All objects that need early DOD have been seen: a lazy run may stop.
AllSeen == lazy /\ seen >= num_early

\* Mutants: the live bits are left as they are; those of the buffers are
\* cleared instead.
clear_live_bits_Not == live' = live
clear_live_bits_Buffers == live' = live \ Bufs

\* Run through all PMC arenas and clear live bits; buffers keep theirs.
clear_live_bits == live' = live \ Pmcs

AbortRun ==
  /\ clear_live_bits /\ EndRun
  /\ UNCHANGED <<ext, meta, data, earlyvars, poolvars>>

\* The end of trace_active_PMCs: the quick check, then the C stack.
RootsDone ==
  /\ phase = "roots" /\ Due = {}
  /\ \/ AllSeen /\ AbortRun
     \/ /\ ~ AllSeen
        /\ pending' = words /\ phase' = "trace"
        /\ UNCHANGED <<heapvars, earlyvars, live, poolvars, lazy, words,
                       seen, trace_ptr, mark_ptr, next, taskvars>>

\* The object the loop of trace_children looks at next; it is the one that was
\* looked at last when the list is at its end.
Current == IF trace_ptr = NULL THEN Globals ELSE next[trace_ptr]

\* PObj_high_priority_DOD_CLEAR is done only when neither bit is set.
trace_children ==
  /\ phase = "trace" /\ Due = {} /\ Current # trace_ptr
  /\ \/ AllSeen /\ AbortRun
     \/ /\ ~ AllSeen
        /\ trace_ptr' = Current
        /\ pending' = Contents(Current)
        /\ UNCHANGED <<heapvars, earlyvars, live, poolvars, phase, lazy,
                       words, seen, mark_ptr, next, taskvars>>

\* The string registers.
trace_active_buffers == live \cup ({sreg} \ {NULL})

\* Mutant: the sweep does not stop at the objects that were ever in use.
Dead_Fresh == (Headers \ free) \ trace_active_buffers

Dead == Used \ trace_active_buffers

\* Mutant: every dead PMC is counted as one that needed early DOD.
EarlyFreed_All == Cardinality(Dead \cap Pmcs)

EarlyFreed == Cardinality({ h \in Dead \cap Pmcs : NeedsEarly(h) })

\* Marking is complete: sweep the PMC pool and the buffer pools.
free_unused_pobjects ==
  /\ phase = "trace" /\ Due = {} /\ Current = trace_ptr
  /\ LET dead == Dead \cap Pmcs IN
     /\ num_early' = (num_early - EarlyFreed) % UintMod
     /\ early' = early \ dead
     /\ hi' = hi \ dead
     /\ ext' = ext \ dead
     /\ meta' = [h \in Pmcs |-> IF h \in dead THEN NULL ELSE meta[h]]
     /\ data' = [h \in Pmcs |-> IF h \in dead THEN NULL ELSE data[h]]
  /\ free' = free \cup Dead
  /\ live' = {}
  /\ EndRun
  /\ UNCHANGED fresh

CollectorStep == pobject_lives \/ RootsDone \/ trace_children \/ free_unused_pobjects

----------------------------------------------------------------------------
Init ==
  /\ ext = {Globals}
  /\ meta = [h \in Pmcs |-> NULL] /\ data = [h \in Pmcs |-> NULL]
  /\ regs = [r \in Regs |-> NULL] /\ sreg = NULL
  /\ early = {} /\ hi = {} /\ num_early = 0
  /\ live = {}
  /\ \E first \in kSubset(PmcInit - 1, Pmcs \ {Globals}) :
       free = first /\ fresh = Headers \ (first \cup {Globals})
  /\ phase = "ops"
  /\ lazy = FALSE /\ words = <<>> /\ seen = 0 /\ trace_ptr = NULL
  /\ mark_ptr = NULL /\ next = [h \in Pmcs |-> h] /\ pending = <<>>
  /\ todo = <<>> /\ temps = <<>>

\* Out of memory: PANIC has ended the process.
Panicked == phase = "panic" /\ UNCHANGED vars

Next ==
  \/ \E c \in Pmcs : \E h \in Pmcs \cup {NULL} : StorePmc(c, h)
  \/ \E c \in Pmcs : StoreString(c) \/ \E r \in Regs : Load(r, c)
  \/ \E r \in Regs : NullRegister(r) \/ needs_destroy(r)
  \/ \E p \in Pools : New(<<p>>) \/ New(<<"pmc", p>>)
  \/ NullString \/ sweep1 \/ sweep0
  \/ get_free_object \/ Made \/ more_traceable_objects \/ MoreAfterRun
  \/ CollectorStep
  \/ Panicked

Spec == Init /\ [][Next]_vars

----------------------------------------------------------------------------
(* Properties.                                                              *)

TypeOK ==
  /\ ext \subseteq Pmcs
  /\ meta \in [Pmcs -> Pmcs \cup {NULL}] /\ data \in [Pmcs -> Headers \cup {NULL}]
  /\ regs \in [Regs -> Pmcs \cup {NULL}] /\ sreg \in Bufs \cup {NULL}
  /\ early \subseteq Pmcs /\ hi \subseteq Pmcs /\ num_early \in 0..(UintMod - 1)
  /\ live \subseteq Headers
  /\ free \subseteq Headers /\ fresh \subseteq Headers \ free
  /\ phase \in {"ops", "alloc", "roots", "trace", "more", "panic"}
  /\ lazy \in BOOLEAN /\ Range(words) \subseteq Headers /\ seen \in 0..Cardinality(Pmcs)
  /\ trace_ptr \in Pmcs \cup {NULL} /\ mark_ptr \in Pmcs \cup {NULL}
  /\ next \in [Pmcs -> Pmcs] /\ Range(pending) \subseteq Headers \cup {NULL}
  /\ Range(todo) \subseteq Pools /\ Range(temps) \subseteq Headers

\* Nothing that the program can reach from its registers, its globals or the
\* C stack has been put onto the free list: marking ensures that what live
\* objects contain "will not be collected" (docs/dev/dod.dev).
ReachableKept == Reachable(HeapRefs, Roots) \subseteq Used

\* The objects that are still to be traced: the rest of the linked list.
ToTrace ==
  IF Current = trace_ptr THEN {}
  ELSE Reachable([h \in Pmcs |-> {next[h]}], {Current})

\* While marking: every root is marked or about to be, and what a marked
\* object refers to is marked, about to be, or the object is still on the list
\* of objects to trace. A marked object that is lost from the list, or a live
\* bit left over from an aborted run, breaks this long before the sweep frees
\* something that is in use.
MarkInvariant ==
  phase \in {"roots", "trace"} =>
    /\ Roots \ {sreg} \subseteq live \cup Range(pending)
                             \cup (IF phase = "roots" THEN Range(words) ELSE {})
    /\ \A h \in live \cap Pmcs :
         h \in ToTrace \/ Range(Contents(h)) \subseteq live \cup Range(pending)

\* The run is about to sweep.
MarkDone == phase = "trace" /\ Due = {} /\ Current = trace_ptr

\* A run that is not aborted leaves no PMC that cannot be reached, from the
\* roots or from a word of the C stack.
SweepPrecise ==
  [][MarkDone /\ phase' # "trace" =>
       Used' \cap Pmcs \subseteq Reachable(HeapRefs, Roots \cup (Range(words) \cap Used))]_vars

\* "needs_destroy: destruction as soon as possible, i.e. when unused during
\* the lazy sweep, triggered by sweep 0" (ops/core.ops): after a lazy run,
\* aborted or not, every PMC that needs early DOD is in use.
Timely ==
  [][lazy /\ phase' = "ops" =>
       Used' \cap early' \subseteq Reachable(HeapRefs, Roots)]_vars

\* num_early_DOD_PMCs is at least the number of PMCs that need early DOD; a
\* smaller number lets a lazy run stop before it knows which ones are dead.
EarlyCounted == num_early >= Cardinality(early \cap Used)

\* The abstract heap, with the header pools seen as the set of used headers.
Heap == INSTANCE AbstractHeap WITH used <- Used, refs <- HeapRefs, roots <- Roots

\* Allocation from the free lists, marking and sweeping implement a heap in
\* which a new object never takes the header of one that can be reached.
ImplementsHeap == Heap!HSpec
=============================================================================
