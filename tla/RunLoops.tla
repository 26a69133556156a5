------------------------------ MODULE RunLoops ------------------------------
(***************************************************************************)
(* Nested run loops and their exception buffers.  runops                   *)
(* (parrot/src/interpreter.c) takes a Parrot_exception from the free list  *)
(* or allocates one, links it on top of interpreter->exceptions and does a *)
(* setjmp with it; throwing an exception is a longjmp to the top buffer;   *)
(* when the loop ends its buffer goes to the free list.  Both lists are    *)
(* linked through the prev field of the buffers.                           *)
(***************************************************************************)
EXTENDS Naturals, Sequences, FiniteSets, FiniteSetsExt

CONSTANTS NULL,
          MaxBuf,    \* bound: Parrot_exception structs ever allocated
          MaxDepth   \* bound: run loops that are nested

Buf == 1 .. MaxBuf

VARIABLES allocated,      \* the buffers that mem_sys_allocate has returned
          prev,           \* prev field of each buffer
          exceptions, exc_free_list,
          destination,    \* depth of the loop whose setjmp filled the buffer
          loops           \* the buffers the active loops have set up

vars == <<allocated, prev, exceptions, exc_free_list, destination, loops>>

Init ==
    /\ allocated = {}
    /\ prev = [b \in Buf |-> NULL]
    /\ exceptions = NULL
    /\ exc_free_list = NULL
    /\ destination = [b \in Buf |-> 0]
    /\ loops = <<>>

\* runops: new_internal_exception and setjmp
EnterLoop ==
    /\ Len(loops) < MaxDepth
    /\ exc_free_list = NULL => allocated # Buf
    /\ LET b == IF exc_free_list # NULL THEN exc_free_list
                ELSE Min(Buf \ allocated)
       IN  /\ allocated' = allocated \cup {b}
           /\ exc_free_list' = IF exc_free_list # NULL THEN prev[b] ELSE NULL
           /\ prev' = [prev EXCEPT ![b] = exceptions]
           /\ exceptions' = b
           /\ destination' = [destination EXCEPT ![b] = Len(loops) + 1]
           /\ loops' = Append(loops, b)

\* runops_ex has returned: the end of runops
LeaveLoop ==
    /\ loops # <<>> /\ exceptions # NULL
    /\ exceptions' = prev[exceptions]
    /\ exc_free_list' = exceptions
    /\ loops' = SubSeq(loops, 1, Len(loops) - 1)
    /\ UNCHANGED <<allocated, prev, destination>>

\* do_exception, real_exception: a longjmp to the loop that filled the top
\* buffer, which resumes at the handler
Throw ==
    /\ loops # <<>> /\ exceptions # NULL
    /\ loops' = SubSeq(loops, 1, destination[exceptions])
    /\ UNCHANGED <<allocated, prev, exceptions, exc_free_list, destination>>

Next == EnterLoop \/ LeaveLoop \/ Throw

Spec == Init /\ [][Next]_vars

-----------------------------------------------------------------------------
\* An exception resumes in the innermost loop that is active: the top buffer
\* was filled by the setjmp of that loop, and of no loop that has ended
\* ("pop off exception and put it onto the free list", runops; "either by
\* allocating it or by getting one from the free list",
\* new_internal_exception).
ThrowsToInnermost ==
    loops # <<>> => exceptions # NULL /\ destination[exceptions] = Len(loops)

=============================================================================
