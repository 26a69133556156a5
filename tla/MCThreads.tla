----------------------------- MODULE MCThreads ------------------------------
(***************************************************************************)
(* Threads with a main interpreter and two or three threads.               *)
(***************************************************************************)
EXTENDS Threads, TLC

CONSTANTS main, a, b, c

Threads == Interp \ {main}

\* A program does everything, or it leaves all threads to pt_join_threads
AllPrograms == {{"join", "detach", "kill", "exit"}, {"exit"}}

\* The threads are interchangeable
Symmetry == Permutations(Threads)

=============================================================================
