------------------------------ MODULE MCThreads ------------------------------
(* Threads with the boot thread k and two more places for a thread_t, which *)
(* are interchangeable.                                                     *)
EXTENDS Threads, TLC
CONSTANTS k, a, b
Places == Permutations({a, b})
=============================================================================
