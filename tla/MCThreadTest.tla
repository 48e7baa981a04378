------------------------------ MODULE MCThreadTest ------------------------------
(* The test program with the boot thread and two places for a thread_t.    *)
EXTENDS ThreadTest
CONSTANTS k, a, b
=============================================================================
