------------------------------ MODULE MCSpinlock ------------------------------
(* Four threads that share the lock.                                       *)
EXTENDS Spinlock
CONSTANTS p1, p2, p3, p4
=============================================================================
