-------------------------------- MODULE Mutex --------------------------------
(***************************************************************************)
(* What a lock promises: at most one process holds it at a time, a process *)
(* that asks is given it only while nobody has it, and whoever has it may  *)
(* hand it back.  Spinlock.tla is shown to implement this module.          *)
(***************************************************************************)
CONSTANT Proc

VARIABLES
  waiting,   \* processes that asked for the lock and do not have it
  holders    \* processes that have it

mutexVars == <<waiting, holders>>

Init ==
  /\ waiting = {}
  /\ holders = {}

Request(p) ==
  /\ p \notin waiting \cup holders
  /\ waiting' = waiting \cup {p}
  /\ UNCHANGED holders

Acquire(p) ==
  /\ p \in waiting
  /\ holders = {}
  /\ waiting' = waiting \ {p}
  /\ holders' = {p}

Release(p) ==
  /\ p \in holders
  /\ holders' = holders \ {p}
  /\ UNCHANGED waiting

Next == \E p \in Proc : Request(p) \/ Acquire(p) \/ Release(p)

Spec == Init /\ [][Next]_mutexVars

=============================================================================
