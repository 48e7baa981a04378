------------------------------- MODULE Spinlock -------------------------------
(***************************************************************************)
(* The test-and-test-and-set lock of spinlock.c.  lock() first reads the   *)
(* word with a plain load until it sees UNLOCKED and only then tries the   *)
(* atomic exchange; another thread may be scheduled between the two, so    *)
(* the exchange can still find the word LOCKED and the loop starts again.  *)
(* unlock() is a store: it does not check who calls it.                    *)
(*                                                                         *)
(* A process is a kernel thread; it is preempted between any two steps.    *)
(***************************************************************************)
CONSTANT Proc       \* the threads that share the lock

LOCKED == "LOCKED"
UNLOCKED == "UNLOCKED"

VARIABLES
  locked,           \* lck->locked
  pc                \* where each thread is: outside, in lock(), or holding it

vars == <<locked, pc>>

Init ==
  /\ locked = UNLOCKED
  /\ pc = [p \in Proc |-> "outside"]

Goto(p, from, to) ==
  /\ pc[p] = from
  /\ pc' = [pc EXCEPT ![p] = to]

(* A thread calls lock().                                                  *)
Enter(p) ==
  /\ Goto(p, "outside", "load")
  /\ UNCHANGED locked

(* The inner loop spins until the relaxed load returns UNLOCKED.           *)
Load(p) ==
  /\ Goto(p, "load", IF locked = LOCKED THEN "load" ELSE "exchange")
  /\ UNCHANGED locked

(* Mutant of Exchange: the old value is not looked at.                     *)
ExchangeBlind(p) ==
  /\ Goto(p, "exchange", "critical")
  /\ locked' = LOCKED

(* The exchange always stores LOCKED; it won if the old value was          *)
(* UNLOCKED, otherwise the outer loop goes back to the load.               *)
Exchange(p) ==
  /\ Goto(p, "exchange", IF locked = LOCKED THEN "load" ELSE "critical")
  /\ locked' = LOCKED

(* Mutant of Leave: the store is missing.                                  *)
LeaveKeeps(p) ==
  /\ Goto(p, "critical", "outside")
  /\ UNCHANGED locked

(* unlock() by the thread that took the lock.                              *)
Leave(p) ==
  /\ Goto(p, "critical", "outside")
  /\ locked' = UNLOCKED

Next == \E p \in Proc : Enter(p) \/ Load(p) \/ Exchange(p) \/ Leave(p)

Spec == Init /\ [][Next]_vars

(* Every thread keeps being scheduled (Threads.tla shows the round robin), *)
(* so a step that stays enabled is taken.  Nobody has to call lock().      *)
Fairness == \A p \in Proc : WF_vars(Load(p) \/ Exchange(p) \/ Leave(p))

FairSpec == Spec /\ Fairness

-----------------------------------------------------------------------------
TypeOK ==
  /\ locked \in {LOCKED, UNLOCKED}
  /\ pc \in [Proc -> {"outside", "load", "exchange", "critical"}]

(* The lock word is LOCKED exactly while some thread is between lock() and *)
(* unlock().                                                               *)
WordTellsHolder ==
  locked = LOCKED <=> \E p \in Proc : pc[p] = "critical"

(* spinlock.c:4-10 - two threads are never both between lock() and         *)
(* unlock(), whatever the preemptions between the load and the exchange.   *)
MutualExclusion ==
  \A p, q \in Proc : pc[p] = "critical" /\ pc[q] = "critical" => p = q

(* The abstract lock this one implements.                                  *)
AbstractLock == INSTANCE Mutex WITH
  waiting <- {p \in Proc : pc[p] \in {"load", "exchange"}},
  holders <- {p \in Proc : pc[p] = "critical"}

(* Every step of lock() and unlock() is a step of the abstract lock or     *)
(* leaves it alone: in particular a lost exchange does not steal the lock. *)
ImplementsMutex == AbstractLock!Spec

(* The lock cannot be lost: while some thread spins in lock(), again and   *)
(* again some thread gets in.  (No thread in particular: it is not fair.)  *)
SomeoneGetsIn ==
  (\E p \in Proc : pc[p] \in {"load", "exchange"})
     ~> (\E p \in Proc : pc[p] = "critical")

=============================================================================
