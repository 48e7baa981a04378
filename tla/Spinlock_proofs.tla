---------------------------- MODULE Spinlock_proofs ----------------------------
(***************************************************************************)
(* The proofs about Spinlock.tla, for any set of threads: the lock word    *)
(* tells whether somebody holds the lock, two threads never both hold it,  *)
(* and the two-step lock() implements the one-step lock of Mutex.tla.      *)
(*                                                                         *)
(* Whatever a thread does, the word and the sets of those who ask for the  *)
(* lock and who hold it change in one of four ways (Changes).  The         *)
(* invariant and the refinement both follow from these four alone.         *)
(***************************************************************************)
EXTENDS Spinlock, TLAPS

Asking  == {p \in Proc : pc[p] \in {"load", "exchange"}}
Holding == {p \in Proc : pc[p] = "critical"}

(* The word is LOCKED while there is a holder, and there is one at most.   *)
(* Neither half is kept without the other: the exchange that finds the     *)
(* word UNLOCKED must know that nobody holds the lock.                     *)
WordAndHolders ==
  \/ locked = UNLOCKED /\ Holding = {}
  \/ locked = LOCKED /\ \E p \in Proc : Holding = {p}

-----------------------------------------------------------------------------
(* What a step does to the word and to the two sets                        *)

(* The call of lock().                                                     *)
Asks(p) ==
  /\ p \in Proc \ (Asking \cup Holding) /\ Asking' = Asking \cup {p}
  /\ UNCHANGED <<locked, Holding>>

(* The exchange that found the word UNLOCKED.                              *)
GetsIn(p) ==
  /\ p \in Asking /\ locked = UNLOCKED
  /\ locked' = LOCKED /\ Asking' = Asking \ {p} /\ Holding' = Holding \cup {p}

(* The store of unlock().                                                  *)
GivesBack(p) ==
  /\ p \in Holding
  /\ locked' = UNLOCKED /\ Holding' = Holding \ {p} /\ UNCHANGED Asking

(* Another turn of one of the two loops, or nothing at all.                *)
Spins == UNCHANGED <<locked, Asking, Holding>>

(* A thread that moves takes only itself from one set to another.          *)
LEMMA Moves ==
  ASSUME TypeOK, NEW p \in Proc, NEW from, NEW to, Goto(p, from, to),
         to \in {"outside", "load", "exchange", "critical"}
  PROVE  /\ pc' \in [Proc -> {"outside", "load", "exchange", "critical"}]
         /\ Asking' = IF to \in {"load", "exchange"} THEN Asking \cup {p} ELSE Asking \ {p}
         /\ Holding' = IF to = "critical" THEN Holding \cup {p} ELSE Holding \ {p}
  BY DEF Goto, TypeOK, Asking, Holding

(* spinlock.c:4-10 - a turn of lock() gets the lock or leaves all as it    *)
(* was; an exchange that lost stored LOCKED over LOCKED.                   *)
LEMMA LockTurns ==
  ASSUME TypeOK, NEW p \in Proc, Load(p) \/ Exchange(p)
  PROVE  TypeOK' /\ (GetsIn(p) \/ Spins)
<1> USE DEF LOCKED, UNLOCKED
<1>1. locked \in {LOCKED, UNLOCKED} BY DEF TypeOK
<1>load. CASE Load(p)
  <2>1. PICK to \in {"load", "exchange"} : Goto(p, "load", to) /\ UNCHANGED locked
    BY <1>load DEF Load
  <2>2. TypeOK' /\ Spins
    BY <2>1, Moves DEF Goto, TypeOK, Spins, Asking, Holding
  <2> QED BY <2>2
<1>lost. CASE Exchange(p) /\ locked = LOCKED
  <2>1. Goto(p, "exchange", "load") /\ locked' = locked BY <1>lost DEF Exchange
  <2>2. TypeOK' /\ Spins
    BY <2>1, Moves DEF Goto, TypeOK, Spins, Asking, Holding
  <2> QED BY <2>2
<1>won. CASE Exchange(p) /\ locked = UNLOCKED
  <2>1. Goto(p, "exchange", "critical") /\ locked' = LOCKED BY <1>won DEF Exchange
  <2>2. TypeOK' /\ GetsIn(p)
    BY <1>won, <2>1, Moves DEF Goto, TypeOK, GetsIn, Asking
  <2> QED BY <2>2
<1> QED BY <1>1, <1>load, <1>lost, <1>won

(* spinlock.c:4-15 - every step of the program is one of the four.         *)
LEMMA Changes ==
  ASSUME TypeOK, [Next]_vars
  PROVE  /\ TypeOK'
         /\ Spins \/ \E p \in Proc : Asks(p) \/ GetsIn(p) \/ GivesBack(p)
<1>calls. ASSUME NEW p \in Proc, Enter(p) PROVE TypeOK' /\ Asks(p)
  <2>1. Goto(p, "outside", "load") /\ UNCHANGED locked BY <1>calls DEF Enter
  <2> QED BY <2>1, Moves DEF Goto, TypeOK, Asks, Asking, Holding
<1>ends. ASSUME NEW p \in Proc, Leave(p) PROVE TypeOK' /\ GivesBack(p)
  <2>1. Goto(p, "critical", "outside") /\ locked' = UNLOCKED BY <1>ends DEF Leave
  <2> QED BY <2>1, Moves DEF Goto, TypeOK, GivesBack, Asking, Holding
<1>stays. vars' = vars => TypeOK' /\ Spins
  BY DEF vars, TypeOK, Spins, Asking, Holding
<1> QED BY <1>calls, <1>ends, <1>stays, LockTurns DEF Next

-----------------------------------------------------------------------------
(* Exclusion                                                               *)

(* The three ways to change them keep the word and the holders in step.    *)
LEMMA InStep ==
  ASSUME WordAndHolders, NEW p \in Proc, Asks(p) \/ GetsIn(p) \/ GivesBack(p)
  PROVE  WordAndHolders'
<1> USE DEF WordAndHolders, LOCKED, UNLOCKED
<1>1. CASE GivesBack(p)
  <2>1. Holding' = {} BY <1>1 DEF GivesBack
  <2> QED BY <1>1, <2>1 DEF GivesBack
<1>2. CASE GetsIn(p)
  <2>1. Holding' = {p} BY <1>2 DEF GetsIn
  <2> QED BY <1>2, <2>1 DEF GetsIn
<1> QED BY <1>1, <1>2 DEF Asks

(* spinlock.c:4-15 - the inductive invariant holds of every execution.     *)
LEMMA Invariance == Spec => [](TypeOK /\ WordAndHolders)
<1>first. Init => TypeOK /\ WordAndHolders
  BY DEF Init, TypeOK, WordAndHolders, Holding, LOCKED, UNLOCKED
<1>every. ASSUME TypeOK, WordAndHolders, [Next]_vars PROVE TypeOK' /\ WordAndHolders'
  <2>1. Spins => WordAndHolders' BY <1>every DEF Spins, WordAndHolders
  <2> QED BY <1>every, <2>1, Changes, InStep
<1> QED BY <1>first, <1>every, PTL DEF Spec

(* spinlock.c:4-15 - two threads are never both between lock() and         *)
(* unlock().                                                               *)
THEOREM Exclusion == Spec => []MutualExclusion
<1>1. ASSUME WordAndHolders, NEW p \in Holding, NEW q \in Holding PROVE p = q
  BY <1>1 DEF WordAndHolders
<1>2. WordAndHolders => MutualExclusion BY <1>1 DEF MutualExclusion, Holding
<1> QED BY <1>2, Invariance, PTL

(* spinlock.c:4-15 - the word is LOCKED exactly while a thread holds the   *)
(* lock: an exchange that loses the race leaves it as it was.              *)
THEOREM WordAndHolder == Spec => []WordTellsHolder
<1>1. (\E p \in Proc : pc[p] = "critical") <=> Holding # {} BY DEF Holding
<1>2. WordAndHolders => WordTellsHolder
  BY <1>1 DEF WordAndHolders, WordTellsHolder, LOCKED, UNLOCKED
<1> QED BY <1>2, Invariance, PTL

-----------------------------------------------------------------------------
(* The abstract lock                                                       *)

(* spinlock.c:4-15 - lock() and unlock() are the acquire and the release   *)
(* of an abstract lock: a client may treat lock() as one step.             *)
THEOREM Refinement == Spec => ImplementsMutex
<1>start. Init => AbstractLock!Init
  BY DEF Init, AbstractLock!Init
<1>asks. \A p \in Proc : Asks(p) => AbstractLock!Request(p)
  BY DEF Asks, Asking, Holding, AbstractLock!Request
<1>gets. ASSUME WordAndHolders, NEW p \in Proc, GetsIn(p) PROVE AbstractLock!Acquire(p)
  <2>1. Holding = {} /\ Holding' = {p}
    BY <1>gets DEF WordAndHolders, GetsIn, LOCKED, UNLOCKED
  <2> QED BY <1>gets, <2>1 DEF GetsIn, Asking, Holding, AbstractLock!Acquire
<1>gives. \A p \in Proc : GivesBack(p) => AbstractLock!Release(p)
  BY DEF GivesBack, Asking, Holding, AbstractLock!Release
<1>spins. Spins => UNCHANGED AbstractLock!mutexVars
  BY DEF Spins, Asking, Holding, AbstractLock!mutexVars
<1>step. ASSUME TypeOK, WordAndHolders, [Next]_vars
         PROVE  [AbstractLock!Next]_(AbstractLock!mutexVars)
  BY <1>step, <1>asks, <1>gets, <1>gives, <1>spins, Changes DEF AbstractLock!Next
<1> QED
  BY <1>start, <1>step, Invariance, PTL DEF Spec, ImplementsMutex, AbstractLock!Spec

=============================================================================
