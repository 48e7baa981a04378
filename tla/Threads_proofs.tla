------------------------------ MODULE Threads_proofs ------------------------------
(***************************************************************************)
(* The proofs about Threads.tla, for any set of places for a thread_t and  *)
(* any nesting of interrupts: the inductive invariant IInv holds initially *)
(* and through every step, and the safety properties follow from it.       *)
(*                                                                         *)
(* One lemma per action.  Steps of a thread's own code that leave the ring *)
(* alone share OrdinaryFrame, steps of the interrupt path that do not      *)
(* switch share InterruptingFrame; the two halves of the insertion, the    *)
(* first frame and the two kinds of switch are proved on their own.        *)
(***************************************************************************)
EXTENDS Threads, TLAPS, WellFoundedInduction, FunctionTheorems,
        FiniteSetTheorems, SequenceTheorems

-----------------------------------------------------------------------------
(* The inductive invariant.  Each part says what holds at every step, also *)
(* in the middle of an insertion, of a switch and of a kill.               *)

(* Nothing runs on it and it owns nothing: never used, or dead and left in *)
(* the switch that thread_kill() called.                                   *)
Idle(t) ==
  /\ pc[t] \in {"none", "kill_resume"} /\ handler[t] = "none"
  /\ handles[t] = {} /\ arg[t] = NULL

Killing == {"kill_lock", "kill_mark", "kill_cli", "kill_unlock", "kill_switch"}

CpuInv ==
  /\ threads_head = cpu /\ cpu \in Ring
  /\ ~all_proc_ended /\ machine # "bug"
  /\ machine = "up" => ~Unframed(cpu)
  /\ isr => handler[cpu] = "ack"
  /\ handler[cpu] \in {"ack", "switch", "resume"} => ~ints
  /\ handler[cpu] = "none"
        /\ pc[cpu] \in {"boot", "start", "kill_unlock", "kill_switch"} => ~ints

(* Who does not run was switched out by an interrupt or is new; thread_kill *)
(* is not interrupted once it has disabled interrupts.                     *)
ActivationInv ==
  \A t \in Thread :
    /\ handler[t] = "none" <=> depth[t] = 0
    /\ t \in Ring \ {cpu} /\ ~Unframed(t) =>
          handler[t] = "resume" \/ (handler[t] = "none" /\ pc[t] = "start")
    /\ pc[t] \in {"boot", "start"} => handler[t] = "none"
    /\ pc[t] \in {"kill_unlock", "kill_switch"} => t = cpu /\ handler[t] = "none"

(* Outside the ring a thread is idle, or it died with the lock.            *)
PcInv ==
  /\ Kernel \in Ring /\ state[Kernel] = "RUNNING"
  /\ \A t \in Thread :
       /\ t \notin Ring =>
             \/ Idle(t)
             \/ pc[t] = "kill_cli" /\ state[t] = "DEAD"
       /\ Unframed(t) => t \in Ring /\ Idle(t) /\ frame[t] = NULL
       /\ t \in Ring /\ ~Unframed(t) =>
             pc[t] \notin {"none", "zombie", "kill_resume"}
       /\ pc[t] \in Killing => t # Kernel /\ handles[t] = {}
       /\ pc[t] # "zombie"

(* A mark is set by the holder of the lock, who is off the CPU for good    *)
(* before anybody else can take the lock.                                  *)
StateInv ==
  \A t \in Thread :
    /\ t \in Ring => state[t] # "DEAD"
    /\ state[t] = "DYING" => t \in Ring
    /\ t \in Ring =>
         (state[t] = "DYING" <=> pc[t] \in {"kill_cli", "kill_unlock", "kill_switch"})
    /\ pc[t] = "kill_switch" => threads_lock = "UNLOCKED"

(* What arg, lprev and lnext are at each point of the code.                *)
ArgInv ==
  \A t \in Thread :
    /\ pc[t] = "create_stack" => arg[t] = NULL \/ arg[t] \in Thread \ Ring
    /\ pc[t] \in {"create_read", "create_link"} =>
          /\ arg[t] \in Thread \ Ring
          /\ state[arg[t]] = "RUNNING" /\ frame[arg[t]] = NULL
    /\ pc[t] \in {"create_back", "create_frame"} => arg[t] \in Ring
    /\ pc[t] \in {"create_unlock", "wait_spin"} => arg[t] \in Thread
    /\ pc[t] \in {"wait_stack", "wait_thread"} => arg[t] \in Thread \ Ring
    /\ pc[t] \in {"none", "boot", "start", "client", "create_lock",
                  "create_alloc", "kill_resume"} \cup Killing => arg[t] = NULL
    /\ pc[t] \in {"create_link", "create_back"} =>
          lnext[t] = t /\ lprev[t] = prev[t]
    /\ pc[t] = "create_back" =>
          /\ next[arg[t]] = t /\ prev[arg[t]] = prev[t]
          /\ next[prev[t]] = arg[t]

(* A thread_t has one owner, who created it and will wait for it.          *)
Owns(u, t) == t \in handles[u] \/ arg[u] = t

OwnInv ==
  \A u, t \in Thread :
    Owns(u, t) =>
      /\ mem[t] /\ t # Kernel
      /\ \A v \in Thread : Owns(v, t) => u = v
      /\ ~(t \in handles[u] /\ arg[u] = t)

MemInv ==
  \A t \in Ring : mem[t] /\ (t = Kernel \/ Unframed(t) \/ stk[t])

LinkInv ==
  \A t \in Ring :
    /\ next[t] \in Ring /\ prev[t] \in Ring
    /\ prev[next[t]] = t \/ \E u \in Thread : HalfLinked(u) /\ arg[u] = t
    /\ next[prev[t]] = t \/ HalfLinked(t)

IInv ==
  /\ TypeOK /\ CpuInv /\ ActivationInv /\ PcInv /\ StateInv /\ ArgInv
  /\ OwnInv /\ MemInv /\ LinkInv /\ OneRing
  /\ OwnRegisters /\ CreateKillExclusion

-----------------------------------------------------------------------------

(* A step of t's own code that does not touch the ring.                    *)
Ordinary(t) ==
  /\ machine = "up" /\ cpu = t /\ handler[t] = "none"
  /\ UNCHANGED <<cpu, isr, handler, depth, next, prev, threads_head, all_proc_ended>>
  /\ pc' = [pc EXCEPT ![t] = pc'[t]]
  /\ {pc[t], pc'[t]} \cap {"create_back", "create_frame"} = {}
  /\ arg' = [arg EXCEPT ![t] = arg'[t]]
  /\ handles' = [handles EXCEPT ![t] = handles'[t]]

(* Who executes code is in the ring, has a frame and is at a place in it.  *)
LEMMA Running ==
  ASSUME IInv, machine = "up"
  PROVE  /\ cpu \in Ring /\ ~Unframed(cpu)
         /\ pc[cpu] \notin {"none", "zombie", "kill_resume"}
  BY DEF IInv, CpuInv, PcInv, TypeOK

(* Ordinary steps leave the ring, and who waits in it without a frame, as  *)
(* they are.                                                               *)
LEMMA OrdinaryFrame ==
  ASSUME IInv, NEW t \in Thread, Ordinary(t)
  PROVE  /\ Ring' = Ring /\ Ring \subseteq Thread
         /\ \A s \in Thread \ {t} :
              /\ pc'[s] = pc[s] /\ arg'[s] = arg[s] /\ handles'[s] = handles[s]
              /\ Idle(s)' <=> Idle(s)
              /\ Holds(s)' <=> Holds(s)
              /\ HalfLinked(s)' <=> HalfLinked(s)
         /\ \A s \in Thread : Unframed(s)' <=> Unframed(s)
         /\ ~HalfLinked(t) /\ ~HalfLinked(t)'
         /\ t \in Ring /\ ~Unframed(t) /\ pc[t] \notin {"none", "zombie", "kill_resume"}
         /\ LinkInv' /\ OneRing'
<1>1. /\ pc \in [Thread -> Label] /\ arg \in [Thread -> Thread \cup {NULL}]
      /\ handles \in [Thread -> SUBSET Thread]
  BY DEF IInv, TypeOK
<1>2. Ring' = Ring /\ Ring \subseteq Thread
  BY DEF Ring, Ordinary
<1>3. \A s \in Thread \ {t} :
        /\ pc'[s] = pc[s] /\ arg'[s] = arg[s] /\ handles'[s] = handles[s]
        /\ Idle(s)' <=> Idle(s)
        /\ Holds(s)' <=> Holds(s)
        /\ HalfLinked(s)' <=> HalfLinked(s)
  BY <1>1 DEF Ordinary, Idle, Holds, HalfLinked
<1>4. ~HalfLinked(t) /\ ~HalfLinked(t)'
  BY DEF Ordinary, HalfLinked
<1>5. \A s \in Thread : Unframed(s)' <=> Unframed(s)
  BY <1>3 DEF Unframed, Ordinary
<1>6. t \in Ring /\ ~Unframed(t) /\ pc[t] \notin {"none", "zombie", "kill_resume"}
  BY Running DEF Ordinary
<1>7. LinkInv'
  <2>1. \A u \in Thread : HalfLinked(u) <=> HalfLinked(u)'
    BY <1>3, <1>4
  <2>2. \A u \in Thread : HalfLinked(u) => arg'[u] = arg[u]
    BY <1>3, <1>4
  <2>3. QED
    BY <1>2, <2>1, <2>2 DEF IInv, LinkInv, Ordinary
<1>8. OneRing'
  BY <1>2 DEF IInv, OneRing, Ordinary
<1>9. QED
  BY <1>2, <1>3, <1>4, <1>5, <1>6, <1>7, <1>8

LEMMA EnableIntsStep ==
  ASSUME IInv, NEW t \in Thread, EnableInts(t) PROVE IInv'
<1> USE ThreadsAssumption DEF EnableInts, At, Goto, Quiet, irqVars, ringVars, memVars, localVars
<1>1. Ordinary(t)
  BY DEF IInv, TypeOK, Ordinary
<1>2. TypeOK'
  BY DEF IInv, TypeOK, Label, ArgInv
<1>3. CpuInv' /\ ActivationInv'
  BY <1>1, OrdinaryFrame DEF IInv, CpuInv, ActivationInv, TypeOK
<1>4. PcInv'
  BY <1>1, OrdinaryFrame DEF IInv, PcInv, Killing, TypeOK, ArgInv
<1>5. StateInv' /\ CreateKillExclusion'
  BY <1>1, OrdinaryFrame DEF IInv, StateInv, CreateKillExclusion, Holds, TypeOK
<1>6. ArgInv'
  BY <1>1, OrdinaryFrame DEF IInv, ArgInv, Killing, TypeOK
<1>7. OwnInv'
  BY <1>1, OrdinaryFrame DEF IInv, OwnInv, Owns, ArgInv, TypeOK
<1>8. MemInv' /\ OwnRegisters'
  BY <1>1, OrdinaryFrame DEF IInv, MemInv, OwnRegisters, TypeOK
<1>9. QED
  BY <1>1, <1>2, <1>3, <1>4, <1>5, <1>6, <1>7, <1>8, OrdinaryFrame DEF IInv

LEMMA CallCreateStep ==
  ASSUME IInv, NEW t \in Thread, CallCreate(t) PROVE IInv'
<1> USE ThreadsAssumption DEF CallCreate, At, Goto, Quiet, irqVars, ringVars, memVars, localVars
<1>1. Ordinary(t)
  BY DEF IInv, TypeOK, Ordinary
<1>2. TypeOK'
  BY DEF IInv, TypeOK, Label, ArgInv
<1>3. CpuInv' /\ ActivationInv'
  BY <1>1, OrdinaryFrame DEF IInv, CpuInv, ActivationInv, TypeOK
<1>4. PcInv'
  BY <1>1, OrdinaryFrame DEF IInv, PcInv, Killing, TypeOK, ArgInv
<1>5. StateInv' /\ CreateKillExclusion'
  BY <1>1, OrdinaryFrame DEF IInv, StateInv, CreateKillExclusion, Holds, TypeOK
<1>6. ArgInv'
  BY <1>1, OrdinaryFrame DEF IInv, ArgInv, Killing, TypeOK
<1>7. OwnInv'
  BY <1>1, OrdinaryFrame DEF IInv, OwnInv, Owns, ArgInv, TypeOK
<1>8. MemInv' /\ OwnRegisters'
  BY <1>1, OrdinaryFrame DEF IInv, MemInv, OwnRegisters, TypeOK
<1>9. QED
  BY <1>1, <1>2, <1>3, <1>4, <1>5, <1>6, <1>7, <1>8, OrdinaryFrame DEF IInv

(* The new thread_t goes from the variable of thread_create() to its       *)
(* caller.                                                                 *)
LEMMA UnlockCreateStep ==
  ASSUME IInv, NEW t \in Thread, UnlockCreate(t) PROVE IInv'
<1> USE ThreadsAssumption DEF UnlockCreate, At, Goto, Quiet, irqVars, ringVars, memVars, localVars
<1>1. Ordinary(t)
  BY DEF IInv, TypeOK, Ordinary
<1>2. TypeOK'
  BY DEF IInv, TypeOK, Label, ArgInv
<1>3. CpuInv' /\ ActivationInv'
  BY <1>1, OrdinaryFrame DEF IInv, CpuInv, ActivationInv, TypeOK
<1>4. PcInv'
  BY <1>1, OrdinaryFrame DEF IInv, PcInv, Killing, TypeOK, ArgInv
<1>5. StateInv' /\ CreateKillExclusion'
  BY <1>1, OrdinaryFrame DEF IInv, StateInv, CreateKillExclusion, Holds, TypeOK
<1>6. ArgInv'
  BY <1>1, OrdinaryFrame DEF IInv, ArgInv, Killing, TypeOK
<1>7. OwnInv'
  BY <1>1, OrdinaryFrame DEF IInv, OwnInv, Owns, ArgInv, TypeOK
<1>8. MemInv' /\ OwnRegisters'
  BY <1>1, OrdinaryFrame DEF IInv, MemInv, OwnRegisters, TypeOK
<1>9. QED
  BY <1>1, <1>2, <1>3, <1>4, <1>5, <1>6, <1>7, <1>8, OrdinaryFrame DEF IInv

LEMMA CallKillStep ==
  ASSUME IInv, NEW t \in Thread, CallKill(t) PROVE IInv'
<1> USE ThreadsAssumption DEF CallKill, At, Goto, Quiet, irqVars, ringVars, memVars, localVars
<1>1. Ordinary(t)
  BY DEF IInv, TypeOK, Ordinary
<1>2. TypeOK'
  BY DEF IInv, TypeOK, Label, ArgInv
<1>3. CpuInv' /\ ActivationInv'
  BY <1>1, OrdinaryFrame DEF IInv, CpuInv, ActivationInv, TypeOK
<1>4. PcInv'
  BY <1>1, OrdinaryFrame DEF IInv, PcInv, Killing, TypeOK, ArgInv
<1>5. StateInv' /\ CreateKillExclusion'
  BY <1>1, OrdinaryFrame DEF IInv, StateInv, CreateKillExclusion, Holds, TypeOK
<1>6. ArgInv'
  BY <1>1, OrdinaryFrame DEF IInv, ArgInv, Killing, TypeOK
<1>7. OwnInv'
  BY <1>1, OrdinaryFrame DEF IInv, OwnInv, Owns, ArgInv, TypeOK
<1>8. MemInv' /\ OwnRegisters'
  BY <1>1, OrdinaryFrame DEF IInv, MemInv, OwnRegisters, TypeOK
<1>9. QED
  BY <1>1, <1>2, <1>3, <1>4, <1>5, <1>6, <1>7, <1>8, OrdinaryFrame DEF IInv

LEMMA KillDisableIntsStep ==
  ASSUME IInv, NEW t \in Thread, KillDisableInts(t) PROVE IInv'
<1> USE ThreadsAssumption DEF KillDisableInts, At, Goto, Quiet, irqVars, ringVars, memVars, localVars
<1>1. Ordinary(t)
  BY DEF IInv, TypeOK, Ordinary
<1>2. TypeOK'
  BY DEF IInv, TypeOK, Label, ArgInv
<1>3. CpuInv' /\ ActivationInv'
  BY <1>1, OrdinaryFrame DEF IInv, CpuInv, ActivationInv, TypeOK
<1>4. PcInv'
  BY <1>1, OrdinaryFrame DEF IInv, PcInv, Killing, TypeOK, ArgInv
<1>5. StateInv' /\ CreateKillExclusion'
  BY <1>1, OrdinaryFrame DEF IInv, StateInv, CreateKillExclusion, Holds, TypeOK
<1>6. ArgInv'
  BY <1>1, OrdinaryFrame DEF IInv, ArgInv, Killing, TypeOK
<1>7. OwnInv'
  BY <1>1, OrdinaryFrame DEF IInv, OwnInv, Owns, ArgInv, TypeOK
<1>8. MemInv' /\ OwnRegisters'
  BY <1>1, OrdinaryFrame DEF IInv, MemInv, OwnRegisters, TypeOK
<1>9. QED
  BY <1>1, <1>2, <1>3, <1>4, <1>5, <1>6, <1>7, <1>8, OrdinaryFrame DEF IInv

(* With interrupts disabled: nobody runs before the dying thread has left. *)
LEMMA KillUnlockStep ==
  ASSUME IInv, NEW t \in Thread, KillUnlock(t) PROVE IInv'
<1> USE ThreadsAssumption DEF KillUnlock, At, Goto, Quiet, irqVars, ringVars, memVars, localVars
<1>1. Ordinary(t)
  BY DEF IInv, TypeOK, Ordinary
<1>2. TypeOK'
  BY DEF IInv, TypeOK, Label, ArgInv
<1>3. CpuInv' /\ ActivationInv'
  BY <1>1, OrdinaryFrame DEF IInv, CpuInv, ActivationInv, TypeOK
<1>4. PcInv'
  BY <1>1, OrdinaryFrame DEF IInv, PcInv, Killing, TypeOK, ArgInv
<1>5. StateInv' /\ CreateKillExclusion'
  BY <1>1, OrdinaryFrame DEF IInv, StateInv, CreateKillExclusion, Holds, TypeOK
<1>6. ArgInv'
  BY <1>1, OrdinaryFrame DEF IInv, ArgInv, Killing, TypeOK
<1>7. OwnInv'
  BY <1>1, OrdinaryFrame DEF IInv, OwnInv, Owns, ArgInv, TypeOK
<1>8. MemInv' /\ OwnRegisters'
  BY <1>1, OrdinaryFrame DEF IInv, MemInv, OwnRegisters, TypeOK
<1>9. QED
  BY <1>1, <1>2, <1>3, <1>4, <1>5, <1>6, <1>7, <1>8, OrdinaryFrame DEF IInv

LEMMA CallWaitStep ==
  ASSUME IInv, NEW t \in Thread, NEW s \in Thread, CallWait(t, s) PROVE IInv'
<1> USE ThreadsAssumption DEF CallWait, At, Goto, Quiet, irqVars, ringVars, memVars, localVars
<1>1. Ordinary(t)
  BY DEF IInv, TypeOK, Ordinary
<1>2. TypeOK'
  BY DEF IInv, TypeOK, Label, ArgInv
<1>3. CpuInv' /\ ActivationInv'
  BY <1>1, OrdinaryFrame DEF IInv, CpuInv, ActivationInv, TypeOK
<1>4. PcInv'
  BY <1>1, OrdinaryFrame DEF IInv, PcInv, Killing, TypeOK, ArgInv
<1>5. StateInv' /\ CreateKillExclusion'
  BY <1>1, OrdinaryFrame DEF IInv, StateInv, CreateKillExclusion, Holds, TypeOK
<1>6. ArgInv'
  BY <1>1, OrdinaryFrame DEF IInv, ArgInv, Killing, TypeOK
<1>7. OwnInv'
  BY <1>1, OrdinaryFrame DEF IInv, OwnInv, Owns, ArgInv, TypeOK
<1>8. MemInv' /\ OwnRegisters'
  BY <1>1, OrdinaryFrame DEF IInv, MemInv, OwnRegisters, TypeOK
<1>9. QED
  BY <1>1, <1>2, <1>3, <1>4, <1>5, <1>6, <1>7, <1>8, OrdinaryFrame DEF IInv

LEMMA LockThreadsStep ==
  ASSUME IInv, NEW t \in Thread, LockThreads(t) PROVE IInv'
<1> USE ThreadsAssumption DEF LockThreads, At, Goto, Quiet, irqVars, ringVars, memVars, localVars
<1>1. Ordinary(t)
  BY DEF IInv, TypeOK, Ordinary
<1>2. TypeOK'
  BY DEF IInv, TypeOK, Label, ArgInv
<1>3. CpuInv' /\ ActivationInv'
  BY <1>1, OrdinaryFrame DEF IInv, CpuInv, ActivationInv, TypeOK
<1>4. PcInv'
  BY <1>1, OrdinaryFrame DEF IInv, PcInv, Killing, TypeOK, CpuInv, StateInv, ArgInv, OwnInv, Owns
<1>5. CreateKillExclusion'
  <2>1. \A s \in Thread : ~Holds(s)
    BY DEF IInv, CreateKillExclusion
  <2>2. \A s \in Thread \ {t} : ~Holds(s)'
    BY <1>1, <2>1, OrdinaryFrame
  <2>3. Holds(t)'
    BY DEF IInv, TypeOK, Holds
  <2>4. QED
    BY <2>2, <2>3 DEF CreateKillExclusion
<1>6. StateInv'
  <2>1. pc[t] \notin {"kill_cli", "kill_unlock", "kill_switch"} 
        /\ pc'[t] \notin {"kill_cli", "kill_unlock", "kill_switch"}
    BY DEF IInv, TypeOK
  <2>2. \A s \in Thread : pc[s] # "kill_switch"
    BY <2>1 DEF IInv, ActivationInv
  <2>3. QED
    BY <1>1, <2>1, <2>2, OrdinaryFrame DEF IInv, StateInv, TypeOK
<1>7. ArgInv'
  BY <1>1, OrdinaryFrame DEF IInv, ArgInv, Killing, TypeOK, OwnInv, Owns
<1>8. OwnInv'
  BY <1>1, OrdinaryFrame DEF IInv, OwnInv, Owns, ArgInv, TypeOK
<1>9. MemInv' /\ OwnRegisters'
  BY <1>1, OrdinaryFrame DEF IInv, MemInv, OwnRegisters, TypeOK
<1>10. QED
  BY <1>1, <1>2, <1>3, <1>4, <1>5, <1>6, <1>7, <1>8, <1>9, OrdinaryFrame DEF IInv

LEMMA AllocThreadStep ==
  ASSUME IInv, NEW t \in Thread, AllocThread(t) PROVE IInv'
<1> USE ThreadsAssumption DEF AllocThread, At, Goto, Quiet, irqVars, ringVars, memVars, localVars
<1>1. Ordinary(t)
  BY DEF IInv, TypeOK, Ordinary
<1>2. arg[t] = NULL
  BY DEF IInv, ArgInv
<1>3. PICK s \in Thread \cup {NULL} :
        /\ arg' = [arg EXCEPT ![t] = s]
        /\ \/ s \in Thread /\ ~mem[s] /\ mem' = [mem EXCEPT ![s] = TRUE]
           \/ s = NULL /\ mem' = mem
  <2>1. CASE UNCHANGED <<mem, arg>>
    BY <1>2, <2>1 DEF IInv, TypeOK
  <2>2. CASE \E s \in Thread : /\ ~mem[s]
                               /\ mem' = [mem EXCEPT ![s] = TRUE]
                               /\ arg' = [arg EXCEPT ![t] = s]
    BY <2>2
  <2>3. QED
    BY <2>1, <2>2
<1>4. s # NULL => /\ s \notin Ring /\ s # Kernel
                  /\ \A u \in Thread : ~Owns(u, s)
  BY <1>3 DEF IInv, MemInv, PcInv, OwnInv
<1>5. TypeOK'
  BY <1>3 DEF IInv, TypeOK, Label
<1>6. CpuInv' /\ ActivationInv'
  BY <1>1, OrdinaryFrame DEF IInv, CpuInv, ActivationInv, TypeOK
<1>7. PcInv'
  BY <1>1, OrdinaryFrame DEF IInv, PcInv, Killing, TypeOK, CpuInv, StateInv
<1>8. StateInv' /\ CreateKillExclusion'
  BY <1>1, OrdinaryFrame DEF IInv, StateInv, CreateKillExclusion, Holds, TypeOK
<1>9. ArgInv'
  <2>1. pc'[t] = "create_stack" /\ (arg'[t] = NULL \/ arg'[t] \in Thread \ Ring)
    BY <1>3, <1>4 DEF IInv, TypeOK
  <2>2. QED
    BY <1>1, <2>1, OrdinaryFrame DEF IInv, ArgInv, Killing
<1>10. OwnInv'
  <2>1. \A u, r \in Thread : Owns(u, r)' <=> Owns(u, r) \/ (u = t /\ r = s)
    BY <1>2, <1>3 DEF IInv, TypeOK, Owns
  <2>2. \A r \in Thread : mem'[r] <=> mem[r] \/ r = s
    BY <1>3 DEF IInv, TypeOK
  <2>3. \A u, r \in Thread : ~(r \in handles'[u] /\ arg'[u] = r)
    BY <1>2, <1>3, <1>4 DEF IInv, TypeOK, OwnInv, Owns
  <2>4. QED
    BY <1>4, <2>1, <2>2, <2>3 DEF IInv, OwnInv
<1>11. MemInv' /\ OwnRegisters'
  BY <1>1, <1>3, OrdinaryFrame DEF IInv, MemInv, OwnRegisters, TypeOK
<1>12. QED
  BY <1>1, <1>5, <1>6, <1>7, <1>8, <1>9, <1>10, <1>11, OrdinaryFrame DEF IInv

LEMMA AllocStackStep ==
  ASSUME IInv, NEW t \in Thread, AllocStack(t) PROVE IInv'
<1> USE ThreadsAssumption DEF AllocStack, At, Goto, Quiet, irqVars, ringVars, memVars, localVars
<1>1. Ordinary(t)
  BY DEF IInv, TypeOK, Ordinary
<1>2. TypeOK'
  <2>1. CASE arg[t] = NULL
    BY <2>1 DEF IInv, TypeOK
  <2>2. CASE arg[t] # NULL
    BY <2>2 DEF IInv, TypeOK, Label
  <2>3. QED
    BY <2>1, <2>2
<1>3. CpuInv' /\ ActivationInv'
  BY <1>1, OrdinaryFrame DEF IInv, CpuInv, ActivationInv, TypeOK
<1>4. arg[t] # NULL =>
        /\ arg[t] \in Thread \ Ring
        /\ arg[t] # Kernel
        /\ \A u \in Thread \ {t} : arg[u] # arg[t]
  BY DEF IInv, ArgInv, PcInv, OwnInv, Owns
<1>5. \A s \in Thread \ {t} : pc[s] # "kill_cli"
  BY DEF IInv, CreateKillExclusion, Holds
<1>6. PcInv'
  <2>1. state'[Kernel] = "RUNNING"
    BY <1>4 DEF IInv, TypeOK, PcInv
  <2>2. \A s \in Thread : Unframed(s) => frame'[s] = NULL
    BY <1>4 DEF IInv, TypeOK, PcInv
  <2>3. \A s \in Thread : s \notin Ring => Idle(s)
    BY <1>1, <1>5, OrdinaryFrame DEF IInv, PcInv
  <2>4. QED
    BY <1>1, <2>1, <2>2, <2>3, OrdinaryFrame DEF IInv, PcInv, Killing, TypeOK
<1>7. StateInv' /\ CreateKillExclusion'
  BY <1>1, OrdinaryFrame DEF IInv, StateInv, CreateKillExclusion, Holds, TypeOK, ArgInv
<1>8. ArgInv'
  BY <1>1, <1>4, OrdinaryFrame DEF IInv, ArgInv, Killing, TypeOK
<1>9. OwnInv'
  BY <1>1, OrdinaryFrame DEF IInv, OwnInv, Owns, TypeOK
<1>10. MemInv' /\ OwnRegisters'
  <2>1. \A s \in Ring : stk'[s] = stk[s] /\ frame'[s] = frame[s]
    BY <1>4, OrdinaryFrame, <1>1 DEF IInv, TypeOK
  <2>2. QED
    BY <1>1, <2>1, OrdinaryFrame DEF IInv, MemInv, OwnRegisters
<1>11. QED
  BY <1>1, <1>2, <1>3, <1>6, <1>7, <1>8, <1>9, <1>10, OrdinaryFrame DEF IInv

LEMMA InsertReadStep ==
  ASSUME IInv, NEW t \in Thread, InsertRead(t) PROVE IInv'
<1> USE ThreadsAssumption DEF InsertRead, At, Goto, Quiet, irqVars, ringVars, memVars, localVars
<1>1. Ordinary(t)
  BY DEF IInv, TypeOK, Ordinary
<1>2. TypeOK'
  BY DEF IInv, TypeOK, Label
<1>3. CpuInv' /\ ActivationInv'
  BY <1>1, OrdinaryFrame DEF IInv, CpuInv, ActivationInv, TypeOK
<1>4. PcInv'
  BY <1>1, OrdinaryFrame DEF IInv, PcInv, Killing, TypeOK, CpuInv, StateInv
<1>5. StateInv' /\ CreateKillExclusion'
  BY <1>1, OrdinaryFrame DEF IInv, StateInv, CreateKillExclusion, Holds, TypeOK
<1>6. ArgInv'
  <2>1. /\ pc'[t] = "create_link"
        /\ lnext'[t] = t /\ lprev'[t] = prev[t]
        /\ arg'[t] \in Thread \ Ring /\ state[arg'[t]] = "RUNNING"
    BY DEF IInv, TypeOK, CpuInv, ArgInv
  <2>2. \A s \in Thread \ {t} : lnext'[s] = lnext[s] /\ lprev'[s] = lprev[s]
    BY DEF IInv, TypeOK
  <2>3. QED
    BY <1>1, <2>1, <2>2, OrdinaryFrame DEF IInv, ArgInv, Killing
<1>7. OwnInv'
  BY <1>1, OrdinaryFrame DEF IInv, OwnInv, Owns, TypeOK
<1>8. MemInv' /\ OwnRegisters'
  BY <1>1, OrdinaryFrame DEF IInv, MemInv, OwnRegisters, TypeOK
<1>9. QED
  BY <1>1, <1>2, <1>3, <1>4, <1>5, <1>6, <1>7, <1>8, OrdinaryFrame DEF IInv

LEMMA KillMarkStep ==
  ASSUME IInv, NEW t \in Thread, KillMark(t) PROVE IInv'
<1> USE ThreadsAssumption DEF KillMark, At, Goto, Quiet, irqVars, ringVars, memVars, localVars
<1>1. Ordinary(t)
  BY DEF IInv, TypeOK, Ordinary
<1>2. TypeOK'
  BY DEF IInv, TypeOK, Label
<1>3. CpuInv' /\ ActivationInv'
  BY <1>1, OrdinaryFrame DEF IInv, CpuInv, ActivationInv, TypeOK
<1>4. /\ t \in Ring /\ t # Kernel
      /\ state' = [state EXCEPT ![t] = "DYING"]
  BY <1>1, OrdinaryFrame DEF IInv, CpuInv, PcInv, Killing
<1>5. PcInv'
  BY <1>1, <1>4, OrdinaryFrame DEF IInv, PcInv, Killing, TypeOK
<1>6. CreateKillExclusion'
  BY <1>1, OrdinaryFrame DEF IInv, CreateKillExclusion, Holds, TypeOK
<1>7. StateInv'
  <2>1. pc'[t] = "kill_cli" /\ state'[t] = "DYING"
    BY <1>4 DEF IInv, TypeOK
  <2>2. \A s \in Thread \ {t} : state'[s] = state[s]
    BY <1>4 DEF IInv, TypeOK
  <2>3. QED
    BY <1>1, <1>4, <2>1, <2>2, OrdinaryFrame DEF IInv, StateInv
<1>8. ArgInv'
  <2>1. \A s \in Thread \ Ring : state'[s] = state[s]
    BY <1>4 DEF IInv, TypeOK
  <2>2. pc'[t] = "kill_cli" /\ arg'[t] = NULL
    BY DEF IInv, TypeOK, ArgInv, Killing
  <2>3. QED
    BY <1>1, <2>1, <2>2, OrdinaryFrame DEF IInv, ArgInv, Killing
<1>9. OwnInv'
  BY <1>1, OrdinaryFrame DEF IInv, OwnInv, Owns, TypeOK
<1>10. MemInv' /\ OwnRegisters'
  BY <1>1, OrdinaryFrame DEF IInv, MemInv, OwnRegisters, TypeOK
<1>11. QED
  BY <1>1, <1>2, <1>3, <1>5, <1>6, <1>7, <1>8, <1>9, <1>10, OrdinaryFrame DEF IInv

LEMMA WaitDeadStep ==
  ASSUME IInv, NEW t \in Thread, WaitDead(t) PROVE IInv'
<1> USE ThreadsAssumption DEF WaitDead, Finished, At, Goto, Quiet, irqVars, ringVars, memVars, localVars
<1>1. /\ arg[t] \in Thread \ Ring
      /\ pc' = [pc EXCEPT ![t] = "wait_stack"]
      /\ UNCHANGED <<machine, ints>>
  BY DEF IInv, ArgInv, StateInv, CpuInv
<1>2. Ordinary(t)
  BY <1>1 DEF IInv, TypeOK, Ordinary
<1>3. TypeOK'
  BY <1>1 DEF IInv, TypeOK, Label
<1>4. CpuInv' /\ ActivationInv'
  BY <1>1, <1>2, OrdinaryFrame DEF IInv, CpuInv, ActivationInv, TypeOK
<1>5. PcInv'
  BY <1>1, <1>2, OrdinaryFrame DEF IInv, PcInv, Killing, TypeOK, CpuInv, StateInv
<1>6. StateInv' /\ CreateKillExclusion'
  BY <1>1, <1>2, OrdinaryFrame DEF IInv, StateInv, CreateKillExclusion, Holds, TypeOK
<1>7. ArgInv'
  <2>1. pc'[t] = "wait_stack" /\ arg'[t] \in Thread \ Ring
    BY <1>1 DEF IInv, TypeOK
  <2>2. QED
    BY <1>2, <2>1, OrdinaryFrame DEF IInv, ArgInv, Killing
<1>8. OwnInv'
  BY <1>2, OrdinaryFrame DEF IInv, OwnInv, Owns, TypeOK
<1>9. MemInv' /\ OwnRegisters'
  BY <1>2, OrdinaryFrame DEF IInv, MemInv, OwnRegisters, TypeOK
<1>10. QED
  BY <1>2, <1>3, <1>4, <1>5, <1>6, <1>7, <1>8, <1>9, OrdinaryFrame DEF IInv

LEMMA WaitFreeStackStep ==
  ASSUME IInv, NEW t \in Thread, WaitFreeStack(t) PROVE IInv'
<1> USE ThreadsAssumption DEF WaitFreeStack, At, Goto, Quiet, irqVars, ringVars, memVars, localVars
<1>1. Ordinary(t)
  BY DEF IInv, TypeOK, Ordinary
<1>2. TypeOK'
  BY DEF IInv, TypeOK, Label
<1>3. CpuInv' /\ ActivationInv'
  BY <1>1, OrdinaryFrame DEF IInv, CpuInv, ActivationInv, TypeOK
<1>4. PcInv'
  BY <1>1, OrdinaryFrame DEF IInv, PcInv, Killing, TypeOK, CpuInv, StateInv
<1>5. StateInv' /\ CreateKillExclusion'
  BY <1>1, OrdinaryFrame DEF IInv, StateInv, CreateKillExclusion, Holds, TypeOK
<1>6. ArgInv'
  BY <1>1, OrdinaryFrame DEF IInv, ArgInv, Killing, TypeOK
<1>7. OwnInv'
  BY <1>1, OrdinaryFrame DEF IInv, OwnInv, Owns, TypeOK
<1>8. MemInv' /\ OwnRegisters'
  <2>1. arg[t] \in Thread \ Ring
    BY DEF IInv, ArgInv
  <2>2. \A s \in Ring : stk'[s] = stk[s]
    BY <2>1 DEF IInv, TypeOK, Ring
  <2>3. QED
    BY <1>1, <2>2, OrdinaryFrame DEF IInv, MemInv, OwnRegisters
<1>9. QED
  BY <1>1, <1>2, <1>3, <1>4, <1>5, <1>6, <1>7, <1>8, OrdinaryFrame DEF IInv

LEMMA WaitFreeThreadStep ==
  ASSUME IInv, NEW t \in Thread, WaitFreeThread(t) PROVE IInv'
<1> USE ThreadsAssumption DEF WaitFreeThread, At, Goto, Quiet, irqVars, ringVars, memVars, localVars
<1>1. Ordinary(t)
  BY DEF IInv, TypeOK, Ordinary
<1>2. TypeOK'
  BY DEF IInv, TypeOK, Label
<1>3. CpuInv' /\ ActivationInv'
  BY <1>1, OrdinaryFrame DEF IInv, CpuInv, ActivationInv, TypeOK
<1>4. PcInv'
  BY <1>1, OrdinaryFrame DEF IInv, PcInv, Killing, TypeOK, CpuInv, StateInv
<1>5. StateInv' /\ CreateKillExclusion'
  BY <1>1, OrdinaryFrame DEF IInv, StateInv, CreateKillExclusion, Holds, TypeOK
<1>6. ArgInv'
  BY <1>1, OrdinaryFrame DEF IInv, ArgInv, Killing, TypeOK
<1>7. OwnInv'
  <2>1. \A u, r \in Thread : Owns(u, r)' => Owns(u, r) /\ r # arg[t]
    BY DEF IInv, TypeOK, OwnInv, Owns, ArgInv
  <2>2. \A u, r \in Thread : Owns(u, r)' => mem'[r]
    BY <2>1 DEF IInv, TypeOK, OwnInv
  <2>3. \A u, r \in Thread : arg'[u] = r => arg[u] = r
    BY DEF IInv, TypeOK
  <2>4. QED
    BY <2>1, <2>2, <2>3 DEF IInv, OwnInv
<1>8. MemInv' /\ OwnRegisters'
  <2>1. arg[t] \in Thread \ Ring
    BY DEF IInv, ArgInv
  <2>2. \A s \in Ring : mem'[s] = mem[s]
    BY <2>1 DEF IInv, TypeOK, Ring
  <2>3. QED
    BY <1>1, <2>2, OrdinaryFrame DEF IInv, MemInv, OwnRegisters
<1>9. QED
  BY <1>1, <1>2, <1>3, <1>4, <1>5, <1>6, <1>7, <1>8, OrdinaryFrame DEF IInv

(* Steps of the interrupt path that do not switch threads.                 *)
Interrupting(t) ==
  /\ machine = "up" /\ machine' = "up" /\ cpu = t
  /\ UNCHANGED <<cpu, ringVars, memVars, localVars, threads_lock, state>>

LEMMA InterruptingFrame ==
  ASSUME IInv, NEW t \in Thread, Interrupting(t), UNCHANGED pc
  PROVE  /\ Ring' = Ring /\ Ring \subseteq Thread
         /\ \A s \in Thread : Unframed(s)' <=> Unframed(s)
         /\ t \in Ring /\ ~Unframed(t) /\ pc[t] \notin {"none", "zombie", "kill_resume"}
         /\ StateInv' /\ ArgInv' /\ OwnInv' /\ MemInv' /\ LinkInv' /\ OneRing'
         /\ OwnRegisters' /\ CreateKillExclusion'
<1> USE DEF Interrupting, ringVars, memVars, localVars
<1>1. Ring' = Ring /\ Ring \subseteq Thread
  BY DEF Ring
<1>2. \A s \in Thread : /\ Unframed(s)' <=> Unframed(s)
                        /\ HalfLinked(s)' <=> HalfLinked(s)
                        /\ Holds(s)' <=> Holds(s)
  BY DEF Unframed, HalfLinked, Holds
<1>3. \A s, u \in Thread : Owns(s, u)' <=> Owns(s, u)
  BY DEF Owns
<1>4. t \in Ring /\ ~Unframed(t) /\ pc[t] \notin {"none", "zombie", "kill_resume"}
  BY Running
<1>5. StateInv' /\ ArgInv'
  BY <1>1 DEF IInv, StateInv, ArgInv
<1>6. OwnInv' /\ CreateKillExclusion'
  BY <1>2, <1>3 DEF IInv, OwnInv, CreateKillExclusion
<1>7. MemInv' /\ OwnRegisters'
  BY <1>1, <1>2 DEF IInv, MemInv, OwnRegisters
<1>8. LinkInv'
  BY <1>1, <1>2 DEF IInv, LinkInv
<1>9. OneRing'
  BY <1>1 DEF IInv, OneRing
<1>10. QED
  BY <1>1, <1>2, <1>4, <1>5, <1>6, <1>7, <1>8, <1>9

(* A timer request that waits in the controller is in no part of the       *)
(* invariant.                                                              *)
LEMMA TickStep == ASSUME IInv, Tick PROVE IInv'
<1> USE DEF Tick, irqVars, ringVars, memVars, localVars
<1>1. TypeOK'
  BY DEF IInv, TypeOK
<1>2. Ring' = Ring /\ \A s \in Thread : Unframed(s)' <=> Unframed(s)
  BY DEF Ring, Unframed
<1>3. CpuInv' /\ ActivationInv'
  BY <1>2 DEF IInv, CpuInv, ActivationInv, TypeOK
<1>4. PcInv'
  BY <1>2 DEF IInv, PcInv, Idle
<1>5. StateInv' /\ ArgInv'
  BY <1>2 DEF IInv, StateInv, ArgInv
<1>6. OwnInv' /\ CreateKillExclusion'
  BY DEF IInv, OwnInv, Owns, CreateKillExclusion, Holds
<1>7. MemInv' /\ OwnRegisters'
  BY <1>2 DEF IInv, MemInv, OwnRegisters, Ring, TypeOK
<1>8. LinkInv' /\ OneRing'
  BY <1>2 DEF IInv, LinkInv, OneRing, HalfLinked
<1>9. QED
  BY <1>1, <1>3, <1>4, <1>5, <1>6, <1>7, <1>8 DEF IInv

LEMMA InterruptStep ==
  ASSUME IInv, NEW t \in Thread, Interrupt(t) PROVE IInv'
<1> USE DEF Interrupt
<1>1. Interrupting(t) /\ UNCHANGED pc
  BY DEF Interrupting
<1>2. depth[t] + 1 \in Nat \ {0}
  BY DEF IInv, TypeOK
<1>3. TypeOK'
  BY <1>2 DEF IInv, TypeOK, ringVars, memVars, localVars
<1>4. CpuInv' /\ ActivationInv'
  BY <1>1, <1>2, InterruptingFrame DEF IInv, CpuInv, ActivationInv, TypeOK, ringVars
<1>5. PcInv'
  BY <1>1, InterruptingFrame DEF IInv, PcInv, Idle, TypeOK, memVars, localVars
<1>6. QED
  BY <1>1, <1>3, <1>4, <1>5, InterruptingFrame DEF IInv

LEMMA AcknowledgeStep ==
  ASSUME IInv, NEW t \in Thread, Acknowledge(t) PROVE IInv'
<1> USE DEF Acknowledge
<1>1. Interrupting(t) /\ UNCHANGED pc
  BY DEF Interrupting
<1>2. TypeOK'
  BY DEF IInv, TypeOK, ringVars, memVars, localVars
<1>3. CpuInv' /\ ActivationInv'
  BY <1>1, InterruptingFrame DEF IInv, CpuInv, ActivationInv, TypeOK, ringVars
<1>4. PcInv'
  BY <1>1, InterruptingFrame DEF IInv, PcInv, Idle, TypeOK, memVars, localVars
<1>5. QED
  BY <1>1, <1>2, <1>3, <1>4, InterruptingFrame DEF IInv

LEMMA IRetStep ==
  ASSUME IInv, NEW t \in Thread, IRet(t) PROVE IInv'
<1> USE DEF IRet
<1>1. Interrupting(t) /\ UNCHANGED pc
  BY DEF Interrupting
<1>2. depth[t] \in Nat \ {0}
  BY DEF IInv, TypeOK, ActivationInv
<1>3. TypeOK'
  BY <1>2 DEF IInv, TypeOK, ringVars, memVars, localVars
<1>4. CpuInv'
  <2>1. pc[t] \notin {"boot", "start", "kill_unlock", "kill_switch"}
    BY DEF IInv, ActivationInv
  <2>2. QED
    BY <1>1, <2>1, InterruptingFrame DEF IInv, CpuInv, TypeOK, ringVars
<1>5. ActivationInv'
  BY <1>1, <1>2, InterruptingFrame DEF IInv, ActivationInv, TypeOK
<1>6. PcInv'
  BY <1>1, InterruptingFrame DEF IInv, PcInv, Idle, TypeOK, memVars, localVars
<1>7. QED
  BY <1>1, <1>3, <1>4, <1>5, <1>6, InterruptingFrame DEF IInv

(* A ring of one thread is the boot thread's, which is not being killed:   *)
(* switch_threads() returns into the interrupt handler.                    *)
LEMMA SwitchReturnsStep ==
  ASSUME IInv, NEW t \in Thread, SwitchReturns(t) PROVE IInv'
<1>1. /\ machine = "up" /\ machine' = "up" /\ cpu = t /\ ints' = TRUE
      /\ threads_head = t /\ ~all_proc_ended /\ next[t] = t
      /\ UNCHANGED <<cpu, irr, isr, threads_head, all_proc_ended, next, prev, memVars,
                     localVars, depth, threads_lock, state>>
  <2>1. machine = "up" /\ cpu = t
    BY DEF SwitchReturns, CallsSwitch, At
  <2>2. threads_head = t /\ ~all_proc_ended /\ t # NULL
    BY <2>1, ThreadsAssumption DEF IInv, CpuInv
  <2>3. all_proc_ended = FALSE /\ all_proc_ended' = FALSE
    BY <2>1, <2>2 DEF IInv, TypeOK, SwitchReturns
  <2>4. QED
    BY <2>1, <2>2, <2>3 DEF SwitchReturns
<1>2. Ring = {t}
  <2>1. {t} \in SUBSET Ring /\ \A s \in {t} : next[s] \in {t}
    BY <1>1 DEF IInv, CpuInv
  <2>2. QED
    BY <2>1 DEF IInv, OneRing
<1>3. t = Kernel
  BY <1>2 DEF IInv, PcInv
<1>4. handler[t] = "switch" /\ handler' = [handler EXCEPT ![t] = "exit"] /\ UNCHANGED pc
  <2>1. ~At(t, "kill_switch")
    BY <1>3 DEF At, IInv, PcInv, Killing
  <2>2. QED
    BY <2>1 DEF SwitchReturns, CallsSwitch, CallerAt
<1>5. Interrupting(t)
  BY <1>1 DEF Interrupting, ringVars
<1>6. TypeOK'
  BY <1>1, <1>4, <1>5 DEF IInv, TypeOK, Interrupting, ringVars, memVars, localVars
<1>7. CpuInv'
  BY <1>1, <1>4, <1>5, InterruptingFrame DEF IInv, CpuInv, TypeOK, Interrupting, ringVars
<1>8. ActivationInv'
  BY <1>1, <1>4, <1>5, InterruptingFrame DEF IInv, ActivationInv, TypeOK
<1>9. PcInv'
  BY <1>1, <1>4, <1>5, InterruptingFrame DEF IInv, PcInv, Idle, TypeOK, memVars, localVars
<1>10. QED
  BY <1>4, <1>5, <1>6, <1>7, <1>8, <1>9, InterruptingFrame DEF IInv

(* Nobody comes back to thread_kill(): who is restored was switched out by *)
(* an interrupt.                                                           *)
LEMMA ResumeStep ==
  ASSUME IInv, NEW t \in Thread, Resume(t) PROVE IInv'
<1>1. machine = "up" /\ cpu = t
  BY DEF Resume, At
<1>2. handler[t] = "resume" /\ handler' = [handler EXCEPT ![t] = "exit"] /\ UNCHANGED pc
  <2>1. ~At(t, "kill_resume")
    BY <1>1, Running DEF At
  <2>2. QED
    BY <2>1 DEF Resume, CallerAt
<1>3. Interrupting(t)
  BY <1>1 DEF Interrupting, Resume
<1>4. TypeOK'
  BY <1>2, <1>3 DEF IInv, TypeOK, Interrupting, Resume, ringVars, memVars, localVars
<1>5. CpuInv' /\ ActivationInv'
  BY <1>1, <1>2, <1>3, InterruptingFrame DEF IInv, CpuInv, ActivationInv, TypeOK, Resume, ringVars
<1>6. PcInv'
  BY <1>1, <1>2, <1>3, InterruptingFrame DEF IInv, PcInv, Idle, TypeOK, Resume, memVars, localVars
<1>7. QED
  BY <1>2, <1>3, <1>4, <1>5, <1>6, InterruptingFrame DEF IInv

-----------------------------------------------------------------------------
(* While t holds threads_lock nobody else is in the critical section.      *)
LEMMA SoleHolder ==
  ASSUME IInv, NEW t \in Thread, Holds(t)
  PROVE  /\ threads_lock = "LOCKED"
         /\ \A u \in Thread \ {t} : ~Holds(u)
  BY DEF IInv, CreateKillExclusion

(* The forward links: the new thread is in the ring, ahead of its back     *)
(* pointer.                                                                *)
LEMMA InsertForwardStep ==
  ASSUME IInv, NEW t \in Thread, InsertForward(t) PROVE IInv'
<1> DEFINE n == arg[t]
           L == prev[t]
<1> USE DEF At, Goto, Quiet, irqVars, ringVars, memVars, localVars
<1>1. /\ machine = "up" /\ cpu = t /\ handler[t] = "none" /\ pc[t] = "create_link"
      /\ Holds(t)
  BY DEF InsertForward, Holds
<1>2. /\ t \in Ring /\ Ring \subseteq Thread /\ L \in Ring /\ L \in Thread
      /\ next[L] = t /\ ~Unframed(t)
  BY <1>1, Running DEF IInv, LinkInv, HalfLinked, Ring
<1>3. /\ n \in Thread \ Ring /\ n # t /\ n # L
      /\ state[n] = "RUNNING" /\ frame[n] = NULL
      /\ lnext[t] = t /\ lprev[t] = L
  BY <1>1, <1>2 DEF IInv, ArgInv
<1>4. \A u \in Thread \ {t} : ~Holds(u) /\ arg[u] # n
  BY <1>1, <1>3, SoleHolder DEF IInv, OwnInv, Owns
<1>5. Idle(n)
  <2>1. pc[n] # "kill_cli"
    BY <1>3, <1>4 DEF Holds
  <2>2. QED
    BY <1>3, <2>1 DEF IInv, PcInv
<1>6. /\ next \in [Thread -> Thread \cup {NULL}] /\ prev \in [Thread -> Thread \cup {NULL}]
      /\ pc \in [Thread -> Label]
  BY DEF IInv, TypeOK
<1>7. /\ next'[n] = t /\ next'[L] = n /\ prev'[n] = L
      /\ \A s \in Thread \ {n, L} : next'[s] = next[s]
      /\ \A s \in Thread \ {n} : prev'[s] = prev[s]
      /\ pc'[t] = "create_back" /\ \A s \in Thread \ {t} : pc'[s] = pc[s]
      /\ UNCHANGED <<machine, cpu, ints, irr, isr, threads_head, all_proc_ended, mem, stk,
                     frame, arg, lprev, lnext, handles, handler, depth, threads_lock, state>>
  BY <1>2, <1>3, <1>6 DEF InsertForward
<1>8. Ring' = Ring \cup {n}
  BY <1>2, <1>3, <1>6, <1>7, ThreadsAssumption DEF Ring
<1>9. \A s \in Thread : /\ ~Unframed(s) /\ (Unframed(s)' <=> s = n)
                        /\ ~HalfLinked(s) /\ (HalfLinked(s)' <=> s = t)
                        /\ Holds(s)' <=> Holds(s)
  BY <1>1, <1>4, <1>7 DEF Unframed, HalfLinked, Holds
<1>10. TypeOK'
  BY <1>3 DEF IInv, TypeOK, InsertForward, Label
<1>11. CpuInv' /\ ActivationInv'
  BY <1>1, <1>3, <1>5, <1>7, <1>8, <1>9 DEF IInv, CpuInv, ActivationInv, Idle
<1>12. PcInv'
  BY <1>1, <1>3, <1>5, <1>7, <1>8, <1>9 DEF IInv, PcInv, Idle, Killing
<1>13. StateInv'
  BY <1>1, <1>3, <1>5, <1>7, <1>8 DEF IInv, StateInv, Idle
<1>14. ArgInv'
  <2>1. \A s \in Thread \ {t} :
          pc[s] \notin {"create_stack", "create_read", "create_link",
                        "create_back", "create_frame", "create_unlock"}
    BY <1>4 DEF Holds
  <2>2. QED
    BY <1>1, <1>2, <1>3, <1>4, <1>7, <1>8, <2>1 DEF IInv, ArgInv, Killing
<1>15. OwnInv' /\ CreateKillExclusion'
  BY <1>7, <1>9 DEF IInv, OwnInv, Owns, CreateKillExclusion
<1>16. MemInv' /\ OwnRegisters'
  <2>1. mem[n]
    BY <1>3 DEF IInv, OwnInv, Owns
  <2>2. QED
    BY <1>2, <1>3, <1>7, <1>8, <1>9, <2>1 DEF IInv, MemInv, OwnRegisters
<1>17. LinkInv'
  <2>1. \A s \in Ring : /\ next[s] \in Ring /\ prev[s] \in Ring
                        /\ prev[next[s]] = s /\ next[prev[s]] = s
    BY <1>2, <1>9 DEF IInv, LinkInv
  <2>2. ASSUME NEW s \in Ring
        PROVE  /\ next'[s] \in Ring' /\ prev'[s] \in Ring'
               /\ prev'[next'[s]] = s \/ \E u \in Thread : HalfLinked(u)' /\ arg'[u] = s
               /\ next'[prev'[s]] = s \/ HalfLinked(s)'
    <3>1. CASE s = L
      BY <1>2, <1>3, <1>7, <1>8, <1>9, <2>1, <3>1
    <3>2. CASE s # L
      BY <1>2, <1>3, <1>7, <1>8, <1>9, <2>1, <3>2
    <3>3. QED
      BY <3>1, <3>2
  <2>3. next'[n] \in Ring' /\ prev'[n] \in Ring' /\ HalfLinked(t)' /\ arg'[t] = n
        /\ next'[prev'[n]] = n
    BY <1>2, <1>7, <1>8, <1>9
  <2>4. QED
    BY <1>8, <2>2, <2>3 DEF LinkInv
<1>18. OneRing'
  <2> SUFFICES ASSUME NEW S \in SUBSET Ring', S # {}, \A s \in S : next'[s] \in S
               PROVE  S = Ring'
    BY DEF OneRing
  <2> DEFINE R == S \ {n}
  <2>1. R \in SUBSET Ring
    BY <1>8
  <2>2. \A s \in R : next[s] \in R
    <3> SUFFICES ASSUME NEW s \in R
                 PROVE  next[s] \in R
      OBVIOUS
    <3>1. next[s] \in Ring /\ next[s] # n
      BY <2>1, <1>3 DEF IInv, LinkInv
    <3>2. CASE s = L
      BY <1>2, <1>3, <1>7, <3>2
    <3>3. CASE s # L
      BY <1>2, <1>7, <2>1, <3>1, <3>3
    <3>4. QED
      BY <3>2, <3>3
  <2>3. R # {}
    BY <1>3, <1>7
  <2>4. R = Ring
    BY <2>1, <2>2, <2>3 DEF IInv, OneRing
  <2>5. n \in S
    BY <1>2, <1>7, <2>4
  <2>6. QED
    BY <1>8, <2>4, <2>5
<1>19. QED
  BY <1>10, <1>11, <1>12, <1>13, <1>14, <1>15, <1>16, <1>17, <1>18 DEF IInv

(* The back pointer makes the ring doubly linked again.                    *)
LEMMA InsertBackwardStep ==
  ASSUME IInv, NEW t \in Thread, InsertBackward(t) PROVE IInv'
<1> DEFINE n == arg[t]
<1> USE DEF At, Goto, Quiet, irqVars, ringVars, memVars, localVars
<1>1. /\ machine = "up" /\ cpu = t /\ handler[t] = "none" /\ pc[t] = "create_back"
      /\ Holds(t)
  BY DEF InsertBackward, Holds
<1>2. /\ t \in Ring /\ Ring \subseteq Thread /\ ~Unframed(t)
      /\ n \in Ring /\ n # t /\ lnext[t] = t
      /\ next[n] = t /\ prev[n] = prev[t] /\ next[prev[t]] = n
  BY <1>1, Running DEF IInv, ArgInv, Unframed, Ring
<1>3. \A u \in Thread \ {t} : ~Holds(u)
  BY <1>1, SoleHolder
<1>4. /\ next \in [Thread -> Thread \cup {NULL}] /\ prev \in [Thread -> Thread \cup {NULL}]
      /\ pc \in [Thread -> Label]
  BY DEF IInv, TypeOK
<1>5. /\ prev'[t] = n /\ \A s \in Thread \ {t} : prev'[s] = prev[s]
      /\ pc'[t] = "create_frame" /\ \A s \in Thread \ {t} : pc'[s] = pc[s]
      /\ UNCHANGED <<machine, cpu, ints, irr, isr, threads_head, all_proc_ended, next, mem,
                     stk, frame, arg, handles, handler, depth, threads_lock, state>>
  BY <1>2, <1>4 DEF InsertBackward
<1>6. Ring' = Ring
  BY <1>5 DEF Ring
<1>7. \A s \in Thread : /\ Unframed(s)' <=> Unframed(s)
                        /\ HalfLinked(s) <=> s = t
                        /\ ~HalfLinked(s)'
                        /\ Holds(s)' <=> Holds(s)
  BY <1>1, <1>3, <1>5 DEF Unframed, HalfLinked, Holds
<1>8. TypeOK'
  BY DEF IInv, TypeOK, InsertBackward, Label
<1>9. CpuInv' /\ ActivationInv'
  BY <1>1, <1>2, <1>5, <1>6, <1>7 DEF IInv, CpuInv, ActivationInv
<1>10. PcInv'
  BY <1>1, <1>2, <1>5, <1>6, <1>7 DEF IInv, PcInv, Idle, Killing
<1>11. StateInv'
  BY <1>1, <1>5, <1>6 DEF IInv, StateInv
<1>12. ArgInv'
  <2>1. \A s \in Thread \ {t} :
          pc[s] \notin {"create_stack", "create_read", "create_link",
                        "create_back", "create_frame", "create_unlock"}
    BY <1>3 DEF Holds
  <2>2. QED
    BY <1>1, <1>2, <1>5, <1>6, <2>1 DEF IInv, ArgInv, Killing
<1>13. OwnInv' /\ CreateKillExclusion'
  BY <1>5, <1>7 DEF IInv, OwnInv, Owns, CreateKillExclusion
<1>14. MemInv' /\ OwnRegisters'
  BY <1>2, <1>5, <1>6, <1>7 DEF IInv, MemInv, OwnRegisters
<1>15. LinkInv'
  <2>1. \A s \in Ring : /\ next[s] \in Ring /\ prev[s] \in Ring
                        /\ s # n => prev[next[s]] = s
                        /\ s # t => next[prev[s]] = s
    BY <1>2, <1>7 DEF IInv, LinkInv
  <2>2. ASSUME NEW s \in Ring, s # n
        PROVE  next[s] # t
    BY <1>2, <2>1, <2>2
  <2>3. QED
    BY <1>2, <1>5, <1>6, <1>7, <2>1, <2>2 DEF LinkInv
<1>16. OneRing'
  BY <1>5, <1>6 DEF IInv, OneRing
<1>17. QED
  BY <1>8, <1>9, <1>10, <1>11, <1>12, <1>13, <1>14, <1>15, <1>16 DEF IInv

(* The first frame ends the time in which the new thread must not be       *)
(* switched to.                                                            *)
LEMMA LayFrameStep ==
  ASSUME IInv, NEW t \in Thread, LayFrame(t) PROVE IInv'
<1> DEFINE n == arg[t]
<1> USE DEF At, Goto, Quiet, irqVars, ringVars, memVars, localVars
<1>1. /\ machine = "up" /\ cpu = t /\ handler[t] = "none" /\ pc[t] = "create_frame"
      /\ Holds(t)
  BY DEF LayFrame, Holds
<1>2. /\ t \in Ring /\ Ring \subseteq Thread /\ ~Unframed(t)
      /\ n \in Ring /\ n # t /\ Unframed(n) /\ Idle(n)
  BY <1>1, Running DEF IInv, ArgInv, PcInv, Unframed, Ring
<1>3. \A u \in Thread \ {t} : ~Holds(u)
  BY <1>1, SoleHolder
<1>4. Ring' = Ring
  BY DEF Ring, LayFrame
<1>5. CASE ~stk[n]
  <2>1. /\ machine' = "fault" /\ ints' = FALSE
        /\ UNCHANGED <<cpu, irr, isr, threads_head, all_proc_ended, next, prev, mem, stk,
                       frame, arg, lprev, lnext, handles, handler, depth, threads_lock,
                       state, pc>>
    BY <1>5 DEF LayFrame
  <2>2. \A s \in Thread : /\ Unframed(s)' <=> Unframed(s)
                          /\ HalfLinked(s)' <=> HalfLinked(s)
                          /\ Holds(s)' <=> Holds(s)
    BY <2>1 DEF Unframed, HalfLinked, Holds
  <2>3. TypeOK'
    BY <2>1 DEF IInv, TypeOK
  <2>4. CpuInv' /\ ActivationInv' /\ PcInv'
    BY <1>2, <1>4, <2>1, <2>2 DEF IInv, CpuInv, ActivationInv, PcInv, Idle
  <2>5. StateInv' /\ ArgInv'
    BY <1>4, <2>1 DEF IInv, StateInv, ArgInv
  <2>6. OwnInv' /\ CreateKillExclusion'
    BY <2>1, <2>2 DEF IInv, OwnInv, Owns, CreateKillExclusion
  <2>7. MemInv' /\ OwnRegisters'
    BY <1>2, <1>4, <2>1, <2>2 DEF IInv, MemInv, OwnRegisters
  <2>8. LinkInv' /\ OneRing'
    BY <1>2, <1>4, <2>1, <2>2 DEF IInv, LinkInv, OneRing
  <2>9. QED
    BY <2>3, <2>4, <2>5, <2>6, <2>7, <2>8 DEF IInv
<1>6. CASE stk[n]
  <2>1. /\ frame'[n] = n /\ \A s \in Thread \ {n} : frame'[s] = frame[s]
        /\ pc'[t] = "create_unlock" /\ pc'[n] = "start"
        /\ \A s \in Thread \ {t, n} : pc'[s] = pc[s]
        /\ UNCHANGED <<machine, cpu, ints, irr, isr, threads_head, all_proc_ended, next,
                       prev, mem, stk, arg, lprev, lnext, handles, handler, depth,
                       threads_lock, state>>
    BY <1>2, <1>6 DEF LayFrame, IInv, TypeOK
  <2>2. \A s \in Thread : /\ ~Unframed(s)' /\ (Unframed(s) <=> s = n)
                          /\ ~HalfLinked(s) /\ ~HalfLinked(s)'
                          /\ Holds(s)' <=> Holds(s)
    BY <1>1, <1>2, <1>3, <2>1 DEF Unframed, HalfLinked, Holds, Idle
  <2>3. TypeOK'
    BY <1>6, <1>2 DEF IInv, TypeOK, LayFrame, Label
  <2>4. CpuInv' /\ ActivationInv'
    BY <1>1, <1>2, <1>4, <2>1, <2>2 DEF IInv, CpuInv, ActivationInv, Idle
  <2>5. PcInv'
    BY <1>1, <1>2, <1>4, <2>1, <2>2 DEF IInv, PcInv, Idle, Killing
  <2>6. StateInv'
    BY <1>1, <1>2, <1>4, <2>1 DEF IInv, StateInv, Idle
  <2>7. ArgInv'
    <3>1. \A s \in Thread \ {t} :
            pc[s] \notin {"create_stack", "create_read", "create_link",
                          "create_back", "create_frame", "create_unlock"}
      BY <1>3 DEF Holds
    <3>2. QED
      BY <1>1, <1>2, <1>4, <2>1, <3>1 DEF IInv, ArgInv, Killing, Idle
  <2>8. OwnInv' /\ CreateKillExclusion'
    BY <2>1, <2>2 DEF IInv, OwnInv, Owns, CreateKillExclusion
  <2>9. MemInv' /\ OwnRegisters'
    BY <1>2, <1>4, <1>6, <2>1, <2>2 DEF IInv, MemInv, OwnRegisters
  <2>10. LinkInv' /\ OneRing'
    BY <1>2, <1>4, <2>1, <2>2 DEF IInv, LinkInv, OneRing
  <2>11. QED
    BY <2>3, <2>4, <2>5, <2>6, <2>7, <2>8, <2>9, <2>10 DEF IInv
<1>7. QED
  BY <1>5, <1>6

-----------------------------------------------------------------------------
(* What every switch does: the CPU goes from t to the next thread of the   *)
(* ring.  None of the assertions fails.                                    *)
LEMMA SwitchFacts ==
  ASSUME IInv, NEW t \in Thread, Switch(t)
  PROVE  /\ machine = "up" /\ cpu = t /\ threads_head = t
         /\ Ring \subseteq Thread /\ t \in Ring /\ ~Unframed(t) /\ ~isr
         /\ next[t] \in Ring /\ next[t] # t
         /\ cpu' = next[t] /\ ints' = FALSE
         /\ machine' = IF frame[next[t]] = NULL THEN "wild" ELSE "up"
         /\ threads_head' = next[t] /\ ~all_proc_ended'
         /\ frame' = [frame EXCEPT ![t] = t]
         /\ \/ handler[t] = "switch" /\ pc' = pc
               /\ handler' = [handler EXCEPT ![t] = "resume"]
            \/ handler[t] = "none" /\ pc[t] = "kill_switch" /\ handler' = handler
               /\ pc' = [pc EXCEPT ![t] = "kill_resume"]
         /\ IF state[t] = "DYING"
              THEN /\ state' = [state EXCEPT ![t] = "DEAD"]
                   /\ next' = [next EXCEPT ![prev[t]] = next[t], ![t] = NULL]
                   /\ prev' = [prev EXCEPT ![next[t]] = prev[t], ![t] = NULL]
              ELSE UNCHANGED <<state, next, prev>>
         /\ UNCHANGED <<irr, isr, mem, stk, arg, lprev, lnext, handles, depth, threads_lock>>
<1>1. machine = "up" /\ cpu = t
  BY DEF Switch, CallsSwitch, At
<1>2. /\ threads_head = t /\ Ring \subseteq Thread /\ t \in Ring /\ ~Unframed(t)
      /\ ~all_proc_ended /\ all_proc_ended = FALSE
  BY <1>1, Running DEF IInv, CpuInv, Ring, TypeOK
<1>3. ~isr
  BY <1>1 DEF IInv, CpuInv, Switch, CallsSwitch, At
<1>4. next[t] # t /\ next[t] \in Ring /\ next[t] # NULL
  BY <1>2, ThreadsAssumption DEF Switch, IInv, LinkInv
<1>5. state[t] # "DEAD" /\ state[next[t]] # "DEAD"
  BY <1>2, <1>4 DEF IInv, StateInv
<1>6. frame[next[t]] = next[t] \/ frame[next[t]] = NULL
  BY <1>1, <1>4 DEF IInv, OwnRegisters
<1>7. /\ \/ handler[t] = "switch" /\ pc' = pc
            /\ handler' = [handler EXCEPT ![t] = "resume"]
         \/ handler[t] = "none" /\ pc[t] = "kill_switch" /\ handler' = handler
            /\ pc' = [pc EXCEPT ![t] = "kill_resume"]
      /\ frame' = [frame EXCEPT ![t] = t]
      /\ cpu' = next[t] /\ ints' = FALSE
      /\ machine' = IF frame[next[t]] = NULL THEN "wild" ELSE "up"
  <2>1. /\ CallerAt(t, "resume", "kill_resume") /\ CallsSwitch(t)
        /\ frame' = [frame EXCEPT ![t] = cpu] /\ ints' = FALSE
        /\ cpu' = IF frame[next[t]] = NULL THEN next[t] ELSE frame[next[t]]
        /\ machine' = IF frame[next[t]] = NULL THEN "wild" ELSE "up"
    BY <1>2, <1>4, <1>5 DEF Switch, SaveRegisters
  <2>2. CASE handler[t] = "switch"
    BY <1>1, <1>6, <2>1, <2>2 DEF CallerAt
  <2>3. CASE handler[t] # "switch"
    BY <1>1, <1>6, <2>1, <2>3 DEF CallerAt, CallsSwitch, At, Goto
  <2>4. QED
    BY <2>2, <2>3
<1>8. /\ threads_head' = next[t] /\ ~all_proc_ended'
      /\ IF state[t] = "DYING"
           THEN /\ state' = [state EXCEPT ![t] = "DEAD"]
                /\ next' = [next EXCEPT ![prev[t]] = next[t], ![t] = NULL]
                /\ prev' = [prev EXCEPT ![next[t]] = prev[t], ![t] = NULL]
           ELSE UNCHANGED <<state, next, prev>>
  <2>1. CASE state[t] = "DYING"
    <3>1. ThreadDel(t, next[t]) /\ state' = [state EXCEPT ![t] = "DEAD"]
      BY <1>2, <1>4, <1>5, <2>1 DEF Switch
    <3>2. QED
      BY <1>2, <1>4, <2>1, <3>1 DEF ThreadDel, ListDel
  <2>2. CASE state[t] # "DYING"
    BY <1>2, <1>4, <1>5, <2>2 DEF Switch
  <2>3. QED
    BY <2>1, <2>2
<1>9. UNCHANGED <<irr, isr, mem, stk, arg, lprev, lnext, handles, depth, threads_lock>>
  BY DEF Switch, localVars
<1>10. QED
  BY <1>1, <1>2, <1>3, <1>4, <1>7, <1>8, <1>9

(* A switch away from a thread that lives on: the ring stays as it is.     *)
LEMMA SwitchAlive ==
  ASSUME IInv, NEW t \in Thread, Switch(t), state[t] # "DYING" PROVE IInv'
<1> DEFINE x == next[t]
<1>1. pc[t] # "kill_switch"
  BY SwitchFacts DEF IInv, StateInv
<1>2. /\ machine = "up" /\ cpu = t /\ t \in Ring /\ ~Unframed(t) /\ ~isr
      /\ Ring \subseteq Thread /\ x \in Ring /\ x # t
      /\ cpu' = x /\ threads_head' = x /\ ints' = FALSE
      /\ machine' = IF frame[x] = NULL THEN "wild" ELSE "up"
      /\ ~all_proc_ended' /\ handler[t] = "switch"
      /\ frame' = [frame EXCEPT ![t] = t] /\ handler' = [handler EXCEPT ![t] = "resume"]
      /\ UNCHANGED <<pc, state, next, prev, irr, isr, mem, stk, arg, lprev, lnext, handles,
                     depth, threads_lock>>
  BY <1>1, SwitchFacts
<1>3. all_proc_ended' \in BOOLEAN /\ x \in Thread
  BY <1>2 DEF Switch, IInv, TypeOK, ThreadDel
<1>4. Ring' = Ring
  BY <1>2 DEF Ring
<1>5. /\ frame'[t] = t /\ handler'[t] = "resume"
      /\ \A s \in Thread \ {t} : frame'[s] = frame[s] /\ handler'[s] = handler[s]
  BY <1>2 DEF IInv, TypeOK
<1>6. \A s \in Thread : /\ Unframed(s)' <=> Unframed(s)
                        /\ HalfLinked(s)' <=> HalfLinked(s)
                        /\ Holds(s)' <=> Holds(s)
  BY <1>2 DEF Unframed, HalfLinked, Holds
<1>7. TypeOK'
  BY <1>2, <1>3 DEF IInv, TypeOK
<1>8. CpuInv'
  <2>1. machine' = "up" => ~Unframed(x)
    BY <1>2, <1>3 DEF IInv, PcInv
  <2>2. QED
    BY <1>2, <1>3, <1>4, <1>6, <2>1 DEF CpuInv
<1>9. ActivationInv'
  BY <1>2, <1>4, <1>5, <1>6 DEF IInv, ActivationInv
<1>10. PcInv'
  BY <1>2, <1>4, <1>5, <1>6 DEF IInv, PcInv, Idle
<1>11. StateInv'
  BY <1>2, <1>4 DEF IInv, StateInv
<1>12. ArgInv'
  BY <1>2, <1>4, <1>5 DEF IInv, ArgInv
<1>13. OwnInv' /\ CreateKillExclusion'
  BY <1>2, <1>6 DEF IInv, OwnInv, Owns, CreateKillExclusion
<1>14. MemInv' /\ OwnRegisters'
  BY <1>2, <1>4, <1>5, <1>6 DEF IInv, MemInv, OwnRegisters
<1>15. LinkInv' /\ OneRing'
  BY <1>2, <1>4, <1>6 DEF IInv, LinkInv, OneRing
<1>16. QED
  BY <1>7, <1>8, <1>9, <1>10, <1>11, <1>12, <1>13, <1>14, <1>15 DEF IInv

(* A switch away from a dying thread: it leaves the ring for ever, and     *)
(* what is left is one ring.                                               *)
LEMMA SwitchDying ==
  ASSUME IInv, NEW t \in Thread, Switch(t), state[t] = "DYING" PROVE IInv'
<1> DEFINE x == next[t]
           w == prev[t]
<1>1. /\ machine = "up" /\ cpu = t /\ t \in Ring /\ ~Unframed(t) /\ ~isr
      /\ Ring \subseteq Thread /\ x \in Ring /\ x # t
      /\ cpu' = x /\ threads_head' = x /\ ints' = FALSE
      /\ machine' = IF frame[x] = NULL THEN "wild" ELSE "up"
      /\ ~all_proc_ended'
      /\ frame' = [frame EXCEPT ![t] = t] /\ state' = [state EXCEPT ![t] = "DEAD"]
      /\ next' = [next EXCEPT ![w] = x, ![t] = NULL]
      /\ prev' = [prev EXCEPT ![x] = w, ![t] = NULL]
      /\ UNCHANGED <<irr, isr, mem, stk, arg, lprev, lnext, handles, depth, threads_lock>>
  BY SwitchFacts
<1>2. all_proc_ended' \in BOOLEAN
  BY <1>1 DEF Switch, IInv, TypeOK, ThreadDel
<1>3. /\ pc \in [Thread -> Label] /\ next \in [Thread -> Thread \cup {NULL}]
      /\ prev \in [Thread -> Thread \cup {NULL}] /\ state \in [Thread -> {"RUNNING", "DYING", "DEAD"}]
      /\ handler \in [Thread -> {"none", "ack", "switch", "resume", "exit"}]
      /\ frame \in [Thread -> Thread \cup {NULL}]
  BY DEF IInv, TypeOK
<1>4. /\ t # Kernel /\ handles[t] = {} /\ arg[t] = NULL
      /\ \/ pc[t] = "kill_cli" /\ pc' = pc /\ handler[t] = "switch"
            /\ handler' = [handler EXCEPT ![t] = "resume"]
         \/ pc[t] = "kill_switch" /\ handler[t] = "none" /\ handler' = handler
            /\ pc' = [pc EXCEPT ![t] = "kill_resume"]
  <2>1. pc[t] \in {"kill_cli", "kill_unlock", "kill_switch"}
    BY <1>1 DEF IInv, StateInv
  <2>2. pc[t] \in {"kill_unlock", "kill_switch"} => handler[t] = "none"
    BY DEF IInv, ActivationInv
  <2>3. t # Kernel /\ handles[t] = {} /\ arg[t] = NULL
    BY <2>1 DEF IInv, PcInv, ArgInv, Killing
  <2>4. QED
    BY <2>1, <2>2, <2>3, SwitchFacts
<1>5. \A s \in Thread \ {t} : ~Holds(s)
  <2>1. CASE pc[t] = "kill_cli"
    BY <2>1, SoleHolder DEF Holds
  <2>2. CASE pc[t] = "kill_switch"
    BY <2>2 DEF IInv, StateInv, CreateKillExclusion
  <2>3. QED
    BY <1>4, <2>1, <2>2
<1>6. /\ \A s \in Thread \ {t} : pc'[s] = pc[s] /\ handler'[s] = handler[s]
                                 /\ frame'[s] = frame[s] /\ state'[s] = state[s]
      /\ state'[t] = "DEAD"
      /\ pc[t] = "kill_cli" => pc'[t] = "kill_cli" /\ handler'[t] = "resume"
      /\ pc[t] = "kill_switch" => pc'[t] = "kill_resume" /\ handler'[t] = "none"
  BY <1>1, <1>3, <1>4
<1>7. \A s \in Thread : /\ ~Unframed(s) /\ ~Unframed(s)'
                        /\ ~HalfLinked(s) /\ ~HalfLinked(s)'
                        /\ Holds(s)' <=> Holds(s)
  BY <1>4, <1>5, <1>6 DEF Unframed, HalfLinked, Holds
<1>8. \A s \in Ring : /\ next[s] \in Ring /\ prev[s] \in Ring
                      /\ prev[next[s]] = s /\ next[prev[s]] = s
  BY <1>1, <1>7 DEF IInv, LinkInv
<1>9. /\ t \in Ring /\ x \in Ring /\ x # t /\ Ring \subseteq Thread
      /\ w \in Ring /\ w # t /\ next[w] = t /\ next[t] = x /\ prev[x] = t
  BY <1>1, <1>8
<1>10. /\ next'[w] = x /\ next'[t] = NULL /\ \A s \in Thread \ {t, w} : next'[s] = next[s]
       /\ prev'[x] = w /\ prev'[t] = NULL /\ \A s \in Thread \ {t, x} : prev'[s] = prev[s]
  BY <1>1, <1>3, <1>9
<1>11. Ring' = Ring \ {t}
  BY <1>1, <1>9, <1>10, ThreadsAssumption DEF Ring
<1>12. TypeOK'
  BY <1>1, <1>2, <1>3, <1>4, <1>9 DEF IInv, TypeOK, Label
<1>13. CpuInv'
  BY <1>1, <1>7, <1>11, <1>6, <1>2 DEF CpuInv
<1>14. ActivationInv'
  BY <1>1, <1>4, <1>6, <1>7, <1>11 DEF IInv, ActivationInv
<1>15. PcInv'
  BY <1>1, <1>4, <1>6, <1>7, <1>11 DEF IInv, PcInv, Idle, Killing
<1>16. StateInv'
  BY <1>1, <1>4, <1>6, <1>11 DEF IInv, StateInv
<1>17. ArgInv'
  <2>1. \A s \in Thread \ {t} :
          pc[s] \notin {"create_stack", "create_read", "create_link",
                        "create_back", "create_frame", "create_unlock"}
    BY <1>5 DEF Holds
  <2>2. QED
    BY <1>1, <1>4, <1>6, <1>11, <2>1 DEF IInv, ArgInv, Killing
<1>18. OwnInv' /\ CreateKillExclusion'
  BY <1>1, <1>7 DEF IInv, OwnInv, Owns, CreateKillExclusion
<1>19. MemInv' /\ OwnRegisters'
  BY <1>1, <1>6, <1>7, <1>11 DEF IInv, MemInv, OwnRegisters
<1>20. LinkInv'
  <2>1. ASSUME NEW s \in Ring, s # t
        PROVE  /\ next'[s] \in Ring' /\ prev'[s] \in Ring'
               /\ prev'[next'[s]] = s /\ next'[prev'[s]] = s
    <3>1. next'[s] \in Ring' /\ prev'[next'[s]] = s
      <4>1. CASE s = w
        BY <1>9, <1>10, <1>11, <4>1
      <4>2. CASE s # w
        BY <1>8, <1>9, <1>10, <1>11, <2>1, <4>2
      <4>3. QED
        BY <4>1, <4>2
    <3>2. prev'[s] \in Ring' /\ next'[prev'[s]] = s
      <4>1. CASE s = x
        BY <1>9, <1>10, <1>11, <4>1
      <4>2. CASE s # x
        BY <1>8, <1>9, <1>10, <1>11, <2>1, <4>2
      <4>3. QED
        BY <4>1, <4>2
    <3>3. QED
      BY <3>1, <3>2
  <2>2. QED
    BY <1>11, <2>1 DEF LinkInv
<1>21. OneRing'
  <2> SUFFICES ASSUME NEW S \in SUBSET Ring', S # {}, \A s \in S : next'[s] \in S
               PROVE  S = Ring'
    BY DEF OneRing
  <2>1. CASE w \in S
    <3>1. \A s \in S \cup {t} : next[s] \in S \cup {t}
      BY <1>9, <1>10, <1>11, <2>1
    <3>2. S \cup {t} \in SUBSET Ring /\ S \cup {t} # {}
      BY <1>9, <1>11
    <3>3. S \cup {t} = Ring
      BY <3>1, <3>2 DEF IInv, OneRing
    <3>4. QED
      BY <1>11, <3>3
  <2>2. CASE w \notin S
    <3>1. \A s \in S : next[s] \in S
      BY <1>9, <1>10, <1>11, <2>2
    <3>2. S = Ring
      BY <1>11, <3>1 DEF IInv, OneRing
    <3>3. QED
      BY <1>9, <2>2, <3>2
  <2>3. QED
    BY <2>1, <2>2
<1>22. QED
  BY <1>12, <1>13, <1>14, <1>15, <1>16, <1>17, <1>18, <1>19, <1>20, <1>21 DEF IInv

-----------------------------------------------------------------------------
LEMMA InitHolds == Init => IInv
<1> SUFFICES ASSUME Init
             PROVE  IInv
  OBVIOUS
<1> USE ThreadsAssumption
<1>1. TypeOK
  BY DEF Init, TypeOK, Label
<1>2. Ring = {Kernel} /\ \A t \in Thread : ~Unframed(t) /\ ~HalfLinked(t) /\ ~Holds(t)
  BY DEF Init, Ring, Unframed, HalfLinked, Holds
<1>3. CpuInv /\ ActivationInv
  BY <1>2 DEF Init, CpuInv, ActivationInv
<1>4. PcInv
  BY <1>2 DEF Init, PcInv, Idle, Killing
<1>5. StateInv /\ ArgInv
  BY <1>2 DEF Init, StateInv, ArgInv, Killing
<1>6. OwnInv /\ CreateKillExclusion
  BY <1>2 DEF Init, OwnInv, Owns, CreateKillExclusion
<1>7. MemInv /\ OwnRegisters
  BY <1>2 DEF Init, MemInv, OwnRegisters
<1>8. LinkInv
  BY <1>2 DEF Init, LinkInv
<1>9. OneRing
  BY <1>2 DEF OneRing
<1>10. QED
  BY <1>1, <1>3, <1>4, <1>5, <1>6, <1>7, <1>8, <1>9 DEF IInv

LEMMA StepHolds == IInv /\ [Next]_vars => IInv'
<1> SUFFICES ASSUME IInv, [Next]_vars
             PROVE  IInv'
  OBVIOUS
<1>1. CASE Tick
  BY <1>1, TickStep
<1>2. ASSUME NEW t \in Thread, Interrupt(t)
      PROVE  IInv'
  BY <1>2, InterruptStep
<1>3. ASSUME NEW t \in Thread, CpuStep(t)
      PROVE  IInv'
  <2>1. CASE Acknowledge(t) \/ IRet(t) \/ SwitchReturns(t) \/ Resume(t)
    BY <2>1, AcknowledgeStep, IRetStep, SwitchReturnsStep, ResumeStep
  <2>2. CASE Switch(t)
    BY <2>2, SwitchAlive, SwitchDying
  <2>3. CASE EnableInts(t) \/ LockThreads(t) \/ AllocThread(t) \/ AllocStack(t)
    BY <2>3, EnableIntsStep, LockThreadsStep, AllocThreadStep, AllocStackStep
  <2>4. CASE InsertRead(t) \/ InsertForward(t) \/ InsertBackward(t) \/ LayFrame(t)
    BY <2>4, InsertReadStep, InsertForwardStep, InsertBackwardStep, LayFrameStep
  <2>5. CASE UnlockCreate(t) \/ KillMark(t) \/ KillDisableInts(t) \/ KillUnlock(t)
    BY <2>5, UnlockCreateStep, KillMarkStep, KillDisableIntsStep, KillUnlockStep
  <2>6. CASE WaitDead(t) \/ WaitFreeStack(t) \/ WaitFreeThread(t)
    BY <2>6, WaitDeadStep, WaitFreeStackStep, WaitFreeThreadStep
  <2>7. QED
    BY <1>3, <2>1, <2>2, <2>3, <2>4, <2>5, <2>6 DEF CpuStep
<1>4. ASSUME NEW t \in Thread, Client(t)
      PROVE  IInv'
  BY <1>4, CallCreateStep, CallKillStep, CallWaitStep DEF Client
<1>5. CASE UNCHANGED vars
  <2>1. Ring' = Ring /\ \A s \in Thread : Unframed(s)' <=> Unframed(s)
    BY <1>5 DEF vars, machineVars, ringVars, memVars, localVars, irqVars, Ring, Unframed
  <2> USE <1>5, <2>1 DEF vars, machineVars, ringVars, memVars, localVars, irqVars
  <2>2. TypeOK' /\ CpuInv'
    BY DEF IInv, TypeOK, CpuInv
  <2>3. ActivationInv' /\ PcInv'
    BY DEF IInv, ActivationInv, PcInv, Idle
  <2>4. StateInv' /\ ArgInv'
    BY DEF IInv, StateInv, ArgInv
  <2>5. OwnInv' /\ CreateKillExclusion'
    BY DEF IInv, OwnInv, Owns, CreateKillExclusion, Holds
  <2>6. MemInv' /\ OwnRegisters'
    BY DEF IInv, MemInv, OwnRegisters, Ring
  <2>7. LinkInv' /\ OneRing'
    BY DEF IInv, LinkInv, OneRing, HalfLinked
  <2>8. QED
    BY <2>2, <2>3, <2>4, <2>5, <2>6, <2>7 DEF IInv
<1>6. QED
  BY <1>1, <1>2, <1>3, <1>4, <1>5 DEF Next, KernelNext

LEMMA Invariance == Spec => []IInv
  BY InitHolds, StepHolds, PTL DEF Spec

-----------------------------------------------------------------------------
(* Every variable keeps its type.                                          *)
THEOREM TypeCorrect == Spec => []TypeOK
<1>1. IInv => TypeOK
  BY DEF IInv
<1>2. QED
  BY Invariance, <1>1, PTL

(* thread.c:118-134, list.c:6-25 - the ring is doubly linked at every      *)
(* instruction, but for the back pointer of the insertion in progress.     *)
LEMMA LinksMatch == IInv => RingLinked
<1> SUFFICES ASSUME IInv, NEW t \in Ring
             PROVE  /\ next[t] \in Ring /\ prev[t] \in Ring
                    /\ \/ prev[next[t]] = t
                       \/ \E u \in Thread :
                            /\ HalfLinked(u) /\ arg[u] = t
                            /\ next[t] = lnext[u] /\ prev[next[t]] = lprev[u]
  BY DEF RingLinked
<1>1. next[t] \in Ring /\ prev[t] \in Ring
  BY DEF IInv, LinkInv
<1>2. ASSUME NEW u \in Thread, HalfLinked(u), arg[u] = t
      PROVE  next[t] = lnext[u] /\ prev[next[t]] = lprev[u]
  BY <1>2 DEF IInv, ArgInv, HalfLinked
<1>3. QED
  BY <1>1, <1>2 DEF IInv, LinkInv

(* thread.c:118-134,183-185 - no insertion, no deletion and no switch in   *)
(* between ever breaks a link or splits the ring: no thread is cut off.    *)
THEOREM RingIsWhole == Spec => []WholeRing
<1>1. IInv => WholeRing
  BY LinksMatch DEF IInv, WholeRing
<1>2. QED
  BY Invariance, <1>1, PTL

(* thread.c:32,142,183-224, switch_threads.S:32-33 - threads_head is the   *)
(* thread that executes, and a thread is resumed on its own registers.     *)
THEOREM ContextIsOwn == Spec => []OwnContext
<1>1. IInv => OwnContext
  BY DEF IInv, CpuInv, CurrentIsHead, OwnContext
<1>2. QED
  BY Invariance, <1>1, PTL

(* thread.c:161-163 - thread_wait() frees nothing the scheduler can reach. *)
THEOREM NoUseAfterFree == Spec => []NothingFreedInUse
<1>1. IInv => NothingFreedInUse
  <2> SUFFICES ASSUME IInv, NEW t \in Ring
               PROVE  /\ mem[t]
                      /\ t \in {Kernel, cpu} \/ frame[t] = NULL \/ stk[t]
                      /\ machine = "up" /\ t = cpu => t = Kernel \/ stk[t]
    BY DEF NothingFreedInUse
  <2>1. mem[t] /\ (t = Kernel \/ Unframed(t) \/ stk[t])
    BY DEF IInv, MemInv
  <2>2. Unframed(t) => frame[t] = NULL
    BY DEF IInv, PcInv, Ring
  <2>3. machine = "up" => ~Unframed(cpu)
    BY DEF IInv, CpuInv
  <2>4. QED
    BY <2>1, <2>2, <2>3
<1>2. QED
  BY Invariance, <1>1, PTL

(* thread.c:118-134,211-216 - DEAD threads are out of the ring.            *)
THEOREM DeadAreOut == Spec => []DeadIsOut
<1>1. IInv => DeadIsOut
  BY DEF IInv, StateInv, DeadIsOut
<1>2. QED
  BY Invariance, <1>1, PTL

(* thread.c:87,114,140,145 - creating and killing exclude each other.      *)
THEOREM Exclusion == Spec => []CreateKillExclusion
<1>1. IInv => CreateKillExclusion
  BY DEF IInv
<1>2. QED
  BY Invariance, <1>1, PTL

(* thread.c:160,187,192,197 - the scheduler's assertions never fail.       *)
THEOREM AssertionsHold == Spec => []NoBug
<1>1. IInv => NoBug
  BY DEF IInv, CpuInv, NoBug
<1>2. QED
  BY Invariance, <1>1, PTL

(* thread.c:81 - no zombies: thread_kill() does not return.                *)
THEOREM NoZombie == Spec => []KillNeverReturns
<1>1. IInv => KillNeverReturns
  BY DEF IInv, PcInv, KillNeverReturns
<1>2. QED
  BY Invariance, <1>1, PTL

(* ints.c:64-66 - interrupts are never enabled with the timer's interrupt  *)
(* unacknowledged, so the next tick can come.                              *)
THEOREM TicksGoOn == Spec => []AcknowledgedInTime
<1>1. IInv => AcknowledgedInTime
  BY DEF IInv, CpuInv, AcknowledgedInTime
<1>2. QED
  BY Invariance, <1>1, PTL

(* Only the first half of an insertion and a switch change next.           *)
LEMMA ChangesLinks ==
  ASSUME Next, next' # next
  PROVE  \E u \in Thread : InsertForward(u) \/ Switch(u)
<1> USE DEF ringVars, localVars
<1>1. ~Tick
  BY DEF Tick
<1>2. PICK t \in Thread : Interrupt(t) \/ CpuStep(t) \/ Client(t)
  BY <1>1 DEF Next, KernelNext
<1>3. ~Interrupt(t) /\ ~Client(t)
  BY DEF Interrupt, Client, CallCreate, CallKill, CallWait
<1>4. ~Acknowledge(t) /\ ~IRet(t) /\ ~SwitchReturns(t) /\ ~Resume(t)
  BY DEF Acknowledge, IRet, SwitchReturns, Resume
<1>5. ~EnableInts(t) /\ ~LockThreads(t) /\ ~AllocThread(t) /\ ~AllocStack(t)
  BY DEF EnableInts, LockThreads, AllocThread, AllocStack
<1>6. ~InsertRead(t) /\ ~InsertBackward(t) /\ ~LayFrame(t) /\ ~UnlockCreate(t)
  BY DEF InsertRead, InsertBackward, LayFrame, UnlockCreate
<1>7. ~KillMark(t) /\ ~KillDisableInts(t) /\ ~KillUnlock(t)
  BY DEF KillMark, KillDisableInts, KillUnlock
<1>8. ~WaitDead(t) /\ ~WaitFreeStack(t) /\ ~WaitFreeThread(t)
  BY DEF WaitDead, WaitFreeStack, WaitFreeThread
<1>9. QED
  BY <1>2, <1>3, <1>4, <1>5, <1>6, <1>7, <1>8 DEF CpuStep

(* thread.c:118-134 - a thread leaves the ring only when it was marked, it *)
(* runs, and the CPU leaves it.                                            *)
THEOREM LeavesByDying == Spec => LeavesOnlyByDying
<1>1. IInv /\ [Next]_vars =>
        [\A t \in Ring \ Ring' :
           t = cpu /\ state[t] = "DYING" /\ state'[t] = "DEAD" /\ cpu' # t]_vars
  <2> SUFFICES ASSUME IInv, Next, NEW t \in Ring \ Ring'
               PROVE  t = cpu /\ state[t] = "DYING" /\ state'[t] = "DEAD" /\ cpu' # t
    BY DEF vars
  <2>1. next' # next
    BY DEF Ring
  <2>2. PICK u \in Thread : InsertForward(u) \/ Switch(u)
    BY <2>1, ChangesLinks
  <2>3. CASE InsertForward(u)
    <3>1. /\ lnext[u] = u /\ u \in Thread /\ arg[u] \in Thread
          /\ next' = [next EXCEPT ![arg[u]] = lnext[u], ![lprev[u]] = arg[u]]
      BY <2>3 DEF InsertForward, At, IInv, ArgInv
    <3>2. next'[t] # NULL
      BY <3>1, ThreadsAssumption DEF IInv, TypeOK, Ring
    <3>3. QED
      BY <3>2 DEF Ring
  <2>4. CASE Switch(u)
    <3>1. state[u] = "DYING"
      BY <2>1, <2>4, SwitchFacts
    <3>2. /\ cpu = u /\ cpu' = next[u] /\ next[u] # u /\ next[u] # NULL
          /\ next' = [next EXCEPT ![prev[u]] = next[u], ![u] = NULL]
          /\ state' = [state EXCEPT ![u] = "DEAD"]
      BY <2>4, <3>1, SwitchFacts, ThreadsAssumption DEF Ring
    <3>3. t = u
      BY <3>2 DEF IInv, TypeOK, Ring
    <3>4. QED
      BY <3>1, <3>2, <3>3 DEF IInv, TypeOK
  <2>5. QED
    BY <2>2, <2>3, <2>4
<1>2. QED
  BY Invariance, <1>1, PTL DEF Spec, LeavesOnlyByDying

-----------------------------------------------------------------------------
(* The ring as a queue.  Walk is a recursive function; that it satisfies   *)
(* its equation, and lists the ring in order, follows by taking the least  *)
(* number at which it would not.                                           *)

(* Every set of numbers that is not empty has a least one.                 *)
LEMMA Least ==
  ASSUME NEW T \in SUBSET Nat, T # {}
  PROVE  \E n \in T : \A m \in T : n =< m
<1>1. IsWellFoundedOn(OpToRel(<, Nat), Nat)
  BY NatLessThanWellFounded
<1>2. PICK x \in T : \A y \in T : ~(<<y, x>> \in OpToRel(<, Nat))
  BY <1>1, WFMin
<1>3. ASSUME NEW y \in T PROVE x =< y
  <2>1. ~(y < x)
    BY <1>2 DEF OpToRel
  <2>2. QED
    BY <2>1
<1>4. QED
  BY <1>3

(* f is the walk along nx from h, up to its n-th step.                     *)
Walks(f, n, S, h, nx) ==
  /\ f \in [0 .. n -> S]
  /\ f[0] = h /\ \A k \in 0 .. n - 1 : f[k + 1] = nx[f[k]]

LEMMA WalkExists ==
  ASSUME NEW S, NEW h \in S, NEW nx, \A s \in S : nx[s] \in S
  PROVE  \A n \in Nat : \E f : Walks(f, n, S, h, nx)
<1> DEFINE T == {n \in Nat : ~\E f : Walks(f, n, S, h, nx)}
<1>1. SUFFICES ASSUME T # {} PROVE FALSE
  OBVIOUS
<1>2. PICK n \in T : \A m \in T : n =< m
  BY <1>1, Least
<1>3. CASE n = 0
  <2> DEFINE f == [k \in 0 .. 0 |-> h]
  <2>1. Walks(f, 0, S, h, nx)
    BY DEF Walks
  <2>2. QED
    BY <2>1, <1>2, <1>3
<1>4. CASE n # 0
  <2>1. n - 1 \in Nat /\ n - 1 \notin T
    BY <1>2, <1>4
  <2>2. PICK g : Walks(g, n - 1, S, h, nx)
    BY <2>1
  <2> DEFINE f == [k \in 0 .. n |-> IF k = n THEN nx[g[n - 1]] ELSE g[k]]
  <2>3. \A k \in 0 .. n - 1 : g[k] \in S
    BY <2>2 DEF Walks
  <2>4. nx[g[n - 1]] \in S
    BY <2>1, <2>3
  <2>5. f \in [0 .. n -> S]
    BY <2>1, <2>3, <2>4
  <2>6. f[0] = h
    BY <1>4, <2>1, <2>2 DEF Walks
  <2>7. ASSUME NEW k \in 0 .. n - 1 PROVE f[k + 1] = nx[f[k]]
    <3>1. CASE k = n - 1
      BY <3>1, <2>1
    <3>2. CASE k # n - 1
      <4>1. k \in 0 .. (n - 1) - 1
        BY <3>2, <2>1
      <4>2. g[k + 1] = nx[g[k]]
        BY <4>1, <2>2 DEF Walks
      <4>3. QED
        BY <4>1, <4>2, <2>1
    <3>3. QED
      BY <3>1, <3>2
  <2>8. Walks(f, n, S, h, nx)
    BY <2>5, <2>6, <2>7 DEF Walks
  <2>9. QED
    BY <2>8, <1>2
<1>5. QED
  BY <1>3, <1>4

LEMMA WalksAgree ==
  ASSUME NEW S, NEW h, NEW nx, NEW m \in Nat, NEW n \in Nat, NEW f, NEW g,
         Walks(f, m, S, h, nx), Walks(g, n, S, h, nx),
         NEW k \in Nat, k =< m, k =< n
  PROVE  f[k] = g[k]
<1> DEFINE T == {j \in 0 .. k : f[j] # g[j]}
<1>1. SUFFICES ASSUME T # {} PROVE FALSE
  OBVIOUS
<1>2. T \in SUBSET Nat
  OBVIOUS
<1>3. PICK j \in T : \A i \in T : j =< i
  BY <1>1, <1>2, Least
<1>4. j # 0
  BY <1>3 DEF Walks
<1>5. j - 1 \in 0 .. m - 1 /\ j - 1 \in 0 .. n - 1 /\ j - 1 \in 0 .. k
  BY <1>3, <1>4
<1>6. f[j - 1] = g[j - 1]
  BY <1>3, <1>5
<1>7. f[j - 1 + 1] = nx[f[j - 1]] /\ g[j - 1 + 1] = nx[g[j - 1]]
  BY <1>5 DEF Walks
<1>8. j - 1 + 1 = j
  BY <1>3
<1>9. QED
  BY <1>3, <1>6, <1>7, <1>8

(* The recursive definition of a walk has a solution.                      *)
LEMMA WalkIs ==
  ASSUME NEW S, NEW h \in S, NEW nx, \A s \in S : nx[s] \in S, NEW W,
         W = CHOOSE w : w = [n \in Nat |-> IF n = 0 THEN h ELSE nx[w[n - 1]]]
  PROVE  W = [n \in Nat |-> IF n = 0 THEN h ELSE nx[W[n - 1]]]
<1> DEFINE D(n) == CHOOSE f : Walks(f, n, S, h, nx)
           F    == [n \in Nat |-> D(n)[n]]
           R(w) == [n \in Nat |-> IF n = 0 THEN h ELSE nx[w[n - 1]]]
<1>1. \A n \in Nat : Walks(D(n), n, S, h, nx)
  BY WalkExists
<1>2. F[0] = h
  BY <1>1 DEF Walks
<1>3. ASSUME NEW k \in Nat PROVE F[k + 1] = nx[F[k]]
  <2>1. Walks(D(k), k, S, h, nx) /\ Walks(D(k + 1), k + 1, S, h, nx)
    <3>1. k \in Nat /\ k + 1 \in Nat
      OBVIOUS
    <3> HIDE DEF D
    <3>2. QED
      BY <1>1, <3>1
  <2>2. D(k + 1)[k + 1] = nx[D(k + 1)[k]]
    <3>1. k \in 0 .. (k + 1) - 1
      OBVIOUS
    <3> HIDE DEF D
    <3>2. QED
      BY <2>1, <3>1 DEF Walks
  <2>3. D(k + 1)[k] = D(k)[k]
    <3> HIDE DEF D
    <3>1. QED
      BY <2>1, WalksAgree
  <2>4. QED
    BY <2>2, <2>3
<1>4. DOMAIN F = Nat /\ F = [n \in Nat |-> F[n]]
  OBVIOUS
<1> HIDE DEF F
<1>5. F = R(F)
  <2>1. \A n \in Nat : F[n] = IF n = 0 THEN h ELSE nx[F[n - 1]]
    <3>1. SUFFICES ASSUME NEW n \in Nat, n # 0 PROVE F[n] = nx[F[n - 1]]
      BY <1>2
    <3>2. n - 1 \in Nat /\ (n - 1) + 1 = n
      BY <3>1
    <3>3. F[(n - 1) + 1] = nx[F[n - 1]]
      BY <3>2, <1>3
    <3>4. QED
      BY <3>2, <3>3
  <2>2. QED
    BY <2>1, <1>4
<1>6. W = R(W)
  BY <1>5
<1>7. QED
  BY <1>6

(* q lists the set S in the order of the links nx, beginning at h.         *)
Lists(q, L, S, h, nx) ==
  /\ L \in Nat \ {0}
  /\ q \in [1 .. L -> S]
  /\ \A i, j \in 1 .. L : q[i] = q[j] => i = j
  /\ \A s \in S : \E i \in 1 .. L : q[i] = s
  /\ q[1] = h
  /\ \A i \in 1 .. L : nx[q[i]] = IF i = L THEN h ELSE q[i + 1]

LEMMA ListIsWalk ==
  ASSUME NEW S, NEW h, NEW nx, NEW W, NEW L, NEW q, Lists(q, L, S, h, nx),
         W = CHOOSE w : w = [n \in Nat |-> IF n = 0 THEN h ELSE nx[w[n - 1]]]
  PROVE  [n \in 1 .. Cardinality(S) |-> W[n - 1]] = q
<1>1. h \in S /\ \A s \in S : nx[s] \in S
  BY DEF Lists
<1>2. W = [n \in Nat |-> IF n = 0 THEN h ELSE nx[W[n - 1]]]
  BY <1>1, WalkIs
<1>0. \A n \in Nat : W[n] = IF n = 0 THEN h ELSE nx[W[n - 1]]
  BY <1>2
<1>3. \A i \in 1 .. L : W[i - 1] = q[i]
  <2> DEFINE T == {i \in 1 .. L : W[i - 1] # q[i]}
  <2>1. SUFFICES ASSUME T # {} PROVE FALSE
    OBVIOUS
  <2>3. L \in Nat /\ T \in SUBSET Nat
    BY DEF Lists
  <2>2. PICK i \in T : \A j \in T : i =< j
    BY <2>1, <2>3, Least
  <2>4. i # 1
    <3>1. W[0] = h
      BY <1>0
    <3>2. W[1 - 1] = q[1]
      BY <3>1 DEF Lists
    <3>3. QED
      BY <3>2, <2>2
  <2>5. i - 1 \in 1 .. L /\ i - 1 \notin T /\ i - 1 # L /\ (i - 1) + 1 = i
    BY <2>2, <2>3, <2>4
  <2>6. W[(i - 1) - 1] = q[i - 1] /\ nx[q[i - 1]] = q[i]
    BY <2>5 DEF Lists
  <2>7. W[i - 1] = nx[W[(i - 1) - 1]]
    <3>1. i - 1 \in Nat /\ i - 1 # 0
      BY <2>5
    <3>2. QED
      BY <3>1, <1>0
  <2>8. QED
    BY <2>2, <2>6, <2>7
<1>4. Cardinality(S) = L
  <2>1. q \in Bijection(1 .. L, S)
    BY Fun_IsBij DEF Lists
  <2>2. ExistsBijection(1 .. L, S)
    BY <2>1, Fun_ExistsBij
  <2>3. QED
    BY <2>2, FS_CountingElements DEF Lists
<1>5. QED
  BY <1>3, <1>4 DEF Lists

-----------------------------------------------------------------------------
(* The queue and the doomed threads that Scheduler is told.                *)
Queue  == [n \in 1 .. Cardinality(Ring) |-> Walk[n - 1]]
Doomed == {t \in Thread : state[t] = "DYING"}

(* The ring, seen from threads_head, is a queue.                           *)
QInv == \E L, q : Lists(q, L, Ring, threads_head, next)

LEMMA QueueIs == \A L, q : Lists(q, L, Ring, threads_head, next) => Queue = q
<1> TAKE L, q
<1> HAVE Lists(q, L, Ring, threads_head, next)
<1>1. Walk = CHOOSE w : w = [n \in Nat |-> IF n = 0 THEN threads_head ELSE next[w[n - 1]]]
  BY DEF Walk
<1>2. QED
  BY <1>1, ListIsWalk DEF Queue

LEMMA QueueIsThen == (\A L, q : Lists(q, L, Ring, threads_head, next) => Queue = q)'
  BY QueueIs, PTL

LEMMA QueueWillBe ==
  ASSUME NEW L, NEW q, Lists(q, L, Ring', threads_head', next')
  PROVE  Queue' = q
  BY QueueIsThen

LEMMA ListFacts ==
  ASSUME NEW q, NEW L, NEW S, NEW h, NEW nx, Lists(q, L, S, h, nx)
  PROVE  /\ q \in Seq(S) /\ Len(q) = L /\ q # <<>> /\ Head(q) = h
         /\ {q[i] : i \in DOMAIN q} = S /\ L \in Nat \ {0} /\ h \in S
         /\ Tail(q) \in Seq(S) /\ Len(Tail(q)) = L - 1
         /\ \A i \in 1 .. L - 1 : Tail(q)[i] = q[i + 1]
<1>1. q \in Seq(S) /\ Len(q) = L /\ q # <<>> /\ Head(q) = h
  BY DEF Lists
<1>2. {q[i] : i \in DOMAIN q} = S /\ L \in Nat \ {0} /\ h \in S
  BY DEF Lists
<1>3. /\ Tail(q) \in Seq(S) /\ Len(Tail(q)) = L - 1
      /\ \A i \in 1 .. L - 1 : Tail(q)[i] = q[i + 1]
  BY <1>1, <1>2
<1>4. QED
  BY <1>1, <1>2, <1>3

(* A new thread t is linked between the last one and the head.             *)
LEMMA ListGrows ==
  ASSUME NEW q, NEW L, NEW S, NEW h, NEW nx, NEW nx2, NEW t, NEW p, Lists(q, L, S, h, nx),
         t \notin S, p \in S, nx[p] = h,
         nx2[t] = h, nx2[p] = t, \A s \in S \ {p} : nx2[s] = nx[s]
  PROVE  Lists(Append(q, t), L + 1, S \cup {t}, h, nx2)
<1>1. q \in Seq(S) /\ Len(q) = L /\ L \in Nat \ {0} /\ h \in S
  BY ListFacts
<1> DEFINE r == Append(q, t)
<1>2. /\ r \in [1 .. L + 1 -> S \cup {t}]
      /\ r[L + 1] = t /\ \A i \in 1 .. L : r[i] = q[i] /\ q[i] \in S
  <2>1. q \in Seq(S \cup {t}) /\ t \in S \cup {t}
    BY <1>1
  <2>2. r \in Seq(S \cup {t}) /\ Len(r) = L + 1
    BY <1>1, <2>1
  <2>3. r[L + 1] = t /\ \A i \in 1 .. L : r[i] = q[i] /\ q[i] \in S
    BY <1>1
  <2>4. r \in [1 .. Len(r) -> S \cup {t}]
    BY <2>2, LenProperties
  <2>5. QED
    BY <2>2, <2>3, <2>4
<1>3. q[L] = p
  <2>1. PICK i \in 1 .. L : q[i] = p
    BY DEF Lists
  <2>2. i # L => q[i + 1] = h /\ i + 1 \in 1 .. L /\ 1 \in 1 .. L /\ q[1] = h /\ i + 1 # 1
    BY <2>1, <1>1 DEF Lists
  <2>3. i = L
    BY <2>2 DEF Lists
  <2>4. QED
    BY <2>1, <2>3
<1> HIDE DEF r
<1>4. \A i, j \in 1 .. L + 1 : r[i] = r[j] => i = j
  <2> TAKE i, j \in 1 .. L + 1
  <2>1. i # L + 1 => i \in 1 .. L
    BY <1>1
  <2>2. j # L + 1 => j \in 1 .. L
    BY <1>1
  <2>3. QED
    BY <2>1, <2>2, <1>2, <1>1 DEF Lists
<1>5. \A s \in S \cup {t} : \E i \in 1 .. L + 1 : r[i] = s
  <2> TAKE s \in S \cup {t}
  <2>1. CASE s = t
    BY <2>1, <1>2, <1>1
  <2>2. CASE s # t
    <3>1. PICK i \in 1 .. L : q[i] = s
      BY <2>2 DEF Lists
    <3>2. QED
      BY <3>1, <1>1, <1>2
  <2>3. QED
    BY <2>1, <2>2
<1>6. r[1] = h
  BY <1>1, <1>2 DEF Lists
<1>7. \A i \in 1 .. L + 1 : nx2[r[i]] = IF i = L + 1 THEN h ELSE r[i + 1]
  <2> TAKE i \in 1 .. L + 1
  <2>1. CASE i = L + 1
    BY <2>1, <1>2
  <2>2. CASE i = L
    BY <2>2, <1>1, <1>2, <1>3
  <2>3. CASE i \in 1 .. L - 1
    <3>1. i \in 1 .. L /\ i + 1 \in 1 .. L /\ L \in 1 .. L /\ i # L
      BY <2>3, <1>1
    <3>2. q[i] # p /\ nx[q[i]] = q[i + 1]
      BY <3>1, <1>3 DEF Lists
    <3>3. QED
      BY <3>1, <3>2, <1>2, <1>1
  <2>4. QED
    BY <2>1, <2>2, <2>3, <1>1
<1>8. L + 1 \in Nat \ {0}
  BY <1>1
<1>9. QED
  BY <1>2, <1>4, <1>5, <1>6, <1>7, <1>8 DEF Lists, r

(* The head moves one place on.                                            *)
LEMMA ListTurns ==
  ASSUME NEW q, NEW L, NEW S, NEW h, NEW nx, Lists(q, L, S, h, nx)
  PROVE  Lists(Append(Tail(q), Head(q)), L, S, nx[h], nx)
<1>1. /\ q \in Seq(S) /\ Len(q) = L /\ L \in Nat \ {0} /\ h \in S /\ Head(q) = h
      /\ Tail(q) \in Seq(S) /\ Len(Tail(q)) = L - 1
      /\ \A i \in 1 .. L - 1 : Tail(q)[i] = q[i + 1]
  BY ListFacts
<1> DEFINE r == Append(Tail(q), Head(q))
<1>2. r \in [1 .. L -> S] /\ \A i \in 1 .. L : r[i] = IF i = L THEN q[1] ELSE q[i + 1]
  <2>1. r \in Seq(S) /\ Len(r) = L
    BY <1>1
  <2>2. \A i \in 1 .. L : r[i] = IF i = L THEN h ELSE Tail(q)[i]
    BY <1>1
  <2>3. \A i \in 1 .. L : i # L => i \in 1 .. L - 1
    BY <1>1
  <2>4. q[1] = h
    BY DEF Lists
  <2>5. r \in [1 .. L -> S]
    <3>1. r \in [1 .. Len(r) -> S]
      BY <2>1, LenProperties
    <3>2. QED
      BY <2>1, <3>1
  <2>6. \A i \in 1 .. L : r[i] = IF i = L THEN q[1] ELSE q[i + 1]
    BY <1>1, <2>2, <2>3, <2>4
  <2>7. QED
    BY <2>5, <2>6
<1> HIDE DEF r
<1>3. \A i, j \in 1 .. L : r[i] = r[j] => i = j
  <2> TAKE i, j \in 1 .. L
  <2>1. /\ 1 \in 1 .. L
        /\ i # L => i + 1 \in 1 .. L /\ i + 1 # 1
        /\ j # L => j + 1 \in 1 .. L /\ j + 1 # 1
        /\ i + 1 = j + 1 => i = j
    BY <1>1
  <2>2. \A a, b \in 1 .. L : q[a] = q[b] => a = b
    BY DEF Lists
  <2>3. QED
    BY <1>2, <2>1, <2>2
<1>4. \A s \in S : \E i \in 1 .. L : r[i] = s
  <2> TAKE s \in S
  <2>1. PICK i \in 1 .. L : q[i] = s
    BY DEF Lists
  <2>2. CASE i = 1
    BY <2>1, <2>2, <1>1, <1>2
  <2>3. CASE i # 1
    <3>1. i - 1 \in 1 .. L /\ i - 1 # L /\ (i - 1) + 1 = i
      BY <2>3, <1>1
    <3>2. QED
      BY <3>1, <2>1, <1>2
  <2>4. QED
    BY <2>2, <2>3
<1>5. r[1] = nx[h]
  <2>1. nx[q[1]] = IF 1 = L THEN h ELSE q[1 + 1]
    BY <1>1 DEF Lists
  <2>2. q[1] = h
    BY DEF Lists
  <2>3. QED
    BY <2>1, <2>2, <1>1, <1>2
<1>6. \A i \in 1 .. L : nx[r[i]] = IF i = L THEN nx[h] ELSE r[i + 1]
  <2> TAKE i \in 1 .. L
  <2>1. q[1] = h /\ \A j \in 1 .. L : nx[q[j]] = IF j = L THEN h ELSE q[j + 1]
    BY DEF Lists
  <2>2. CASE i = L
    BY <2>1, <2>2, <1>2
  <2>3. CASE i # L
    <3>1. i + 1 \in 1 .. L
      BY <2>3, <1>1
    <3>2. nx[r[i]] = IF i + 1 = L THEN h ELSE q[(i + 1) + 1]
      BY <2>1, <2>3, <3>1, <1>2
    <3>3. r[i + 1] = IF i + 1 = L THEN q[1] ELSE q[(i + 1) + 1]
      BY <3>1, <1>2
    <3>4. QED
      BY <3>2, <3>3, <2>1, <2>3
  <2>4. QED
    BY <2>2, <2>3
<1>7. QED
  BY <1>1, <1>2, <1>3, <1>4, <1>5, <1>6 DEF Lists, r

(* The head is taken out, the last one linked to the second.               *)
LEMMA ListShrinks ==
  ASSUME NEW q, NEW L, NEW S, NEW h, NEW nx, NEW nx2, NEW p, Lists(q, L, S, h, nx),
         p \in S, p # h, nx[p] = h, nx2[p] = nx[h],
         \A s \in S \ {p, h} : nx2[s] = nx[s]
  PROVE  L > 1 /\ Lists(Tail(q), L - 1, S \ {h}, nx[h], nx2)
<1>1. /\ q \in Seq(S) /\ Len(q) = L /\ L \in Nat \ {0} /\ h \in S /\ Head(q) = h
      /\ Tail(q) \in Seq(S) /\ Len(Tail(q)) = L - 1
      /\ \A i \in 1 .. L - 1 : Tail(q)[i] = q[i + 1]
  BY ListFacts
<1>2. q[L] = p
  <2>1. PICK i \in 1 .. L : q[i] = p
    BY DEF Lists
  <2>2. i # L => q[i + 1] = h /\ i + 1 \in 1 .. L /\ 1 \in 1 .. L /\ q[1] = h /\ i + 1 # 1
    BY <2>1, <1>1 DEF Lists
  <2>3. i = L
    BY <2>2 DEF Lists
  <2>4. QED
    BY <2>1, <2>3
<1>3. L > 1
  BY <1>1, <1>2 DEF Lists
<1> DEFINE r == Tail(q)
<1>4. \A i \in 1 .. L - 1 : r[i] = q[i + 1] /\ i + 1 \in 1 .. L /\ i + 1 # 1 /\ 1 \in 1 .. L
  BY <1>1
<1>5. r \in [1 .. L - 1 -> S \ {h}]
  <2>1. \A i \in 1 .. L - 1 : r[i] \in S \ {h}
    BY <1>4 DEF Lists
  <2>2. r \in [1 .. Len(r) -> S] /\ Len(r) = L - 1
    BY <1>1, LenProperties
  <2>3. QED
    BY <2>1, <2>2
<1> HIDE DEF r
<1>6. \A i, j \in 1 .. L - 1 : r[i] = r[j] => i = j
  <2> TAKE i, j \in 1 .. L - 1
  <2>1. i + 1 = j + 1 => i = j
    OBVIOUS
  <2>2. QED
    BY <2>1, <1>4 DEF Lists
<1>7. \A s \in S \ {h} : \E i \in 1 .. L - 1 : r[i] = s
  <2> TAKE s \in S \ {h}
  <2>1. PICK i \in 1 .. L : q[i] = s /\ i # 1
    BY DEF Lists
  <2>2. i - 1 \in 1 .. L - 1 /\ (i - 1) + 1 = i
    BY <2>1, <1>1
  <2>3. QED
    BY <2>1, <2>2, <1>4
<1>8. r[1] = nx[h]
  <2>1. 1 \in 1 .. L - 1 /\ 1 # L /\ 1 \in 1 .. L
    BY <1>1, <1>3
  <2>2. QED
    BY <2>1, <1>4 DEF Lists
<1>9. \A i \in 1 .. L - 1 : nx2[r[i]] = IF i = L - 1 THEN nx[h] ELSE r[i + 1]
  <2> TAKE i \in 1 .. L - 1
  <2>1. CASE i = L - 1
    <3>1. r[i] = p
      BY <2>1, <1>1, <1>2, <1>4
    <3>2. QED
      BY <3>1, <2>1
  <2>2. CASE i # L - 1
    <3>1. i + 1 \in 1 .. L - 1 /\ i + 1 # L /\ L \in 1 .. L
      BY <2>2, <1>1
    <3>2. r[i + 1] = q[(i + 1) + 1] /\ nx[q[i + 1]] = q[(i + 1) + 1] /\ q[i + 1] # p
      BY <3>1, <1>2, <1>4 DEF Lists
    <3>3. r[i] \in S \ {p, h} /\ r[i] = q[i + 1]
      BY <3>2, <1>4, <1>5
    <3>4. QED
      BY <3>2, <3>3, <2>2
  <2>3. QED
    BY <2>1, <2>2
<1>10. L - 1 \in Nat \ {0}
  BY <1>1, <1>3
<1>11. QED
  BY <1>3, <1>5, <1>6, <1>7, <1>8, <1>9, <1>10 DEF Lists, r

-----------------------------------------------------------------------------
(* Only three steps mean something to the queue.                           *)
LEMMA OtherSteps ==
  ASSUME IInv, Next
  PROVE  \/ \E t \in Thread : InsertForward(t) \/ Switch(t) \/ KillMark(t)
         \/ UNCHANGED <<next, threads_head>> /\ Doomed' = Doomed
<1> USE DEF ringVars, localVars
<1>1. CASE Tick
  BY <1>1 DEF Tick, Doomed
<1>2. ASSUME NEW t \in Thread, Interrupt(t) PROVE UNCHANGED <<next, threads_head>> /\ Doomed' = Doomed
  BY <1>2 DEF Interrupt, Doomed
<1>3. ASSUME NEW t \in Thread, Client(t) PROVE UNCHANGED <<next, threads_head>> /\ Doomed' = Doomed
  BY <1>3 DEF Client, CallCreate, CallKill, CallWait, Doomed
<1>4. ASSUME NEW t \in Thread, CpuStep(t), ~InsertForward(t), ~Switch(t), ~KillMark(t)
      PROVE  UNCHANGED <<next, threads_head>> /\ Doomed' = Doomed
  <2>1. CASE Acknowledge(t) \/ IRet(t) \/ SwitchReturns(t) \/ Resume(t)
    BY <2>1 DEF Acknowledge, IRet, SwitchReturns, Resume, Doomed
  <2>2. CASE EnableInts(t) \/ LockThreads(t) \/ AllocThread(t)
    BY <2>2 DEF EnableInts, LockThreads, AllocThread, Doomed
  <2>3. CASE InsertRead(t) \/ InsertBackward(t) \/ LayFrame(t) \/ UnlockCreate(t)
    BY <2>3 DEF InsertRead, InsertBackward, LayFrame, UnlockCreate, Doomed
  <2>4. CASE KillDisableInts(t) \/ KillUnlock(t)
    BY <2>4 DEF KillDisableInts, KillUnlock, Doomed
  <2>5. CASE WaitDead(t) \/ WaitFreeStack(t) \/ WaitFreeThread(t)
    BY <2>5 DEF WaitDead, WaitFreeStack, WaitFreeThread, Doomed
  <2>6. CASE AllocStack(t)
    <3>1. UNCHANGED <<next, threads_head>>
      BY <2>6 DEF AllocStack
    <3>2. CASE arg[t] = NULL
      BY <2>6, <3>1, <3>2 DEF AllocStack, Doomed
    <3>3. CASE arg[t] # NULL
      <4>1. arg[t] \in Thread \ Ring /\ state[arg[t]] # "DYING"
        BY <2>6, <3>3 DEF AllocStack, At, IInv, ArgInv, StateInv
      <4>2. state' = [state EXCEPT ![arg[t]] = "RUNNING"]
        BY <2>6, <3>3 DEF AllocStack
      <4>3. \A s \in Thread : state'[s] = "DYING" <=> state[s] = "DYING"
        BY <4>1, <4>2 DEF IInv, TypeOK
      <4>4. QED
        BY <3>1, <4>3 DEF Doomed
    <3>4. QED
      BY <3>2, <3>3
  <2>7. QED
    BY <1>4, <2>1, <2>2, <2>3, <2>4, <2>5, <2>6 DEF CpuStep
<1>5. QED
  BY <1>1, <1>2, <1>3, <1>4 DEF Next, KernelNext

LEMMA StaysQueue ==
  ASSUME QInv, UNCHANGED <<next, threads_head>>
  PROVE  QInv' /\ Queue' = Queue
<1>1. Ring' = Ring
  BY DEF Ring
<1>2. PICK L, q : Lists(q, L, Ring, threads_head, next)
  BY DEF QInv
<1>3. Lists(q, L, Ring', threads_head', next')
  BY <1>1, <1>2
<1>4. Queue = q /\ Queue' = q
  BY <1>2, <1>3, QueueIs, QueueWillBe
<1>5. QED
  BY <1>3, <1>4 DEF QInv

(* The forward link of a new thread puts it at the back of the queue.      *)
LEMMA InsertForwardSpawns ==
  ASSUME IInv, QInv, NEW t \in Thread, InsertForward(t)
  PROVE  QInv' /\ \E s \in Thread : Scheduler!Spawn(s)
<1> DEFINE n == arg[t]
           p == prev[t]
<1>1. /\ machine = "up" /\ cpu = t /\ handler[t] = "none" /\ pc[t] = "create_link"
      /\ UNCHANGED <<threads_head, state>>
      /\ next' = [next EXCEPT ![n] = lnext[t], ![lprev[t]] = n]
  BY DEF InsertForward, At
<1>2. /\ t \in Ring /\ Ring \subseteq Thread /\ p \in Ring /\ p \in Thread
      /\ next[p] = t /\ threads_head = t
  BY <1>1, Running DEF IInv, LinkInv, HalfLinked, Ring, CpuInv
<1>3. n \in Thread \ Ring /\ n # t /\ n # p /\ lnext[t] = t /\ lprev[t] = p
  BY <1>1, <1>2 DEF IInv, ArgInv
<1>4. next'[n] = t /\ next'[p] = n /\ \A s \in Thread \ {p, n} : next'[s] = next[s]
  BY <1>1, <1>2, <1>3 DEF IInv, TypeOK
<1>5. Ring' = Ring \cup {n}
  BY <1>2, <1>3, <1>4, ThreadsAssumption DEF Ring
<1>6. PICK L, q : Lists(q, L, Ring, threads_head, next)
  BY DEF QInv
<1>7. Lists(Append(q, n), L + 1, Ring', threads_head', next')
  <2>1. \A s \in Ring \ {p} : next'[s] = next[s]
    BY <1>2, <1>3, <1>4
  <2>2. Lists(Append(q, n), L + 1, Ring \cup {n}, threads_head, next')
    BY <1>2, <1>3, <1>4, <1>6, <2>1, ListGrows
  <2>3. QED
    BY <2>2, <1>1, <1>5
<1>8. Queue = q /\ Queue' = Append(q, n)
  BY <1>6, <1>7, QueueIs, QueueWillBe
<1>9. Doomed' = Doomed
  BY <1>1 DEF Doomed
<1>10. n \notin {q[i] : i \in DOMAIN q}
  BY <1>3, <1>6, ListFacts
<1>11. \E s \in Thread : Scheduler!Spawn(s)
  <2>1. n \notin {Queue[i] : i \in DOMAIN Queue}
    BY <1>8, <1>10
  <2>2. \E s \in Thread :
          /\ s \notin {Queue[i] : i \in DOMAIN Queue}
          /\ Queue' = Append(Queue, s) /\ Doomed' = Doomed
    <3>1. n \in Thread /\ Queue' = Append(Queue, n)
      BY <1>3, <1>8
    <3>2. QED
      BY <3>1, <2>1, <1>9
  <2>3. QED
    BY <2>2 DEF Queue, Doomed, Scheduler!Spawn, Scheduler!Waiting
<1>12. QED
  BY <1>3, <1>7, <1>11 DEF QInv

(* The mark goes to the thread at the head of the queue.                   *)
LEMMA KillMarkDooms ==
  ASSUME IInv, QInv, NEW t \in Thread, KillMark(t)
  PROVE  QInv' /\ Scheduler!Doom
<1>1. /\ UNCHANGED <<threads_head, next>>
      /\ state' = [state EXCEPT ![threads_head] = "DYING"]
  BY DEF KillMark, ringVars
<1>2. QInv' /\ Queue' = Queue
  BY <1>1, StaysQueue
<1>3. PICK L, q : Lists(q, L, Ring, threads_head, next)
  BY DEF QInv
<1>4. Queue = q /\ Head(q) = threads_head
  BY <1>3, QueueIs, ListFacts
<1>5. Doomed' = Doomed \cup {threads_head}
  BY <1>1 DEF Doomed, IInv, TypeOK
<1>6. Scheduler!Doom
  BY <1>2, <1>4, <1>5 DEF Queue, Doomed, Scheduler!Doom
<1>7. QED
  BY <1>2, <1>6

(* A switch sends the running thread to the back, or out of the queue.     *)
LEMMA SwitchTurns ==
  ASSUME IInv, QInv, NEW t \in Thread, Switch(t)
  PROVE  QInv' /\ (Scheduler!Rotate \/ Scheduler!Reap)
<1>1. /\ threads_head = t /\ t \in Ring /\ next[t] \in Ring /\ next[t] # t
      /\ threads_head' = next[t] /\ Ring \subseteq Thread
      /\ IF state[t] = "DYING"
           THEN /\ state' = [state EXCEPT ![t] = "DEAD"]
                /\ next' = [next EXCEPT ![prev[t]] = next[t], ![t] = NULL]
           ELSE UNCHANGED <<state, next>>
  BY SwitchFacts
<1>2. PICK L, q : Lists(q, L, Ring, t, next)
  BY <1>1 DEF QInv
<1>3. Queue = q /\ Head(q) = t
  BY <1>1, <1>2, QueueIs, ListFacts
<1>4. CASE state[t] # "DYING"
  <2>1. next' = next /\ state' = state /\ Ring' = Ring /\ t \notin Doomed /\ Doomed' = Doomed
    BY <1>1, <1>4 DEF Ring, Doomed
  <2>2. Lists(Append(Tail(q), Head(q)), L, Ring', threads_head', next')
    <3>1. Lists(Append(Tail(q), Head(q)), L, Ring, next[t], next)
      BY <1>2, ListTurns
    <3>2. QED
      BY <3>1, <2>1, <1>1
  <2>3. Queue' = Append(Tail(q), Head(q))
    BY <2>2, QueueWillBe
  <2>4. Scheduler!Rotate
    BY <1>3, <2>1, <2>3 DEF Queue, Doomed, Scheduler!Rotate
  <2>5. QED
    BY <2>2, <2>4 DEF QInv
<1>5. CASE state[t] = "DYING"
  <2> DEFINE p == prev[t]
  <2>1. p \in Ring /\ next[p] = t /\ p # t
    <3>1. ~HalfLinked(t)
      BY <1>1, <1>5 DEF IInv, StateInv, HalfLinked
    <3>2. QED
      BY <3>1, <1>1 DEF IInv, LinkInv
  <2>2. next'[p] = next[t] /\ next'[t] = NULL /\ \A s \in Thread \ {p, t} : next'[s] = next[s]
    BY <1>1, <1>5, <2>1 DEF IInv, TypeOK
  <2>3. Ring' = Ring \ {t}
    BY <1>1, <2>1, <2>2 DEF Ring
  <2>4. L > 1 /\ Lists(Tail(q), L - 1, Ring', threads_head', next')
    <3>1. \A s \in Ring \ {p, t} : next'[s] = next[s]
      BY <1>1, <2>2
    <3>2. L > 1 /\ Lists(Tail(q), L - 1, Ring \ {t}, next[t], next')
      BY <1>2, <2>1, <2>2, <3>1, ListShrinks
    <3>3. QED
      BY <3>2, <2>3, <1>1
  <2>5. Queue' = Tail(q) /\ Len(q) = L
    BY <1>2, <2>4, QueueWillBe, ListFacts
  <2>6. t \in Doomed /\ Doomed' = Doomed \ {t}
    BY <1>1, <1>5 DEF Doomed, IInv, TypeOK
  <2>7. Scheduler!Reap
    BY <1>3, <2>4, <2>5, <2>6 DEF Queue, Doomed, Scheduler!Reap
  <2>8. QED
    BY <2>4, <2>7 DEF QInv
<1>6. QED
  BY <1>4, <1>5

LEMMA QueueSteps ==
  IInv /\ QInv /\ [Next]_vars => QInv' /\ [Scheduler!Next]_(Scheduler!schedVars)
<1> SUFFICES ASSUME IInv, QInv, [Next]_vars
             PROVE  QInv' /\ [Scheduler!Next]_(Scheduler!schedVars)
  OBVIOUS
<1> USE DEF Scheduler!Next
<1>1. ASSUME NEW t \in Thread, InsertForward(t)
      PROVE  QInv' /\ [Scheduler!Next]_(Scheduler!schedVars)
  BY <1>1, InsertForwardSpawns
<1>2. ASSUME NEW t \in Thread, Switch(t)
      PROVE  QInv' /\ [Scheduler!Next]_(Scheduler!schedVars)
  BY <1>2, SwitchTurns
<1>3. ASSUME NEW t \in Thread, KillMark(t)
      PROVE  QInv' /\ [Scheduler!Next]_(Scheduler!schedVars)
  BY <1>3, KillMarkDooms
<1>4. CASE UNCHANGED <<next, threads_head>> /\ Doomed' = Doomed
  <2>1. QInv' /\ Queue' = Queue
    BY <1>4, StaysQueue
  <2>2. QED
    BY <2>1, <1>4 DEF Queue, Doomed, Scheduler!schedVars
<1>5. CASE UNCHANGED vars
  BY <1>4, <1>5 DEF vars, ringVars, Doomed
<1>6. QED
  BY <1>1, <1>2, <1>3, <1>4, <1>5, OtherSteps

LEMMA QueueStarts == Init => QInv /\ Scheduler!Init
<1> SUFFICES ASSUME Init PROVE QInv /\ Scheduler!Init
  OBVIOUS
<1> DEFINE q == <<Kernel>>
<1>1. Ring = {Kernel} /\ next[Kernel] = Kernel /\ threads_head = Kernel
  BY ThreadsAssumption DEF Init, Ring
<1>2. Lists(q, 1, Ring, threads_head, next)
  BY <1>1 DEF Lists
<1>3. Queue = <<Kernel>>
  BY <1>2, QueueIs
<1>4. Doomed = {}
  BY DEF Init, Doomed
<1>5. Scheduler!Init
  BY <1>3, <1>4 DEF Queue, Doomed, Scheduler!Init
<1>6. QED
  BY <1>2, <1>5 DEF QInv

(* thread.c:32,118-134,183-224 - the scheduler is a round robin queue.     *)
THEOREM SchedulerIsRoundRobin == Spec => ImplementsRoundRobin
  BY QueueStarts, QueueSteps, InitHolds, StepHolds, Invariance, PTL
     DEF Spec, ImplementsRoundRobin, Scheduler!Spec
=============================================================================
