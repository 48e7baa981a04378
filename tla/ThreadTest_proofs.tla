---------------------------- MODULE ThreadTest_proofs ----------------------------
(***************************************************************************)
(* The proofs about ThreadTest.tla, for any number of rounds, any nesting  *)
(* of interrupts and any places for a thread_t: the program of main() only *)
(* does what Threads.tla allows its clients, so that IInv holds of it; and *)
(* TInv, which says where main() and the two threads are and what x is, is *)
(* preserved by every step.                                                *)
(*                                                                         *)
(* The kernel's steps fall into seven kinds, by what they do to pc, arg,   *)
(* handles and state (KernelKinds); TInv is proved once for each kind.     *)
(***************************************************************************)
EXTENDS ThreadTest, Threads_proofs

-----------------------------------------------------------------------------
(* The inductive invariant of the program, beside IInv of Threads_proofs.  *)

CreateLabel == {"create_lock", "create_alloc", "create_stack", "create_read",
                "create_link", "create_back", "create_frame", "create_unlock"}
WaitLabel   == {"wait_spin", "wait_stack", "wait_thread"}

(* The created threads whose first frame has been laid.                    *)
Born  == {t \in Thread \ {Kernel} : pc[t] # "none"}
Named == {printer, adder} \ {NULL}

(* Only main() creates threads and waits for them.                         *)
OnlyMain ==
  /\ \A t \in Thread \ {Kernel} :
       /\ pc[t] \in {"none", "start", "client", "kill_resume"} \cup Killing
       /\ handles[t] = {} /\ arg[t] = NULL
  /\ pc[Kernel] = "boot" => at = "alloc_x"
  /\ pc[Kernel] \in CreateLabel => at \in {"creating_printer", "creating_adder"}
  /\ pc[Kernel] \in WaitLabel => at \in {"waiting_adder", "waiting_printer"}
  /\ pc[Kernel] \in {"boot", "client"} \cup CreateLabel \cup WaitLabel

(* The threads that were born are those main() has named and the one that  *)
(* thread_create() is about to return, or has returned.                    *)
NameInv ==
  /\ printer = NULL <=> at \in {"alloc_x", "create_printer", "creating_printer"}
  /\ adder # NULL <=> at \in {"wait_adder", "waiting_adder", "waiting_printer", "end"}
  /\ printer # NULL => printer \in Born /\ run[printer] = "print"
  /\ adder # NULL => adder \in Born /\ run[adder] = "add"
  /\ \A t \in Born \ Named :
       /\ \/ at = "creating_printer" /\ run[t] = "print"
          \/ at = "creating_adder" /\ run[t] = "add"
       /\ t \in handles[Kernel] \/ (pc[Kernel] = "create_unlock" /\ arg[Kernel] = t)

(* main() has the handles of those it has not waited for.                  *)
HandleInv ==
  /\ handles[Kernel] \subseteq Born
  /\ at \in {"creating_printer", "creating_adder"} /\ pc[Kernel] = "client" =>
        \A t, u \in handles[Kernel] \ Named : t = u
  /\ at \notin {"creating_printer", "creating_adder"} \/ pc[Kernel] # "client" =>
        handles[Kernel] \subseteq Named
  /\ at \notin {"waiting_adder", "waiting_printer", "end"} => Named \subseteq handles[Kernel]
  /\ at = "waiting_adder" => handles[Kernel] = {printer}
  /\ at \in {"waiting_printer", "end"} => handles[Kernel] = {}
  /\ pc[Kernel] = "create_unlock" => arg[Kernel] \in Born
  /\ pc[Kernel] \in WaitLabel =>
        arg[Kernel] = IF at = "waiting_adder" THEN adder ELSE printer

(* A wait returns when the thread is DEAD.                                 *)
WaitInv ==
  /\ at \in {"waiting_printer", "end"} => state[adder] = "DEAD"
  /\ at = "end" => state[printer] = "DEAD"
  /\ pc[Kernel] \in {"wait_stack", "wait_thread"} => state[arg[Kernel]] = "DEAD"
  /\ pc[Kernel] = "client" =>
       /\ at = "waiting_adder" => state[adder] = "DEAD"
       /\ at = "waiting_printer" => state[printer] = "DEAD"

(* What a thread has done of its run function.                             *)
WorkInv ==
  /\ \A t \in Thread \ Born : work[t] = "none" /\ run[t] = "main"
  /\ \A t \in Born :
       /\ run[t] # "main"
       /\ pc[t] = "start" => work[t] = "none"
       /\ pc[t] = "client" => work[t] \in {"loop", "read", "write", "unlock"}
       /\ pc[t] \notin {"start", "client"} => work[t] = "done"
  /\ \A t \in Thread :
       /\ work[t] = "none" => i[t] = 0
       /\ work[t] = "done" => i[t] = Rounds
       /\ work[t] \in {"read", "write", "unlock"} => i[t] < Rounds

(* t is between lock(&lck) and unlock(&lck).                               *)
HoldsLck(t) == work[t] \in {"read", "write", "unlock"}

(* lck covers the load and the store, and the printing of x; x counts the  *)
(* adder's rounds.                                                         *)
CountInv ==
  /\ lck = "LOCKED" <=> \E t \in Thread : HoldsLck(t)
  /\ \A t, u \in Thread : HoldsLck(t) /\ HoldsLck(u) => t = u
  /\ \A t, u \in Thread : run[t] = "add" /\ run[u] = "add" => t = u
  /\ \A t \in Thread :
       /\ work[t] = "write" => run[t] = "add" /\ reg[t] = x
       /\ work[t] = "unlock" /\ run[t] = "print" => reg[t] = x
       /\ run[t] = "add" => x = i[t] + (IF work[t] = "unlock" THEN 1 ELSE 0)
  /\ (\A t \in Thread : run[t] # "add") => x = 0

TInv ==
  /\ TTypeOK /\ OnlyMain /\ NameInv /\ HandleInv /\ WaitInv /\ WorkInv /\ CountInv

-----------------------------------------------------------------------------
(* The kernel below the program                                            *)

(* A failed mem_alloc of x stops the machine; nothing else changes.        *)
LEMMA FaultStep ==
  ASSUME IInv, machine' = "fault", ints' = FALSE,
         UNCHANGED <<cpu, irr, isr, irqVars, ringVars, memVars, localVars,
                     threads_lock, state, pc>>
  PROVE  IInv'
<1>1. Ring' = Ring /\ \A s \in Thread : Unframed(s)' <=> Unframed(s)
  BY DEF ringVars, memVars, localVars, irqVars, Ring, Unframed
<1> USE <1>1 DEF ringVars, memVars, localVars, irqVars
<1>2. TypeOK' /\ CpuInv'
  BY DEF IInv, TypeOK, CpuInv
<1>3. ActivationInv' /\ PcInv'
  BY DEF IInv, ActivationInv, PcInv, Idle
<1>4. StateInv' /\ ArgInv'
  BY DEF IInv, StateInv, ArgInv
<1>5. OwnInv' /\ CreateKillExclusion'
  BY DEF IInv, OwnInv, Owns, CreateKillExclusion, Holds
<1>6. MemInv' /\ OwnRegisters'
  BY DEF IInv, MemInv, OwnRegisters, Ring
<1>7. LinkInv' /\ OneRing'
  BY DEF IInv, LinkInv, OneRing, HalfLinked
<1>8. QED
  BY <1>2, <1>3, <1>4, <1>5, <1>6, <1>7 DEF IInv

(* Every step of the program is one of Threads.tla, or that fault.         *)
LEMMA ProgramIsClient ==
  ASSUME IInv, TNext
  PROVE  IInv'
<1> USE ThreadsAssumption
<1>1. CASE KernelStep
  BY <1>1, StepHolds DEF KernelStep, Next
<1>2. CASE MainAllocX
  <2>1. CASE machine' = "fault"
    BY <1>2, <2>1, FaultStep, StepHolds DEF MainAllocX, Quiet, vars, machineVars
  <2>2. CASE UNCHANGED <<machine, ints>>
    <3>1. UNCHANGED vars
      BY <1>2, <2>2 DEF MainAllocX, Quiet, vars, machineVars, irqVars
    <3>2. QED
      BY <3>1, StepHolds
  <2>3. QED
    BY <1>2, <2>1, <2>2 DEF MainAllocX
<1>3. CASE MainCreate("create_printer", "creating_printer")
           \/ MainCreate("create_adder", "creating_adder")
  BY <1>3, CallCreateStep DEF MainCreate
<1>4. CASE MainCreated \/ MainFreeX
  BY <1>4, StepHolds DEF MainCreated, MainFreeX
<1>5. CASE MainWait("wait_adder", "waiting_adder", adder)
           \/ MainWait("waiting_adder", "waiting_printer", printer)
  <2>1. PICK s : CallWait(Kernel, s)
    BY <1>5 DEF MainWait
  <2>2. s \in Thread
    BY <2>1 DEF CallWait, IInv, TypeOK
  <2>3. QED
    BY <2>1, <2>2, CallWaitStep
<1>6. ASSUME NEW t \in Thread, Worker(t)
      PROVE  IInv'
  <2>1. CASE TakeLck(t) \/ ReadX(t) \/ WriteX(t) \/ DropLck(t)
    BY <2>1, StepHolds DEF TakeLck, ReadX, WriteX, DropLck
  <2>2. CASE Return(t)
    BY <2>2, CallKillStep DEF Return
  <2>3. QED
    BY <1>6, <2>1, <2>2 DEF Worker
<1>7. QED
  BY <1>1, <1>2, <1>3, <1>4, <1>5, <1>6 DEF TNext, Main

-----------------------------------------------------------------------------
(* The kinds of the kernel's steps                                         *)

(* Whoever is DEAD stays DEAD.                                             *)
DeadStay == \A t \in Thread : state[t] = "DEAD" => state'[t] = "DEAD"

Move(t, from, to) ==
  pc[t] \in from /\ pc'[t] \in to /\ pc' = [pc EXCEPT ![t] = pc'[t]]

(* Only the CPU's state, the ring or memory changes.                       *)
Still == UNCHANGED <<pc, arg, handles>> /\ DeadStay

(* Inside thread_kill().                                                   *)
KillMoves(t) ==
  /\ t # Kernel
  /\ Move(t, Killing \cup {"kill_resume"}, Killing \cup {"kill_resume"})
  /\ UNCHANGED <<arg, handles>> /\ DeadStay

(* Interrupts are enabled and the run function, or main(), is entered.     *)
Enters(t) ==
  Move(t, {"boot", "start"}, {"client"}) /\ UNCHANGED <<arg, handles, state>>

(* Inside thread_create(), before the new thread is born.                  *)
CreateMoves ==
  /\ Move(Kernel, CreateLabel \ {"create_unlock"}, CreateLabel \ {"create_unlock"})
  /\ arg' = [arg EXCEPT ![Kernel] = arg'[Kernel]]
  /\ UNCHANGED handles

(* Its first frame is laid.                                                *)
Birth ==
  /\ pc[Kernel] = "create_frame"
  /\ arg[Kernel] \in Thread \ {Kernel} /\ pc[arg[Kernel]] = "none"
  /\ pc' = [pc EXCEPT ![Kernel] = "create_unlock", ![arg[Kernel]] = "start"]
  /\ UNCHANGED <<arg, handles, state>>

Created ==
  /\ Move(Kernel, {"create_unlock"}, {"client"})
  /\ handles' = [handles EXCEPT ![Kernel] = @ \cup {arg[Kernel]}]
  /\ arg' = [arg EXCEPT ![Kernel] = NULL]
  /\ UNCHANGED state

(* Inside thread_wait().                                                   *)
WaitMoves ==
  /\ \/ /\ Move(Kernel, {"wait_spin"}, {"wait_stack"})
        /\ state[arg[Kernel]] = "DEAD"
        /\ UNCHANGED arg
     \/ /\ Move(Kernel, {"wait_stack"}, {"wait_thread"})
        /\ UNCHANGED arg
     \/ /\ Move(Kernel, {"wait_thread"}, {"client"})
        /\ arg' = [arg EXCEPT ![Kernel] = NULL]
  /\ UNCHANGED <<handles, state>>

(* While main() creates, the slot of the new thread has never been used.   *)
LEMMA Fresh ==
  ASSUME IInv, TInv, pc[Kernel] \in {"create_back", "create_frame"}
  PROVE  arg[Kernel] \in Thread \ {Kernel} /\ pc[arg[Kernel]] = "none"
<1> USE ThreadsAssumption
<1>1. arg[Kernel] \in Ring /\ Unframed(arg[Kernel]) /\ arg[Kernel] \in Thread
  BY DEF IInv, ArgInv, Unframed, Ring
<1>2. arg[Kernel] # Kernel /\ arg[Kernel] \notin handles[Kernel]
  BY <1>1 DEF IInv, OwnInv, Owns
<1>3. at \in {"creating_printer", "creating_adder"}
  BY DEF TInv, OnlyMain, CreateLabel
<1>4. Named \subseteq handles[Kernel]
  BY <1>3 DEF TInv, HandleInv
<1>5. arg[Kernel] \notin Born
  BY <1>2, <1>4 DEF TInv, NameInv
<1>6. QED
  BY <1>1, <1>2, <1>5 DEF Born

(* What thread_create(), thread_wait() and thread_kill() each are to whom. *)
LEMMA Whose ==
  ASSUME IInv, TInv, NEW t \in Thread
  PROVE  /\ pc[t] \in CreateLabel \cup WaitLabel \cup {"boot"} => t = Kernel
         /\ pc[t] \in Killing \cup {"start", "none", "kill_resume"} => t # Kernel
  BY DEF TInv, OnlyMain, Killing, CreateLabel, WaitLabel

LEMMA KernelKinds ==
  ASSUME IInv, TInv, KernelNext
  PROVE  \/ Still \/ CreateMoves \/ Birth \/ Created \/ WaitMoves
         \/ \E t \in Thread : KillMoves(t) \/ Enters(t)
<1> USE ThreadsAssumption
<1>a. IInv'
  BY StepHolds DEF Next
<1>b. /\ pc \in [Thread -> Label] /\ arg \in [Thread -> Thread \cup {NULL}]
      /\ state \in [Thread -> {"RUNNING", "DYING", "DEAD"}]
      /\ cpu \in Thread /\ threads_head = cpu /\ state[cpu] # "DEAD"
  BY DEF IInv, TypeOK, CpuInv, StateInv
<1>1. CASE Tick
  BY <1>1 DEF Tick, Still, DeadStay, localVars
<1>2. ASSUME NEW t \in Thread, Interrupt(t)
      PROVE  Still
  BY <1>2 DEF Interrupt, Still, DeadStay, localVars
<1>3. ASSUME NEW t \in Thread, CpuStep(t)
      PROVE  \/ Still \/ CreateMoves \/ Birth \/ Created \/ WaitMoves
             \/ KillMoves(t) \/ Enters(t)
  <2>a. pc'[t] # "zombie"
    BY <1>a DEF IInv, PcInv
  <2>1. CASE Acknowledge(t) \/ IRet(t)
    BY <2>1 DEF Acknowledge, IRet, Still, DeadStay, localVars
  <2>2. CASE SwitchReturns(t) \/ Resume(t)
    <3>1. UNCHANGED <<arg, handles, state>>
      BY <2>2 DEF SwitchReturns, Resume, localVars
    <3>2. UNCHANGED pc
      BY <1>b, <2>a, <2>2 DEF SwitchReturns, Resume, CallerAt, Goto
    <3>3. QED
      BY <3>1, <3>2 DEF Still, DeadStay
  <2>3. CASE Switch(t)
    <3>1. UNCHANGED <<arg, handles>>
      BY <2>3 DEF Switch, localVars
    <3>2. DeadStay
      BY <1>b, <2>3 DEF Switch, DeadStay
    <3>3. UNCHANGED pc \/ (/\ pc[t] = "kill_switch"
                           /\ pc' = [pc EXCEPT ![t] = "kill_resume"])
      BY <2>3, <1>b DEF Switch, CallerAt, Goto, CallsSwitch, At
    <3>4. CASE UNCHANGED pc
      BY <3>1, <3>2, <3>4 DEF Still
    <3>5. CASE pc[t] = "kill_switch" /\ pc' = [pc EXCEPT ![t] = "kill_resume"]
      BY <3>1, <3>2, <3>5, <1>b, Whose DEF KillMoves, Move, Killing
    <3>6. QED
      BY <3>3, <3>4, <3>5
  <2>4. CASE EnableInts(t)
    BY <1>b, <2>4 DEF EnableInts, At, Goto, Enters, Move, localVars
  <2>5. CASE LockThreads(t)
    <3>1. CASE pc[t] = "create_lock"
      BY <1>b, <2>5, <3>1, Whose DEF LockThreads, At, Goto, CreateMoves, Move, CreateLabel, localVars
    <3>2. CASE pc[t] = "kill_lock"
      BY <1>b, <2>5, <3>2, Whose DEF LockThreads, At, Goto, KillMoves, Move, Killing, DeadStay, localVars
    <3>3. QED
      BY <2>5, <3>1, <3>2 DEF LockThreads, At
  <2>6. CASE AllocThread(t)
    <3>1. t = Kernel /\ pc[t] = "create_alloc" /\ pc' = [pc EXCEPT ![t] = "create_stack"]
      BY <2>6, Whose DEF AllocThread, At, Goto, CreateLabel
    <3>2. arg' = [arg EXCEPT ![t] = arg'[t]] /\ UNCHANGED handles
      BY <1>b, <2>6 DEF AllocThread
    <3>3. QED
      BY <1>b, <3>1, <3>2 DEF CreateMoves, Move, CreateLabel
  <2>7. CASE AllocStack(t)
    <3>1. t = Kernel /\ pc[t] = "create_stack" /\ UNCHANGED <<arg, handles>>
      BY <2>7, Whose DEF AllocStack, At, CreateLabel, localVars
    <3>2. CASE arg[t] = NULL
      BY <2>7, <3>1, <3>2 DEF AllocStack, Still, DeadStay
    <3>3. CASE arg[t] # NULL
      BY <1>b, <2>7, <3>1, <3>3 DEF AllocStack, Goto, CreateMoves, Move, CreateLabel
    <3>4. QED
      BY <3>2, <3>3
  <2>8. CASE InsertRead(t) \/ InsertForward(t) \/ InsertBackward(t)
    BY <1>b, <2>8, Whose
    DEF InsertRead, InsertForward, InsertBackward, At, Goto, CreateMoves, Move, CreateLabel, localVars
  <2>9. CASE LayFrame(t)
    <3>1. t = Kernel /\ pc[t] = "create_frame" /\ UNCHANGED <<arg, handles, state>>
      BY <2>9, Whose DEF LayFrame, At, CreateLabel, localVars
    <3>2. QED
      BY <2>9, <3>1, Fresh DEF LayFrame, Birth, Still, DeadStay
  <2>10. CASE UnlockCreate(t)
    BY <1>b, <2>10, Whose DEF UnlockCreate, At, Goto, Created, Move, CreateLabel
  <2>11. CASE KillMark(t)
    <3>1. DeadStay
      BY <1>b, <2>11 DEF KillMark, DeadStay
    <3>2. QED
      BY <1>b, <2>11, <3>1, Whose DEF KillMark, At, Goto, KillMoves, Move, Killing, localVars
  <2>12. CASE KillDisableInts(t) \/ KillUnlock(t)
    BY <1>b, <2>12, Whose
    DEF KillDisableInts, KillUnlock, At, Goto, KillMoves, Move, Killing, DeadStay, localVars
  <2>13. CASE WaitDead(t)
    <3>1. t = Kernel /\ pc[t] = "wait_spin" /\ UNCHANGED <<arg, handles, state>>
      BY <2>13, Whose DEF WaitDead, At, WaitLabel, localVars
    <3>2. QED
      BY <1>b, <2>13, <3>1 DEF WaitDead, Goto, Finished, WaitMoves, Move, Still, DeadStay
  <2>14. CASE WaitFreeStack(t) \/ WaitFreeThread(t)
    BY <1>b, <2>14, Whose DEF WaitFreeStack, WaitFreeThread, At, Goto, WaitMoves, Move, WaitLabel, localVars
  <2>15. QED
    BY <1>3, <2>1, <2>2, <2>3, <2>4, <2>5, <2>6, <2>7, <2>8, <2>9, <2>10, <2>11, <2>12, <2>13, <2>14
    DEF CpuStep
<1>4. QED
  BY <1>1, <1>2, <1>3 DEF KernelNext

-----------------------------------------------------------------------------
(* TInv through the kernel's steps                                         *)

(* What a step of the kernel leaves of the program: only the birth and the *)
(* first instructions of a thread touch run and work.                      *)
LEMMA NoBirth ==
  ASSUME IInv, TInv, KernelStep, Still \/ CreateMoves \/ Created \/ WaitMoves
           \/ \E t \in Thread : KillMoves(t)
  PROVE  UNCHANGED <<run, work>>
<1>1. /\ pc \in [Thread -> Label]
      /\ run \in [Thread -> {"main", "print", "add"}]
      /\ work \in [Thread -> {"none", "loop", "read", "write", "unlock", "done"}]
  BY DEF IInv, TypeOK, TInv, TTypeOK
<1>2. \A t \in Thread : pc'[t] # "start" \/ pc'[t] = pc[t]
  BY <1>1 DEF Still, CreateMoves, Created, WaitMoves, KillMoves, Move, Killing, CreateLabel
<1>3. \A t \in Thread : pc[t] # "start" \/ pc'[t] # "client"
  BY <1>1 DEF Still, CreateMoves, Created, WaitMoves, KillMoves, Move, Killing, CreateLabel
<1>4. run' = run
  BY <1>1, <1>2 DEF KernelStep
<1>5. work' = work
  BY <1>1, <1>3 DEF KernelStep
<1>6. QED
  BY <1>4, <1>5

(* The parts of TInv that speak only of the program.                       *)
LEMMA ProgramKept ==
  ASSUME TInv, UNCHANGED <<mainVars, run, work, i, reg, lck, x>>
  PROVE  TTypeOK' /\ CountInv' /\ Named' = Named
<1> USE DEF mainVars
<1>1. TTypeOK'
  BY DEF TInv, TTypeOK
<1>2. CountInv'
  BY DEF TInv, CountInv, HoldsLck
<1>3. QED
  BY <1>1, <1>2 DEF Named

LEMMA StillKeeps ==
  ASSUME IInv, TInv, KernelStep, Still
  PROVE  TInv'
<1>1. UNCHANGED <<mainVars, run, work, i, reg, lck, x>>
  BY NoBirth DEF KernelStep
<1>2. TTypeOK' /\ CountInv' /\ Named' = Named
  BY <1>1, ProgramKept
<1>3. Born' = Born
  BY DEF Still, Born
<1>4. OnlyMain' /\ NameInv' /\ HandleInv'
  BY <1>1, <1>2, <1>3 DEF TInv, OnlyMain, NameInv, HandleInv, Still, mainVars
<1>5. WaitInv'
  BY <1>1 DEF TInv, WaitInv, Still, DeadStay, mainVars, NameInv, Born, OnlyMain, HandleInv, WaitLabel
<1>6. WorkInv'
  BY <1>1, <1>3 DEF TInv, WorkInv, Still
<1>7. QED
  BY <1>2, <1>4, <1>5, <1>6 DEF TInv

LEMMA KillMovesKeeps ==
  ASSUME IInv, TInv, KernelStep, NEW t \in Thread, KillMoves(t)
  PROVE  TInv'
<1> USE ThreadsAssumption
<1>1. UNCHANGED <<mainVars, run, work, i, reg, lck, x>>
  BY NoBirth DEF KernelStep
<1>2. TTypeOK' /\ CountInv' /\ Named' = Named
  BY <1>1, ProgramKept
<1>3. pc \in [Thread -> Label] /\ UNCHANGED <<arg, handles>> /\ pc'[Kernel] = pc[Kernel]
  BY DEF IInv, TypeOK, KillMoves, Move
<1>4. Born' = Born
  BY <1>3 DEF KillMoves, Move, Killing, Born
<1>5. OnlyMain'
  BY <1>1, <1>3 DEF TInv, OnlyMain, KillMoves, Move, Killing, mainVars
<1>6. NameInv' /\ HandleInv'
  BY <1>1, <1>2, <1>3, <1>4 DEF TInv, NameInv, HandleInv, mainVars
<1>7. WaitInv'
  BY <1>1, <1>3 DEF TInv, WaitInv, KillMoves, DeadStay, mainVars, NameInv, Born, OnlyMain, HandleInv, WaitLabel
<1>8. WorkInv'
  BY <1>1, <1>3, <1>4 DEF TInv, WorkInv, KillMoves, Move, Killing, Born
<1>9. QED
  BY <1>2, <1>5, <1>6, <1>7, <1>8 DEF TInv

LEMMA EntersKeeps ==
  ASSUME IInv, TInv, KernelStep, NEW t \in Thread, Enters(t)
  PROVE  TInv'
<1> USE ThreadsAssumption
<1>1. UNCHANGED <<mainVars, i, reg, lck, x>> /\ mainVars' = mainVars
  BY DEF KernelStep
<1>2. /\ pc \in [Thread -> Label] /\ pc[t] \in {"boot", "start"}
      /\ pc' = [pc EXCEPT ![t] = "client"]
      /\ UNCHANGED <<arg, handles, state>>
  BY DEF IInv, TypeOK, Enters, Move
<1>3. run' = run
  BY <1>2 DEF KernelStep, TInv, TTypeOK
<1>4. work' = [work EXCEPT ![t] = IF pc[t] = "start" THEN "loop" ELSE @]
  BY <1>2 DEF KernelStep, TInv, TTypeOK
<1>5. Born' = Born /\ Named' = Named
  BY <1>1, <1>2 DEF Born, Named, mainVars
<1>6. TTypeOK'
  BY <1>1, <1>3, <1>4 DEF TInv, TTypeOK, mainVars
<1>7. OnlyMain' /\ WaitInv'
  BY <1>1, <1>2 DEF TInv, OnlyMain, WaitInv, WaitLabel, CreateLabel, mainVars
<1>8. NameInv' /\ HandleInv'
  BY <1>1, <1>2, <1>3, <1>5 DEF TInv, NameInv, HandleInv, OnlyMain, CreateLabel, WaitLabel, mainVars
<1>9. WorkInv'
  <2>1. pc[t] = "start" <=> t \in Born
    BY <1>2, Whose DEF Born
  <2>2. ASSUME NEW u \in Thread, u # t
        PROVE  work'[u] = work[u] /\ pc'[u] = pc[u] /\ run'[u] = run[u] /\ i'[u] = i[u]
    BY <1>1, <1>2, <1>3, <1>4, <2>2 DEF TInv, TTypeOK
  <2>3. /\ pc'[t] = "client" /\ run'[t] = run[t] /\ i'[t] = i[t]
        /\ work'[t] = IF t \in Born THEN "loop" ELSE work[t]
    BY <1>1, <1>2, <1>3, <1>4, <2>1 DEF TInv, TTypeOK
  <2>4. QED
    BY <1>5, <2>2, <2>3 DEF TInv, WorkInv, Born
<1>10. CountInv'
  <2>1. work[t] = "none" \/ UNCHANGED work
    BY <1>2, <1>4, Whose DEF TInv, TTypeOK, WorkInv, Born
  <2>2. \A u \in Thread : HoldsLck(u)' <=> HoldsLck(u)
    BY <1>4, <2>1 DEF HoldsLck, TInv, TTypeOK
  <2>3. \A u \in Thread : work'[u] \in {"write", "unlock"} <=> work[u] \in {"write", "unlock"}
    BY <1>4, <2>1 DEF TInv, TTypeOK
  <2>4. \A u \in Thread : (work'[u] = "write" <=> work[u] = "write") /\ (work'[u] = "unlock" <=> work[u] = "unlock")
    BY <1>4, <2>1 DEF TInv, TTypeOK
  <2>5. QED
    BY <1>1, <1>3, <2>2, <2>4 DEF TInv, CountInv
<1>11. QED
  BY <1>6, <1>7, <1>8, <1>9, <1>10 DEF TInv

LEMMA CreateMovesKeeps ==
  ASSUME IInv, TInv, KernelStep, CreateMoves
  PROVE  TInv'
<1> USE ThreadsAssumption
<1>1. UNCHANGED <<mainVars, run, work, i, reg, lck, x>>
  BY NoBirth DEF KernelStep
<1>2. TTypeOK' /\ CountInv' /\ Named' = Named
  BY <1>1, ProgramKept
<1>3. /\ pc \in [Thread -> Label] /\ arg \in [Thread -> Thread \cup {NULL}]
      /\ {pc[Kernel], pc'[Kernel]} \subseteq CreateLabel \ {"create_unlock"}
      /\ UNCHANGED handles
      /\ \A t \in Thread \ {Kernel} : pc'[t] = pc[t] /\ arg'[t] = arg[t]
  BY DEF IInv, TypeOK, CreateMoves, Move
<1>4. Born' = Born
  BY <1>3 DEF Born
<1>5. at \in {"creating_printer", "creating_adder"}
  BY <1>3 DEF TInv, OnlyMain, CreateLabel
<1>6. OnlyMain' /\ WaitInv'
  BY <1>1, <1>3, <1>5 DEF TInv, OnlyMain, WaitInv, CreateLabel, WaitLabel, mainVars
<1>7. NameInv'
  BY <1>1, <1>2, <1>3, <1>4 DEF TInv, NameInv, CreateLabel, mainVars
<1>8. HandleInv'
  BY <1>1, <1>2, <1>3, <1>4, <1>5 DEF TInv, HandleInv, CreateLabel, WaitLabel, mainVars
<1>9. WorkInv'
  BY <1>1, <1>3, <1>4 DEF TInv, WorkInv, Born
<1>10. QED
  BY <1>2, <1>6, <1>7, <1>8, <1>9 DEF TInv

LEMMA BirthKeeps ==
  ASSUME IInv, TInv, KernelStep, Birth
  PROVE  TInv'
<1> USE ThreadsAssumption
<1> DEFINE s == arg[Kernel]
<1>1. UNCHANGED <<at, printer, adder, xmem, i, reg, lck, x>>
  BY DEF KernelStep, mainVars
<1>2. /\ pc \in [Thread -> Label] /\ s \in Thread \ {Kernel} /\ pc[s] = "none"
      /\ pc[Kernel] = "create_frame"
      /\ pc' = [pc EXCEPT ![Kernel] = "create_unlock", ![s] = "start"]
      /\ UNCHANGED <<arg, handles, state>>
  BY DEF IInv, TypeOK, Birth
<1>3. at \in {"creating_printer", "creating_adder"} /\ s \notin Born
  BY <1>2 DEF TInv, OnlyMain, CreateLabel, Born
<1>4. run' = [run EXCEPT ![s] = IF at = "creating_printer" THEN "print" ELSE "add"]
  BY <1>2 DEF KernelStep, TInv, TTypeOK
<1>5. UNCHANGED work
  BY <1>2 DEF KernelStep, TInv, TTypeOK
<1>6. Born' = Born \cup {s} /\ Named' = Named
  BY <1>1, <1>2 DEF Born, Named
<1>7. TTypeOK'
  BY <1>1, <1>2, <1>4, <1>5 DEF TInv, TTypeOK
<1>8. OnlyMain' /\ WaitInv'
  BY <1>1, <1>2, <1>3 DEF TInv, OnlyMain, WaitInv, CreateLabel, WaitLabel
<1>9. handles[Kernel] = Named /\ Born = Named
  BY <1>2, <1>3 DEF TInv, HandleInv, NameInv
<1>10. NameInv'
  BY <1>1, <1>2, <1>3, <1>4, <1>6, <1>9 DEF TInv, NameInv, TTypeOK
<1>11. HandleInv'
  BY <1>1, <1>2, <1>3, <1>6, <1>9 DEF TInv, HandleInv, WaitLabel
<1>12. WorkInv'
  BY <1>1, <1>2, <1>3, <1>4, <1>5, <1>6 DEF TInv, TTypeOK, WorkInv, Born
<1>13. CountInv'
  <2>1. work[s] = "none" /\ i[s] = 0 /\ run[s] = "main"
    BY <1>2, <1>3 DEF TInv, WorkInv
  <2>2. \A t \in Thread \ {s} : run[t] = "add" => at # "creating_adder" /\ at # "creating_printer"
    BY <1>3, <1>9 DEF TInv, NameInv, WorkInv, Named
  <2>3. x = 0
    BY <1>3, <2>1, <2>2 DEF TInv, CountInv
  <2>4. QED
    BY <1>1, <1>2, <1>3, <1>4, <1>5, <2>1, <2>2, <2>3 DEF TInv, TTypeOK, CountInv, HoldsLck
<1>14. QED
  BY <1>7, <1>8, <1>10, <1>11, <1>12, <1>13 DEF TInv

LEMMA CreatedKeeps ==
  ASSUME IInv, TInv, KernelStep, Created
  PROVE  TInv'
<1> USE ThreadsAssumption
<1> DEFINE s == arg[Kernel]
<1>1. UNCHANGED <<mainVars, run, work, i, reg, lck, x>>
  BY NoBirth DEF KernelStep
<1>2. TTypeOK' /\ CountInv' /\ Named' = Named
  BY <1>1, ProgramKept
<1>3. /\ pc \in [Thread -> Label] /\ arg \in [Thread -> Thread \cup {NULL}]
      /\ handles \in [Thread -> SUBSET Thread]
      /\ pc[Kernel] = "create_unlock" /\ pc' = [pc EXCEPT ![Kernel] = "client"]
      /\ handles' = [handles EXCEPT ![Kernel] = @ \cup {s}]
      /\ arg' = [arg EXCEPT ![Kernel] = NULL]
      /\ UNCHANGED state
  BY DEF IInv, TypeOK, Created, Move
<1>4. Born' = Born /\ s \in Born
  BY <1>3 DEF Born, TInv, HandleInv
<1>5. at \in {"creating_printer", "creating_adder"}
  BY <1>3 DEF TInv, OnlyMain, CreateLabel
<1>6. OnlyMain' /\ WaitInv'
  BY <1>1, <1>3, <1>5 DEF TInv, OnlyMain, WaitInv, WaitLabel, CreateLabel, mainVars
<1>7. NameInv'
  BY <1>1, <1>2, <1>3, <1>4 DEF TInv, NameInv, mainVars
<1>8. HandleInv'
  BY <1>1, <1>2, <1>3, <1>4, <1>5 DEF TInv, HandleInv, WaitLabel, mainVars
<1>9. WorkInv'
  BY <1>1, <1>3, <1>4 DEF TInv, WorkInv, Born
<1>10. QED
  BY <1>2, <1>6, <1>7, <1>8, <1>9 DEF TInv

LEMMA WaitMovesKeeps ==
  ASSUME IInv, TInv, KernelStep, WaitMoves
  PROVE  TInv'
<1> USE ThreadsAssumption
<1>1. UNCHANGED <<mainVars, run, work, i, reg, lck, x>>
  BY NoBirth DEF KernelStep
<1>2. TTypeOK' /\ CountInv' /\ Named' = Named
  BY <1>1, ProgramKept
<1>3. /\ pc \in [Thread -> Label] /\ arg \in [Thread -> Thread \cup {NULL}]
      /\ pc[Kernel] \in WaitLabel /\ pc'[Kernel] \in {"wait_stack", "wait_thread", "client"}
      /\ pc'[Kernel] \in WaitLabel => arg'[Kernel] = arg[Kernel]
      /\ state[arg[Kernel]] = "DEAD"
      /\ \A t \in Thread \ {Kernel} : pc'[t] = pc[t] /\ arg'[t] = arg[t]
      /\ UNCHANGED <<handles, state>>
  BY DEF IInv, TypeOK, WaitMoves, Move, TInv, WaitInv, WaitLabel
<1>4. Born' = Born
  BY <1>3 DEF Born
<1>5. at \in {"waiting_adder", "waiting_printer"}
  BY <1>3 DEF TInv, OnlyMain, WaitLabel
<1>6. OnlyMain'
  BY <1>1, <1>3, <1>5 DEF TInv, OnlyMain, WaitLabel, CreateLabel, mainVars
<1>7. NameInv'
  BY <1>1, <1>2, <1>3, <1>4, <1>5 DEF TInv, NameInv, WaitLabel, mainVars
<1>8. HandleInv'
  BY <1>1, <1>2, <1>3, <1>4, <1>5 DEF TInv, HandleInv, WaitLabel, mainVars
<1>9. WaitInv'
  BY <1>1, <1>3, <1>5 DEF TInv, WaitInv, HandleInv, WaitLabel, mainVars
<1>10. WorkInv'
  BY <1>1, <1>3, <1>4 DEF TInv, WorkInv, Born
<1>11. QED
  BY <1>2, <1>6, <1>7, <1>8, <1>9, <1>10 DEF TInv

LEMMA KernelKeeps ==
  ASSUME IInv, TInv, KernelStep
  PROVE  TInv'
  BY KernelKinds, StillKeeps, KillMovesKeeps, EntersKeeps, CreateMovesKeeps,
     BirthKeeps, CreatedKeeps, WaitMovesKeeps DEF KernelStep

-----------------------------------------------------------------------------
(* TInv through the program's steps                                        *)

(* The parts of TInv that speak of threads, not of main(), when only work, *)
(* i, reg, lck and x may change.                                           *)
LEMMA MainKept ==
  ASSUME TInv, UNCHANGED <<mainVars, run, arg, handles, state>>, pc'[Kernel] = pc[Kernel],
         \A t \in Thread \ {Kernel} :
           pc'[t] = pc[t] \/ {pc[t], pc'[t]} \subseteq {"client"} \cup Killing
  PROVE  OnlyMain' /\ NameInv' /\ HandleInv' /\ WaitInv' /\ Born' = Born
<1> USE ThreadsAssumption
<1>1. Born' = Born /\ Named' = Named
  BY DEF Born, Named, mainVars, Killing
<1>2. OnlyMain'
  BY DEF TInv, OnlyMain, mainVars, Killing
<1>3. NameInv' /\ HandleInv'
  BY <1>1 DEF TInv, NameInv, HandleInv, mainVars
<1>4. WaitInv'
  BY DEF TInv, WaitInv, mainVars
<1>5. QED
  BY <1>1, <1>2, <1>3, <1>4

LEMMA TakeLckKeeps ==
  ASSUME IInv, TInv, NEW t \in Thread, TakeLck(t)
  PROVE  TInv'
<1>1. UNCHANGED <<mainVars, run, arg, handles, state, pc>>
  BY DEF TakeLck, vars, localVars
<1>2. OnlyMain' /\ NameInv' /\ HandleInv' /\ WaitInv' /\ Born' = Born
  BY <1>1, MainKept
<1> USE DEF TakeLck, InLoop, Working, At
<1>3. TTypeOK'
  BY <1>1 DEF TInv, TTypeOK, mainVars
<1>4. t \in Born /\ pc[t] = "client"
  BY DEF TInv, WorkInv
<1>5. WorkInv'
  BY <1>1, <1>2, <1>4 DEF TInv, TTypeOK, WorkInv
<1>6. CountInv'
  BY <1>1 DEF TInv, TTypeOK, CountInv, HoldsLck
<1>7. QED
  BY <1>2, <1>3, <1>5, <1>6 DEF TInv

LEMMA ReadXKeeps ==
  ASSUME IInv, TInv, NEW t \in Thread, ReadX(t)
  PROVE  TInv'
<1>1. UNCHANGED <<mainVars, run, arg, handles, state, pc>>
  BY DEF ReadX, vars, localVars
<1>2. OnlyMain' /\ NameInv' /\ HandleInv' /\ WaitInv' /\ Born' = Born
  BY <1>1, MainKept
<1> USE DEF ReadX, InLoop, Working, At
<1>3. TTypeOK'
  BY <1>1 DEF TInv, TTypeOK, mainVars
<1>4. t \in Born /\ pc[t] = "client"
  BY DEF TInv, WorkInv
<1>5. WorkInv'
  BY <1>1, <1>2, <1>4 DEF TInv, TTypeOK, WorkInv
<1>6. CountInv'
  BY <1>1 DEF TInv, TTypeOK, CountInv, HoldsLck
<1>7. QED
  BY <1>2, <1>3, <1>5, <1>6 DEF TInv

LEMMA WriteXKeeps ==
  ASSUME IInv, TInv, NEW t \in Thread, WriteX(t)
  PROVE  TInv'
<1>1. UNCHANGED <<mainVars, run, arg, handles, state, pc>>
  BY DEF WriteX, vars, localVars
<1>2. OnlyMain' /\ NameInv' /\ HandleInv' /\ WaitInv' /\ Born' = Born
  BY <1>1, MainKept
<1> USE DEF WriteX, InLoop, Working, At
<1>3. TTypeOK'
  BY <1>1 DEF TInv, TTypeOK, mainVars
<1>4. t \in Born /\ pc[t] = "client"
  BY DEF TInv, WorkInv
<1>5. WorkInv'
  BY <1>1, <1>2, <1>4 DEF TInv, TTypeOK, WorkInv
<1>6. CountInv'
  <2>1. run[t] = "add" /\ x' = x + 1 /\ x = i[t]
    BY DEF TInv, TTypeOK, CountInv
  <2>2. \A u \in Thread : HoldsLck(u)' <=> HoldsLck(u)
    BY DEF TInv, TTypeOK, HoldsLck
  <2>3. \A u \in Thread : work'[u] = "write" => FALSE
    BY DEF TInv, TTypeOK, CountInv, HoldsLck
  <2>4. \A u \in Thread : run'[u] = "add" => x' = i'[u] + (IF work'[u] = "unlock" THEN 1 ELSE 0)
    BY <1>1, <2>1 DEF TInv, TTypeOK, CountInv
  <2>5. \A u \in Thread : run'[u] = "print" => work'[u] # "unlock"
    BY <1>1, <2>1 DEF TInv, TTypeOK, CountInv, HoldsLck
  <2>6. QED
    BY <1>1, <2>1, <2>2, <2>3, <2>4, <2>5 DEF TInv, CountInv
<1>7. QED
  BY <1>2, <1>3, <1>5, <1>6 DEF TInv

LEMMA DropLckKeeps ==
  ASSUME IInv, TInv, NEW t \in Thread, DropLck(t)
  PROVE  TInv'
<1>1. UNCHANGED <<mainVars, run, arg, handles, state, pc>>
  BY DEF DropLck, vars, localVars
<1>2. OnlyMain' /\ NameInv' /\ HandleInv' /\ WaitInv' /\ Born' = Born
  BY <1>1, MainKept
<1> USE DEF DropLck, InLoop, Working, At
<1>3. i[t] < Rounds /\ i[t] \in 0 .. Rounds /\ Rounds \in Nat
  BY TestAssumption DEF TInv, WorkInv, TTypeOK
<1>4. TTypeOK'
  BY <1>1, <1>3 DEF TInv, TTypeOK, mainVars
<1>5. t \in Born /\ pc[t] = "client"
  BY DEF TInv, WorkInv
<1>6. WorkInv'
  BY <1>1, <1>2, <1>5 DEF TInv, TTypeOK, WorkInv
<1>7. CountInv'
  BY <1>1, <1>3 DEF TInv, TTypeOK, CountInv, HoldsLck
<1>8. QED
  BY <1>2, <1>4, <1>6, <1>7 DEF TInv

LEMMA ReturnKeeps ==
  ASSUME IInv, TInv, NEW t \in Thread, Return(t)
  PROVE  TInv'
<1> USE ThreadsAssumption
<1>1. UNCHANGED <<mainVars, run, i, reg, lck, x>> /\ UNCHANGED <<arg, state>>
  BY DEF Return, CallKill
<1>2. /\ t # Kernel /\ pc[t] = "client" /\ pc' = [pc EXCEPT ![t] = "kill_lock"]
      /\ work[t] = "loop" /\ work' = [work EXCEPT ![t] = "done"] /\ i[t] = Rounds
  BY DEF Return, CallKill, Goto, At, InLoop, Working
<1>3. UNCHANGED handles
  BY <1>2 DEF Return, CallKill, TInv, OnlyMain, IInv, TypeOK
<1>4. OnlyMain' /\ NameInv' /\ HandleInv' /\ WaitInv' /\ Born' = Born
  BY <1>1, <1>2, <1>3, MainKept DEF IInv, TypeOK, Killing
<1>5. TTypeOK'
  BY <1>1, <1>2 DEF TInv, TTypeOK, mainVars
<1>6. WorkInv'
  BY <1>1, <1>2, <1>4 DEF TInv, TTypeOK, WorkInv, Born, IInv, TypeOK
<1>7. CountInv'
  BY <1>1, <1>2 DEF TInv, TTypeOK, CountInv, HoldsLck
<1>8. QED
  BY <1>4, <1>5, <1>6, <1>7 DEF TInv

LEMMA AllocXKeeps ==
  ASSUME IInv, TInv, MainAllocX
  PROVE  TInv'
<1> USE ThreadsAssumption
<1>1. /\ UNCHANGED <<printer, adder, run, work, i, reg, lck>>
      /\ UNCHANGED <<pc, arg, handles, state>>
      /\ at = "alloc_x" /\ pc[Kernel] = "client"
  BY DEF MainAllocX, localVars, At
<1>2. \/ xmem' = TRUE /\ x' = 0 /\ at' = "create_printer"
      \/ UNCHANGED <<xmem, x, at>>
  BY DEF MainAllocX
<1>3. Born' = Born /\ Named' = Named /\ Born = {}
  BY <1>1 DEF Born, Named, TInv, NameInv
<1>4. x = 0
  BY <1>3 DEF TInv, CountInv, WorkInv
<1>5. TTypeOK'
  <2>1. CASE xmem' = TRUE /\ x' = 0 /\ at' = "create_printer"
    BY <1>1, <2>1 DEF TInv, TTypeOK
  <2>2. CASE UNCHANGED <<xmem, x, at>>
    BY <1>1, <2>2 DEF TInv, TTypeOK
  <2>3. QED
    BY <1>2, <2>1, <2>2
<1>6. OnlyMain' /\ WaitInv'
  BY <1>1, <1>2 DEF TInv, OnlyMain, WaitInv, CreateLabel, WaitLabel
<1>7. NameInv' /\ HandleInv'
  BY <1>1, <1>2, <1>3 DEF TInv, NameInv, HandleInv, CreateLabel, WaitLabel
<1>8. WorkInv'
  BY <1>1, <1>3 DEF TInv, WorkInv
<1>9. CountInv'
  BY <1>1, <1>2, <1>4 DEF TInv, CountInv, HoldsLck
<1>10. QED
  BY <1>5, <1>6, <1>7, <1>8, <1>9 DEF TInv

LEMMA CreateKeeps ==
  ASSUME IInv, TInv, NEW from, NEW to, MainCreate(from, to),
         <<from, to>> \in {<<"create_printer", "creating_printer">>,
                          <<"create_adder", "creating_adder">>}
  PROVE  TInv'
<1> USE ThreadsAssumption
<1>1. /\ UNCHANGED <<printer, adder, xmem, run, work, i, reg, lck, x>>
      /\ UNCHANGED <<arg, handles, state>>
      /\ pc[Kernel] = "client" /\ pc' = [pc EXCEPT ![Kernel] = "create_lock"]
  BY DEF MainCreate, CallCreate, localVars, At, Goto, workVars
<1>2. \/ at = "create_printer" /\ at' = "creating_printer"
      \/ at = "create_adder" /\ at' = "creating_adder"
  BY DEF MainCreate
<1>3. pc'[Kernel] = "create_lock" /\ \A t \in Thread \ {Kernel} : pc'[t] = pc[t]
  BY <1>1 DEF IInv, TypeOK
<1>4. Born' = Born /\ Named' = Named
  BY <1>1, <1>3 DEF Born, Named
<1>5. TTypeOK' /\ CountInv'
  BY <1>1, <1>2 DEF TInv, TTypeOK, CountInv, HoldsLck
<1>6. OnlyMain' /\ WaitInv'
  BY <1>1, <1>2, <1>3 DEF TInv, OnlyMain, WaitInv, CreateLabel, WaitLabel
<1>7. NameInv' /\ HandleInv'
  BY <1>1, <1>2, <1>3, <1>4 DEF TInv, NameInv, HandleInv, CreateLabel, WaitLabel
<1>8. WorkInv'
  BY <1>1, <1>3, <1>4 DEF TInv, WorkInv, Born
<1>9. QED
  BY <1>5, <1>6, <1>7, <1>8 DEF TInv

LEMMA CreatedIsNamed ==
  ASSUME IInv, TInv, MainCreated
  PROVE  TInv'
<1> USE ThreadsAssumption
<1>1. /\ UNCHANGED <<xmem, run, work, i, reg, lck, x>>
      /\ UNCHANGED <<pc, arg, handles, state>>
      /\ pc[Kernel] = "client"
  BY DEF MainCreated, vars, localVars, At, workVars
<1>2. handles[Kernel] \subseteq Born /\ Named \subseteq handles[Kernel]
  BY <1>1 DEF MainCreated, TInv, HandleInv
<1>3. \/ /\ at = "creating_printer" /\ at' = "create_adder"
         /\ printer' \in handles[Kernel] /\ adder' = adder
         /\ printer = NULL /\ adder = NULL
      \/ /\ at = "creating_adder" /\ at' = "wait_adder"
         /\ adder' \in handles[Kernel] \ {printer} /\ printer' = printer
         /\ printer # NULL /\ adder = NULL
  BY DEF MainCreated, TInv, NameInv
<1>4. Born' = Born /\ Born \subseteq Thread \ {Kernel}
  BY <1>1 DEF Born
<1>5. \E s \in handles[Kernel] \ Named :
        /\ Named' = Named \cup {s}
        /\ Born = Named' /\ handles[Kernel] = Named'
        /\ \/ at = "creating_printer" /\ printer' = s
           \/ at = "creating_adder" /\ adder' = s
  <2>1. PICK s \in handles[Kernel] \ Named :
          \/ at = "creating_printer" /\ printer' = s
          \/ at = "creating_adder" /\ adder' = s
    BY <1>2, <1>3, <1>4 DEF Named
  <2>2. Named' = Named \cup {s}
    BY <1>2, <1>3, <1>4, <2>1 DEF Named
  <2>3. \A u \in handles[Kernel] \ Named : u = s
    BY <1>1, <1>3, <2>1 DEF TInv, HandleInv
  <2>4. Born \ Named \subseteq handles[Kernel]
    BY <1>1 DEF TInv, NameInv
  <2>5. QED
    BY <1>2, <2>1, <2>2, <2>3, <2>4
<1>6. TTypeOK' /\ CountInv'
  BY <1>1, <1>3 DEF TInv, TTypeOK, CountInv, HoldsLck
<1>7. OnlyMain' /\ WaitInv'
  BY <1>1, <1>3 DEF TInv, OnlyMain, WaitInv, CreateLabel, WaitLabel
<1>8. NameInv'
  BY <1>1, <1>3, <1>4, <1>5 DEF TInv, NameInv
<1>9. HandleInv'
  BY <1>1, <1>3, <1>4, <1>5 DEF TInv, HandleInv, WaitLabel
<1>10. WorkInv'
  BY <1>1, <1>4 DEF TInv, WorkInv
<1>11. QED
  BY <1>6, <1>7, <1>8, <1>9, <1>10 DEF TInv

LEMMA WaitKeeps ==
  ASSUME IInv, TInv,
         MainWait("wait_adder", "waiting_adder", adder)
           \/ MainWait("waiting_adder", "waiting_printer", printer)
  PROVE  TInv'
<1> USE ThreadsAssumption
<1>1. /\ UNCHANGED <<printer, adder, xmem, run, work, i, reg, lck, x, state>>
      /\ pc[Kernel] = "client" /\ pc' = [pc EXCEPT ![Kernel] = "wait_spin"]
  BY DEF MainWait, CallWait, At, Goto, workVars
<1>2. \E s \in handles[Kernel] :
        /\ \/ at = "wait_adder" /\ at' = "waiting_adder" /\ s = adder
           \/ at = "waiting_adder" /\ at' = "waiting_printer" /\ s = printer
        /\ handles' = [handles EXCEPT ![Kernel] = @ \ {s}]
        /\ arg' = [arg EXCEPT ![Kernel] = s]
  BY DEF MainWait, CallWait
<1>3. /\ pc'[Kernel] = "wait_spin"
      /\ \A t \in Thread \ {Kernel} :
           pc'[t] = pc[t] /\ arg'[t] = arg[t] /\ handles'[t] = handles[t]
  BY <1>1, <1>2 DEF IInv, TypeOK
<1>4. Born' = Born /\ Named' = Named
  BY <1>1, <1>3 DEF Born, Named
<1>5. TTypeOK' /\ CountInv'
  BY <1>1, <1>2 DEF TInv, TTypeOK, CountInv, HoldsLck
<1>6. OnlyMain'
  BY <1>1, <1>2, <1>3 DEF TInv, OnlyMain, CreateLabel, WaitLabel
<1>7. WaitInv'
  BY <1>1, <1>2, <1>3 DEF TInv, WaitInv
<1>8. printer # adder /\ printer # NULL /\ adder # NULL
  BY <1>2 DEF TInv, NameInv
<1>9. NameInv'
  BY <1>1, <1>2, <1>3, <1>4 DEF TInv, NameInv
<1>10. HandleInv'
  <2>1. handles'[Kernel] = handles[Kernel] \ {arg'[Kernel]}
    BY <1>2 DEF IInv, TypeOK
  <2>2. arg'[Kernel] = IF at' = "waiting_adder" THEN adder ELSE printer
    BY <1>2 DEF IInv, TypeOK
  <2>3. handles'[Kernel] = IF at' = "waiting_adder" THEN {printer} ELSE {}
    BY <1>2, <1>8, <2>1, <2>2 DEF TInv, HandleInv, Named
  <2>4. QED
    BY <1>1, <1>2, <1>3, <1>4, <1>8, <2>2, <2>3 DEF TInv, NameInv, HandleInv, WaitLabel, Named
<1>11. WorkInv'
  BY <1>1, <1>3, <1>4 DEF TInv, WorkInv, Born
<1>12. QED
  BY <1>5, <1>6, <1>7, <1>9, <1>10, <1>11 DEF TInv

LEMMA FreeXKeeps ==
  ASSUME IInv, TInv, MainFreeX
  PROVE  TInv'
<1> USE ThreadsAssumption
<1>1. /\ UNCHANGED <<printer, adder, run, work, i, reg, lck, x>>
      /\ UNCHANGED <<pc, arg, handles, state>>
      /\ pc[Kernel] = "client" /\ at = "waiting_printer" /\ at' = "end" /\ xmem' = FALSE
  BY DEF MainFreeX, vars, localVars, At, workVars
<1>2. Born' = Born /\ Named' = Named
  BY <1>1 DEF Born, Named
<1>3. TTypeOK' /\ CountInv'
  BY <1>1 DEF TInv, TTypeOK, CountInv, HoldsLck
<1>4. OnlyMain' /\ WaitInv'
  BY <1>1 DEF TInv, OnlyMain, WaitInv, CreateLabel, WaitLabel
<1>5. NameInv' /\ HandleInv'
  BY <1>1, <1>2 DEF TInv, NameInv, HandleInv, CreateLabel, WaitLabel
<1>6. WorkInv'
  BY <1>1, <1>2 DEF TInv, WorkInv
<1>7. QED
  BY <1>3, <1>4, <1>5, <1>6 DEF TInv

-----------------------------------------------------------------------------
LEMMA TInitHolds == TInit => IInv /\ TInv
<1> SUFFICES ASSUME TInit
             PROVE  IInv /\ TInv
  OBVIOUS
<1> USE ThreadsAssumption, TestAssumption DEF TInit
<1>1. Born = {} /\ Named = {}
  BY DEF Born, Named, Init
<1>2. TTypeOK
  <2>1. i \in [Thread -> 0 .. Rounds] /\ reg \in [Thread -> Nat]
    OBVIOUS
  <2>2. run \in [Thread -> {"main", "print", "add"}]
        /\ work \in [Thread -> {"none", "loop", "read", "write", "unlock", "done"}]
    OBVIOUS
  <2>3. xmem \in BOOLEAN /\ (xmem <=> at \notin {"alloc_x", "end"})
    OBVIOUS
  <2>4. QED
    BY <2>1, <2>2, <2>3 DEF TTypeOK
<1>3. OnlyMain /\ WaitInv
  BY DEF OnlyMain, WaitInv, Init, CreateLabel, WaitLabel
<1>4. NameInv /\ HandleInv
  BY <1>1 DEF NameInv, HandleInv, Init, CreateLabel, WaitLabel
<1>5. WorkInv /\ CountInv
  BY <1>1 DEF WorkInv, CountInv, HoldsLck
<1>6. QED
  BY <1>2, <1>3, <1>4, <1>5, InitHolds DEF TInv

LEMMA TStepHolds == IInv /\ TInv /\ [TNext]_allVars => IInv' /\ TInv'
<1> SUFFICES ASSUME IInv, TInv, [TNext]_allVars
             PROVE  IInv' /\ TInv'
  OBVIOUS
<1>1. IInv'
  BY ProgramIsClient, StepHolds DEF allVars
<1>2. CASE KernelStep
  BY <1>1, <1>2, KernelKeeps
<1>3. CASE Main
  BY <1>1, <1>3, AllocXKeeps, CreateKeeps, CreatedIsNamed, WaitKeeps, FreeXKeeps DEF Main
<1>4. ASSUME NEW t \in Thread, Worker(t)
      PROVE  TInv'
  BY <1>4, TakeLckKeeps, ReadXKeeps, WriteXKeeps, DropLckKeeps, ReturnKeeps DEF Worker
<1>5. CASE UNCHANGED allVars
  <2>1. UNCHANGED <<mainVars, run, work, i, reg, lck, x>>
    BY <1>5 DEF allVars, testVars, workVars
  <2>2. UNCHANGED <<pc, arg, handles, state>>
    BY <1>5 DEF allVars, vars, localVars
  <2>3. TTypeOK' /\ CountInv'
    BY <2>1, ProgramKept
  <2>4. OnlyMain' /\ NameInv' /\ HandleInv' /\ WaitInv' /\ Born' = Born
    BY <2>1, <2>2, MainKept
  <2>5. WorkInv'
    BY <2>1, <2>2, <2>4 DEF TInv, WorkInv
  <2>6. QED
    BY <1>1, <2>3, <2>4, <2>5 DEF TInv
<1>6. QED
  BY <1>1, <1>2, <1>3, <1>4, <1>5 DEF TNext

LEMMA TInvariance == TSpec => [](IInv /\ TInv)
  BY TInitHolds, TStepHolds, PTL DEF TSpec

-----------------------------------------------------------------------------
(* thread.c, main.c:231-251 - what the scheduler promises to arbitrary     *)
(* clients holds while the test program runs, whose steps are some of      *)
(* theirs, and also when its mem_alloc of x fails.                         *)
THEOREM KernelHolds == TSpec => [](WholeRing /\ OwnContext /\ DeadIsOut /\ NoBug)
<1>1. IInv => WholeRing /\ OwnContext /\ DeadIsOut /\ NoBug
  BY LinksMatch
  DEF IInv, WholeRing, OwnContext, CpuInv, CurrentIsHead, StateInv, DeadIsOut, NoBug
<1>2. QED
  BY <1>1, TInvariance, PTL

(* A thread that is DEAD has come to the end of its run function.          *)
LEMMA DeadIsDone ==
  ASSUME IInv, TInv, NEW t \in Born, state[t] = "DEAD"
  PROVE  work[t] = "done" /\ i[t] = Rounds /\ t \notin Ring
<1>1. t \in Thread /\ t \notin Ring
  BY DEF IInv, StateInv, Born
<1>2. pc[t] \in {"kill_resume", "kill_cli"}
  BY <1>1 DEF IInv, PcInv, Idle, Born
<1>3. QED
  BY <1>1, <1>2 DEF TInv, WorkInv, Born

(* main.c:184-186, 247 - the printer prints what x is until it gives lck   *)
(* back, and when thread_wait(adder) has returned, x is 100: whatever the  *)
(* rounds and wherever the ticks come.                                     *)
THEOREM ReadersAreCurrent == TSpec => []ReadersSeeX
<1>1. ASSUME IInv, TInv, at \in {"waiting_printer", "end"}
      PROVE  x = Rounds
  <2>1. adder \in Born /\ run[adder] = "add" /\ state[adder] = "DEAD"
    BY <1>1 DEF TInv, NameInv, WaitInv
  <2>2. work[adder] = "done" /\ i[adder] = Rounds
    BY <1>1, <2>1, DeadIsDone
  <2>3. x = i[adder] + 0
    BY <1>1, <2>1, <2>2 DEF TInv, CountInv, Born
  <2>4. QED
    BY <2>2, <2>3, TestAssumption
<1>2. IInv /\ TInv => ReadersSeeX
  BY <1>1 DEF TInv, CountInv, ReadersSeeX
<1>3. QED
  BY <1>2, TInvariance, PTL

(* main.c:247-250 - x is allocated while a thread of the ring may use it:  *)
(* both have died before main() frees it.                                  *)
THEOREM XIsFreedLast == TSpec => []XOutlivesItsUsers
<1>1. ASSUME IInv, TInv, NEW t \in Thread, t \in Ring,
             work[t] \in {"loop", "read", "write", "unlock"}
      PROVE  xmem
  <2>1. t \in Born
    BY <1>1 DEF TInv, WorkInv
  <2>2. at # "alloc_x"
    BY <2>1, <1>1 DEF TInv, NameInv, Named
  <2>3. at # "end"
    <3> SUFFICES ASSUME at = "end"
                 PROVE  FALSE
      OBVIOUS
    <3>1. t \in {printer, adder} /\ state[t] = "DEAD"
      BY <1>1, <2>1 DEF TInv, NameInv, WaitInv, Named
    <3>2. QED
      BY <1>1, <2>1, <3>1, DeadIsDone
  <2>4. QED
    BY <1>1, <2>2, <2>3 DEF TInv, TTypeOK
<1>2. IInv /\ TInv => XOutlivesItsUsers
  BY <1>1 DEF XOutlivesItsUsers
<1>3. QED
  BY <1>2, TInvariance, PTL

=============================================================================
