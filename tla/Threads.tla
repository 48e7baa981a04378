-------------------------------- MODULE Threads --------------------------------
(***************************************************************************)
(* The kernel's threads: thread.c, switch_threads.S, the timer interrupt   *)
(* (time.c, ints.c, entry.S) and its acknowledgement to the interrupt      *)
(* controller (i8259a.c), on the one CPU the kernel runs on.               *)
(*                                                                         *)
(* Threads are linked in a ring by the pointers next and prev of their     *)
(* list heads; threads_head points at the thread that runs.  The timer     *)
(* interrupt moves threads_head one place round the ring.  Whatever runs   *)
(* with interrupts enabled is interleaved with that at every step; what    *)
(* runs with interrupts disabled is one step.                              *)
(*                                                                         *)
(* Clients are arbitrary: a running thread may create threads, wait once   *)
(* for each thread it created, and return from its run function.           *)
(* ThreadTest.tla replaces them by the program of main.c.                  *)
(***************************************************************************)
EXTENDS Naturals, FiniteSets

CONSTANTS
  Thread,      \* addresses at which a thread_t can be allocated
  Kernel,      \* the thread_t of the boot thread
  NULL,        \* the null pointer
  MaxNest      \* bound: how deep timer interrupts nest on one stack

ASSUME ThreadsAssumption ==
  /\ Kernel \in Thread
  /\ NULL \notin Thread
  /\ MaxNest \in Nat \ {0}

VARIABLES
  \* the CPU, the timer and the interrupt controller
  machine,       \* "up", stopped in BUG() or in a fault, or running "wild"
  cpu,           \* the thread whose stack the CPU is on
  ints,          \* the interrupt flag
  irr,           \* the timer's request waits in the controller
  isr,           \* the timer's interrupt is in service, not acknowledged
  \* thread.c
  threads_head, all_proc_ended, threads_lock,
  \* the fields of each thread_t
  next, prev,    \* ll
  state,
  frame,         \* what stack points to: the thread whose saved registers
                 \* are there, NULL when there are none
  mem,           \* is the thread_t itself allocated?
  stk,           \* is the stack at stack_end allocated?
  \* where the code of each thread is
  pc,            \* in the client, thread_create, thread_kill, thread_wait
  arg,           \* the new thread of thread_create, the argument of thread_wait
  lprev, lnext,  \* the arguments of list_insert
  handler,       \* the innermost activation of the interrupt handler
  depth,         \* how many activations are on the stack
  handles        \* threads it created and has not waited for

machineVars == <<machine, cpu, ints, irr, isr>>
ringVars    == <<threads_head, all_proc_ended, next, prev>>
memVars     == <<mem, stk, frame>>
localVars   == <<arg, lprev, lnext, handles>>
irqVars     == <<handler, depth>>

vars == <<machineVars, ringVars, memVars, localVars, irqVars,
          threads_lock, state, pc>>

-----------------------------------------------------------------------------
(* main() has run thread_setup(): the ring is the boot thread alone.  The  *)
(* next thing it does is to enable interrupts for the first time.          *)
Init ==
  /\ machine = "up" /\ cpu = Kernel
  /\ ints = FALSE /\ irr \in BOOLEAN /\ isr = FALSE
  /\ threads_head = Kernel /\ all_proc_ended = FALSE
  /\ threads_lock = "UNLOCKED"
  /\ next = [t \in Thread |-> IF t = Kernel THEN Kernel ELSE NULL]
  /\ prev = [t \in Thread |-> IF t = Kernel THEN Kernel ELSE NULL]
  /\ state = [t \in Thread |-> IF t = Kernel THEN "RUNNING" ELSE "DEAD"]
  /\ frame = [t \in Thread |-> NULL]
  /\ mem = [t \in Thread |-> t = Kernel]
  /\ stk = [t \in Thread |-> FALSE]
  /\ pc = [t \in Thread |-> IF t = Kernel THEN "boot" ELSE "none"]
  /\ arg = [t \in Thread |-> NULL]
  /\ lprev = [t \in Thread |-> NULL]
  /\ lnext = [t \in Thread |-> NULL]
  /\ handler = [t \in Thread |-> "none"]
  /\ depth = [t \in Thread |-> 0]
  /\ handles = [t \in Thread |-> {}]

(* The CPU executes the code of t, and not an interrupt handler above it.  *)
At(t, label) ==
  /\ machine = "up"
  /\ cpu = t
  /\ handler[t] = "none"
  /\ pc[t] = label

Goto(t, label) == pc' = [pc EXCEPT ![t] = label]

-----------------------------------------------------------------------------
(* The timer and the interrupt path.                                       *)

(* The timer is programmed once and never stops; the controller remembers  *)
(* one request.                                                            *)
Tick ==
  /\ irr' = TRUE
  /\ UNCHANGED <<machine, cpu, ints, isr, ringVars, memVars, localVars,
                 irqVars, threads_lock, state, pc>>

(* The CPU takes the interrupt between two instructions of t.  The gate is *)
(* an interrupt gate: it clears the interrupt flag.                        *)
Interrupt(t) ==
  /\ machine = "up" /\ cpu = t
  /\ ints /\ irr /\ ~isr
  /\ depth[t] < MaxNest
  /\ ints' = FALSE /\ irr' = FALSE /\ isr' = TRUE
  /\ depth' = [depth EXCEPT ![t] = @ + 1]
  /\ handler' = [handler EXCEPT ![t] = "ack"]
  /\ UNCHANGED <<machine, cpu, ringVars, memVars, localVars,
                 threads_lock, state, pc>>

(* Mutant of Acknowledge: the handler is called without it.                *)
AcknowledgeNot(t) ==
  /\ machine = "up" /\ cpu = t /\ handler[t] = "ack"
  /\ handler' = [handler EXCEPT ![t] = "switch"]
  /\ UNCHANGED <<machine, cpu, ints, irr, isr, ringVars, memVars, localVars, depth,
                 threads_lock, state, pc>>

(* call_irq_handler() acknowledges the interrupt before it calls the       *)
(* handler, and pit_handler() calls switch_threads().                      *)
Acknowledge(t) ==
  /\ machine = "up" /\ cpu = t /\ handler[t] = "ack"
  /\ isr' = FALSE
  /\ handler' = [handler EXCEPT ![t] = "switch"]
  /\ UNCHANGED <<machine, cpu, ints, irr, ringVars, memVars, localVars, depth,
                 threads_lock, state, pc>>

(* iretq: the interrupted code goes on, with interrupts enabled as they    *)
(* were when it was interrupted.                                           *)
IRet(t) ==
  /\ machine = "up" /\ cpu = t /\ handler[t] = "exit"
  /\ ints' = TRUE
  /\ depth' = [depth EXCEPT ![t] = @ - 1]
  /\ handler' = [handler EXCEPT ![t] = IF depth[t] = 1 THEN "none" ELSE "exit"]
  /\ UNCHANGED <<machine, cpu, irr, isr, ringVars, memVars, localVars,
                 threads_lock, state, pc>>

-----------------------------------------------------------------------------
(* switch_threads(), called by the interrupt handler or by thread_kill().  *)

CallsSwitch(t) ==
  \/ machine = "up" /\ cpu = t /\ handler[t] = "switch"
  \/ At(t, "kill_switch")

(* The caller goes on where it called from: the handler at inHandler or    *)
(* thread_kill() at inKill.                                                *)
CallerAt(t, inHandler, inKill) ==
  IF handler[t] = "switch" \/ handler[t] = "resume"
    THEN handler' = [handler EXCEPT ![t] = inHandler] /\ UNCHANGED pc
    ELSE Goto(t, inKill) /\ UNCHANGED handler

(* Nothing to switch to: no ring, or a ring of one.  Interrupts are        *)
(* enabled although the interrupt handler has not returned yet.            *)
SwitchReturns(t) ==
  /\ CallsSwitch(t)
  /\ all_proc_ended \/ threads_head = NULL \/ next[threads_head] = threads_head
  /\ all_proc_ended' = (all_proc_ended \/ threads_head = NULL)
  /\ ints' = TRUE
  /\ CallerAt(t, "exit", "zombie")
  /\ UNCHANGED <<machine, cpu, irr, isr, threads_head, next, prev, memVars,
                 localVars, depth, threads_lock, state>>

(* list_del(): the neighbours are joined, the pointers of th cleared.      *)
ListDel(th) ==
  /\ next' = [next EXCEPT ![prev[th]] = next[th], ![th] = NULL]
  /\ prev' = [prev EXCEPT ![next[th]] = prev[th], ![th] = NULL]

(* Mutant of ThreadDel: threads_head is taken for the thread to delete,    *)
(* after it was moved.                                                     *)
ThreadDelHead(th, head) ==
  /\ threads_head' = head
  /\ ListDel(head)
  /\ UNCHANGED all_proc_ended

(* thread_del(th) when threads_head is head.  The last thread stays.       *)
ThreadDel(th, head) ==
  LET newHead == IF head = th THEN next[th] ELSE head IN
  /\ threads_head' = newHead
  /\ IF newHead = th
       THEN all_proc_ended' = TRUE /\ UNCHANGED <<next, prev>>
       ELSE ListDel(th) /\ UNCHANGED all_proc_ended

(* Mutant of SaveRegisters: curr is read after threads_head was moved.     *)
SaveRegistersLate(th) == frame' = [frame EXCEPT ![next[th]] = cpu]

(* switch_threads_s stores the stack pointer of the CPU in *curr.          *)
SaveRegisters(th) == frame' = [frame EXCEPT ![th] = cpu]

(* threads_head moves to the next thread; a dying thread leaves the ring   *)
(* and becomes DEAD; switch_threads_s saves the registers on the stack of  *)
(* the running thread, stores the stack pointer in the thread that was     *)
(* threads_head, and restores those of the next one.  A stack without      *)
(* saved registers sends the CPU anywhere.                                 *)
Switch(t) ==
  LET curr == threads_head
      nxt  == next[curr]
  IN
  /\ CallsSwitch(t)
  /\ ~all_proc_ended /\ curr # NULL /\ nxt # curr
  /\ ints' = FALSE
  /\ IF state[curr] = "DEAD" \/ nxt = NULL \/ state[nxt] = "DEAD"
       THEN /\ machine' = "bug"
            /\ threads_head' = nxt
            /\ UNCHANGED <<cpu, all_proc_ended, next, prev, frame, state,
                           handler, pc>>
       ELSE /\ IF state[curr] = "DYING"
                 THEN /\ ThreadDel(curr, nxt)
                      /\ state' = [state EXCEPT ![curr] = "DEAD"]
                 ELSE /\ threads_head' = nxt
                      /\ UNCHANGED <<all_proc_ended, next, prev, state>>
            /\ CallerAt(t, "resume", "kill_resume")
            /\ SaveRegisters(curr)
            /\ cpu' = IF frame[nxt] = NULL THEN nxt ELSE frame[nxt]
            /\ machine' = IF frame[nxt] = NULL THEN "wild" ELSE "up"
  /\ UNCHANGED <<irr, isr, mem, stk, localVars, depth, threads_lock>>

(* switch_threads_s has come back to the stack of t: switch_threads()      *)
(* enables interrupts and returns.                                         *)
Resume(t) ==
  /\ \/ machine = "up" /\ cpu = t /\ handler[t] = "resume"
     \/ At(t, "kill_resume")
  /\ ints' = TRUE
  /\ CallerAt(t, "exit", "zombie")
  /\ UNCHANGED <<machine, cpu, irr, isr, ringVars, memVars, localVars, depth,
                 threads_lock, state>>

-----------------------------------------------------------------------------
(* The code of a thread.  Quiet holds of its steps that leave the CPU's    *)
(* interrupt state and the handler activations alone.                      *)
Quiet == UNCHANGED <<cpu, irr, isr, irqVars>>

(* main() enables interrupts; a new thread does so in thread_wrapper(),    *)
(* reached through initial_thread_setup.                                   *)
EnableInts(t) ==
  /\ At(t, "boot") \/ At(t, "start")
  /\ ints' = TRUE
  /\ Goto(t, "client")
  /\ Quiet
  /\ UNCHANGED <<machine, ringVars, memVars, localVars, threads_lock, state>>

(* Mutant of LockThreads: the lock does not keep anybody out.              *)
LockThreadsAnyway(t) ==
  /\ At(t, "create_lock") \/ At(t, "kill_lock")
  /\ threads_lock' = "LOCKED"
  /\ Goto(t, IF pc[t] = "create_lock" THEN "create_alloc" ELSE "kill_mark")
  /\ Quiet
  /\ UNCHANGED <<machine, ints, ringVars, memVars, localVars, state>>

(* lock(&threads_lock) in thread_create() and thread_kill(); Spinlock.tla  *)
(* justifies the single step.  A thread that finds it taken spins.         *)
LockThreads(t) ==
  /\ At(t, "create_lock") \/ At(t, "kill_lock")
  /\ threads_lock = "UNLOCKED"
  /\ threads_lock' = "LOCKED"
  /\ Goto(t, IF pc[t] = "create_lock" THEN "create_alloc" ELSE "kill_mark")
  /\ Quiet
  /\ UNCHANGED <<machine, ints, ringVars, memVars, localVars, state>>

(* thread_create(): the call.                                              *)
CallCreate(t) ==
  /\ At(t, "client")
  /\ Goto(t, "create_lock")
  /\ Quiet
  /\ UNCHANGED <<machine, ints, ringVars, memVars, localVars, threads_lock, state>>

(* new_thread_init(): mem_alloc() of the thread_t.  The result is not      *)
(* tested: the next store through a null pointer faults, and the fault     *)
(* handler loops with interrupts disabled.                                 *)
AllocThread(t) ==
  /\ At(t, "create_alloc")
  /\ \/ \E s \in Thread :
          /\ ~mem[s]
          /\ mem' = [mem EXCEPT ![s] = TRUE]
          /\ arg' = [arg EXCEPT ![t] = s]
     \/ UNCHANGED <<mem, arg>>
  /\ Goto(t, "create_stack")
  /\ Quiet
  /\ UNCHANGED <<machine, ints, ringVars, stk, frame, lprev, lnext, handles,
                 threads_lock, state>>

(* new_thread_init(): mem_alloc() of the stack, which can fail unnoticed,  *)
(* then the fields of the thread_t.  stack points at the top of the stack, *)
(* where no registers are saved yet.                                       *)
AllocStack(t) ==
  /\ At(t, "create_stack")
  /\ IF arg[t] = NULL
       THEN machine' = "fault" /\ ints' = FALSE /\ UNCHANGED <<stk, frame, state, pc>>
       ELSE /\ \E ok \in BOOLEAN : stk' = [stk EXCEPT ![arg[t]] = ok]
            /\ frame' = [frame EXCEPT ![arg[t]] = NULL]
            /\ state' = [state EXCEPT ![arg[t]] = "RUNNING"]
            /\ Goto(t, "create_read")
            /\ UNCHANGED <<machine, ints>>
  /\ Quiet
  /\ UNCHANGED <<ringVars, mem, localVars, threads_lock>>

(* Mutant of InsertRead: list_add() in the place of list_add_tail().       *)
InsertReadFirst(t) ==
  /\ At(t, "create_read")
  /\ lprev' = [lprev EXCEPT ![t] = threads_head]
  /\ lnext' = [lnext EXCEPT ![t] = next[threads_head]]
  /\ Goto(t, "create_link")
  /\ Quiet
  /\ UNCHANGED <<machine, ints, ringVars, memVars, arg, handles,
                 threads_lock, state>>

(* thread_add() of a ring that is not empty (thread_setup() put the boot   *)
(* thread there): list_add_tail() reads threads_head and its prev pointer, *)
(* list_insert() then stores four pointers.  The two of the new thread are *)
(* seen by nobody before the third, the forward link, is stored.           *)
InsertRead(t) ==
  /\ At(t, "create_read")
  /\ lprev' = [lprev EXCEPT ![t] = prev[threads_head]]
  /\ lnext' = [lnext EXCEPT ![t] = threads_head]
  /\ Goto(t, "create_link")
  /\ Quiet
  /\ UNCHANGED <<machine, ints, ringVars, memVars, arg, handles,
                 threads_lock, state>>

InsertForward(t) ==
  /\ At(t, "create_link")
  /\ next' = [next EXCEPT ![arg[t]] = lnext[t], ![lprev[t]] = arg[t]]
  /\ prev' = [prev EXCEPT ![arg[t]] = lprev[t]]
  /\ Goto(t, "create_back")
  /\ Quiet
  /\ UNCHANGED <<machine, ints, threads_head, all_proc_ended, memVars,
                 localVars, threads_lock, state>>

InsertBackward(t) ==
  /\ At(t, "create_back")
  /\ prev' = [prev EXCEPT ![lnext[t]] = arg[t]]
  /\ lprev' = [lprev EXCEPT ![t] = NULL]
  /\ lnext' = [lnext EXCEPT ![t] = NULL]
  /\ Goto(t, "create_frame")
  /\ Quiet
  /\ UNCHANGED <<machine, ints, threads_head, all_proc_ended, next, memVars,
                 arg, handles, threads_lock, state>>

(* thread_create(): the first frame of the new thread, which makes the     *)
(* first switch to it return into initial_thread_setup.  Without a stack   *)
(* the stores fault.  (The name given to the thread is left out.)          *)
LayFrame(t) ==
  /\ At(t, "create_frame")
  /\ IF stk[arg[t]]
       THEN /\ frame' = [frame EXCEPT ![arg[t]] = arg[t]]
            /\ pc' = [pc EXCEPT ![t] = "create_unlock", ![arg[t]] = "start"]
            /\ UNCHANGED <<machine, ints>>
       ELSE machine' = "fault" /\ ints' = FALSE /\ UNCHANGED <<frame, pc>>
  /\ Quiet
  /\ UNCHANGED <<ringVars, mem, stk, localVars, threads_lock, state>>

UnlockCreate(t) ==
  /\ At(t, "create_unlock")
  /\ threads_lock' = "UNLOCKED"
  /\ handles' = [handles EXCEPT ![t] = @ \cup {arg[t]}]
  /\ arg' = [arg EXCEPT ![t] = NULL]
  /\ Goto(t, "client")
  /\ Quiet
  /\ UNCHANGED <<machine, ints, ringVars, memVars, lprev, lnext, state>>

-----------------------------------------------------------------------------
(* thread_kill(), called by thread_wrapper() when the run function of a    *)
(* created thread returns.  What it created and did not wait for is        *)
(* nobody's any more.                                                      *)
CallKill(t) ==
  /\ At(t, "client") /\ t # Kernel
  /\ handles' = [handles EXCEPT ![t] = {}]
  /\ Goto(t, "kill_lock")
  /\ Quiet
  /\ UNCHANGED <<machine, ints, ringVars, memVars, arg, lprev, lnext,
                 threads_lock, state>>

(* Mutant of KillMark: the mark goes to the next thread.                   *)
KillMarkNext(t) ==
  /\ At(t, "kill_mark")
  /\ state' = [state EXCEPT ![next[threads_head]] = "DYING"]
  /\ Goto(t, "kill_cli")
  /\ Quiet
  /\ UNCHANGED <<machine, ints, ringVars, memVars, localVars, threads_lock>>

KillMark(t) ==
  /\ At(t, "kill_mark")
  /\ state' = [state EXCEPT ![threads_head] = "DYING"]
  /\ Goto(t, "kill_cli")
  /\ Quiet
  /\ UNCHANGED <<machine, ints, ringVars, memVars, localVars, threads_lock>>

KillDisableInts(t) ==
  /\ At(t, "kill_cli")
  /\ ints' = FALSE
  /\ Goto(t, "kill_unlock")
  /\ Quiet
  /\ UNCHANGED <<machine, ringVars, memVars, localVars, threads_lock, state>>

KillUnlock(t) ==
  /\ At(t, "kill_unlock")
  /\ threads_lock' = "UNLOCKED"
  /\ Goto(t, "kill_switch")
  /\ Quiet
  /\ UNCHANGED <<machine, ints, ringVars, memVars, localVars, state>>

-----------------------------------------------------------------------------
(* thread_wait(s), called once for each thread created.                    *)
CallWait(t, s) ==
  /\ At(t, "client") /\ s \in handles[t]
  /\ handles' = [handles EXCEPT ![t] = @ \ {s}]
  /\ arg' = [arg EXCEPT ![t] = s]
  /\ Goto(t, "wait_spin")
  /\ Quiet
  /\ UNCHANGED <<machine, ints, ringVars, memVars, lprev, lnext,
                 threads_lock, state>>

(* Mutant of Finished: thread_wait() does not wait.                        *)
FinishedAlways(th) == TRUE

(* The condition that ends the loop in thread_wait().                      *)
Finished(th) == state[th] = "DEAD"

(* The loop is left; a dead thread that is threads_head would be a BUG.    *)
WaitDead(t) ==
  /\ At(t, "wait_spin")
  /\ Finished(arg[t])
  /\ IF threads_head = arg[t]
       THEN machine' = "bug" /\ ints' = FALSE /\ UNCHANGED pc
       ELSE Goto(t, "wait_stack") /\ UNCHANGED <<machine, ints>>
  /\ Quiet
  /\ UNCHANGED <<ringVars, memVars, localVars, threads_lock, state>>

WaitFreeStack(t) ==
  /\ At(t, "wait_stack")
  /\ stk' = [stk EXCEPT ![arg[t]] = FALSE]
  /\ Goto(t, "wait_thread")
  /\ Quiet
  /\ UNCHANGED <<machine, ints, ringVars, mem, frame, localVars,
                 threads_lock, state>>

WaitFreeThread(t) ==
  /\ At(t, "wait_thread")
  /\ mem' = [mem EXCEPT ![arg[t]] = FALSE]
  /\ arg' = [arg EXCEPT ![t] = NULL]
  /\ Goto(t, "client")
  /\ Quiet
  /\ UNCHANGED <<machine, ints, ringVars, stk, frame, lprev, lnext, handles,
                 threads_lock, state>>

-----------------------------------------------------------------------------
(* The client's choices, and everything that happens without it.           *)
Client(t) ==
  \/ CallCreate(t)
  \/ CallKill(t)
  \/ \E s \in Thread : CallWait(t, s)

CpuStep(t) ==
  \/ Acknowledge(t) \/ IRet(t)
  \/ SwitchReturns(t) \/ Switch(t) \/ Resume(t)
  \/ EnableInts(t) \/ LockThreads(t)
  \/ AllocThread(t) \/ AllocStack(t)
  \/ InsertRead(t) \/ InsertForward(t) \/ InsertBackward(t)
  \/ LayFrame(t) \/ UnlockCreate(t)
  \/ KillMark(t) \/ KillDisableInts(t) \/ KillUnlock(t)
  \/ WaitDead(t) \/ WaitFreeStack(t) \/ WaitFreeThread(t)

KernelNext ==
  \/ Tick
  \/ \E t \in Thread : Interrupt(t) \/ CpuStep(t)

Next == KernelNext \/ \E t \in Thread : Client(t)

Spec == Init /\ [][Next]_vars

(* The timer runs for ever and the CPU takes its interrupt.  A time slice  *)
(* is longer than a step of the handler, and than a step of the code it    *)
(* interrupts: a thread that is given the CPU again and again while its    *)
(* next step is possible does take it.  Clients need not do anything.      *)
Fairness ==
  /\ WF_vars(Tick)
  /\ \A t \in Thread :
       /\ WF_vars(Interrupt(t))
       /\ SF_vars(handler[t] # "none" /\ CpuStep(t))
       /\ SF_vars(handler[t] = "none" /\ CpuStep(t))

-----------------------------------------------------------------------------
Label ==
  {"none", "boot", "start", "client", "zombie",
   "create_lock", "create_alloc", "create_stack", "create_read",
   "create_link", "create_back", "create_frame", "create_unlock",
   "kill_lock", "kill_mark", "kill_cli", "kill_unlock", "kill_switch",
   "kill_resume", "wait_spin", "wait_stack", "wait_thread"}

TypeOK ==
  /\ machine \in {"up", "bug", "fault", "wild"}
  /\ cpu \in Thread
  /\ ints \in BOOLEAN /\ irr \in BOOLEAN /\ isr \in BOOLEAN
  /\ threads_head \in Thread /\ all_proc_ended \in BOOLEAN
  /\ threads_lock \in {"LOCKED", "UNLOCKED"}
  /\ next \in [Thread -> Thread \cup {NULL}]
  /\ prev \in [Thread -> Thread \cup {NULL}]
  /\ state \in [Thread -> {"RUNNING", "DYING", "DEAD"}]
  /\ frame \in [Thread -> Thread \cup {NULL}]
  /\ mem \in [Thread -> BOOLEAN] /\ stk \in [Thread -> BOOLEAN]
  /\ pc \in [Thread -> Label]
  /\ arg \in [Thread -> Thread \cup {NULL}]
  /\ lprev \in [Thread -> Thread \cup {NULL}]
  /\ lnext \in [Thread -> Thread \cup {NULL}]
  /\ handler \in [Thread -> {"none", "ack", "switch", "resume", "exit"}]
  /\ depth \in [Thread -> Nat]
  /\ handles \in [Thread -> SUBSET Thread]

-----------------------------------------------------------------------------
(* The threads the ring links: list_del() clears the pointers of the       *)
(* thread it takes out.                                                    *)
Ring == {t \in Thread : next[t] # NULL}

(* u has linked its new thread forwards and not yet backwards.             *)
HalfLinked(u) == pc[u] = "create_back"

(* t holds threads_lock: it is inside the critical section of              *)
(* thread_create() or of thread_kill().                                    *)
Holds(t) ==
  pc[t] \in {"create_alloc", "create_stack", "create_read", "create_link",
             "create_back", "create_frame", "create_unlock",
             "kill_mark", "kill_cli", "kill_unlock"}

(* The new thread is in the ring and has no first frame yet.               *)
Unframed(t) ==
  \E u \in Thread : pc[u] \in {"create_back", "create_frame"} /\ arg[u] = t

(* thread.c:118-134, list.c:6-25 - prev is the inverse of next all round   *)
(* the ring, whatever is switched, inserted and deleted in between; only   *)
(* the thread that is being inserted is ahead of its back pointer.         *)
RingLinked ==
  \A t \in Ring :
    /\ next[t] \in Ring /\ prev[t] \in Ring
    /\ \/ prev[next[t]] = t
       \/ \E u \in Thread :
            /\ HalfLinked(u) /\ arg[u] = t
            /\ next[t] = lnext[u] /\ prev[next[t]] = lprev[u]

(* thread.c:183-185 - the ring is one ring: a set of threads that is left  *)
(* by no next pointer is the whole ring.  No thread can be cut off and     *)
(* never be scheduled again, and a ring of one has no other thread in it.  *)
OneRing ==
  \A S \in SUBSET Ring :
    S # {} /\ (\A t \in S : next[t] \in S) => S = Ring

(* thread.c:118-134,183-224 - at every step, also in the middle of an      *)
(* insertion, the threads in the ring are linked both ways and nobody is   *)
(* cut off from the rotation.                                              *)
WholeRing == RingLinked /\ OneRing

(* thread.c:32,142,183 - the code takes threads_head for the thread that   *)
(* executes it: to link a new thread, to mark the dying one, to save the   *)
(* registers.  It always is.                                               *)
CurrentIsHead == threads_head = cpu

(* switch_threads.S:32-33, thread.c:91-95 - the stack pointer kept in a    *)
(* thread_t is that of the thread itself: no switch saves registers into   *)
(* another thread's descriptor or restores another thread's.               *)
OwnRegisters ==
  \A t \in Ring \ {cpu} : frame[t] = t \/ (frame[t] = NULL /\ Unframed(t))

(* thread.c:32,142,183-224 - the code that runs is the thread it takes     *)
(* itself for, and every other thread will go on from its own registers.   *)
OwnContext == CurrentIsHead /\ OwnRegisters

(* thread.c:161-163 - what the scheduler can reach is allocated: every     *)
(* thread_t in the ring, and every stack that has registers on it.         *)
(* thread_wait() frees nothing under a thread that may still run.          *)
NothingFreedInUse ==
  \A t \in Ring :
    /\ mem[t]
    /\ t \in {Kernel, cpu} \/ frame[t] = NULL \/ stk[t]
    /\ machine = "up" /\ t = cpu => t = Kernel \/ stk[t]

(* thread.c:118-134,211-216 - a thread is DEAD exactly from the moment it  *)
(* left the ring; before, it is RUNNING or on its way out.                 *)
DeadIsOut ==
  \A t \in Thread :
    /\ t \in Ring => state[t] # "DEAD"
    /\ state[t] = "DYING" => t \in Ring

(* thread.c:87,114,140,145 - one thread at a time is between the lock and  *)
(* the unlock of threads_lock, so no thread can be marked for deletion     *)
(* while another is linking a new one next to it.                          *)
CreateKillExclusion ==
  /\ threads_lock = "LOCKED" <=> \E t \in Thread : Holds(t)
  /\ \A t, u \in Thread : Holds(t) /\ Holds(u) => t = u

(* thread.c:160,187,192,197 - none of the scheduler's assertions can fail. *)
NoBug == machine # "bug"

(* thread.c:81 - thread_kill() never comes back to thread_wrapper().       *)
KillNeverReturns == \A t \in Thread : pc[t] # "zombie"

(* ints.c:64-66 - the timer's interrupt is acknowledged before interrupts  *)
(* are enabled again, on every path, also the one that starts a new        *)
(* thread and never returns through the handler.                           *)
AcknowledgedInTime == ints => ~isr

(* thread.c:118-134 - a thread leaves the ring only by its own death: it   *)
(* is the one that runs, it was marked, and the CPU leaves it.             *)
LeavesOnlyByDying ==
  [][\A t \in Ring \ Ring' :
       t = cpu /\ state[t] = "DYING" /\ state'[t] = "DEAD" /\ cpu' # t]_vars

-----------------------------------------------------------------------------
(* The n-th thread met on a walk along next from threads_head.             *)
Walk[n \in Nat] == IF n = 0 THEN threads_head ELSE next[Walk[n - 1]]

(* The queue of threads that the ring of pointers stands for.              *)
Scheduler == INSTANCE RoundRobin WITH
  First  <- Kernel,
  queue  <- [n \in 1 .. Cardinality(Ring) |-> Walk[n - 1]],
  doomed <- {t \in Thread : state[t] = "DYING"}

(* thread.c:32,118-134,183-224 - through all the pointer surgery, with     *)
(* switches in the middle of it, the ring is a round robin queue: a new    *)
(* thread runs after all the others, nobody is overtaken or lost, and only *)
(* the thread that is switched out leaves.                                 *)
ImplementsRoundRobin == Scheduler!Spec

-----------------------------------------------------------------------------
(* thread.c:183-224, time.c:42-49 - every thread in the ring gets the CPU  *)
(* again and again, unless the machine stops.                              *)
EveryThreadRuns ==
  \A t \in Thread :
    t \in Ring ~> (cpu = t \/ t \notin Ring \/ machine # "up")

-----------------------------------------------------------------------------
(* main.c:231-251 creates two threads and expects each to run its function *)
(* to the end: a thread that is switched to has a frame to start from.     *)
(* It fails: the thread is in the ring before its first frame is laid.     *)
NoWildSwitch == machine # "wild"

=============================================================================
