------------------------------- MODULE ThreadTest -------------------------------
(***************************************************************************)
(* The program main() runs once the kernel is up (main.c), on the threads  *)
(* of Threads.tla: it allocates a counter x, creates a thread that prints  *)
(* x and a thread that increments it, both under the spin lock lck, waits  *)
(* for both, and frees x.                                                  *)
(*                                                                         *)
(* The client steps of Threads.tla happen here when the program takes      *)
(* them; every other step of Threads.tla happens as it does there.         *)
(***************************************************************************)
EXTENDS Threads

CONSTANTS
  Rounds,     \* how often each thread uses x (100 in the code)
  First       \* the thread_t that mem_alloc gives first

ASSUME TestAssumption == Rounds \in Nat /\ First \in Thread \ {Kernel}

VARIABLES
  at,               \* where main() is
  printer, adder,   \* what thread_create() returned
  run,              \* the run function each new thread's first frame names
  work,             \* where each thread is in its run function
  i,                \* the loop counter of each run function
  reg,              \* the register "*x += 1" goes through
  lck,              \* the spin lock
  x,                \* *x
  xmem              \* is x allocated?

mainVars == <<at, printer, adder, xmem>>
workVars == <<work, i, reg, lck, x>>
testVars == <<mainVars, run, workVars>>

TInit ==
  /\ Init
  /\ at = "alloc_x" /\ printer = NULL /\ adder = NULL
  /\ run = [t \in Thread |-> "main"]
  /\ work = [t \in Thread |-> "none"]
  /\ i = [t \in Thread |-> 0]
  /\ reg = [t \in Thread |-> 0]
  /\ lck = "UNLOCKED" /\ x = 0 /\ xmem = FALSE

-----------------------------------------------------------------------------
(* A step of the kernel.  The one that lays the first frame of a new       *)
(* thread stores there the function main() passed to thread_create().      *)
(* mem_alloc takes the lowest free slot of a pool: which thread_t the      *)
(* printer gets is known.                                                  *)
KernelStep ==
  /\ KernelNext
  /\ at = "creating_printer" => \A t \in Thread : mem'[t] => t \in {Kernel, First}
  /\ run' = [t \in Thread |->
               IF pc[t] = pc'[t] \/ pc'[t] # "start" THEN run[t]
               ELSE IF at = "creating_printer" THEN "print" ELSE "add"]
  /\ work' = [t \in Thread |->
                IF pc[t] # "start" \/ pc'[t] # "client" THEN work[t]
                ELSE "loop"]
  /\ UNCHANGED <<mainVars, i, reg, lck, x>>

(* x = mem_alloc(sizeof(int)); *x = 0.  The result is not tested.          *)
MainAllocX ==
  /\ At(Kernel, "client") /\ at = "alloc_x"
  /\ \/ xmem' = TRUE /\ x' = 0 /\ at' = "create_printer"
        /\ UNCHANGED <<machine, ints>>
     \/ machine' = "fault" /\ ints' = FALSE /\ UNCHANGED <<xmem, x, at>>
  /\ Quiet
  /\ UNCHANGED <<ringVars, memVars, localVars, threads_lock, state, pc,
                 printer, adder, run, work, i, reg, lck>>

MainCreate(from, to) ==
  /\ at = from /\ CallCreate(Kernel)
  /\ at' = to
  /\ UNCHANGED <<printer, adder, xmem, run, workVars>>

(* thread_create() has returned the one thread main() has not named yet.   *)
MainCreated ==
  /\ At(Kernel, "client")
  /\ \/ at = "creating_printer" /\ at' = "create_adder"
        /\ printer' \in handles[Kernel] /\ UNCHANGED adder
     \/ at = "creating_adder" /\ at' = "wait_adder"
        /\ adder' \in handles[Kernel] \ {printer} /\ UNCHANGED printer
  /\ UNCHANGED <<vars, xmem, run, workVars>>

MainWait(from, to, s) ==
  /\ at = from /\ CallWait(Kernel, s)
  /\ at' = to
  /\ UNCHANGED <<printer, adder, xmem, run, workVars>>

(* Both waits have returned: mem_free(x), and "Thread test end."           *)
MainFreeX ==
  /\ At(Kernel, "client") /\ at = "waiting_printer"
  /\ xmem' = FALSE
  /\ at' = "end"
  /\ UNCHANGED <<vars, printer, adder, run, workVars>>

Main ==
  \/ MainAllocX
  \/ MainCreate("create_printer", "creating_printer")
  \/ MainCreate("create_adder", "creating_adder")
  \/ MainCreated
  \/ MainWait("wait_adder", "waiting_adder", adder)
  \/ MainWait("waiting_adder", "waiting_printer", printer)
  \/ MainFreeX

-----------------------------------------------------------------------------
(* The run functions.  InLoop: t executes its run function, at label.      *)
InLoop(t, label) == At(t, "client") /\ work[t] = label

Working(t, label) == work' = [work EXCEPT ![t] = label]

(* Mutant of TakeLck: the word is not tested.                              *)
TakeLckAnyway(t) ==
  /\ InLoop(t, "loop") /\ i[t] < Rounds
  /\ lck' = "LOCKED"
  /\ Working(t, "read")
  /\ UNCHANGED <<vars, mainVars, run, i, reg, x>>

(* lock(&lck), in one step as in Threads.tla.                              *)
TakeLck(t) ==
  /\ InLoop(t, "loop") /\ i[t] < Rounds
  /\ lck = "UNLOCKED" /\ lck' = "LOCKED"
  /\ Working(t, "read")
  /\ UNCHANGED <<vars, mainVars, run, i, reg, x>>

(* printf("x: %d\n", *x), or the load of *x += 1.                          *)
ReadX(t) ==
  /\ InLoop(t, "read")
  /\ reg' = [reg EXCEPT ![t] = x]
  /\ Working(t, IF run[t] = "add" THEN "write" ELSE "unlock")
  /\ UNCHANGED <<vars, mainVars, run, i, lck, x>>

WriteX(t) ==
  /\ InLoop(t, "write")
  /\ x' = reg[t] + 1
  /\ Working(t, "unlock")
  /\ UNCHANGED <<vars, mainVars, run, i, reg, lck>>

(* Mutant of DropLck: the unlock is forgotten.                             *)
DropLckNot(t) ==
  /\ InLoop(t, "unlock")
  /\ i' = [i EXCEPT ![t] = @ + 1]
  /\ Working(t, "loop")
  /\ UNCHANGED <<vars, mainVars, run, reg, lck, x>>

DropLck(t) ==
  /\ InLoop(t, "unlock")
  /\ lck' = "UNLOCKED"
  /\ i' = [i EXCEPT ![t] = @ + 1]
  /\ Working(t, "loop")
  /\ UNCHANGED <<vars, mainVars, run, reg, x>>

(* The run function returns into thread_wrapper().                         *)
Return(t) ==
  /\ InLoop(t, "loop") /\ i[t] = Rounds
  /\ CallKill(t)
  /\ Working(t, "done")
  /\ UNCHANGED <<mainVars, run, i, reg, lck, x>>

Worker(t) == TakeLck(t) \/ ReadX(t) \/ WriteX(t) \/ DropLck(t) \/ Return(t)

TNext == KernelStep \/ Main \/ \E t \in Thread : Worker(t)

allVars == <<vars, testVars>>

TSpec == TInit /\ [][TNext]_allVars

(* The program goes on whenever it gets the CPU often enough; the kernel   *)
(* runs as Threads.tla assumes.                                            *)
TFairness ==
  /\ Fairness
  /\ SF_allVars(Main)
  /\ \A t \in Thread : SF_allVars(Worker(t))

TFairSpec == TSpec /\ TFairness

-----------------------------------------------------------------------------
TTypeOK ==
  /\ at \in {"alloc_x", "create_printer", "creating_printer", "create_adder",
             "creating_adder", "wait_adder", "waiting_adder",
             "waiting_printer", "end"}
  /\ run \in [Thread -> {"main", "print", "add"}]
  /\ work \in [Thread -> {"none", "loop", "read", "write", "unlock", "done"}]
  /\ i \in [Thread -> 0 .. Rounds] /\ reg \in [Thread -> Nat] /\ x \in Nat
  /\ lck \in {"LOCKED", "UNLOCKED"}
  /\ xmem \in BOOLEAN /\ (xmem <=> at \notin {"alloc_x", "end"})

(* main.c:184-186, 247 - who reads x sees what the adder has done, wherever *)
(* the ticks come: the number the printer puts on the line is that of x     *)
(* until it gives lck back, and when main() has waited for the adder all    *)
(* rounds are in x.                                                         *)
ReadersSeeX ==
  /\ \A t \in Thread : run[t] = "print" /\ work[t] = "unlock" => reg[t] = x
  /\ at \in {"waiting_printer", "end"} => x = Rounds

(* main.c:247-250 - x is not freed under a thread that may still use it.   *)
XOutlivesItsUsers ==
  \A t \in Thread :
    t \in Ring /\ work[t] \in {"loop", "read", "write", "unlock"} => xmem

-----------------------------------------------------------------------------
(* A thread died while it held threads_lock: the tick came between the     *)
(* mark and the disabling of interrupts in thread_kill().                  *)
LockDiedWithHolder ==
  \E t \in Thread : pc[t] = "kill_cli" /\ state[t] = "DEAD"

(* main.c:231-251 - the program comes to its end, unless the machine stops *)
(* or threads_lock was lost with a dead thread.  There is no third way for *)
(* it to hang: no deadlock between lck, threads_lock and the waits.        *)
EndsUnlessLockLost ==
  <>(at = "end" \/ machine # "up" \/ LockDiedWithHolder)

(* main.c:231-251, "Thread test end." - the program comes to its end,      *)
(* unless the machine stops.  It does not: see LockDiedWithHolder.         *)
MainEnds == <>(at = "end" \/ machine # "up")

=============================================================================
