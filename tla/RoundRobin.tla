----------------------------- MODULE RoundRobin -----------------------------
(***************************************************************************)
(* What the scheduler promises: the threads form a queue; the one at its   *)
(* head runs.  A new thread goes to the back.  When the running thread is  *)
(* switched out it goes to the back too, unless it was doomed: then it     *)
(* leaves the queue.  Only the running thread can be doomed, and only the  *)
(* running thread can leave.  Threads.tla is shown to implement this.      *)
(***************************************************************************)
EXTENDS Naturals, Sequences

CONSTANTS Thread, First

VARIABLES
  queue,    \* the threads, in the order in which they will run
  doomed    \* those that will leave when they are switched out

schedVars == <<queue, doomed>>

Waiting == {queue[i] : i \in DOMAIN queue}

Init ==
  /\ queue = <<First>>
  /\ doomed = {}

Spawn(t) ==
  /\ t \notin Waiting
  /\ queue' = Append(queue, t)
  /\ UNCHANGED doomed

Doom ==
  /\ doomed' = doomed \cup {Head(queue)}
  /\ UNCHANGED queue

Rotate ==
  /\ Head(queue) \notin doomed
  /\ queue' = Append(Tail(queue), Head(queue))
  /\ UNCHANGED doomed

Reap ==
  /\ Head(queue) \in doomed /\ Len(queue) > 1
  /\ queue' = Tail(queue)
  /\ doomed' = doomed \ {Head(queue)}

Next == Doom \/ Rotate \/ Reap \/ \E t \in Thread : Spawn(t)

Spec == Init /\ [][Next]_schedVars

=============================================================================
