------------------------------- MODULE PagePool -------------------------------
(***************************************************************************)
(* What the page allocator promises: of the pages it was given it hands    *)
(* out aligned blocks of 2^order, each to one client at a time, gets them  *)
(* back, and answers 0 only when no such block of free pages exists, or    *)
(* the order is larger than the largest.                                   *)
(* Buddy.tla is shown to implement this.                                   *)
(***************************************************************************)
EXTENDS Shift

CONSTANTS
  Given,      \* the numbers of the pages it was given
  MaxOrder    \* the largest block has 2^MaxOrder pages

VARIABLES
  avail,      \* the free pages
  held,       \* the blocks handed out
  answer      \* the order the last client asked for and the page it got, or 0

\* Nothing has been asked since a block came back.
NoAnswer == [order |-> MaxOrder + 1, page |-> 0]

poolVars == <<avail, held, answer>>

Pages(block) == block.page .. block.page + Shl[block.order] - 1

\* The aligned blocks of 2^order free pages.
Candidates(order) ==
  {b \in [page : avail, order : {order} \cap 0 .. MaxOrder] :
     b.page % Shl[order] = 0 /\ Pages(b) \subseteq avail}

Init == avail = Given /\ held = {} /\ answer = NoAnswer

Give(order) == \E b \in Candidates(order) :
  /\ avail' = avail \ Pages(b)
  /\ held' = held \cup {b}
  /\ answer' = [order |-> order, page |-> b.page]

Refuse(order) ==
  /\ Candidates(order) = {}
  /\ answer' = [order |-> order, page |-> 0]
  /\ UNCHANGED <<avail, held>>

TakeBack(b) ==
  /\ avail' = avail \cup Pages(b)
  /\ held' = held \ {b}
  /\ answer' = NoAnswer

Next ==
  \/ \E order \in 0 .. MaxOrder + 1 : Give(order) \/ Refuse(order)
  \/ \E b \in held : TakeBack(b)

Spec == Init /\ [][Next]_poolVars

=============================================================================
