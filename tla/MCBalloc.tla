------------------------------- MODULE MCBalloc -------------------------------
(* Balloc on every memory map of two entries over a few addresses, on some  *)
(* of three, and on maps of many entries that make the trees deep; with two *)
(* kinds of allocation.                                                     *)
EXTENDS BallocTree

Address == {0, 8, 16, 20, 32}
Image   == Span(16, 20)
Entry   == {e \in [begin : Address, end : Address, type : {1, 3}] : e.begin < e.end}

Torn == {<<[begin |-> 0, end |-> 27, type |-> 1],
           [begin |-> 28, end |-> 48, type |-> 1], e>> : e \in Entry}

\* Six regions that stay apart, all free and then all reserved, in two orders:
\* one of them any order.
Begin(i)          == <<0, 8, 22, 28, 34, 40>>[i]
Regions(order, t) == [i \in 1 .. 6 |->
  [begin |-> Begin(order[i]), end |-> Begin(order[i]) + 4, type |-> t]]
Few    == {<<1, 2, 3, 4, 5, 6>>, <<6, 5, 4, 3, 2, 1>>, <<3, 5, 1, 6, 2, 4>>}
Orders == SetToSeqs(1 .. 6)
Mixed  == {Regions(p, 1) \o Regions(q, 3) : p \in Few, q \in Orders}
          \cup {Regions(p, 1) \o Regions(q, 3) : p \in Orders, q \in Few}

\* Nine regions that touch.
Adjacent == [i \in 1 .. 9 |-> [begin |-> 2 * i + 20, end |-> 2 * i + 22, type |-> 1]]

AnyMaps == [1 .. 2 -> Entry] \cup [1 .. 3 -> Entry] \cup Torn \cup Mixed \cup {Adjacent}

Overlapping == [1 .. 2 -> Entry]

SomeRequests ==
  {[size |-> 8, align |-> 8, from |-> 0, to |-> 64],
   [size |-> 5, align |-> 1, from |-> 6, to |-> 30]}
=============================================================================
