------------------------------ MODULE BallocTree ------------------------------
(***************************************************************************)
(* Balloc on the trees themselves: every step of Balloc.tla is taken       *)
(* together with what the code does to the two red-black trees, with its   *)
(* own searches, its own walk to the next node and the rotations of        *)
(* RBTree.tla.                                                             *)
(*                                                                         *)
(* A node stands at the begin of its range; one that was just linked,      *)
(* perhaps beside another with the same begin, at FRESH.  The ends of the  *)
(* ranges are kept with the tree.                                          *)
(***************************************************************************)
EXTENDS Balloc, RBTree

VARIABLES
  memory_map_tree, free_ranges_tree,   \* trees with the ends of their nodes
  at            \* the node __balloc_remove_range is at, NIL outside it

treeVars == <<memory_map_tree, free_ranges_tree, at>>
allVars  == <<vars, treeVars>>

FRESH == -2

EmptyTree == [rb |-> Empty, end |-> <<>>]

TInit == Init /\ memory_map_tree = EmptyTree /\ free_ranges_tree = EmptyTree
         /\ at = NIL

-----------------------------------------------------------------------------
(* The trees                                                               *)

\* Where the search by begin ends: a node and the side to link a new one on.
RECURSIVE Place(_, _, _, _, _)
Place(t, n, p, side, from) ==
  IF n = NIL THEN [parent |-> p, side |-> side]
  ELSE LET next == IF n < from THEN "right" ELSE "left"
       IN  Place(t, t.kid[next][n], n, next, from)

\* The search by end: the leftmost node that ends behind from.
RECURSIVE FirstBehind(_, _, _, _)
FirstBehind(t, n, found, from) ==
  IF n = NIL THEN found
  ELSE IF t.end[n] > from THEN FirstBehind(t, t.rb.kid["left"][n], n, from)
  ELSE FirstBehind(t, t.rb.kid["right"][n], found, from)

FirstNode(t, from) == FirstBehind(t, t.rb.root, NIL, from)

EraseNode(t, n) ==
  [rb |-> Erase(t.rb, n), end |-> [m \in DOMAIN t.end \ {n} |-> t.end[m]]]

\* The node at FRESH gets its begin, once no other node has it.
Settle(t, begin) ==
  LET to(n)  == IF n = FRESH THEN begin ELSE n
      was(n) == IF n = begin THEN FRESH ELSE n
      all    == {to(n) : n \in Nodes(t.rb)}
  IN  [rb  |-> [root   |-> to(t.rb.root),
                kid    |-> [s \in Side |-> [n \in all |-> to(t.rb.kid[s][was(n)])]],
                parent |-> [n \in all |-> to(t.rb.parent[was(n)])],
                red    |-> {to(n) : n \in t.rb.red}],
       end |-> [n \in all |-> t.end[was(n)]]]

\* The new node is linked and balanced.
LinkNew(t, place, to) ==
  [rb  |-> Insert(Link(t.rb, FRESH, place.parent, place.side), FRESH),
   end |-> (FRESH :> to) @@ t.end]

\* The new node takes over the node before it, or the one behind it.
JoinPrev(t, prev) ==
  EraseNode([t EXCEPT !.end[FRESH] = Max({@, t.end[prev]})], prev)

JoinNext(t, next) ==
  IF next # NIL /\ next =< t.end[FRESH]
  THEN EraseNode([t EXCEPT !.end[FRESH] = t.end[next]], next) ELSE t

\* The new node when it may have taken over the one before it.
Grow(t, begin) == Settle(JoinNext(t, Neighbour(t.rb, FRESH, "right")), begin)

\* __balloc_add_range
TreeAdd(t, from, to) ==
  LET linked == LinkNew(t, Place(t.rb, t.rb.root, NIL, "left", from), to)
      prev   == Neighbour(linked.rb, FRESH, "left")
  IN  IF prev # NIL /\ linked.end[prev] >= from
      THEN Grow(JoinPrev(linked, prev), prev) ELSE Grow(linked, from)

AddRest(t, from, to) == IF from < to THEN TreeAdd(t, from, to) ELSE t

\* A node is erased, and what it has outside from .. to - 1 is added again.
TreeCut(t, n, from, to) ==
  AddRest(AddRest(EraseNode(t, n), n, from), to, t.end[n])

\* The loop of __balloc_alloc, from the node n on: the node that serves.
RECURSIVE Server(_, _, _)
Server(t, n, r) ==
  IF n = NIL \/ n >= r.to THEN NIL
  ELSE IF Fits(Span(n, t.end[n]), r) THEN n
  ELSE Server(t, Neighbour(t.rb, n, "right"), r)

TreeAlloc(t, r) ==
  LET n    == Server(t, FirstNode(t, r.from), r)
      addr == FirstFit(Span(n, t.end[n]), r)
  IN  IF n = NIL THEN t ELSE TreeCut(t, n, addr, addr + r.size)

-----------------------------------------------------------------------------
(* The steps of Balloc                                                     *)

TreesAdd(range) ==
  /\ memory_map_tree' = TreeAdd(memory_map_tree, range.begin, range.end)
  /\ free_ranges_tree' = TreeAdd(free_ranges_tree, range.begin, range.end)
  /\ UNCHANGED at

TAddEntry  == AddEntry /\ TreesAdd(info[ptr])
TAddKernel == AddKernel /\ TreesAdd(KernelImage)

TSkipEntry == SkipEntry /\ UNCHANGED treeVars

TRemoveRange ==
  /\ RemoveRange
  /\ at' = FirstNode(free_ranges_tree, Removed.begin)
  /\ UNCHANGED <<memory_map_tree, free_ranges_tree>>

TCutNode ==
  /\ CutNode
  /\ at' = Neighbour(free_ranges_tree.rb, at, "right")
  /\ free_ranges_tree' = TreeCut(free_ranges_tree, at, Removed.begin, Removed.end)
  /\ UNCHANGED memory_map_tree

TRangeRemoved ==
  /\ RangeRemoved
  /\ at' = NIL
  /\ UNCHANGED <<memory_map_tree, free_ranges_tree>>

TAlloc(r) ==
  /\ Alloc(r)
  /\ free_ranges_tree' = TreeAlloc(free_ranges_tree, r)
  /\ UNCHANGED <<memory_map_tree, at>>

TFree(block) ==
  /\ Free(block)
  /\ free_ranges_tree' = TreeAdd(free_ranges_tree, block.begin, block.end)
  /\ UNCHANGED <<memory_map_tree, at>>

TNext ==
  \/ TAddEntry \/ TAddKernel
  \/ TSkipEntry \/ TRemoveRange \/ TCutNode \/ TRangeRemoved
  \/ \E r \in Requests : TAlloc(r)
  \/ \E block \in held : TFree(block)

TSpec == TInit /\ [][TNext]_allVars

-----------------------------------------------------------------------------
(* Properties                                                              *)

Ranges(t) == {Span(n, t.end[n]) : n \in Nodes(t.rb)}

\* rbtree.c:122-294, balloc.c:46-118 - through every insertion, merge and
\* erasure the trees stay red-black trees in the order of their ranges, and
\* hold the ranges they should: the two searches and the walk to the next
\* node, looked up before the tree changes under it, find what is there.
TreesAreRight ==
  /\ RedBlack(memory_map_tree.rb) /\ Ranges(memory_map_tree) = memory_map
  /\ RedBlack(free_ranges_tree.rb) /\ Ranges(free_ranges_tree) = free_ranges
  /\ {n.begin : n \in node} = {at} \ {NIL}

=============================================================================
