-------------------------------- MODULE RBTree --------------------------------
(***************************************************************************)
(* The red-black tree of rbtree.c, as functions of the tree.  A tree is    *)
(* the record of its root, of the two children and the parent of each      *)
(* node, and of the red nodes.  The two symmetric halves of each function  *)
(* are one, with the side it works on as a parameter.                      *)
(***************************************************************************)
EXTENDS Integers, Sequences, FiniteSets, SequencesExt

NIL == -1                      \* the null pointer; nodes are numbers from -2 on

Side == {"left", "right"}
Other(side) == IF side = "left" THEN "right" ELSE "left"

Empty == [root |-> NIL, kid |-> [s \in Side |-> <<>>], parent |-> <<>>, red |-> {}]

Nodes(t) == DOMAIN t.parent

Red(t, n) == n \in t.red

\* The nodes of reds become red, those of blacks black.
Paint(t, reds, blacks) == [t EXCEPT !.red = (@ \ blacks) \cup reds]

SetParent(t, n, p) == IF n = NIL THEN t ELSE [t EXCEPT !.parent[n] = p]

\* The child of p that was old is new; without a p, the root is new.
Hang(t, p, old, new) ==
  IF p = NIL THEN [t EXCEPT !.root = new]
  ELSE [t EXCEPT !.kid[IF t.kid["left"][p] = old THEN "left" ELSE "right"][p] = new]

\* rb_link: a red leaf on the given side of p.
Link(t, n, p, side) ==
  LET s == [t EXCEPT !.kid = [x \in Side |-> (n :> NIL) @@ @[x]],
                     !.parent = (n :> p) @@ @,
                     !.red = @ \cup {n}]
  IN  IF p = NIL THEN [s EXCEPT !.root = n] ELSE [s EXCEPT !.kid[side][p] = n]

\* A node that is no longer linked.
Drop(t, n) ==
  LET rest == Nodes(t) \ {n}
  IN  [t EXCEPT !.kid = [s \in Side |-> [m \in rest |-> @[s][m]]],
                !.parent = [m \in rest |-> @[m]],
                !.red = @ \ {n}]

-----------------------------------------------------------------------------
\* __rb_leftmost, __rb_rightmost
RECURSIVE Outermost(_, _, _)
Outermost(t, n, side) ==
  IF t.kid[side][n] = NIL THEN n ELSE Outermost(t, t.kid[side][n], side)

\* The loop of rb_next and rb_prev: up, as long as n is the child on this side.
RECURSIVE Up(_, _, _)
Up(t, n, side) ==
  LET p == t.parent[n]
  IN  IF p # NIL /\ t.kid[side][p] = n THEN Up(t, p, side) ELSE p

\* rb_next(n) on the right, rb_prev(n) on the left.
Neighbour(t, n, side) ==
  IF t.kid[side][n] # NIL THEN Outermost(t, t.kid[side][n], Other(side))
  ELSE Up(t, n, side)

\* rb_rotate_left, rb_rotate_right: x goes down on this side.
Rotate(t, x, side) ==
  LET p     == t.parent[x]
      r     == t.kid[Other(side)][x]
      inner == t.kid[side][r]
      s     == [t EXCEPT !.kid[Other(side)][x] = inner, !.kid[side][r] = x,
                         !.parent[r] = p, !.parent[x] = r]
  IN  Hang(SetParent(s, inner, x), p, x, r)

BlackRoot(t) == Paint(t, {}, {t.root})

\* The red p goes up in the place of g; n first, when it is the inner child.
Lift(t, n, p, g, side) ==
  LET inner == n = t.kid[Other(side)][p]
      s     == Rotate(IF inner THEN Rotate(t, p, side) ELSE t, g, Other(side))
  IN  Paint(s, {g}, {IF inner THEN n ELSE p})

\* rb_insert, after rb_link
RECURSIVE Insert(_, _)
Insert(t, n) ==
  LET p     == t.parent[n]
      g     == t.parent[p]
      side  == IF p = t.kid["left"][g] THEN "left" ELSE "right"
      uncle == t.kid[Other(side)][g]
  IN  IF ~Red(t, p) THEN BlackRoot(t)
      ELSE IF Red(t, uncle) THEN Insert(Paint(t, {g}, {p, uncle}), g)
      ELSE BlackRoot(Lift(t, n, p, g, side))

\* A red brother b goes up, p down.
LiftRed(t, b, p, side) ==
  IF Red(t, b) THEN Rotate(Paint(t, {p}, {b}), p, side) ELSE t

\* The brother's far child is to be red: the near one goes up.
RedFar(t, b, side) ==
  IF Red(t, t.kid[Other(side)][b]) THEN t
  ELSE Rotate(Paint(t, {b}, {t.kid[side][b]}), b, Other(side))

\* The brother goes up, with the colour of p.
LiftBrother(t, b, p, side) ==
  LET reds == IF Red(t, p) THEN {b} ELSE {}
  IN  Rotate(Paint(t, reds, {b, p, t.kid[Other(side)][b]}), p, side)

\* rb_erase_fix: child, on one side of p, is a black node short; b is its brother.
RECURSIVE EraseFix(_, _, _), FixByBrother(_, _, _, _)
FixByBrother(t, b, p, side) ==
  IF \A s \in Side : ~Red(t, t.kid[s][b])
  THEN EraseFix(Paint(t, {b}, {}), p, t.parent[p])
  ELSE LET u == RedFar(t, b, side)
       IN  BlackRoot(LiftBrother(u, u.kid[Other(side)][p], p, side))

EraseFix(t, child, p) ==
  LET side == IF child = t.kid["left"][p] THEN "left" ELSE "right"
      u    == LiftRed(t, t.kid[Other(side)][p], p, side)
  IN  IF Red(t, child) \/ child = t.root THEN Paint(t, {}, {child})
      ELSE FixByBrother(u, u.kid[Other(side)][p], p, side)

\* Mutant of TakeOver: x keeps its own colour.
TakeOverUncoloured(t, n, x) ==
  LET l == t.kid["left"][n]
  IN  SetParent([t EXCEPT !.kid["left"][x] = l, !.parent[x] = t.parent[n]], l, x)

\* x gets the parent, the colour and the left child of n.
TakeOver(t, n, x) ==
  LET l == t.kid["left"][n]
      s == [t EXCEPT !.kid["left"][x] = l, !.parent[x] = t.parent[n]]
  IN  Paint(SetParent(s, l, x), IF Red(t, n) THEN {x} ELSE {},
                                IF Red(t, n) THEN {} ELSE {x})

\* The node that left its place was black, with the child c below p in it.
FixBlack(t, red, c, p) == IF red THEN t ELSE EraseFix(t, c, p)

\* n has two children: the next node x takes its place.
EraseInner(t, n) ==
  LET x == Neighbour(t, n, "right")
      c == t.kid["right"][x]
      r == t.kid["right"][n]
      p == IF x = r THEN x ELSE t.parent[x]
      s == TakeOver(t, n, x)
      u == IF x = r THEN s
           ELSE SetParent(SetParent([s EXCEPT !.kid["right"][x] = r,
                                              !.kid["left"][p] = c], c, p), r, x)
  IN  FixBlack(Drop(Hang(u, t.parent[n], n, x), n), Red(t, x), c, p)

\* n has one child or none, which takes its place.
EraseOuter(t, n) ==
  LET p == t.parent[n]
      c == t.kid[IF t.kid["left"][n] # NIL THEN "left" ELSE "right"][n]
  IN  FixBlack(Drop(Hang(SetParent(t, c, p), p, n, c), n), Red(t, n), c, p)

\* rb_erase
Erase(t, n) ==
  IF NIL \in {t.kid[s][n] : s \in Side} THEN EraseOuter(t, n) ELSE EraseInner(t, n)

-----------------------------------------------------------------------------
(* What a red-black tree is                                                *)

\* The nodes from left to right.
RECURSIVE InOrder(_, _)
InOrder(t, n) ==
  IF n = NIL THEN <<>>
  ELSE InOrder(t, t.kid["left"][n]) \o <<n>> \o InOrder(t, t.kid["right"][n])

\* The numbers of black nodes on the paths down from n.
RECURSIVE BlackHeights(_, _)
BlackHeights(t, n) ==
  IF n = NIL THEN {0}
  ELSE {(IF Red(t, n) THEN 0 ELSE 1) + h :
          h \in BlackHeights(t, t.kid["left"][n]) \cup BlackHeights(t, t.kid["right"][n])}

\* Every node is found from the root, in order; parents are those of the
\* children; no red node has a red parent; every path has as many black nodes.
RedBlack(t) ==
  /\ LET order == InOrder(t, t.root)
     IN  /\ ToSet(order) = Nodes(t)
         /\ \A i \in 1 .. Len(order) - 1 : order[i] < order[i + 1]
  /\ \A n \in Nodes(t), s \in Side :
       LET c == t.kid[s][n]
       IN  c # NIL => t.parent[c] = n /\ ~(Red(t, n) /\ Red(t, c))
  /\ t.root # NIL => t.parent[t.root] = NIL /\ ~Red(t, t.root)
  /\ Cardinality(BlackHeights(t, t.root)) = 1

=============================================================================
