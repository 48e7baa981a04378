------------------------------ MODULE Balloc_proofs ------------------------------
(***************************************************************************)
(* The safety of Balloc.tla, proved for every memory map, kernel image,    *)
(* set of requests and number of nodes.                                    *)
(*                                                                         *)
(* The argument has two layers.  AddRange and Cut are first described as   *)
(* operations on sets of ranges (AddRangeShape, CutShape); then every      *)
(* action keeps the inductive invariant BInv, whose parts speak of ranges  *)
(* that reach into each other and never of bytes.  Last, StartInv says     *)
(* where ranges may begin, which bounds how many there are, and with them  *)
(* the nodes the trees take.                                               *)
(***************************************************************************)
EXTENDS Balloc, TLAPS, WellFoundedInduction, FiniteSetTheorems

-----------------------------------------------------------------------------
(* The inductive invariant                                                 *)

\* No range of these reaches into r.
Clear(ranges, r) == \A n \in ranges : n.end =< r.begin \/ r.end =< n.begin

\* While the map is read in, both trees are the same; nothing is asked for
\* before it has been read.
InSetup ==
  /\ pc = "add" => free_ranges = memory_map
  /\ pc # "ready" => held = {} /\ answer = NoAnswer

\* No byte comes from nowhere.
Named  == Bytes(memory_map) \subseteq Bytes(Available \cup Taken)

\* What the loop has passed is out of the free tree and stays out.
Cleared ==
  /\ pc \in {"remove", "cut"} =>
       \A i \in 1 .. ptr - 1 : Reserved(info[i]) => Clear(free_ranges, info[i])
  /\ pc = "ready" => \A r \in Taken : Clear(free_ranges \cup held, r)

\* __balloc_remove_range is at a node of the tree, and all it has still to
\* cut are at it or behind it.
AtNode ==
  /\ pc # "cut" => node = {}
  /\ \A n \in node : n \in free_ranges /\ n.end > Removed.begin
  /\ \A m, n \in node : m = n
  /\ pc = "cut" =>
       \A m \in Behind(free_ranges, Removed.begin) :
         m.begin < Removed.end => \E n \in node : n.begin =< m.begin

\* A block in use is no part of another one, nor free.
HeldApart ==
  \A b \in held : Clear(free_ranges, b) /\ \A c \in held : b # c => Clear({c}, b)

BInv == TypeOK /\ InSetup /\ Named /\ Within /\ Cleared /\ AtNode /\ HeldApart
          /\ Answered

-----------------------------------------------------------------------------
(* Numbers and ranges                                                      *)

\* Every set of numbers has a least one.
LEMMA Least ==
  ASSUME NEW T \in SUBSET Nat, T # {}
  PROVE  \E n \in T : \A m \in T : n =< m
<1>1. IsWellFoundedOn(OpToRel(<, Nat), Nat)
  BY NatLessThanWellFounded
<1>2. PICK x \in T : \A y \in T : ~(<<y, x>> \in OpToRel(<, Nat))
  BY <1>1, WFMin
<1>3. ASSUME NEW y \in T PROVE x =< y
  <2>1. ~(y < x) BY <1>2 DEF OpToRel
  <2> QED BY <2>1
<1> QED BY <1>3

\* A tree has the node before the place of a range, if any lies there, and
\* the first one at or behind it.
LEMMA NodeBefore ==
  ASSUME NEW t, IsTree(t), NEW from \in Nat, NEW m \in t, m.begin < from
  PROVE  \E n \in Before(t, from) : m.begin =< n.begin
<1> DEFINE T == {from - k.begin : k \in {l \in t : l.begin < from}}
<1>0. \A k \in t : k.begin \in Nat BY DEF IsTree, AddressRanges
<1>1. T \in SUBSET Nat BY <1>0
<1>2. T # {} OBVIOUS
<1>3. PICK x \in T : \A y \in T : x =< y BY <1>1, <1>2, Least
<1>4. PICK n \in t : n.begin < from /\ x = from - n.begin OBVIOUS
<1>5. ASSUME NEW k \in t, k.begin < from PROVE k.begin =< n.begin
  <2>1. x =< from - k.begin BY <1>3, <1>5
  <2> QED BY <2>1, <1>4, <1>0
<1> QED BY <1>4, <1>5 DEF Before

LEMMA NodeFirst ==
  ASSUME NEW t, IsTree(t), NEW s \in SUBSET t, NEW m \in s
  PROVE  \E n \in First(s) : n.begin =< m.begin
<1> DEFINE T == {k.begin : k \in s}
<1>0. \A k \in t : k.begin \in Nat BY DEF IsTree, AddressRanges
<1>1. T \in SUBSET Nat BY <1>0
<1>2. T # {} OBVIOUS
<1>3. PICK x \in T : \A y \in T : x =< y BY <1>1, <1>2, Least
<1>4. PICK n \in s : x = n.begin OBVIOUS
<1> QED BY <1>3, <1>4 DEF First

LEMMA FirstOne ==
  ASSUME NEW t, IsTree(t), NEW s \in SUBSET t
  PROVE  \A m, n \in First(s) : m = n
BY DEF IsTree, AddressRanges, First

LEMMA BeforeOne ==
  ASSUME NEW t, IsTree(t), NEW from \in Nat
  PROVE  \A m, n \in Before(t, from) : m = n
BY DEF IsTree, AddressRanges, Before

LEMMA AfterIsFirst ==
  ASSUME NEW t, IsTree(t), NEW from \in Nat
  PROVE  /\ After(t, from) = First({n \in t : n.begin >= from})
         /\ \A m, n \in After(t, from) : m = n
BY DEF IsTree, AddressRanges, After, First

\* A stretch of addresses that a tree covers lies in one range: ranges do not
\* even touch.
LEMMA OneNode ==
  ASSUME NEW t, IsTree(t), NEW a \in Int, NEW c \in Int, a < c,
         \A x \in Int : a =< x /\ x < c => \E n \in t : n.begin =< x /\ x < n.end
  PROVE  \E n \in t : n.begin =< a /\ c =< n.end
<1>0. \A n \in t : n.begin \in Int /\ n.end \in Int BY DEF IsTree, AddressRanges
<1>1. PICK n \in t : n.begin =< a /\ a < n.end OBVIOUS
<1>2. ASSUME n.end < c PROVE FALSE
  <2>1. PICK m \in t : m.begin =< n.end /\ n.end < m.end BY <1>0, <1>1, <1>2
  <2>2. m # n BY <2>1, <1>0
  <2> QED BY <2>1, <2>2, <1>0, <1>1 DEF IsTree
<1> QED BY <1>0, <1>1, <1>2

LEMMA SpanIsRange ==
  ASSUME NEW b \in Nat, NEW e \in Nat, b < e
  PROVE  Span(b, e) \in AddressRanges /\ Span(b, e).begin = b /\ Span(b, e).end = e
BY DEF Span, AddressRanges

-----------------------------------------------------------------------------
(* What AddRange and Cut do                                                *)

\* A range that touches no other is only added.
LEMMA AddRangeAlone ==
  ASSUME NEW t, IsTree(t), NEW from \in Nat, NEW to \in Nat, from < to,
         \A m \in t : m.end < from \/ to < m.begin
  PROVE  AddRange(t, from, to) = t \cup {Span(from, to)}
<1>0. \A n \in t : n.begin \in Nat /\ n.end \in Nat /\ n.begin < n.end
  BY DEF IsTree, AddressRanges
<1>1. Touching(Before(t, from), from) = {}
  BY <1>0 DEF Touching, Before
<1>2. {n \in After(t, from) : n.begin =< to} = {}
  BY <1>0 DEF After
<1> QED BY <1>1, <1>2 DEF AddRange

\* Any other is added together with what it touches, gone: the new range, b
\* to e, begins where that begins, and ends where it or the last of that ends.
Merges(t, from, to, gone, b, e) ==
  /\ AddRange(t, from, to) = (t \ gone) \cup {Span(b, e)}
  /\ b =< from /\ from < e
  /\ \A m \in t \ gone : m.end < b \/ e < m.begin
  /\ \A g \in gone : b =< g.begin /\ g.end =< e
  /\ \A x \in Int : b =< x /\ x < e =>
       (from =< x /\ x < to) \/ \E g \in gone : g.begin =< x /\ x < g.end
  /\ Clear(t, Span(from, to)) => to =< e

LEMMA AddRangeShape ==
  ASSUME NEW t, IsTree(t), NEW from \in Nat, NEW to \in Nat, from < to
  PROVE  \E gone \in SUBSET t, b \in Nat, e \in Nat : Merges(t, from, to, gone, b, e)
<1> DEFINE prev  == Touching(Before(t, from), from)
           begin == IF prev = {} THEN from ELSE The(prev).begin
           grown == IF prev # {} /\ The(prev).end > to THEN The(prev).end ELSE to
           next  == {n \in After(t, from) : n.begin =< grown}
           end   == IF next = {} THEN grown ELSE The(next).end
<1>0. \A n \in t : n.begin \in Nat /\ n.end \in Nat /\ n.begin < n.end
  BY DEF IsTree, AddressRanges
<1>1. AddRange(t, from, to) = (t \ (prev \cup next)) \cup {Span(begin, end)}
  BY DEF AddRange
<1>2. prev \subseteq t /\ next \subseteq t
  BY DEF Touching, Before, After
<1>3. prev = {} \/ \E p \in t : prev = {p} /\ The(prev) = p /\ p.begin < from /\ from =< p.end
                                /\ \A m \in t : m.begin < from => m.begin =< p.begin
  <2>1. CASE prev = {} BY <2>1
  <2>2. CASE prev # {}
    <3>1. PICK p : p \in prev BY <2>2
    <3>2. prev = {p} BY <3>1, BeforeOne DEF Touching
    <3>3. The(prev) = p BY <3>2 DEF The
    <3> QED BY <3>1, <3>2, <3>3 DEF Touching, Before
  <2> QED BY <2>1, <2>2
<1>4. next = {} \/ \E n \in t : next = {n} /\ The(next) = n /\ from =< n.begin /\ n.begin =< grown
                                /\ \A m \in t : m.begin >= from => n.begin =< m.begin
  <2>1. CASE next = {} BY <2>1
  <2>2. CASE next # {}
    <3>1. PICK n : n \in next BY <2>2
    <3>2. next = {n} BY <3>1, AfterIsFirst
    <3>3. The(next) = n BY <3>2 DEF The
    <3> QED BY <3>1, <3>2, <3>3, <1>0 DEF After
  <2> QED BY <2>1, <2>2
<1> HIDE DEF prev, next
<1> DEFINE gone == prev \cup next
<1>5. begin \in Nat /\ end \in Nat BY <1>0, <1>3, <1>4
<1>6. begin =< from /\ from < end BY <1>0, <1>3, <1>4
<1>7. \A m \in t \ gone : m.end < begin \/ end < m.begin
  <2> SUFFICES ASSUME NEW m \in t, m \notin prev, m \notin next
               PROVE  m.end < begin \/ end < m.begin
    OBVIOUS
  <2>1. CASE m.begin < from
    <3>1. PICK p \in Before(t, from) : m.begin =< p.begin BY <2>1, NodeBefore
    <3>2. CASE p.end >= from
      <4>1. p \in prev BY <3>1, <3>2 DEF prev, Touching
      <4>2. begin = p.begin /\ p # m BY <4>1, <1>3
      <4>3. p \in t BY <4>1, <1>2
      <4> QED BY <4>2, <4>3, <3>1, <1>0 DEF IsTree
    <3>3. CASE p.end < from
      <4>1. prev = {} BY <3>1, <3>3, BeforeOne, <1>0 DEF prev, Touching, Before
      <4>2. p \in t BY <3>1 DEF Before
      <4>3. m.end =< p.end BY <4>2, <3>1, <1>0 DEF IsTree
      <4> QED BY <4>1, <4>3, <3>3, <1>0, <4>2
    <3>4. p \in t BY <3>1 DEF Before
    <3> QED BY <3>2, <3>3, <3>4, <1>0
  <2>2. CASE m.begin >= from
    <3>1. CASE next = {}
      <4>1. PICK n \in First({k \in t : k.begin >= from}) : n.begin =< m.begin
        BY <2>2, NodeFirst
      <4>2. n \in After(t, from) BY <4>1, AfterIsFirst
      <4>3. ~(n.begin =< grown) BY <4>2, <3>1 DEF next
      <4>4. n \in t BY <4>2 DEF After
      <4> QED BY <4>1, <4>3, <4>4, <3>1, <1>0, <1>3
    <3>2. CASE next # {}
      <4>1. PICK n \in t : next = {n} /\ The(next) = n /\ n.begin =< m.begin
        BY <3>2, <1>4, <2>2
      <4>2. end = n.end /\ m # n BY <4>1
      <4> QED BY <4>1, <4>2, <1>0 DEF IsTree
    <3> QED BY <3>1, <3>2
  <2> QED BY <2>1, <2>2, <1>0
<1>8. \A g \in gone : begin =< g.begin /\ g.end =< end
  <2>1. ASSUME NEW p \in prev PROVE begin =< p.begin /\ p.end =< end
    <3>1. begin = p.begin /\ p.end =< grown /\ p \in t /\ p.begin < from
      BY <2>1, <1>3, <1>0
    <3> QED BY <3>1, <1>4, <1>0 DEF IsTree
  <2>2. ASSUME NEW n \in next PROVE begin =< n.begin /\ n.end =< end
    <3>1. end = n.end /\ n \in t /\ from =< n.begin BY <2>2, <1>4
    <3> QED BY <3>1, <1>0, <1>5, <1>6
  <2> QED BY <2>1, <2>2
<1>9. \A x \in Int : begin =< x /\ x < end =>
        (from =< x /\ x < to) \/ \E g \in gone : g.begin =< x /\ x < g.end
  BY <1>0, <1>3, <1>4
<1>10. Clear(t, Span(from, to)) => to =< end
  BY <1>0, <1>3, <1>4 DEF Clear, Span
<1>11. gone \in SUBSET t BY <1>2
<1>12. AddRange(t, from, to) = (t \ gone) \cup {Span(begin, end)} BY <1>1
<1> HIDE DEF begin, end, gone
<1>13. Merges(t, from, to, gone, begin, end)
  BY <1>6, <1>7, <1>8, <1>9, <1>10, <1>12 DEF Merges
<1> QED BY <1>5, <1>11, <1>13

\* Some range holds the address x.
Holds(s, x) == \E n \in s : n.begin =< x /\ x < n.end

LEMMA HoldsInBytes ==
  ASSUME NEW s, \A n \in s : n.begin \in Int /\ n.end \in Int, NEW x
  PROVE  x \in Bytes(s) <=> x \in Int /\ Holds(s, x)
BY DEF Bytes, Holds

\* The ranges stay off r when no address is in both.
LEMMA ClearHolds ==
  ASSUME NEW s, \A n \in s : n.begin \in Int /\ n.end \in Int /\ n.begin < n.end,
         NEW r, r.begin \in Int, r.end \in Int, r.begin < r.end
  PROVE  Clear(s, r) <=> \A x \in Int : r.begin =< x /\ x < r.end => ~Holds(s, x)
<1>1. ASSUME Clear(s, r), NEW x \in Int, r.begin =< x, x < r.end PROVE ~Holds(s, x)
  BY <1>1 DEF Clear, Holds
<1>2. ASSUME ~Clear(s, r)
      PROVE  \E x \in Int : r.begin =< x /\ x < r.end /\ Holds(s, x)
  <2>1. PICK n \in s : n.end > r.begin /\ r.end > n.begin BY <1>2 DEF Clear
  <2>2. CASE n.begin >= r.begin BY <2>1, <2>2 DEF Holds
  <2>3. CASE n.begin < r.begin BY <2>1, <2>3 DEF Holds
  <2> QED BY <2>2, <2>3
<1> QED BY <1>1, <1>2

LEMMA TreeNumbers ==
  ASSUME NEW t, IsTree(t)
  PROVE  \A n \in t : n.begin \in Nat /\ n.end \in Nat /\ n.begin < n.end
BY DEF IsTree, AddressRanges

\* AddRange makes a tree of a tree,
LEMMA AddRangeIsTree ==
  ASSUME NEW t, IsTree(t), NEW from \in Nat, NEW to \in Nat, from < to
  PROVE  IsTree(AddRange(t, from, to))
<1>1. PICK gone \in SUBSET t, b \in Nat, e \in Nat : Merges(t, from, to, gone, b, e)
  BY AddRangeShape
<1>2. Span(b, e) \in AddressRanges /\ Span(b, e).begin = b /\ Span(b, e).end = e
  BY <1>1, SpanIsRange DEF Merges
<1>3. \A m, n \in t \ gone : m # n => m.end < n.begin \/ n.end < m.begin BY DEF IsTree
<1>4. t \ gone \subseteq AddressRanges BY DEF IsTree
<1> HIDE DEF IsTree
<1>5. IsTree((t \ gone) \cup {Span(b, e)})
  BY <1>1, <1>2, <1>3, <1>4 DEF IsTree, Merges
<1> QED BY <1>1, <1>5 DEF Merges

\* that holds what the tree held and nothing but the new range besides; all
\* of that, when it was clear.
LEMMA AddRangeHolds ==
  ASSUME NEW t, IsTree(t), NEW from \in Nat, NEW to \in Nat, from < to, NEW x \in Int
  PROVE  /\ Holds(AddRange(t, from, to), x) => Holds(t, x) \/ (from =< x /\ x < to)
         /\ Holds(t, x) => Holds(AddRange(t, from, to), x)
         /\ Clear(t, Span(from, to)) /\ from =< x /\ x < to
              => Holds(AddRange(t, from, to), x)
<1>0. \A n \in t : n.begin \in Nat /\ n.end \in Nat /\ n.begin < n.end BY TreeNumbers
<1>1. PICK gone \in SUBSET t, b \in Nat, e \in Nat : Merges(t, from, to, gone, b, e)
  BY AddRangeShape
<1>2. b < e BY <1>1 DEF Merges
<1>3. Span(b, e).begin = b /\ Span(b, e).end = e BY <1>2, SpanIsRange
<1>4. Holds(AddRange(t, from, to), x) <=> Holds(t \ gone, x) \/ (b =< x /\ x < e)
  BY <1>1, <1>3 DEF Holds, Merges
<1>5. Holds(t \ gone, x) => Holds(t, x) BY DEF Holds
<1>6. b =< x /\ x < e => Holds(t, x) \/ (from =< x /\ x < to)
  BY <1>1 DEF Holds, Merges
<1>7. Holds(t, x) => Holds(t \ gone, x) \/ (b =< x /\ x < e)
  <2> SUFFICES ASSUME NEW n \in t, n.begin =< x, x < n.end
               PROVE  Holds(t \ gone, x) \/ (b =< x /\ x < e)
    BY DEF Holds
  <2>1. CASE n \in gone
    <3>1. b =< n.begin /\ n.end =< e BY <1>1, <2>1 DEF Merges
    <3> QED BY <3>1, <1>0
  <2>2. CASE n \notin gone BY <2>2 DEF Holds
  <2> QED BY <2>1, <2>2
<1> QED BY <1>1, <1>4, <1>5, <1>6, <1>7 DEF Merges

LEMMA AddRangeClear ==
  ASSUME NEW t, IsTree(t), NEW from \in Nat, NEW to \in Nat, from < to,
         NEW r, r.begin \in Int, r.end \in Int, r.begin < r.end,
         Clear(t, r), to =< r.begin \/ r.end =< from
  PROVE  Clear(AddRange(t, from, to), r)
<1>1. \A x \in Int : r.begin =< x /\ x < r.end => ~Holds(t, x)
  BY TreeNumbers, ClearHolds
<1>2. \A x \in Int : r.begin =< x /\ x < r.end => ~Holds(AddRange(t, from, to), x)
  BY <1>1, AddRangeHolds
<1>3. \A n \in AddRange(t, from, to) : n.begin \in Int /\ n.end \in Int /\ n.begin < n.end
  BY AddRangeIsTree, TreeNumbers
<1> QED BY <1>2, <1>3, ClearHolds

\* A node that is cut leaves its two rests and nothing else changes.
LEMMA CutShape ==
  ASSUME NEW t, IsTree(t), NEW n \in t, NEW from \in Nat, NEW to \in Nat, from < to,
         from < n.end, n.begin < to
  PROVE  Cut(t, n, from, to) =
           (t \ {n}) \cup (IF n.begin < from THEN {Span(n.begin, from)} ELSE {})
                    \cup (IF n.end > to THEN {Span(to, n.end)} ELSE {})
<1> DEFINE rest == t \ {n}
           left == IF n.begin < from THEN AddRange(rest, n.begin, from) ELSE rest
           leftSet == IF n.begin < from THEN {Span(n.begin, from)} ELSE {}
<1>0. \A m \in t : m.begin \in Nat /\ m.end \in Nat /\ m.begin < m.end BY TreeNumbers
<1>1. IsTree(rest) BY DEF IsTree
<1>2. \A m \in rest : m.end < n.begin \/ n.end < m.begin BY DEF IsTree
<1>3. left = rest \cup leftSet
  <2>1. CASE n.begin < from
    <3>1. \A m \in rest : m.end < n.begin \/ from < m.begin BY <1>0, <1>2
    <3> QED BY <1>0, <1>1, <2>1, <3>1, AddRangeAlone
  <2> QED BY <2>1
<1>4. IsTree(left) BY <1>0, <1>1, AddRangeIsTree
<1>5. CASE n.end > to
  <2>1. \A m \in left : m.end < to \/ n.end < m.begin
    BY <1>0, <1>2, <1>3, SpanIsRange
  <2>2. AddRange(left, to, n.end) = left \cup {Span(to, n.end)}
    BY <1>0, <1>4, <1>5, <2>1, AddRangeAlone
  <2> QED BY <1>3, <1>5, <2>2 DEF Cut
<1>6. CASE ~(n.end > to)
  BY <1>3, <1>6 DEF Cut
<1> QED BY <1>5, <1>6

LEMMA CutIsTree ==
  ASSUME NEW t, IsTree(t), NEW n \in t, NEW from \in Nat, NEW to \in Nat, from < to,
         from < n.end, n.begin < to
  PROVE  /\ IsTree(Cut(t, n, from, to))
         /\ \A k \in Cut(t, n, from, to) :
              \E m \in t : m.begin =< k.begin /\ k.end =< m.end
         /\ \A x \in Int : Holds(Cut(t, n, from, to), x) <=>
              Holds(t, x) /\ ~(n.begin =< x /\ x < n.end /\ from =< x /\ x < to)
<1>0. \A m \in t : m.begin \in Nat /\ m.end \in Nat /\ m.begin < m.end BY TreeNumbers
<1> DEFINE L == IF n.begin < from THEN {Span(n.begin, from)} ELSE {}
           R == IF n.end > to THEN {Span(to, n.end)} ELSE {}
<1>1. Cut(t, n, from, to) = (t \ {n}) \cup L \cup R BY CutShape
<1>2. \A l \in L : l \in AddressRanges /\ l.begin = n.begin /\ l.end = from /\ n.begin < from
  BY <1>0, SpanIsRange
<1>3. \A r \in R : r \in AddressRanges /\ r.begin = to /\ r.end = n.end /\ to < n.end
  BY <1>0, SpanIsRange
<1>4. \A l, m \in L : l = m OBVIOUS
<1>5. \A l, m \in R : l = m OBVIOUS
<1>6. (n.begin < from => \E l \in L : l.begin = n.begin /\ l.end = from)
  BY <1>0, SpanIsRange
<1>7. (to < n.end => \E r \in R : r.begin = to /\ r.end = n.end)
  BY <1>0, SpanIsRange
<1> HIDE DEF L, R
<1>8. \A m \in t \ {n} : m.end < n.begin \/ n.end < m.begin BY DEF IsTree
<1>9. IsTree((t \ {n}) \cup L \cup R)
  BY <1>0, <1>2, <1>3, <1>4, <1>5, <1>8 DEF IsTree
<1>10. \A k \in (t \ {n}) \cup L \cup R : \E m \in t : m.begin =< k.begin /\ k.end =< m.end
  BY <1>0, <1>2, <1>3
<1>11. ASSUME NEW x \in Int
       PROVE  Holds((t \ {n}) \cup L \cup R, x) <=>
              Holds(t, x) /\ ~(n.begin =< x /\ x < n.end /\ from =< x /\ x < to)
  BY <1>0, <1>2, <1>3, <1>6, <1>7, <1>8 DEF Holds
<1> QED BY <1>1, <1>9, <1>10, <1>11

-----------------------------------------------------------------------------
(* What the memory map names                                               *)

IsRange(r) == r.begin \in Nat /\ r.end \in Nat /\ r.begin < r.end

\* The entries of the map, the kernel image and what is being removed.
LEMMA NamedRanges ==
  ASSUME TypeOK
  PROVE  /\ Len(info) \in Nat /\ DOMAIN info = 1 .. Len(info)
         /\ \A i \in 1 .. Len(info) : IsRange(info[i])
         /\ \A r \in Available \cup Taken : IsRange(r)
         /\ IsRange(KernelImage) /\ IsRange(Removed)
         /\ ptr \in Nat \ {0}
<1>1. /\ info \in Seq([begin : Nat, end : Nat, type : Nat])
      /\ \A i \in DOMAIN info : info[i].begin < info[i].end
  BY BallocAssumption DEF TypeOK
<1>2. Len(info) \in Nat /\ DOMAIN info = 1 .. Len(info) BY <1>1
<1>3. \A i \in 1 .. Len(info) : IsRange(info[i])
  <2> DEFINE E == [begin : Nat, end : Nat, type : Nat]
  <2>1. \A e \in E : e.begin \in Nat /\ e.end \in Nat OBVIOUS
  <2>2. info \in Seq(E) BY <1>1
  <2> HIDE DEF E
  <2>3. \A i \in 1 .. Len(info) : info[i] \in E BY <2>2
  <2> QED BY <1>1, <1>2, <2>1, <2>3 DEF IsRange
<1>4. IsRange(KernelImage) BY BallocAssumption DEF IsRange
<1>5. ptr \in Nat \ {0} BY <1>2 DEF TypeOK
<1>6. IsRange(Removed) BY <1>2, <1>3, <1>4, <1>5 DEF Removed
<1>7. \A r \in Available \cup Taken : IsRange(r)
  BY <1>2, <1>3, <1>4 DEF Available, Taken
<1> QED BY <1>2, <1>3, <1>4, <1>5, <1>6, <1>7

LEMMA FreeNumbers ==
  ASSUME TypeOK
  PROVE  \A n \in memory_map \cup free_ranges \cup held : IsRange(n)
BY DEF TypeOK, IsTree, AddressRanges, IsRange

\* A step that leaves info alone leaves what the map names alone.
LEMMA NamedStay ==
  ASSUME info' = info
  PROVE  Available' = Available /\ Taken' = Taken /\ Usable' = Usable
BY DEF Available, Taken, Usable, Reserved, Bytes

-----------------------------------------------------------------------------
(* The invariant holds at the start and is kept while the map is read      *)

LEMMA BInitHolds ==
  ASSUME Init
  PROVE  BInv
<1>1. info \in Seq([begin : Nat, end : Nat, type : Nat]) BY BallocAssumption DEF Init
<1>2. Len(info) \in Nat BY <1>1
<1>3. TypeOK BY <1>2 DEF Init, TypeOK, IsTree
<1>4. InSetup BY DEF Init, InSetup
<1>5. Named BY DEF Init, Named, Bytes
<1>6. Within /\ HeldApart BY DEF Init, Within, HeldApart
<1>7. Cleared /\ AtNode BY DEF Init, Cleared, AtNode
<1>8. Answered BY DEF Init, Answered
<1> QED BY <1>3, <1>4, <1>5, <1>6, <1>7, <1>8 DEF BInv

\* A range that the map names goes into both trees.
LEMMA AddKeeps ==
  ASSUME BInv, pc = "add", NEW range, IsRange(range), AddToBoth(range),
         range \in Available \cup Taken, info' = info, UNCHANGED <<node, held, answer>>,
         pc' \in {"add", "remove"}, ptr' \in 1 .. Len(info) + 1,
         pc' = "remove" => ptr' = 1
  PROVE  BInv'
<1> USE DEF BInv
<1>1. TypeOK'
  <2>1. IsTree(memory_map') /\ IsTree(free_ranges')
    BY AddRangeIsTree DEF AddToBoth, IsRange, TypeOK
  <2>2. machine' \in {"up", "BUG"} BY DEF AddToBoth, TypeOK
  <2> QED BY <2>1, <2>2 DEF TypeOK
<1>2. free_ranges' = memory_map' BY DEF AddToBoth, InSetup
<1>3. held' = {} /\ answer' = NoAnswer BY DEF InSetup
<1>4. InSetup' BY <1>2, <1>3 DEF InSetup
<1>5. Named'
  <2>1. \A n \in memory_map : IsRange(n) BY FreeNumbers
  <2>2. \A n \in memory_map' : IsRange(n) BY <1>1, TreeNumbers DEF TypeOK, IsRange
  <2>3. \A n \in Available \cup Taken : IsRange(n) BY NamedRanges
  <2>4. ASSUME NEW x \in Int, Holds(memory_map', x) PROVE Holds(Available \cup Taken, x)
    <3>1. Holds(memory_map, x) \/ (range.begin =< x /\ x < range.end)
      BY <2>4, AddRangeHolds DEF AddToBoth, TypeOK, IsRange
    <3>2. CASE Holds(memory_map, x)
      <4>1. x \in Bytes(memory_map) BY <2>1, <3>2, HoldsInBytes DEF IsRange
      <4>2. x \in Bytes(Available \cup Taken) BY <4>1 DEF Named
      <4> QED BY <2>3, <4>2, HoldsInBytes DEF IsRange
    <3>3. CASE range.begin =< x /\ x < range.end BY <3>3 DEF Holds
    <3> QED BY <3>1, <3>2, <3>3
  <2>5. ASSUME NEW x \in Bytes(memory_map') PROVE x \in Bytes(Available \cup Taken)
    <3>1. x \in Int /\ Holds(memory_map', x) BY <2>2, <2>5, HoldsInBytes DEF IsRange
    <3>2. Holds(Available \cup Taken, x) BY <3>1, <2>4
    <3> QED BY <2>3, <3>1, <3>2, HoldsInBytes DEF IsRange
  <2>6. (Available \cup Taken)' = Available \cup Taken BY NamedStay
  <2>7. Bytes(Available \cup Taken)' = Bytes(Available \cup Taken) BY <2>6 DEF Bytes
  <2> QED BY <2>5, <2>7 DEF Named, Bytes
<1>6. Within'
  <2>1. \A n \in free_ranges' : n \in memory_map' /\ IsRange(n)
    BY <1>1, <1>2, TreeNumbers DEF TypeOK, IsRange
  <2> QED BY <1>3, <2>1 DEF Within, IsRange
<1>7. Cleared'
  <2>1. pc' = "remove" => 1 .. ptr' - 1 = {} OBVIOUS
  <2> QED BY <2>1 DEF Cleared
<1>8. AtNode' BY DEF AtNode
<1>9. HeldApart' BY <1>3 DEF HeldApart
<1>10. Answered' BY <1>3 DEF Answered
<1> QED BY <1>1, <1>4, <1>5, <1>6, <1>7, <1>8, <1>9, <1>10

LEMMA AddEntryKeeps == ASSUME BInv, AddEntry PROVE BInv'
<1>1. TypeOK BY DEF BInv
<1>2. IsRange(info[ptr]) /\ ptr \in 1 .. Len(info) /\ Len(info) \in Nat
  BY <1>1, NamedRanges DEF AddEntry
<1>3. info[ptr] \in Available \cup Taken
  BY <1>1, <1>2, NamedRanges DEF Available, Taken
<1>4. ptr' \in 1 .. Len(info) + 1 BY <1>2 DEF AddEntry
<1> QED BY <1>2, <1>3, <1>4, AddKeeps DEF AddEntry

LEMMA AddKernelKeeps == ASSUME BInv, AddKernel PROVE BInv'
<1>1. TypeOK BY DEF BInv
<1>2. IsRange(KernelImage) /\ Len(info) \in Nat BY <1>1, NamedRanges
<1>3. KernelImage \in Available \cup Taken BY DEF Taken
<1>4. pc' = "remove" /\ ptr' = 1 /\ 1 \in 1 .. Len(info) + 1 BY <1>2 DEF AddKernel, Goto
<1> QED BY <1>2, <1>3, <1>4, AddKeeps DEF AddKernel

LEMMA SkipEntryKeeps == ASSUME BInv, SkipEntry PROVE BInv'
<1> USE DEF BInv, SkipEntry
<1>1. TypeOK' /\ ptr \in Nat /\ Len(info) \in Nat BY NamedRanges DEF TypeOK
<1>2. Cleared'
  <2>1. \A i \in 1 .. ptr' - 1 : i \in 1 .. ptr - 1 \/ i = ptr BY <1>1
  <2> QED BY <2>1 DEF Cleared, Reserved
<1>3. InSetup' /\ AtNode' /\ HeldApart' /\ Answered'
  BY DEF InSetup, AtNode, HeldApart, Clear, Answered
<1>4. Named' /\ Within' BY NamedStay DEF Named, Within, Bytes
<1> QED BY <1>1, <1>2, <1>3, <1>4

-----------------------------------------------------------------------------
(* __balloc_remove_range                                                   *)

LEMMA RemoveRangeKeeps == ASSUME BInv, RemoveRange PROVE BInv'
<1> USE DEF BInv, RemoveRange
<1>1. TypeOK' BY DEF TypeOK
<1>2. Removed' = Removed BY DEF Removed
<1>3. AtNode'
  <2> DEFINE S == Behind(free_ranges, Removed.begin)
  <2>1. IsTree(free_ranges) /\ S \in SUBSET free_ranges BY DEF TypeOK, Behind
  <2>2. \A n \in node' : n \in free_ranges' /\ n.end > Removed'.begin
    BY <1>2 DEF First, Behind
  <2>3. \A m, n \in node' : m = n BY <2>1, FirstOne
  <2>4. \A m \in S : \E n \in node' : n.begin =< m.begin BY <2>1, NodeFirst
  <2>5. S' = S BY <1>2 DEF Behind
  <2> QED BY <1>2, <2>2, <2>3, <2>4, <2>5 DEF AtNode
<1>4. Cleared' BY DEF Cleared
<1>5. InSetup' /\ HeldApart' /\ Answered'
  BY DEF InSetup, HeldApart, Clear, Answered
<1>6. Named' /\ Within' BY NamedStay DEF Named, Within, Bytes
<1> QED BY <1>1, <1>3, <1>4, <1>5, <1>6

LEMMA CutNodeKeeps == ASSUME BInv, CutNode PROVE BInv'
<1> USE DEF BInv
<1> DEFINE R == Removed
<1>1. PICK n \in node :
        /\ n.begin < R.end
        /\ node' = NextTo(free_ranges, n)
        /\ free_ranges' = Cut(free_ranges, n, R.begin, R.end)
        /\ machine' \in {machine, "BUG"}
  BY DEF CutNode
<1>2. /\ UNCHANGED <<info, pc, ptr, memory_map, held, answer>> /\ pc = "cut"
      /\ R' = R
  BY DEF CutNode, Removed
<1>3. n \in free_ranges /\ n.end > R.begin BY <1>1 DEF AtNode
<1>4. IsTree(free_ranges) /\ IsTree(memory_map) BY DEF TypeOK
<1>5. R.begin \in Nat /\ R.end \in Nat /\ R.begin < R.end BY NamedRanges DEF IsRange
<1>6. /\ IsTree(free_ranges')
      /\ \A k \in free_ranges' : \E m \in free_ranges : m.begin =< k.begin /\ k.end =< m.end
  BY <1>1, <1>3, <1>4, <1>5, CutIsTree
<1>7. held = {} /\ answer = NoAnswer BY <1>2 DEF InSetup
<1>8. TypeOK' BY <1>1, <1>2, <1>6, <1>7 DEF TypeOK
<1>9. /\ \A m \in free_ranges \cup memory_map : m.begin \in Nat /\ m.end \in Nat
      /\ \A k \in free_ranges' : k.begin \in Nat /\ k.end \in Nat
  BY <1>4, <1>6, TreeNumbers
<1>10. InSetup' /\ HeldApart' /\ Answered'
  BY <1>2, <1>7 DEF InSetup, HeldApart, Answered
<1>11. Named' BY <1>2, NamedStay DEF Named, Bytes
<1>12. Within'
  <2>1. ASSUME NEW k \in free_ranges'
        PROVE  \E m \in memory_map : m.begin =< k.begin /\ k.end =< m.end
    <3>1. PICK l \in free_ranges : l.begin =< k.begin /\ k.end =< l.end BY <1>6
    <3>2. PICK m \in memory_map : m.begin =< l.begin /\ l.end =< m.end BY DEF Within
    <3> QED BY <3>1, <3>2, <1>9
  <2> QED BY <1>2, <1>7, <2>1 DEF Within
<1>13. Cleared'
  <2>1. ASSUME NEW i \in 1 .. ptr - 1, Reserved(info[i]) PROVE Clear(free_ranges', info[i])
    <3>1. Clear(free_ranges, info[i]) BY <2>1, <1>2 DEF Cleared
    <3>2. IsRange(info[i]) BY NamedRanges DEF TypeOK
    <3> QED BY <3>1, <3>2, <1>6, <1>9 DEF Clear, IsRange
  <2> QED BY <1>2, <2>1 DEF Cleared, Reserved
<1>14. AtNode'
  <2> DEFINE S == {m \in free_ranges : m.begin > n.begin}
  <2>1. node' = First(S) /\ S \in SUBSET free_ranges BY <1>1 DEF NextTo
  <2>2. free_ranges' = (free_ranges \ {n})
          \cup (IF n.begin < R.begin THEN {Span(n.begin, R.begin)} ELSE {})
          \cup (IF n.end > R.end THEN {Span(R.end, n.end)} ELSE {})
    BY <1>1, <1>3, <1>4, <1>5, CutShape
  <2>3. \A m \in S : n.end < m.begin /\ m # n
    BY <1>3, <1>4, TreeNumbers DEF IsTree
  <2>4. \A m \in node' : m \in S BY <2>1 DEF First
  <2>5. \A m \in node' : m \in free_ranges' /\ m.end > R.begin
    <3> TAKE m \in node'
    <3>1. m \in free_ranges /\ m # n /\ n.end < m.begin BY <2>3, <2>4
    <3>2. m.begin < m.end BY <3>1, <1>4, TreeNumbers
    <3> QED BY <3>1, <3>2, <2>2, <1>3, <1>5, <1>9
  <2>6. \A m, k \in node' : m = k BY <2>1, <1>4, FirstOne
  <2>7. ASSUME NEW k \in free_ranges', k.end > R.begin, k.begin < R.end
        PROVE  \E m \in node' : m.begin =< k.begin
    <3>1. k \in free_ranges \ {n}
      <4>1. Span(n.begin, R.begin).end = R.begin /\ Span(R.end, n.end).begin = R.end
        BY DEF Span
      <4> QED BY <4>1, <2>2, <2>7, <1>5
    <3>2. PICK n2 \in node : n2.begin =< k.begin BY <3>1, <2>7, <1>2 DEF AtNode, Behind
    <3>3. n2 = n BY <1>1 DEF AtNode
    <3>4. n.begin < k.begin
      BY <3>1, <3>2, <3>3, <1>3, <1>4, TreeNumbers DEF IsTree
    <3>5. k \in S BY <3>1, <3>4
    <3> QED BY <3>5, <2>1, <1>4, NodeFirst
  <2> QED BY <1>2, <2>5, <2>6, <2>7 DEF AtNode, Behind
<1> QED BY <1>8, <1>10, <1>11, <1>12, <1>13, <1>14

LEMMA RangeRemovedKeeps == ASSUME BInv, RangeRemoved PROVE BInv'
<1> USE DEF BInv
<1>1. /\ UNCHANGED <<machine, info, memory_map, free_ranges, held, answer>>
      /\ pc = "cut" /\ node' = {}
      /\ \/ ptr =< Len(info) /\ pc' = "remove" /\ ptr' = ptr + 1
         \/ ~(ptr =< Len(info)) /\ pc' = "ready" /\ ptr' = 1
  BY DEF RangeRemoved, Goto
<1>2. /\ Len(info) \in Nat /\ ptr \in Nat \ {0} /\ ptr \in 1 .. Len(info) + 1
      /\ DOMAIN info = 1 .. Len(info)
  BY NamedRanges DEF TypeOK
<1>3. TypeOK' BY <1>1, <1>2 DEF TypeOK
<1>4. held = {} /\ answer = NoAnswer BY <1>1 DEF InSetup
<1>5. InSetup' /\ HeldApart' /\ Answered' BY <1>1, <1>4 DEF InSetup, HeldApart, Answered
<1>6. Named' /\ Within' BY <1>1, NamedStay DEF Named, Within, Bytes
<1>7. AtNode' BY <1>1 DEF AtNode
<1>8. Clear(free_ranges, Removed)
  <2> SUFFICES ASSUME NEW m \in free_ranges, m.end > Removed.begin, m.begin < Removed.end
               PROVE  FALSE
    BY FreeNumbers, NamedRanges DEF Clear, IsRange
  <2>1. PICK n \in node : n.begin =< m.begin BY <1>1 DEF AtNode, Behind
  <2>2. n.begin >= Removed.end BY <2>1 DEF RangeRemoved
  <2>3. n \in free_ranges BY <2>1 DEF AtNode
  <2> QED BY <2>1, <2>2, <2>3, FreeNumbers, NamedRanges DEF IsRange
<1>9. Cleared'
  <2>1. CASE pc' = "remove"
    <3>1. Removed = info[ptr] /\ ptr' = ptr + 1 BY <1>1, <2>1 DEF Removed
    <3>2. \A i \in 1 .. ptr' - 1 : i \in 1 .. ptr - 1 \/ i = ptr BY <1>2, <3>1
    <3> QED BY <1>1, <1>8, <2>1, <3>1, <3>2 DEF Cleared, Reserved
  <2>2. CASE pc' = "ready"
    <3>1. Removed = KernelImage /\ ptr = Len(info) + 1 BY <1>1, <1>2, <2>2 DEF Removed
    <3>2. ASSUME NEW r \in Taken PROVE Clear(free_ranges, r)
      <4>1. CASE r = KernelImage BY <4>1, <3>1, <1>8
      <4>2. CASE r # KernelImage
        <5>1. PICK i \in 1 .. Len(info) : Reserved(info[i]) /\ r = info[i]
          BY <1>2, <4>2 DEF Taken
        <5>2. i \in 1 .. ptr - 1 BY <3>1, <1>2
        <5> QED BY <5>1, <5>2, <1>1 DEF Cleared
      <4> QED BY <4>1, <4>2
    <3>3. free_ranges' \cup held' = free_ranges BY <1>1, <1>4
    <3> QED BY <1>1, <2>2, <3>2, <3>3, NamedStay DEF Cleared
  <2> QED BY <1>1, <2>1, <2>2
<1> QED BY <1>3, <1>5, <1>6, <1>7, <1>9

-----------------------------------------------------------------------------
(* __balloc_alloc and balloc_free                                          *)

\* An aligned address at or behind b, and no smaller one is.
LEMMA AlignUp ==
  ASSUME NEW b \in Nat, NEW a \in Nat \ {0}
  PROVE  LET f == ((b + a - 1) \div a) * a
         IN  /\ f \in Nat /\ f >= b /\ f % a = 0
             /\ \A x \in Nat : x >= b /\ x % a = 0 => f =< x
<1> DEFINE q == (b + a - 1) \div a
<1>1. q \in Nat /\ a * q =< b + a - 1 /\ b + a - 1 < a * q + a OBVIOUS
<1> HIDE DEF q
<1>2. q * a = a * q /\ q * a \in Nat BY <1>1
<1>3. (q * a) % a = 0 BY <1>1
<1>4. ASSUME NEW x \in Nat, x >= b, x % a = 0 PROVE q * a =< x
  <2>1. PICK k \in Nat : x = a * k BY <1>4
  <2>2. CASE k >= q BY <1>1, <2>1, <2>2
  <2>3. CASE k < q
    <3>1. a * (k + 1) =< a * q BY <1>1, <2>3
    <3> QED BY <1>1, <1>4, <2>1, <3>1
  <2> QED BY <1>1, <2>1, <2>2, <2>3
<1> QED BY <1>1, <1>2, <1>3, <1>4 DEF q

\* The block that a node can serve lies in the node and in the window.
LEMMA BlockFits ==
  ASSUME TypeOK, NEW r \in Requests, NEW n \in Serving(r)
  PROVE  LET a == FirstFit(n, r)
         IN  /\ a \in Nat /\ r.size \in Nat /\ r.size > 0
             /\ n \in free_ranges /\ n.begin =< a /\ a + r.size =< n.end
             /\ r.from =< a /\ a + r.size =< r.to /\ a % r.align = 0
<1>1. /\ r.size \in Nat \ {0} /\ r.align \in Nat \ {0}
      /\ r.from \in Nat /\ r.to \in Nat
  BY BallocAssumption
<1>2. n \in free_ranges /\ Fits(n, r) BY DEF Serving, Behind
<1>3. n.begin \in Nat /\ n.end \in Nat BY <1>2, FreeNumbers DEF IsRange
<1> DEFINE b == IF n.begin > r.from THEN n.begin ELSE r.from
<1>4. b \in Nat /\ n.begin =< b /\ r.from =< b BY <1>1, <1>3
<1>5. FirstFit(n, r) = ((b + r.align - 1) \div r.align) * r.align BY DEF FirstFit
<1> HIDE DEF b
<1>6. /\ FirstFit(n, r) \in Nat /\ FirstFit(n, r) >= b /\ FirstFit(n, r) % r.align = 0
  BY <1>1, <1>4, <1>5, AlignUp
<1> QED BY <1>1, <1>2, <1>3, <1>4, <1>6 DEF Fits

\* An allocation that finds a node: the block leaves it, and nothing else.
LEMMA BlockTaken ==
  ASSUME BInv, NEW r \in Requests, NEW n \in First(Serving(r)), NEW block,
         block = Span(FirstFit(n, r), FirstFit(n, r) + r.size),
         free_ranges' = Cut(free_ranges, n, block.begin, block.end)
  PROVE  /\ n \in free_ranges /\ block \in AddressRanges
         /\ n.begin =< block.begin /\ block.end =< n.end
         /\ IsTree(free_ranges')
         /\ \A k \in free_ranges' :
              \E m \in free_ranges : m.begin =< k.begin /\ k.end =< m.end
         /\ Clear(free_ranges', block)
         /\ \A x \in Int : Holds(free_ranges', x) \/ Holds({block}, x) <=> Holds(free_ranges, x)
<1>1. TypeOK /\ IsTree(free_ranges) BY DEF BInv, TypeOK
<1>2. n \in Serving(r) BY DEF First
<1>3. /\ FirstFit(n, r) \in Nat /\ r.size \in Nat /\ r.size > 0
      /\ n \in free_ranges /\ n.begin =< FirstFit(n, r) /\ FirstFit(n, r) + r.size =< n.end
  BY <1>1, <1>2, BlockFits
<1>4. /\ block \in AddressRanges /\ block.begin = FirstFit(n, r)
      /\ block.end = FirstFit(n, r) + r.size
  BY <1>3, SpanIsRange
<1>5. n.begin \in Nat /\ n.end \in Nat BY <1>1, <1>3, TreeNumbers
<1>6. /\ block.begin \in Nat /\ block.end \in Nat /\ block.begin < block.end
      /\ n.begin =< block.begin /\ block.end =< n.end
      /\ block.begin < n.end /\ n.begin < block.end
  BY <1>3, <1>4, <1>5
<1>7. /\ IsTree(free_ranges')
      /\ \A k \in free_ranges' :
           \E m \in free_ranges : m.begin =< k.begin /\ k.end =< m.end
      /\ \A x \in Int : Holds(free_ranges', x) <=>
           Holds(free_ranges, x)
             /\ ~(n.begin =< x /\ x < n.end /\ block.begin =< x /\ x < block.end)
  BY <1>1, <1>3, <1>6, CutIsTree
<1>8. Clear(free_ranges', block)
  <2>1. \A k \in free_ranges' : k.begin \in Int /\ k.end \in Int /\ k.begin < k.end
    BY <1>7, TreeNumbers
  <2>2. \A x \in Int : block.begin =< x /\ x < block.end => ~Holds(free_ranges', x)
    BY <1>5, <1>6, <1>7
  <2> QED BY <1>6, <2>1, <2>2, ClearHolds
<1>9. ASSUME NEW x \in Int
      PROVE  Holds(free_ranges', x) \/ Holds({block}, x) <=> Holds(free_ranges, x)
  <2>1. Holds({block}, x) <=> block.begin =< x /\ x < block.end BY DEF Holds
  <2>2. n.begin =< x /\ x < n.end => Holds(free_ranges, x) BY <1>3 DEF Holds
  <2> QED BY <1>5, <1>6, <1>7, <2>1, <2>2
<1> QED BY <1>3, <1>4, <1>6, <1>7, <1>8, <1>9

LEMMA AllocKeeps == ASSUME BInv, NEW r \in Requests, Alloc(r) PROVE BInv'
<1> USE DEF BInv
<1>1. UNCHANGED <<info, pc, ptr, node, memory_map>> /\ pc = "ready" BY DEF Alloc
<1>2. CASE Serving(r) = {}
  <2>1. /\ answer' = [request |-> r, addr |-> r.to]
        /\ UNCHANGED <<free_ranges, machine, held>>
    BY <1>2 DEF Alloc, First
  <2>2. answer'.addr = answer'.request.to BY <2>1
  <2>3. TypeOK' BY <1>1, <2>1 DEF TypeOK
  <2>4. InSetup' /\ HeldApart' BY <1>1, <2>1 DEF InSetup, HeldApart
  <2>5. Answered' BY <2>2 DEF Answered
  <2>6. Named' /\ Within' /\ Cleared' BY <1>1, <2>1, NamedStay DEF Named, Within, Bytes, Cleared
  <2>7. AtNode' BY <1>1 DEF AtNode
  <2> QED BY <2>3, <2>4, <2>5, <2>6, <2>7
<1>3. CASE Serving(r) # {}
  <2> DEFINE blockOf(n) == Span(FirstFit(n, r), FirstFit(n, r) + r.size)
  <2>0. PICK n \in First(Serving(r)) :
          /\ free_ranges' = Cut(free_ranges, n, blockOf(n).begin, blockOf(n).end)
          /\ machine' \in {machine, "BUG"} /\ held' = held \cup {blockOf(n)}
          /\ answer' = [request |-> r, addr |-> blockOf(n).begin]
    BY <1>3 DEF Alloc
  <2>1. PICK block :
          /\ block = Span(FirstFit(n, r), FirstFit(n, r) + r.size)
          /\ free_ranges' = Cut(free_ranges, n, block.begin, block.end)
          /\ machine' \in {machine, "BUG"} /\ held' = held \cup {block}
          /\ answer' = [request |-> r, addr |-> block.begin]
    BY <2>0
  <2>2. /\ n \in free_ranges /\ block \in AddressRanges
        /\ n.begin =< block.begin /\ block.end =< n.end
        /\ IsTree(free_ranges')
        /\ \A k \in free_ranges' :
             \E m \in free_ranges : m.begin =< k.begin /\ k.end =< m.end
        /\ Clear(free_ranges', block)
    BY <2>1, BlockTaken
  <2>3. TypeOK' BY <1>1, <2>1, <2>2 DEF TypeOK
  <2>4. /\ \A m \in memory_map \cup free_ranges \cup held : IsRange(m)
        /\ \A k \in memory_map' \cup free_ranges' \cup held' : IsRange(k)
    <3>1. TypeOK BY DEF BInv
    <3>2. \A m \in memory_map \cup free_ranges \cup held : IsRange(m) BY <3>1, FreeNumbers
    <3>3. \A k \in free_ranges' : IsRange(k) BY <2>2, TreeNumbers DEF IsRange
    <3>4. IsRange(block) BY <2>2 DEF AddressRanges, IsRange
    <3> QED BY <3>2, <3>3, <3>4, <1>1, <2>1
  <2>5. \A k \in free_ranges' \cup {block} :
          \E m \in free_ranges : m.begin =< k.begin /\ k.end =< m.end
    BY <2>2
  <2>6. ASSUME NEW s, IsRange(s), Clear(free_ranges, s)
        PROVE  Clear(free_ranges', s) /\ Clear({block}, s) /\ Clear({s}, block)
    <3>1. \A k \in free_ranges' \cup {block} : k.end =< s.begin \/ s.end =< k.begin
      <4> TAKE k \in free_ranges' \cup {block}
      <4>1. PICK m \in free_ranges : m.begin =< k.begin /\ k.end =< m.end BY <2>5
      <4>2. m.end =< s.begin \/ s.end =< m.begin BY <2>6 DEF Clear
      <4>3. IsRange(m) /\ IsRange(k) BY <2>1, <2>4
      <4> QED BY <2>6, <4>1, <4>2, <4>3 DEF IsRange
    <3> QED BY <3>1 DEF Clear
  <2>7. InSetup' BY <1>1 DEF InSetup
  <2>8. Named' BY <1>1, NamedStay DEF Named, Bytes
  <2>9. Within'
    <3>1. ASSUME NEW k \in free_ranges' \cup {block}
          PROVE  \E m \in memory_map : m.begin =< k.begin /\ k.end =< m.end
      <4>1. PICK l \in free_ranges : l.begin =< k.begin /\ k.end =< l.end BY <2>5
      <4>2. PICK m \in memory_map : m.begin =< l.begin /\ l.end =< m.end BY DEF Within
      <4>3. IsRange(k) /\ IsRange(l) /\ IsRange(m) BY <2>1, <2>4
      <4> QED BY <4>1, <4>2, <4>3 DEF IsRange
    <3> QED BY <1>1, <2>1, <3>1 DEF Within
  <2>10. Cleared'
    <3>1. ASSUME NEW s \in Taken PROVE Clear(free_ranges' \cup held', s)
      <4>1. IsRange(s) BY NamedRanges
      <4>2. Clear(free_ranges, s) /\ Clear(held, s) BY <1>1, <3>1 DEF Cleared, Clear
      <4>3. Clear(free_ranges', s) /\ Clear({block}, s) BY <2>6, <4>1, <4>2
      <4> QED BY <2>1, <4>2, <4>3 DEF Clear
    <3> QED BY <1>1, <3>1, NamedStay DEF Cleared
  <2>11. AtNode' BY <1>1 DEF AtNode
  <2>12. HeldApart'
    <3>1. ASSUME NEW b \in held
          PROVE  Clear(free_ranges', b) /\ Clear({block}, b) /\ Clear({b}, block)
      BY <2>4, <2>6 DEF HeldApart
    <3>2. ASSUME NEW b \in held' PROVE Clear(free_ranges', b)
      BY <2>1, <2>2, <3>1, <3>2
    <3>3. ASSUME NEW b \in held', NEW c \in held', b # c PROVE Clear({c}, b)
      <4>1. CASE b = block BY <2>1, <3>1, <3>3, <4>1
      <4>2. CASE c = block BY <2>1, <3>1, <3>3, <4>2
      <4>3. CASE b \in held /\ c \in held BY <3>3, <4>3 DEF HeldApart
      <4> QED BY <2>1, <4>1, <4>2, <4>3
    <3> QED BY <3>2, <3>3 DEF HeldApart
  <2>13. Answered'
    <3>1. n \in Serving(r) BY <2>1 DEF First
    <3>2. LET a == FirstFit(n, r)
          IN  /\ a \in Nat /\ r.size \in Nat /\ r.size > 0
              /\ r.from =< a /\ a + r.size =< r.to /\ a % r.align = 0
      BY <3>1, BlockFits
    <3>3. block.begin = FirstFit(n, r) BY <2>1 DEF Span
    <3>4. r.from \in Nat BY BallocAssumption
    <3>5. answer'.addr = FirstFit(n, r) /\ answer'.request = r BY <2>1, <3>3
    <3>6. Span(answer'.addr, answer'.addr + r.size) \in held' BY <2>1, <3>5
    <3> QED BY <3>2, <3>4, <3>5, <3>6 DEF Answered
  <2> QED BY <2>3, <2>7, <2>8, <2>9, <2>10, <2>11, <2>12, <2>13
<1> QED BY <1>2, <1>3

LEMMA FreeKeeps == ASSUME BInv, NEW block \in held, Free(block) PROVE BInv'
<1> USE DEF BInv
<1>1. /\ UNCHANGED <<info, pc, ptr, node, memory_map>> /\ pc = "ready"
      /\ free_ranges' = AddRange(free_ranges, block.begin, block.end)
      /\ machine' \in {machine, "BUG"} /\ held' = held \ {block} /\ answer' = NoAnswer
  BY DEF Free
<1>2. /\ \A m \in memory_map \cup free_ranges \cup held : IsRange(m)
      /\ IsTree(free_ranges) /\ IsTree(memory_map) /\ IsRange(block)
  BY FreeNumbers DEF TypeOK
<1>3. IsTree(free_ranges') BY <1>1, <1>2, AddRangeIsTree DEF IsRange
<1>4. TypeOK' BY <1>1, <1>3 DEF TypeOK
<1>5. ASSUME NEW s, IsRange(s), Clear(free_ranges, s), Clear({block}, s)
      PROVE  Clear(free_ranges', s)
  <2>1. block.end =< s.begin \/ s.end =< block.begin BY <1>5 DEF Clear
  <2> QED BY <1>1, <1>2, <1>5, <2>1, AddRangeClear DEF IsRange
<1>6. InSetup' /\ AtNode' /\ Answered' BY <1>1 DEF InSetup, AtNode, Answered
<1>7. Named' BY <1>1, NamedStay DEF Named, Bytes
<1>8. Within'
  <2>1. ASSUME NEW n \in free_ranges'
        PROVE  \E m \in memory_map : m.begin =< n.begin /\ n.end =< m.end
    <3>1. IsRange(n) BY <1>3, TreeNumbers DEF IsRange
    <3>2. ASSUME NEW x \in Int, n.begin =< x, x < n.end
          PROVE  \E m \in memory_map : m.begin =< x /\ x < m.end
      <4>1. Holds(free_ranges', x) BY <3>2 DEF Holds
      <4>2. Holds(free_ranges, x) \/ (block.begin =< x /\ x < block.end)
        BY <1>1, <1>2, <4>1, AddRangeHolds DEF IsRange
      <4>3. PICK k \in free_ranges \cup {block} : k.begin =< x /\ x < k.end
        BY <4>2 DEF Holds
      <4>4. PICK m \in memory_map : m.begin =< k.begin /\ k.end =< m.end BY <4>3 DEF Within
      <4>5. IsRange(k) /\ IsRange(m) BY <1>2
      <4> QED BY <4>3, <4>4, <4>5 DEF IsRange
    <3>3. n.begin \in Int /\ n.end \in Int /\ n.begin < n.end BY <3>1 DEF IsRange
    <3> HIDE DEF BInv
    <3> QED BY <1>2, <3>2, <3>3, OneNode
  <2> QED BY <1>1, <2>1 DEF Within
<1>9. Cleared'
  <2>1. ASSUME NEW s \in Taken PROVE Clear(free_ranges' \cup held', s)
    <3>1. IsRange(s) BY NamedRanges
    <3>2. Clear(free_ranges, s) /\ Clear(held, s) BY <1>1, <2>1 DEF Cleared, Clear
    <3>3. Clear(free_ranges', s) BY <1>5, <3>1, <3>2 DEF Clear
    <3> QED BY <1>1, <3>2, <3>3 DEF Clear
  <2> QED BY <1>1, <2>1, NamedStay DEF Cleared
<1>10. HeldApart'
  <2>1. ASSUME NEW b \in held, b # block PROVE Clear(free_ranges', b)
    <3>1. IsRange(b) /\ Clear(free_ranges, b) /\ Clear({block}, b)
      BY <1>2, <2>1 DEF HeldApart
    <3> QED BY <1>5, <3>1
  <2> QED BY <1>1, <2>1 DEF HeldApart
<1> QED BY <1>4, <1>6, <1>7, <1>8, <1>9, <1>10

-----------------------------------------------------------------------------
(* The theorems                                                            *)

\* The inductive invariant: two trees of ranges that never touch, the free
\* one inside the known one; what was removed stays out, what is in use is
\* no part of anything else.
THEOREM BInvariance == Spec => []BInv
<1>1. Init => BInv BY BInitHolds
<1>2. BInv /\ [Next]_vars => BInv'
  <2> SUFFICES ASSUME BInv, [Next]_vars PROVE BInv' OBVIOUS
  <2>1. CASE AddEntry BY <2>1, AddEntryKeeps
  <2>2. CASE AddKernel BY <2>2, AddKernelKeeps
  <2>3. CASE SkipEntry BY <2>3, SkipEntryKeeps
  <2>4. CASE RemoveRange BY <2>4, RemoveRangeKeeps
  <2>5. CASE CutNode BY <2>5, CutNodeKeeps
  <2>6. CASE RangeRemoved BY <2>6, RangeRemovedKeeps
  <2>7. ASSUME NEW r \in Requests, Alloc(r) PROVE BInv' BY <2>7, AllocKeeps
  <2>8. ASSUME NEW block \in held, Free(block) PROVE BInv' BY <2>8, FreeKeeps
  <2>9. CASE UNCHANGED vars
    <3>1. UNCHANGED <<machine, info, pc, ptr, node, memory_map, free_ranges, held, answer>>
      BY <2>9 DEF vars
    <3>2. TypeOK' /\ InSetup' BY <3>1 DEF BInv, TypeOK, InSetup
    <3>3. Named' /\ Within' BY <3>1, NamedStay DEF BInv, Named, Within, Bytes
    <3>4. Cleared' BY <3>1, NamedStay DEF BInv, Cleared, Clear, Reserved
    <3>5. AtNode' BY <3>1 DEF BInv, AtNode, Removed, Behind
    <3>6. HeldApart' /\ Answered' BY <3>1 DEF BInv, HeldApart, Clear, Answered
    <3> QED BY <3>2, <3>3, <3>4, <3>5, <3>6 DEF BInv
  <2> QED BY <2>1, <2>2, <2>3, <2>4, <2>5, <2>6, <2>7, <2>8, <2>9 DEF Next
<1> QED BY <1>1, <1>2, PTL DEF Spec

\* Ranges that are clear of each other share no byte.
LEMMA ClearBytes ==
  ASSUME NEW s, \A n \in s : IsRange(n), NEW u, \A n \in u : IsRange(n),
         \A r \in u : Clear(s, r)
  PROVE  Bytes(s) \cap Bytes(u) = {}
<1> SUFFICES ASSUME NEW x \in Bytes(s), x \in Bytes(u) PROVE FALSE OBVIOUS
<1>1. x \in Int /\ Holds(s, x) /\ Holds(u, x) BY HoldsInBytes DEF IsRange
<1>2. PICK r \in u : r.begin =< x /\ x < r.end BY <1>1 DEF Holds
<1>3. PICK n \in s : n.begin =< x /\ x < n.end BY <1>1 DEF Holds
<1>4. n.end =< r.begin \/ r.end =< n.begin BY <1>3 DEF Clear
<1> QED BY <1>1, <1>2, <1>3, <1>4 DEF IsRange

\* Whatever the memory map says, in whatever order: no byte of a reserved
\* region or of the kernel is ever free or handed out, and every free range
\* lies in one range of the known memory.
THEOREM FreeIsUsable == Spec => []OnlyUsableIsFree
<1>1. BInv => OnlyUsableIsFree
  <2> SUFFICES ASSUME BInv PROVE OnlyUsableIsFree OBVIOUS
  <2>1. TypeOK /\ Within /\ Cleared BY DEF BInv
  <2>2. ASSUME pc = "ready" PROVE Bytes(Taken) \cap Bytes(free_ranges \cup held) = {}
    <3>1. \A r \in Taken : Clear(free_ranges \cup held, r) BY <2>1, <2>2 DEF Cleared
    <3>2. \A n \in free_ranges \cup held : IsRange(n) BY <2>1, FreeNumbers
    <3>3. \A n \in Taken : IsRange(n) BY <2>1, NamedRanges
    <3>4. Bytes(free_ranges \cup held) \cap Bytes(Taken) = {} BY <3>1, <3>2, <3>3, ClearBytes
    <3> QED BY <3>4
  <2> QED BY <2>1, <2>2 DEF OnlyUsableIsFree
<1> QED BY <1>1, BInvariance, PTL

\* A block that was handed out is usable memory, no byte of it is free or in
\* another block, and it stands aligned in the window asked for.
THEOREM BlocksAreGood == Spec => []HandedOutOnce
<1>1. BInv => HandedOutOnce
  <2> SUFFICES ASSUME BInv PROVE HandedOutOnce OBVIOUS
  <2>0. TypeOK BY DEF BInv
  <2>1. /\ \A n \in memory_map \cup free_ranges \cup held : IsRange(n)
        /\ \A n \in Available \cup Taken : IsRange(n)
    BY <2>0, FreeNumbers, NamedRanges
  <2>2. ASSUME NEW b \in held PROVE b.begin .. b.end - 1 \subseteq Usable \ Bytes(free_ranges)
    <3> SUFFICES ASSUME NEW x \in b.begin .. b.end - 1
                 PROVE  x \in Usable /\ x \notin Bytes(free_ranges)
      OBVIOUS
    <3>1. x \in Int /\ b.begin =< x /\ x < b.end BY <2>1 DEF IsRange
    <3>2. x \in Bytes({b}) BY DEF Bytes
    <3>3. \A r \in {b} : Clear(free_ranges, r) BY DEF BInv, HeldApart
    <3>4. Bytes(free_ranges) \cap Bytes({b}) = {} BY <2>1, <3>3, ClearBytes
    <3>5. x \in Bytes(Available \cup Taken)
      <4>1. PICK m \in memory_map : m.begin =< b.begin /\ b.end =< m.end
        BY DEF BInv, Within
      <4>2. IsRange(m) /\ IsRange(b) BY <2>1
      <4>3. x \in m.begin .. m.end - 1 BY <3>1, <4>1, <4>2 DEF IsRange
      <4>4. x \in Bytes(memory_map) BY <4>3 DEF Bytes
      <4> QED BY <4>4 DEF BInv, Named
    <3>6. pc = "ready" BY DEF BInv, InSetup
    <3>7. \A r \in Taken : Clear(held, r) BY <3>6 DEF BInv, Cleared, Clear
    <3>8. Bytes(held) \cap Bytes(Taken) = {} BY <2>1, <3>7, ClearBytes
    <3>9. x \in Bytes(held) BY DEF Bytes
    <3>10. x \in Bytes(Available) BY <3>5, <3>8, <3>9 DEF Bytes
    <3> QED BY <3>2, <3>4, <3>8, <3>9, <3>10 DEF Usable
  <2>3. ASSUME NEW a \in held, NEW b \in held, a # b PROVE Bytes({a}) \cap Bytes({b}) = {}
    <3>1. \A r \in {b} : Clear({a}, r) BY <2>3 DEF BInv, HeldApart
    <3> QED BY <2>1, <3>1, ClearBytes
  <2> QED BY <2>2, <2>3 DEF HandedOutOnce, BInv
<1> QED BY <1>1, BInvariance, PTL

LEMMA BytesOfTwo ==
  ASSUME NEW s, NEW u
  PROVE  Bytes(s \cup u) = Bytes(s) \cup Bytes(u)
BY DEF Bytes

\* Whatever is cut out of the free tree and merged into it: once the map has
\* been read, bytes only move between the free ranges and the blocks in use.
THEOREM NoByteLost == Spec => NothingLeaks
<1> DEFINE Same == Bytes(free_ranges' \cup held') = Bytes(free_ranges \cup held)
<1>1. ASSUME BInv, BInv', pc = "ready", [Next]_vars PROVE Same
  <2>0. TypeOK /\ TypeOK' BY <1>1 DEF BInv
  <2>1. /\ \A n \in free_ranges \cup held : IsRange(n)
        /\ \A n \in free_ranges' \cup held' : IsRange(n)
        /\ IsTree(free_ranges)
    <3>1. \A n \in free_ranges' \cup held' : IsRange(n)
      BY <2>0 DEF TypeOK, IsTree, AddressRanges, IsRange
    <3> QED BY <2>0, <3>1, FreeNumbers DEF TypeOK
  <2>2. SUFFICES ASSUME NEW x \in Int
                 PROVE  Holds(free_ranges' \cup held', x) <=> Holds(free_ranges \cup held, x)
    <3>1. \A x : x \in Bytes(free_ranges \cup held)
                  <=> x \in Int /\ Holds(free_ranges \cup held, x)
      BY <2>1, HoldsInBytes DEF IsRange
    <3>2. \A x : x \in Bytes(free_ranges' \cup held')
                  <=> x \in Int /\ Holds(free_ranges' \cup held', x)
      BY <2>1, HoldsInBytes DEF IsRange
    <3> QED BY <2>2, <3>1, <3>2
  <2>3. \A s, u : Holds(s \cup u, x) <=> Holds(s, x) \/ Holds(u, x) BY DEF Holds
  <2>4. ASSUME NEW r \in Requests, Alloc(r)
        PROVE  Holds(free_ranges' \cup held', x) <=> Holds(free_ranges \cup held, x)
    <3>1. CASE Serving(r) = {}
      BY <2>4, <3>1 DEF Alloc, First
    <3>2. CASE Serving(r) # {}
      <4> DEFINE blockOf(n) == Span(FirstFit(n, r), FirstFit(n, r) + r.size)
      <4>0. PICK n \in First(Serving(r)) :
              /\ free_ranges' = Cut(free_ranges, n, blockOf(n).begin, blockOf(n).end)
              /\ held' = held \cup {blockOf(n)}
        BY <2>4, <3>2 DEF Alloc
      <4>1. PICK block :
              /\ block = Span(FirstFit(n, r), FirstFit(n, r) + r.size)
              /\ free_ranges' = Cut(free_ranges, n, block.begin, block.end)
              /\ held' = held \cup {block}
        BY <4>0
      <4>2. Holds(free_ranges', x) \/ Holds({block}, x) <=> Holds(free_ranges, x)
        BY <1>1, <4>1, BlockTaken
      <4>3. Holds(held \cup {block}, x) <=> Holds(held, x) \/ Holds({block}, x) BY <2>3
      <4>4. Holds(free_ranges' \cup held', x) <=> Holds(free_ranges', x) \/ Holds(held', x)
        BY <2>3
      <4>5. Holds(free_ranges \cup held, x) <=> Holds(free_ranges, x) \/ Holds(held, x) BY <2>3
      <4> QED BY <4>1, <4>2, <4>3, <4>4, <4>5
    <3> QED BY <3>1, <3>2
  <2>5. ASSUME NEW block \in held, Free(block)
        PROVE  Holds(free_ranges' \cup held', x) <=> Holds(free_ranges \cup held, x)
    <3>1. /\ free_ranges' = AddRange(free_ranges, block.begin, block.end)
          /\ held' = held \ {block}
      BY <2>5 DEF Free
    <3>2. Holds({block}, x) <=> block.begin =< x /\ x < block.end BY DEF Holds
    <3>3. IsRange(block) /\ block = Span(block.begin, block.end)
      BY <2>0, <2>1 DEF TypeOK, AddressRanges, Span
    <3>4. Clear(free_ranges, Span(block.begin, block.end))
      BY <1>1, <3>3 DEF BInv, HeldApart
    <3>5. Holds(free_ranges', x) <=> Holds(free_ranges, x) \/ Holds({block}, x)
      BY <2>1, <3>1, <3>2, <3>3, <3>4, AddRangeHolds DEF IsRange
    <3>6. Holds(held, x) <=> Holds(held', x) \/ Holds({block}, x) BY <3>1 DEF Holds
    <3> QED BY <2>3, <3>5, <3>6
  <2>6. CASE UNCHANGED vars BY <2>6 DEF vars
  <2>7. ~AddEntry /\ ~AddKernel /\ ~SkipEntry /\ ~RemoveRange /\ ~CutNode /\ ~RangeRemoved
    BY <1>1 DEF AddEntry, AddKernel, SkipEntry, RemoveRange, CutNode, RangeRemoved
  <2> QED BY <1>1, <2>4, <2>5, <2>6, <2>7 DEF Next
<1>2. BInv /\ BInv' /\ [Next]_vars => [pc = "ready" => Same]_vars BY <1>1
<1> QED BY <1>2, BInvariance, PTL DEF Spec, NothingLeaks

\* A request is refused only when no aligned run of free bytes lies in its
\* window: such a run would lie in one range, and that range would serve.
THEOREM NoFalseRefusal == Spec => RefusesOnlyWhenFull
<1> DEFINE Refused(r) == answer' = [request |-> r, addr |-> r.to]
           None(r)    == \A addr \in r.from .. r.to - 1 : ~FitsAt(r, addr)
<1>1. ASSUME BInv, Next, NEW r \in Requests, Refused(r) PROVE None(r)
  <2>1. NoAnswer # [request |-> r, addr |-> r.to]
    <3>1. r.to \in Nat BY BallocAssumption
    <3>2. NoAnswer.addr = -1 BY DEF NoAnswer
    <3> QED BY <3>1, <3>2
  <2>2. pc # "ready" => answer = NoAnswer BY <1>1 DEF BInv, InSetup
  <2>3. ~AddEntry /\ ~AddKernel /\ ~SkipEntry /\ ~RemoveRange /\ ~CutNode /\ ~RangeRemoved
    BY <1>1, <2>1, <2>2
       DEF AddEntry, AddKernel, SkipEntry, RemoveRange, CutNode, RangeRemoved
  <2>4. \A block \in held : ~Free(block) BY <1>1, <2>1 DEF Free
  <2>5. PICK q \in Requests : Alloc(q) BY <1>1, <2>3, <2>4 DEF Next
  <2>6. r \in [size : Nat \ {0}, align : Nat \ {0}, from : Nat, to : Nat]
    BY BallocAssumption
  <2>7. CASE Serving(q) # {}
    <3>1. PICK n \in First(Serving(q)) :
            answer' = [request |-> q, addr |-> Span(FirstFit(n, q), FirstFit(n, q) + q.size).begin]
      BY <2>5, <2>7 DEF Alloc
    <3>2. q = r /\ FirstFit(n, q) = r.to
      <4>1. answer'.request = q /\ answer'.addr = FirstFit(n, q) BY <3>1 DEF Span
      <4>2. answer'.request = r /\ answer'.addr = r.to BY <1>1
      <4> QED BY <4>1, <4>2
    <3>3. n \in Serving(q) /\ TypeOK BY <1>1 DEF First, BInv
    <3>4. FirstFit(n, q) + q.size =< q.to /\ q.size > 0 /\ q.size \in Nat /\ FirstFit(n, q) \in Nat
      BY <3>3, BlockFits
    <3> QED BY <2>6, <3>2, <3>4
  <2>8. CASE Serving(q) = {}
    <3>1. q = r
      <4>1. answer' = [request |-> q, addr |-> q.to] BY <2>5, <2>8 DEF Alloc, First
      <4>2. answer'.request = q BY <4>1
      <4>3. answer'.request = r BY <1>1
      <4> QED BY <4>2, <4>3
    <3>2. SUFFICES ASSUME NEW addr \in r.from .. r.to - 1, FitsAt(r, addr) PROVE FALSE
      OBVIOUS
    <3>3. IsTree(free_ranges) BY <1>1 DEF BInv, TypeOK
    <3>4. \A n \in free_ranges : n.begin \in Nat /\ n.end \in Nat BY <3>3, TreeNumbers
    <3>5. addr \in Nat /\ addr >= r.from BY <2>6
    <3>6. ASSUME NEW x \in Int, addr =< x, x < addr + r.size
          PROVE  \E n \in free_ranges : n.begin =< x /\ x < n.end
      <4>1. x \in addr .. addr + r.size - 1 BY <2>6, <3>5, <3>6
      <4>2. x \in Bytes(free_ranges) BY <3>2, <4>1 DEF FitsAt
      <4> QED BY <3>4, <4>2, HoldsInBytes DEF Holds
    <3>7. PICK n \in free_ranges : n.begin =< addr /\ addr + r.size =< n.end
      <4>1. addr \in Int /\ addr + r.size \in Int /\ addr < addr + r.size BY <2>6, <3>5
      <4> QED BY <3>3, <3>6, <4>1, OneNode
    <3> DEFINE b == IF n.begin > r.from THEN n.begin ELSE r.from
    <3>8. b \in Nat /\ b =< addr BY <2>6, <3>4, <3>5, <3>7
    <3>9. FirstFit(n, r) = ((b + r.align - 1) \div r.align) * r.align BY DEF FirstFit
    <3> HIDE DEF b
    <3>10. addr % r.align = 0 /\ addr + r.size =< r.to BY <3>2 DEF FitsAt
    <3>11. FirstFit(n, r) \in Nat /\ FirstFit(n, r) =< addr
      <4>1. r.align \in Nat \ {0} BY <2>6
      <4>2. \A a \in Nat \ {0} :
              LET f == ((b + a - 1) \div a) * a
              IN  /\ f \in Nat
                  /\ \A y \in Nat : y >= b /\ y % a = 0 => f =< y
        BY <3>8, AlignUp
      <4> QED BY <3>5, <3>8, <3>9, <3>10, <4>1, <4>2
    <3>12. Fits(n, r) BY <2>6, <3>4, <3>5, <3>7, <3>10, <3>11 DEF Fits
    <3>13. n \in Serving(r)
      BY <2>6, <3>4, <3>5, <3>7, <3>10, <3>12 DEF Serving, Behind
    <3> QED BY <2>8, <3>1, <3>13
  <2> QED BY <2>7, <2>8
<1>2. BInv /\ [Next]_vars => [\A r \in Requests : Refused(r) => None(r)]_vars BY <1>1
<1> QED BY <1>2, BInvariance, PTL DEF Spec, RefusesOnlyWhenFull

-----------------------------------------------------------------------------
(* How many nodes the trees take                                           *)

\* The ranges of the setup: the entries of the map, then the kernel image.
Parts == 1 .. Len(info) + 1
Part(i) == IF i =< Len(info) THEN info[i] ELSE KernelImage

\* Where a range of the free tree may begin while the parts before done are
\* removed: a part that has been taken out leaves its end.
Start(i, done) ==
  IF i < done /\ (i =< Len(info) => Reserved(info[i])) THEN Part(i).end ELSE Part(i).begin
Starts(done) == {Start(i, done) : i \in Parts}

Begins(ranges) == {n.begin : n \in ranges}
Ends(ranges)   == {n.end : n \in ranges}

\* After the setup a range begins at such a place or where another one ends.
StartInv ==
  /\ IsFiniteSet(held)
  /\ Begins(memory_map) \subseteq Starts(1)
  /\ pc = "add" => Begins(free_ranges) \subseteq Starts(1)
  /\ pc = "remove" => Begins(free_ranges) \subseteq Starts(ptr)
  /\ pc = "cut" /\ ptr =< Len(info) => Reserved(info[ptr])
  /\ pc = "cut" => \/ Begins(free_ranges) \subseteq Starts(ptr)
                   \/ /\ Begins(free_ranges) \subseteq Starts(ptr + 1)
                      /\ \A n \in node : n.begin >= Removed.end
  /\ pc = "ready" => Begins(free_ranges \cup held)
                       \subseteq Starts(Len(info) + 2) \cup Ends(free_ranges \cup held)

\* Nodes for every part in both trees, for each block in use, and for the two
\* rests of the one that is being cut.
EnoughNodes == 2 * (Len(info) + 1) + Cardinality(held) + 2 =< MaxRanges

NodesInv == EnoughNodes => NodesSuffice
-----------------------------------------------------------------------------
(* Counting                                                                *)

\* A function has at most as many values as arguments.
LEMMA ValuesCount ==
  ASSUME NEW S, IsFiniteSet(S), NEW f
  PROVE  /\ IsFiniteSet({f[x] : x \in S})
         /\ Cardinality({f[x] : x \in S}) =< Cardinality(S)
<1> DEFINE T == {f[x] : x \in S}
           g == [x \in S |-> f[x]]
<1>1. g \in Surjection(S, T) BY DEF Surjection
<1> HIDE DEF T, g
<1>2. IsFiniteSet(T) /\ Cardinality(T) =< Cardinality(S) BY <1>1, FS_Surjection
<1> QED BY <1>2 DEF T

\* The ranges of a tree begin at different places.
LEMMA BeginsCount ==
  ASSUME NEW t, IsTree(t), NEW S, IsFiniteSet(S), Begins(t) \subseteq S
  PROVE  IsFiniteSet(t) /\ Cardinality(t) \in Nat /\ Cardinality(t) =< Cardinality(S)
<1> DEFINE g == [n \in t |-> n.begin]
<1>1. \A m, n \in t : m.begin = n.begin => m = n BY TreeNumbers DEF IsTree
<1>2. g \in Injection(t, S)
  <2>1. \A n \in t : n.begin \in S BY DEF Begins
  <2>2. g \in [t -> S] BY <2>1
  <2> QED BY <1>1, <2>2 DEF Injection, IsInjective
<1> HIDE DEF g
<1> QED BY <1>2, FS_Injection, FS_CardinalityType

LEMMA StartsCount ==
  ASSUME TypeOK, NEW done
  PROVE  IsFiniteSet(Starts(done)) /\ Cardinality(Starts(done)) =< Len(info) + 1
<1> DEFINE f == [i \in Parts |-> Start(i, done)]
<1>1. Len(info) \in Nat BY NamedRanges
<1>2. IsFiniteSet(Parts) /\ Cardinality(Parts) = Len(info) + 1
  BY <1>1, FS_Interval DEF Parts
<1>3. {f[i] : i \in Parts} = Starts(done) BY DEF Starts
<1> HIDE DEF f
<1> QED BY <1>2, <1>3, ValuesCount

LEMMA EndsCount ==
  ASSUME NEW s, IsFiniteSet(s)
  PROVE  IsFiniteSet(Ends(s)) /\ Cardinality(Ends(s)) =< Cardinality(s)
<1> DEFINE f == [n \in s |-> n.end]
<1>1. {f[n] : n \in s} = Ends(s) BY DEF Ends
<1> HIDE DEF f
<1> QED BY <1>1, ValuesCount

LEMMA TreeCount ==
  ASSUME TypeOK, NEW done, NEW t, IsTree(t), Begins(t) \subseteq Starts(done)
  PROVE  Cardinality(t) \in Nat /\ Cardinality(t) =< Len(info) + 1
<1>1. Len(info) \in Nat BY NamedRanges
<1>2. /\ IsFiniteSet(Starts(done)) /\ Cardinality(Starts(done)) =< Len(info) + 1
      /\ Cardinality(Starts(done)) \in Nat
  BY StartsCount, FS_CardinalityType
<1>3. Cardinality(t) \in Nat /\ Cardinality(t) =< Cardinality(Starts(done))
  BY <1>2, BeginsCount
<1> QED BY <1>1, <1>2, <1>3

\* The parts of the map bound both trees.
LEMMA TreesCount ==
  ASSUME BInv, StartInv
  PROVE  /\ Cardinality(memory_map) \in Nat /\ Cardinality(memory_map) =< Len(info) + 1
         /\ Cardinality(free_ranges) \in Nat /\ Cardinality(held) \in Nat
         /\ Cardinality(free_ranges) =< Len(info) + 1 + Cardinality(held)
<1>1. TypeOK /\ IsTree(memory_map) /\ IsTree(free_ranges) /\ Len(info) \in Nat
  BY NamedRanges DEF BInv, TypeOK
<1>2. IsFiniteSet(held) /\ Cardinality(held) \in Nat BY FS_CardinalityType DEF StartInv
<1>3. ASSUME NEW done, NEW t, IsTree(t), Begins(t) \subseteq Starts(done)
      PROVE  Cardinality(t) \in Nat /\ Cardinality(t) =< Len(info) + 1
  BY <1>1, <1>3, TreeCount
<1>4. Cardinality(memory_map) \in Nat /\ Cardinality(memory_map) =< Len(info) + 1
  BY <1>1, <1>3 DEF StartInv
<1>5. CASE pc # "ready"
  <2>1. \E done : Begins(free_ranges) \subseteq Starts(done)
    BY <1>1, <1>5 DEF StartInv, TypeOK
  <2>2. Cardinality(free_ranges) \in Nat /\ Cardinality(free_ranges) =< Len(info) + 1
    BY <1>1, <1>3, <2>1
  <2> QED BY <1>1, <1>2, <1>4, <2>2
<1>6. CASE pc = "ready"
  <2> DEFINE S == Starts(Len(info) + 2)
  <2>1. \A n \in free_ranges : n.begin \in S \cup Ends(held)
    <3> TAKE n \in free_ranges
    <3>1. n.begin \in S \/ \E z \in free_ranges \cup held : n.begin = z.end
      BY <1>6 DEF StartInv, Begins, Ends
    <3>2. \A z \in free_ranges : n.begin # z.end BY <1>1, TreeNumbers DEF IsTree
    <3> QED BY <3>1, <3>2 DEF Ends
  <2>2. IsFiniteSet(S) /\ Cardinality(S) =< Len(info) + 1 BY <1>1, StartsCount
  <2>3. IsFiniteSet(Ends(held)) /\ Cardinality(Ends(held)) =< Cardinality(held)
    BY <1>2, EndsCount
  <2> HIDE DEF S
  <2>4. /\ Cardinality(S) \in Nat /\ Cardinality(Ends(held)) \in Nat
        /\ Cardinality(S \cap Ends(held)) \in Nat
    BY <2>2, <2>3, FS_CardinalityType, FS_Intersection
  <2>5. /\ IsFiniteSet(S \cup Ends(held))
        /\ Cardinality(S \cup Ends(held))
             = Cardinality(S) + Cardinality(Ends(held)) - Cardinality(S \cap Ends(held))
    BY <2>2, <2>3, FS_Union
  <2>6. Begins(free_ranges) \subseteq S \cup Ends(held) BY <2>1 DEF Begins
  <2>7. /\ Cardinality(free_ranges) \in Nat
        /\ Cardinality(free_ranges) =< Cardinality(S \cup Ends(held))
    BY <1>1, <2>5, <2>6, BeginsCount
  <2> QED BY <1>1, <1>2, <1>4, <2>2, <2>3, <2>4, <2>5, <2>7
<1> QED BY <1>5, <1>6

-----------------------------------------------------------------------------
(* Where ranges begin                                                      *)

LEMMA StartsAre ==
  ASSUME TypeOK
  PROVE  /\ \A i \in Parts : Part(i).begin \in Starts(1)
         /\ \A i \in Parts : IsRange(Part(i))
         /\ KernelImage.begin \in Starts(1)
         /\ ptr \in Parts /\ Part(ptr) = Removed
<1>1. /\ Len(info) \in Nat /\ \A i \in 1 .. Len(info) : IsRange(info[i])
      /\ IsRange(KernelImage)
  BY NamedRanges
<1>2. \A i \in Parts : IsRange(Part(i)) BY <1>1 DEF Parts, Part
<1>3. \A i \in Parts : Part(i).begin \in Starts(1)
  <2> TAKE i \in Parts
  <2>1. Start(i, 1) = Part(i).begin BY <1>1 DEF Start, Parts
  <2> QED BY <2>1 DEF Starts
<1>4. Len(info) + 1 \in Parts /\ Part(Len(info) + 1) = KernelImage
  BY <1>1 DEF Parts, Part
<1>5. ptr \in Parts /\ Part(ptr) = Removed BY DEF TypeOK, Parts, Part, Removed
<1> QED BY <1>2, <1>3, <1>4, <1>5

\* Passing a part that is not taken out changes nothing; passing one that is
\* replaces its begin by its end.
LEMMA StartsMove ==
  ASSUME TypeOK
  PROVE  /\ ptr =< Len(info) /\ ~Reserved(info[ptr]) => Starts(ptr + 1) = Starts(ptr)
         /\ (ptr =< Len(info) /\ Reserved(info[ptr])) \/ ptr = Len(info) + 1 =>
              /\ Starts(ptr) \ {Removed.begin} \subseteq Starts(ptr + 1)
              /\ Removed.end \in Starts(ptr + 1)
<1>1. Len(info) \in Nat /\ ptr \in Parts /\ Part(ptr) = Removed BY NamedRanges, StartsAre
<1>2. ptr \in Nat /\ Parts \subseteq Nat BY <1>1 DEF Parts
<1>3. \A i \in Parts : i # ptr => Start(i, ptr + 1) = Start(i, ptr)
  <2> TAKE i \in Parts
  <2>1. i \in Nat BY <1>2
  <2>2. i # ptr => (i < ptr + 1 <=> i < ptr) BY <1>2, <2>1
  <2> QED BY <2>2 DEF Start
<1>4. Start(ptr, ptr) = Removed.begin BY <1>1, <1>2 DEF Start
<1>5. ASSUME ptr =< Len(info), ~Reserved(info[ptr]) PROVE Starts(ptr + 1) = Starts(ptr)
  <2>1. Start(ptr, ptr + 1) = Start(ptr, ptr) BY <1>1, <1>2, <1>5 DEF Start
  <2>2. \A i \in Parts : Start(i, ptr + 1) = Start(i, ptr) BY <1>3, <2>1
  <2> QED BY <2>2 DEF Starts
<1>6. ASSUME (ptr =< Len(info) /\ Reserved(info[ptr])) \/ ptr = Len(info) + 1
      PROVE  /\ Starts(ptr) \ {Removed.begin} \subseteq Starts(ptr + 1)
             /\ Removed.end \in Starts(ptr + 1)
  <2>1. Start(ptr, ptr + 1) = Removed.end BY <1>1, <1>2, <1>6 DEF Start
  <2>2. \A x \in Starts(ptr) \ {Removed.begin} : x \in Starts(ptr + 1)
    <3> TAKE x \in Starts(ptr) \ {Removed.begin}
    <3>1. PICK i \in Parts : x = Start(i, ptr) BY DEF Starts
    <3>2. i # ptr BY <1>4, <3>1
    <3> QED BY <1>3, <3>1, <3>2 DEF Starts
  <2> QED BY <1>1, <2>1, <2>2 DEF Starts
<1> QED BY <1>5, <1>6

\* What AddRange makes begins where the new range or one of the old ones did.
LEMMA AddRangeBegins ==
  ASSUME NEW t, IsTree(t), NEW from \in Nat, NEW to \in Nat, from < to
  PROVE  Begins(AddRange(t, from, to)) \subseteq Begins(t) \cup {from}
<1>1. PICK gone \in SUBSET t, b \in Nat, e \in Nat : Merges(t, from, to, gone, b, e)
  BY AddRangeShape
<1>2. b = from \/ \E g \in gone : g.begin = b
  <2>1. b =< from /\ b < e BY <1>1 DEF Merges
  <2>2. from =< b \/ \E g \in gone : g.begin =< b /\ b < g.end BY <1>1, <2>1 DEF Merges
  <2>3. \A g \in gone : b =< g.begin BY <1>1 DEF Merges
  <2>4. \A g \in gone : g.begin \in Nat BY TreeNumbers
  <2> QED BY <2>1, <2>2, <2>3, <2>4
<1>3. AddRange(t, from, to) = (t \ gone) \cup {Span(b, e)} /\ Span(b, e).begin = b
  BY <1>1 DEF Merges, Span
<1> QED BY <1>2, <1>3 DEF Begins

LEMMA SpanIs == ASSUME NEW b, NEW e PROVE Span(b, e).begin = b /\ Span(b, e).end = e
BY DEF Span

-----------------------------------------------------------------------------
(* The steps of the setup                                                  *)

LEMMA StartInit == ASSUME Init PROVE StartInv
BY FS_EmptySet DEF Init, StartInv, Begins

\* A step that leaves the map alone leaves its parts alone.
LEMMA PartsStay ==
  ASSUME info' = info
  PROVE  Parts' = Parts /\ \A d : Starts(d)' = Starts(d)
BY DEF Parts, Starts, Start, Part, Reserved

LEMMA AddStarts ==
  ASSUME BInv, StartInv, pc = "add", NEW range, IsRange(range), AddToBoth(range),
         range.begin \in Starts(1), info' = info, held' = held,
         \/ pc' = "add"
         \/ pc' = "remove" /\ ptr' = 1
  PROVE  StartInv'
<1>1. IsTree(memory_map) /\ IsTree(free_ranges) BY DEF BInv, TypeOK
<1>2. Begins(memory_map') \subseteq Starts(1) /\ Begins(free_ranges') \subseteq Starts(1)
  BY <1>1, AddRangeBegins DEF AddToBoth, IsRange, StartInv
<1>3. \A d : Starts(d)' = Starts(d) BY PartsStay
<1>4. pc' = "remove" => Starts(ptr)' = Starts(1)
  BY PartsStay DEF Starts, Parts, Start, Part, Reserved
<1> QED BY <1>2, <1>3, <1>4 DEF StartInv, Begins

LEMMA AddEntryStarts == ASSUME BInv, StartInv, AddEntry PROVE StartInv'
<1>1. TypeOK /\ ptr =< Len(info) BY DEF BInv, AddEntry
<1>2. ptr \in Parts /\ Removed = info[ptr] /\ Part(ptr) = Removed
  BY <1>1, StartsAre DEF Removed
<1>3. IsRange(info[ptr]) /\ info[ptr].begin \in Starts(1) BY <1>1, <1>2, StartsAre
<1> QED BY <1>3, AddStarts DEF AddEntry

LEMMA AddKernelStarts == ASSUME BInv, StartInv, AddKernel PROVE StartInv'
<1>1. TypeOK BY DEF BInv
<1>2. IsRange(KernelImage) /\ KernelImage.begin \in Starts(1) BY <1>1, NamedRanges, StartsAre
<1> QED BY <1>2, AddStarts DEF AddKernel, Goto

LEMMA SkipEntryStarts == ASSUME BInv, StartInv, SkipEntry PROVE StartInv'
<1>1. TypeOK BY DEF BInv
<1>2. Starts(ptr + 1) = Starts(ptr) BY <1>1, StartsMove DEF SkipEntry
<1>3. \A d : Starts(d)' = Starts(d) BY PartsStay DEF SkipEntry
<1>4. Starts(ptr)' = Starts(ptr + 1)
  BY PartsStay DEF SkipEntry, Starts, Start, Parts, Part, Reserved
<1> QED BY <1>2, <1>3, <1>4 DEF SkipEntry, StartInv, Begins

LEMMA RemoveRangeStarts == ASSUME BInv, StartInv, RemoveRange PROVE StartInv'
<1>1. \A d : Starts(d)' = Starts(d) BY PartsStay DEF RemoveRange
<1>2. Starts(ptr)' = Starts(ptr)
  BY DEF RemoveRange, Starts, Start, Parts, Part, Reserved
<1> QED BY <1>1, <1>2 DEF RemoveRange, StartInv, Begins, Reserved

\* A node that reaches over the end of what is removed is the last one there.
LEMMA CutNodeStarts == ASSUME BInv, StartInv, CutNode PROVE StartInv'
<1> DEFINE R == Removed
<1>1. PICK n \in node :
        /\ n.begin < R.end
        /\ node' = NextTo(free_ranges, n)
        /\ free_ranges' = Cut(free_ranges, n, R.begin, R.end)
  BY DEF CutNode
<1>2. UNCHANGED <<info, pc, ptr, memory_map, held>> /\ pc = "cut" /\ R' = R
  BY DEF CutNode, Removed
<1>3. TypeOK /\ IsTree(free_ranges) BY DEF BInv, TypeOK
<1>4. n \in free_ranges /\ n.end > R.begin BY <1>1 DEF BInv, AtNode
<1>5. \A m \in free_ranges : m.begin \in Nat /\ m.end \in Nat /\ m.begin < m.end
  BY <1>3, TreeNumbers
<1>6. R.begin \in Nat /\ R.end \in Nat /\ R.begin < R.end BY <1>3, NamedRanges DEF IsRange
<1>7. /\ \A d : Starts(d)' = Starts(d)
      /\ Starts(ptr)' = Starts(ptr) /\ Starts(ptr + 1)' = Starts(ptr + 1)
  BY <1>2 DEF Starts, Start, Parts, Part, Reserved
<1>8. Begins(free_ranges) \subseteq Starts(ptr) BY <1>1, <1>2, <1>5, <1>6, <1>4 DEF StartInv
<1>9. \A k \in free_ranges' : \/ k \in free_ranges \ {n}
                              \/ n.begin < R.begin /\ k.begin = n.begin
                              \/ n.end > R.end /\ k.begin = R.end
  BY <1>1, <1>3, <1>4, <1>6, CutShape, SpanIs
<1>10. CASE n.end =< R.end
  <2>1. \A k \in free_ranges' : k.begin \in Begins(free_ranges)
    BY <1>4, <1>5, <1>6, <1>9, <1>10 DEF Begins
  <2>2. Begins(free_ranges') \subseteq Starts(ptr) BY <1>8, <2>1 DEF Begins
  <2> QED BY <1>2, <1>7, <2>2 DEF StartInv, Begins
<1>11. CASE n.end > R.end
  <2>1. ASSUME NEW m \in free_ranges, m # n PROVE m.begin # R.begin
    <3> SUFFICES ASSUME m.begin = R.begin PROVE FALSE OBVIOUS
    <3>1. m \in Behind(free_ranges, R.begin) BY <1>5 DEF Behind
    <3>2. PICK l \in node : l.begin =< m.begin BY <1>2, <1>6, <3>1 DEF BInv, AtNode
    <3>3. l = n BY <1>1 DEF BInv, AtNode
    <3> QED BY <1>3, <1>4, <1>5, <1>6, <1>11, <2>1, <3>2, <3>3 DEF IsTree
  <2>2. (ptr =< Len(info) /\ Reserved(info[ptr])) \/ ptr = Len(info) + 1
    BY <1>2, <1>3, NamedRanges DEF StartInv, TypeOK
  <2>3. /\ Starts(ptr) \ {R.begin} \subseteq Starts(ptr + 1)
        /\ R.end \in Starts(ptr + 1)
    BY <1>3, <2>2, StartsMove
  <2>4. \A k \in free_ranges' : k.begin \in Starts(ptr + 1)
    <3> TAKE k \in free_ranges'
    <3>1. CASE k.begin = R.end BY <2>3, <3>1
    <3>2. CASE k.begin # R.end
      <4>1. k.begin \in Begins(free_ranges) /\ k.begin # R.begin
        BY <1>4, <1>5, <1>6, <1>9, <2>1, <3>2 DEF Begins
      <4> QED BY <1>8, <2>3, <4>1
    <3> QED BY <3>1, <3>2
  <2>5. \A m \in node' : m.begin >= R.end
    <3> TAKE m \in node'
    <3>1. m \in free_ranges /\ m.begin > n.begin BY <1>1 DEF NextTo, First
    <3>2. n.end < m.begin BY <1>3, <1>4, <1>5, <3>1 DEF IsTree
    <3> QED BY <1>4, <1>5, <1>6, <1>11, <3>1, <3>2
  <2>6. Begins(free_ranges') \subseteq Starts(ptr + 1) BY <2>4 DEF Begins
  <2> QED BY <1>2, <1>7, <2>5, <2>6 DEF StartInv, Begins
<1> QED BY <1>4, <1>5, <1>6, <1>10, <1>11

LEMMA RangeRemovedStarts == ASSUME BInv, StartInv, RangeRemoved PROVE StartInv'
<1>1. /\ UNCHANGED <<info, memory_map, free_ranges, held>> /\ pc = "cut"
      /\ \/ ptr =< Len(info) /\ pc' = "remove" /\ ptr' = ptr + 1
         \/ ~(ptr =< Len(info)) /\ pc' = "ready" /\ ptr' = 1
      /\ \A n \in node : n.begin >= Removed.end
  BY DEF RangeRemoved, Goto
<1>2. TypeOK /\ IsTree(free_ranges) /\ Len(info) \in Nat /\ ptr \in 1 .. Len(info) + 1
  BY NamedRanges DEF BInv, TypeOK
<1>3. \A m \in free_ranges : m.begin \in Nat /\ m.end \in Nat /\ m.begin < m.end
  BY <1>2, TreeNumbers
<1>4. Removed.begin \in Nat /\ Removed.end \in Nat /\ Removed.begin < Removed.end
  BY <1>2, NamedRanges DEF IsRange
<1>5. Removed.begin \notin Begins(free_ranges)
  <2> SUFFICES ASSUME NEW m \in free_ranges, m.begin = Removed.begin PROVE FALSE
    BY DEF Begins
  <2>1. m \in Behind(free_ranges, Removed.begin) BY <1>3 DEF Behind
  <2>2. PICK l \in node : l.begin =< m.begin BY <1>1, <1>4, <2>1 DEF BInv, AtNode
  <2>3. l \in free_ranges BY <2>2 DEF BInv, AtNode
  <2> QED BY <1>1, <1>3, <1>4, <2>2, <2>3
<1>6. (ptr =< Len(info) /\ Reserved(info[ptr])) \/ ptr = Len(info) + 1
  BY <1>1, <1>2 DEF StartInv
<1>7. Begins(free_ranges) \subseteq Starts(ptr + 1)
  <2>1. CASE Begins(free_ranges) \subseteq Starts(ptr)
    BY <1>2, <1>5, <1>6, <2>1, StartsMove
  <2> QED BY <1>1, <2>1 DEF StartInv
<1>8. \A d : Starts(d)' = Starts(d) BY <1>1, PartsStay
<1>9. CASE pc' = "remove"
  <2>1. Starts(ptr)' = Starts(ptr + 1)
    BY <1>1, <1>9 DEF Starts, Start, Parts, Part, Reserved
  <2> QED BY <1>1, <1>7, <1>8, <1>9, <2>1 DEF StartInv, Begins
<1>10. CASE pc' = "ready"
  <2>1. ptr + 1 = Len(info) + 2 BY <1>1, <1>2, <1>10
  <2>2. Starts(Len(info) + 2)' = Starts(Len(info) + 2)
    BY <1>1 DEF Starts, Start, Parts, Part, Reserved
  <2>3. held = {} BY <1>1 DEF BInv, InSetup
  <2>4. Begins(free_ranges \cup held)' \subseteq Starts(Len(info) + 2)
    BY <1>1, <1>7, <2>1, <2>3 DEF Begins
  <2> QED BY <1>1, <1>8, <1>10, <2>2, <2>4 DEF StartInv, Begins
<1> QED BY <1>1, <1>9, <1>10

-----------------------------------------------------------------------------
(* Allocations                                                             *)

\* Once the map has been read, what has been cut up and merged begins where
\* it may, when each range that is new does.
LEMMA ReadyStarts ==
  ASSUME StartInv, pc = "ready", UNCHANGED <<info, pc, ptr, memory_map>>,
         IsFiniteSet(held'),
         \A k \in free_ranges' \cup held' :
           \/ k.begin \in Starts(Len(info) + 2)
           \/ \E z \in free_ranges' \cup held' : k.begin = z.end
  PROVE  StartInv'
<1>1. \A d : Starts(d)' = Starts(d) BY PartsStay
<1>2. Starts(Len(info) + 2)' = Starts(Len(info) + 2)
  BY DEF Starts, Start, Parts, Part, Reserved
<1>3. Begins(free_ranges \cup held)'
        \subseteq Starts(Len(info) + 2) \cup Ends(free_ranges \cup held)'
  BY DEF Begins, Ends
<1>4. Begins(memory_map)' \subseteq Starts(1) BY DEF StartInv, Begins
<1> QED BY <1>1, <1>2, <1>3, <1>4 DEF StartInv

LEMMA AllocStarts == ASSUME BInv, StartInv, NEW r \in Requests, Alloc(r) PROVE StartInv'
<1>1. UNCHANGED <<info, pc, ptr, node, memory_map>> /\ pc = "ready" BY DEF Alloc
<1> DEFINE P == free_ranges \cup held
<1>2. \A k \in P : k.begin \in Starts(Len(info) + 2) \/ \E z \in P : k.begin = z.end
  BY <1>1 DEF StartInv, Begins, Ends
<1>3. CASE UNCHANGED <<free_ranges, held>>
  <2>1. IsFiniteSet(held') BY <1>3 DEF StartInv
  <2> QED BY <1>1, <1>2, <1>3, <2>1, ReadyStarts
<1>4. ASSUME NEW n \in First(Serving(r)), NEW block,
             block = Span(FirstFit(n, r), FirstFit(n, r) + r.size),
             free_ranges' = Cut(free_ranges, n, block.begin, block.end),
             held' = held \cup {block}
      PROVE  StartInv'
  <2>1. /\ n \in free_ranges /\ block \in AddressRanges
        /\ n.begin =< block.begin /\ block.end =< n.end
    BY <1>4, BlockTaken
  <2>2. TypeOK /\ IsTree(free_ranges) BY DEF BInv, TypeOK
  <2>3. /\ n.begin \in Nat /\ n.end \in Nat /\ n.begin < n.end
        /\ block.begin \in Nat /\ block.end \in Nat /\ block.begin < block.end
    BY <2>1, <2>2, TreeNumbers DEF AddressRanges
  <2> DEFINE L == Span(n.begin, block.begin)
             R == Span(block.end, n.end)
  <2>4. free_ranges' = (free_ranges \ {n})
          \cup (IF n.begin < block.begin THEN {L} ELSE {})
          \cup (IF n.end > block.end THEN {R} ELSE {})
    BY <1>4, <2>1, <2>2, <2>3, CutShape
  <2>5. /\ L.begin = n.begin /\ L.end = block.begin
        /\ R.begin = block.end /\ R.end = n.end
    BY SpanIs
  <2> HIDE DEF L, R
  <2> DEFINE Q == free_ranges' \cup held'
  <2>6. \A z \in P : \E q \in Q : z.end = q.end
    <3> TAKE z \in P
    <3>1. CASE z \in held BY <3>1, <1>4
    <3>2. CASE z \in free_ranges /\ z # n BY <3>2, <2>4
    <3>3. CASE z = n /\ n.end > block.end BY <3>3, <2>4, <2>5
    <3>4. CASE z = n /\ n.end = block.end BY <3>4, <1>4
    <3> QED BY <3>1, <3>2, <3>3, <3>4, <2>1, <2>3
  <2>7. \A k \in P : k.begin \in Starts(Len(info) + 2) \/ \E z \in Q : k.begin = z.end
    BY <1>2, <2>6
  <2>8. block.begin = n.begin \/ (n.begin < block.begin /\ L \in Q)
    BY <2>1, <2>3, <2>4
  <2>9. block \in Q BY <1>4
  <2>10. \A k \in Q : \/ \E p \in P : k.begin = p.begin
                      \/ \E z \in Q : k.begin = z.end
    <3> TAKE k \in Q
    <3>1. CASE k = block BY <2>1, <2>5, <2>8, <3>1
    <3>2. CASE k \in held \/ k \in free_ranges BY <3>2
    <3>3. CASE k = L BY <2>1, <2>5, <3>3
    <3>4. CASE k = R BY <2>5, <2>9, <3>4
    <3> QED BY <1>4, <2>4, <3>1, <3>2, <3>3, <3>4
  <2>11. \A k \in Q : k.begin \in Starts(Len(info) + 2) \/ \E z \in Q : k.begin = z.end
    BY <2>7, <2>10
  <2>12. IsFiniteSet(held') BY <1>4, FS_AddElement DEF StartInv
  <2> QED BY <1>1, <2>11, <2>12, ReadyStarts
<1>5. CASE Serving(r) = {}
  BY <1>3, <1>5 DEF Alloc, First
<1>6. CASE Serving(r) # {}
  <2> DEFINE blockOf(n) == Span(FirstFit(n, r), FirstFit(n, r) + r.size)
  <2>1. PICK n \in First(Serving(r)) :
          /\ free_ranges' = Cut(free_ranges, n, blockOf(n).begin, blockOf(n).end)
          /\ held' = held \cup {blockOf(n)}
    BY <1>6 DEF Alloc
  <2> QED BY <1>4, <2>1
<1> QED BY <1>5, <1>6

LEMMA FreeStarts ==
  ASSUME BInv, StartInv, NEW block \in held, Free(block) PROVE StartInv'
<1>1. /\ UNCHANGED <<info, pc, ptr, node, memory_map>> /\ pc = "ready"
      /\ free_ranges' = AddRange(free_ranges, block.begin, block.end)
      /\ held' = held \ {block}
  BY DEF Free
<1>2. TypeOK /\ IsTree(free_ranges) /\ HeldApart BY DEF BInv, TypeOK
<1> DEFINE P == free_ranges \cup held
           Q == free_ranges' \cup held'
<1>3. \A k \in P : k.begin \in Nat /\ k.end \in Nat /\ k.begin < k.end
  BY <1>2, FreeNumbers DEF IsRange
<1>4. \A k \in P : k.begin \in Starts(Len(info) + 2) \/ \E z \in P : k.begin = z.end
  BY <1>1 DEF StartInv, Begins, Ends
<1>5. \A k, l \in P : k # l => k.end =< l.begin \/ l.end =< k.begin
  <2> TAKE k, l \in P
  <2>1. CASE k \in free_ranges /\ l \in free_ranges BY <1>2, <1>3, <2>1 DEF IsTree
  <2>2. CASE l \in held /\ k # l BY <1>2, <2>2 DEF HeldApart, Clear
  <2>3. CASE k \in held /\ k # l BY <1>2, <2>3 DEF HeldApart, Clear
  <2> QED BY <2>1, <2>2, <2>3
<1>6. PICK gone \in SUBSET free_ranges, b \in Nat, e \in Nat :
        Merges(free_ranges, block.begin, block.end, gone, b, e)
  BY <1>2, <1>3, AddRangeShape
<1>7. Clear(free_ranges, Span(block.begin, block.end))
  BY <1>2, SpanIs DEF HeldApart, Clear
<1> DEFINE G == gone \cup {block}
           M == Span(b, e)
<1>8. /\ free_ranges' = (free_ranges \ gone) \cup {M}
      /\ \A m \in free_ranges \ gone : m.end < b \/ e < m.begin
      /\ \A g \in G : b =< g.begin /\ g.end =< e
      /\ \A x \in Int : b =< x /\ x < e => \E g \in G : g.begin =< x /\ x < g.end
      /\ M.begin = b /\ M.end = e /\ b < e
  BY <1>1, <1>3, <1>6, <1>7, SpanIs DEF Merges
<1> HIDE DEF G, M
<1>9. G \subseteq P BY DEF G
<1>10. Q = (P \ G) \cup {M}
  <2>1. block \notin free_ranges BY <1>2, <1>3 DEF HeldApart, Clear
  <2>2. \A g \in gone : g \notin held BY <1>2, <1>3 DEF HeldApart, Clear
  <2> QED BY <1>1, <1>8, <2>1, <2>2 DEF G
<1>11. \E g \in G : g.begin = b
  <2>1. PICK g \in G : g.begin =< b /\ b < g.end BY <1>8
  <2> QED BY <1>3, <1>8, <1>9, <2>1
<1>12. ASSUME NEW k \in P, k \notin G, NEW z \in G, k.begin = z.end
       PROVE  k.begin = M.end
  <2> SUFFICES ASSUME k.begin < e PROVE FALSE BY <1>3, <1>8, <1>9, <1>12
  <2>1. b =< k.begin /\ k.begin \in Int BY <1>3, <1>8, <1>9, <1>12
  <2>2. PICK g \in G : g.begin =< k.begin /\ k.begin < g.end BY <1>8, <2>1
  <2> QED BY <1>3, <1>5, <1>9, <1>12, <2>2
<1>13. ASSUME NEW z \in G PROVE z.end # b BY <1>3, <1>8, <1>9
<1>14. \A k \in Q : k.begin \in Starts(Len(info) + 2) \/ \E z \in Q : k.begin = z.end
  <2> TAKE k \in Q
  <2>1. CASE k \in P \ G
    <3>1. CASE k.begin \in Starts(Len(info) + 2) BY <3>1
    <3>2. ASSUME NEW z \in P, k.begin = z.end PROVE \E y \in Q : k.begin = y.end
      BY <1>10, <1>12, <2>1, <3>2
    <3> QED BY <1>4, <2>1, <3>1, <3>2
  <2>2. CASE k = M
    <3>1. PICK g \in P : g.begin = k.begin BY <1>8, <1>9, <1>11, <2>2
    <3>2. CASE g.begin \in Starts(Len(info) + 2) BY <3>1, <3>2
    <3>3. ASSUME NEW z \in P, g.begin = z.end PROVE \E y \in Q : k.begin = y.end
      BY <1>8, <1>10, <1>13, <2>2, <3>1, <3>3
    <3> QED BY <1>4, <3>1, <3>2, <3>3
  <2> QED BY <1>10, <2>1, <2>2
<1>15. IsFiniteSet(held') BY <1>1, FS_RemoveElement DEF StartInv
<1> QED BY <1>1, <1>14, <1>15, ReadyStarts

-----------------------------------------------------------------------------
(* The nodes suffice                                                       *)

LEMMA StartNext == ASSUME BInv, StartInv, [Next]_vars PROVE StartInv'
<1>1. CASE AddEntry BY <1>1, AddEntryStarts
<1>2. CASE AddKernel BY <1>2, AddKernelStarts
<1>3. CASE SkipEntry BY <1>3, SkipEntryStarts
<1>4. CASE RemoveRange BY <1>4, RemoveRangeStarts
<1>5. CASE CutNode BY <1>5, CutNodeStarts
<1>6. CASE RangeRemoved BY <1>6, RangeRemovedStarts
<1>7. ASSUME NEW r \in Requests, Alloc(r) PROVE StartInv' BY <1>7, AllocStarts
<1>8. ASSUME NEW block \in held, Free(block) PROVE StartInv' BY <1>8, FreeStarts
<1>9. CASE UNCHANGED vars
  <2>1. /\ UNCHANGED <<info, pc, ptr, node, memory_map, free_ranges, held>>
        /\ \A d : Starts(d)' = Starts(d)
    BY <1>9, PartsStay DEF vars
  <2>2. /\ Starts(ptr)' = Starts(ptr) /\ Starts(ptr + 1)' = Starts(ptr + 1)
        /\ Starts(Len(info) + 2)' = Starts(Len(info) + 2) /\ Removed' = Removed
    BY <2>1 DEF Starts, Start, Parts, Part, Reserved, Removed
  <2>3. /\ Begins(memory_map)' = Begins(memory_map)
        /\ Begins(free_ranges)' = Begins(free_ranges)
        /\ Begins(free_ranges \cup held)' = Begins(free_ranges \cup held)
        /\ Ends(free_ranges \cup held)' = Ends(free_ranges \cup held)
    BY <2>1 DEF Begins, Ends
  <2> QED BY <2>1, <2>2, <2>3 DEF StartInv, Reserved
<1> QED BY <1>1, <1>2, <1>3, <1>4, <1>5, <1>6, <1>7, <1>8, <1>9 DEF Next

\* Each of them bounds the nodes a step asks for.
LEMMA NodesNext ==
  ASSUME BInv, StartInv, StartInv', BInv', NodesInv, [Next]_vars
  PROVE  NodesInv'
<1>1. /\ Cardinality(memory_map) \in Nat /\ Cardinality(memory_map) =< Len(info) + 1
      /\ Cardinality(free_ranges) \in Nat /\ Cardinality(held) \in Nat
      /\ Cardinality(free_ranges) =< Len(info) + 1 + Cardinality(held)
  BY TreesCount
<1>2. Len(info) \in Nat /\ MaxRanges \in Nat
  BY NamedRanges, BallocAssumption DEF BInv
<1>3. IsFiniteSet(held) BY DEF StartInv
<1>4. \A n \in {1, 2} : 2 * (Len(info) + 1) + Cardinality(held) + n =< MaxRanges
        => NodesLeft(memory_map, free_ranges, n)
  BY <1>1, <1>2 DEF NodesLeft
<1>5. \A n, r : Rests(n, r.begin, r.end) \in {0, 1, 2} BY DEF Rests
<1>6. Next => machine = "up" /\ info' = info
  BY DEF Next, AddEntry, AddKernel, SkipEntry, RemoveRange, CutNode, RangeRemoved, Alloc, Free
<1>7. SUFFICES ASSUME Next, EnoughNodes' PROVE machine' = "up"
  BY DEF NodesInv, NodesSuffice, EnoughNodes, vars
<1>8. 2 * (Len(info) + 1) + Cardinality(held') + 2 =< MaxRanges /\ machine = "up"
  BY <1>6, <1>7 DEF EnoughNodes
<1>9. ASSUME NEW range, AddToBoth(range), held' = held PROVE machine' = "up"
  <2>1. IsTree(memory_map') BY DEF BInv, TypeOK
  <2>2. Begins(memory_map') \subseteq Starts(1)
    BY <1>6, <1>7, PartsStay DEF StartInv, Begins
  <2>3. Cardinality(memory_map') \in Nat /\ Cardinality(memory_map') =< Len(info) + 1
    BY <2>1, <2>2, TreeCount DEF BInv
  <2>4. 2 * (Len(info) + 1) + Cardinality(held) + 2 =< MaxRanges BY <1>8, <1>9
  <2>5. NodesLeft(memory_map, free_ranges, 1) BY <1>1, <1>2, <2>4 DEF NodesLeft
  <2>6. NodesLeft(memory_map', free_ranges, 1) BY <1>1, <1>2, <2>3, <2>4 DEF NodesLeft
  <2> QED BY <1>8, <1>9, <2>5, <2>6 DEF AddToBoth
<1>10. CASE AddEntry BY <1>9, <1>10 DEF AddEntry
<1>11. CASE AddKernel BY <1>9, <1>11 DEF AddKernel
<1>12. CASE SkipEntry \/ RemoveRange \/ RangeRemoved
  BY <1>8, <1>12 DEF SkipEntry, RemoveRange, RangeRemoved
<1>13. ASSUME NEW n, NEW r, 2 * (Len(info) + 1) + Cardinality(held) + 2 =< MaxRanges
       PROVE  NodesLeft(memory_map, free_ranges, Rests(n, r.begin, r.end))
  <2>1. Rests(n, r.begin, r.end) \in {0, 1, 2} BY <1>5
  <2> QED BY <1>1, <1>2, <1>13, <2>1 DEF NodesLeft
<1>14. CASE CutNode
  <2>1. PICK n : machine' = IF NodesLeft(memory_map, free_ranges,
                                         Rests(n, Removed.begin, Removed.end))
                            THEN machine ELSE "BUG"
    BY <1>14 DEF CutNode
  <2>2. held' = held BY <1>14 DEF CutNode
  <2> QED BY <1>8, <1>13, <2>1, <2>2
<1>15. ASSUME NEW r \in Requests, Alloc(r) PROVE machine' = "up"
  <2>1. CASE machine' = machine BY <1>8, <2>1
  <2>2. CASE machine' # machine
    <3> DEFINE blockOf(n) == Span(FirstFit(n, r), FirstFit(n, r) + r.size)
    <3>0. PICK n :
            /\ machine' = IF NodesLeft(memory_map, free_ranges,
                                       Rests(n, blockOf(n).begin, blockOf(n).end))
                          THEN machine ELSE "BUG"
            /\ held' = held \cup {blockOf(n)}
      BY <1>15, <2>2 DEF Alloc
    <3>1. PICK block :
            /\ machine' = IF NodesLeft(memory_map, free_ranges,
                                       Rests(n, block.begin, block.end))
                          THEN machine ELSE "BUG"
            /\ held' = held \cup {block}
      BY <3>0
    <3>2. Cardinality(held \cup {block}) \in {Cardinality(held), Cardinality(held) + 1}
      BY <1>3, FS_AddElement
    <3>3. Cardinality(held') \in {Cardinality(held), Cardinality(held) + 1}
      BY <3>1, <3>2
    <3>4. 2 * (Len(info) + 1) + Cardinality(held) + 2 =< MaxRanges
      BY <1>1, <1>2, <1>8, <3>3
    <3> QED BY <1>8, <1>13, <3>1, <3>4
  <2> QED BY <2>1, <2>2
<1>16. ASSUME NEW block \in held, Free(block) PROVE machine' = "up"
  <2>1. /\ machine' = IF NodesLeft(memory_map, free_ranges, 1) THEN machine ELSE "BUG"
        /\ held' = held \ {block}
    BY <1>16 DEF Free
  <2>2. Cardinality(held') = Cardinality(held) - 1 BY <1>3, <2>1, FS_RemoveElement
  <2>3. NodesLeft(memory_map, free_ranges, 1)
    BY <1>1, <1>2, <1>8, <2>2 DEF NodesLeft
  <2> QED BY <1>8, <2>1, <2>3
<1> QED BY <1>7, <1>10, <1>11, <1>12, <1>14, <1>15, <1>16 DEF Next

\* balloc.c:30-39 - whatever the memory map says and in whatever order blocks
\* are taken and given back, balloc_alloc_node finds a node as long as there
\* are two for each entry and for the kernel image, one for each block in use,
\* and two more.
THEOREM NodesForAll == Spec => [](EnoughNodes => NodesSuffice)
<1>1. Init => BInv /\ StartInv /\ NodesInv
  BY BInitHolds, StartInit DEF Init, NodesInv, NodesSuffice
<1>2. BInv /\ BInv' /\ (StartInv /\ NodesInv) /\ [Next]_vars => (StartInv /\ NodesInv)'
  BY StartNext, NodesNext
<1>3. NodesInv => (EnoughNodes => NodesSuffice) BY DEF NodesInv
<1> QED BY <1>1, <1>2, <1>3, BInvariance, PTL DEF Spec

=============================================================================
