----------------------------- MODULE Paging_proofs -----------------------------
(***************************************************************************)
(* The safety of KMap.tla, for every size of the window, number of lists   *)
(* and set of requests, and then that of Paging.tla, for every number of   *)
(* entries in a table, layout of the addresses and amount of memory too.   *)
(***************************************************************************)
EXTENDS Paging, TLAPS, WellFoundedInduction, SequenceTheorems

-----------------------------------------------------------------------------
(* The inductive invariant of kmap, in parts that also hold in the         *)
(* middle of a call: used are the runs clients have, hole is the run, if   *)
(* any, that is on its way back.                                           *)

IsRun(r) == r.first \in Page /\ r.count \in Nat \ {0} /\ r.first + r.count =< Pages

Apart(r, t) == r.first + r.count =< t.first \/ t.first + t.count =< r.first

\* The runs divide the window up.
Divides(runs) ==
  /\ \A r \in runs : IsRun(r)
  /\ \A p \in Page : \E r \in runs : r.first =< p /\ p < r.first + r.count
  /\ \A r, t \in runs : r = t \/ Apart(r, t)

\* Both ends of every run carry its length; a run in use is marked as such.
Marked(s, used) ==
  /\ \A r \in FreeIn(s) \cup used :
       s.tag[r.first] = r.count /\ s.tag[r.first + r.count - 1] = r.count
  /\ \A r \in used : s.ll[r.first] = "self"

\* No two free runs lie side by side.
Merged(s) == \A r, t \in FreeIn(s) : r.first + r.count # t.first

\* Exactly the free runs are on the lists, each once and on its own list.
Homes(s) == [p \in Linked(s) |-> ListOf(s.tag[p])]
Filed(free, home) ==
  /\ \A o \in DOMAIN free : \A i \in DOMAIN free[o] :
       free[o][i] \in DOMAIN home /\ home[free[o][i]] = o
  /\ \A o \in DOMAIN free : \A i, j \in DOMAIN free[o] :
       free[o][i] = free[o][j] => i = j
  /\ \A p \in DOMAIN home : home[p] \in DOMAIN free
                            /\ \E i \in DOMAIN free[home[p]] : free[home[p]][i] = p

StateOK(s) ==
  /\ s.tag \in [Page -> {-1} \cup 1 .. Pages]
  /\ s.ll \in [Page -> {"linked", "self", "wild"}]
  /\ s.lists \in [0 .. Orders - 1 -> Seq(Page)]
  /\ s.fault = FALSE

Sound(s, used, hole) ==
  /\ StateOK(s)
  /\ Divides(FreeIn(s) \cup used \cup hole)
  /\ FreeIn(s) \cap (used \cup hole) = {} /\ used \cap hole = {}
  /\ Marked(s, used)
  /\ Merged(s)
  /\ Filed(s.lists, Homes(s))

KInv ==
  /\ TypeOK /\ machine = "up"
  /\ Sound(Now, held, {})
  /\ \A p \in Page : p \in present <=> \E r \in held : p \in Covers(r)
  /\ RefusesOnlyWhenNone

-----------------------------------------------------------------------------
(* Numbers and orders                                                      *)

\* Every set of numbers has a least one.
LEMMA Least ==
  ASSUME NEW T \in SUBSET Nat, T # {}
  PROVE  \E n \in T : \A m \in T : n =< m
<1>1. IsWellFoundedOn(OpToRel(<, Nat), Nat)
  BY NatLessThanWellFounded
<1>2. PICK x \in T : \A y \in T : ~(<<y, x>> \in OpToRel(<, Nat))
  BY <1>1, WFMin
<1>3. ASSUME NEW y \in T PROVE x =< y
  <2>1. ~(y < x) BY <1>2 DEF OpToRel
  <2> QED BY <2>1
<1> QED BY <1>3

LEMMA MinIs ==
  ASSUME NEW T \in SUBSET Nat, T # {}
  PROVE  Min(T) \in T /\ \A m \in T : Min(T) =< m
BY Least DEF Min

LEMMA OrderIs ==
  ASSUME NEW n \in Nat
  PROVE  LET o == kmap_order(n)
         IN  /\ o \in 0 .. Orders /\ (o = Orders \/ 2^o >= n)
             /\ \A p \in 0 .. Orders : p = Orders \/ 2^p >= n => o =< p
<1> DEFINE T == {o \in 0 .. Orders : o = Orders \/ 2^o >= n}
<1>1. T \in SUBSET Nat /\ Orders \in T BY KMapAssumption
<1>2. Min(T) \in T /\ \A m \in T : Min(T) =< m BY <1>1, MinIs
<1>3. kmap_order(n) = Min(T) BY DEF kmap_order
<1> QED BY <1>2, <1>3

\* Longer runs have no smaller order, and more than one page has not order 0.
LEMMA OrderGrows ==
  ASSUME NEW m \in Nat, NEW n \in Nat, m =< n
  PROVE  kmap_order(m) =< kmap_order(n)
<1>1. \A k \in 0 .. Orders : 2^k \in Int
  <2>1. \A k \in Nat : 2^k \in Int OBVIOUS
  <2> QED BY <2>1, KMapAssumption
<1> QED BY <1>1, OrderIs

LEMMA OrderStarts ==
  ASSUME NEW n \in Nat, n > 1
  PROVE  kmap_order(n) \in 1 .. Orders
<1>1. \A k \in Nat : k = 0 => 2^k = 1 OBVIOUS
<1>2. kmap_order(n) # 0 BY <1>1, OrderIs, KMapAssumption
<1> QED BY <1>2, OrderIs, KMapAssumption

LEMMA ListExists ==
  ASSUME NEW n \in Nat \ {0}
  PROVE  ListOf(n) \in 0 .. Orders - 1
<1>1. kmap_order(n + 1) \in 1 .. Orders BY OrderStarts
<1> QED BY <1>1, KMapAssumption DEF ListOf

-----------------------------------------------------------------------------
(* The lists                                                               *)

LEMMA RemoveAtShape ==
  ASSUME NEW S, NEW s \in Seq(S), NEW i \in 1 .. Len(s)
  PROVE  /\ RemoveAt(s, i) \in Seq(S)
         /\ Len(RemoveAt(s, i)) = Len(s) - 1
         /\ \A j \in 1 .. Len(s) - 1 :
              RemoveAt(s, i)[j] = IF j < i THEN s[j] ELSE s[j + 1]
<1> DEFINE front == SubSeq(s, 1, i - 1)
           back  == SubSeq(s, i + 1, Len(s))
<1>1. /\ front \in Seq(S) /\ Len(front) = i - 1
      /\ \A j \in 1 .. i - 1 : front[j] = s[j]
  OBVIOUS
<1>2. /\ back \in Seq(S) /\ Len(back) = Len(s) - i
      /\ \A j \in 1 .. Len(s) - i : back[j] = s[i + j]
  OBVIOUS
<1>3. RemoveAt(s, i) = front \o back BY DEF RemoveAt
<1> HIDE DEF front, back
<1>4. Len(s) \in Nat OBVIOUS
<1>5. /\ front \o back \in Seq(S)
      /\ Len(front \o back) = Len(s) - 1
      /\ \A j \in 1 .. Len(s) - 1 :
           (front \o back)[j] = IF j < i THEN front[j] ELSE back[j - i + 1]
  <2>1. /\ front \o back \in Seq(S)
        /\ Len(front \o back) = Len(front) + Len(back)
        /\ \A j \in 1 .. Len(front) + Len(back) :
             (front \o back)[j] = IF j =< Len(front) THEN front[j]
                                                     ELSE back[j - Len(front)]
    BY <1>1, <1>2, ConcatProperties
  <2>2. Len(front) = i - 1 /\ Len(back) = Len(s) - i BY <1>1, <1>2
  <2>3. \A j \in 1 .. Len(s) - 1 : j =< i - 1 <=> j < i BY <1>4
  <2>4. \A j \in 1 .. Len(s) - 1 : j - (i - 1) = j - i + 1 BY <1>4
  <2>5. (i - 1) + (Len(s) - i) = Len(s) - 1 BY <1>4
  <2> QED BY <2>1, <2>2, <2>3, <2>4, <2>5
<1>6. ASSUME NEW j \in 1 .. Len(s) - 1
      PROVE  RemoveAt(s, i)[j] = IF j < i THEN s[j] ELSE s[j + 1]
  <2>1. CASE j < i BY <2>1, <1>1, <1>3, <1>5
  <2>2. CASE ~(j < i)
    <3>1. j - i + 1 \in 1 .. Len(s) - i BY <2>2, <1>4
    <3>2. back[j - i + 1] = s[i + (j - i + 1)] BY <3>1, <1>2
    <3> QED BY <2>2, <3>2, <1>3, <1>5
  <2> QED BY <2>1, <2>2
<1> QED BY <1>3, <1>5, <1>6

Lists == [0 .. Orders - 1 -> Seq(Page)]

\* Home without one run.
Less(home, p) == [q \in DOMAIN home \ {p} |-> home[q]]

LEMMA WithoutNone ==
  ASSUME NEW free \in Lists
  PROVE  Without(free, {}) = free
BY DEF Without, Lists

LEMMA WithoutOne ==
  ASSUME NEW free \in Lists, NEW home, Filed(free, home), NEW p \in DOMAIN home
  PROVE  /\ Without(free, {p}) \in Lists
         /\ Filed(Without(free, {p}), Less(home, p))
<1> DEFINE at(o) == {i \in DOMAIN free[o] : free[o][i] \in {p}}
           h     == home[p]
           new   == Without(free, {p})
<1>1. DOMAIN free = 0 .. Orders - 1 /\ \A o \in 0 .. Orders - 1 : free[o] \in Seq(Page)
  BY DEF Lists
<1>2. PICK i \in DOMAIN free[h] : free[h][i] = p
  BY DEF Filed
<1>3. h \in 0 .. Orders - 1 BY <1>1 DEF Filed
<1>4. at(h) = {i} BY <1>1, <1>2, <1>3 DEF Filed
<1>5. The(at(h)) = i BY <1>4 DEF The
<1>6. \A o \in 0 .. Orders - 1 : o # h => at(o) = {}
  BY <1>1 DEF Filed
<1>7. new = [o \in 0 .. Orders - 1 |-> IF at(o) = {} THEN free[o]
                                       ELSE RemoveAt(free[o], The(at(o)))]
  BY <1>1 DEF Without
<1>8. new[h] = RemoveAt(free[h], i) /\ \A o \in 0 .. Orders - 1 : o # h => new[o] = free[o]
  <2> HIDE DEF at, h
  <2> QED BY <1>3, <1>4, <1>5, <1>6, <1>7
<1>9. DOMAIN new = 0 .. Orders - 1 BY <1>7
<1>10. free[h] \in Seq(Page) /\ i \in 1 .. Len(free[h])
  BY <1>1, <1>2, <1>3
<1>11. /\ new[h] \in Seq(Page)
       /\ Len(new[h]) = Len(free[h]) - 1
       /\ \A j \in 1 .. Len(free[h]) - 1 :
            new[h][j] = IF j < i THEN free[h][j] ELSE free[h][j + 1]
  <2> HIDE DEF new, h, at
  <2>1. /\ RemoveAt(free[h], i) \in Seq(Page)
        /\ Len(RemoveAt(free[h], i)) = Len(free[h]) - 1
        /\ \A j \in 1 .. Len(free[h]) - 1 :
             RemoveAt(free[h], i)[j] = IF j < i THEN free[h][j] ELSE free[h][j + 1]
    BY <1>10, RemoveAtShape
  <2>2. new[h] = RemoveAt(free[h], i) BY <1>8
  <2> QED BY <2>1, <2>2
<1> HIDE DEF new, h, at
<1>12. \A o \in 0 .. Orders - 1 : new[o] \in Seq(Page)
  BY <1>1, <1>8, <1>11
<1>13. new \in Lists
  <2>1. new = [o \in 0 .. Orders - 1 |-> new[o]] BY <1>7 DEF new
  <2> QED BY <1>12, <2>1 DEF Lists
<1>14. DOMAIN new[h] = 1 .. Len(free[h]) - 1 BY <1>11, <1>10
<1>15. DOMAIN free[h] = 1 .. Len(free[h]) BY <1>10
<1>16. ASSUME NEW o \in DOMAIN new, NEW j \in DOMAIN new[o]
       PROVE  new[o][j] \in DOMAIN home \ {p} /\ home[new[o][j]] = o
  <2>1. CASE o = h
    <3>1. PICK k \in DOMAIN free[h] : k # i /\ new[h][j] = free[h][k]
      <4>1. j \in 1 .. Len(free[h]) - 1 BY <1>16, <2>1, <1>14
      <4>2. CASE j < i BY <4>1, <4>2, <1>11, <1>15, <1>10
      <4>3. CASE ~(j < i)
        <5>1. j + 1 \in DOMAIN free[h] /\ j + 1 # i BY <4>1, <4>3, <1>15, <1>10
        <5> QED BY <5>1, <4>1, <4>3, <1>11
      <4> QED BY <4>2, <4>3
    <3>2. free[h][k] # p BY <3>1, <1>2, <1>9, <1>1, <1>3 DEF Filed
    <3> QED BY <3>1, <3>2, <2>1, <1>1, <1>3 DEF Filed
  <2>2. CASE o # h
    <3>1. new[o] = free[o] BY <2>2, <1>8, <1>9
    <3> QED BY <3>1, <2>2, <1>1, <1>9 DEF Filed, h
  <2> QED BY <2>1, <2>2
<1>17. ASSUME NEW o \in DOMAIN new, NEW j \in DOMAIN new[o], NEW k \in DOMAIN new[o],
              new[o][j] = new[o][k]
       PROVE  j = k
  <2>1. CASE o = h
    <3> DEFINE old(x) == IF x < i THEN x ELSE x + 1
    <3>1. /\ old(j) \in DOMAIN free[h] /\ old(k) \in DOMAIN free[h]
          /\ new[h][j] = free[h][old(j)] /\ new[h][k] = free[h][old(k)]
      <4>1. j \in 1 .. Len(free[h]) - 1 /\ k \in 1 .. Len(free[h]) - 1
        BY <1>17, <2>1, <1>14
      <4>2. \A x \in 1 .. Len(free[h]) - 1 : old(x) \in DOMAIN free[h]
        BY <1>15, <1>10
      <4>3. \A x \in 1 .. Len(free[h]) - 1 : new[h][x] = free[h][old(x)]
        BY <1>11
      <4> QED BY <4>1, <4>2, <4>3
    <3>2. old(j) = old(k) BY <3>1, <1>17, <2>1, <1>1, <1>3 DEF Filed
    <3> QED BY <3>2, <1>14, <1>17, <2>1, <1>10
  <2>2. CASE o # h BY <1>17, <2>2, <1>8, <1>9, <1>1 DEF Filed
  <2> QED BY <2>1, <2>2
<1>18. ASSUME NEW q \in DOMAIN home \ {p}
       PROVE  home[q] \in DOMAIN new /\ \E j \in DOMAIN new[home[q]] : new[home[q]][j] = q
  <2>1. PICK k \in DOMAIN free[home[q]] : free[home[q]][k] = q BY <1>18 DEF Filed
  <2>2. home[q] \in 0 .. Orders - 1 BY <1>18, <1>1 DEF Filed
  <2>3. CASE home[q] = h
    <3>1. k # i BY <2>1, <2>3, <1>2, <1>18
    <3>2. k \in 1 .. Len(free[h]) BY <2>1, <2>3, <1>15
    <3>3. \E j \in 1 .. Len(free[h]) - 1 : k = IF j < i THEN j ELSE j + 1
      <4>1. CASE k < i BY <4>1, <3>2, <1>10
      <4>2. CASE k > i
        <5>1. k - 1 \in 1 .. Len(free[h]) - 1 /\ ~(k - 1 < i) BY <4>2, <3>2, <1>10
        <5> QED BY <5>1, <3>2
      <4> QED BY <3>1, <3>2, <4>1, <4>2, <1>10
    <3> QED BY <3>3, <2>1, <2>3, <1>11, <1>14, <1>9, <2>2
  <2>4. CASE home[q] # h BY <2>1, <2>2, <2>4, <1>8, <1>9
  <2> QED BY <2>3, <2>4
<1>19. Filed(new, Less(home, p))
  BY <1>16, <1>17, <1>18 DEF Filed, Less
<1> QED BY <1>13, <1>19 DEF new

\* A run that is on no list goes to the head of one.
More(home, p, o) == [q \in DOMAIN home \cup {p} |-> IF q = p THEN o ELSE home[q]]

LEMMA FiledOneMore ==
  ASSUME NEW free \in Lists, NEW home, Filed(free, home),
         NEW p \in Page, p \notin DOMAIN home, NEW o \in 0 .. Orders - 1
  PROVE  LET new == [free EXCEPT ![o] = <<p>> \o @]
         IN  new \in Lists /\ Filed(new, More(home, p, o))
<1> DEFINE new == [free EXCEPT ![o] = <<p>> \o @]
<1>1. DOMAIN free = 0 .. Orders - 1 /\ \A q \in 0 .. Orders - 1 : free[q] \in Seq(Page)
  BY DEF Lists
<1>2. DOMAIN new = 0 .. Orders - 1 /\ new[o] = <<p>> \o free[o]
      /\ \A q \in 0 .. Orders - 1 : q # o => new[q] = free[q]
  BY <1>1
<1>3. /\ new[o] \in Seq(Page) /\ Len(new[o]) = Len(free[o]) + 1 /\ new[o][1] = p
      /\ \A j \in 1 .. Len(free[o]) : new[o][j + 1] = free[o][j]
      /\ \A j \in 2 .. Len(free[o]) + 1 : new[o][j] = free[o][j - 1]
  BY <1>1, <1>2
<1>4. new \in Lists BY <1>1, <1>3 DEF Lists
<1> HIDE DEF new
<1>5. DOMAIN new[o] = 1 .. Len(free[o]) + 1 /\ DOMAIN free[o] = 1 .. Len(free[o])
      /\ Len(free[o]) \in Nat
  BY <1>1, <1>3
<1>6. ASSUME NEW q \in DOMAIN new, NEW j \in DOMAIN new[q]
      PROVE  /\ new[q][j] \in DOMAIN home \cup {p}
             /\ IF new[q][j] = p THEN q = o ELSE home[new[q][j]] = q
             /\ new[q][j] = p => j = 1
  <2>1. CASE q = o
    <3>1. CASE j = 1 BY <2>1, <3>1, <1>3
    <3>2. CASE j # 1
      <4>1. j - 1 \in DOMAIN free[o] /\ new[o][j] = free[o][j - 1]
        BY <1>3, <1>5, <1>6, <2>1, <3>2
      <4> QED BY <4>1, <2>1, <1>1 DEF Filed
    <3> QED BY <3>1, <3>2
  <2>2. CASE q # o BY <2>2, <1>1, <1>2, <1>6 DEF Filed
  <2> QED BY <2>1, <2>2
<1>7. ASSUME NEW q \in DOMAIN new, NEW j \in DOMAIN new[q], NEW k \in DOMAIN new[q],
             new[q][j] = new[q][k]
      PROVE  j = k
  <2>1. CASE q = o
    <3>1. CASE j = 1 \/ k = 1 BY <2>1, <3>1, <1>3, <1>6, <1>7
    <3>2. CASE j # 1 /\ k # 1
      <4>1. /\ j - 1 \in DOMAIN free[o] /\ new[o][j] = free[o][j - 1]
            /\ k - 1 \in DOMAIN free[o] /\ new[o][k] = free[o][k - 1]
        BY <1>3, <1>5, <1>7, <2>1, <3>2
      <4>2. j - 1 = k - 1 BY <4>1, <1>7, <2>1, <1>1 DEF Filed
      <4> QED BY <4>2, <2>1, <1>5, <1>7
    <3> QED BY <3>1, <3>2
  <2>2. CASE q # o BY <2>2, <1>1, <1>2, <1>7 DEF Filed
  <2> QED BY <2>1, <2>2
<1>8. ASSUME NEW q \in DOMAIN home
      PROVE  home[q] \in DOMAIN new /\ \E j \in DOMAIN new[home[q]] : new[home[q]][j] = q
  <2>1. PICK k \in DOMAIN free[home[q]] : free[home[q]][k] = q BY DEF Filed
  <2>2. home[q] \in 0 .. Orders - 1 BY <1>1 DEF Filed
  <2>3. CASE home[q] = o
    <3>1. k + 1 \in DOMAIN new[o] /\ new[o][k + 1] = q
      BY <2>1, <2>3, <1>3, <1>5
    <3> QED BY <3>1, <2>2, <2>3, <1>2
  <2>4. CASE home[q] # o BY <2>1, <2>2, <2>4, <1>2
  <2> QED BY <2>3, <2>4
<1>9. o \in DOMAIN new /\ 1 \in DOMAIN new[o] /\ new[o][1] = p
  BY <1>2, <1>3, <1>5
<1>10. Filed(new, More(home, p, o))
  BY <1>6, <1>7, <1>8, <1>9 DEF Filed, More
<1> QED BY <1>4, <1>10 DEF new

-----------------------------------------------------------------------------
(* kmap_free_range                                                         *)

LEMMA FreeInIs ==
  ASSUME NEW s
  PROVE  /\ \A r \in FreeIn(s) : /\ r.first \in Linked(s) /\ r.count = s.tag[r.first]
                                 /\ r = [first |-> r.first, count |-> s.tag[r.first]]
         /\ \A p \in Linked(s) : [first |-> p, count |-> s.tag[p]] \in FreeIn(s)
BY DEF FreeIn

\* A run that is on its way back, h, and all others: what lies before it and
\* behind it.
LEMMA Before ==
  ASSUME NEW s, NEW used, NEW h, Sound(s, used, {h})
  PROVE  LET prev == Prev(s, h.first)
         IN  /\ \/ prev = {}
                \/ \E p \in Linked(s) : prev = {p} /\ p + s.tag[p] = h.first
             /\ \A r \in FreeIn(s) : r.first + r.count = h.first => prev = {r.first}
<1> DEFINE prev == Prev(s, h.first)
           Q    == {h.first - 1} \cap Page
<1>0. /\ IsRun(h) /\ \A r \in FreeIn(s) \cup used : IsRun(r) /\ r # h /\ Apart(r, h)
      /\ \A p \in Page : \E r \in FreeIn(s) \cup used \cup {h} :
           r.first =< p /\ p < r.first + r.count
      /\ \A r \in FreeIn(s) \cup used :
           s.tag[r.first] = r.count /\ s.tag[r.first + r.count - 1] = r.count
      /\ \A r \in used : s.ll[r.first] = "self"
  BY DEF Sound, Divides, Marked
<1>1. prev = {p \in {h.first - s.tag[q] : q \in Q} : Unused(s, p)}
  BY DEF Prev
<1>2. CASE Q = {}
  <2>0. h.first - 1 \notin Page BY <1>2
  <2>1. h.first = 0
    <3>1. h.first \in 0 .. Pages - 1 BY <1>0 DEF IsRun, Page
    <3> QED BY <2>0, <3>1, KMapAssumption DEF Page
  <2>2. prev = {} BY <1>1, <1>2
  <2>3. \A r \in FreeIn(s) : r.first + r.count # 0 BY <1>0 DEF IsRun, Page
  <2> QED BY <2>1, <2>2, <2>3
<1>3. CASE Q # {}
  <2>1. Q = {h.first - 1} /\ h.first - 1 \in Page BY <1>3
  <2>2. PICK r \in FreeIn(s) \cup used :
          r.first =< h.first - 1 /\ h.first - 1 < r.first + r.count
    BY <2>1, <1>0 DEF IsRun, Page
  <2>3. r.first + r.count = h.first /\ r.first \in Page /\ r.count \in Nat \ {0}
        /\ h.first \in Page
    BY <2>2, <1>0 DEF IsRun, Apart, Page
  <2>4. h.first - 1 = r.first + r.count - 1 BY <2>3 DEF Page
  <2>5. s.tag[h.first - 1] = r.count BY <2>4, <2>2, <1>0
  <2>6. h.first - s.tag[h.first - 1] = r.first BY <2>5, <2>3 DEF Page
  <2>7. prev = {p \in {r.first} : Unused(s, p)} BY <1>1, <2>1, <2>6
  <2>8. CASE r \in FreeIn(s)
    <3>1. r.first \in Linked(s) /\ r.count = s.tag[r.first] BY <2>8, FreeInIs
    <3>2. prev = {r.first} BY <3>1, <2>7 DEF Linked, Unused
    <3>3. ASSUME NEW t \in FreeIn(s), t.first + t.count = h.first PROVE t = r
      BY <3>3, <2>3, <2>8, <1>0 DEF Sound, Divides, Apart, IsRun, Page
    <3> QED BY <3>1, <3>2, <3>3, <2>3
  <2>9. CASE r \in used
    <3>1. prev = {} BY <2>9, <2>7, <1>0 DEF Unused
    <3>2. ASSUME NEW t \in FreeIn(s), t.first + t.count = h.first PROVE FALSE
      <4>1. t = r
        BY <3>2, <2>3, <2>9, <1>0 DEF Sound, Divides, Apart, IsRun, Page
      <4> QED BY <4>1, <2>9 DEF Sound
    <3> QED BY <3>1, <3>2
  <2> QED BY <2>2, <2>8, <2>9
<1> QED BY <1>2, <1>3

LEMMA Behind ==
  ASSUME NEW s, NEW used, NEW h, Sound(s, used, {h})
  PROVE  LET next == Next(s, h.first, h.count)
         IN  /\ \/ next = {}
                \/ h.first + h.count \in Linked(s) /\ next = {h.first + h.count}
             /\ \A r \in FreeIn(s) : r.first = h.first + h.count => next = {r.first}
<1> DEFINE next == Next(s, h.first, h.count)
           b    == h.first + h.count
<1>0. /\ IsRun(h) /\ \A r \in FreeIn(s) \cup used : IsRun(r) /\ Apart(r, h)
      /\ \A p \in Page : \E r \in FreeIn(s) \cup used \cup {h} :
           r.first =< p /\ p < r.first + r.count
      /\ \A r \in used : s.ll[r.first] = "self"
  BY DEF Sound, Divides, Marked
<1>1. next = {p \in {b} \cap Page : Unused(s, p)} BY DEF Next
<1>2. \A r \in FreeIn(s) : r.first = b => next = {r.first}
  BY <1>1, FreeInIs DEF Linked, Unused
<1>3. ASSUME next # {} PROVE b \in Linked(s) /\ next = {b}
  <2>1. b \in Page /\ next = {b} /\ Unused(s, b) BY <1>1, <1>3
  <2>2. PICK r \in FreeIn(s) \cup used : r.first =< b /\ b < r.first + r.count
    BY <2>1, <1>0 DEF IsRun, Page
  <2>3. r.first = b BY <2>2, <1>0 DEF IsRun, Apart, Page
  <2>4. r \notin used BY <2>1, <2>3, <1>0 DEF Unused
  <2> QED BY <2>1, <2>2, <2>3, <2>4, FreeInIs
<1> QED BY <1>2, <1>3

\* kmap_free_range gives the run back, together with its free neighbours:
\* whole is what becomes of it, rest are the free runs that stay as they are.
LEMMA FreeRangeSound ==
  ASSUME NEW s, NEW used, NEW h, Sound(s, used, {h})
  PROVE  Sound(FreeRange(s, h.first, h.count), used, {})
<1> DEFINE prev  == Prev(s, h.first)
           next  == Next(s, h.first, h.count)
           start == IF prev = {} THEN h.first ELSE The(prev)
           end   == h.first + h.count + IF next = {} THEN 0 ELSE s.tag[The(next)]
           total == end - start
           new   == FreeRange(s, h.first, h.count)
           gone  == prev \cup next
           rest  == {r \in FreeIn(s) : r.first \notin gone}
           whole == [first |-> start, count |-> total]
<1>0. /\ StateOK(s)
      /\ IsRun(h) /\ \A r \in FreeIn(s) \cup used : IsRun(r) /\ r # h /\ Apart(r, h)
      /\ \A r, t \in FreeIn(s) \cup used : r = t \/ Apart(r, t)
      /\ \A p \in Page : \E r \in FreeIn(s) \cup used \cup {h} :
           r.first =< p /\ p < r.first + r.count
      /\ \A r \in FreeIn(s) \cup used :
           s.tag[r.first] = r.count /\ s.tag[r.first + r.count - 1] = r.count
      /\ \A r \in used : s.ll[r.first] = "self"
      /\ FreeIn(s) \cap used = {}
  BY DEF Sound, Divides, Marked
<1>1. /\ \/ prev = {}
         \/ \E p \in Linked(s) : prev = {p} /\ p + s.tag[p] = h.first
      /\ \A r \in FreeIn(s) : r.first + r.count = h.first => prev = {r.first}
  BY Before
<1>2. /\ \/ next = {}
         \/ h.first + h.count \in Linked(s) /\ next = {h.first + h.count}
      /\ \A r \in FreeIn(s) : r.first = h.first + h.count => next = {r.first}
  BY Behind
<1>3. \/ prev = {} /\ start = h.first
      \/ /\ prev = {start} /\ start \in Linked(s)
         /\ [first |-> start, count |-> s.tag[start]] \in FreeIn(s)
         /\ start + s.tag[start] = h.first /\ s.tag[start] \in Nat \ {0}
  <2>1. CASE prev = {} BY <2>1
  <2>2. ASSUME NEW p \in Linked(s), prev = {p}, p + s.tag[p] = h.first
        PROVE  /\ prev = {start} /\ start \in Linked(s)
               /\ [first |-> start, count |-> s.tag[start]] \in FreeIn(s)
               /\ start + s.tag[start] = h.first /\ s.tag[start] \in Nat \ {0}
    <3>1. start = p BY <2>2 DEF The
    <3>2. [first |-> p, count |-> s.tag[p]] \in FreeIn(s) BY FreeInIs
    <3>3. s.tag[p] \in Nat \ {0} BY <3>2, <1>0 DEF IsRun
    <3> QED BY <2>2, <3>1, <3>2, <3>3
  <2> QED BY <2>1, <2>2, <1>1
<1>4. \/ next = {} /\ end = h.first + h.count
      \/ LET b == h.first + h.count
         IN  /\ next = {b} /\ b \in Linked(s) /\ end = b + s.tag[b]
             /\ [first |-> b, count |-> s.tag[b]] \in FreeIn(s)
             /\ s.tag[b] \in Nat \ {0} /\ b + s.tag[b] =< Pages
  <2>1. CASE next = {} BY <2>1, <1>0 DEF IsRun, Page
  <2>2. CASE next # {}
    <3> DEFINE b == h.first + h.count
    <3>1. next = {b} /\ b \in Linked(s) BY <2>2, <1>2
    <3>2. The(next) = b BY <3>1 DEF The
    <3>3. [first |-> b, count |-> s.tag[b]] \in FreeIn(s) BY <3>1, FreeInIs
    <3>4. IsRun([first |-> b, count |-> s.tag[b]]) BY <3>3, <1>0
    <3> QED BY <2>2, <3>1, <3>2, <3>3, <3>4 DEF IsRun
  <2> QED BY <2>1, <2>2
<1>5. new = [tag   |-> SetTags(s.tag, start, total),
             ll    |-> [p \in Page |-> IF p = start THEN "linked"
                                       ELSE IF p \in next THEN "wild" ELSE s.ll[p]],
             lists |-> [Without(Without(s.lists, prev), next)
                          EXCEPT ![ListOf(total)] = <<start>> \o @],
             fault |-> s.fault \/ \E p \in gone : s.ll[p] # "linked"]
  BY DEF FreeRange
<1> HIDE DEF prev, next, start, end, new
<1>6. /\ h.first \in Nat /\ h.count \in Nat \ {0} /\ h.first + h.count =< Pages
      /\ Pages \in Nat
  BY <1>0, KMapAssumption DEF IsRun, Page
<1>7. /\ start \in Page /\ start =< h.first /\ h.first + h.count =< end /\ end =< Pages
      /\ end \in Nat /\ total \in Nat \ {0} /\ start + total = end
  <2>1. start \in Page /\ start =< h.first
    <3>1. CASE prev = {} BY <3>1, <1>0, <1>3, <1>6 DEF IsRun
    <3>2. CASE prev # {} BY <3>2, <1>3, <1>6 DEF Linked, Page
    <3> QED BY <3>1, <3>2
  <2>2. h.first + h.count =< end /\ end =< Pages /\ end \in Nat
    BY <1>4, <1>6
  <2> QED BY <2>1, <2>2, <1>6 DEF Page
<1>8. ASSUME NEW r \in rest \cup used
      PROVE  r.first + r.count =< start \/ end =< r.first
  <2>1. IsRun(r) /\ Apart(r, h) BY <1>0
  <2>2. CASE r.first + r.count =< h.first
    <3>1. CASE prev = {} BY <2>2, <3>1, <1>3
    <3>2. CASE prev # {}
      <4> DEFINE t == [first |-> start, count |-> s.tag[start]]
      <4>1. t \in FreeIn(s) /\ prev = {start} /\ start + s.tag[start] = h.first
            /\ s.tag[start] \in Nat \ {0}
        BY <3>2, <1>3
      <4>2. r # t BY <4>1, <1>0
      <4>3. Apart(r, t) BY <4>1, <4>2, <1>0
      <4> QED BY <4>1, <4>3, <2>1, <2>2, <1>6, <1>7 DEF Apart, IsRun, Page
    <3> QED BY <3>1, <3>2
  <2>3. CASE h.first + h.count =< r.first
    <3> DEFINE b == h.first + h.count
    <3>1. CASE next = {} BY <2>3, <3>1, <1>4
    <3>2. CASE next # {}
      <4> DEFINE t == [first |-> b, count |-> s.tag[b]]
      <4>1. t \in FreeIn(s) /\ next = {b} /\ end = b + s.tag[b]
            /\ s.tag[b] \in Nat \ {0}
        BY <3>2, <1>4
      <4>2. r # t BY <4>1, <1>0
      <4>3. Apart(r, t) BY <4>1, <4>2, <1>0
      <4> QED BY <4>1, <4>3, <2>1, <2>3, <1>6, <1>7 DEF Apart, IsRun, Page
    <3> QED BY <3>1, <3>2
  <2> QED BY <2>1, <2>2, <2>3 DEF Apart
<1>9. /\ gone \subseteq Linked(s)
      /\ \A p \in gone : start =< p /\ p < end
      /\ start \in Linked(s) => start \in gone
  <2>1. gone \subseteq Linked(s) BY <1>3, <1>4
  <2>2. \A p \in gone : start =< p /\ p < end
    BY <1>3, <1>4, <1>6, <1>7 DEF Page
  <2>3. ASSUME start \in Linked(s) PROVE start \in gone
    <3> DEFINE r == [first |-> start, count |-> s.tag[start]]
    <3>1. r \in FreeIn(s) BY <2>3, FreeInIs
    <3>2. r.first = start /\ IsRun(r) BY <3>1, <1>0
    <3>3. ~(r.first + r.count =< start \/ end =< r.first)
      BY <3>2, <1>7 DEF IsRun, Page
    <3>4. r \notin rest BY <3>3, <1>8
    <3> QED BY <3>1, <3>2, <3>4
  <2> QED BY <2>1, <2>2, <2>3
<1>10. Linked(new) = (Linked(s) \ gone) \cup {start}
  <2>1. \A p \in Page : new.ll[p] = IF p = start THEN "linked"
                                    ELSE IF p \in next THEN "wild" ELSE s.ll[p]
    BY <1>5
  <2>2. \A p \in prev : p = start BY <1>3
  <2> QED BY <2>1, <2>2, <1>7 DEF Linked
<1>11. /\ new.tag[start] = total /\ new.tag[end - 1] = total
       /\ \A p \in Page : p < start \/ end =< p => new.tag[p] = s.tag[p]
       /\ new.tag \in [Page -> {-1} \cup 1 .. Pages]
  <2>1. s.tag \in [Page -> {-1} \cup 1 .. Pages] BY <1>0 DEF StateOK
  <2>2. new.tag = [s.tag EXCEPT ![start + total - 1] = total, ![start] = total]
    BY <1>5 DEF SetTags
  <2>3. start + total - 1 = end - 1 /\ end - 1 \in Page /\ total \in 1 .. Pages
        /\ start =< end - 1
    BY <1>7, <1>6 DEF Page
  <2> HIDE DEF total
  <2>4. new.tag = [s.tag EXCEPT ![end - 1] = total, ![start] = total]
    BY <2>2, <2>3
  <2>5. new.tag \in [Page -> {-1} \cup 1 .. Pages] BY <2>1, <2>3, <2>4
  <2>6. new.tag[start] = total /\ new.tag[end - 1] = total
    BY <2>1, <2>3, <2>4, <1>7
  <2>7. \A p \in Page : p # start /\ p # end - 1 => new.tag[p] = s.tag[p]
    BY <2>1, <2>4
  <2>8. \A p \in Page : p < start \/ end =< p => p # start /\ p # end - 1
    BY <1>7, <2>3 DEF Page
  <2> QED BY <2>5, <2>6, <2>7, <2>8
<1>12. FreeIn(new) = rest \cup {whole}
  <2>1. \A p \in Linked(s) \ gone : new.tag[p] = s.tag[p]
    <3>1. SUFFICES ASSUME NEW p \in Linked(s) \ gone
                   PROVE  new.tag[p] = s.tag[p]
      OBVIOUS
    <3> DEFINE r == [first |-> p, count |-> s.tag[p]]
    <3>2. r \in rest BY FreeInIs
    <3>3. r.first + r.count =< start \/ end =< r.first BY <3>2, <1>8
    <3>4. IsRun(r) BY <3>2, <1>0
    <3> QED BY <3>3, <3>4, <1>7, <1>11 DEF IsRun, Page
  <2>2. FreeIn(new) = {[first |-> p, count |-> new.tag[p]] :
                         p \in (Linked(s) \ gone) \cup {start}}
    BY <1>10 DEF FreeIn
  <2>3. rest = {[first |-> p, count |-> s.tag[p]] : p \in Linked(s) \ gone}
    BY DEF FreeIn
  <2>4. start \notin Linked(s) \ gone BY <1>9
  <2> QED BY <2>1, <2>2, <2>3, <2>4, <1>11
<1>13. IsRun(whole)
  BY <1>7 DEF IsRun
<1>14. Divides(FreeIn(new) \cup used \cup {})
  <2>1. \A r \in rest \cup used \cup {whole} : IsRun(r) BY <1>0, <1>13
  <2>2. ASSUME NEW p \in Page
        PROVE  \E r \in rest \cup used \cup {whole} : r.first =< p /\ p < r.first + r.count
    <3>1. CASE start =< p /\ p < end
      <4>1. whole.first = start /\ whole.first + whole.count = end BY <1>7
      <4> QED BY <3>1, <4>1
    <3>2. CASE ~(start =< p /\ p < end)
      <4>1. PICK r \in FreeIn(s) \cup used \cup {h} : r.first =< p /\ p < r.first + r.count
        BY <1>0
      <4>2. r # h BY <4>1, <3>2, <1>6, <1>7 DEF Page
      <4>3. r \in FreeIn(s) => r.first \notin gone
        <5>1. SUFFICES ASSUME r \in FreeIn(s), r.first \in gone PROVE FALSE
          OBVIOUS
        <5>2. r.count = s.tag[r.first] BY <5>1, FreeInIs
        <5>3. r.first >= start /\ r.first + r.count =< end
          <6>1. CASE r.first \in prev
            BY <6>1, <5>2, <1>3, <1>6, <1>7 DEF Page
          <6>2. CASE r.first \in next
            BY <6>2, <5>2, <1>4, <1>6, <1>7 DEF Page
          <6> QED BY <5>1, <6>1, <6>2
        <5>4. IsRun(r) BY <5>1, <1>0
        <5> QED BY <5>3, <5>4, <4>1, <3>2, <1>7 DEF IsRun, Page
      <4> QED BY <4>1, <4>2, <4>3
    <3> QED BY <3>1, <3>2
  <2>3. ASSUME NEW r \in rest \cup used \cup {whole}, NEW t \in rest \cup used \cup {whole}
        PROVE  r = t \/ Apart(r, t)
    <3>1. \A q \in rest \cup used : Apart(q, whole) /\ Apart(whole, q)
      BY <1>7, <1>8 DEF Apart
    <3>2. CASE r \in rest \cup used /\ t \in rest \cup used BY <3>2, <1>0
    <3> QED BY <3>1, <3>2
  <2> QED BY <2>1, <2>2, <2>3, <1>12 DEF Divides
<1>15. FreeIn(new) \cap (used \cup {}) = {} /\ used \cap {} = {}
  <2>1. whole \notin used
    BY <1>7, <1>8, <1>13 DEF IsRun, Page
  <2> QED BY <2>1, <1>12, <1>0
<1>16. Marked(new, used)
  <2>1. ASSUME NEW r \in rest \cup used
        PROVE  new.tag[r.first] = r.count /\ new.tag[r.first + r.count - 1] = r.count
    <3>1. IsRun(r) BY <1>0
    <3>2. r.first \in Page /\ r.first + r.count - 1 \in Page /\ r.count > 0
      BY <3>1, <1>6 DEF IsRun, Page
    <3>3. r.first + r.count =< start \/ end =< r.first BY <1>8
    <3>4. new.tag[r.first] = s.tag[r.first]
          /\ new.tag[r.first + r.count - 1] = s.tag[r.first + r.count - 1]
      <4>1. r.first < start \/ end =< r.first
        BY <3>1, <3>2, <3>3, <1>7 DEF Page, IsRun
      <4>2. r.first + r.count - 1 < start \/ end =< r.first + r.count - 1
        BY <3>1, <3>2, <3>3, <1>7 DEF Page, IsRun
      <4> QED BY <4>1, <4>2, <3>2, <1>11
    <3> QED BY <3>4, <1>0
  <2>2. new.tag[whole.first] = whole.count
        /\ new.tag[whole.first + whole.count - 1] = whole.count
    <3>1. whole.first = start /\ whole.count = total
          /\ whole.first + whole.count - 1 = end - 1
      <4> HIDE DEF total
      <4> QED BY <1>7 DEF Page
    <3> QED BY <3>1, <1>11
  <2>3. ASSUME NEW r \in used PROVE new.ll[r.first] = "self"
    <3>1. IsRun(r) /\ s.ll[r.first] = "self" BY <1>0
    <3>2. r.first # start BY <3>1, <1>7, <1>8 DEF IsRun, Page
    <3>3. r.first \notin next BY <3>1, <1>9 DEF Linked
    <3> QED BY <3>1, <3>2, <3>3, <1>5 DEF IsRun
  <2> QED BY <2>1, <2>2, <2>3, <1>12 DEF Marked
<1>17. Merged(new)
  <2>1. \A r, t \in FreeIn(s) : r.first + r.count # t.first
    BY DEF Sound, Merged
  <2>2. ASSUME NEW r \in rest PROVE r.first + r.count # start /\ r.first # end
    <3>1. IsRun(r) /\ r \in FreeIn(s) /\ r.first \notin gone BY <1>0
    <3>2. r.first + r.count # start
      <4>1. CASE prev = {} BY <4>1, <3>1, <1>1, <1>3 DEF prev
      <4>2. CASE prev # {} BY <4>2, <3>1, <2>1, <1>3
      <4> QED BY <4>1, <4>2
    <3>3. r.first # end
      <4>1. CASE next = {} BY <4>1, <3>1, <1>2, <1>4 DEF next
      <4>2. CASE next # {}
        <5> DEFINE t == [first |-> h.first + h.count, count |-> s.tag[h.first + h.count]]
        <5>1. t \in FreeIn(s) /\ end = t.first + t.count BY <4>2, <1>4
        <5> QED BY <5>1, <3>1, <2>1
      <4> QED BY <4>1, <4>2
    <3> QED BY <3>2, <3>3
  <2>3. start + total # start BY <1>7 DEF Page
  <2> QED BY <2>1, <2>2, <2>3, <1>7, <1>12 DEF Merged
<1>18. new.lists \in Lists /\ Filed(new.lists, Homes(new))
  <2>1. s.lists \in Lists /\ Filed(s.lists, Homes(s))
    BY <1>0 DEF Sound, StateOK, Lists
  <2> DEFINE one == Without(s.lists, prev)
             two == Without(one, next)
             homeOne == [q \in Linked(s) \ prev |-> ListOf(s.tag[q])]
             homeTwo == [q \in Linked(s) \ gone |-> ListOf(s.tag[q])]
  <2>2. one \in Lists /\ Filed(one, homeOne)
    <3>1. CASE prev = {}
      <4>1. homeOne = Homes(s) BY <3>1 DEF Homes
      <4> QED BY <4>1, <3>1, <2>1, WithoutNone
    <3>2. CASE prev # {}
      <4>1. prev = {start} /\ start \in DOMAIN Homes(s) BY <3>2, <1>3 DEF Homes
      <4>2. homeOne = Less(Homes(s), start) BY <4>1 DEF Homes, Less
      <4> QED BY <4>1, <4>2, <2>1, WithoutOne
    <3> QED BY <3>1, <3>2
  <2>3. two \in Lists /\ Filed(two, homeTwo)
    <3>1. CASE next = {}
      <4>1. homeTwo = homeOne BY <3>1
      <4> QED BY <4>1, <3>1, <2>2, WithoutNone
    <3>2. CASE next # {}
      <4> DEFINE b == h.first + h.count
      <4>1. next = {b} /\ b \in Linked(s) BY <3>2, <1>4
      <4>2. b \notin prev BY <1>3, <1>6, <1>7 DEF Page
      <4>3. b \in DOMAIN homeOne BY <4>1, <4>2
      <4>4. homeTwo = Less(homeOne, b) BY <4>1 DEF Less
      <4> QED BY <4>1, <4>3, <4>4, <2>2, WithoutOne
    <3> QED BY <3>1, <3>2
  <2>4. start \notin DOMAIN homeTwo
    <3>1. DOMAIN homeTwo = Linked(s) \ gone OBVIOUS
    <3> QED BY <3>1, <1>9
  <2>5. ListOf(total) \in 0 .. Orders - 1 BY <1>7, ListExists
  <2>6. new.lists = [two EXCEPT ![ListOf(total)] = <<start>> \o @] BY <1>5
  <2>7. new.lists \in Lists /\ Filed(new.lists, More(homeTwo, start, ListOf(total)))
    <3> HIDE DEF two, homeTwo, total, gone, rest, whole
    <3> DEFINE o   == ListOf(total)
               all == [two EXCEPT ![o] = <<start>> \o @]
    <3>1. all \in Lists /\ Filed(all, More(homeTwo, start, o))
      <4>1. start \in Page BY <1>7
      <4>2. o \in 0 .. Orders - 1 BY <2>5
      <4> HIDE DEF o
      <4> QED BY <4>1, <4>2, <2>3, <2>4, FiledOneMore
    <3> QED BY <3>1, <2>6
  <2>8. Homes(new) = More(homeTwo, start, ListOf(total))
    <3>1. \A q \in Linked(s) \ gone : new.tag[q] = s.tag[q]
      <4>1. SUFFICES ASSUME NEW q \in Linked(s) \ gone PROVE new.tag[q] = s.tag[q]
        OBVIOUS
      <4>2. [first |-> q, count |-> s.tag[q]] \in rest BY FreeInIs
      <4>3. [first |-> q, count |-> s.tag[q]] \in FreeIn(new) BY <4>2, <1>12
      <4> QED BY <4>3, FreeInIs
    <3> QED BY <3>1, <1>10, <1>11 DEF Homes, More
  <2> QED BY <2>7, <2>8
<1>19. StateOK(new)
  <2>1. new.ll \in [Page -> {"linked", "self", "wild"}] BY <1>5, <1>0 DEF StateOK
  <2>2. new.fault = FALSE BY <1>5, <1>9, <1>0 DEF StateOK, Linked
  <2> QED BY <2>1, <2>2, <1>11, <1>18 DEF StateOK, Lists
<1> QED BY <1>14, <1>15, <1>16, <1>17, <1>18, <1>19 DEF Sound, new

-----------------------------------------------------------------------------
(* kmap_alloc_range                                                        *)

LEMMA FoundIs ==
  ASSUME NEW used, Sound(Now, used, {}),
         NEW o \in 0 .. Orders - 1, NEW n \in Nat, Finds(o, n)
  PROVE  Found(o, n) \in Linked(Now) /\ tag[Found(o, n)] >= n
<1> DEFINE list == lists[o]
           T    == {i \in DOMAIN list : tag[list[i]] >= n}
<1>1. lists \in Lists /\ Filed(lists, Homes(Now))
  BY DEF Sound, StateOK, Now, Lists
<1>2. list \in Seq(Page) BY <1>1 DEF Lists
<1>3. T \in SUBSET Nat /\ T # {}
  <2>1. DOMAIN list = 1 .. Len(list) BY <1>2
  <2>2. \E i \in DOMAIN list : tag[list[i]] >= n BY DEF Finds
  <2> QED BY <2>1, <2>2, <1>2
<1>4. Min(T) \in T
  <2> HIDE DEF T
  <2> QED BY <1>3, MinIs
<1>5. Found(o, n) = list[Min(T)] BY DEF Found
<1>6. DOMAIN Homes(Now) = Linked(Now) BY DEF Homes
<1>7. \A i \in DOMAIN list : list[i] \in Linked(Now)
  BY <1>1, <1>6 DEF Filed, Lists
<1> QED BY <1>4, <1>5, <1>7

\* A free run, whole, is handed out: its first n pages, part, go to the
\* client, what it has too much, left, is on its way back.
LEMMA HandOutSound ==
  ASSUME NEW used, Sound(Now, used, {}),
         NEW run \in Linked(Now), NEW n \in Nat \ {0}, tag[run] >= n
  PROVE  LET part == [first |-> run, count |-> n]
             left == [first |-> run + n, count |-> tag[run] - n]
         IN  /\ Sound(HandOut(run, n), used \cup {part},
                      IF tag[run] > n THEN {left} ELSE {})
             /\ IsRun(part) /\ \A r \in used : Apart(part, r)
<1> DEFINE part  == [first |-> run, count |-> n]
           left  == [first |-> run + n, count |-> tag[run] - n]
           whole == [first |-> run, count |-> tag[run]]
           hole  == IF tag[run] > n THEN {left} ELSE {}
           new   == HandOut(run, n)
           s     == Now
           stop  == run + tag[run]
<1>0. /\ StateOK(s)
      /\ \A r \in FreeIn(s) \cup used : IsRun(r)
      /\ \A r, t \in FreeIn(s) \cup used : r = t \/ Apart(r, t)
      /\ \A p \in Page : \E r \in FreeIn(s) \cup used :
           r.first =< p /\ p < r.first + r.count
      /\ \A r \in FreeIn(s) \cup used :
           s.tag[r.first] = r.count /\ s.tag[r.first + r.count - 1] = r.count
      /\ \A r \in used : s.ll[r.first] = "self"
      /\ FreeIn(s) \cap used = {}
  BY DEF Sound, Divides, Marked
<1>1. s.tag = tag /\ s.ll = ll /\ s.lists = lists BY DEF Now
<1>2. whole \in FreeIn(s) /\ IsRun(whole) BY <1>0, <1>1, FreeInIs
<1>3. /\ run \in Page /\ run \in Nat /\ tag[run] \in Nat \ {0} /\ stop =< Pages
      /\ run + n =< stop /\ Pages \in Nat
  BY <1>2, KMapAssumption DEF IsRun, Page
<1>4. ASSUME NEW r \in FreeIn(s) \cup used, r # whole
      PROVE  /\ r.first + r.count =< run \/ stop =< r.first
             /\ IsRun(r)
  BY <1>4, <1>0, <1>2, <1>3 DEF Apart
<1>5. /\ new.tag \in [Page -> {-1} \cup 1 .. Pages]
      /\ new.tag[run] = n /\ new.tag[run + n - 1] = n
      /\ \A p \in Page : p < run \/ stop =< p => new.tag[p] = s.tag[p]
  <2>1. s.tag \in [Page -> {-1} \cup 1 .. Pages] BY <1>0 DEF StateOK
  <2>2. new.tag = [s.tag EXCEPT ![run + n - 1] = n, ![run] = n]
    BY <1>1 DEF HandOut, SetTags
  <2>3. run + n - 1 \in Page /\ n \in 1 .. Pages /\ run =< run + n - 1
        /\ run + n - 1 < stop
    BY <1>3 DEF Page
  <2> HIDE DEF new
  <2>4. new.tag \in [Page -> {-1} \cup 1 .. Pages] BY <2>1, <2>2, <2>3
  <2>5. new.tag[run] = n /\ new.tag[run + n - 1] = n
    BY <2>1, <2>2, <2>3, <1>3
  <2>6. \A p \in Page : p # run /\ p # run + n - 1 => new.tag[p] = s.tag[p]
    BY <2>1, <2>2
  <2>7. \A p \in Page : p < run \/ stop =< p => p # run /\ p # run + n - 1
    BY <1>3, <2>3 DEF Page
  <2> QED BY <2>4, <2>5, <2>6, <2>7
<1>6. /\ new.ll = [s.ll EXCEPT ![run] = "self"] /\ new.fault = FALSE
      /\ new.lists = Without(s.lists, {run})
  BY <1>1 DEF HandOut
<1> HIDE DEF new, s
<1>7. Linked(new) = Linked(s) \ {run}
  BY <1>6, <1>0, <1>3 DEF Linked, StateOK
<1>8. \A q \in Linked(new) : new.tag[q] = s.tag[q]
  <2>1. SUFFICES ASSUME NEW q \in Linked(s), q # run PROVE new.tag[q] = s.tag[q]
    BY <1>7
  <2> DEFINE r == [first |-> q, count |-> s.tag[q]]
  <2>2. r \in FreeIn(s) /\ r # whole BY <2>1, FreeInIs
  <2>3. (q + s.tag[q] =< run \/ stop =< q) /\ q \in Page /\ s.tag[q] \in Nat \ {0}
    <3>1. r.first = q /\ r.count = s.tag[q] OBVIOUS
    <3> HIDE DEF r
    <3> QED BY <3>1, <2>2, <1>4 DEF IsRun
  <2>4. q < run \/ stop =< q BY <2>3, <1>3 DEF Page
  <2> QED BY <2>3, <2>4, <1>5
<1>9. FreeIn(new) = FreeIn(s) \ {whole}
  <2>1. FreeIn(new) = {[first |-> p, count |-> s.tag[p]] : p \in Linked(s) \ {run}}
    BY <1>7, <1>8 DEF FreeIn
  <2> QED BY <2>1, <1>1 DEF FreeIn
<1>10. /\ IsRun(part) /\ (tag[run] > n => IsRun(left))
       /\ part.first = run /\ part.first + part.count = run + n
       /\ left.first = run + n /\ left.first + left.count = stop
       /\ left.count = tag[run] - n /\ part.count = n
  BY <1>3 DEF IsRun, Page
<1>11. ASSUME NEW r \in FreeIn(new) \cup used
       PROVE  /\ Apart(r, part) /\ Apart(part, r)
              /\ tag[run] > n => Apart(r, left) /\ Apart(left, r)
              /\ r # part /\ r # left
  <2>1. r \in FreeIn(s) \cup used /\ r # whole BY <1>9, <1>2, <1>0
  <2>2. (r.first + r.count =< run \/ stop =< r.first) /\ IsRun(r) BY <2>1, <1>4
  <2>3. r.first \in Nat /\ r.count \in Nat \ {0} BY <2>2 DEF IsRun, Page
  <2> HIDE DEF part, left
  <2>4. Apart(r, part) /\ Apart(part, r) BY <2>2, <2>3, <1>3, <1>10 DEF Apart
  <2>5. tag[run] > n => Apart(r, left) /\ Apart(left, r)
    BY <2>2, <2>3, <1>3, <1>10 DEF Apart
  <2>6. r # part BY <2>2, <2>3, <1>3, <1>10
  <2>7. r # left
    <3>1. CASE r = left
      <4>1. r.first = run + n /\ r.count > 0 /\ r.first + r.count = stop
        BY <3>1, <2>3, <1>10
      <4> QED BY <4>1, <2>2, <2>3, <1>3
    <3> QED BY <3>1
  <2> QED BY <2>4, <2>5, <2>6, <2>7
<1>12. Apart(part, left) /\ Apart(left, part) /\ part # left
  BY <1>3, <1>10 DEF Apart
<1> HIDE DEF part, left
<1>13. Divides(FreeIn(new) \cup (used \cup {part}) \cup hole)
  <2>1. \A r \in FreeIn(new) \cup (used \cup {part}) \cup hole : IsRun(r)
    BY <1>0, <1>9, <1>10
  <2>2. ASSUME NEW p \in Page
        PROVE  \E r \in FreeIn(new) \cup (used \cup {part}) \cup hole :
                 r.first =< p /\ p < r.first + r.count
    <3>1. PICK r \in FreeIn(s) \cup used : r.first =< p /\ p < r.first + r.count
      BY <1>0
    <3>2. CASE r # whole BY <3>1, <3>2, <1>9
    <3>3. CASE r = whole
      <4>1. run =< p /\ p < stop BY <3>1, <3>3
      <4>2. CASE p < run + n BY <4>1, <4>2, <1>10
      <4>3. CASE ~(p < run + n)
        <5>1. tag[run] > n BY <4>1, <4>3, <1>3 DEF Page
        <5>2. left.first =< p /\ p < left.first + left.count
          BY <4>1, <4>3, <1>3, <1>10 DEF Page
        <5> QED BY <5>1, <5>2
      <4> QED BY <4>2, <4>3
    <3> QED BY <3>2, <3>3
  <2>3. ASSUME NEW r \in FreeIn(new) \cup (used \cup {part}) \cup hole,
               NEW t \in FreeIn(new) \cup (used \cup {part}) \cup hole
        PROVE  r = t \/ Apart(r, t)
    <3>1. CASE r \in FreeIn(new) \cup used /\ t \in FreeIn(new) \cup used
      BY <3>1, <1>9, <1>0
    <3>2. CASE r \in FreeIn(new) \cup used /\ t \in {part} \cup hole
      BY <3>2, <1>11
    <3>3. CASE r \in {part} \cup hole /\ t \in FreeIn(new) \cup used
      BY <3>3, <1>11
    <3>4. CASE r \in {part} \cup hole /\ t \in {part} \cup hole
      BY <3>4, <1>12
    <3> QED BY <3>1, <3>2, <3>3, <3>4
  <2> QED BY <2>1, <2>2, <2>3 DEF Divides
<1>14. FreeIn(new) \cap ((used \cup {part}) \cup hole) = {}
       /\ (used \cup {part}) \cap hole = {}
  BY <1>0, <1>9, <1>11, <1>12
<1>15. Marked(new, used \cup {part})
  <2>1. ASSUME NEW r \in FreeIn(new) \cup used
        PROVE  /\ new.tag[r.first] = r.count /\ new.tag[r.first + r.count - 1] = r.count
               /\ r.first \in Page /\ r.first # run
    <3>1. r \in FreeIn(s) \cup used /\ r # whole BY <1>9, <1>2, <1>0
    <3>2. (r.first + r.count =< run \/ stop =< r.first) /\ IsRun(r) BY <3>1, <1>4
    <3>3. r.first \in Page /\ r.first + r.count - 1 \in Page /\ r.count \in Nat \ {0}
      BY <3>2, <1>3 DEF IsRun, Page
    <3>4. (r.first < run \/ stop =< r.first)
          /\ (r.first + r.count - 1 < run \/ stop =< r.first + r.count - 1)
          /\ r.first # run
      BY <3>2, <3>3, <1>3 DEF Page
    <3> QED BY <3>1, <3>3, <3>4, <1>0, <1>5
  <2>2. new.tag[part.first] = part.count
        /\ new.tag[part.first + part.count - 1] = part.count
    BY <1>5, <1>10
  <2>3. \A r \in used \cup {part} : new.ll[r.first] = "self"
    BY <2>1, <1>0, <1>3, <1>6, <1>10 DEF StateOK
  <2> QED BY <2>1, <2>2, <2>3 DEF Marked
<1>16. Merged(new)
  BY <1>9 DEF Sound, Merged, s
<1>17. new.lists \in Lists /\ Filed(new.lists, Homes(new))
  <2>1. s.lists \in Lists /\ Filed(s.lists, Homes(s))
    BY <1>0 DEF Sound, StateOK, Lists, s
  <2>2. run \in DOMAIN Homes(s) BY DEF Homes, s
  <2>3. Homes(new) = Less(Homes(s), run)
    BY <1>7, <1>8 DEF Homes, Less
  <2> QED BY <2>1, <2>2, <2>3, <1>6, WithoutOne
<1>18. StateOK(new)
  BY <1>0, <1>5, <1>6, <1>17 DEF StateOK, Lists
<1>19. Sound(new, used \cup {part}, hole)
  BY <1>13, <1>14, <1>15, <1>16, <1>17, <1>18 DEF Sound
<1>20. \A r \in used : Apart(part, r) BY <1>11
<1> QED BY <1>10, <1>19, <1>20 DEF new, part, left

LEMMA TakeSound ==
  ASSUME NEW used, Sound(Now, used, {}),
         NEW run \in Linked(Now), NEW n \in Nat \ {0}, tag[run] >= n
  PROVE  LET part == [first |-> run, count |-> n]
         IN  /\ Sound(Take(run, n), used \cup {part}, {})
             /\ IsRun(part) /\ \A r \in used : Apart(part, r)
<1> DEFINE part == [first |-> run, count |-> n]
           left == [first |-> run + n, count |-> tag[run] - n]
<1>1. /\ Sound(HandOut(run, n), used \cup {part}, IF tag[run] > n THEN {left} ELSE {})
      /\ IsRun(part) /\ \A r \in used : Apart(part, r)
  BY HandOutSound
<1>2. CASE tag[run] > n
  <2>1. Sound(HandOut(run, n), used \cup {part}, {left}) BY <1>1, <1>2
  <2>2. Sound(FreeRange(HandOut(run, n), left.first, left.count), used \cup {part}, {})
    <3> HIDE DEF left
    <3> QED BY <2>1, FreeRangeSound
  <2>3. Take(run, n) = FreeRange(HandOut(run, n), left.first, left.count)
    BY <1>2 DEF Take
  <2> QED BY <1>1, <2>2, <2>3
<1>3. CASE ~(tag[run] > n)
  BY <1>1, <1>3 DEF Take
<1> QED BY <1>2, <1>3

-----------------------------------------------------------------------------
(* kmap and kunmap                                                         *)

LEMMA SearchIs ==
  ASSUME NEW n \in Nat, n > 1, NEW o \in Search(n)
  PROVE  o \in 0 .. Orders - 1 /\ Finds(o, n)
<1> DEFINE start == kmap_order(n)
           above == {a \in start .. Orders - 1 : Finds(a, n)}
<1>1. start \in 1 .. Orders /\ Orders \in Nat BY OrderStarts, KMapAssumption
<1>2. CASE above # {}
  <2>1. o = Min(above) BY <1>2 DEF Search
  <2>2. above \in SUBSET Nat BY <1>1
  <2>3. Min(above) \in above BY <1>2, <2>2, MinIs
  <2> QED BY <2>1, <2>3, <1>1
<1>3. CASE above = {}
  <2>1. o = start - 1 /\ Finds(o, n) BY <1>3 DEF Search
  <2> QED BY <2>1, <1>1
<1> QED BY <1>2, <1>3

\* kmap_alloc_range finds nothing only when nothing is long enough.
LEMMA SearchFails ==
  ASSUME NEW used, Sound(Now, used, {}),
         NEW n \in Nat, n > 1, n < 2^Orders, Search(n) = {},
         NEW r \in FreeIn(Now)
  PROVE  r.count < n
<1> DEFINE start == kmap_order(n)
           above == {a \in start .. Orders - 1 : Finds(a, n)}
           o     == ListOf(r.count)
<1>1. start \in 1 .. Orders /\ Orders \in Nat BY OrderStarts, KMapAssumption
<1>2. /\ r.first \in Linked(Now) /\ r.count = tag[r.first] /\ r.count \in Nat \ {0}
      /\ Filed(lists, Homes(Now))
  <2>1. r.first \in Linked(Now) /\ r.count = Now.tag[r.first] BY FreeInIs
  <2>2. IsRun(r) BY DEF Sound, Divides
  <2> QED BY <2>1, <2>2 DEF Now, IsRun, Sound
<1>3. SUFFICES ASSUME r.count >= n PROVE FALSE
  BY <1>2
<1>4. Homes(Now)[r.first] = o /\ DOMAIN Homes(Now) = Linked(Now)
  BY <1>2 DEF Homes, Now
<1>5. Finds(o, n)
  <2>1. \E i \in DOMAIN lists[o] : lists[o][i] = r.first BY <1>2, <1>4 DEF Filed
  <2> QED BY <2>1, <1>2, <1>3 DEF Finds
<1>6. o \in 0 .. Orders - 1 /\ o + 1 = kmap_order(r.count + 1)
  <2>1. kmap_order(r.count + 1) \in 1 .. Orders BY <1>2, OrderStarts
  <2> QED BY <2>1, <1>1 DEF ListOf
<1>7. o + 1 >= start BY <1>2, <1>3, <1>6, OrderGrows
<1>8. CASE o >= start
  <2>1. o \in above BY <1>5, <1>6, <1>8, <1>1
  <2>2. Search(n) = {Min(above)} BY <2>1 DEF Search
  <2> QED BY <2>2
<1>9. CASE o = start - 1
  <2>1. above = {}
    <3>1. CASE above # {}
      <4>1. Search(n) = {Min(above)} BY <3>1 DEF Search
      <4> QED BY <4>1
    <3> QED BY <3>1
  <2>2. start = kmap_order(r.count + 1) BY <1>6, <1>9, <1>1
  <2>3. start = Orders \/ 2^start >= r.count + 1 BY <2>2, <1>2, OrderIs
  <2>4. 2^start \in Int
    <3>1. \A k \in Nat : 2^k \in Int OBVIOUS
    <3> QED BY <3>1, <1>1
  <2>5. 2^start > n BY <2>3, <2>4, <1>2, <1>3
  <2>6. Finds(start - 1, n) BY <1>5, <1>9
  <2> HIDE DEF start
  <2>7. Search(n) = {a \in {start - 1} : 2^start > n /\ Finds(a, n)}
    BY <2>1 DEF Search, start
  <2> QED BY <2>5, <2>6, <2>7
<1> QED BY <1>6, <1>7, <1>8, <1>9, <1>1

LEMMA SoundDepends ==
  ASSUME NEW s, NEW t, NEW used, Sound(s, used, {}),
         t.tag = s.tag, t.ll = s.ll, t.lists = s.lists, t.fault = FALSE
  PROVE  Sound(t, used, {})
<1>1. Linked(t) = Linked(s) BY DEF Linked
<1>2. FreeIn(t) = FreeIn(s) BY <1>1 DEF FreeIn
<1>3. Homes(t) = Homes(s) BY <1>1 DEF Homes
<1>4. StateOK(t) BY DEF Sound, StateOK
<1>5. Marked(t, used) /\ Merged(t) BY <1>2 DEF Sound, Marked, Merged
<1> QED BY <1>2, <1>3, <1>4, <1>5 DEF Sound

LEMMA KmapKeeps ==
  ASSUME KInv, NEW n \in Counts, Kmap(n)
  PROVE  KInv'
<1>0. /\ n \in Nat \ {0} /\ n > 1 /\ machine = "up" /\ TypeOK /\ Sound(Now, held, {})
      /\ \A p \in Page : p \in present <=> \E r \in held : p \in Covers(r)
  BY KMapAssumption DEF KInv
<1>1. ASSUME NEW o \in Search(n), NEW run, NEW s, NEW new,
             run = Found(o, n), s = Take(run, n), new = Entries(run, n),
             Becomes(s), present' = present \cup new,
             machine' = CASE s.fault               -> "fault"
                          [] new \cap present # {} -> "BUG"
                          [] OTHER                 -> "up",
             held' = held \cup {[first |-> run, count |-> n]},
             answer' = [count |-> n, given |-> TRUE]
      PROVE  KInv'
  <2> DEFINE part == [first |-> run, count |-> n]
  <2>1. o \in 0 .. Orders - 1 /\ Finds(o, n) BY <1>0, SearchIs
  <2>2. run \in Linked(Now) /\ tag[run] >= n BY <1>0, <1>1, <2>1, FoundIs
  <2>3. Sound(s, held \cup {part}, {}) /\ IsRun(part) /\ \A r \in held : Apart(part, r)
    BY <1>0, <1>1, <2>2, TakeSound
  <2>4. s.fault = FALSE /\ StateOK(s) BY <2>3 DEF Sound, StateOK
  <2>5. Sound(Now', held', {})
    <3>1. Now'.tag = s.tag /\ Now'.ll = s.ll /\ Now'.lists = s.lists /\ Now'.fault = FALSE
      BY <1>1 DEF Now, Becomes
    <3> QED BY <3>1, <2>3, <1>1, SoundDepends
  <2>6. \A p : p \in new <=> p \in Covers(part) BY <1>1 DEF Entries, Covers
  <2>7. new \subseteq Page
    BY <2>3, <2>6, KMapAssumption DEF Covers, IsRun, Page
  <2>8. new \cap present = {}
    <3>1. ASSUME NEW p \in new, p \in present PROVE FALSE
      <4>1. p \in Page BY <2>7
      <4>2. PICK r \in held : p \in Covers(r) BY <3>1, <4>1, <1>0
      <4>3. IsRun(r) BY <1>0 DEF Sound, Divides
      <4>4. p \in Covers(part) BY <2>6
      <4> QED BY <4>1, <4>2, <4>3, <4>4, <2>3 DEF Covers, Apart, IsRun, Page
    <3> QED BY <3>1
  <2>9. machine' = "up" BY <1>1, <2>4, <2>8
  <2>10. TypeOK'
    <3>1. part \in [first : Page, count : Counts] BY <2>2 DEF Linked
    <3>2. present' \in SUBSET Page BY <2>7, <1>0, <1>1 DEF TypeOK
    <3>3. held' \in SUBSET [first : Page, count : Counts] BY <3>1, <1>0, <1>1 DEF TypeOK
    <3> QED BY <3>2, <3>3, <2>4, <2>9, <1>1 DEF TypeOK, StateOK, Becomes
  <2>11. \A p \in Page : p \in present' <=> \E r \in held' : p \in Covers(r)
    <3> HIDE DEF part
    <3>1. held' = held \cup {part} BY <1>1 DEF part
    <3> QED BY <3>1, <2>6, <1>0, <1>1
  <2>12. RefusesOnlyWhenNone' BY <1>1 DEF RefusesOnlyWhenNone
  <2>13. \A p \in Page : (p \in present <=> \E r \in held : p \in Covers(r))'
    BY <2>11 DEF Covers
  <2> QED BY <2>5, <2>9, <2>10, <2>12, <2>13 DEF KInv
<1>2. ASSUME Search(n) = {}, answer' = [count |-> n, given |-> FALSE],
             UNCHANGED <<tag, ll, lists, present, held, machine>>
      PROVE  KInv'
  <2>1. Now' = Now BY <1>2 DEF Now
  <2>2. Sound(Now', held', {}) BY <2>1, <1>0, <1>2
  <2>3. TypeOK' BY <1>0, <1>2 DEF TypeOK
  <2>4. \A p \in Page : (p \in present <=> \E r \in held : p \in Covers(r))'
    BY <1>0, <1>2 DEF Covers
  <2>5. n < 2^Orders => \A r \in FreeIn(Now) : r.count < n
    BY <1>0, <1>2, SearchFails
  <2>6. RefusesOnlyWhenNone'
    <3>1. FreeRuns' = FreeIn(Now)
      BY <1>2 DEF FreeRuns, FreeIn, Linked, Now
    <3> QED BY <2>5, <3>1, <1>2 DEF RefusesOnlyWhenNone
  <2> QED BY <2>2, <2>3, <2>4, <2>6, <1>0, <1>2 DEF KInv
<1> QED BY <1>1, <1>2 DEF Kmap

LEMMA KunmapKeeps ==
  ASSUME KInv, NEW run \in held, Kunmap(run)
  PROVE  KInv'
<1> DEFINE s    == FreeRange(Now, run.first, run.count)
           less == held \ {run}
<1>0. /\ TypeOK /\ Sound(Now, held, {})
      /\ \A p \in Page : p \in present <=> \E r \in held : p \in Covers(r)
      /\ \A r \in held : IsRun(r) /\ tag[r.first] = r.count
      /\ \A r, t \in held : r = t \/ Apart(r, t)
  BY DEF KInv, Sound, Divides, Marked, Now
<1>1. Sound(Now, less, {run})
  <2>1. FreeIn(Now) \cup less \cup {run} = FreeIn(Now) \cup held \cup {} OBVIOUS
  <2>2. Divides(FreeIn(Now) \cup less \cup {run}) BY <2>1, <1>0 DEF Sound
  <2>3. FreeIn(Now) \cap (less \cup {run}) = {} /\ less \cap {run} = {}
    BY <1>0 DEF Sound
  <2>4. Marked(Now, less) BY <1>0 DEF Sound, Marked
  <2> QED BY <2>2, <2>3, <2>4, <1>0 DEF Sound
<1>2. Sound(s, less, {}) BY <1>1, FreeRangeSound
<1>3. /\ Becomes(s) /\ machine' = IF s.fault THEN "fault" ELSE "up"
      /\ present' = present \ Entries(run.first, run.count)
      /\ held' = less /\ answer' = NoAnswer
  BY <1>0 DEF Kunmap
<1>4. s.fault = FALSE /\ StateOK(s) BY <1>2 DEF Sound, StateOK
<1>5. machine' = "up" BY <1>3, <1>4
<1> HIDE DEF s
<1>6. Sound(Now', held', {})
  <2>1. Now'.tag = s.tag /\ Now'.ll = s.ll /\ Now'.lists = s.lists /\ Now'.fault = FALSE
    BY <1>3 DEF Now, Becomes
  <2> QED BY <2>1, <1>2, <1>3, SoundDepends
<1>7. TypeOK'
  BY <1>0, <1>3, <1>4, <1>5 DEF TypeOK, StateOK, Becomes, NoAnswer
<1>8. ASSUME NEW p \in Page
      PROVE  p \in present' <=> \E r \in held' : p \in Covers(r)
  <2>1. p \in Entries(run.first, run.count) <=> p \in Covers(run)
    BY DEF Entries, Covers
  <2>2. ASSUME NEW r \in less, p \in Covers(r), p \in Covers(run) PROVE FALSE
    <3>1. Apart(r, run) /\ IsRun(r) /\ IsRun(run) BY <1>0
    <3> QED BY <3>1, <2>2 DEF Apart, IsRun, Covers, Page
  <2> QED BY <2>1, <2>2, <1>0, <1>3
<1>9. \A p \in Page : (p \in present <=> \E r \in held : p \in Covers(r))'
  BY <1>8 DEF Covers
<1>10. RefusesOnlyWhenNone' BY <1>3 DEF RefusesOnlyWhenNone, NoAnswer
<1> QED BY <1>5, <1>6, <1>7, <1>9, <1>10 DEF KInv

-----------------------------------------------------------------------------
(* The invariant                                                           *)

LEMMA KInit ==
  ASSUME Init
  PROVE  KInv
<1> DEFINE all == [first |-> 0, count |-> Pages]
<1>0. Pages \in Nat \ {0} /\ 0 \in Page /\ Pages - 1 \in Page
  BY KMapAssumption DEF Page
<1>1. /\ Now.tag = tag /\ Now.ll = ll /\ Now.lists = lists /\ Now.fault = FALSE
  BY DEF Now
<1>2. /\ tag \in [Page -> {-1} \cup 1 .. Pages] /\ tag[0] = Pages /\ tag[Pages - 1] = Pages
  BY <1>0 DEF Init
<1>3. ll \in [Page -> {"linked", "self", "wild"}] /\ Linked(Now) = {0}
  <2>1. \A p \in Page : ll[p] = "linked" <=> p = 0 BY DEF Init
  <2> QED BY <2>1, <1>0, <1>1 DEF Init, Linked
<1>4. FreeIn(Now) = {all} BY <1>1, <1>2, <1>3 DEF FreeIn
<1> DEFINE h == ListOf(Pages)
<1>5. h \in 0 .. Orders - 1 BY <1>0, ListExists
<1>6. lists \in Lists /\ Filed(lists, Homes(Now))
  <2>1. lists = [o \in 0 .. Orders - 1 |-> IF o = h THEN <<0>> ELSE <<>>] BY DEF Init
  <2>2. Homes(Now) = [p \in {0} |-> h] BY <1>1, <1>2, <1>3 DEF Homes
  <2> HIDE DEF h
  <2>3. lists \in Lists
    <3>1. <<0>> \in Seq(Page) /\ <<>> \in Seq(Page) BY <1>0
    <3> QED BY <2>1, <3>1 DEF Lists
  <2>4. DOMAIN lists = 0 .. Orders - 1 /\ DOMAIN Homes(Now) = {0} /\ Homes(Now)[0] = h
    BY <2>1, <2>2
  <2>5. /\ lists[h] = <<0>> /\ DOMAIN lists[h] = {1} /\ lists[h][1] = 0
        /\ \A o \in 0 .. Orders - 1 : o # h => lists[o] = <<>> /\ DOMAIN lists[o] = {}
    BY <1>5, <2>1
  <2>6. \A o \in DOMAIN lists : \A i \in DOMAIN lists[o] : o = h /\ i = 1
    BY <2>4, <2>5
  <2> QED BY <2>3, <2>4, <2>5, <2>6, <1>5 DEF Filed
<1>7. StateOK(Now) BY <1>1, <1>2, <1>3, <1>6 DEF StateOK, Lists
<1>8. IsRun(all) BY <1>0 DEF IsRun
<1>9. Divides(FreeIn(Now) \cup {} \cup {})
  <2>1. \A p \in Page : all.first =< p /\ p < all.first + all.count
    BY <1>0 DEF Page
  <2> QED BY <2>1, <1>4, <1>8 DEF Divides
<1>10. Marked(Now, {}) /\ Merged(Now)
  <2>1. all.first = 0 /\ all.count = Pages /\ 0 + Pages - 1 = Pages - 1 /\ 0 + Pages # 0
    BY <1>0
  <2> HIDE DEF all
  <2> QED BY <2>1, <1>1, <1>2, <1>4 DEF Marked, Merged
<1>11. held = {} /\ Sound(Now, held, {})
  <2>1. held = {} BY DEF Init
  <2>2. Sound(Now, {}, {}) BY <1>1, <1>6, <1>7, <1>9, <1>10 DEF Sound
  <2> QED BY <2>1, <2>2
<1>12. TypeOK BY <1>2, <1>3, <1>6 DEF TypeOK, Init, NoAnswer, Lists
<1> QED BY <1>11, <1>12 DEF KInv, Init, RefusesOnlyWhenNone, NoAnswer

LEMMA KNextKeeps ==
  ASSUME KInv, [KNext]_vars
  PROVE  KInv'
<1>1. CASE UNCHANGED vars
  <2>1. UNCHANGED <<tag, ll, lists, present, held, answer, machine>> BY <1>1 DEF vars
  <2>2. Now' = Now BY <2>1 DEF Now
  <2>3. Sound(Now', held', {}) BY <2>1, <2>2 DEF KInv
  <2>4. TypeOK' BY <2>1 DEF KInv, TypeOK
  <2>5. FreeRuns' = FreeRuns BY <2>1 DEF FreeRuns, FreeIn, Linked, Now
  <2>6. RefusesOnlyWhenNone' BY <2>1, <2>5 DEF KInv, RefusesOnlyWhenNone
  <2>7. \A p \in Page : (p \in present <=> \E r \in held : p \in Covers(r))'
    BY <2>1 DEF KInv, Covers
  <2> QED BY <2>1, <2>3, <2>4, <2>6, <2>7 DEF KInv
<1>2. ASSUME NEW n \in Counts, Kmap(n) PROVE KInv' BY <1>2, KmapKeeps
<1>3. ASSUME NEW run \in held, Kunmap(run) PROVE KInv' BY <1>3, KunmapKeeps
<1> QED BY <1>1, <1>2, <1>3 DEF KNext

\* A step of Paging.tla is one of KMap.tla, or leaves its variables alone.
LEMMA PStepIsKStep ==
  ASSUME [PNext]_allVars
  PROVE  [KNext]_vars
BY DEF PNext, allVars, Setup, PKmap, PKunmap, KNext

THEOREM KInvariance == PSpec => []KInv
<1>1. PInit => KInv BY KInit DEF PInit
<1>2. KInv /\ [PNext]_allVars => KInv' BY PStepIsKStep, KNextKeeps
<1> QED BY <1>1, <1>2, PTL DEF PSpec

\* paging.c:267-289, 292-308 - whatever is mapped and unmapped in whatever
\* order, the runs tile the window and the tags at their ends are right.
THEOREM WindowIsTiled == PSpec => []Tiled
<1>1. KInv => Tiled
  <2>1. SUFFICES ASSUME KInv PROVE Tiled
    OBVIOUS
  <2> DEFINE runs == FreeRuns \cup held
  <2>2. /\ \A r \in runs : IsRun(r)
        /\ \A p \in Page : \E r \in runs : r.first =< p /\ p < r.first + r.count
        /\ \A r, t \in runs : r = t \/ Apart(r, t)
        /\ \A r \in runs : tag[r.first] = r.count /\ tag[r.first + r.count - 1] = r.count
        /\ \A r, t \in FreeRuns : r.first + r.count # t.first
    <3>1. FreeRuns = FreeIn(Now) /\ runs = FreeIn(Now) \cup held \cup {}
      BY DEF FreeRuns
    <3>2. Now.tag = tag /\ Sound(Now, held, {}) BY <2>1 DEF KInv, Now
    <3>3. /\ \A r \in runs : IsRun(r)
          /\ \A p \in Page : \E r \in runs : r.first =< p /\ p < r.first + r.count
          /\ \A r, t \in runs : r = t \/ Apart(r, t)
      BY <3>1, <3>2 DEF Sound, Divides
    <3>4. \A r \in runs : tag[r.first] = r.count /\ tag[r.first + r.count - 1] = r.count
      BY <3>1, <3>2 DEF Sound, Marked
    <3> QED BY <3>1, <3>2, <3>3, <3>4 DEF Sound, Merged
  <2>3. ASSUME NEW r \in runs PROVE Covers(r) \subseteq Page
    <3>1. IsRun(r) BY <2>2
    <3> QED BY <3>1, KMapAssumption DEF IsRun, Covers, Page
  <2>4. \A p \in Page : \E r \in runs : p \in Covers(r)
    <3>1. SUFFICES ASSUME NEW p \in Page PROVE \E r \in runs : p \in Covers(r)
      OBVIOUS
    <3>2. PICK r \in runs : r.first =< p /\ p < r.first + r.count BY <2>2
    <3>3. IsRun(r) BY <2>2
    <3>4. p \in Covers(r) BY <3>2, <3>3 DEF Covers, IsRun, Page
    <3> QED BY <3>4
  <2>5. UNION {Covers(r) : r \in runs} = Page BY <2>3, <2>4
  <2>6. ASSUME NEW r \in runs, NEW t \in runs, r # t
        PROVE  Covers(r) \cap Covers(t) = {}
    <3>1. IsRun(r) /\ IsRun(t) /\ Apart(r, t) BY <2>2, <2>6
    <3> QED BY <3>1 DEF IsRun, Apart, Covers, Page
  <2> QED BY <2>2, <2>5, <2>6 DEF Tiled
<1> QED BY <1>1, KInvariance, PTL

\* paging.c:292-308 - kmap never fails for want of looking in the right list.
THEOREM RefusesTruly == PSpec => []RefusesOnlyWhenNone
<1>1. KInv => RefusesOnlyWhenNone BY DEF KInv
<1> QED BY <1>1, KInvariance, PTL

\* paging.c:270-289, 338-346 - kmap and kunmap never take a run off a list it
\* is not on, and never map a page of the window that is mapped already.
THEOREM KmapStaysUp == PSpec => [](machine = "up")
<1>1. KInv => machine = "up" BY DEF KInv
<1> QED BY <1>1, KInvariance, PTL

-----------------------------------------------------------------------------
(* Division.  (% binds as tightly as + here: every remainder is in          *)
(* parentheses.)                                                           *)

LEMMA Euclid ==
  ASSUME NEW a \in Nat, NEW d \in Nat \ {0}
  PROVE  a \div d \in Nat /\ a % d \in 0 .. d - 1 /\ a = d * (a \div d) + (a % d)
OBVIOUS

LEMMA MultiplesApart ==
  ASSUME NEW d \in Nat \ {0}, NEW k \in Nat, NEW m \in Nat, k < m
  PROVE  d * k + d =< d * m /\ d * k \in Nat /\ d * m \in Nat
OBVIOUS

LEMMA Quotient ==
  ASSUME NEW a \in Nat, NEW d \in Nat \ {0}, NEW q \in Nat, NEW r \in 0 .. d - 1,
         a = d * q + r
  PROVE  a \div d = q /\ a % d = r
<1> DEFINE x == a \div d
           y == a % d
<1>1. x \in Nat /\ y \in 0 .. d - 1 /\ a = d * x + y BY Euclid
<1> HIDE DEF x, y
<1>2. ~(x < q)
  <2>1. x < q => d * x + d =< d * q BY <1>1, MultiplesApart
  <2>2. d * x \in Nat /\ d * q \in Nat BY <1>1
  <2> QED BY <1>1, <2>1, <2>2
<1>3. ~(q < x)
  <2>1. q < x => d * q + d =< d * x BY <1>1, MultiplesApart
  <2>2. d * x \in Nat /\ d * q \in Nat BY <1>1
  <2> QED BY <1>1, <2>1, <2>2
<1>4. x = q BY <1>1, <1>2, <1>3
<1>5. y = r BY <1>1, <1>4
<1> QED BY <1>4, <1>5 DEF x, y

\* Dividing twice.
LEMMA Quotients ==
  ASSUME NEW a \in Nat, NEW d \in Nat \ {0}, NEW p \in Nat \ {0}
  PROVE  (a \div d) \div p = a \div (d * p) /\ d * p \in Nat \ {0}
<1> DEFINE x == a \div d
           y == a % d
           q == x \div p
           r == x % p
<1>1. x \in Nat /\ y \in 0 .. d - 1 /\ a = d * x + y BY Euclid
<1>2. q \in Nat /\ r \in 0 .. p - 1 /\ x = p * q + r BY <1>1, Euclid
<1> HIDE DEF x, y, q, r
<1>3. d * p \in Nat \ {0} OBVIOUS
<1>4. a = (d * p) * q + (d * r + y)
  <2>1. d * x = d * (p * q) + d * r BY <1>1, <1>2
  <2>2. d * (p * q) = (d * p) * q BY <1>2
  <2> QED BY <1>1, <1>2, <1>3, <2>1, <2>2
<1>5. d * r + y \in 0 .. (d * p) - 1
  <2>1. d * r + d =< d * p BY <1>2, MultiplesApart
  <2>2. d * r \in Nat BY <1>2
  <2> QED BY <1>1, <1>3, <2>1, <2>2
<1>6. a \div (d * p) = q
  <2> DEFINE e == d * p
             s == d * r + y
  <2>1. e \in Nat \ {0} /\ s \in 0 .. e - 1 /\ a = e * q + s BY <1>3, <1>4, <1>5
  <2> HIDE DEF e, s
  <2>2. a \div e = q BY <1>2, <2>1, Quotient
  <2> QED BY <2>2 DEF e
<1> QED BY <1>3, <1>6 DEF q, x

\* The numbers with the same quotient.
LEMMA SameQuotient ==
  ASSUME NEW a \in Nat, NEW b \in Nat, NEW d \in Nat \ {0}
  PROVE  /\ a - (a % d) \in Nat /\ a % d \in 0 .. d - 1
         /\ (b \div d = a \div d) <=> b \in a - (a % d) .. a - (a % d) + d - 1
         /\ (b \div d = a \div d) => (b % d) = b - (a - (a % d))
         /\ (a =< b) => (a \div d) =< (b \div d)
<1> DEFINE x == a \div d
           y == a % d
           u == b \div d
           v == b % d
<1>1. x \in Nat /\ y \in 0 .. d - 1 /\ a = d * x + y BY Euclid
<1>2. u \in Nat /\ v \in 0 .. d - 1 /\ b = d * u + v BY Euclid
<1> HIDE DEF x, y, u, v
<1>3. d * x \in Nat /\ d * u \in Nat BY <1>1, <1>2
<1>4. x < u => d * x + d =< d * u BY <1>1, <1>2, MultiplesApart
<1>5. u < x => d * u + d =< d * x BY <1>1, <1>2, MultiplesApart
<1>6. /\ a - y \in Nat /\ y \in 0 .. d - 1
      /\ (u = x) <=> b \in a - y .. a - y + d - 1
      /\ (u = x) => v = b - (a - y)
      /\ (a =< b) => x =< u
  BY <1>1, <1>2, <1>3, <1>4, <1>5
<1> QED BY <1>6 DEF x, y, u, v

-----------------------------------------------------------------------------
(* Addresses                                                               *)

Levels == 1 .. 4
Addr == 0 .. Top - 1

\* Which of the blocks of an entry of level lvl an address is in; one level
\* up from the root there is one block.
Block(a, lvl) == a \div (IF lvl = 5 THEN Top ELSE pml_size(lvl))

LEMMA PmlSizes ==
  /\ PT_ENTRIES \in Nat \ {0, 1}
  /\ pml_size(1) = 1
  /\ pml_size(2) = pml_size(1) * PT_ENTRIES
  /\ pml_size(3) = pml_size(2) * PT_ENTRIES
  /\ pml_size(4) = pml_size(3) * PT_ENTRIES
  /\ Top = pml_size(4) * PT_ENTRIES
  /\ \A l \in Levels : pml_size(l) \in Nat \ {0}
  /\ Top \in Nat \ {0}
<1>1. PT_ENTRIES \in Nat \ {0, 1} BY PageTableAssumption
<1>2. /\ pml_size(1) = 1 /\ pml_size(2) = PT_ENTRIES
      /\ pml_size(3) = PT_ENTRIES * PT_ENTRIES
      /\ pml_size(4) = PT_ENTRIES * PT_ENTRIES * PT_ENTRIES
  BY DEF pml_size
<1>3. \A m, n \in Nat \ {0} : m * n \in Nat \ {0} OBVIOUS
<1>4. pml_size(3) \in Nat \ {0} /\ pml_size(4) \in Nat \ {0} BY <1>1, <1>2, <1>3
<1>5. Top = pml_size(4) * PT_ENTRIES /\ Top \in Nat \ {0} BY <1>1, <1>3, <1>4 DEF Top
<1>6. \A l \in Levels : l = 1 \/ l = 2 \/ l = 3 \/ l = 4 BY DEF Levels
<1> QED BY <1>1, <1>2, <1>4, <1>5, <1>6

\* A block is its place in the next larger one.
LEMMA Digits ==
  ASSUME NEW a \in Nat, NEW l \in Levels
  PROVE  /\ Block(a, l) \in Nat /\ Block(a, l + 1) \in Nat
         /\ pml_offs(a, l) \in 0 .. PT_ENTRIES - 1
         /\ Block(a, l) = PT_ENTRIES * Block(a, l + 1) + pml_offs(a, l)
<1> DEFINE d == pml_size(l)
           u == IF l + 1 = 5 THEN Top ELSE pml_size(l + 1)
           p == PT_ENTRIES
<1>1. d \in Nat \ {0} /\ p \in Nat \ {0} /\ u = d * p
  <2>1. l = 1 \/ l = 2 \/ l = 3 \/ l = 4 BY DEF Levels
  <2>2. CASE l = 1 BY <2>2, PmlSizes DEF Levels
  <2>3. CASE l = 2 BY <2>3, PmlSizes DEF Levels
  <2>4. CASE l = 3 BY <2>4, PmlSizes DEF Levels
  <2>5. CASE l = 4 BY <2>5, PmlSizes DEF Levels
  <2> QED BY <2>1, <2>2, <2>3, <2>4, <2>5
<1>2. Block(a, l) = a \div d /\ Block(a, l + 1) = a \div u /\ pml_offs(a, l) = (a \div d) % p
  BY DEF Block, pml_offs, Levels
<1> HIDE DEF d, u, p
<1>3. (a \div d) \div p = a \div u BY <1>1, Quotients
<1> DEFINE x == a \div d
<1>4. x \in Nat BY <1>1, Euclid
<1> HIDE DEF x
<1>5. x \div p \in Nat /\ x % p \in 0 .. p - 1 /\ x = p * (x \div p) + (x % p)
  BY <1>1, <1>4, Euclid
<1> QED BY <1>2, <1>3, <1>4, <1>5 DEF x, p

LEMMA DigitsTell ==
  ASSUME NEW a \in Nat, NEW b \in Nat, NEW l \in Levels
  PROVE  /\ Block(a, l) = Block(b, l) => Block(a, l + 1) = Block(b, l + 1)
                                         /\ pml_offs(a, l) = pml_offs(b, l)
         /\ Block(a, l + 1) = Block(b, l + 1) =>
              /\ (pml_offs(a, l) = pml_offs(b, l)) <=> (Block(a, l) = Block(b, l))
              /\ (pml_offs(a, l) < pml_offs(b, l)) <=> (Block(a, l) < Block(b, l))
<1> DEFINE x == Block(a, l)
           y == Block(b, l)
           u == Block(a, l + 1)
           v == Block(b, l + 1)
           i == pml_offs(a, l)
           j == pml_offs(b, l)
           p == PT_ENTRIES
<1>1. /\ x \in Nat /\ y \in Nat /\ u \in Nat /\ v \in Nat /\ p \in Nat \ {0}
      /\ i \in 0 .. p - 1 /\ j \in 0 .. p - 1
      /\ x = p * u + i /\ y = p * v + j
  BY Digits, PmlSizes
<1> HIDE DEF x, y, u, v, i, j, p
<1>2. x \div p = u /\ x % p = i BY <1>1, Quotient
<1>3. y \div p = v /\ y % p = j BY <1>1, Quotient
<1>4. p * u \in Nat BY <1>1
<1>5. /\ x = y => u = v /\ i = j
      /\ u = v => /\ (i = j) <=> (x = y)
                  /\ (i < j) <=> (x < y)
  BY <1>1, <1>2, <1>3, <1>4
<1> QED BY <1>5 DEF x, y, u, v, i, j

LEMMA RootBlock ==
  ASSUME NEW a \in Addr
  PROVE  a \in Nat /\ Block(a, 5) = 0
<1>1. a \in Nat /\ Top \in Nat \ {0} /\ a \in 0 .. Top - 1 BY PmlSizes DEF Addr
<1>2. a = Top * 0 + a BY <1>1
<1>3. a \div Top = 0 BY <1>1, <1>2, Quotient
<1> QED BY <1>1, <1>3 DEF Block

\* The same block of a level is the same block of the levels above.
LEMMA BlocksAbove ==
  ASSUME NEW a \in Nat, NEW b \in Nat, NEW l \in 1 .. 5, NEW m \in 1 .. 5, l =< m,
         Block(a, l) = Block(b, l)
  PROVE  Block(a, m) = Block(b, m)
<1>1. \A k \in Levels : Block(a, k) = Block(b, k) => Block(a, k + 1) = Block(b, k + 1)
  BY DigitsTell
<1>2. \A k \in Levels : k = 1 \/ k = 2 \/ k = 3 \/ k = 4 BY DEF Levels
<1>3. 1 \in Levels /\ 2 \in Levels /\ 3 \in Levels /\ 4 \in Levels BY DEF Levels
<1>4. /\ Block(a, 1) = Block(b, 1) => Block(a, 2) = Block(b, 2)
      /\ Block(a, 2) = Block(b, 2) => Block(a, 3) = Block(b, 3)
      /\ Block(a, 3) = Block(b, 3) => Block(a, 4) = Block(b, 4)
      /\ Block(a, 4) = Block(b, 4) => Block(a, 5) = Block(b, 5)
  BY <1>1, <1>3
<1>5. \A k \in 1 .. 5 : k = 1 \/ k = 2 \/ k = 3 \/ k = 4 \/ k = 5 OBVIOUS
<1> QED BY <1>4, <1>5

-----------------------------------------------------------------------------
(* What one turn of the loop takes on.                                     *)

IsCall(c) ==
  /\ c.lvl \in Levels /\ c.begin \in Nat /\ c.last \in Nat /\ c.begin =< c.last
  /\ Block(c.begin, c.lvl + 1) = Block(c.last, c.lvl + 1)

Size(c) == pml_size(c.lvl)

LEMMA Portion ==
  ASSUME NEW c, IsCall(c)
  PROVE  /\ tomap(c) \in 1 .. c.last - c.begin + 1
         /\ Index(c) < pml_offs(c.last, c.lvl) => c.begin + tomap(c) =< c.last
         /\ ~(Index(c) < pml_offs(c.last, c.lvl)) => c.begin + tomap(c) = c.last + 1
         /\ \A b \in c.begin .. c.begin + tomap(c) - 1 : Block(b, c.lvl) = Block(c.begin, c.lvl)
         /\ \A b \in c.begin .. c.last : Block(b, c.lvl + 1) = Block(c.last, c.lvl + 1)
         /\ tomap(c) = Size(c) /\ (c.begin % Size(c)) = 0 =>
              \A b \in Nat : Block(b, c.lvl) = Block(c.begin, c.lvl) =>
                b \in c.begin .. c.begin + tomap(c) - 1 /\ (b % Size(c)) = b - c.begin
<1> DEFINE l == c.lvl
           x == c.begin
           y == c.last
           d == pml_size(c.lvl)
           m == c.begin % d
           E == x + d - m - 1
           u == IF l + 1 = 5 THEN Top ELSE pml_size(l + 1)
<1>1. l \in Levels /\ x \in Nat /\ y \in Nat /\ x =< y BY DEF IsCall
<1>2. d \in Nat \ {0} BY <1>1, PmlSizes
<1>3. u \in Nat \ {0} BY <1>1, PmlSizes DEF Levels
<1>4. \A b \in Nat : Block(b, l) = b \div d BY <1>1 DEF Block, Levels
<1>5. \A b \in Nat : Block(b, l + 1) = b \div u BY DEF Block
<1>6. Block(x, l + 1) = Block(y, l + 1) BY DEF IsCall
<1>7. Index(c) < pml_offs(y, l) <=> Block(x, l) < Block(y, l)
  BY <1>1, <1>6, DigitsTell DEF Index
<1>8. EntryEnd(c) = E BY DEF EntryEnd
<1>9. tomap(c) = (IF E < y THEN E ELSE y) - x + 1 BY <1>8 DEF tomap
<1>10. \A b \in Nat : /\ x - m \in Nat /\ m \in 0 .. d - 1
                      /\ (b \div d = x \div d) <=> b \in x - m .. x - m + d - 1
                      /\ (b \div d = x \div d) => (b % d) = b - (x - m)
                      /\ (x =< b) => (x \div d) =< (b \div d)
  BY <1>1, <1>2, SameQuotient
<1>11. \A a, b \in Nat : a =< b => (a \div u) =< (b \div u) BY <1>3, SameQuotient
<1>12. \A b \in Nat : b \div u \in Nat /\ b \div d \in Nat BY <1>2, <1>3, Euclid
<1>13. \A b \in x .. y : Block(b, l + 1) = Block(y, l + 1)
  <2> TAKE b \in x .. y
  <2>1. b \in Nat /\ x =< b /\ b =< y BY <1>1
  <2>2. (x \div u) =< (b \div u) /\ (b \div u) =< (y \div u) BY <1>1, <1>11, <2>1
  <2>3. x \div u = y \div u BY <1>1, <1>5, <1>6
  <2>4. b \div u = y \div u BY <1>1, <1>12, <2>1, <2>2, <2>3
  <2> QED BY <1>1, <1>5, <2>1, <2>4
<1>14. x - m \in Nat /\ m \in 0 .. d - 1 BY <1>1, <1>10
<1>15. (y \div d = x \div d) <=> y =< E BY <1>1, <1>2, <1>10, <1>14
<1>16. (x \div d) =< (y \div d) BY <1>1, <1>10
<1>17. Index(c) < pml_offs(y, l) <=> E < y
  <2>1. Block(x, l) = x \div d /\ Block(y, l) = y \div d BY <1>1, <1>4
  <2>2. x \div d \in Nat /\ y \div d \in Nat BY <1>1, <1>12
  <2> HIDE DEF d, m, E
  <2>3. E \in Int BY <1>1, <1>2, <1>14 DEF E
  <2> QED BY <1>1, <1>7, <1>15, <1>16, <2>1, <2>2, <2>3
<1>18. \A b \in x .. E : Block(b, l) = Block(x, l)
  <2> TAKE b \in x .. E
  <2>1. b \in Nat /\ b \in x - m .. x - m + d - 1 BY <1>1, <1>2, <1>14
  <2>2. b \div d = x \div d BY <1>10, <2>1
  <2> QED BY <1>1, <1>4, <2>1, <2>2
<1> DEFINE n == tomap(c)
           k == Index(c) < pml_offs(y, l)
<1>19. ASSUME n = d, m = 0, NEW b \in Nat, Block(b, l) = Block(x, l)
       PROVE  b \in x .. x + n - 1 /\ (b % d) = b - x
  <2>1. b \div d = x \div d BY <1>1, <1>4, <1>19
  <2>2. b \in x - m .. x - m + d - 1 /\ (b % d) = b - (x - m) BY <1>10, <2>1
  <2> QED BY <1>1, <1>2, <1>19, <2>2
<1>20. n = (IF E < y THEN E ELSE y) - x + 1 /\ (k <=> E < y) BY <1>9, <1>17
<1>21. E = x + d - m - 1 OBVIOUS
<1> HIDE DEF d, m, E, n, k, x, y, u, l
<1>22. /\ n \in 1 .. y - x + 1
       /\ k => x + n =< y
       /\ ~k => x + n = y + 1
       /\ \A b \in x .. x + n - 1 : b \in x .. E
  BY <1>1, <1>2, <1>14, <1>20, <1>21
<1>23. \A b \in x .. x + n - 1 : Block(b, l) = Block(x, l) BY <1>18, <1>22
<1> QED BY <1>13, <1>19, <1>22, <1>23 DEF d, m, n, k, x, y, l, Size

\* What is left of a call, and what is handed down, are calls again.
LEMMA CallsAgain ==
  ASSUME NEW c, IsCall(c), c.last \in Addr
  PROVE  /\ Index(c) < pml_offs(c.last, c.lvl) =>
              \A t, p : IsCall(CallOf(t, c.lvl, c.begin + tomap(c), c.last, p))
         /\ c.lvl # 1 =>
              \A t, p : IsCall(CallOf(t, c.lvl - 1, c.begin, c.begin + tomap(c) - 1, p))
<1> DEFINE n == tomap(c)
           l == c.lvl
<1>1. /\ l \in Levels /\ c.begin \in Nat /\ c.last \in Nat /\ c.begin =< c.last
      /\ n \in 1 .. c.last - c.begin + 1
  BY Portion DEF IsCall
<1>2. Index(c) < pml_offs(c.last, l) => c.begin + n =< c.last BY Portion
<1>3. c.begin + n - 1 \in c.begin .. c.begin + n - 1 BY <1>1
<1>4. Block(c.begin + n - 1, l) = Block(c.begin, l) BY <1>3, Portion
<1>5. \A b \in c.begin .. c.last : Block(b, l + 1) = Block(c.last, l + 1) BY Portion
<1> HIDE DEF n
<1>6. ASSUME Index(c) < pml_offs(c.last, l), NEW t, NEW p
      PROVE  IsCall(CallOf(t, l, c.begin + n, c.last, p))
  <2>1. c.begin + n \in c.begin .. c.last BY <1>1, <1>2, <1>6
  <2>2. Block(c.begin + n, l + 1) = Block(c.last, l + 1) BY <1>5, <2>1
  <2> QED BY <1>1, <2>1, <2>2 DEF IsCall, CallOf
<1>7. ASSUME l # 1, NEW t, NEW p
      PROVE  IsCall(CallOf(t, l - 1, c.begin, c.begin + n - 1, p))
  <2>1. l - 1 \in Levels /\ (l - 1) + 1 = l BY <1>1, <1>7 DEF Levels
  <2>2. c.begin + n - 1 \in Nat /\ c.begin =< c.begin + n - 1 BY <1>1
  <2> QED BY <1>1, <1>4, <2>1, <2>2 DEF IsCall, CallOf
<1> QED BY <1>6, <1>7 DEF n

-----------------------------------------------------------------------------
(* The tables                                                              *)

NoTable == -1
Entry == [present : BOOLEAN, large : BOOLEAN, to : Nat]
Table == [0 .. PT_ENTRIES - 1 -> Entry]

EntryOf(T, t, a, l) == T[t][pml_offs(a, l)]
Ends(e, l) == ~e.present \/ l = 1 \/ e.large

\* The table a walk for an address has got to at a level.
Below(T, t, a, l) ==
  IF t # NoTable /\ ~Ends(EntryOf(T, t, a, l), l) THEN EntryOf(T, t, a, l).to ELSE NoTable
Walk(T, a, l) ==
  LET third  == Below(T, 1, a, 4)
      second == Below(T, third, a, 3)
      first  == Below(T, second, a, 2)
  IN  <<first, second, third, 1>>[l]

\* The tables are a tree: a table is reached by one block of addresses, at one
\* level.
Tree(T) ==
  /\ T \in Seq(Table) /\ 1 \in DOMAIN T
  /\ \A a \in Addr, l \in Levels : Walk(T, a, l) \in {NoTable} \cup DOMAIN T
  /\ \A a, b \in Addr, l, m \in Levels :
       Walk(T, a, l) = Walk(T, b, m) /\ Walk(T, a, l) # NoTable
         => l = m /\ Block(a, l + 1) = Block(b, l + 1)

\* Where a walk that ends at this entry leads.
Target(e, a, l) == IF e.present THEN e.to + (a % pml_size(l)) ELSE UNMAPPED

LEMMA Walks ==
  ASSUME NEW T, NEW a
  PROVE  /\ Walk(T, a, 4) = 1
         /\ Walk(T, a, 3) = Below(T, Walk(T, a, 4), a, 4)
         /\ Walk(T, a, 2) = Below(T, Walk(T, a, 3), a, 3)
         /\ Walk(T, a, 1) = Below(T, Walk(T, a, 2), a, 2)
BY DEF Walk

LEMMA LevelsAre == \A l \in Levels : l = 1 \/ l = 2 \/ l = 3 \/ l = 4
BY DEF Levels

LEMMA WalkDown ==
  ASSUME NEW T, NEW a, NEW l \in Levels, l # 1
  PROVE  l - 1 \in Levels /\ Walk(T, a, l - 1) = Below(T, Walk(T, a, l), a, l)
<1>1. CASE l = 2 BY <1>1, Walks DEF Levels
<1>2. CASE l = 3 BY <1>2, Walks DEF Levels
<1>3. CASE l = 4 BY <1>3, Walks DEF Levels
<1> QED BY <1>1, <1>2, <1>3, LevelsAre

LEMMA EntryIs ==
  ASSUME NEW T, T \in Seq(Table), NEW t \in DOMAIN T, NEW a \in Nat, NEW l \in Levels
  PROVE  /\ EntryOf(T, t, a, l) \in Entry
         /\ EntryOf(T, t, a, l).present \in BOOLEAN
         /\ EntryOf(T, t, a, l).large \in BOOLEAN
         /\ EntryOf(T, t, a, l).to \in Nat
<1>1. pml_offs(a, l) \in 0 .. PT_ENTRIES - 1 BY Digits
<1>2. T[t] \in Table OBVIOUS
<1>3. EntryOf(T, t, a, l) \in Entry BY <1>1, <1>2 DEF Table, EntryOf
<1> QED BY <1>3 DEF Entry

\* Every walk ends, and where it ends is what the processor makes of it.
LEMMA WalkEnds ==
  ASSUME NEW T, Tree(T), NEW a \in Addr
  PROVE  /\ \E l \in Levels : Walk(T, a, l) # NoTable /\ Ends(EntryOf(T, Walk(T, a, l), a, l), l)
         /\ \A l \in Levels :
              Walk(T, a, l) # NoTable /\ Ends(EntryOf(T, Walk(T, a, l), a, l), l)
                => Translate(T, a) = Target(EntryOf(T, Walk(T, a, l), a, l), a, l)
<1> DEFINE w1 == Walk(T, a, 1)
           w2 == Walk(T, a, 2)
           w3 == Walk(T, a, 3)
           w4 == Walk(T, a, 4)
           e1 == EntryOf(T, w1, a, 1)
           e2 == EntryOf(T, w2, a, 2)
           e3 == EntryOf(T, w3, a, 3)
           e4 == EntryOf(T, w4, a, 4)
<1>1. /\ w4 = 1
      /\ w3 = IF w4 # NoTable /\ ~Ends(e4, 4) THEN e4.to ELSE NoTable
      /\ w2 = IF w3 # NoTable /\ ~Ends(e3, 3) THEN e3.to ELSE NoTable
      /\ w1 = IF w2 # NoTable /\ ~Ends(e2, 2) THEN e2.to ELSE NoTable
  BY Walks DEF Below
<1>2. /\ a \in Nat /\ 1 \in Levels /\ 2 \in Levels /\ 3 \in Levels /\ 4 \in Levels
      /\ T \in Seq(Table)
  BY RootBlock DEF Levels, Tree
<1>3. \A l \in Levels : Walk(T, a, l) # NoTable => Walk(T, a, l) \in DOMAIN T BY DEF Tree
<1>4. \A l \in Levels : Walk(T, a, l) # NoTable =>
        /\ EntryOf(T, Walk(T, a, l), a, l).present \in BOOLEAN
        /\ EntryOf(T, Walk(T, a, l), a, l).large \in BOOLEAN
        /\ EntryOf(T, Walk(T, a, l), a, l).to \in Nat
  BY <1>2, <1>3, EntryIs
<1>5. /\ w4 # NoTable
      /\ e4.present \in BOOLEAN /\ e4.large \in BOOLEAN /\ e4.to \in Nat
      /\ w3 # NoTable => e3.present \in BOOLEAN /\ e3.large \in BOOLEAN /\ e3.to \in Nat
      /\ w2 # NoTable => e2.present \in BOOLEAN /\ e2.large \in BOOLEAN /\ e2.to \in Nat
      /\ w1 # NoTable => e1.present \in BOOLEAN /\ e1.large \in BOOLEAN /\ e1.to \in Nat
  BY <1>1, <1>2, <1>4 DEF NoTable
<1>6. CASE Ends(e4, 4)
  <2>1. Translate(T, a) = Target(e4, a, 4)
    BY <1>1, <1>5, <1>6 DEF Translate, Through, EntryOf, Ends, Target
  <2>2. w3 = NoTable /\ w2 = NoTable /\ w1 = NoTable BY <1>1, <1>6
  <2> QED BY <1>2, <1>5, <1>6, <2>1, <2>2, LevelsAre
<1>7. CASE ~Ends(e4, 4) /\ Ends(e3, 3)
  <2>1. w3 = e4.to /\ w3 # NoTable BY <1>1, <1>5, <1>7 DEF NoTable
  <2>2. Translate(T, a) = Target(e3, a, 3)
    BY <1>1, <1>5, <1>7, <2>1 DEF Translate, Through, EntryOf, Ends, Target
  <2>3. w2 = NoTable /\ w1 = NoTable BY <1>1, <1>7
  <2> QED BY <1>2, <1>5, <1>7, <2>1, <2>2, <2>3, LevelsAre
<1>8. CASE ~Ends(e4, 4) /\ ~Ends(e3, 3) /\ Ends(e2, 2)
  <2>1. w3 = e4.to /\ w3 # NoTable BY <1>1, <1>5, <1>8 DEF NoTable
  <2>2. w2 = e3.to /\ w2 # NoTable BY <1>1, <1>5, <1>8, <2>1 DEF NoTable
  <2>3. Translate(T, a) = Target(e2, a, 2)
    BY <1>1, <1>5, <1>8, <2>1, <2>2 DEF Translate, Through, EntryOf, Ends, Target
  <2>4. w1 = NoTable BY <1>1, <1>8
  <2> QED BY <1>2, <1>5, <1>8, <2>1, <2>2, <2>3, <2>4, LevelsAre
<1>9. CASE ~Ends(e4, 4) /\ ~Ends(e3, 3) /\ ~Ends(e2, 2)
  <2>1. w3 = e4.to /\ w3 # NoTable BY <1>1, <1>5, <1>9 DEF NoTable
  <2>2. w2 = e3.to /\ w2 # NoTable BY <1>1, <1>5, <1>9, <2>1 DEF NoTable
  <2>3. w1 = e2.to /\ w1 # NoTable BY <1>1, <1>5, <1>9, <2>2 DEF NoTable
  <2>4. Ends(e1, 1) BY DEF Ends
  <2>5. Translate(T, a) = Target(e1, a, 1)
    BY <1>1, <1>5, <1>9, <2>1, <2>2, <2>3 DEF Translate, Through, EntryOf, Ends, Target
  <2> QED BY <1>2, <1>5, <1>9, <2>1, <2>2, <2>3, <2>4, <2>5, LevelsAre
<1> QED BY <1>6, <1>7, <1>8, <1>9

-----------------------------------------------------------------------------
(* Writing an entry                                                        *)

\* T2 is T but for entry i of table t; it may have more tables.
Differ(T, T2, t, i) ==
  /\ T2 \in Seq(Table) /\ DOMAIN T \subseteq DOMAIN T2
  /\ \A r \in DOMAIN T : \A j \in 0 .. PT_ENTRIES - 1 :
       (r # t \/ j # i) => T2[r][j] = T[r][j]

\* A walk sees the change only where it gets to that entry.
LEMMA OtherEntries ==
  ASSUME NEW T, Tree(T), NEW x \in Addr, NEW k \in Levels, Walk(T, x, k) # NoTable,
         NEW T2, Differ(T, T2, Walk(T, x, k), pml_offs(x, k)),
         NEW a \in Addr, NEW l \in Levels, Walk(T, a, l) # NoTable,
         l # k \/ Block(a, k) # Block(x, k)
  PROVE  EntryOf(T2, Walk(T, a, l), a, l) = EntryOf(T, Walk(T, a, l), a, l)
<1> DEFINE w == Walk(T, a, l)
           t == Walk(T, x, k)
<1>1. a \in Nat /\ x \in Nat BY RootBlock
<1>2. w \in DOMAIN T BY DEF Tree
<1>3. pml_offs(a, l) \in 0 .. PT_ENTRIES - 1 BY <1>1, Digits
<1>4. w # t \/ pml_offs(a, l) # pml_offs(x, k)
  <2> SUFFICES ASSUME w = t, pml_offs(a, l) = pml_offs(x, k) PROVE FALSE OBVIOUS
  <2>1. l = k /\ Block(a, l + 1) = Block(x, l + 1) BY DEF Tree
  <2>2. Block(a, k) = Block(x, k) BY <1>1, <2>1, DigitsTell
  <2> QED BY <2>1, <2>2
<1> HIDE DEF w, t
<1>5. T2[w][pml_offs(a, l)] = T[w][pml_offs(a, l)]
  BY <1>2, <1>3, <1>4 DEF Differ, w, t
<1> QED BY <1>5 DEF EntryOf, w

\* Walks stay as they are down to the entry.
LEMMA WalksKept ==
  ASSUME NEW T, Tree(T), NEW x \in Addr, NEW k \in Levels, Walk(T, x, k) # NoTable,
         NEW T2, Differ(T, T2, Walk(T, x, k), pml_offs(x, k)),
         NEW a \in Addr, NEW l \in Levels, l >= k \/ Block(a, k) # Block(x, k)
  PROVE  Walk(T2, a, l) = Walk(T, a, l)
<1> DEFINE Same(m) == Walk(T2, a, m) = Walk(T, a, m)
           Seen(m) == m >= k \/ Block(a, k) # Block(x, k)
<1>1. Same(4) BY Walks
<1>2. ASSUME NEW m \in Levels, m # 1, Same(m), Seen(m - 1)
      PROVE  Same(m - 1)
  <2>1. /\ Walk(T, a, m - 1) = Below(T, Walk(T, a, m), a, m)
        /\ Walk(T2, a, m - 1) = Below(T2, Walk(T, a, m), a, m)
    BY <1>2, WalkDown
  <2>2. CASE Walk(T, a, m) = NoTable BY <2>1, <2>2 DEF Below
  <2>3. CASE Walk(T, a, m) # NoTable
    <3>1. m # k \/ Block(a, k) # Block(x, k) BY <1>2 DEF Levels
    <3>2. EntryOf(T2, Walk(T, a, m), a, m) = EntryOf(T, Walk(T, a, m), a, m)
      BY <2>3, <3>1, OtherEntries
    <3> QED BY <2>1, <3>2 DEF Below
  <2> QED BY <2>2, <2>3
<1>3. /\ Same(4) /\ Seen(3) => Same(3)
      /\ Same(3) /\ Seen(2) => Same(2)
      /\ Same(2) /\ Seen(1) => Same(1)
  <2>1. 4 \in Levels /\ 3 \in Levels /\ 2 \in Levels BY DEF Levels
  <2>2. 4 - 1 = 3 /\ 3 - 1 = 2 /\ 2 - 1 = 1 /\ 4 # 1 /\ 3 # 1 /\ 2 # 1 OBVIOUS
  <2> HIDE DEF Same, Seen
  <2>3. Same(4) /\ Seen(4 - 1) => Same(4 - 1) BY <1>2, <2>1, <2>2
  <2>4. Same(3) /\ Seen(3 - 1) => Same(3 - 1) BY <1>2, <2>1, <2>2
  <2>5. Same(2) /\ Seen(2 - 1) => Same(2 - 1) BY <1>2, <2>1, <2>2
  <2> QED BY <2>2, <2>3, <2>4, <2>5
<1>4. /\ Seen(1) => Seen(2)
      /\ Seen(2) => Seen(3)
      /\ Seen(l)
  BY DEF Levels
<1> HIDE DEF Same, Seen
<1>5. Same(l) BY <1>1, <1>3, <1>4, LevelsAre
<1> QED BY <1>5 DEF Same

\* Addresses that do not share the entry keep their translation.
LEMMA OthersKept ==
  ASSUME NEW T, Tree(T), NEW x \in Addr, NEW k \in Levels, Walk(T, x, k) # NoTable,
         NEW T2, Differ(T, T2, Walk(T, x, k), pml_offs(x, k)), Tree(T2),
         NEW a \in Addr, Block(a, k) # Block(x, k)
  PROVE  Translate(T2, a) = Translate(T, a)
<1>1. PICK l \in Levels : Walk(T, a, l) # NoTable /\ Ends(EntryOf(T, Walk(T, a, l), a, l), l)
  BY WalkEnds
<1>2. Walk(T2, a, l) = Walk(T, a, l) BY WalksKept
<1>3. EntryOf(T2, Walk(T, a, l), a, l) = EntryOf(T, Walk(T, a, l), a, l)
  BY <1>1, OtherEntries
<1>4. Translate(T, a) = Target(EntryOf(T, Walk(T, a, l), a, l), a, l) BY <1>1, WalkEnds
<1>5. Translate(T2, a) = Target(EntryOf(T2, Walk(T2, a, l), a, l), a, l)
  BY <1>1, <1>2, <1>3, WalkEnds
<1> QED BY <1>2, <1>3, <1>4, <1>5

\* The tables after the entry for x at level k was written.
Written(T, x, k, e) == [T EXCEPT ![Walk(T, x, k)][pml_offs(x, k)] = e]

LEMMA WrittenIs ==
  ASSUME NEW T, Tree(T), NEW x \in Addr, NEW k \in Levels, Walk(T, x, k) # NoTable,
         NEW e \in Entry
  PROVE  /\ Written(T, x, k, e) \in Seq(Table)
         /\ Len(Written(T, x, k, e)) = Len(T)
         /\ Differ(T, Written(T, x, k, e), Walk(T, x, k), pml_offs(x, k))
         /\ Written(T, x, k, e)[Walk(T, x, k)][pml_offs(x, k)] = e
<1> DEFINE w == Walk(T, x, k)
           i == pml_offs(x, k)
           T2 == [T EXCEPT ![w][i] = e]
           f == [T[w] EXCEPT ![i] = e]
<1>1. w \in DOMAIN T /\ T \in Seq(Table) BY DEF Tree
<1>2. i \in 0 .. PT_ENTRIES - 1 BY RootBlock, Digits
<1>3. Written(T, x, k, e) = T2 BY DEF Written
<1> HIDE DEF w, i
<1>4. T[w] \in Table BY <1>1
<1>5. f \in Table BY <1>2, <1>4 DEF Table
<1>6. T2 = [T EXCEPT ![w] = f] OBVIOUS
<1>7. f[i] = e /\ \A j \in 0 .. PT_ENTRIES - 1 : j # i => f[j] = T[w][j]
  BY <1>2, <1>4 DEF Table
<1> HIDE DEF f, T2
<1>8. T2 \in Seq(Table) /\ Len(T2) = Len(T) /\ DOMAIN T2 = DOMAIN T
      /\ T2[w] = f /\ \A r \in DOMAIN T : r # w => T2[r] = T[r]
  BY <1>1, <1>5, <1>6
<1>9. Differ(T, T2, w, i) BY <1>7, <1>8 DEF Differ
<1> QED BY <1>3, <1>7, <1>8, <1>9 DEF w, i

\* Two addresses of a block take the same way to it.
LEMMA SameWalks ==
  ASSUME NEW T, NEW a \in Nat, NEW x \in Nat, NEW k \in Levels,
         Block(a, k) = Block(x, k), NEW l \in Levels, l >= k
  PROVE  Walk(T, a, l) = Walk(T, x, l)
<1> DEFINE Same(m) == Walk(T, a, m) = Walk(T, x, m)
<1>1. Same(4) BY Walks
<1>2. ASSUME NEW m \in Levels, m # 1, Same(m), m - 1 >= k
      PROVE  Same(m - 1)
  <2>1. m \in 1 .. 5 /\ k \in 1 .. 5 /\ k =< m BY <1>2 DEF Levels
  <2>2. Block(a, m) = Block(x, m) BY <2>1, BlocksAbove
  <2>3. pml_offs(a, m) = pml_offs(x, m) BY <2>2, DigitsTell
  <2>4. /\ Walk(T, a, m - 1) = Below(T, Walk(T, a, m), a, m)
        /\ Walk(T, x, m - 1) = Below(T, Walk(T, a, m), x, m)
    BY <1>2, WalkDown
  <2> QED BY <2>3, <2>4 DEF Below, EntryOf
<1>3. /\ Same(4) /\ 3 >= k => Same(3)
      /\ Same(3) /\ 2 >= k => Same(2)
      /\ Same(2) /\ 1 >= k => Same(1)
  <2>1. 4 \in Levels /\ 3 \in Levels /\ 2 \in Levels BY DEF Levels
  <2>2. 4 - 1 = 3 /\ 3 - 1 = 2 /\ 2 - 1 = 1 /\ 4 # 1 /\ 3 # 1 /\ 2 # 1 OBVIOUS
  <2> HIDE DEF Same
  <2>3. Same(4) /\ 4 - 1 >= k => Same(4 - 1) BY <1>2, <2>1, <2>2
  <2>4. Same(3) /\ 3 - 1 >= k => Same(3 - 1) BY <1>2, <2>1, <2>2
  <2>5. Same(2) /\ 2 - 1 >= k => Same(2 - 1) BY <1>2, <2>1, <2>2
  <2> QED BY <2>2, <2>3, <2>4, <2>5
<1>4. /\ 1 >= k => 2 >= k
      /\ 2 >= k => 3 >= k
      /\ k \in Nat
  BY DEF Levels
<1> HIDE DEF Same
<1>5. Same(l) BY <1>1, <1>3, <1>4, LevelsAre
<1> QED BY <1>5 DEF Same

\* A walk that ends goes no further.
LEMMA NothingBelow ==
  ASSUME NEW T, NEW a, NEW k \in Levels,
         Walk(T, a, k) = NoTable \/ Ends(EntryOf(T, Walk(T, a, k), a, k), k),
         NEW l \in Levels, l < k
  PROVE  Walk(T, a, l) = NoTable
<1> DEFINE None(m) == Walk(T, a, m) = NoTable
<1>1. k # 1 => None(k - 1) BY WalkDown DEF Below
<1>2. ASSUME NEW m \in Levels, m # 1, None(m) PROVE None(m - 1)
  BY <1>2, WalkDown DEF Below
<1>3. /\ 4 \in Levels /\ 3 \in Levels /\ 2 \in Levels
      /\ 4 - 1 = 3 /\ 3 - 1 = 2 /\ 2 - 1 = 1 /\ 4 # 1 /\ 3 # 1 /\ 2 # 1
  BY DEF Levels
<1> HIDE DEF None
<1>4. None(3) => None(2) BY <1>2, <1>3
<1>5. None(2) => None(1) BY <1>2, <1>3
<1>6. None(l)
  <2>1. k = 2 \/ k = 3 \/ k = 4 BY DEF Levels
  <2>2. CASE k = 2
    <3>1. l = 1 /\ None(1) BY <1>1, <1>3, <2>2 DEF Levels
    <3> QED BY <3>1
  <2>3. CASE k = 3
    <3>1. (l = 1 \/ l = 2) /\ None(2) BY <1>1, <1>3, <2>3 DEF Levels
    <3> QED BY <1>5, <3>1
  <2>4. CASE k = 4
    <3>1. (l = 1 \/ l = 2 \/ l = 3) /\ None(3) BY <1>1, <1>3, <2>4 DEF Levels
    <3> QED BY <1>4, <1>5, <3>1
  <2> QED BY <2>1, <2>2, <2>3, <2>4
<1> QED BY <1>6 DEF None

\* An entry that points to no table and did not point to one: every walk stays
\* as it is, and the addresses of the entry lead where it says.
LEMMA WriteLeaf ==
  ASSUME NEW T, Tree(T), NEW x \in Addr, NEW k \in Levels, Walk(T, x, k) # NoTable,
         Ends(EntryOf(T, Walk(T, x, k), x, k), k),
         NEW e \in Entry, Ends(e, k)
  PROVE  /\ Tree(Written(T, x, k, e))
         /\ \A a \in Addr, l \in Levels : Walk(Written(T, x, k, e), a, l) = Walk(T, a, l)
         /\ \A a \in Addr : Translate(Written(T, x, k, e), a) =
              IF Block(a, k) = Block(x, k) THEN Target(e, a, k) ELSE Translate(T, a)
<1> DEFINE T2 == Written(T, x, k, e)
           w == Walk(T, x, k)
           i == pml_offs(x, k)
<1>1. /\ T2 \in Seq(Table) /\ Len(T2) = Len(T) /\ Differ(T, T2, w, i)
      /\ T2[w][i] = e
  BY WrittenIs
<1> HIDE DEF T2
<1>2. \A a \in Addr : a \in Nat BY RootBlock
\* Addresses of the block meet the entry.
<1>3. ASSUME NEW a \in Addr, Block(a, k) = Block(x, k)
      PROVE  /\ Walk(T, a, k) = w /\ Walk(T2, a, k) = w
             /\ EntryOf(T, w, a, k) = EntryOf(T, w, x, k)
             /\ EntryOf(T2, w, a, k) = e
  <2>1. pml_offs(a, k) = i BY <1>2, <1>3, DigitsTell
  <2>2. \A l \in Levels : l >= k => Walk(T, a, l) = Walk(T, x, l)
    BY <1>2, <1>3, SameWalks
  <2>3. k >= k BY DEF Levels
  <2>4. Walk(T, a, k) = w BY <2>2, <2>3
  <2>5. Walk(T2, a, k) = Walk(T, a, k) BY <1>1, <2>3, WalksKept
  <2> QED BY <1>1, <2>1, <2>4, <2>5 DEF EntryOf
\* Below the entry there is nothing, before and after.
<1>4. ASSUME NEW a \in Addr, Block(a, k) = Block(x, k), NEW l \in Levels, l < k
      PROVE  Walk(T, a, l) = NoTable /\ Walk(T2, a, l) = NoTable
  <2>1. /\ Walk(T, a, k) = w /\ Walk(T2, a, k) = w
        /\ Ends(EntryOf(T, w, a, k), k) /\ Ends(EntryOf(T2, w, a, k), k)
    BY <1>3, <1>4
  <2> QED BY <1>4, <2>1, NothingBelow
<1>5. ASSUME NEW a \in Addr, NEW l \in Levels
      PROVE  Walk(T2, a, l) = Walk(T, a, l)
  <2>1. CASE Block(a, k) = Block(x, k) /\ l < k BY <1>4, <2>1
  <2>2. CASE Block(a, k) # Block(x, k) \/ l >= k BY <1>1, <2>2, WalksKept
  <2> QED BY <2>1, <2>2 DEF Levels
<1>6. Tree(T2) BY <1>1, <1>5 DEF Tree, Differ
<1>7. ASSUME NEW a \in Addr, Block(a, k) = Block(x, k)
      PROVE  Translate(T2, a) = Target(e, a, k)
  BY <1>3, <1>6, <1>7, WalkEnds
<1>8. ASSUME NEW a \in Addr, Block(a, k) # Block(x, k)
      PROVE  Translate(T2, a) = Translate(T, a)
  BY <1>1, <1>6, <1>8, OthersKept
<1> QED BY <1>5, <1>6, <1>7, <1>8 DEF T2

\* The tables after a new one was linked in.
Grown(T, x, k) == Append(Written(T, x, k, TableEntry(Len(T) + 1)), FreshTable)

\* A new table in the place of an entry that was not present: walks only get
\* longer, and no address leads anywhere else.
LEMMA WriteTable ==
  ASSUME NEW T, Tree(T), NEW x \in Addr, NEW k \in Levels, k # 1, Walk(T, x, k) # NoTable,
         ~EntryOf(T, Walk(T, x, k), x, k).present
  PROVE  /\ Tree(Grown(T, x, k))
         /\ \A a \in Addr, l \in Levels :
              Walk(T, a, l) # NoTable => Walk(Grown(T, x, k), a, l) = Walk(T, a, l)
         /\ Walk(Grown(T, x, k), x, k - 1) = Len(T) + 1
         /\ \A a \in Addr : Translate(Grown(T, x, k), a) = Translate(T, a)
<1> DEFINE n == Len(T) + 1
           e == TableEntry(n)
           T1 == Written(T, x, k, e)
           T2 == Grown(T, x, k)
           w == Walk(T, x, k)
           i == pml_offs(x, k)
           h == k - 1
<1>1. T \in Seq(Table) /\ n \in Nat /\ n # NoTable /\ n \notin DOMAIN T /\ w \in DOMAIN T
  BY DEF Tree, NoTable
<1>2. e \in Entry /\ e.present /\ e.to = n /\ ~Ends(e, k)
  BY <1>1 DEF Entry, TableEntry, Ends
<1>3. T1 \in Seq(Table) /\ Len(T1) = Len(T) /\ Differ(T, T1, w, i) /\ T1[w][i] = e
  BY <1>2, WrittenIs
<1>4. FreshTable \in Table /\ EMPTY \in Entry
  BY DEF Table, FreshTable, Entry, EMPTY
<1>5. T2 = Append(T1, FreshTable) BY DEF Grown
<1> HIDE DEF T1, T2, e
<1>6. /\ T2 \in Seq(Table) /\ Len(T2) = n /\ T2[n] = FreshTable
      /\ \A r \in DOMAIN T1 : T2[r] = T1[r]
      /\ DOMAIN T1 = DOMAIN T /\ DOMAIN T2 = DOMAIN T \cup {n}
  <2> HIDE DEF Tree
  <2>1. T2 \in Seq(Table) /\ Len(T2) = n /\ T2[n] = FreshTable BY <1>1, <1>3, <1>4, <1>5
  <2>2. DOMAIN T1 = 1 .. Len(T) /\ DOMAIN T2 = 1 .. n /\ DOMAIN T = 1 .. Len(T)
        /\ Len(T) \in Nat
    BY <1>1, <1>3, <2>1
  <2>3. \A r \in DOMAIN T1 : T2[r] = T1[r] BY <1>3, <1>5, <2>2
  <2> QED BY <2>1, <2>2, <2>3
<1>7. Differ(T, T2, w, i) BY <1>1, <1>3, <1>6 DEF Differ
<1>8. T2[w][i] = e BY <1>1, <1>3, <1>6
<1>9. h \in Levels /\ h < k /\ (\A l \in Levels : l < k => l = h \/ l < h) BY DEF Levels
<1>10. \A a \in Addr : a \in Nat BY RootBlock
<1>11. ~EntryOf(T, w, x, k).present OBVIOUS
<1> HIDE DEF n, w, i, h
\* Addresses of the block meet the entry and go on to the new table.
<1>12. ASSUME NEW a \in Addr, Block(a, k) = Block(x, k)
       PROVE  /\ Walk(T, a, k) = w /\ ~EntryOf(T, w, a, k).present
              /\ Walk(T2, a, h) = n /\ EntryOf(T2, n, a, h) = EMPTY
  <2>1. pml_offs(a, k) = i BY <1>10, <1>12, DigitsTell DEF i
  <2>2. k >= k BY DEF Levels
  <2>3. Walk(T, a, k) = w BY <1>10, <1>12, <2>2, SameWalks DEF w
  <2>4. Walk(T2, a, k) = w BY <1>7, <2>2, <2>3, WalksKept DEF w, i
  <2>5. EntryOf(T2, w, a, k) = e BY <1>8, <2>1 DEF EntryOf
  <2>6. Walk(T2, a, h) = Below(T2, w, a, k) BY <2>4, WalkDown DEF h
  <2>7. w # NoTable BY DEF w
  <2>8. Walk(T2, a, h) = n BY <1>2, <2>5, <2>6, <2>7 DEF Below
  <2>9. pml_offs(a, h) \in 0 .. PT_ENTRIES - 1 BY <1>9, <1>10, Digits
  <2>10. EntryOf(T2, n, a, h) = EMPTY BY <1>6, <2>9 DEF EntryOf, FreshTable
  <2>11. ~EntryOf(T, w, a, k).present BY <1>11, <2>1 DEF EntryOf, i
  <2> QED BY <2>3, <2>8, <2>10, <2>11
<1>13. ASSUME NEW a \in Addr, NEW l \in Levels
       PROVE  \/ Walk(T2, a, l) = Walk(T, a, l)
              \/ /\ Walk(T, a, l) = NoTable /\ Walk(T2, a, l) = n
                 /\ l = h /\ Block(a, k) = Block(x, k)
  <2>1. CASE Block(a, k) # Block(x, k) \/ l >= k BY <1>7, <2>1, WalksKept DEF w, i
  <2>2. CASE Block(a, k) = Block(x, k) /\ l < k
    <3>1. Ends(EntryOf(T, Walk(T, a, k), a, k), k) BY <1>12, <2>2 DEF Ends
    <3>2. Walk(T, a, l) = NoTable BY <2>2, <3>1, NothingBelow
    <3>3. CASE l = h BY <1>12, <2>2, <3>2, <3>3
    <3>4. CASE l < h
      <4>1. Ends(EntryOf(T2, Walk(T2, a, h), a, h), h) BY <1>12, <2>2 DEF Ends, EMPTY
      <4>2. Walk(T2, a, l) = NoTable BY <1>9, <3>4, <4>1, NothingBelow
      <4> QED BY <3>2, <4>2
    <3> QED BY <1>9, <2>2, <3>3, <3>4
  <2> QED BY <2>1, <2>2 DEF Levels
<1>14. \A a \in Addr, l \in Levels : Walk(T, a, l) \in {NoTable} \cup DOMAIN T BY DEF Tree
<1>15. \A a \in Addr, l \in Levels : Walk(T2, a, l) \in {NoTable} \cup DOMAIN T2
  BY <1>6, <1>13, <1>14
<1>16. ASSUME NEW a \in Addr, NEW b \in Addr, NEW l \in Levels, NEW m \in Levels,
              Walk(T2, a, l) = Walk(T2, b, m), Walk(T2, a, l) # NoTable
       PROVE  l = m /\ Block(a, l + 1) = Block(b, l + 1)
  <2>1. CASE Walk(T2, a, l) = n
    <3>1. l = h /\ Block(a, k) = Block(x, k) BY <1>1, <1>13, <1>14, <2>1
    <3>2. m = h /\ Block(b, k) = Block(x, k) BY <1>1, <1>13, <1>14, <1>16, <2>1
    <3>3. h + 1 = k BY DEF h, Levels
    <3> QED BY <3>1, <3>2, <3>3
  <2>2. CASE Walk(T2, a, l) # n
    <3>1. Walk(T, a, l) = Walk(T, b, m) /\ Walk(T, a, l) # NoTable
      BY <1>13, <1>16, <2>2
    <3> QED BY <3>1 DEF Tree
  <2> QED BY <2>1, <2>2
<1>17. 1 \in DOMAIN T2 BY <1>6 DEF Tree
<1>18. Tree(T2) BY <1>6, <1>15, <1>16, <1>17 DEF Tree
<1>19. ASSUME NEW a \in Addr PROVE Translate(T2, a) = Translate(T, a)
  <2>1. CASE Block(a, k) # Block(x, k) BY <1>7, <1>18, <2>1, OthersKept DEF w, i
  <2>2. CASE Block(a, k) = Block(x, k)
    <3>1. /\ Walk(T, a, k) = w /\ ~EntryOf(T, w, a, k).present
          /\ Walk(T2, a, h) = n /\ EntryOf(T2, n, a, h) = EMPTY
      BY <1>12, <2>2
    <3>2. Translate(T, a) = UNMAPPED
      BY <3>1, WalkEnds DEF Ends, Target, w
    <3>3. Translate(T2, a) = UNMAPPED
      BY <1>1, <1>9, <1>18, <3>1, WalkEnds DEF Ends, Target, EMPTY
    <3> QED BY <3>2, <3>3
  <2> QED BY <2>1, <2>2
<1>20. \A a \in Addr, l \in Levels :
         Walk(T, a, l) # NoTable => Walk(T2, a, l) = Walk(T, a, l)
  BY <1>13
<1>21. Walk(T2, x, h) = n BY <1>12
<1> QED BY <1>18, <1>19, <1>20, <1>21 DEF T2, n, h

-----------------------------------------------------------------------------
(* The calls on the stack                                                  *)

Calls == [table : Nat, lvl : Levels, begin : Nat, last : Nat, phys : Nat]
Goals == {g \in [begin : Addr, last : Addr, phys : Nat] : g.begin =< g.last}

\* The call is for a part of the goal, and has got to the table for it.
Serves(T, c, g) ==
  /\ IsCall(c) /\ g.begin =< c.begin /\ c.last =< g.last
  /\ c.table = Walk(T, c.begin, c.lvl) /\ c.table # NoTable
  /\ c.phys = g.phys + (c.begin - g.begin)

\* The calls follow on each other, the last reaches the end of the goal.
StackOK(T, stack, g) ==
  /\ stack \in Seq(Calls)
  /\ \A i \in DOMAIN stack : Serves(T, stack[i], g)
  /\ \A i, j \in DOMAIN stack : j = i + 1 => stack[j].begin = stack[i].last + 1
  /\ stack # <<>> => stack[Len(stack)].last = g.last

\* What is not yet done.
From(stack, g) == IF stack = <<>> THEN g.last + 1 ELSE stack[1].begin

Longer(T, T2) ==
  \A a \in Addr, l \in Levels : Walk(T, a, l) # NoTable => Walk(T2, a, l) = Walk(T, a, l)

LEMMA GoalIs ==
  ASSUME NEW g \in Goals
  PROVE  g.begin \in Addr /\ g.last \in Addr /\ g.begin \in Nat /\ g.last \in Nat
         /\ g.phys \in Nat /\ g.begin =< g.last
BY RootBlock DEF Goals

LEMMA CallIs ==
  ASSUME NEW c, c \in Calls, NEW g \in Goals, NEW T, Serves(T, c, g)
  PROVE  /\ c.lvl \in Levels /\ c.begin \in Nat /\ c.last \in Nat /\ c.begin =< c.last
         /\ c.begin \in Addr /\ c.last \in Addr /\ c.phys \in Nat /\ c.table \in Nat
<1>1. Top \in Nat BY PmlSizes
<1> QED BY <1>1, GoalIs DEF Calls, Serves, IsCall, Addr

LEMMA SameTable ==
  ASSUME NEW T, NEW a \in Nat, NEW x \in Nat, NEW l \in Levels,
         Block(a, l + 1) = Block(x, l + 1)
  PROVE  Walk(T, a, l) = Walk(T, x, l)
<1>1. CASE l = 4 BY <1>1, Walks
<1>2. CASE l # 4
  <2>1. l + 1 \in Levels /\ l + 1 # 1 /\ (l + 1) - 1 = l /\ l + 1 >= l + 1 BY <1>2 DEF Levels
  <2>2. Walk(T, a, l + 1) = Walk(T, x, l + 1) BY <2>1, SameWalks
  <2>3. pml_offs(a, l + 1) = pml_offs(x, l + 1) BY <2>1, DigitsTell
  <2>4. /\ Walk(T, a, (l + 1) - 1) = Below(T, Walk(T, a, l + 1), a, l + 1)
        /\ Walk(T, x, (l + 1) - 1) = Below(T, Walk(T, a, l + 1), x, l + 1)
    BY <2>1, <2>2, WalkDown
  <2> QED BY <2>1, <2>3, <2>4 DEF Below, EntryOf
<1> QED BY <1>1, <1>2

LEMMA PushCall ==
  ASSUME NEW T, NEW st, NEW g \in Goals, StackOK(T, st, g),
         NEW x \in Calls, Serves(T, x, g), x.last + 1 = From(st, g)
  PROVE  StackOK(T, <<x>> \o st, g) /\ From(<<x>> \o st, g) = x.begin
<1> DEFINE new == <<x>> \o st
<1>1. st \in Seq(Calls) BY DEF StackOK
<1>2. /\ new \in Seq(Calls) /\ Len(new) = Len(st) + 1 /\ new[1] = x
      /\ Len(st) \in Nat /\ new # <<>>
      /\ \A i \in DOMAIN new : i = 1 \/ (i - 1 \in DOMAIN st /\ new[i] = st[i - 1])
  BY <1>1
<1>3. st # <<>> => Len(st) # 0 /\ 1 \in DOMAIN st BY <1>1
<1> HIDE DEF new
<1>4. \A i \in DOMAIN new : Serves(T, new[i], g) BY <1>2 DEF StackOK
<1>5. ASSUME NEW i \in DOMAIN new, NEW j \in DOMAIN new, j = i + 1
      PROVE  new[j].begin = new[i].last + 1
  <2>1. i \in Nat \ {0} /\ j # 1 BY <1>2, <1>5
  <2>2. j - 1 \in DOMAIN st /\ new[j] = st[j - 1] BY <1>2, <2>1
  <2>3. CASE i = 1
    <3>1. st # <<>> /\ j - 1 = 1 BY <1>1, <1>5, <2>2, <2>3
    <3> QED BY <1>2, <2>2, <2>3, <3>1 DEF From
  <2>4. CASE i # 1
    <3>1. i - 1 \in DOMAIN st /\ new[i] = st[i - 1] BY <1>2, <2>4
    <3>2. j - 1 = (i - 1) + 1 BY <1>5, <2>1
    <3> QED BY <2>2, <3>1, <3>2 DEF StackOK
  <2> QED BY <2>3, <2>4
<1>6. new[Len(new)].last = g.last
  <2>1. CASE st = <<>>
    <3>1. Len(new) = 1 BY <1>1, <1>2, <2>1
    <3>2. x.last \in Nat /\ g.last \in Nat BY GoalIs DEF Calls
    <3> QED BY <1>2, <2>1, <3>1, <3>2 DEF From
  <2>2. CASE st # <<>>
    <3>1. Len(new) \in DOMAIN new /\ Len(new) # 1 /\ Len(new) - 1 = Len(st)
      BY <1>2, <1>3, <2>2
    <3> QED BY <1>2, <2>2, <3>1 DEF StackOK
  <2> QED BY <2>1, <2>2
<1> QED BY <1>2, <1>4, <1>5, <1>6 DEF StackOK, From, new

LEMMA PopCall ==
  ASSUME NEW T, NEW st, NEW g \in Goals, StackOK(T, st, g), st # <<>>
  PROVE  /\ StackOK(T, Tail(st), g) /\ From(Tail(st), g) = Head(st).last + 1
         /\ Head(st) \in Calls /\ Serves(T, Head(st), g) /\ Head(st) = st[1]
<1>1. st \in Seq(Calls) BY DEF StackOK
<1>2. /\ Tail(st) \in Seq(Calls) /\ Len(Tail(st)) = Len(st) - 1 /\ Len(st) \in Nat \ {0}
      /\ Head(st) = st[1] /\ 1 \in DOMAIN st /\ Head(st) \in Calls
      /\ \A i \in DOMAIN Tail(st) : i + 1 \in DOMAIN st /\ Tail(st)[i] = st[i + 1]
                                    /\ i \in Nat
      /\ Len(st) # 1 => Len(st) - 1 \in DOMAIN Tail(st) /\ 1 \in DOMAIN Tail(st) /\ Tail(st) # <<>>
      /\ Len(st) = 1 => Tail(st) = <<>>
  <2>1. Tail(st) \in Seq(Calls) /\ Len(Tail(st)) = Len(st) - 1 /\ Len(st) \in Nat \ {0}
    BY <1>1
  <2>2. Head(st) = st[1] /\ 1 \in DOMAIN st /\ Head(st) \in Calls BY <1>1
  <2>3. \A i \in DOMAIN Tail(st) : i + 1 \in DOMAIN st /\ Tail(st)[i] = st[i + 1]
                                   /\ i \in Nat
    BY <1>1
  <2>4. DOMAIN Tail(st) = 1 .. Len(st) - 1 BY <2>1
  <2>5. Len(st) # 1 => Len(st) - 1 \in DOMAIN Tail(st) /\ 1 \in DOMAIN Tail(st)
    BY <2>1, <2>4
  <2>6. Tail(st) = <<>> <=> Len(Tail(st)) = 0 BY <2>1, EmptySeq
  <2> QED BY <2>1, <2>2, <2>3, <2>5, <2>6
<1> DEFINE t == Tail(st)
<1> HIDE DEF t
<1>3. \A i \in DOMAIN t : Serves(T, t[i], g) BY <1>2 DEF StackOK, t
<1>4. ASSUME NEW i \in DOMAIN t, NEW j \in DOMAIN t, j = i + 1
      PROVE  t[j].begin = t[i].last + 1
  <2>1. j + 1 = (i + 1) + 1 BY <1>4
  <2> QED BY <1>2, <1>4, <2>1 DEF StackOK, t
<1>5. t # <<>> => t[Len(t)].last = g.last
  <2> SUFFICES ASSUME t # <<>> PROVE t[Len(t)].last = g.last OBVIOUS
  <2>1. Len(st) # 1 BY <1>2 DEF t
  <2>2. Len(t) \in DOMAIN t /\ Len(t) + 1 = Len(st) BY <1>2, <2>1 DEF t
  <2> QED BY <1>1, <1>2, <2>2 DEF StackOK, t
<1>6. From(t, g) = Head(st).last + 1
  <2>1. CASE Len(st) = 1
    <3>1. Head(st).last = g.last BY <1>2, <2>1 DEF StackOK
    <3> QED BY <1>2, <2>1, <3>1 DEF From, t
  <2>2. CASE Len(st) # 1
    <3>1. t[1] = st[2] /\ 2 \in DOMAIN st /\ t # <<>> BY <1>2, <2>2 DEF t
    <3>2. st[2].begin = st[1].last + 1 BY <1>2, <3>1 DEF StackOK
    <3> QED BY <1>2, <3>1, <3>2 DEF From
  <2> QED BY <2>1, <2>2
<1> QED BY <1>2, <1>3, <1>4, <1>5, <1>6 DEF StackOK, t

LEMMA StackOn ==
  ASSUME NEW T, NEW T2, NEW st, NEW g \in Goals, StackOK(T, st, g), Longer(T, T2)
  PROVE  StackOK(T2, st, g)
<1>1. ASSUME NEW i \in DOMAIN st PROVE Serves(T2, st[i], g)
  <2>1. st[i] \in Calls /\ Serves(T, st[i], g) BY <1>1 DEF StackOK
  <2>2. st[i].begin \in Addr /\ st[i].lvl \in Levels BY <2>1, CallIs
  <2> QED BY <2>1, <2>2 DEF Serves, Longer
<1> QED BY <1>1 DEF StackOK

\* What is left of the stack begins where the turn ends.
LEMMA RestOK ==
  ASSUME NEW T, NEW st, NEW g \in Goals, StackOK(T, st, g), st # <<>>
  PROVE  StackOK(T, Rest(st), g) /\ From(Rest(st), g) = Head(st).begin + tomap(Head(st))
<1> DEFINE c == Head(st)
           n == tomap(c)
           x == CallOf(c.table, c.lvl, c.begin + n, c.last, c.phys + n)
<1>1. /\ StackOK(T, Tail(st), g) /\ From(Tail(st), g) = c.last + 1
      /\ c \in Calls /\ Serves(T, c, g)
  BY PopCall
<1>2. /\ c.lvl \in Levels /\ c.begin \in Nat /\ c.last \in Nat /\ c.begin =< c.last
      /\ c.begin \in Addr /\ c.last \in Addr /\ c.phys \in Nat /\ c.table \in Nat
  BY <1>1, CallIs
<1>3. IsCall(c) BY <1>1 DEF Serves
<1> HIDE DEF c
<1>4. n \in 1 .. c.last - c.begin + 1 BY <1>3, Portion
<1>5. CASE Index(c) < pml_offs(c.last, c.lvl)
  <2>1. Rest(st) = <<x>> \o Tail(st) BY <1>5 DEF Rest, c
  <2>2. c.begin + n =< c.last BY <1>3, <1>5, Portion
  <2>3. IsCall(x) BY <1>2, <1>3, <1>5, CallsAgain
  <2>4. c.begin + n \in c.begin .. c.last BY <1>2, <1>4, <2>2
  <2>5. Block(c.begin + n, c.lvl + 1) = Block(c.begin, c.lvl + 1)
    <3>1. Block(c.begin + n, c.lvl + 1) = Block(c.last, c.lvl + 1) BY <1>3, <2>4, Portion
    <3> QED BY <1>3, <3>1 DEF IsCall
  <2> HIDE DEF n
  <2>6. c.begin + n \in Nat BY <1>2, <2>4
  <2>7. Walk(T, c.begin + n, c.lvl) = Walk(T, c.begin, c.lvl) BY <1>2, <2>5, <2>6, SameTable
  <2>8. x \in Calls BY <1>2, <1>4, <2>6 DEF Calls, CallOf
  <2>9. Serves(T, x, g)
    <3>1. /\ x.begin = c.begin + n /\ x.last = c.last /\ x.lvl = c.lvl
          /\ x.table = c.table /\ x.phys = c.phys + n
      BY DEF CallOf
    <3>2. c.phys + n = g.phys + ((c.begin + n) - g.begin)
      <4>1. c.phys = g.phys + (c.begin - g.begin) BY <1>1 DEF Serves
      <4>2. n \in Nat /\ g.phys \in Nat /\ g.begin \in Nat BY <1>4, GoalIs
      <4>3. \A p, b, e, m \in Nat : (p + (b - e)) + m = p + ((b + m) - e) OBVIOUS
      <4> QED BY <1>2, <4>1, <4>2, <4>3
    <3>3. g.begin =< c.begin + n BY <1>1, <1>2, <1>4, GoalIs DEF Serves
    <3> HIDE DEF x
    <3> QED BY <1>1, <2>3, <2>7, <3>1, <3>2, <3>3 DEF Serves
  <2>10. x.last + 1 = From(Tail(st), g) BY <1>1 DEF CallOf
  <2>11. x.begin = c.begin + n BY DEF CallOf
  <2> HIDE DEF x
  <2> QED BY <1>1, <2>1, <2>8, <2>9, <2>10, <2>11, PushCall DEF c, n
<1>6. CASE ~(Index(c) < pml_offs(c.last, c.lvl))
  <2>1. Rest(st) = Tail(st) BY <1>6 DEF Rest, c
  <2>2. c.begin + n = c.last + 1 BY <1>3, <1>6, Portion
  <2> QED BY <1>1, <2>1, <2>2 DEF c, n
<1> QED BY <1>5, <1>6

-----------------------------------------------------------------------------
(* One turn of the loop                                                    *)

Maps == [tables : Seq(Table), stack : Seq(Calls), flags : {"map", "populate"},
         pool : BOOLEAN, fault : BOOLEAN]

\* How far the translation has got, from what it was before.
Filled(T, flags, g, from, old) ==
  /\ \A a \in Addr : Translate(T, a) =
       IF flags = "map" /\ a \in g.begin .. from - 1 THEN g.phys + (a - g.begin) ELSE old[a]
  /\ flags = "populate" => \A a \in g.begin .. from - 1 : Walk(T, a, 1) # NoTable

\* The invariant of the loop.
Works(s, flags, g, old) ==
  /\ s \in Maps /\ Tree(s.tables) /\ s.flags = flags /\ s.pool /\ ~s.fault
  /\ StackOK(s.tables, s.stack, g)
  /\ Filled(s.tables, s.flags, g, From(s.stack, g), old)

LEMMA NewStack ==
  ASSUME NEW s \in Maps, NEW st \in Seq(Calls)
  PROVE  LET s2 == [s EXCEPT !.stack = st]
         IN  /\ s2 \in Maps /\ s2.tables = s.tables /\ s2.stack = st
             /\ s2.flags = s.flags /\ s2.pool = s.pool /\ s2.fault = s.fault
BY DEF Maps

LEMMA NewTables ==
  ASSUME NEW s \in Maps, NEW T \in Seq(Table)
  PROVE  LET s2 == [s EXCEPT !.tables = T]
         IN  /\ s2 \in Maps /\ s2.tables = T /\ s2.stack = s.stack
             /\ s2.flags = s.flags /\ s2.pool = s.pool /\ s2.fault = s.fault
BY DEF Maps

WithBoth(s, T, st) == [[s EXCEPT !.tables = T] EXCEPT !.stack = st]

LEMMA NewBoth ==
  ASSUME NEW s \in Maps, NEW T \in Seq(Table), NEW st \in Seq(Calls)
  PROVE  /\ WithBoth(s, T, st) \in Maps
         /\ WithBoth(s, T, st).tables = T /\ WithBoth(s, T, st).stack = st
         /\ WithBoth(s, T, st).flags = s.flags /\ WithBoth(s, T, st).pool = s.pool
         /\ WithBoth(s, T, st).fault = s.fault
BY DEF Maps, WithBoth

\* Going down leaves the same to be done.
LEMMA DescendOK ==
  ASSUME NEW T, NEW T2, NEW st, NEW g \in Goals, StackOK(T, st, g), st # <<>>,
         Head(st).lvl # 1, Longer(T, T2),
         NEW t \in Nat, t = Walk(T2, Head(st).begin, Head(st).lvl - 1), t # NoTable
  PROVE  LET c == Head(st)
             x == CallOf(t, c.lvl - 1, c.begin, c.begin + tomap(c) - 1, c.phys)
         IN  StackOK(T2, <<x>> \o Rest(st), g) /\ From(<<x>> \o Rest(st), g) = c.begin
<1> DEFINE c == Head(st)
           n == tomap(c)
           x == CallOf(t, c.lvl - 1, c.begin, c.begin + n - 1, c.phys)
<1>1. c \in Calls /\ Serves(T, c, g) BY PopCall
<1>2. /\ c.lvl \in Levels /\ c.begin \in Nat /\ c.last \in Nat /\ c.begin =< c.last
      /\ c.begin \in Addr /\ c.last \in Addr /\ c.phys \in Nat /\ c.table \in Nat
  BY <1>1, CallIs
<1>3. IsCall(c) /\ c.lvl # 1 BY <1>1 DEF Serves
<1>4. StackOK(T2, Rest(st), g) /\ From(Rest(st), g) = c.begin + n
  BY RestOK, StackOn
<1>5. t = Walk(T2, c.begin, c.lvl - 1) OBVIOUS
<1> HIDE DEF c
<1>6. n \in 1 .. c.last - c.begin + 1 BY <1>3, Portion
<1>7. IsCall(x) BY <1>2, <1>3, CallsAgain
<1>8. c.lvl - 1 \in Levels BY <1>2, <1>3 DEF Levels
<1> HIDE DEF n
<1>9. c.begin + n - 1 \in Nat /\ c.begin + n - 1 =< c.last /\ (c.begin + n - 1) + 1 = c.begin + n
  <2>1. \A a, b \in Nat : \A m \in 1 .. b - a + 1 :
          a + m - 1 \in Nat /\ a + m - 1 =< b /\ (a + m - 1) + 1 = a + m
    OBVIOUS
  <2> QED BY <1>2, <1>6, <2>1
<1>10. /\ x.begin = c.begin /\ x.last = c.begin + n - 1 /\ x.lvl = c.lvl - 1
       /\ x.table = t /\ x.phys = c.phys
  BY DEF CallOf
<1>11. x \in Calls BY <1>2, <1>8, <1>9 DEF Calls, CallOf
<1> HIDE DEF x
<1>12. g.begin =< x.begin /\ x.last =< g.last
  BY <1>1, <1>2, <1>9, <1>10, GoalIs DEF Serves
<1>13. Serves(T2, x, g) BY <1>1, <1>5, <1>7, <1>10, <1>12 DEF Serves
<1>14. x.last + 1 = From(Rest(st), g) BY <1>4, <1>9, <1>10
<1>15. StackOK(T2, <<x>> \o Rest(st), g) /\ From(<<x>> \o Rest(st), g) = x.begin
  BY <1>4, <1>11, <1>13, <1>14, PushCall
<1> QED BY <1>10, <1>15 DEF c, n, x

LEMMA TurnKeeps ==
  ASSUME NEW g \in Goals, NEW old, \A a \in g.begin .. g.last : old[a] = UNMAPPED,
         NEW flags, NEW s, Works(s, flags, g, old)
  PROVE  Works(Turn(s), flags, g, old)
<1>1. CASE s.stack = <<>> BY <1>1 DEF Turn
<1>2. CASE s.stack # <<>>
  <2> DEFINE T == s.tables
             c == Head(s.stack)
             x == c.begin
             k == c.lvl
             w == Walk(T, x, k)
             n == tomap(c)
             e == EntryOf(T, w, x, k)
  <2>1. /\ s \in Maps /\ Tree(T) /\ s.flags = flags /\ s.pool /\ ~s.fault
        /\ StackOK(T, s.stack, g)
        /\ Filled(T, s.flags, g, From(s.stack, g), old)
    BY DEF Works
  <2>2. c \in Calls /\ Serves(T, c, g) /\ c = s.stack[1] BY <1>2, <2>1, PopCall
  <2>3. /\ k \in Levels /\ x \in Nat /\ c.last \in Nat /\ x =< c.last
        /\ x \in Addr /\ c.last \in Addr /\ c.phys \in Nat
    BY <2>2, CallIs
  <2>4. w # NoTable /\ c.table = w /\ IsCall(c) /\ From(s.stack, g) = x
    BY <1>2, <2>2 DEF Serves, From
  <2>5. w \in DOMAIN T BY <2>1, <2>3, <2>4 DEF Tree
  <2>6. e.present \in BOOLEAN /\ e.large \in BOOLEAN /\ e.to \in Nat
    BY <2>1, <2>3, <2>5, EntryIs DEF Tree
  <2>7. Turn(s) = TurnOf(s, c, e) BY <1>2, <2>4 DEF Turn, EntryOf, Index
  <2> HIDE DEF T, c, e
  <2>8. g.begin =< x /\ x =< g.last /\ c.last =< g.last
    BY <2>2, <2>3, GoalIs DEF Serves
\* The address at hand is not mapped yet.
  <2>9. Translate(T, x) = UNMAPPED
    <3>1. x \in g.begin .. g.last /\ x \notin g.begin .. x - 1 BY <2>3, <2>8, GoalIs
    <3> QED BY <2>1, <2>3, <2>4, <3>1 DEF Filled
  <2>10. ~(e.present /\ Ends(e, k))
    <3> SUFFICES ASSUME e.present, Ends(e, k) PROVE FALSE OBVIOUS
    <3>1. Translate(T, x) = e.to + (x % pml_size(k))
      BY <2>1, <2>3, <2>4, WalkEnds DEF Target, e
    <3>2. \A z \in Nat \ {0} : x % z \in Nat BY <2>3, Euclid
    <3>3. x % pml_size(k) \in Nat BY <2>3, <3>2, PmlSizes
    <3> QED BY <2>6, <2>9, <3>1, <3>3 DEF UNMAPPED
  <2>11. n \in 1 .. c.last - x + 1 BY <2>4, Portion
  <2>12. StackOK(T, Rest(s.stack), g) /\ From(Rest(s.stack), g) = x + n
    BY <1>2, <2>1, RestOK DEF c
  <2>13. CASE e.present
    <3> DEFINE d == CallOf(e.to, k - 1, x, x + n - 1, c.phys)
               st == <<d>> \o Rest(s.stack)
    <3>1. ~Ends(e, k) BY <2>10, <2>13
    <3>2. k # 1 /\ ~e.large BY <3>1 DEF Ends
    <3>3. Walk(T, x, k - 1) = e.to BY <2>3, <2>4, <3>1, <3>2, WalkDown DEF Below, e
    <3>4. e.to # NoTable BY <2>6 DEF NoTable
    <3>5. Longer(T, T) BY DEF Longer
    <3>6. StackOK(T, st, g) /\ From(st, g) = x
      BY <1>2, <2>1, <2>6, <3>2, <3>3, <3>4, <3>5, DescendOK DEF c
    <3>7. Turn(s) = [s EXCEPT !.stack = st]
      BY <2>6, <2>7, <2>13, <3>2 DEF TurnOf, Descend
    <3>8. st \in Seq(Calls) BY <3>6 DEF StackOK
    <3> HIDE DEF st
    <3> QED BY <2>1, <2>4, <3>6, <3>7, <3>8, NewStack DEF Works, T
  <2>14. CASE ~e.present /\ IsLeaf(c, s.flags)
    <3> DEFINE f == Leaf(c, s.flags)
               T2 == Written(T, x, k, f)
    <3>1. f \in Entry BY <2>3 DEF Leaf, Entry, EMPTY
    <3>2. Ends(e, k) /\ Ends(f, k) BY <2>14 DEF Ends, Leaf, EMPTY, IsLeaf
    <3>3. /\ Tree(T2)
          /\ \A a \in Addr, l \in Levels : Walk(T2, a, l) = Walk(T, a, l)
          /\ \A a \in Addr : Translate(T2, a) =
               IF Block(a, k) = Block(x, k) THEN Target(f, a, k) ELSE Translate(T, a)
      BY <2>1, <2>3, <2>4, <3>1, <3>2, WriteLeaf DEF e
    <3>4. n = pml_size(k) /\ (x % pml_size(k)) = 0 BY <2>14 DEF IsLeaf
    <3>5. \A a \in Addr : /\ Block(a, k) = Block(x, k) <=> a \in x .. x + n - 1
                          /\ a \in x .. x + n - 1 => (a % pml_size(k)) = a - x
      <4> TAKE a \in Addr
      <4>1. a \in Nat BY RootBlock
      <4>2. a \in x .. x + n - 1 => Block(a, k) = Block(x, k) BY <2>4, Portion
      <4>3. Block(a, k) = Block(x, k) => a \in x .. x + n - 1 /\ (a % pml_size(k)) = a - x
        BY <2>4, <3>4, <4>1, Portion DEF Size
      <4> QED BY <4>2, <4>3
    <3>6. Filled(T2, s.flags, g, x + n, old)
      <4>1. CASE s.flags = "map"
        <5>1. f.present /\ f.to = c.phys BY <4>1 DEF Leaf
        <5>2. ASSUME NEW a \in Addr
              PROVE  Translate(T2, a) = IF a \in g.begin .. (x + n) - 1
                                        THEN g.phys + (a - g.begin) ELSE old[a]
          <6>1. a \in Nat /\ n \in Nat \ {0} /\ g.begin \in Nat /\ g.phys \in Nat
            BY RootBlock, <2>3, <2>11, GoalIs
          <6>2. CASE a \in x .. x + n - 1
            <7>1. Translate(T2, a) = c.phys + (a - x) BY <3>3, <3>5, <5>1, <6>2 DEF Target
            <7>2. c.phys = g.phys + (x - g.begin) BY <2>2 DEF Serves
            <7>3. a \in g.begin .. (x + n) - 1 BY <2>3, <2>8, <6>1, <6>2
            <7> HIDE DEF n, x
            <7>4. c.phys + (a - x) = g.phys + (a - g.begin) BY <2>3, <6>1, <7>2
            <7> QED BY <7>1, <7>3, <7>4
          <6>3. CASE a \notin x .. x + n - 1
            <7>1. Translate(T2, a) = Translate(T, a) BY <3>3, <3>5, <6>3
            <7>2. Translate(T, a) = IF a \in g.begin .. x - 1
                                    THEN g.phys + (a - g.begin) ELSE old[a]
              BY <2>1, <2>4, <4>1 DEF Filled
            <7> HIDE DEF n, x
            <7>3. a \in g.begin .. x - 1 <=> a \in g.begin .. (x + n) - 1
              BY <2>3, <6>1, <6>3
            <7> QED BY <7>1, <7>2, <7>3
          <6> QED BY <6>2, <6>3
        <5> QED BY <4>1, <5>2 DEF Filled
      <4>2. CASE s.flags = "populate"
        <5>1. ~f.present /\ k = 1 BY <2>14, <4>2 DEF Leaf, EMPTY, IsLeaf
        <5>2. n = 1 BY <3>4, <5>1, PmlSizes
        <5>3. ASSUME NEW a \in Addr PROVE Translate(T2, a) = old[a]
          <6>1. CASE a \in x .. x + n - 1
            <7>1. Translate(T2, a) = UNMAPPED BY <3>3, <3>5, <5>1, <6>1 DEF Target
            <7>2. a \in g.begin .. g.last
              BY RootBlock, GoalIs, <2>3, <2>8, <2>11, <6>1
            <7> QED BY <7>1, <7>2
          <6>2. CASE a \notin x .. x + n - 1
            <7>1. Translate(T2, a) = Translate(T, a) BY <3>3, <3>5, <6>2
            <7> QED BY <2>1, <4>2, <7>1 DEF Filled
          <6> QED BY <6>1, <6>2
        <5>4. ASSUME NEW a \in g.begin .. (x + n) - 1 PROVE Walk(T2, a, 1) # NoTable
          <6>1. 1 \in Levels BY DEF Levels
          <6>2. a \in Nat /\ a =< x /\ a \in Addr
            <7>1. a \in Nat /\ a =< x BY <2>3, <5>2, GoalIs
            <7> QED BY <2>3, <7>1, PmlSizes DEF Addr
          <6>3. Walk(T2, a, 1) = Walk(T, a, 1) BY <3>3, <6>1, <6>2
          <6>4. CASE a = x BY <2>4, <5>1, <6>3, <6>4
          <6>5. CASE a # x
            <7>1. a \in g.begin .. x - 1 BY <2>3, <5>4, <6>2, <6>5, GoalIs
            <7> QED BY <2>1, <2>4, <4>2, <6>3, <7>1 DEF Filled
          <6> QED BY <6>4, <6>5
        <5> QED BY <4>2, <5>3, <5>4 DEF Filled
      <4> QED BY <2>1, <4>1, <4>2 DEF Maps
    <3>7. Longer(T, T2) BY <3>3 DEF Longer
    <3>8. StackOK(T2, Rest(s.stack), g) BY <2>12, <3>7, StackOn
    <3>9. Turn(s) = [s EXCEPT !.tables[c.table][Index(c)] = f, !.stack = Rest(s.stack)]
      BY <2>6, <2>7, <2>14 DEF TurnOf, Ends, IsLeaf
    <3>10. T2 = [T EXCEPT ![c.table][Index(c)] = f] BY <2>4 DEF Written, Index
    <3>11. T2 \in Seq(Table) /\ Rest(s.stack) \in Seq(Calls)
      BY <3>3, <3>8 DEF Tree, StackOK
    <3> HIDE DEF T2, f
    <3>12. Turn(s) = WithBoth(s, T2, Rest(s.stack))
      BY <3>9, <3>10 DEF T, Maps, WithBoth
    <3>13. /\ Turn(s) \in Maps /\ Turn(s).tables = T2 /\ Turn(s).stack = Rest(s.stack)
           /\ Turn(s).flags = s.flags /\ Turn(s).pool = s.pool /\ Turn(s).fault = s.fault
      <4>1. s \in Maps BY <2>1
      <4>2. T2 \in Seq(Table) BY <3>11
      <4>3. Rest(s.stack) \in Seq(Calls) BY <3>11
      <4>4. /\ WithBoth(s, T2, Rest(s.stack)) \in Maps
            /\ WithBoth(s, T2, Rest(s.stack)).tables = T2
            /\ WithBoth(s, T2, Rest(s.stack)).stack = Rest(s.stack)
            /\ WithBoth(s, T2, Rest(s.stack)).flags = s.flags
            /\ WithBoth(s, T2, Rest(s.stack)).pool = s.pool
            /\ WithBoth(s, T2, Rest(s.stack)).fault = s.fault
        BY <4>1, <4>2, <4>3, NewBoth
      <4> QED BY <3>12, <4>4
    <3> QED BY <2>1, <2>12, <3>3, <3>6, <3>8, <3>13 DEF Works
  <2>15. CASE ~e.present /\ ~IsLeaf(c, s.flags)
    <3> DEFINE t == Len(T) + 1
               T2 == Grown(T, x, k)
               d == CallOf(t, k - 1, x, x + n - 1, c.phys)
               st == <<d>> \o Rest(s.stack)
\* An entry of level 1 is always a leaf.
    <3>1. k # 1
      <4> SUFFICES ASSUME k = 1 PROVE FALSE OBVIOUS
      <4>1. pml_size(k) = 1 BY PmlSizes
      <4>2. (x % 1) = 0 /\ (c.phys % 1) = 0 BY <2>3
      <4>3. EntryEnd(c) = x BY <2>3, <4>1, <4>2 DEF EntryEnd
      <4>4. n = 1 BY <2>3, <4>3 DEF tomap
      <4> QED BY <2>15, <4>1, <4>2, <4>4 DEF IsLeaf
    <3>2. /\ Tree(T2) /\ Longer(T, T2) /\ Walk(T2, x, k - 1) = t
          /\ \A a \in Addr : Translate(T2, a) = Translate(T, a)
      BY <2>1, <2>3, <2>4, <2>15, <3>1, WriteTable DEF e, Longer
    <3>3. t \in Nat /\ t # NoTable BY <2>1 DEF Tree, NoTable
    <3> HIDE DEF t, T2
    <3>4. StackOK(T2, st, g) /\ From(st, g) = x
      BY <1>2, <2>1, <3>1, <3>2, <3>3, DescendOK DEF c
    <3>5. Filled(T2, s.flags, g, x, old)
      <4>1. \A a \in g.begin .. x - 1 : a \in Addr
        BY <2>3, GoalIs, PmlSizes DEF Addr
      <4>2. 1 \in Levels BY DEF Levels
      <4>3. \A a \in g.begin .. x - 1 : Walk(T, a, 1) # NoTable => Walk(T2, a, 1) # NoTable
        BY <3>2, <4>1, <4>2 DEF Longer
      <4> QED BY <2>1, <2>4, <3>2, <4>3 DEF Filled
    <3>6. Turn(s) = NewTable(s, c) BY <2>1, <2>6, <2>7, <2>15, <3>1 DEF TurnOf, Ends
    <3>7. T2 \in Seq(Table) /\ st \in Seq(Calls) BY <3>2, <3>4 DEF Tree, StackOK
    <3>8. T2 = Append([T EXCEPT ![c.table][Index(c)] = TableEntry(t)], FreshTable)
      BY <2>4 DEF Grown, Written, Index, T2, t
    <3>9. NewTable(s, c) = Descend([s EXCEPT !.tables = T2], c, t)
      BY <3>8 DEF NewTable, T, t
    <3> HIDE DEF st
    <3>10. LET s1 == [s EXCEPT !.tables = T2]
           IN  /\ s1 \in Maps /\ s1.tables = T2 /\ s1.stack = s.stack
               /\ s1.flags = s.flags /\ s1.pool = s.pool /\ s1.fault = s.fault
      BY <2>1, <3>7, NewTables
    <3>11. Turn(s) = WithBoth(s, T2, st)
      BY <3>6, <3>9, <3>10 DEF Descend, st, WithBoth
    <3>12. /\ Turn(s) \in Maps /\ Turn(s).tables = T2 /\ Turn(s).stack = st
           /\ Turn(s).flags = s.flags /\ Turn(s).pool = s.pool /\ Turn(s).fault = s.fault
      <4>1. s \in Maps BY <2>1
      <4>2. T2 \in Seq(Table) BY <3>7
      <4>3. st \in Seq(Calls) BY <3>7
      <4>4. /\ WithBoth(s, T2, st) \in Maps
            /\ WithBoth(s, T2, st).tables = T2 /\ WithBoth(s, T2, st).stack = st
            /\ WithBoth(s, T2, st).flags = s.flags /\ WithBoth(s, T2, st).pool = s.pool
            /\ WithBoth(s, T2, st).fault = s.fault
        BY <4>1, <4>2, <4>3, NewBoth
      <4> QED BY <3>11, <4>4
    <3> QED BY <2>1, <3>2, <3>4, <3>5, <3>12 DEF Works
  <2> QED BY <2>13, <2>14, <2>15
<1> QED BY <1>1, <1>2

-----------------------------------------------------------------------------
(* One page: what kmap and kunmap do to the tables                         *)

\* Between two calls.
Idle(s) ==
  /\ s \in Maps /\ Tree(s.tables) /\ ~s.fault /\ s.stack = <<>> /\ s.flags = "map"

\* On the way down to the entry of a page.
Reached(s, T, a, p, k) ==
  /\ s \in Maps /\ s.tables = T /\ ~s.fault /\ s.flags = "map"
  /\ s.stack = <<CallOf(Walk(T, a, k), k, a, a, p)>>

LEMMA WholeWalk ==
  ASSUME NEW T, NEW a, Walk(T, a, 1) # NoTable, NEW k \in Levels
  PROVE  Walk(T, a, k) # NoTable /\ (k # 1 => ~Ends(EntryOf(T, Walk(T, a, k), a, k), k))
<1>1. CASE k = 1 BY <1>1
<1>2. CASE k # 1
  <2>1. 1 \in Levels /\ 1 < k BY <1>2 DEF Levels
  <2> QED BY <2>1, NothingBelow
<1> QED BY <1>1, <1>2

\* The call for one page.
LEMMA PageCall ==
  ASSUME NEW t \in Nat, NEW k \in Levels, NEW a \in Nat, NEW p \in Nat
  PROVE  LET c == CallOf(t, k, a, a, p)
         IN  /\ IsCall(c) /\ tomap(c) = 1 /\ Rest(<<c>>) = <<>> /\ c \in Calls
             /\ k = 1 => \A f \in {"map", "populate"} : IsLeaf(c, f)
<1> DEFINE c == CallOf(t, k, a, a, p)
<1>1. c.table = t /\ c.lvl = k /\ c.begin = a /\ c.last = a /\ c.phys = p BY DEF CallOf
<1>2. c \in Calls BY DEF CallOf, Calls
<1> HIDE DEF c
<1>3. IsCall(c) BY <1>1 DEF IsCall
<1>4. tomap(c) = 1
  <2>1. tomap(c) \in 1 .. c.last - c.begin + 1 BY <1>3, Portion
  <2>2. c.last - c.begin + 1 = 1 BY <1>1
  <2> QED BY <2>1, <2>2
<1>5. Rest(<<c>>) = <<>>
  <2>1. Head(<<c>>) = c /\ Tail(<<c>>) = <<>> OBVIOUS
  <2>2. Index(c) = pml_offs(c.last, c.lvl) /\ pml_offs(c.last, c.lvl) \in Nat
    BY <1>1, Digits DEF Index
  <2>3. ~(Index(c) < pml_offs(c.last, c.lvl)) BY <2>2
  <2> QED BY <2>1, <2>3 DEF Rest
<1>6. ASSUME k = 1, NEW f \in {"map", "populate"} PROVE IsLeaf(c, f)
  <2>1. pml_size(c.lvl) = 1 /\ (c.begin % 1) = 0 /\ (c.phys % 1) = 0 BY <1>1, <1>6, PmlSizes
  <2> QED BY <1>1, <1>4, <1>6, <2>1 DEF IsLeaf
<1> QED BY <1>2, <1>3, <1>4, <1>5, <1>6 DEF c

LEMMA GoesDown ==
  ASSUME NEW T, Tree(T), NEW a \in Addr, NEW p \in Nat, Walk(T, a, 1) # NoTable,
         NEW k \in Levels, k # 1, NEW s, Reached(s, T, a, p, k)
  PROVE  Reached(Turn(s), T, a, p, k - 1)
<1> DEFINE w == Walk(T, a, k)
           e == EntryOf(T, w, a, k)
           c == CallOf(w, k, a, a, p)
           t == Walk(T, a, k - 1)
           d == CallOf(t, k - 1, a, a, p)
<1>1. a \in Nat BY RootBlock
<1>2. w # NoTable /\ ~Ends(e, k) BY WholeWalk
<1>3. k - 1 \in Levels BY DEF Levels
<1>4. w \in DOMAIN T /\ w \in Nat BY <1>2 DEF Tree
<1>5. t # NoTable /\ t \in Nat
  <2>1. t # NoTable BY <1>3, WholeWalk
  <2> QED BY <1>3, <2>1 DEF Tree
<1>6. e.present \in BOOLEAN /\ e.large \in BOOLEAN BY <1>1, <1>4, EntryIs DEF Tree
<1>7. e.to = t BY <1>2, WalkDown DEF Below
<1>8. /\ c.table = w /\ c.lvl = k /\ c.begin = a /\ c.phys = p
      /\ tomap(c) = 1 /\ Rest(<<c>>) = <<>>
  BY <1>1, <1>4, PageCall DEF CallOf
<1>9. d \in Calls BY <1>1, <1>3, <1>5, PageCall
<1>10. s \in Maps /\ s.tables = T /\ s.stack = <<c>> BY DEF Reached
<1>11. s.tables[c.table][Index(c)] = e BY <1>8, <1>10 DEF EntryOf, Index
<1> HIDE DEF c, e, w, t
<1>12. s.stack # <<>> /\ Head(s.stack) = c BY <1>10
<1>13. Turn(s) = TurnOf(s, c, e) BY <1>11, <1>12 DEF Turn
<1>14. TurnOf(s, c, e) = Descend(s, c, e.to) BY <1>2, <1>6, <1>8 DEF TurnOf, Ends
<1>15. <<CallOf(e.to, c.lvl - 1, c.begin, c.begin + tomap(c) - 1, c.phys)>> \o Rest(s.stack) = <<d>>
  <2>1. a + 1 - 1 = a BY <1>1
  <2>2. <<d>> \o <<>> = <<d>> OBVIOUS
  <2> QED BY <1>7, <1>8, <1>10, <2>1, <2>2
<1> DEFINE st == <<d>>
<1>16. Turn(s) = [s EXCEPT !.stack = st] BY <1>13, <1>14, <1>15 DEF Descend
<1>17. st \in Seq(Calls) BY <1>9
<1> HIDE DEF d, st
<1>18. /\ Turn(s) \in Maps /\ Turn(s).tables = s.tables /\ Turn(s).stack = st
       /\ Turn(s).flags = s.flags /\ Turn(s).fault = s.fault
  BY <1>10, <1>16, <1>17, NewStack
<1> QED BY <1>10, <1>18 DEF Reached, d, t, st

\* pt_map_pages of one page that has a table and is not mapped: that page and
\* no other is mapped.
LEMMA MapPageIs ==
  ASSUME NEW s, Idle(s), NEW a \in Addr, NEW p \in Nat,
         Walk(s.tables, a, 1) # NoTable, Translate(s.tables, a) = UNMAPPED
  PROVE  /\ Idle(MapPage(s, a, p))
         /\ \A b \in Addr, l \in Levels :
              Walk(MapPage(s, a, p).tables, b, l) = Walk(s.tables, b, l)
         /\ \A b \in Addr : Translate(MapPage(s, a, p).tables, b) =
              IF b = a THEN p ELSE Translate(s.tables, b)
<1> DEFINE T == s.tables
           w == Walk(T, a, 1)
           c == CallOf(w, 1, a, a, p)
           s4 == [s EXCEPT !.stack = <<CallOf(1, 4, a, a, p)>>]
           s1 == Turn(Turn(Turn(s4)))
           e == EntryOf(T, w, a, 1)
           f == Leaf(c, "map")
           T2 == Written(T, a, 1, f)
<1>1. s \in Maps /\ Tree(T) /\ ~s.fault /\ s.flags = "map" BY DEF Idle
<1>2. a \in Nat /\ 1 \in Levels /\ 2 \in Levels /\ 3 \in Levels /\ 4 \in Levels
  BY RootBlock DEF Levels
<1>3. Reached(s4, T, a, p, 4)
  <2>1. CallOf(1, 4, a, a, p) \in Calls BY <1>2, PageCall
  <2>2. <<CallOf(1, 4, a, a, p)>> \in Seq(Calls) BY <2>1
  <2>3. /\ s4 \in Maps /\ s4.tables = s.tables /\ s4.stack = <<CallOf(1, 4, a, a, p)>>
        /\ s4.flags = s.flags /\ s4.fault = s.fault
    BY <1>1, <2>2, NewStack
  <2>4. Walk(T, a, 4) = 1 BY Walks
  <2> HIDE DEF s4
  <2> QED BY <1>1, <2>3, <2>4 DEF Reached
<1> HIDE DEF s4, T
<1>4. w # NoTable /\ Translate(T, a) = UNMAPPED BY DEF T
<1>5. Reached(Turn(s4), T, a, p, 3)
  <2>1. 4 # 1 /\ 4 - 1 = 3 OBVIOUS
  <2>2. Reached(Turn(s4), T, a, p, 4 - 1) BY <1>1, <1>2, <1>3, <1>4, <2>1, GoesDown
  <2> QED BY <2>1, <2>2
<1>6. Reached(Turn(Turn(s4)), T, a, p, 2)
  <2>1. 3 # 1 /\ 3 - 1 = 2 OBVIOUS
  <2>2. Reached(Turn(Turn(s4)), T, a, p, 3 - 1) BY <1>1, <1>2, <1>4, <1>5, <2>1, GoesDown
  <2> QED BY <2>1, <2>2
<1>7. Reached(s1, T, a, p, 1)
  <2>1. 2 # 1 /\ 2 - 1 = 1 OBVIOUS
  <2>2. Reached(s1, T, a, p, 2 - 1) BY <1>1, <1>2, <1>4, <1>6, <2>1, GoesDown
  <2> QED BY <2>1, <2>2
<1>8. MapPage(s, a, p) = Turn(s1) BY DEF MapPage, s4
<1> HIDE DEF s1
<1>9. w \in DOMAIN T /\ w \in Nat BY <1>1, <1>2, <1>4 DEF Tree
<1>10. e.present \in BOOLEAN /\ e.large \in BOOLEAN /\ e.to \in Nat
  BY <1>1, <1>2, <1>9, EntryIs DEF Tree
<1>11. Ends(e, 1) BY DEF Ends
<1>12. ~e.present
  <2> SUFFICES ASSUME e.present PROVE FALSE OBVIOUS
  <2>1. Translate(T, a) = e.to + (a % pml_size(1)) BY <1>1, <1>2, <1>4, <1>11, WalkEnds DEF Target
  <2>2. a % 1 = 0 /\ pml_size(1) = 1 BY <1>2, PmlSizes
  <2> QED BY <1>4, <1>10, <2>1, <2>2 DEF UNMAPPED
<1>13. /\ c.table = w /\ c.lvl = 1 /\ c.begin = a /\ c.phys = p
       /\ Rest(<<c>>) = <<>> /\ IsLeaf(c, "map")
  BY <1>2, <1>9, PageCall DEF CallOf
<1>14. f \in Entry /\ f.present /\ f.to = p BY <1>13 DEF Leaf, Entry
<1>15. Ends(f, 1) BY DEF Ends
<1>16. /\ Tree(T2)
       /\ \A b \in Addr, l \in Levels : Walk(T2, b, l) = Walk(T, b, l)
       /\ \A b \in Addr : Translate(T2, b) =
            IF Block(b, 1) = Block(a, 1) THEN Target(f, b, 1) ELSE Translate(T, b)
  BY <1>1, <1>2, <1>4, <1>11, <1>14, <1>15, WriteLeaf
<1>17. \A b \in Addr : Translate(T2, b) = IF b = a THEN p ELSE Translate(T, b)
  <2> TAKE b \in Addr
  <2>1. b \in Nat BY RootBlock
  <2>2. Block(b, 1) = b /\ Block(a, 1) = a BY <1>2, <2>1, PmlSizes DEF Block
  <2>3. b % 1 = 0 /\ pml_size(1) = 1 BY <2>1, PmlSizes
  <2> HIDE DEF f, T2
  <2>4. Target(f, b, 1) = p BY <1>14, <2>3 DEF Target
  <2> QED BY <1>16, <2>2, <2>4
<1>18. s1 \in Maps /\ s1.tables = T /\ s1.stack = <<c>> /\ s1.flags = "map" /\ ~s1.fault
  BY <1>7 DEF Reached
<1> HIDE DEF c, e, f
<1>19. s1.tables[c.table][Index(c)] = e BY <1>13, <1>18 DEF EntryOf, Index, e
<1>20. s1.stack # <<>> /\ Head(s1.stack) = c BY <1>18
<1>21. Turn(s1) = TurnOf(s1, c, e) BY <1>19, <1>20 DEF Turn
<1>22. TurnOf(s1, c, e) = [s1 EXCEPT !.tables[c.table][Index(c)] = f, !.stack = <<>>]
  BY <1>12, <1>13, <1>18 DEF TurnOf, f
<1>23. T2 = [T EXCEPT ![c.table][Index(c)] = f] BY <1>13 DEF Written, Index
<1>24. T2 \in Seq(Table) BY <1>16 DEF Tree
<1> HIDE DEF T2
<1>25. Turn(s1) = WithBoth(s1, T2, <<>>)
  BY <1>18, <1>21, <1>22, <1>23 DEF WithBoth, Maps
<1>26. <<>> \in Seq(Calls) OBVIOUS
<1>27. /\ WithBoth(s1, T2, <<>>) \in Maps
       /\ WithBoth(s1, T2, <<>>).tables = T2 /\ WithBoth(s1, T2, <<>>).stack = <<>>
       /\ WithBoth(s1, T2, <<>>).flags = s1.flags
       /\ WithBoth(s1, T2, <<>>).fault = s1.fault
  BY <1>18, <1>24, <1>26, NewBoth
<1>28. Idle(MapPage(s, a, p)) /\ MapPage(s, a, p).tables = T2
  BY <1>8, <1>16, <1>18, <1>25, <1>27 DEF Idle
<1> QED BY <1>16, <1>17, <1>28 DEF T

\* kunmap of one page that has a table: that page and no other is unmapped.
LEMMA ClearPageIs ==
  ASSUME NEW s, Idle(s), NEW a \in Addr, Walk(s.tables, a, 1) # NoTable
  PROVE  /\ Idle(ClearPage(s, a))
         /\ \A b \in Addr, l \in Levels :
              Walk(ClearPage(s, a).tables, b, l) = Walk(s.tables, b, l)
         /\ \A b \in Addr : Translate(ClearPage(s, a).tables, b) =
              IF b = a THEN UNMAPPED ELSE Translate(s.tables, b)
<1> DEFINE T == s.tables
           w == Walk(T, a, 1)
           e == EntryOf(T, w, a, 1)
           T2 == Written(T, a, 1, EMPTY)
           down(t, l) == IF t # 0 /\ s.tables[t][pml_offs(a, l)].present
                         THEN s.tables[t][pml_offs(a, l)].to ELSE 0
<1>1. s \in Maps /\ Tree(T) /\ ~s.fault /\ s.flags = "map" BY DEF Idle
<1>2. a \in Nat /\ 1 \in Levels /\ 2 \in Levels /\ 3 \in Levels /\ 4 \in Levels
  BY RootBlock DEF Levels
<1>3. w # NoTable OBVIOUS
<1>4. ASSUME NEW k \in Levels, k # 1
      PROVE  down(Walk(T, a, k), k) = Walk(T, a, k - 1)
  <2>1. Walk(T, a, k) # NoTable /\ ~Ends(EntryOf(T, Walk(T, a, k), a, k), k)
    BY <1>3, <1>4, WholeWalk
  <2>2. Walk(T, a, k - 1) = EntryOf(T, Walk(T, a, k), a, k).to
    BY <1>4, <2>1, WalkDown DEF Below
  <2>3. Walk(T, a, k) \in DOMAIN T /\ T \in Seq(Table) BY <1>1, <2>1 DEF Tree
  <2>4. Walk(T, a, k) # 0 BY <2>3
  <2>5. EntryOf(T, Walk(T, a, k), a, k).present BY <2>1 DEF Ends
  <2> QED BY <2>2, <2>4, <2>5 DEF EntryOf
<1>5. w \in DOMAIN T /\ w # 0
  <2>1. w \in DOMAIN T /\ T \in Seq(Table) BY <1>1, <1>2, <1>3 DEF Tree
  <2> QED BY <2>1
<1>6. down(down(down(1, 4), 3), 2) = w
  <2>1. 4 - 1 = 3 /\ 3 - 1 = 2 /\ 2 - 1 = 1 /\ 4 # 1 /\ 3 # 1 /\ 2 # 1 OBVIOUS
  <2>2. Walk(T, a, 4) = 1 BY Walks
  <2> HIDE DEF down, T, w
  <2>3. down(Walk(T, a, 4), 4) = Walk(T, a, 4 - 1) BY <1>2, <1>4, <2>1
  <2>4. down(Walk(T, a, 3), 3) = Walk(T, a, 3 - 1) BY <1>2, <1>4, <2>1
  <2>5. down(Walk(T, a, 2), 2) = Walk(T, a, 2 - 1) BY <1>2, <1>4, <2>1
  <2> QED BY <2>1, <2>2, <2>3, <2>4, <2>5 DEF w
<1>7. ClearPage(s, a) = IF down(down(down(1, 4), 3), 2) = 0 THEN Fault(s)
        ELSE [s EXCEPT !.tables[down(down(down(1, 4), 3), 2)][pml_offs(a, 1)] = EMPTY]
  BY DEF ClearPage
<1> HIDE DEF down
<1>8. ClearPage(s, a) = [s EXCEPT !.tables[w][pml_offs(a, 1)] = EMPTY]
  BY <1>5, <1>6, <1>7
<1>9. EMPTY \in Entry /\ Ends(e, 1) /\ Ends(EMPTY, 1) BY DEF Entry, EMPTY, Ends
<1>10. /\ Tree(T2)
       /\ \A b \in Addr, l \in Levels : Walk(T2, b, l) = Walk(T, b, l)
       /\ \A b \in Addr : Translate(T2, b) =
            IF Block(b, 1) = Block(a, 1) THEN Target(EMPTY, b, 1) ELSE Translate(T, b)
  BY <1>1, <1>2, <1>3, <1>9, WriteLeaf
<1>11. T2 \in Seq(Table) BY <1>10 DEF Tree
<1>12. ClearPage(s, a) = [s EXCEPT !.tables = T2] BY <1>1, <1>8 DEF Written, Maps
<1> HIDE DEF T2
<1>13. /\ ClearPage(s, a) \in Maps /\ ClearPage(s, a).tables = T2
       /\ ClearPage(s, a).stack = s.stack /\ ClearPage(s, a).flags = s.flags
       /\ ClearPage(s, a).fault = s.fault
  BY <1>1, <1>11, <1>12, NewTables
<1>14. \A b \in Addr : Translate(T2, b) = IF b = a THEN UNMAPPED ELSE Translate(T, b)
  <2> TAKE b \in Addr
  <2>1. b \in Nat BY RootBlock
  <2>2. Block(b, 1) = b /\ Block(a, 1) = a BY <1>2, <2>1, PmlSizes DEF Block
  <2>3. Target(EMPTY, b, 1) = UNMAPPED BY DEF Target, EMPTY
  <2> QED BY <1>10, <2>2, <2>3
<1> QED BY <1>10, <1>13, <1>14 DEF Idle

-----------------------------------------------------------------------------
(* Loops                                                                   *)

\* Induction up to n.
LEMMA Upwards ==
  ASSUME NEW n \in Nat, NEW T \in SUBSET (0 .. n), 0 \in T,
         \A k \in 1 .. n : k - 1 \in T => k \in T
  PROVE  T = 0 .. n
<1> DEFINE F == (0 .. n) \ T
<1>1. SUFFICES ASSUME F # {} PROVE FALSE OBVIOUS
<1>2. PICK k \in F : \A j \in F : k =< j
  <2>1. F \in SUBSET Nat OBVIOUS
  <2> HIDE DEF F
  <2> QED BY <1>1, <2>1, Least
<1>3. k \in 1 .. n /\ k - 1 \in 0 .. n /\ k - 1 \notin F BY <1>2
<1> QED BY <1>2, <1>3

\* f is the states of a loop whose k-th turn is G[k], up to its m-th.
Runs(f, m, start, G) == f[0] = start /\ \A k \in 1 .. m : f[k] = G[k][f[k - 1]]

LEMMA LoopRuns ==
  ASSUME NEW n \in Nat, NEW S, NEW start \in S, NEW G \in [1 .. n -> [S -> S]]
  PROVE  \E f \in [0 .. n -> S] : Runs(f, n, start, G)
<1> DEFINE T == {m \in 0 .. n : \E f \in [0 .. m -> S] : Runs(f, m, start, G)}
<1>1. 0 \in T
  <2> DEFINE f == [k \in 0 .. 0 |-> start]
  <2>1. f \in [0 .. 0 -> S] /\ Runs(f, 0, start, G) BY DEF Runs
  <2> HIDE DEF f
  <2> QED BY <2>1
<1>2. ASSUME NEW m \in 1 .. n, m - 1 \in T PROVE m \in T
  <2>1. PICK f \in [0 .. m - 1 -> S] : Runs(f, m - 1, start, G) BY <1>2
  <2> DEFINE g == [k \in 0 .. m |-> IF k = m THEN G[m][f[m - 1]] ELSE f[k]]
  <2>2. G[m][f[m - 1]] \in S
    <3>1. m - 1 \in 0 .. m - 1 OBVIOUS
    <3>2. f[m - 1] \in S BY <2>1, <3>1
    <3> QED BY <3>2
  <2>3. g \in [0 .. m -> S]
    <3>1. \A k \in 0 .. m : k # m => k \in 0 .. m - 1 OBVIOUS
    <3> QED BY <2>1, <2>2, <3>1
  <2>4. g[0] = start BY <2>1 DEF Runs
  <2>5. ASSUME NEW k \in 1 .. m PROVE g[k] = G[k][g[k - 1]]
    <3>1. k - 1 \in 0 .. m /\ k - 1 # m /\ g[k - 1] = f[k - 1] OBVIOUS
    <3>2. k # m => k \in 1 .. m - 1 OBVIOUS
    <3> QED BY <2>1, <3>1, <3>2 DEF Runs
  <2>6. Runs(g, m, start, G) BY <2>4, <2>5 DEF Runs
  <2> HIDE DEF g
  <2> QED BY <2>3, <2>6
<1>3. T \in SUBSET (0 .. n) OBVIOUS
<1> HIDE DEF T
<1>4. T = 0 .. n BY <1>1, <1>2, <1>3, Upwards
<1>5. n \in T BY <1>4
<1> QED BY <1>5 DEF T

\* H[k] are the states the loop may be in after k turns.
LEMMA LoopStays ==
  ASSUME NEW n \in Nat, NEW S, NEW G \in [1 .. n -> [S -> S]],
         NEW H, NEW start \in S, start \in H[0],
         \A k \in 1 .. n : \A s \in S : s \in H[k - 1] => G[k][s] \in H[k]
  PROVE  \E f \in [0 .. n -> S] :
           Runs(f, n, start, G) /\ \A k \in 0 .. n : f[k] \in H[k]
<1>1. PICK f \in [0 .. n -> S] : Runs(f, n, start, G) BY LoopRuns
<1> DEFINE T == {k \in 0 .. n : f[k] \in H[k]}
<1>2. 0 \in T BY <1>1 DEF Runs
<1>3. ASSUME NEW k \in 1 .. n, k - 1 \in T PROVE k \in T
  <2>1. f[k - 1] \in S BY <1>3
  <2>2. f[k] = G[k][f[k - 1]] BY <1>1 DEF Runs
  <2> QED BY <1>3, <2>1, <2>2
<1>4. T \in SUBSET (0 .. n) OBVIOUS
<1> HIDE DEF T
<1>5. T = 0 .. n BY <1>2, <1>3, <1>4, Upwards
<1> QED BY <1>1, <1>5 DEF T

\* f and g start alike and have the same turns.
SameTurns(f, g, n) ==
  f[0] = g[0] /\ \A k \in 1 .. n : f[k - 1] = g[k - 1] => f[k] = g[k]

LEMMA TurnsAgree ==
  ASSUME NEW n \in Nat, NEW f, NEW g, SameTurns(f, g, n)
  PROVE  \A k \in 0 .. n : f[k] = g[k]
<1> DEFINE T == {k \in 0 .. n : f[k] = g[k]}
<1>1. 0 \in T BY DEF SameTurns
<1>2. ASSUME NEW k \in 1 .. n, k - 1 \in T PROVE k \in T BY <1>2 DEF SameTurns
<1>3. T \in SUBSET (0 .. n) OBVIOUS
<1> HIDE DEF T
<1>4. T = 0 .. n BY <1>1, <1>2, <1>3, Upwards
<1> QED BY <1>4 DEF T

-----------------------------------------------------------------------------
(* A run of pages                                                          *)

\* Its addresses.
At(run) == KMAP_BEGIN + run.first
InWindow(run) ==
  run.first \in Nat /\ run.count \in Nat /\ At(run) + run.count =< VIRTUAL_BASE

KeepsWalks(s, t) ==
  \A b \in Addr, l \in Levels : Walk(s.tables, b, l) = Walk(t.tables, b, l)

\* The tables when k of the run's pages were mapped, or cleared.
SomeMapped(run, k) ==
  {s \in Maps : /\ Idle(s) /\ KeepsWalks(s, mapping)
                /\ \A b \in Addr : Translate(s.tables, b) =
                     IF b \in At(run) .. At(run) + k - 1 THEN PageOf(run, b - At(run))
                     ELSE Translate(mapping.tables, b)}
SomeCleared(run, k) ==
  {s \in Maps : /\ Idle(s) /\ KeepsWalks(s, mapping)
                /\ \A b \in Addr : Translate(s.tables, b) =
                     IF b \in At(run) .. At(run) + k - 1 THEN UNMAPPED
                     ELSE Translate(mapping.tables, b)}

LEMMA RunAddresses ==
  ASSUME NEW run, InWindow(run), NEW k \in 1 .. run.count
  PROVE  /\ KMAP_BEGIN + run.first + k - 1 = At(run) + (k - 1)
         /\ At(run) \in Nat /\ run.count \in Nat
         /\ At(run) + (k - 1) \in Addr
         /\ k \in Nat \ {0}
BY LayoutAssumption, PmlSizes DEF InWindow, At, Addr

LEMMA MapRunIs ==
  ASSUME Idle(mapping), NEW run, InWindow(run),
         \A k \in 1 .. run.count : Walk(mapping.tables, At(run) + (k - 1), 1) # NoTable,
         \A k \in 1 .. run.count : Translate(mapping.tables, At(run) + (k - 1)) = UNMAPPED
  PROVE  MapRun(run) \in SomeMapped(run, run.count)
<1> DEFINE n == run.count
           page(s, k) == MapPage(s, KMAP_BEGIN + run.first + k - 1, PageOf(run, PageNo(k - 1)))
           R(f) == [k \in 0 .. n |-> IF k = 0 THEN mapping ELSE page(f[k - 1], k)]
           G == [k \in 1 .. n |-> [s \in Maps |-> IF page(s, k) \in Maps THEN page(s, k) ELSE s]]
           H == [k \in 0 .. n |-> SomeMapped(run, k)]
           t == CHOOSE f : f = R(f)
<1>1. n \in Nat /\ run.first \in Nat /\ At(run) \in Nat
  BY LayoutAssumption DEF InWindow, At
<1>2. MapRun(run) = t[n] BY DEF MapRun
<1>3. mapping \in SomeMapped(run, 0)
  <2>1. \A b \in Addr : b \notin At(run) .. At(run) + 0 - 1 BY <1>1
  <2> QED BY <2>1 DEF SomeMapped, Idle, KeepsWalks
<1>4. ASSUME NEW k \in 1 .. n, NEW s \in SomeMapped(run, k - 1)
      PROVE  page(s, k) \in SomeMapped(run, k)
  <2> DEFINE a == At(run) + (k - 1)
             p == PageOf(run, k - 1)
             s2 == MapPage(s, a, p)
  <2>1. a \in Addr /\ k \in Nat \ {0} /\ page(s, k) = s2
    BY <1>4, RunAddresses DEF PageNo
  <2>2. p \in Nat
    <3>1. run.first + 2 * run.count + 5 * (k - 1) \in Nat BY <1>1, <2>1
    <3> QED BY <3>1 DEF PageOf
  <2>3. /\ Idle(s) /\ KeepsWalks(s, mapping)
        /\ \A b \in Addr : Translate(s.tables, b) =
             IF b \in At(run) .. At(run) + (k - 1) - 1 THEN PageOf(run, b - At(run))
             ELSE Translate(mapping.tables, b)
    BY DEF SomeMapped
  <2>4. Walk(s.tables, a, 1) # NoTable
    <3>1. 1 \in Levels BY DEF Levels
    <3> QED BY <2>1, <2>3, <3>1 DEF KeepsWalks
  <2>5. Translate(s.tables, a) = UNMAPPED
    <3>1. a \notin At(run) .. At(run) + (k - 1) - 1 BY <1>1, <2>1
    <3> QED BY <2>1, <2>3, <3>1
  <2> HIDE DEF page, a, p
  <2>6. /\ Idle(s2)
        /\ \A b \in Addr, l \in Levels : Walk(s2.tables, b, l) = Walk(s.tables, b, l)
        /\ \A b \in Addr : Translate(s2.tables, b) =
             IF b = a THEN p ELSE Translate(s.tables, b)
    BY <2>1, <2>2, <2>3, <2>4, <2>5, MapPageIs
  <2> HIDE DEF s2
  <2>7. KeepsWalks(s2, mapping) BY <2>3, <2>6 DEF KeepsWalks
  <2>8. ASSUME NEW b \in Addr
        PROVE  Translate(s2.tables, b) =
                 IF b \in At(run) .. At(run) + k - 1 THEN PageOf(run, b - At(run))
                 ELSE Translate(mapping.tables, b)
    <3>1. b \in Nat BY RootBlock
    <3>2. CASE b = a
      <4>1. b \in At(run) .. At(run) + k - 1 /\ b - At(run) = k - 1
        BY <1>1, <2>1, <3>2 DEF a
      <4> QED BY <2>6, <3>2, <4>1 DEF p
    <3>3. CASE b # a
      <4>1. b \in At(run) .. At(run) + k - 1 <=> b \in At(run) .. At(run) + (k - 1) - 1
        BY <1>1, <2>1, <3>1, <3>3 DEF a
      <4> QED BY <2>3, <2>6, <3>3, <4>1
    <3> QED BY <3>2, <3>3
  <2> QED BY <2>1, <2>6, <2>7, <2>8 DEF SomeMapped, Idle
<1>5. \A k \in 0 .. n : SomeMapped(run, k) \subseteq Maps BY DEF SomeMapped
<1>6. \A k \in 1 .. n : k - 1 \in 0 .. n /\ k \in 0 .. n BY <1>1
<1> HIDE DEF n, page
<1>7. ASSUME NEW k \in 1 .. n, NEW s \in SomeMapped(run, k - 1)
      PROVE  G[k][s] = page(s, k)
  <2>1. page(s, k) \in Maps /\ s \in Maps BY <1>4, <1>5, <1>6
  <2> QED BY <2>1
<1>8. G \in [1 .. n -> [Maps -> Maps]] OBVIOUS
<1>9. PICK f \in [0 .. n -> Maps] :
        Runs(f, n, mapping, G) /\ \A k \in 0 .. n : f[k] \in H[k]
  <2>1. mapping \in Maps /\ mapping \in H[0] BY <1>1, <1>3, <1>5
  <2>2. \A k \in 1 .. n : \A s \in Maps : s \in H[k - 1] => G[k][s] \in H[k]
    <3> TAKE k \in 1 .. n
    <3> TAKE s \in Maps
    <3>1. H[k - 1] = SomeMapped(run, k - 1) /\ H[k] = SomeMapped(run, k) BY <1>6
    <3> HIDE DEF H, G
    <3> QED BY <1>4, <1>7, <3>1
  <2> HIDE DEF G, H
  <2> QED BY <1>1, <1>8, <2>1, <2>2, LoopStays
<1>10. \A k \in 1 .. n : f[k] = page(f[k - 1], k)
  <2> TAKE k \in 1 .. n
  <2>1. f[k - 1] \in SomeMapped(run, k - 1) BY <1>6, <1>9
  <2>2. f[k] = G[k][f[k - 1]] BY <1>9 DEF Runs
  <2> HIDE DEF G, H
  <2> QED BY <1>7, <2>1, <2>2
<1>11. f = R(f) BY <1>1, <1>9, <1>10 DEF Runs
<1>12. t = R(t)
  <2> HIDE DEF R
  <2> QED BY <1>11
<1> HIDE DEF t
<1>13. t[0] = mapping /\ \A k \in 1 .. n : t[k] = page(t[k - 1], k) BY <1>1, <1>12
<1>14. SameTurns(t, f, n) BY <1>9, <1>10, <1>13 DEF SameTurns, Runs
<1>15. t[n] = f[n]
  <2> HIDE DEF R, G, H
  <2>1. n \in 0 .. n BY <1>1
  <2>2. \A k \in 0 .. n : t[k] = f[k] BY <1>1, <1>14, TurnsAgree
  <2> QED BY <2>1, <2>2
<1>16. f[n] \in SomeMapped(run, n) BY <1>1, <1>9
<1> QED BY <1>2, <1>15, <1>16 DEF n

LEMMA ClearRunIs ==
  ASSUME Idle(mapping), NEW run, InWindow(run), tag[run.first] = run.count,
         \A k \in 1 .. run.count : Walk(mapping.tables, At(run) + (k - 1), 1) # NoTable
  PROVE  ClearRun(run) \in SomeCleared(run, run.count)
<1> DEFINE n == run.count
           page(s, k) == ClearPage(s, KMAP_BEGIN + run.first + k - 1)
           R(f) == [k \in 0 .. n |-> IF k = 0 THEN mapping ELSE page(f[k - 1], k)]
           G == [k \in 1 .. n |-> [s \in Maps |-> IF page(s, k) \in Maps THEN page(s, k) ELSE s]]
           H == [k \in 0 .. n |-> SomeCleared(run, k)]
           t == CHOOSE f : f = R(f)
<1>1. n \in Nat /\ run.first \in Nat /\ At(run) \in Nat
  BY LayoutAssumption DEF InWindow, At
<1>2. ClearRun(run) = t[n] BY DEF ClearRun
<1>3. mapping \in SomeCleared(run, 0)
  <2>1. \A b \in Addr : b \notin At(run) .. At(run) + 0 - 1 BY <1>1
  <2> QED BY <2>1 DEF SomeCleared, Idle, KeepsWalks
<1>4. ASSUME NEW k \in 1 .. n, NEW s \in SomeCleared(run, k - 1)
      PROVE  page(s, k) \in SomeCleared(run, k)
  <2> DEFINE a == At(run) + (k - 1)
             s2 == ClearPage(s, a)
  <2>1. a \in Addr /\ k \in Nat \ {0} /\ page(s, k) = s2 BY <1>4, RunAddresses
  <2>2. /\ Idle(s) /\ KeepsWalks(s, mapping)
        /\ \A b \in Addr : Translate(s.tables, b) =
             IF b \in At(run) .. At(run) + (k - 1) - 1 THEN UNMAPPED
             ELSE Translate(mapping.tables, b)
    BY DEF SomeCleared
  <2>3. Walk(s.tables, a, 1) # NoTable
    <3>1. 1 \in Levels BY DEF Levels
    <3> QED BY <2>1, <2>2, <3>1 DEF KeepsWalks
  <2> HIDE DEF page, a
  <2>4. /\ Idle(s2)
        /\ \A b \in Addr, l \in Levels : Walk(s2.tables, b, l) = Walk(s.tables, b, l)
        /\ \A b \in Addr : Translate(s2.tables, b) =
             IF b = a THEN UNMAPPED ELSE Translate(s.tables, b)
    BY <2>1, <2>2, <2>3, ClearPageIs
  <2> HIDE DEF s2
  <2>5. KeepsWalks(s2, mapping) BY <2>2, <2>4 DEF KeepsWalks
  <2>6. ASSUME NEW b \in Addr
        PROVE  Translate(s2.tables, b) =
                 IF b \in At(run) .. At(run) + k - 1 THEN UNMAPPED
                 ELSE Translate(mapping.tables, b)
    <3>1. b \in Nat BY RootBlock
    <3>2. CASE b = a
      <4>1. b \in At(run) .. At(run) + k - 1 BY <1>1, <2>1, <3>2 DEF a
      <4> QED BY <2>4, <3>2, <4>1
    <3>3. CASE b # a
      <4>1. b \in At(run) .. At(run) + k - 1 <=> b \in At(run) .. At(run) + (k - 1) - 1
        BY <1>1, <2>1, <3>1, <3>3 DEF a
      <4> QED BY <2>2, <2>4, <3>3, <4>1
    <3> QED BY <3>2, <3>3
  <2> QED BY <2>1, <2>4, <2>5, <2>6 DEF SomeCleared, Idle
<1>5. \A k \in 0 .. n : SomeCleared(run, k) \subseteq Maps BY DEF SomeCleared
<1>6. \A k \in 1 .. n : k - 1 \in 0 .. n /\ k \in 0 .. n BY <1>1
<1> HIDE DEF n, page
<1>7. ASSUME NEW k \in 1 .. n, NEW s \in SomeCleared(run, k - 1)
      PROVE  G[k][s] = page(s, k)
  <2>1. page(s, k) \in Maps /\ s \in Maps BY <1>4, <1>5, <1>6
  <2> QED BY <2>1
<1>8. G \in [1 .. n -> [Maps -> Maps]] OBVIOUS
<1>9. PICK f \in [0 .. n -> Maps] :
        Runs(f, n, mapping, G) /\ \A k \in 0 .. n : f[k] \in H[k]
  <2>1. mapping \in Maps /\ mapping \in H[0] BY <1>1, <1>3, <1>5
  <2>2. \A k \in 1 .. n : \A s \in Maps : s \in H[k - 1] => G[k][s] \in H[k]
    <3> TAKE k \in 1 .. n
    <3> TAKE s \in Maps
    <3>1. H[k - 1] = SomeCleared(run, k - 1) /\ H[k] = SomeCleared(run, k) BY <1>6
    <3> HIDE DEF H, G
    <3> QED BY <1>4, <1>7, <3>1
  <2> HIDE DEF G, H
  <2> QED BY <1>1, <1>8, <2>1, <2>2, LoopStays
<1>10. \A k \in 1 .. n : f[k] = page(f[k - 1], k)
  <2> TAKE k \in 1 .. n
  <2>1. f[k - 1] \in SomeCleared(run, k - 1) BY <1>6, <1>9
  <2>2. f[k] = G[k][f[k - 1]] BY <1>9 DEF Runs
  <2> HIDE DEF G, H
  <2> QED BY <1>7, <2>1, <2>2
<1>11. f = R(f) BY <1>1, <1>9, <1>10 DEF Runs
<1>12. t = R(t)
  <2> HIDE DEF R
  <2> QED BY <1>11
<1> HIDE DEF t
<1>13. t[0] = mapping /\ \A k \in 1 .. n : t[k] = page(t[k - 1], k) BY <1>1, <1>12
<1>14. SameTurns(t, f, n) BY <1>9, <1>10, <1>13 DEF SameTurns, Runs
<1>15. t[n] = f[n]
  <2> HIDE DEF R, G, H
  <2>1. n \in 0 .. n BY <1>1
  <2>2. \A k \in 0 .. n : t[k] = f[k] BY <1>1, <1>14, TurnsAgree
  <2> QED BY <2>1, <2>2
<1>16. f[n] \in SomeCleared(run, n) BY <1>1, <1>9
<1> QED BY <1>2, <1>15, <1>16 DEF n

-----------------------------------------------------------------------------
(* The setup                                                               *)

\* A call begins.
LEMMA StartWorks ==
  ASSUME NEW T, Tree(T), NEW g \in Goals, NEW flags \in {"map", "populate"},
         NEW old, \A a \in Addr : Translate(T, a) = old[a]
  PROVE  Works(Start(T, g.begin, g.last, g.phys, flags, TRUE), flags, g, old)
<1> DEFINE c == CallOf(1, 4, g.begin, g.last, g.phys)
           st == <<c>>
           s == Start(T, g.begin, g.last, g.phys, flags, TRUE)
<1>1. /\ g.begin \in Addr /\ g.last \in Addr /\ g.begin \in Nat /\ g.last \in Nat
      /\ g.phys \in Nat /\ g.begin =< g.last
  BY GoalIs
<1>2. 4 \in Levels /\ 1 \in Nat /\ 1 # NoTable BY DEF Levels, NoTable
<1>3. c \in Calls BY <1>1, <1>2 DEF CallOf, Calls
<1>4. /\ c.table = 1 /\ c.lvl = 4 /\ c.begin = g.begin /\ c.last = g.last /\ c.phys = g.phys
  BY DEF CallOf
<1>5. s.tables = T /\ s.stack = st /\ s.flags = flags /\ s.pool = TRUE /\ s.fault = FALSE
  BY DEF Start
<1> HIDE DEF c
<1>6. IsCall(c)
  <2>1. Block(g.begin, 4 + 1) = Block(g.last, 4 + 1)
    <3>1. 4 + 1 = 5 OBVIOUS
    <3>2. Block(g.begin, 5) = 0 /\ Block(g.last, 5) = 0 BY <1>1, RootBlock
    <3> QED BY <3>1, <3>2
  <2> QED BY <1>1, <1>2, <1>4, <2>1 DEF IsCall
<1>7. Walk(T, g.begin, 4) = 1 BY Walks
<1>8. Serves(T, c, g)
  <2>1. c.phys = g.phys + (c.begin - g.begin) BY <1>1, <1>4
  <2> QED BY <1>1, <1>2, <1>4, <1>6, <1>7, <2>1 DEF Serves
<1>9. StackOK(T, st, g) /\ From(st, g) = g.begin
  <2>1. st \in Seq(Calls) /\ Len(st) = 1 /\ DOMAIN st = {1} /\ st[1] = c /\ st # <<>>
    BY <1>3
  <2> QED BY <1>4, <1>8, <2>1 DEF StackOK, From
<1>10. s \in Maps
  <2>1. T \in Seq(Table) /\ st \in Seq(Calls) BY <1>9 DEF Tree, StackOK
  <2> QED BY <1>3, <2>1 DEF Maps, Start, c
<1>11. Filled(T, flags, g, g.begin, old)
  <2>1. \A a : a \notin g.begin .. g.begin - 1 BY <1>1
  <2> QED BY <2>1 DEF Filled
<1> HIDE DEF s, st
<1> QED BY <1>5, <1>9, <1>10, <1>11 DEF Works, s

\* The root alone.
LEMMA RootIsTree ==
  Tree(<<FreshTable>>) /\ \A a \in Addr : Translate(<<FreshTable>>, a) = UNMAPPED
<1> DEFINE T == <<FreshTable>>
<1>1. FreshTable \in Table BY DEF FreshTable, Table, Entry, EMPTY
<1>2. T \in Seq(Table) /\ DOMAIN T = {1} /\ T[1] = FreshTable BY <1>1
<1> HIDE DEF T
<1>3. ASSUME NEW a \in Addr
      PROVE  Walk(T, a, 4) = 1 /\ EntryOf(T, 1, a, 4) = EMPTY
             /\ \A l \in Levels : l # 4 => Walk(T, a, l) = NoTable
  <2>1. 4 \in Levels /\ \A l \in Levels : l # 4 => l < 4 BY DEF Levels
  <2>2. pml_offs(a, 4) \in 0 .. PT_ENTRIES - 1 BY <2>1, RootBlock, Digits
  <2>3. Walk(T, a, 4) = 1 BY Walks
  <2>4. EntryOf(T, 1, a, 4) = EMPTY BY <1>2, <2>2 DEF EntryOf, FreshTable
  <2>5. Ends(EntryOf(T, Walk(T, a, 4), a, 4), 4) BY <2>3, <2>4 DEF Ends, EMPTY
  <2> QED BY <2>1, <2>3, <2>4, <2>5, NothingBelow
<1>4. \A a \in Addr, l \in Levels : Walk(T, a, l) \in {NoTable} \cup DOMAIN T
  BY <1>2, <1>3
<1>5. ASSUME NEW a \in Addr, NEW b \in Addr, NEW l \in Levels, NEW m \in Levels,
             Walk(T, a, l) = Walk(T, b, m), Walk(T, a, l) # NoTable
      PROVE  l = m /\ Block(a, l + 1) = Block(b, l + 1)
  <2>1. l = 4 /\ m = 4 BY <1>3, <1>5
  <2>2. 4 + 1 = 5 /\ Block(a, 5) = Block(b, 5) BY RootBlock
  <2> QED BY <2>1, <2>2
<1>6. Tree(T) BY <1>2, <1>4, <1>5 DEF Tree
<1>7. ASSUME NEW a \in Addr PROVE Translate(T, a) = UNMAPPED
  <2>1. Walk(T, a, 4) = 1 /\ EntryOf(T, 1, a, 4) = EMPTY BY <1>3
  <2>2. 4 \in Levels /\ 1 # NoTable BY DEF Levels, NoTable
  <2> QED BY <1>6, <2>1, <2>2, WalkEnds DEF Ends, EMPTY, Target
<1> QED BY <1>6, <1>7 DEF T

-----------------------------------------------------------------------------
(* What is mapped one after the other, and what was before.                *)

MemoryGoal == [begin |-> HIGHER_BASE, last |-> HIGHER_BASE + mem_size - 1, phys |-> 0]
ImageGoal  == [begin |-> VIRTUAL_BASE, last |-> Top - 1, phys |-> 0]
WindowGoal == [begin |-> KMAP_BEGIN, last |-> VIRTUAL_BASE - 1, phys |-> 0]

Nothing == [a \in Addr |-> UNMAPPED]
Memory  == [a \in Addr |-> IF a \in HIGHER_BASE .. HIGHER_BASE + mem_size - 1
                           THEN a - HIGHER_BASE ELSE UNMAPPED]
Whole   == [a \in Addr |-> Meant(a)]

\* Every page of the window has a table.
WindowHasTables == \A p \in Page : Walk(mapping.tables, KMAP_BEGIN + p, 1) # NoTable

OutsideIsRight ==
  \A a \in Addr : a \notin KMAP_BEGIN .. VIRTUAL_BASE - 1 => Phys(a) = Meant(a)

PagingInv ==
  /\ KInv /\ limit \in Limits
  /\ phase \in {"start", "memory", "image", "window", "ready"}
  /\ phase # "ready" => held = {}
  /\ phase = "start" => ~mapping.fault
  /\ phase = "memory" => Works(mapping, "map", MemoryGoal, Nothing)
  /\ phase = "image" => Works(mapping, "map", ImageGoal, Memory)
  /\ phase = "window" => Works(mapping, "populate", WindowGoal, Whole)
  /\ phase = "ready" => /\ Idle(mapping) /\ WindowHasTables
                        /\ OutsideIsRight /\ WindowIsRuns

LEMMA LayoutIs ==
  ASSUME limit \in Limits
  PROVE  /\ HIGHER_BASE \in Nat /\ KMAP_BEGIN \in Nat /\ VIRTUAL_BASE \in Nat /\ Top \in Nat
         /\ mem_size \in Nat \ {0} /\ HIGHER_BASE + mem_size =< KMAP_BEGIN
         /\ KMAP_BEGIN < VIRTUAL_BASE /\ VIRTUAL_BASE < Top
         /\ VIRTUAL_BASE = KMAP_BEGIN + Pages /\ Pages \in Nat \ {0}
BY LayoutAssumption, KMapAssumption, PmlSizes DEF mem_size, MAX_PMEM_SIZE

LEMMA GoalsAre ==
  ASSUME limit \in Limits
  PROVE  /\ MemoryGoal \in Goals /\ ImageGoal \in Goals /\ WindowGoal \in Goals
         /\ \A a \in MemoryGoal.begin .. MemoryGoal.last : Nothing[a] = UNMAPPED
         /\ \A a \in ImageGoal.begin .. ImageGoal.last : Memory[a] = UNMAPPED
         /\ \A a \in WindowGoal.begin .. WindowGoal.last : Whole[a] = UNMAPPED
<1>1. /\ HIGHER_BASE \in Nat /\ KMAP_BEGIN \in Nat /\ VIRTUAL_BASE \in Nat /\ Top \in Nat
      /\ mem_size \in Nat \ {0} /\ HIGHER_BASE + mem_size =< KMAP_BEGIN
      /\ KMAP_BEGIN < VIRTUAL_BASE /\ VIRTUAL_BASE < Top
  BY LayoutIs
<1> HIDE DEF mem_size
<1>2. MemoryGoal \in Goals BY <1>1 DEF MemoryGoal, Goals, Addr
<1>3. ImageGoal \in Goals BY <1>1 DEF ImageGoal, Goals, Addr
<1>4. WindowGoal \in Goals BY <1>1 DEF WindowGoal, Goals, Addr
<1>5. \A a \in MemoryGoal.begin .. MemoryGoal.last : Nothing[a] = UNMAPPED
  BY <1>1 DEF MemoryGoal, Nothing, Addr
<1>6. \A a \in ImageGoal.begin .. ImageGoal.last : Memory[a] = UNMAPPED
  BY <1>1 DEF ImageGoal, Memory, Addr
<1>7. \A a \in WindowGoal.begin .. WindowGoal.last : Whole[a] = UNMAPPED
  BY <1>1 DEF WindowGoal, Whole, Meant, Addr
<1> QED BY <1>2, <1>3, <1>4, <1>5, <1>6, <1>7

\* A call that is over.
LEMMA Over ==
  ASSUME NEW s, NEW flags, NEW g \in Goals, NEW old, Works(s, flags, g, old), s.stack = <<>>
  PROVE  /\ Tree(s.tables)
         /\ \A a \in Addr : Translate(s.tables, a) =
              IF flags = "map" /\ a \in g.begin .. g.last THEN g.phys + (a - g.begin) ELSE old[a]
         /\ flags = "populate" => \A a \in g.begin .. g.last : Walk(s.tables, a, 1) # NoTable
<1>1. From(s.stack, g) = g.last + 1 BY DEF From
<1>2. (g.last + 1) - 1 = g.last BY GoalIs
<1> QED BY <1>1, <1>2 DEF Works, Filled

\* What kmap does to the runs that are held.
LEMMA KmapGives ==
  ASSUME KInv, NEW n \in Counts, Kmap(n)
  PROVE  \/ held' = held
         \/ \E part : /\ held' = held \cup {part} /\ part \notin held
                      /\ part.count = n /\ IsRun(part) /\ \A r \in held : Apart(part, r)
<1>0. n \in Nat \ {0} /\ n > 1 /\ Sound(Now, held, {}) BY KMapAssumption DEF KInv
<1>1. ASSUME NEW o \in Search(n), NEW run, NEW s, run = Found(o, n), s = Take(run, n),
             held' = held \cup {[first |-> run, count |-> n]}
      PROVE  \E part : /\ held' = held \cup {part} /\ part \notin held
                       /\ part.count = n /\ IsRun(part) /\ \A r \in held : Apart(part, r)
  <2> DEFINE part == [first |-> run, count |-> n]
  <2>1. o \in 0 .. Orders - 1 /\ Finds(o, n) BY <1>0, SearchIs
  <2>2. run \in Linked(Now) /\ tag[run] >= n BY <1>0, <1>1, <2>1, FoundIs
  <2>3. IsRun(part) /\ \A r \in held : Apart(part, r) BY <1>0, <1>1, <2>2, TakeSound
  <2>4. part.count = n OBVIOUS
  <2>5. held' = held \cup {part} BY <1>1
  <2> HIDE DEF part
  <2>6. part \notin held
    <3> SUFFICES ASSUME part \in held PROVE FALSE OBVIOUS
    <3>1. Apart(part, part) BY <2>3
    <3> QED BY <2>3, <3>1 DEF Apart, IsRun, Page
  <2> QED BY <2>3, <2>4, <2>5, <2>6
<1> QED BY <1>0, <1>1 DEF Kmap

LEMMA RunInWindow ==
  ASSUME limit \in Limits, NEW r, IsRun(r)
  PROVE  /\ InWindow(r) /\ At(r) = KMAP_BEGIN + r.first /\ At(r) \in Nat
         /\ r.first \in Nat /\ r.count \in Nat \ {0}
         /\ At(r) >= KMAP_BEGIN
         /\ \A k \in 1 .. r.count : r.first + (k - 1) \in Page
                                    /\ At(r) + (k - 1) = KMAP_BEGIN + (r.first + (k - 1))
BY LayoutIs DEF InWindow, At, IsRun, Page

\* The addresses of a run are the pages it covers.
LEMMA CoversIs ==
  ASSUME limit \in Limits, NEW r, IsRun(r), NEW p \in Page
  PROVE  /\ p \in Covers(r) <=> KMAP_BEGIN + p \in At(r) .. At(r) + r.count - 1
         /\ KMAP_BEGIN + p \in Addr
BY LayoutIs DEF Covers, At, IsRun, Page, Addr

LEMMA PKmapKeeps ==
  ASSUME PagingInv, NEW n \in Counts, PKmap(n), KInv'
  PROVE  PagingInv'
<1> DEFINE T == mapping.tables
           U == mapping'.tables
<1>1. /\ KInv /\ limit \in Limits /\ phase = "ready" /\ Idle(mapping) /\ WindowHasTables
      /\ OutsideIsRight /\ WindowIsRuns /\ limit' = limit /\ phase' = phase /\ Kmap(n)
  BY DEF PagingInv, PKmap, Ready
<1>2. mapping' = IF held' \ held = {} THEN mapping
                 ELSE MapRun(CHOOSE r \in held' \ held : TRUE)
  BY DEF PKmap
<1>3. CASE held' = held
  <2>1. mapping' = mapping BY <1>2, <1>3
  <2>2. WindowIsRuns' BY <1>1, <1>3, <2>1 DEF WindowIsRuns, Phys, Covers, PageOf
  <2>3. WindowHasTables' BY <1>1, <2>1 DEF WindowHasTables
  <2>4. OutsideIsRight' BY <1>1, <2>1 DEF OutsideIsRight, Phys, Meant, mem_size
  <2> QED BY <1>1, <2>1, <2>2, <2>3, <2>4 DEF PagingInv, Idle
<1>4. ASSUME NEW part, held' = held \cup {part}, part \notin held, IsRun(part),
             \A r \in held : Apart(part, r)
      PROVE  PagingInv'
  <2>1. mapping' = MapRun(part)
    <3>1. held' \ held = {part} BY <1>4
    <3>2. (CHOOSE r \in {part} : TRUE) = part OBVIOUS
    <3> QED BY <1>2, <3>1, <3>2
  <2>2. /\ InWindow(part) /\ At(part) \in Nat /\ part.count \in Nat \ {0}
        /\ \A k \in 1 .. part.count : part.first + (k - 1) \in Page
             /\ At(part) + (k - 1) = KMAP_BEGIN + (part.first + (k - 1))
    BY <1>1, <1>4, RunInWindow
  <2>3. \A k \in 1 .. part.count : Walk(T, At(part) + (k - 1), 1) # NoTable
    BY <1>1, <2>2 DEF WindowHasTables
  <2>4. \A r \in held : IsRun(r) BY <1>1 DEF KInv, Sound, Divides
  <2>5. \A p \in Page : p \in Covers(part) => \A r \in held : p \notin Covers(r)
    BY <1>4, <2>4 DEF Covers, Apart, IsRun, Page
  <2>6. \A k \in 1 .. part.count : Translate(T, At(part) + (k - 1)) = UNMAPPED
    <3> TAKE k \in 1 .. part.count
    <3>1. part.first + (k - 1) \in Page /\ At(part) + (k - 1) = KMAP_BEGIN + (part.first + (k - 1))
      BY <2>2
    <3>2. part.first + (k - 1) \in Covers(part) BY <1>4, <2>2, <3>1 DEF Covers, IsRun, Page
    <3>3. Phys(KMAP_BEGIN + (part.first + (k - 1))) = UNMAPPED
      BY <1>1, <2>5, <3>1, <3>2 DEF WindowIsRuns
    <3> QED BY <3>1, <3>3 DEF Phys
  <2>7. MapRun(part) \in SomeMapped(part, part.count) BY <1>1, <2>2, <2>3, <2>6, MapRunIs
  <2>8. /\ Idle(mapping')
        /\ \A b \in Addr, l \in Levels : Walk(U, b, l) = Walk(T, b, l)
        /\ \A b \in Addr : Translate(U, b) =
             IF b \in At(part) .. At(part) + part.count - 1 THEN PageOf(part, b - At(part))
             ELSE Translate(T, b)
    BY <2>1, <2>7 DEF SomeMapped, KeepsWalks
  <2>9. WindowHasTables'
    <3>1. 1 \in Levels BY DEF Levels
    <3>2. \A p \in Page : KMAP_BEGIN + p \in Addr BY <1>1, <1>4, CoversIs
    <3> QED BY <1>1, <2>8, <3>1, <3>2 DEF WindowHasTables
  <2>10. OutsideIsRight'
    <3>1. \A a \in Addr : a \in At(part) .. At(part) + part.count - 1 => a \in KMAP_BEGIN .. VIRTUAL_BASE - 1
      BY <1>1, <1>4, LayoutIs DEF At, IsRun, Addr, Page
    <3>2. \A a \in Addr : a \notin KMAP_BEGIN .. VIRTUAL_BASE - 1 => Translate(U, a) = Meant(a)
      BY <1>1, <2>8, <3>1 DEF OutsideIsRight, Phys
    <3>3. \A a \in Addr : Meant(a)' = Meant(a) BY <1>1 DEF Meant, mem_size
    <3>4. \A a \in Addr : Phys(a)' = Translate(U, a) BY DEF Phys
    <3> QED BY <3>2, <3>3, <3>4 DEF OutsideIsRight
\* No address of another run is one of the new run.
  <2>11. ASSUME NEW r \in held, NEW i \in 0 .. r.count - 1
         PROVE  /\ KMAP_BEGIN + r.first + i \in Addr
                /\ KMAP_BEGIN + r.first + i \notin At(part) .. At(part) + part.count - 1
    <3>1. IsRun(r) /\ Apart(part, r) BY <1>4, <2>4
    <3> QED BY <1>1, <1>4, <3>1, LayoutIs DEF IsRun, Apart, At, Addr, Page
  <2>12. ASSUME NEW i \in 0 .. part.count - 1
         PROVE  /\ KMAP_BEGIN + part.first + i \in Addr
                /\ KMAP_BEGIN + part.first + i \in At(part) .. At(part) + part.count - 1
                /\ (KMAP_BEGIN + part.first + i) - At(part) = i
    BY <1>1, <1>4, LayoutIs DEF IsRun, At, Addr, Page
  <2>13. ASSUME NEW p \in Page, \A r \in held' : p \notin Covers(r)
         PROVE  Translate(U, KMAP_BEGIN + p) = UNMAPPED
    <3>1. \A r \in held : p \notin Covers(r) BY <1>4, <2>13
    <3>2. Translate(T, KMAP_BEGIN + p) = UNMAPPED BY <1>1, <3>1 DEF WindowIsRuns, Phys
    <3>3. p \notin Covers(part) BY <1>4, <2>13
    <3>4. /\ KMAP_BEGIN + p \notin At(part) .. At(part) + part.count - 1
          /\ KMAP_BEGIN + p \in Addr
      BY <1>1, <1>4, <3>3, CoversIs
    <3> QED BY <2>8, <3>2, <3>4
  <2>14. ASSUME NEW r \in held', NEW i \in 0 .. r.count - 1
         PROVE  Translate(U, KMAP_BEGIN + r.first + i) = PageOf(r, i)
    <3>1. CASE r \in held
      <4>1. Translate(T, KMAP_BEGIN + r.first + i) = PageOf(r, i)
        BY <1>1, <2>14, <3>1 DEF WindowIsRuns, Phys
      <4> QED BY <2>8, <2>11, <2>14, <3>1, <4>1
    <3>2. CASE r = part BY <2>8, <2>12, <2>14, <3>2
    <3> QED BY <1>4, <3>1, <3>2
  <2>15. WindowIsRuns'
    <3>1. \A a : Phys(a)' = Translate(U, a) BY DEF Phys
    <3>2. \A r : Covers(r)' = Covers(r) BY DEF Covers
    <3>3. \A r, i : PageOf(r, i)' = PageOf(r, i) BY DEF PageOf
    <3> QED BY <2>13, <2>14, <3>1, <3>2, <3>3 DEF WindowIsRuns
  <2> QED BY <1>1, <2>8, <2>9, <2>10, <2>15 DEF PagingInv
<1> QED BY <1>1, <1>3, <1>4, KmapGives

LEMMA PKunmapKeeps ==
  ASSUME PagingInv, NEW run \in held, PKunmap(run), KInv'
  PROVE  PagingInv'
<1> DEFINE T == mapping.tables
           U == mapping'.tables
<1>1. /\ KInv /\ limit \in Limits /\ phase = "ready" /\ Idle(mapping) /\ WindowHasTables
      /\ OutsideIsRight /\ WindowIsRuns /\ limit' = limit /\ phase' = phase
      /\ held' = held \ {run} /\ mapping' = ClearRun(run)
  BY DEF PagingInv, PKunmap, Ready, Kunmap
<1>2. /\ \A r \in held : IsRun(r)
      /\ \A r, t \in held : r = t \/ Apart(r, t)
      /\ tag[run.first] = run.count
  BY <1>1 DEF KInv, Sound, Divides, Marked, Now
<1>3. IsRun(run) BY <1>2
<1>4. /\ InWindow(run) /\ At(run) \in Nat /\ run.count \in Nat \ {0}
      /\ \A k \in 1 .. run.count : run.first + (k - 1) \in Page
           /\ At(run) + (k - 1) = KMAP_BEGIN + (run.first + (k - 1))
  BY <1>1, <1>3, RunInWindow
<1>5. \A k \in 1 .. run.count : Walk(T, At(run) + (k - 1), 1) # NoTable
  BY <1>1, <1>4 DEF WindowHasTables
<1>6. ClearRun(run) \in SomeCleared(run, run.count) BY <1>1, <1>2, <1>4, <1>5, ClearRunIs
<1>7. /\ Idle(mapping')
      /\ \A b \in Addr, l \in Levels : Walk(U, b, l) = Walk(T, b, l)
      /\ \A b \in Addr : Translate(U, b) =
           IF b \in At(run) .. At(run) + run.count - 1 THEN UNMAPPED ELSE Translate(T, b)
  BY <1>1, <1>6 DEF SomeCleared, KeepsWalks
<1>8. WindowHasTables'
  <2>1. 1 \in Levels BY DEF Levels
  <2>2. \A p \in Page : KMAP_BEGIN + p \in Addr BY <1>1, <1>3, CoversIs
  <2> QED BY <1>1, <1>7, <2>1, <2>2 DEF WindowHasTables
<1>9. OutsideIsRight'
  <2>1. \A a \in Addr : a \in At(run) .. At(run) + run.count - 1 => a \in KMAP_BEGIN .. VIRTUAL_BASE - 1
    BY <1>1, <1>3, LayoutIs DEF At, IsRun, Addr, Page
  <2>2. \A a \in Addr : a \notin KMAP_BEGIN .. VIRTUAL_BASE - 1 => Translate(U, a) = Meant(a)
    BY <1>1, <1>7, <2>1 DEF OutsideIsRight, Phys
  <2>3. \A a \in Addr : Meant(a)' = Meant(a) BY <1>1 DEF Meant, mem_size
  <2>4. \A a \in Addr : Phys(a)' = Translate(U, a) BY DEF Phys
  <2> QED BY <2>2, <2>3, <2>4 DEF OutsideIsRight
<1>10. ASSUME NEW p \in Page, \A r \in held' : p \notin Covers(r)
       PROVE  Translate(U, KMAP_BEGIN + p) = UNMAPPED
  <2>1. CASE p \in Covers(run) BY <1>1, <1>3, <1>7, <2>1, CoversIs
  <2>2. CASE p \notin Covers(run)
    <3>1. \A r \in held : p \notin Covers(r) BY <1>1, <1>10, <2>2
    <3>2. Translate(T, KMAP_BEGIN + p) = UNMAPPED BY <1>1, <3>1 DEF WindowIsRuns, Phys
    <3>3. KMAP_BEGIN + p \in Addr BY <1>1, <1>3, CoversIs
    <3> QED BY <1>7, <3>2, <3>3
  <2> QED BY <2>1, <2>2
\* No address of another run is one of the run that went.
<1>11. ASSUME NEW r \in held', NEW i \in 0 .. r.count - 1
       PROVE  Translate(U, KMAP_BEGIN + r.first + i) = PageOf(r, i)
  <2>1. r \in held /\ r # run BY <1>1, <1>11
  <2>2. IsRun(r) /\ Apart(r, run) BY <1>2, <2>1
  <2>3. /\ KMAP_BEGIN + r.first + i \in Addr
        /\ KMAP_BEGIN + r.first + i \notin At(run) .. At(run) + run.count - 1
    BY <1>1, <1>3, <1>11, <2>2, LayoutIs DEF IsRun, Apart, At, Addr, Page
  <2>4. Translate(T, KMAP_BEGIN + r.first + i) = PageOf(r, i)
    BY <1>1, <1>11, <2>1 DEF WindowIsRuns, Phys
  <2> QED BY <1>7, <2>3, <2>4
<1>12. WindowIsRuns'
  <2>1. \A a : Phys(a)' = Translate(U, a) BY DEF Phys
  <2>2. \A r : Covers(r)' = Covers(r) BY DEF Covers
  <2>3. \A r, i : PageOf(r, i)' = PageOf(r, i) BY DEF PageOf
  <2> QED BY <1>10, <1>11, <2>1, <2>2, <2>3 DEF WindowIsRuns
<1> QED BY <1>1, <1>7, <1>8, <1>9, <1>12 DEF PagingInv

-----------------------------------------------------------------------------
(* The steps of the setup                                                  *)

\* What the goals and the translations before them are made of stays.
LEMMA GoalsStay ==
  ASSUME limit' = limit
  PROVE  /\ MemoryGoal' = MemoryGoal /\ ImageGoal' = ImageGoal /\ WindowGoal' = WindowGoal
         /\ Nothing' = Nothing /\ Memory' = Memory /\ Whole' = Whole
         /\ \A a : Meant(a)' = Meant(a)
<1>1. mem_size' = mem_size BY DEF mem_size
<1>2. \A a : Meant(a)' = Meant(a) BY <1>1 DEF Meant
<1> QED BY <1>1, <1>2 DEF MemoryGoal, ImageGoal, WindowGoal, Nothing, Memory, Whole

LEMMA SetupKeeps ==
  ASSUME PagingInv, Setup, KInv'
  PROVE  PagingInv'
<1>1. /\ limit \in Limits /\ limit' = limit /\ held' = held
      /\ phase \in {"start", "memory", "image", "window", "ready"}
  BY DEF PagingInv, Setup, vars
<1>2. /\ MemoryGoal' = MemoryGoal /\ ImageGoal' = ImageGoal /\ WindowGoal' = WindowGoal
      /\ Nothing' = Nothing /\ Memory' = Memory /\ Whole' = Whole
      /\ \A a : Meant(a)' = Meant(a)
  BY <1>1, GoalsStay
<1>3. /\ MemoryGoal \in Goals /\ ImageGoal \in Goals /\ WindowGoal \in Goals
      /\ \A a \in MemoryGoal.begin .. MemoryGoal.last : Nothing[a] = UNMAPPED
      /\ \A a \in ImageGoal.begin .. ImageGoal.last : Memory[a] = UNMAPPED
      /\ \A a \in WindowGoal.begin .. WindowGoal.last : Whole[a] = UNMAPPED
  BY <1>1, GoalsAre
<1>4. /\ HIGHER_BASE \in Nat /\ KMAP_BEGIN \in Nat /\ VIRTUAL_BASE \in Nat /\ Top \in Nat
      /\ mem_size \in Nat \ {0} /\ HIGHER_BASE + mem_size =< KMAP_BEGIN
      /\ KMAP_BEGIN < VIRTUAL_BASE /\ VIRTUAL_BASE < Top
      /\ VIRTUAL_BASE = KMAP_BEGIN + Pages /\ Pages \in Nat \ {0}
  BY <1>1, LayoutIs
<1>5. ASSUME MapMemory PROVE PagingInv'
  <2>1. /\ phase = "start" /\ phase' = "memory"
        /\ mapping' = Start(<<FreshTable>>, MemoryGoal.begin, MemoryGoal.last,
                            MemoryGoal.phys, "map", TRUE)
    BY <1>5 DEF MapMemory, MemoryGoal
  <2>2. \A a \in Addr : Translate(<<FreshTable>>, a) = Nothing[a]
    BY RootIsTree DEF Nothing
  <2>3. Works(mapping', "map", MemoryGoal, Nothing)
    BY <1>3, <2>1, <2>2, RootIsTree, StartWorks
  <2>4. held' = {} BY <1>1, <2>1 DEF PagingInv
  <2> QED BY <1>1, <1>2, <2>1, <2>3, <2>4 DEF PagingInv
<1>6. ASSUME MapTurn PROVE PagingInv'
  <2>1. phase' = phase /\ mapping' = Turn(mapping) /\ phase # "start" /\ mapping.stack # <<>>
    BY <1>6 DEF MapTurn, Running
  <2>2. phase # "ready" BY <2>1 DEF PagingInv, Idle
  <2>3. phase = "memory" => Works(mapping', "map", MemoryGoal, Nothing)
    BY <1>3, <2>1, TurnKeeps DEF PagingInv
  <2>4. phase = "image" => Works(mapping', "map", ImageGoal, Memory)
    BY <1>3, <2>1, TurnKeeps DEF PagingInv
  <2>5. phase = "window" => Works(mapping', "populate", WindowGoal, Whole)
    BY <1>3, <2>1, TurnKeeps DEF PagingInv
  <2>6. held' = {} BY <1>1, <2>2 DEF PagingInv
  <2> QED BY <1>1, <1>2, <2>1, <2>2, <2>3, <2>4, <2>5, <2>6 DEF PagingInv
<1>7. ASSUME MapImage PROVE PagingInv'
  <2>1. /\ phase = "memory" /\ mapping.stack = <<>> /\ phase' = "image"
        /\ mapping' = Start(mapping.tables, ImageGoal.begin, ImageGoal.last,
                            ImageGoal.phys, "map", TRUE)
    BY <1>7 DEF MapImage, Finished, ImageGoal
  <2>2. Works(mapping, "map", MemoryGoal, Nothing) BY <2>1 DEF PagingInv
  <2>3. /\ Tree(mapping.tables)
        /\ \A a \in Addr : Translate(mapping.tables, a) =
             IF a \in MemoryGoal.begin .. MemoryGoal.last
             THEN MemoryGoal.phys + (a - MemoryGoal.begin) ELSE Nothing[a]
    BY <1>3, <2>1, <2>2, Over
  <2>4. \A a \in Addr : Translate(mapping.tables, a) = Memory[a]
    <3> TAKE a \in Addr
    <3>1. a \in Nat BY RootBlock
    <3>2. 0 + (a - HIGHER_BASE) = a - HIGHER_BASE BY <1>4, <3>1
    <3> QED BY <2>3, <3>2 DEF MemoryGoal, Memory, Nothing
  <2>5. Works(mapping', "map", ImageGoal, Memory) BY <1>3, <2>1, <2>3, <2>4, StartWorks
  <2>6. held' = {} BY <1>1, <2>1 DEF PagingInv
  <2> QED BY <1>1, <1>2, <2>1, <2>5, <2>6 DEF PagingInv
<1>8. ASSUME Populate PROVE PagingInv'
  <2>1. /\ phase = "image" /\ mapping.stack = <<>> /\ phase' = "window"
        /\ mapping' = Start(mapping.tables, WindowGoal.begin, WindowGoal.last,
                            WindowGoal.phys, "populate", TRUE)
    BY <1>8 DEF Populate, PopulateFlags, Finished, WindowGoal
  <2>2. Works(mapping, "map", ImageGoal, Memory) BY <2>1 DEF PagingInv
  <2>3. /\ Tree(mapping.tables)
        /\ \A a \in Addr : Translate(mapping.tables, a) =
             IF a \in ImageGoal.begin .. ImageGoal.last
             THEN ImageGoal.phys + (a - ImageGoal.begin) ELSE Memory[a]
    BY <1>3, <2>1, <2>2, Over
  <2>4. \A a \in Addr : Translate(mapping.tables, a) = Whole[a]
    <3> TAKE a \in Addr
    <3>1. a \in Nat /\ a =< Top - 1 BY <1>4, RootBlock DEF Addr
    <3>2. Whole[a] = Meant(a) BY DEF Whole
    <3>3. CASE a >= VIRTUAL_BASE
      <4>1. a \in VIRTUAL_BASE .. Top - 1 /\ a \notin HIGHER_BASE .. HIGHER_BASE + mem_size - 1
        BY <1>4, <3>1, <3>3
      <4>2. 0 + (a - VIRTUAL_BASE) = a - VIRTUAL_BASE BY <1>4, <3>1
      <4>3. Meant(a) = a - VIRTUAL_BASE BY <3>3, <4>1 DEF Meant
      <4> QED BY <2>3, <3>2, <4>1, <4>2, <4>3 DEF ImageGoal
    <3>4. CASE ~(a >= VIRTUAL_BASE)
      <4>1. a \notin VIRTUAL_BASE .. Top - 1 BY <3>4
      <4>2. Meant(a) = Memory[a] BY <3>4 DEF Meant, Memory
      <4> QED BY <2>3, <3>2, <4>1, <4>2 DEF ImageGoal
    <3> QED BY <3>3, <3>4
  <2>5. Works(mapping', "populate", WindowGoal, Whole)
    BY <1>3, <2>1, <2>3, <2>4, StartWorks
  <2>6. held' = {} BY <1>1, <2>1 DEF PagingInv
  <2> QED BY <1>1, <1>2, <2>1, <2>5, <2>6 DEF PagingInv
<1>9. ASSUME KmapSetup PROVE PagingInv'
  <2>1. /\ phase = "window" /\ mapping.stack = <<>> /\ phase' = "ready"
        /\ mapping' = [mapping EXCEPT !.flags = "map", !.pool = FALSE]
    BY <1>9 DEF KmapSetup, Finished
  <2>2. Works(mapping, "populate", WindowGoal, Whole) BY <2>1 DEF PagingInv
  <2>3. /\ Tree(mapping.tables)
        /\ \A a \in Addr : Translate(mapping.tables, a) = Whole[a]
        /\ \A a \in WindowGoal.begin .. WindowGoal.last : Walk(mapping.tables, a, 1) # NoTable
    <3> DEFINE f == "populate"
    <3>1. f = "populate" /\ f # "map" OBVIOUS
    <3>2. Works(mapping, f, WindowGoal, Whole) BY <2>2
    <3> HIDE DEF f
    <3>3. /\ Tree(mapping.tables)
          /\ \A a \in Addr : Translate(mapping.tables, a) =
               IF f = "map" /\ a \in WindowGoal.begin .. WindowGoal.last
               THEN WindowGoal.phys + (a - WindowGoal.begin) ELSE Whole[a]
          /\ f = "populate" => \A a \in WindowGoal.begin .. WindowGoal.last :
                                 Walk(mapping.tables, a, 1) # NoTable
      BY <1>3, <2>1, <3>2, Over
    <3> QED BY <3>1, <3>3
  <2>4. /\ mapping' \in Maps /\ mapping'.tables = mapping.tables /\ mapping'.stack = <<>>
        /\ mapping'.flags = "map" /\ ~mapping'.fault
    BY <2>1, <2>2 DEF Works, Maps
  <2>5. Idle(mapping') BY <2>3, <2>4 DEF Idle
  <2>6. held' = {} BY <1>1, <2>1 DEF PagingInv
  <2>7. \A p \in Page : KMAP_BEGIN + p \in WindowGoal.begin .. WindowGoal.last
                        /\ KMAP_BEGIN + p \in Addr
    BY <1>4 DEF Page, WindowGoal, Addr
  <2>8. WindowHasTables' BY <2>3, <2>4, <2>7 DEF WindowHasTables
  <2>9. \A a \in Addr : Phys(a)' = Meant(a)' BY <1>2, <2>3, <2>4 DEF Phys, Whole
  <2>10. OutsideIsRight' BY <2>9 DEF OutsideIsRight
  <2>11. WindowIsRuns'
    <3>1. \A p \in Page : Phys(KMAP_BEGIN + p)' = UNMAPPED
      BY <1>3, <2>3, <2>4, <2>7 DEF Phys
    <3> QED BY <2>6, <3>1 DEF WindowIsRuns
  <2> QED BY <1>1, <2>1, <2>5, <2>6, <2>8, <2>10, <2>11 DEF PagingInv
<1> QED BY <1>5, <1>6, <1>7, <1>8, <1>9 DEF Setup

LEMMA PagingInit ==
  ASSUME PInit
  PROVE  PagingInv
<1>1. KInv BY KInit DEF PInit
<1>2. held = {} BY DEF PInit, Init
<1>3. ~mapping.fault BY DEF PInit, Start
<1> QED BY <1>1, <1>2, <1>3 DEF PInit, PagingInv

LEMMA PNextKeeps ==
  ASSUME PagingInv, [PNext]_allVars
  PROVE  PagingInv'
<1>1. KInv' BY PStepIsKStep, KNextKeeps DEF PagingInv
<1>2. CASE Setup BY <1>1, <1>2, SetupKeeps
<1>3. ASSUME NEW n \in Counts, PKmap(n) PROVE PagingInv' BY <1>1, <1>3, PKmapKeeps
<1>4. ASSUME NEW run \in held, PKunmap(run) PROVE PagingInv' BY <1>1, <1>4, PKunmapKeeps
<1>5. CASE UNCHANGED allVars
  <2>1. held' = held /\ limit' = limit /\ phase' = phase /\ mapping' = mapping
    BY <1>5 DEF allVars, vars, pagingVars
  <2>2. /\ MemoryGoal' = MemoryGoal /\ ImageGoal' = ImageGoal /\ WindowGoal' = WindowGoal
        /\ Nothing' = Nothing /\ Memory' = Memory /\ Whole' = Whole
        /\ \A a : Meant(a)' = Meant(a)
    BY <2>1, GoalsStay
  <2>3. WindowHasTables' = WindowHasTables BY <2>1 DEF WindowHasTables
  <2>4. OutsideIsRight' = OutsideIsRight BY <2>1, <2>2 DEF OutsideIsRight, Phys
  <2>5. WindowIsRuns' = WindowIsRuns BY <2>1 DEF WindowIsRuns, Phys, Covers, PageOf
  <2> QED BY <1>1, <2>1, <2>2, <2>3, <2>4, <2>5 DEF PagingInv
<1> QED BY <1>2, <1>3, <1>4, <1>5 DEF PNext

THEOREM PagingInvariance == PSpec => []PagingInv
<1>1. PInit => PagingInv BY PagingInit
<1>2. PagingInv /\ [PNext]_allVars => PagingInv' BY PNextKeeps
<1> QED BY <1>1, <1>2, PTL DEF PSpec

\* paging.c:98-124, 270-289, 338-346 - whatever the layout and the amount of
\* memory, no BUG_ON of the page tables fires, no large page is taken for a
\* table, and kmap and kunmap find a table for every page of the window.
THEOREM PagingNeverFaults == PSpec => []NothingFaults
<1>1. PagingInv => NothingFaults
  <2>1. PagingInv => ~mapping.fault BY DEF PagingInv, Works, Idle
  <2> QED BY <2>1 DEF PagingInv, KInv, NothingFaults
<1> QED BY <1>1, PagingInvariance, PTL

\* paging.c:79-131, 191-213 - the tables paging_setup builds map the memory and
\* the kernel image where they belong and nothing else, and stay like that.
THEOREM MemoryIsMapped == PSpec => []MapsMemory
<1>1. PagingInv => MapsMemory
  <2> SUFFICES ASSUME PagingInv, phase \in {"window", "ready"}, NEW a \in 0 .. Top - 1,
                      a \notin KMAP_BEGIN .. VIRTUAL_BASE - 1
               PROVE  Phys(a) = Meant(a)
    BY DEF MapsMemory
  <2>1. a \in Addr BY DEF Addr
  <2>2. CASE phase = "window"
    <3>1. Works(mapping, "populate", WindowGoal, Whole) BY <2>2 DEF PagingInv
    <3>2. Translate(mapping.tables, a) = Whole[a] BY <2>1, <3>1 DEF Works, Filled
    <3> QED BY <2>1, <3>2 DEF Whole, Phys
  <2>3. CASE phase = "ready" BY <2>1, <2>3 DEF PagingInv, OutsideIsRight
  <2> QED BY <2>2, <2>3
<1> QED BY <1>1, PagingInvariance, PTL

\* paging.c:338-346, 359-379 - every page of a run that is held leads to the
\* client's page, and no other page of the window leads anywhere.
THEOREM RunsAreMapped == PSpec => []WindowIsRuns
<1>1. PagingInv => WindowIsRuns BY DEF PagingInv, WindowIsRuns
<1> QED BY <1>1, PagingInvariance, PTL

=============================================================================
