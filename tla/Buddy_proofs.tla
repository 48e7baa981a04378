----------------------------- MODULE Buddy_proofs -----------------------------
(***************************************************************************)
(* Proofs about Buddy, for every memory map, every list of free ranges,    *)
(* every largest order and page size, and any number of calls.             *)
(***************************************************************************)
EXTENDS Buddy, TLAPS, WellFoundedInduction, SequenceTheorems

-----------------------------------------------------------------------------
(* The inductive invariant                                                 *)

Apart(b, c) == b.page + Shl[b.order] =< c.page \/ c.page + Shl[c.order] =< b.page

\* Blocks are aligned, lie in one zone and never reach into each other.
Shaped ==
  /\ \A b \in Blocks : /\ b \in Block /\ b.page > 0 /\ Aligned(b.page, b.order)
                       /\ Pages(b) \subseteq InZone(ZoneOf(b.page))
  /\ FreeBlocks \cap held = {} /\ Hand \cap (FreeBlocks \cup held) = {}
  /\ \A b, c \in Blocks : b = c \/ Apart(b, c)

\* Every page given is in a block, or still to be carved.
Covering ==
  \A p \in Given : p \in todo <=> ~\E b \in Blocks : p \in Pages(b)

InGiven == \A b \in Blocks : Pages(b) \subseteq Given

\* No page is linked twice or in a foreign zone.
LinkedOnce ==
  \A z \in Zone, k \in Order :
    /\ \A i \in DOMAIN lists[z][k] : lists[z][k][i] \in InZone(z)
    /\ \A i, j \in DOMAIN lists[z][k] : lists[z][k][i] = lists[z][k][j] => i = j

\* A mark says that the page is linked, or is stale: the page has become part
\* of a larger block.
Marked ==
  /\ \A b \in FreeBlocks : flags[b.page] = [free |-> TRUE, order |-> b.order]
  /\ \A p \in Page : flags[p].free =>
       /\ Aligned(p, flags[p].order)
       /\ \/ [page |-> p, order |-> flags[p].order] \in FreeBlocks
          \/ \E c \in Blocks : p \in Pages(c) /\ flags[p].order < c.order

\* No two buddies are free.
Coalesced ==
  \A b, c \in FreeBlocks :
    b.order < MaxOrder /\ c.order = b.order /\ c.page \in InZone(ZoneOf(b.page))
      => c.page # Xor(b.page, b.order)

AtWork ==
  work.doing = "split" => work.want =< work.order /\ ~flags[work.page].free

\* As long as the setup is at work: it carves from the bottom up, and every
\* block is as large as its range allows.
Carving ==
  todo # {} =>
    /\ held = {} /\ work = NoWork
    /\ \A p \in Given, q \in todo : q =< p => p \in todo
    /\ \A b \in FreeBlocks :
         LET range == FreeRanges[RangeOf(b.page)]
         IN  /\ Pages(b) \subseteq FreedIn(range)
             /\ \/ b.order = MaxOrder \/ ~Aligned(b.page, b.order + 1)
                \/ b.page + Shl[b.order + 1] > LAST(range)

BInv ==
  /\ TypeOK /\ ~fault
  /\ Shaped /\ Covering /\ InGiven /\ LinkedOnce /\ Marked /\ Coalesced /\ AtWork /\ Carving

-----------------------------------------------------------------------------
(* The sizes of blocks                                                     *)

LEMMA Least ==
  ASSUME NEW T \in SUBSET Nat, T # {}
  PROVE  \E n \in T : \A m \in T : n =< m
<1>1. IsWellFoundedOn(OpToRel(<, Nat), Nat)
  BY NatLessThanWellFounded
<1>2. PICK x \in T : \A y \in T : ~(<<y, x>> \in OpToRel(<, Nat))
  BY <1>1, WFMin
<1>3. ASSUME NEW y \in T PROVE x =< y
  <2>1. ~(y < x) BY <1>2 DEF OpToRel
  <2> QED BY <2>1
<1> QED BY <1>3

\* f is Shl up to n.
Doubles(f, n) ==
  /\ f \in [0 .. n -> Nat]
  /\ f[0] = 1 /\ \A k \in 0 .. n - 1 : f[k + 1] = 2 * f[k]

LEMMA DoublesExists == \A n \in Nat : \E f : Doubles(f, n)
<1> DEFINE T == {n \in Nat : ~\E f : Doubles(f, n)}
<1>1. SUFFICES ASSUME T # {} PROVE FALSE
  OBVIOUS
<1>2. PICK n \in T : \A m \in T : n =< m BY <1>1, Least
<1>3. CASE n = 0
  <2> DEFINE f == [k \in 0 .. 0 |-> 1]
  <2>1. Doubles(f, 0) BY DEF Doubles
  <2> QED BY <2>1, <1>2, <1>3
<1>4. CASE n # 0
  <2>1. n - 1 \in Nat /\ n - 1 \notin T BY <1>2, <1>4
  <2>2. PICK g : Doubles(g, n - 1) BY <2>1
  <2> DEFINE f == [k \in 0 .. n |-> IF k = n THEN 2 * g[n - 1] ELSE g[k]]
  <2>3. \A k \in 0 .. n - 1 : g[k] \in Nat BY <2>2 DEF Doubles
  <2>4. f \in [0 .. n -> Nat]
    <3>1. 2 * g[n - 1] \in Nat BY <2>1, <2>3
    <3> QED BY <3>1, <2>3, <2>1
  <2>5. f[0] = 1 BY <1>4, <2>1, <2>2 DEF Doubles
  <2>6. ASSUME NEW k \in 0 .. n - 1 PROVE f[k + 1] = 2 * f[k]
    <3>1. CASE k = n - 1 BY <3>1, <2>1
    <3>2. CASE k # n - 1
      <4>1. k \in 0 .. (n - 1) - 1 BY <3>2, <2>1
      <4>2. g[k + 1] = 2 * g[k] BY <4>1, <2>2 DEF Doubles
      <4> QED BY <4>1, <4>2, <2>1
    <3> QED BY <3>1, <3>2
  <2>7. Doubles(f, n) BY <2>4, <2>5, <2>6 DEF Doubles
  <2> QED BY <2>7, <1>2
<1> QED BY <1>3, <1>4

LEMMA DoublesAgree ==
  ASSUME NEW m \in Nat, NEW n \in Nat, NEW f, NEW g, Doubles(f, m), Doubles(g, n),
         NEW k \in Nat, k =< m, k =< n
  PROVE  f[k] = g[k]
<1> DEFINE T == {j \in 0 .. k : f[j] # g[j]}
<1>1. SUFFICES ASSUME T # {} PROVE FALSE
  OBVIOUS
<1>2. T \in SUBSET Nat OBVIOUS
<1>3. PICK j \in T : \A i \in T : j =< i BY <1>1, <1>2, Least
<1>4. j # 0 BY <1>3 DEF Doubles
<1>5. j - 1 \in 0 .. m - 1 /\ j - 1 \in 0 .. n - 1 /\ j - 1 \in 0 .. k BY <1>3, <1>4
<1>6. f[j - 1] = g[j - 1] BY <1>3, <1>5
<1>7. f[j - 1 + 1] = 2 * f[j - 1] /\ g[j - 1 + 1] = 2 * g[j - 1] BY <1>5 DEF Doubles
<1>8. j - 1 + 1 = j BY <1>3
<1> QED BY <1>3, <1>6, <1>7, <1>8

\* The recursive definition has a solution.
LEMMA ShlIs ==
  /\ Shl \in [Nat -> Nat]
  /\ Shl[0] = 1 /\ \A k \in Nat : Shl[k + 1] = 2 * Shl[k]
<1> DEFINE D(n) == CHOOSE f : Doubles(f, n)
           F    == [n \in Nat |-> D(n)[n]]
           R(f) == [n \in Nat |-> IF n = 0 THEN 1 ELSE 2 * f[n - 1]]
<1>1. \A n \in Nat : Doubles(D(n), n) BY DoublesExists
<1>2. F \in [Nat -> Nat]
  <2>1. SUFFICES ASSUME NEW n \in Nat PROVE D(n)[n] \in Nat
    OBVIOUS
  <2>2. Doubles(D(n), n) BY <1>1
  <2> HIDE DEF D
  <2> QED BY <2>2 DEF Doubles
<1>3. F[0] = 1 BY <1>1 DEF Doubles
<1>4. ASSUME NEW k \in Nat PROVE F[k + 1] = 2 * F[k]
  <2>1. Doubles(D(k), k) /\ Doubles(D(k + 1), k + 1)
    <3>1. k \in Nat /\ k + 1 \in Nat OBVIOUS
    <3> HIDE DEF D
    <3> QED BY <1>1, <3>1
  <2>2. D(k + 1)[k + 1] = 2 * D(k + 1)[k]
    <3>1. k \in 0 .. (k + 1) - 1 OBVIOUS
    <3> HIDE DEF D
    <3> QED BY <2>1, <3>1 DEF Doubles
  <2>3. D(k + 1)[k] = D(k)[k]
    <3> HIDE DEF D
    <3> QED BY <2>1, DoublesAgree
  <2> QED BY <2>2, <2>3
<1> HIDE DEF F
<1>5. F = R(F)
  <2>1. \A n \in Nat : F[n] = IF n = 0 THEN 1 ELSE 2 * F[n - 1]
    <3>1. SUFFICES ASSUME NEW n \in Nat, n # 0 PROVE F[n] = 2 * F[n - 1]
      BY <1>3
    <3>2. n - 1 \in Nat /\ (n - 1) + 1 = n BY <3>1
    <3>3. F[(n - 1) + 1] = 2 * F[n - 1] BY <3>2, <1>4
    <3> QED BY <3>2, <3>3
  <2> QED BY <2>1, <1>2
<1>6. Shl = CHOOSE f : f = R(f) BY DEF Shl
<1>7. Shl = R(Shl) BY <1>5, <1>6
<1>8. \A n \in Nat : Shl[n] = IF n = 0 THEN 1 ELSE 2 * Shl[n - 1] BY <1>7
<1>9. \A k \in Nat : Shl[k] = F[k]
  <2> DEFINE T == {k \in Nat : Shl[k] # F[k]}
  <2>1. SUFFICES ASSUME T # {} PROVE FALSE
    OBVIOUS
  <2>2. PICK j \in T : \A i \in T : j =< i BY <2>1, Least
  <2>3. j # 0 BY <2>2, <1>3, <1>8
  <2>4. j - 1 \in Nat /\ j - 1 \notin T /\ (j - 1) + 1 = j BY <2>2, <2>3
  <2>5. F[j] = 2 * F[j - 1] BY <2>4, <1>4
  <2> QED BY <2>2, <2>3, <2>4, <2>5, <1>8
<1>10. Shl = F BY <1>7, <1>9, <1>2
<1> QED BY <1>10, <1>2, <1>3, <1>4

LEMMA ShlPos == \A k \in Nat : Shl[k] \in Nat \ {0}
<1> DEFINE T == {k \in Nat : Shl[k] = 0}
<1>1. SUFFICES ASSUME T # {} PROVE FALSE
  BY ShlIs
<1>2. PICK j \in T : \A i \in T : j =< i BY <1>1, Least
<1>3. j # 0 BY <1>2, ShlIs
<1>4. j - 1 \in Nat /\ j - 1 \notin T /\ (j - 1) + 1 = j BY <1>2, <1>3
<1>5. Shl[(j - 1) + 1] = 2 * Shl[j - 1] /\ Shl[j - 1] \in Nat BY <1>4, ShlIs
<1> QED BY <1>2, <1>4, <1>5

\* The larger size is a multiple of the smaller.
LEMMA ShlDivides ==
  ASSUME NEW j \in Nat, NEW k \in Nat, j =< k
  PROVE  \E d \in Nat \ {0} : Shl[k] = d * Shl[j]
<1> DEFINE T == {n \in Nat : j =< n /\ ~\E d \in Nat \ {0} : Shl[n] = d * Shl[j]}
<1>1. SUFFICES ASSUME T # {} PROVE FALSE
  OBVIOUS
<1>2. PICK n \in T : \A m \in T : n =< m BY <1>1, Least
<1>3. n # j
  <2>1. Shl[j] = 1 * Shl[j] BY ShlPos
  <2> QED BY <2>1, <1>2
<1>4. n - 1 \in Nat /\ n - 1 \notin T /\ (n - 1) + 1 = n /\ j =< n - 1 BY <1>2, <1>3
<1>5. PICK d \in Nat \ {0} : Shl[n - 1] = d * Shl[j] BY <1>4
<1>6. Shl[n] = 2 * Shl[n - 1] BY <1>4, ShlIs
<1>7. Shl[n] = (2 * d) * Shl[j] BY <1>5, <1>6, ShlPos
<1>8. 2 * d \in Nat \ {0} OBVIOUS
<1> QED BY <1>2, <1>7, <1>8

LEMMA ShlGrows ==
  ASSUME NEW j \in Nat, NEW k \in Nat, j < k
  PROVE  2 * Shl[j] =< Shl[k]
<1>1. PICK d \in Nat \ {0} : Shl[k] = d * Shl[j + 1] BY ShlDivides
<1>2. Shl[j + 1] = 2 * Shl[j] /\ Shl[j] \in Nat BY ShlIs
<1> DEFINE s == Shl[j + 1]
<1>3. s \in Nat BY <1>2
<1>4. d - 1 \in Nat /\ (d - 1) * s \in Nat BY <1>3
<1>5. d * s = (d - 1) * s + s BY <1>3
<1> QED BY <1>1, <1>2, <1>4, <1>5

-----------------------------------------------------------------------------
(* Multiples                                                               *)

LEMMA MulGrows ==
  ASSUME NEW s \in Nat \ {0}, NEW a \in Int, NEW c \in Int, a < c
  PROVE  a * s + s =< c * s
<1> DEFINE d == c - a - 1
<1>1. d \in Nat OBVIOUS
<1>2. d * s \in Nat BY <1>1
<1>3. c = a + 1 + d OBVIOUS
<1> HIDE DEF d
<1>4. c * s = a * s + s + d * s BY <1>1, <1>3
<1>5. a * s \in Int OBVIOUS
<1> QED BY <1>2, <1>4, <1>5

LEMMA DivMod ==
  ASSUME NEW n \in Nat \ {0}, NEW p \in Nat
  PROVE  /\ p \div n \in Nat /\ p % n \in 0 .. n - 1 /\ p = (p \div n) * n + (p % n)
OBVIOUS

LEMMA Rem ==
  ASSUME NEW n \in Nat \ {0}, NEW h \in Nat, NEW r \in 0 .. n - 1
  PROVE  (h * n + r) % n = r
<1> DEFINE p == h * n + r
<1>1. p \in Nat OBVIOUS
<1>2. p = (p \div n) * n + (p % n) /\ p % n \in 0 .. n - 1 /\ p \div n \in Nat
  BY <1>1, DivMod
<1>3. ~(p \div n < h) BY <1>2, MulGrows
<1>4. ~(p \div n > h) BY <1>2, MulGrows
<1> QED BY <1>2, <1>3, <1>4

LEMMA AlignedIs ==
  ASSUME NEW p \in Nat, NEW k \in Nat
  PROVE  Aligned(p, k) <=> \E a \in Nat : p = a * Shl[k]
<1> DEFINE s == Shl[k]
<1>1. s \in Nat \ {0} BY ShlPos
<1> HIDE DEF s
<1>2. p % s = 0 => \E a \in Nat : p = a * s
  <2>1. p \div s \in Nat /\ p = (p \div s) * s + (p % s) BY <1>1, DivMod
  <2>2. (p \div s) * s \in Nat BY <2>1, <1>1
  <2> QED BY <2>1, <2>2
<1>3. ASSUME NEW a \in Nat, p = a * s PROVE p % s = 0
  <2>1. a * s \in Nat /\ a * s + 0 = a * s BY <1>1
  <2>2. 0 \in 0 .. s - 1 BY <1>1
  <2> QED BY <2>1, <2>2, <1>1, <1>3, Rem
<1> QED BY <1>2, <1>3 DEF Aligned, s

LEMMA AlignedLess ==
  ASSUME NEW p \in Nat, NEW j \in Nat, NEW k \in Nat, j =< k, Aligned(p, k)
  PROVE  Aligned(p, j)
<1>1. PICK a \in Nat : p = a * Shl[k] BY AlignedIs
<1>2. PICK d \in Nat \ {0} : Shl[k] = d * Shl[j] BY ShlDivides
<1>3. Shl[j] \in Nat BY ShlPos
<1>4. a * d \in Nat /\ a * (d * Shl[j]) = (a * d) * Shl[j] BY <1>3
<1> QED BY <1>1, <1>2, <1>4, AlignedIs

\* Of two aligned blocks the smaller lies in the larger, or beside it.
LEMMA Nested ==
  ASSUME NEW p \in Nat, NEW q \in Nat, NEW j \in Nat, NEW k \in Nat, j =< k,
         Aligned(p, j), Aligned(q, k)
  PROVE  \/ p + Shl[j] =< q
         \/ q + Shl[k] =< p
         \/ q =< p /\ p + Shl[j] =< q + Shl[k]
<1>1. PICK a \in Nat : p = a * Shl[j] BY AlignedIs
<1>2. PICK b \in Nat : q = b * Shl[k] BY AlignedIs
<1>3. PICK d \in Nat \ {0} : Shl[k] = d * Shl[j] BY ShlDivides
<1> DEFINE s == Shl[j]
           e == b * d
<1>4. s \in Nat \ {0} BY ShlPos
<1>5. e \in Nat OBVIOUS
<1>6. b * (d * s) = (b * d) * s /\ (b * d) * s + d * s = (b * d + d) * s BY <1>4
<1>7. q = e * s /\ q + Shl[k] = (e + d) * s BY <1>2, <1>3, <1>6
<1> HIDE DEF s, e
<1>8. a * s \in Nat /\ e * s \in Nat /\ (e + d) * s \in Nat BY <1>4, <1>5
<1>9. p = a * s BY <1>1 DEF s
<1>10. CASE a < e
  <2>1. a * s + s =< e * s BY <1>4, <1>5, <1>10, MulGrows
  <2> QED BY <2>1, <1>7, <1>9 DEF s
<1>11. CASE a >= e + d
  <2>1. (e + d) * s =< a * s
    <3>1. CASE a = e + d BY <3>1, <1>8
    <3>2. CASE a > e + d
      <4>1. e + d \in Int /\ e + d < a BY <3>2, <1>5
      <4>2. (e + d) * s + s =< a * s BY <4>1, <1>4, MulGrows
      <4> QED BY <4>2, <1>4, <1>8
    <3> QED BY <3>1, <3>2, <1>11, <1>5
  <2> QED BY <2>1, <1>7, <1>9
<1>12. CASE e =< a /\ a < e + d
  <2>1. e * s =< a * s
    <3>1. CASE a = e BY <3>1, <1>8
    <3>2. CASE e < a
      <4>1. e * s + s =< a * s BY <3>2, <1>4, <1>5, MulGrows
      <4> QED BY <4>1, <1>4, <1>8
    <3> QED BY <3>1, <3>2, <1>12, <1>5
  <2>2. a * s + s =< (e + d) * s
    <3>1. e + d \in Int BY <1>5
    <3> QED BY <3>1, <1>4, <1>12, MulGrows
  <2> QED BY <2>1, <2>2, <1>7, <1>9 DEF s
<1> QED BY <1>10, <1>11, <1>12, <1>5

\* The buddy is the other half of the block of the next order.
LEMMA XorIs ==
  ASSUME NEW p \in Nat, NEW k \in Nat, Aligned(p, k)
  PROVE  /\ Xor(p, k) \in Nat /\ Aligned(Xor(p, k), k) /\ Xor(Xor(p, k), k) = p
         /\ \/ Aligned(p, k + 1) /\ Xor(p, k) = p + Shl[k]
            \/ ~Aligned(p, k + 1) /\ Xor(p, k) = p - Shl[k] /\ Aligned(Xor(p, k), k + 1)
<1> DEFINE s == Shl[k]
           t == Shl[k + 1]
           x == Xor(p, k)
<1>1. s \in Nat \ {0} /\ t \in Nat \ {0} /\ t = 2 * s BY ShlPos, ShlIs
<1>2. PICK a \in Nat : p = a * s BY AlignedIs
<1>3. \E b \in Nat : a = 2 * b \/ a = 2 * b + 1
  <2>1. a \div 2 \in Nat /\ a % 2 \in 0 .. 1 /\ a = 2 * (a \div 2) + (a % 2) OBVIOUS
  <2> QED BY <2>1
<1>4. PICK b \in Nat : a = 2 * b \/ a = 2 * b + 1 BY <1>3
<1>5. b * t \in Nat /\ b * t = (2 * b) * s /\ (2 * b) * s + s = (2 * b + 1) * s BY <1>1
<1>6. 0 \in 0 .. t - 1 /\ s \in 0 .. t - 1 BY <1>1
<1>7. (b * t + 0) % t = 0 /\ (b * t + s) % t = s BY <1>1, <1>6, Rem
<1>8. Aligned(b * t, k + 1) BY <1>5, <1>7 DEF Aligned
<1>9. Xor(b * t, k) = b * t + s BY <1>5, <1>7, <1>1 DEF Xor
<1>10. Xor(b * t + s, k) = b * t BY <1>5, <1>7, <1>1 DEF Xor
<1>11. ~Aligned(b * t + s, k + 1) BY <1>5, <1>7, <1>1 DEF Aligned
<1>12. Aligned(b * t, k) BY <1>5, AlignedIs
<1>13. Aligned(b * t + s, k)
  <2>1. b * t + s = (2 * b + 1) * s /\ 2 * b + 1 \in Nat /\ b * t + s \in Nat BY <1>5, <1>1
  <2> QED BY <2>1, AlignedIs
<1>14. CASE a = 2 * b
  <2>1. p = b * t BY <1>14, <1>2, <1>5
  <2> QED BY <2>1, <1>8, <1>9, <1>10, <1>13, <1>5, <1>1
<1>15. CASE a = 2 * b + 1
  <2>1. p = b * t + s BY <1>15, <1>2, <1>5
  <2> QED BY <2>1, <1>8, <1>9, <1>10, <1>11, <1>12, <1>5, <1>1
<1> QED BY <1>4, <1>14, <1>15

-----------------------------------------------------------------------------
(* Zones and free ranges                                                   *)

\* Rounding down and rounding up.
LEMMA Rounding ==
  ASSUME NEW n \in Nat \ {0}, NEW e \in Nat, NEW b \in Nat
  PROVE  /\ e \div n \in Nat /\ (b + n - 1) \div n \in Nat
         /\ e =< b => /\ e \div n =< (b + n - 1) \div n
                      /\ e \div n =< b \div n
                      /\ (e + n - 1) \div n =< (b + n - 1) \div n
         /\ e < b => e \div n < (b + n - 1) \div n
         /\ b > 0 => (b + n - 1) \div n > 0
<1> DEFINE c == b + n - 1
           d == e + n - 1
           g == e \div n
           h == c \div n
           i == b \div n
           j == d \div n
<1>1. c \in Nat /\ d \in Nat OBVIOUS
<1>2. /\ g \in Nat /\ e % n \in 0 .. n - 1 /\ e = g * n + (e % n)
      /\ i \in Nat /\ b % n \in 0 .. n - 1 /\ b = i * n + (b % n)
  BY DivMod
<1>3. /\ h \in Nat /\ c % n \in 0 .. n - 1 /\ c = h * n + (c % n)
      /\ j \in Nat /\ d % n \in 0 .. n - 1 /\ d = j * n + (d % n)
  BY <1>1, DivMod
<1>4. g * n \in Nat /\ h * n \in Nat /\ i * n \in Nat /\ j * n \in Nat
  BY <1>2, <1>3
<1>5. g * n =< e /\ b =< h * n /\ e =< j * n /\ i * n =< b
  BY <1>2, <1>3, <1>4
<1>6. /\ e < i * n + n /\ b < i * n + n
      /\ d < j * n + n /\ c < h * n + n
      \/ e > b
  BY <1>2, <1>3, <1>4
<1>7. /\ h < g => h * n + n =< g * n
      /\ i < g => i * n + n =< g * n
      /\ h < j => h * n + n =< j * n
  BY <1>2, <1>3, MulGrows
<1>8. ASSUME e =< b PROVE g =< h /\ g =< i /\ j =< h
  <2>1. ~(h < g) BY <1>8, <1>7, <1>5, <1>4
  <2>2. ~(i < g) BY <1>8, <1>7, <1>5, <1>4, <1>6
  <2>3. ~(h < j)
    <3>1. j * n =< d /\ d =< c BY <1>8, <1>3, <1>4
    <3> QED BY <3>1, <1>8, <1>7, <1>4, <1>6, <1>1
  <2> HIDE DEF g, h, i, j
  <2> QED BY <2>1, <2>2, <2>3, <1>2, <1>3
<1>9. ASSUME e < b PROVE g < h
  <2>1. g # h BY <1>9, <1>5, <1>4
  <2> HIDE DEF g, h
  <2> QED BY <2>1, <1>8, <1>9, <1>2, <1>3
<1>10. ASSUME b > 0 PROVE h > 0
  <2>1. h # 0 BY <1>10, <1>5, <1>4
  <2> HIDE DEF h
  <2> QED BY <2>1, <1>3
<1> QED BY <1>2, <1>3, <1>8, <1>9, <1>10

LEMMA RangeTypes ==
  /\ \A z \in DOMAIN MemoryMap :
       /\ z \in Nat /\ MemoryMap[z] \in AddressRange
       /\ FIRST(MemoryMap[z]) \in Nat /\ LAST(MemoryMap[z]) \in Nat
  /\ \A i \in DOMAIN FreeRanges :
       /\ i \in Nat /\ FreeRanges[i] \in AddressRange
       /\ FIRST(FreeRanges[i]) \in Nat /\ LAST(FreeRanges[i]) \in Nat
       /\ FreedFirst(FreeRanges[i]) \in Nat \ {0}
       /\ FIRST(FreeRanges[i]) =< FreedFirst(FreeRanges[i])
<1>1. PageSize \in Nat \ {0} /\ MemoryMap \in Seq(AddressRange)
      /\ FreeRanges \in Seq(AddressRange)
  BY BuddyAssumption
<1>2. \A r \in AddressRange :
        /\ FIRST(r) \in Nat /\ LAST(r) \in Nat
        /\ FreedFirst(r) \in Nat \ {0} /\ FIRST(r) =< FreedFirst(r)
  <2> SUFFICES ASSUME NEW r \in AddressRange
               PROVE  /\ FIRST(r) \in Nat /\ LAST(r) \in Nat
                      /\ FreedFirst(r) \in Nat \ {0} /\ FIRST(r) =< FreedFirst(r)
    OBVIOUS
  <2>1. r.begin \in Nat /\ r.end \in Nat BY DEF AddressRange
  <2>2. FIRST(r) \in Nat /\ LAST(r) \in Nat BY <1>1, <2>1, Rounding DEF FIRST, LAST
  <2>3. r.begin > 0 => FIRST(r) > 0 BY <1>1, <2>1, Rounding DEF FIRST
  <2>4. r.begin = 0 => FIRST(r) =< 1
    <3>1. SUFFICES ASSUME r.begin = 0 PROVE (0 + PageSize - 1) \div PageSize =< 1
      BY DEF FIRST
    <3>2. (0 + PageSize - 1) \div PageSize =< (1 + PageSize - 1) \div PageSize
      <4>1. 0 \in Nat /\ 1 \in Nat /\ 0 =< 1 OBVIOUS
      <4> QED BY <1>1, <4>1, Rounding
    <3>3. (1 + PageSize - 1) \div PageSize = 1 BY <1>1
    <3> QED BY <3>2, <3>3
  <2> QED BY <2>1, <2>2, <2>3, <2>4 DEF FreedFirst
<1> QED BY <1>1, <1>2

\* A page is in one zone, and page_zone finds it.
LEMMA ZoneIs ==
  ASSUME NEW z \in Zone, NEW p \in InZone(z)
  PROVE  p \in Page /\ p \in Nat /\ ZoneOf(p) = z
<1>1. \A y \in Zone : y \in DOMAIN MemoryMap BY DEF Zone
<1>2. p \in Nat BY <1>1, RangeTypes DEF InZone
<1>3. ASSUME NEW y \in Zone, NEW w \in Zone, y < w, p \in InZone(y), p \in InZone(w)
      PROVE  FALSE
  <2>1. MemoryMap[y].end =< MemoryMap[w].begin BY <1>1, <1>3, BuddyAssumption
  <2>2. /\ MemoryMap[y].end \in Nat /\ MemoryMap[w].begin \in Nat
    BY <1>1, RangeTypes DEF AddressRange
  <2>3. LAST(MemoryMap[y]) =< FIRST(MemoryMap[w])
    BY <2>1, <2>2, Rounding, BuddyAssumption DEF LAST, FIRST
  <2> QED BY <2>3, <1>3, <1>1, RangeTypes DEF InZone
<1>4. ASSUME NEW y \in Zone, p \in InZone(y) PROVE y = z
  <2>1. y \in Nat /\ z \in Nat BY <1>1, RangeTypes
  <2>2. ~(y < z) BY <1>3, <1>4
  <2>3. ~(z < y) BY <1>3, <1>4
  <2> QED BY <2>1, <2>2, <2>3
<1>5. ZoneOf(p) = z BY <1>4 DEF ZoneOf
<1> QED BY <1>2, <1>5 DEF Page

LEMMA PageZone ==
  ASSUME NEW p \in Page
  PROVE  p \in Nat /\ ZoneOf(p) \in Zone /\ p \in InZone(ZoneOf(p))
<1>1. PICK z \in Zone : p \in InZone(z) BY DEF Page
<1> QED BY <1>1, ZoneIs

\* What lies between two pages of a zone is in the zone.
LEMMA ZoneConvex ==
  ASSUME NEW z \in Zone, NEW p \in InZone(z), NEW q \in InZone(z), NEW r \in Nat,
         p =< r, r =< q
  PROVE  r \in InZone(z)
<1>1. z \in DOMAIN MemoryMap BY DEF Zone
<1> QED BY <1>1, RangeTypes DEF InZone

\* Two free ranges do not touch.
LEMMA RangesApart ==
  ASSUME NEW i \in DOMAIN FreeRanges, NEW j \in DOMAIN FreeRanges, i < j
  PROVE  LAST(FreeRanges[i]) < FIRST(FreeRanges[j])
<1>1. FreeRanges[i].end < FreeRanges[j].begin BY BuddyAssumption
<1>2. FreeRanges[i].end \in Nat /\ FreeRanges[j].begin \in Nat
  BY RangeTypes DEF AddressRange
<1> QED BY <1>1, <1>2, Rounding, BuddyAssumption DEF LAST, FIRST

\* A given page is in one free range, not the first page of memory.
LEMMA RangeIs ==
  ASSUME NEW i \in DOMAIN FreeRanges, NEW p \in FreedIn(FreeRanges[i])
  PROVE  p \in Nat /\ p > 0 /\ RangeOf(p) = i
<1>1. p \in Nat /\ p > 0 /\ FIRST(FreeRanges[i]) =< p /\ p < LAST(FreeRanges[i])
  BY RangeTypes DEF FreedIn
<1>2. ASSUME NEW j \in DOMAIN FreeRanges, p \in FreedIn(FreeRanges[j]) PROVE j = i
  <2>1. FIRST(FreeRanges[j]) =< p /\ p < LAST(FreeRanges[j])
    BY <1>2, RangeTypes DEF FreedIn
  <2>2. ~(i < j) BY RangesApart, <1>1, <2>1, RangeTypes
  <2>3. ~(j < i) BY RangesApart, <1>1, <2>1, RangeTypes
  <2> QED BY <2>2, <2>3, RangeTypes
<1>3. RangeOf(p) = i BY <1>2 DEF RangeOf
<1> QED BY <1>1, <1>3

LEMMA GivenRange ==
  ASSUME NEW p \in Given
  PROVE  RangeOf(p) \in DOMAIN FreeRanges /\ p \in FreedIn(FreeRanges[RangeOf(p)])
<1>1. PICK i \in DOMAIN FreeRanges : p \in FreedIn(FreeRanges[i]) BY DEF Given
<1> QED BY <1>1, RangeIs

\* A free range lies in one zone.
LEMMA RangeInZone ==
  ASSUME NEW i \in DOMAIN FreeRanges, NEW p \in FreedIn(FreeRanges[i])
  PROVE  /\ p \in Page
         /\ \A q \in FreedIn(FreeRanges[i]) : q \in InZone(ZoneOf(p))
<1> DEFINE F == FreeRanges[i]
<1>1. PICK j \in DOMAIN MemoryMap :
        MemoryMap[j].begin =< F.begin /\ F.end =< MemoryMap[j].end
  BY BuddyAssumption
<1>2. /\ MemoryMap[j].begin \in Nat /\ MemoryMap[j].end \in Nat
      /\ F.begin \in Nat /\ F.end \in Nat
  BY RangeTypes DEF AddressRange
<1>3. FIRST(MemoryMap[j]) =< FIRST(F) /\ LAST(F) =< LAST(MemoryMap[j])
  BY <1>1, <1>2, Rounding, BuddyAssumption DEF FIRST, LAST
<1>4. \A q \in FreedIn(F) : q \in InZone(j)
  BY <1>3, RangeTypes DEF FreedIn, InZone
<1>5. j \in Zone BY <1>4, RangeTypes DEF InZone, Zone
<1>6. p \in Page /\ ZoneOf(p) = j BY <1>4, <1>5, ZoneIs
<1> QED BY <1>4, <1>6

\* Neighbouring pages that were given are in one range, hence in one zone.
LEMMA NeighboursGiven ==
  ASSUME NEW p \in Given, p + 1 \in Given
  PROVE  RangeOf(p + 1) = RangeOf(p) /\ ZoneOf(p + 1) = ZoneOf(p)
<1> DEFINE i == RangeOf(p)
           j == RangeOf(p + 1)
<1>1. i \in DOMAIN FreeRanges /\ p \in FreedIn(FreeRanges[i]) BY GivenRange
<1>2. j \in DOMAIN FreeRanges /\ p + 1 \in FreedIn(FreeRanges[j]) BY GivenRange
<1> HIDE DEF i, j
<1>3. p \in Nat BY <1>1, RangeIs
<1>4. /\ FIRST(FreeRanges[i]) =< p /\ p < LAST(FreeRanges[i])
      /\ FIRST(FreeRanges[j]) =< p + 1 /\ p + 1 < LAST(FreeRanges[j])
  BY <1>1, <1>2, <1>3, RangeTypes DEF FreedIn
<1>5. ~(i < j) BY <1>1, <1>2, <1>3, <1>4, RangesApart, RangeTypes
<1>6. ~(j < i) BY <1>1, <1>2, <1>3, <1>4, RangesApart, RangeTypes
<1>7. i = j BY <1>1, <1>2, <1>5, <1>6, RangeTypes
<1>8. p \in Page BY <1>1, RangeInZone
<1>9. p + 1 \in InZone(ZoneOf(p)) BY <1>1, <1>2, <1>7, RangeInZone
<1>10. ZoneOf(p + 1) = ZoneOf(p) BY <1>8, <1>9, PageZone, ZoneIs
<1> QED BY <1>7, <1>10 DEF i, j

-----------------------------------------------------------------------------
(* Lists                                                                   *)

LEMMA RemoveAtShape ==
  ASSUME NEW S, NEW s \in Seq(S), NEW i \in 1 .. Len(s)
  PROVE  /\ RemoveAt(s, i) \in Seq(S)
         /\ Len(RemoveAt(s, i)) = Len(s) - 1
         /\ \A j \in 1 .. Len(s) - 1 :
              RemoveAt(s, i)[j] = IF j < i THEN s[j] ELSE s[j + 1]
<1> DEFINE front == SubSeq(s, 1, i - 1)
           back  == SubSeq(s, i + 1, Len(s))
<1>1. /\ front \in Seq(S) /\ Len(front) = i - 1
      /\ \A j \in 1 .. i - 1 : front[j] = s[j]
  OBVIOUS
<1>2. /\ back \in Seq(S) /\ Len(back) = Len(s) - i
      /\ \A j \in 1 .. Len(s) - i : back[j] = s[i + j]
  OBVIOUS
<1>3. RemoveAt(s, i) = front \o back BY DEF RemoveAt
<1> HIDE DEF front, back
<1>4. Len(s) \in Nat OBVIOUS
<1>5. /\ front \o back \in Seq(S)
      /\ Len(front \o back) = Len(s) - 1
      /\ \A j \in 1 .. Len(s) - 1 :
           (front \o back)[j] = IF j < i THEN front[j] ELSE back[j - i + 1]
  <2>1. /\ front \o back \in Seq(S)
        /\ Len(front \o back) = Len(front) + Len(back)
        /\ \A j \in 1 .. Len(front) + Len(back) :
             (front \o back)[j] = IF j =< Len(front) THEN front[j]
                                                     ELSE back[j - Len(front)]
    BY <1>1, <1>2, ConcatProperties
  <2>2. Len(front) = i - 1 /\ Len(back) = Len(s) - i BY <1>1, <1>2
  <2>3. \A j \in 1 .. Len(s) - 1 : j =< i - 1 <=> j < i BY <1>4
  <2>4. \A j \in 1 .. Len(s) - 1 : j - (i - 1) = j - i + 1 BY <1>4
  <2>5. (i - 1) + (Len(s) - i) = Len(s) - 1 BY <1>4
  <2> QED BY <2>1, <2>2, <2>3, <2>4, <2>5
<1>6. ASSUME NEW j \in 1 .. Len(s) - 1
      PROVE  RemoveAt(s, i)[j] = IF j < i THEN s[j] ELSE s[j + 1]
  <2>1. CASE j < i BY <2>1, <1>1, <1>3, <1>5
  <2>2. CASE ~(j < i)
    <3>1. j - i + 1 \in 1 .. Len(s) - i BY <2>2, <1>4
    <3>2. back[j - i + 1] = s[i + (j - i + 1)] BY <3>1, <1>2
    <3> QED BY <2>2, <3>2, <1>3, <1>5
  <2> QED BY <2>1, <2>2
<1> QED BY <1>3, <1>5, <1>6

\* A list as LinkedOnce wants it: pages of its zone, each once.
Sound(s, z) ==
  /\ s \in Seq(Page)
  /\ \A i \in DOMAIN s : s[i] \in InZone(z)
  /\ \A i, j \in DOMAIN s : s[i] = s[j] => i = j

LEMMA SoundCons ==
  ASSUME NEW z, NEW s, Sound(s, z), NEW p \in Page, p \in InZone(z), p \notin ToSet(s)
  PROVE  Sound(<<p>> \o s, z) /\ ToSet(<<p>> \o s) = ToSet(s) \cup {p}
<1> DEFINE t == <<p>> \o s
<1>1. s \in Seq(Page) /\ <<p>> \in Seq(Page) /\ Len(<<p>>) = 1 /\ <<p>>[1] = p
  BY DEF Sound
<1>2. /\ t \in Seq(Page) /\ Len(t) = 1 + Len(s)
      /\ \A i \in 1 .. 1 + Len(s) : t[i] = IF i =< 1 THEN <<p>>[i] ELSE s[i - 1]
  BY <1>1, ConcatProperties
<1> HIDE DEF t
<1>3. DOMAIN t = 1 .. 1 + Len(s) /\ DOMAIN s = 1 .. Len(s) /\ Len(s) \in Nat
  BY <1>1, <1>2
<1>4. t[1] = p /\ 1 \in DOMAIN t BY <1>1, <1>2, <1>3
<1>5. \A i \in DOMAIN t : i # 1 => i - 1 \in DOMAIN s /\ t[i] = s[i - 1]
  BY <1>2, <1>3
<1>6. \A i \in DOMAIN s : i + 1 \in DOMAIN t /\ i + 1 # 1 /\ (i + 1) - 1 = i BY <1>3
<1>7. \A i \in DOMAIN s : t[i + 1] = s[i] BY <1>5, <1>6
<1>8. ToSet(t) = ToSet(s) \cup {p}
  <2>1. ASSUME NEW x \in ToSet(t) PROVE x \in ToSet(s) \cup {p}
    <3>1. PICK i \in DOMAIN t : x = t[i] BY DEF ToSet
    <3> QED BY <3>1, <1>4, <1>5 DEF ToSet
  <2>2. ASSUME NEW x \in ToSet(s) PROVE x \in ToSet(t)
    <3>1. PICK i \in DOMAIN s : x = s[i] BY DEF ToSet
    <3> QED BY <3>1, <1>6, <1>7 DEF ToSet
  <2>3. p \in ToSet(t) BY <1>4 DEF ToSet
  <2> QED BY <2>1, <2>2, <2>3
<1>9. \A i \in DOMAIN t : t[i] \in InZone(z) BY <1>4, <1>5 DEF Sound
<1>10. ASSUME NEW i \in DOMAIN t, NEW j \in DOMAIN t, t[i] = t[j] PROVE i = j
  <2>1. \A n \in DOMAIN s : s[n] # p BY DEF ToSet
  <2>2. CASE i = 1 \/ j = 1 BY <2>1, <2>2, <1>4, <1>5, <1>10
  <2>3. CASE i # 1 /\ j # 1
    <3>1. i - 1 = j - 1 BY <2>3, <1>5, <1>10 DEF Sound
    <3> QED BY <3>1, <1>3
  <2> QED BY <2>2, <2>3
<1> QED BY <1>2, <1>8, <1>9, <1>10 DEF Sound, t

LEMMA SoundAppend ==
  ASSUME NEW z, NEW s, Sound(s, z), NEW p \in Page, p \in InZone(z), p \notin ToSet(s)
  PROVE  Sound(Append(s, p), z) /\ ToSet(Append(s, p)) = ToSet(s) \cup {p}
<1> DEFINE t == Append(s, p)
           n == Len(s)
<1>1. s \in Seq(Page) BY DEF Sound
<1>2. /\ t \in Seq(Page) /\ Len(t) = n + 1
      /\ \A i \in 1 .. n : t[i] = s[i]
      /\ t[n + 1] = p
  BY <1>1, AppendProperties
<1>3. DOMAIN t = 1 .. n + 1 /\ DOMAIN s = 1 .. n /\ n \in Nat BY <1>1, <1>2
<1> HIDE DEF t, n
<1>4. n + 1 \in DOMAIN t BY <1>3
<1>5. \A i \in DOMAIN t : i # n + 1 => i \in DOMAIN s /\ t[i] = s[i] BY <1>2, <1>3
<1>6. \A i \in DOMAIN s : i \in DOMAIN t /\ t[i] = s[i] BY <1>2, <1>3
<1>7. ToSet(t) = ToSet(s) \cup {p}
  <2>1. ASSUME NEW x \in ToSet(t) PROVE x \in ToSet(s) \cup {p}
    <3>1. PICK i \in DOMAIN t : x = t[i] BY DEF ToSet
    <3> QED BY <3>1, <1>2, <1>5 DEF ToSet
  <2>2. ASSUME NEW x \in ToSet(s) PROVE x \in ToSet(t)
    <3>1. PICK i \in DOMAIN s : x = s[i] BY DEF ToSet
    <3> QED BY <3>1, <1>6 DEF ToSet
  <2>3. p \in ToSet(t) BY <1>2, <1>4 DEF ToSet
  <2> QED BY <2>1, <2>2, <2>3
<1>8. \A i \in DOMAIN t : t[i] \in InZone(z) BY <1>2, <1>5 DEF Sound
<1>9. ASSUME NEW i \in DOMAIN t, NEW j \in DOMAIN t, t[i] = t[j] PROVE i = j
  <2>1. \A m \in DOMAIN s : s[m] # p BY DEF ToSet
  <2>2. CASE i = n + 1 \/ j = n + 1 BY <2>1, <2>2, <1>2, <1>5, <1>9
  <2>3. CASE i # n + 1 /\ j # n + 1 BY <2>3, <1>5, <1>9 DEF Sound
  <2> QED BY <2>2, <2>3
<1> QED BY <1>2, <1>7, <1>8, <1>9 DEF Sound, t

LEMMA SoundRemove ==
  ASSUME NEW z, NEW s, Sound(s, z), NEW n \in DOMAIN s
  PROVE  Sound(RemoveAt(s, n), z) /\ ToSet(RemoveAt(s, n)) = ToSet(s) \ {s[n]}
<1> DEFINE t == RemoveAt(s, n)
<1>1. s \in Seq(Page) BY DEF Sound
<1>2. DOMAIN s = 1 .. Len(s) /\ Len(s) \in Nat BY <1>1
<1>3. /\ t \in Seq(Page) /\ Len(t) = Len(s) - 1
      /\ \A j \in 1 .. Len(s) - 1 : t[j] = IF j < n THEN s[j] ELSE s[j + 1]
  BY <1>1, <1>2, RemoveAtShape
<1> HIDE DEF t
<1>4. DOMAIN t = 1 .. Len(s) - 1 BY <1>3
<1> DEFINE at(j) == IF j < n THEN j ELSE j + 1
<1>5. \A j \in DOMAIN t : at(j) \in DOMAIN s /\ at(j) # n /\ t[j] = s[at(j)]
  BY <1>2, <1>3, <1>4
<1>6. \A i \in DOMAIN s : i # n => \E j \in DOMAIN t : at(j) = i
  <2> SUFFICES ASSUME NEW i \in DOMAIN s, i # n PROVE \E j \in DOMAIN t : at(j) = i
    OBVIOUS
  <2>1. CASE i < n
    <3>1. i \in DOMAIN t /\ at(i) = i BY <2>1, <1>2, <1>4
    <3> QED BY <3>1
  <2>2. CASE i > n
    <3>1. i - 1 \in DOMAIN t /\ at(i - 1) = i BY <2>2, <1>2, <1>4
    <3> QED BY <3>1
  <2> QED BY <2>1, <2>2, <1>2
<1>7. \A i, j \in DOMAIN t : at(i) = at(j) => i = j BY <1>2, <1>4
<1> HIDE DEF at
<1>8. ToSet(t) = ToSet(s) \ {s[n]}
  <2>1. ASSUME NEW x \in ToSet(t) PROVE x \in ToSet(s) \ {s[n]}
    <3>1. PICK j \in DOMAIN t : x = t[j] BY DEF ToSet
    <3>2. x = s[at(j)] /\ at(j) \in DOMAIN s /\ at(j) # n BY <3>1, <1>5
    <3> QED BY <3>2 DEF ToSet, Sound
  <2>2. ASSUME NEW x \in ToSet(s), x # s[n] PROVE x \in ToSet(t)
    <3>1. PICK i \in DOMAIN s : x = s[i] BY DEF ToSet
    <3>2. PICK j \in DOMAIN t : at(j) = i BY <3>1, <2>2, <1>6
    <3> QED BY <3>1, <3>2, <1>5 DEF ToSet
  <2> QED BY <2>1, <2>2
<1>9. \A i \in DOMAIN t : t[i] \in InZone(z) BY <1>5 DEF Sound
<1>10. \A i, j \in DOMAIN t : t[i] = t[j] => i = j BY <1>5, <1>7 DEF Sound
<1> QED BY <1>3, <1>8, <1>9, <1>10 DEF Sound, t

LEMMA SoundTail ==
  ASSUME NEW z, NEW s, Sound(s, z), s # <<>>
  PROVE  /\ Sound(Tail(s), z) /\ ToSet(Tail(s)) = ToSet(s) \ {Head(s)}
         /\ Head(s) \in ToSet(s)
<1> DEFINE t == Tail(s)
<1>1. s \in Seq(Page) BY DEF Sound
<1>2. /\ t \in Seq(Page) /\ Len(t) = Len(s) - 1
      /\ \A j \in 1 .. Len(t) : t[j] = s[j + 1]
  BY <1>1, HeadTailProperties
<1>3. DOMAIN s = 1 .. Len(s) /\ Len(s) \in Nat /\ Len(s) # 0 BY <1>1
<1>4. Head(s) = s[1] BY <1>1, <1>3
<1> HIDE DEF t
<1>5. DOMAIN t = 1 .. Len(s) - 1 BY <1>2
<1>6. \A j \in DOMAIN t : j + 1 \in DOMAIN s /\ j + 1 # 1 /\ t[j] = s[j + 1]
  BY <1>2, <1>3, <1>5
<1>7. \A i \in DOMAIN s : i # 1 => i - 1 \in DOMAIN t /\ (i - 1) + 1 = i BY <1>3, <1>5
<1>8. 1 \in DOMAIN s BY <1>3
<1>9. ToSet(t) = ToSet(s) \ {s[1]}
  <2>1. ASSUME NEW x \in ToSet(t) PROVE x \in ToSet(s) \ {s[1]}
    <3>1. PICK j \in DOMAIN t : x = t[j] BY DEF ToSet
    <3>2. x = s[j + 1] /\ j + 1 \in DOMAIN s /\ j + 1 # 1 BY <3>1, <1>6
    <3> QED BY <3>2, <1>8 DEF ToSet, Sound
  <2>2. ASSUME NEW x \in ToSet(s), x # s[1] PROVE x \in ToSet(t)
    <3>1. PICK i \in DOMAIN s : x = s[i] BY DEF ToSet
    <3>2. i - 1 \in DOMAIN t /\ (i - 1) + 1 = i BY <3>1, <2>2, <1>7
    <3>3. t[i - 1] = x BY <3>1, <3>2, <1>6
    <3> QED BY <3>2, <3>3 DEF ToSet
  <2> QED BY <2>1, <2>2
<1>10. \A i \in DOMAIN t : t[i] \in InZone(z) BY <1>6 DEF Sound
<1>11. ASSUME NEW i \in DOMAIN t, NEW j \in DOMAIN t, t[i] = t[j] PROVE i = j
  <2>1. i + 1 = j + 1 BY <1>6, <1>11 DEF Sound
  <2> QED BY <2>1, <1>5
<1>12. Head(s) \in ToSet(s) BY <1>4, <1>8 DEF ToSet
<1> QED BY <1>2, <1>4, <1>9, <1>10, <1>11, <1>12 DEF Sound, t

LEMMA ListsSound ==
  ASSUME TypeOK, LinkedOnce, NEW z \in Zone, NEW k \in Order
  PROVE  Sound(lists[z][k], z)
BY DEF TypeOK, LinkedOnce, Sound

\* A block is free when it is on the list of its order in its own zone.
LEMMA FreeIs ==
  ASSUME TypeOK, LinkedOnce, NEW b \in Block
  PROVE  b \in FreeBlocks <=> b.page \in ToSet(lists[ZoneOf(b.page)][b.order])
<1>1. b.page \in Page /\ b.order \in Order BY DEF Block
<1>2. ZoneOf(b.page) \in Zone BY <1>1, PageZone
<1>3. ASSUME NEW z \in Zone, b.page \in ToSet(lists[z][b.order]) PROVE z = ZoneOf(b.page)
  <2>1. b.page \in InZone(z) BY <1>1, <1>3 DEF ToSet, LinkedOnce
  <2> QED BY <2>1, ZoneIs
<1> QED BY <1>1, <1>2, <1>3 DEF FreeBlocks

\* What a change of one list means for the free blocks.
LEMMA Refile ==
  ASSUME TypeOK, LinkedOnce, NEW z \in Zone, NEW k \in Order, NEW s, Sound(s, z),
         lists' = [lists EXCEPT ![z][k] = s]
  PROVE  /\ lists' \in [Zone -> [Order -> Seq(Page)]] /\ LinkedOnce'
         /\ \A b \in Block : b \in FreeBlocks' <=>
              IF b.order = k /\ ZoneOf(b.page) = z THEN b.page \in ToSet(s)
                                                   ELSE b \in FreeBlocks
<1>1. lists \in [Zone -> [Order -> Seq(Page)]] BY DEF TypeOK
<1>2. s \in Seq(Page) BY DEF Sound
<1>3. lists' \in [Zone -> [Order -> Seq(Page)]] BY <1>1, <1>2
<1>4. \A y \in Zone, j \in Order :
        lists'[y][j] = IF y = z /\ j = k THEN s ELSE lists[y][j]
  BY <1>1
<1>5. \A y \in Zone, j \in Order : Sound(lists'[y][j], y)
  BY <1>4, ListsSound
<1>6. LinkedOnce' BY <1>5 DEF LinkedOnce, Sound
<1>7. ASSUME NEW b \in Block
      PROVE  b \in FreeBlocks' <=> b.page \in ToSet(lists'[ZoneOf(b.page)][b.order])
  <2>1. b.page \in Page /\ b.order \in Order BY DEF Block
  <2>2. ZoneOf(b.page) \in Zone BY <2>1, PageZone
  <2>3. ASSUME NEW y \in Zone, b.page \in ToSet(lists'[y][b.order])
        PROVE  y = ZoneOf(b.page)
    <3>1. b.page \in InZone(y) BY <2>1, <2>3, <1>5 DEF ToSet, Sound
    <3> QED BY <3>1, ZoneIs
  <2> QED BY <2>1, <2>2, <2>3 DEF FreeBlocks
<1>8. ASSUME NEW b \in Block
      PROVE  b \in FreeBlocks' <=>
              IF b.order = k /\ ZoneOf(b.page) = z THEN b.page \in ToSet(s)
                                                   ELSE b \in FreeBlocks
  <2>1. b.order \in Order /\ ZoneOf(b.page) \in Zone BY PageZone DEF Block
  <2> QED BY <2>1, <1>4, <1>7, FreeIs
<1> QED BY <1>3, <1>6, <1>8

LEMMA Adds ==
  ASSUME TypeOK, LinkedOnce, NEW p \in Page, NEW k \in Order, NEW s,
         Sound(s, ZoneOf(p)), ToSet(s) = ToSet(lists[ZoneOf(p)][k]) \cup {p},
         lists' = [lists EXCEPT ![ZoneOf(p)][k] = s]
  PROVE  /\ lists' \in [Zone -> [Order -> Seq(Page)]] /\ LinkedOnce'
         /\ FreeBlocks' = FreeBlocks \cup {[page |-> p, order |-> k]}
<1> DEFINE n == [page |-> p, order |-> k]
           z == ZoneOf(p)
<1>1. z \in Zone BY PageZone
<1>2. /\ lists' \in [Zone -> [Order -> Seq(Page)]] /\ LinkedOnce'
      /\ \A b \in Block : b \in FreeBlocks' <=>
           IF b.order = k /\ ZoneOf(b.page) = z THEN b.page \in ToSet(s)
                                                ELSE b \in FreeBlocks
  BY <1>1, Refile
<1>3. n \in Block /\ FreeBlocks \subseteq Block /\ FreeBlocks' \subseteq Block
  BY DEF Block, FreeBlocks
<1>4. \A b \in Block : b = n <=> b.page = p /\ b.order = k BY DEF Block
<1>5. ASSUME NEW b \in Block PROVE b \in FreeBlocks' <=> b \in FreeBlocks \/ b = n
  <2>1. CASE b.order = k /\ ZoneOf(b.page) = z
    <3>1. b \in FreeBlocks' <=> b.page \in ToSet(s) BY <2>1, <1>2
    <3>2. b \in FreeBlocks <=> b.page \in ToSet(lists[z][k]) BY <2>1, FreeIs
    <3> QED BY <3>1, <3>2, <1>4, <2>1
  <2>2. CASE ~(b.order = k /\ ZoneOf(b.page) = z) BY <2>2, <1>2, <1>4
  <2> QED BY <2>1, <2>2
<1> QED BY <1>2, <1>3, <1>5

LEMMA LinkAdds ==
  ASSUME TypeOK, LinkedOnce, NEW p \in Page, NEW k \in Order,
         [page |-> p, order |-> k] \notin FreeBlocks,
         lists' = Link(lists, p, k)
  PROVE  /\ lists' \in [Zone -> [Order -> Seq(Page)]] /\ LinkedOnce'
         /\ FreeBlocks' = FreeBlocks \cup {[page |-> p, order |-> k]}
<1> DEFINE z == ZoneOf(p)
           n == [page |-> p, order |-> k]
<1>1. z \in Zone /\ p \in InZone(z) BY PageZone
<1>2. n \in Block /\ n.page = p /\ n.order = k BY DEF Block
<1>3. p \notin ToSet(lists[z][k]) BY <1>2, FreeIs
<1>4. Sound(lists[z][k], z) BY <1>1, ListsSound
<1>5. Sound(<<p>> \o lists[z][k], z)
      /\ ToSet(<<p>> \o lists[z][k]) = ToSet(lists[z][k]) \cup {p}
  BY <1>1, <1>3, <1>4, SoundCons
<1>6. lists' = [lists EXCEPT ![z][k] = <<p>> \o lists[z][k]] BY DEF Link
<1> QED BY <1>5, <1>6, Adds

LEMMA AppendAdds ==
  ASSUME TypeOK, LinkedOnce, NEW p \in Page, NEW k \in Order,
         [page |-> p, order |-> k] \notin FreeBlocks,
         lists' = [lists EXCEPT ![ZoneOf(p)][k] = Append(@, p)]
  PROVE  /\ lists' \in [Zone -> [Order -> Seq(Page)]] /\ LinkedOnce'
         /\ FreeBlocks' = FreeBlocks \cup {[page |-> p, order |-> k]}
<1> DEFINE z == ZoneOf(p)
           n == [page |-> p, order |-> k]
<1>1. z \in Zone /\ p \in InZone(z) BY PageZone
<1>2. n \in Block /\ n.page = p /\ n.order = k BY DEF Block
<1>3. p \notin ToSet(lists[z][k]) BY <1>2, FreeIs
<1>4. Sound(lists[z][k], z) BY <1>1, ListsSound
<1>5. Sound(Append(lists[z][k], p), z)
      /\ ToSet(Append(lists[z][k], p)) = ToSet(lists[z][k]) \cup {p}
  BY <1>1, <1>3, <1>4, SoundAppend
<1>6. lists' = [lists EXCEPT ![z][k] = Append(lists[z][k], p)] OBVIOUS
<1> QED BY <1>5, <1>6, Adds

LEMMA Removes ==
  ASSUME TypeOK, LinkedOnce, NEW p \in Page, NEW k \in Order, NEW s,
         Sound(s, ZoneOf(p)), ToSet(s) = ToSet(lists[ZoneOf(p)][k]) \ {p},
         lists' = [lists EXCEPT ![ZoneOf(p)][k] = s]
  PROVE  /\ lists' \in [Zone -> [Order -> Seq(Page)]] /\ LinkedOnce'
         /\ FreeBlocks' = FreeBlocks \ {[page |-> p, order |-> k]}
<1> DEFINE n == [page |-> p, order |-> k]
           z == ZoneOf(p)
<1>1. z \in Zone BY PageZone
<1>2. /\ lists' \in [Zone -> [Order -> Seq(Page)]] /\ LinkedOnce'
      /\ \A b \in Block : b \in FreeBlocks' <=>
           IF b.order = k /\ ZoneOf(b.page) = z THEN b.page \in ToSet(s)
                                                ELSE b \in FreeBlocks
  BY <1>1, Refile
<1>3. FreeBlocks \subseteq Block /\ FreeBlocks' \subseteq Block
  BY DEF Block, FreeBlocks
<1>4. \A b \in Block : b = n <=> b.page = p /\ b.order = k BY DEF Block
<1>5. ASSUME NEW b \in Block PROVE b \in FreeBlocks' <=> b \in FreeBlocks /\ b # n
  <2>1. CASE b.order = k /\ ZoneOf(b.page) = z
    <3>1. b \in FreeBlocks' <=> b.page \in ToSet(s) BY <2>1, <1>2
    <3>2. b \in FreeBlocks <=> b.page \in ToSet(lists[z][k]) BY <2>1, FreeIs
    <3> QED BY <3>1, <3>2, <1>4, <2>1
  <2>2. CASE ~(b.order = k /\ ZoneOf(b.page) = z) BY <2>2, <1>2, <1>4
  <2> QED BY <2>1, <2>2
<1> QED BY <1>2, <1>3, <1>5

-----------------------------------------------------------------------------
(* Blocks                                                                  *)

LEMMA MinIs ==
  ASSUME NEW S \in SUBSET Nat, S # {}
  PROVE  Min(S) \in S /\ \A m \in S : Min(S) =< m
<1>1. \E n \in S : \A m \in S : n =< m BY Least
<1> QED BY <1>1 DEF Min

LEMMA BlockIs ==
  ASSUME NEW b \in Block
  PROVE  /\ b.page \in Page /\ b.page \in Nat /\ b.order \in Order /\ b.order \in Nat
         /\ b.order =< MaxOrder
         /\ Shl[b.order] \in Nat \ {0}
         /\ b = [page |-> b.page, order |-> b.order]
         /\ b.page \in Pages(b)
         /\ \A p : p \in Pages(b) <=>
              p \in Nat /\ b.page =< p /\ p < b.page + Shl[b.order]
<1>1. b.page \in Page /\ b.order \in Order /\ b = [page |-> b.page, order |-> b.order]
  BY DEF Block
<1>2. MaxOrder \in Nat BY BuddyAssumption
<1>3. b.page \in Nat BY <1>1, PageZone
<1>4. b.order \in Nat /\ b.order =< MaxOrder BY <1>1, <1>2 DEF Order
<1>5. Shl[b.order] \in Nat \ {0} BY <1>4, ShlPos
<1> QED BY <1>1, <1>3, <1>4, <1>5 DEF Pages

LEMMA BlockOf ==
  ASSUME NEW p \in Page, NEW k \in Order
  PROVE  /\ [page |-> p, order |-> k] \in Block
         /\ [page |-> p, order |-> k].page = p /\ [page |-> p, order |-> k].order = k
BY DEF Block

LEMMA ApartIs ==
  ASSUME NEW b \in Block, NEW c \in Block
  PROVE  Apart(b, c) <=> Pages(b) \cap Pages(c) = {}
<1>1. ASSUME Apart(b, c), NEW p \in Pages(b), p \in Pages(c) PROVE FALSE
  BY <1>1, BlockIs DEF Apart
<1>2. ASSUME ~Apart(b, c) PROVE \E p \in Pages(b) : p \in Pages(c)
  <2>1. CASE b.page =< c.page
    <3>1. c.page \in Pages(b) BY <1>2, <2>1, BlockIs DEF Apart
    <3> QED BY <3>1, BlockIs
  <2>2. CASE c.page =< b.page
    <3>1. b.page \in Pages(c) BY <1>2, <2>2, BlockIs DEF Apart
    <3> QED BY <3>1, BlockIs
  <2> QED BY <2>1, <2>2, BlockIs
<1> QED BY <1>1, <1>2

\* The two halves of a block that two buddies make.
LEMMA Halves ==
  ASSUME NEW p \in Nat, NEW k \in Nat, Aligned(p, k)
  PROVE  \E l \in Nat :
           /\ Aligned(l, k + 1) /\ Shl[k + 1] = 2 * Shl[k] /\ Shl[k] \in Nat \ {0}
           /\ \/ p = l /\ Xor(p, k) = l + Shl[k]
              \/ p = l + Shl[k] /\ Xor(p, k) = l
<1>1. Shl[k + 1] = 2 * Shl[k] /\ Shl[k] \in Nat \ {0} BY ShlIs, ShlPos
<1>2. CASE Aligned(p, k + 1) /\ Xor(p, k) = p + Shl[k] BY <1>1, <1>2
<1>3. CASE Xor(p, k) = p - Shl[k] /\ Aligned(Xor(p, k), k + 1)
  <2>1. Xor(p, k) \in Nat BY XorIs
  <2> QED BY <1>1, <1>3, <2>1
<1> QED BY <1>2, <1>3, XorIs

\* The mark of the buddy of a block is not stale: a larger block around the
\* buddy would reach into the block.
LEMMA Fresh ==
  ASSUME TypeOK, Shaped, Marked, NEW b \in Blocks, Xor(b.page, b.order) \in Page,
         flags[Xor(b.page, b.order)] = [free |-> TRUE, order |-> b.order]
  PROVE  [page |-> Xor(b.page, b.order), order |-> b.order] \in FreeBlocks
<1> DEFINE k == b.order
           x == Xor(b.page, k)
<1>1. b \in Block /\ Aligned(b.page, k) BY DEF Shaped
<1>2. flags[x].free /\ flags[x].order = k OBVIOUS
<1>3. SUFFICES ASSUME NEW c \in Blocks, x \in Pages(c), k < c.order PROVE FALSE
  BY <1>2 DEF Marked
<1>4. c \in Block /\ Aligned(c.page, c.order) BY DEF Shaped
<1>5. PICK l \in Nat :
        /\ Aligned(l, k + 1) /\ Shl[k + 1] = 2 * Shl[k] /\ Shl[k] \in Nat \ {0}
        /\ \/ b.page = l /\ x = l + Shl[k]
           \/ b.page = l + Shl[k] /\ x = l
  BY <1>1, BlockIs, Halves
<1> HIDE DEF x, k
<1>6. /\ k \in Nat /\ c.order \in Nat /\ c.page \in Nat /\ k + 1 =< c.order
      /\ b.page \in Nat /\ b.order = k /\ Shl[c.order] \in Nat
  BY <1>1, <1>3, <1>4, BlockIs DEF k
<1>7. \/ l + Shl[k + 1] =< c.page
      \/ c.page + Shl[c.order] =< l
      \/ c.page =< l /\ l + Shl[k + 1] =< c.page + Shl[c.order]
  <2>1. k + 1 \in Nat BY <1>6
  <2> QED BY <2>1, <1>4, <1>5, <1>6, Nested
<1>8. x \in Nat /\ c.page =< x /\ x < c.page + Shl[c.order] BY <1>3, <1>4, BlockIs
<1>9. c.page =< l /\ l + Shl[k + 1] =< c.page + Shl[c.order] BY <1>5, <1>6, <1>7, <1>8
<1>10. b.page \in Pages(c) BY <1>4, <1>5, <1>6, <1>9, BlockIs
<1>11. b.page \in Pages(b) BY <1>1, BlockIs
<1>12. b # c BY <1>3, <1>6
<1> QED BY <1>1, <1>4, <1>10, <1>11, <1>12, ApartIs DEF Shaped

\* No call at work, or the block it works on.
LEMMA HandIs ==
  /\ work = NoWork => Hand = {}
  /\ work # NoWork => Hand = {[page |-> work.page, order |-> work.order]}
  /\ \A p, k, n : At("split", p, k, n) # NoWork /\ At("merge", p, k, n) # NoWork
  /\ \A d, p, k, n : /\ At(d, p, k, n).page = p /\ At(d, p, k, n).order = k
                     /\ At(d, p, k, n).doing = d /\ At(d, p, k, n).want = n
BY DEF Hand, At, NoWork

\* What does not change with the set of all blocks.
LEMMA SameBlocks ==
  ASSUME BInv, Blocks' = Blocks, UNCHANGED todo,
         FreeBlocks' \cap held' = {}, Hand' \cap (FreeBlocks' \cup held') = {}
  PROVE  Shaped' /\ Covering' /\ InGiven'
<1>1. Shaped' BY DEF BInv, Shaped
<1>2. Covering' BY DEF BInv, Covering
<1>3. InGiven' BY DEF BInv, InGiven
<1> QED BY <1>1, <1>2, <1>3

-----------------------------------------------------------------------------
(* The invariant holds                                                     *)

THEOREM InitHolds ==
  ASSUME \A f \in LeftOver : ~f.free, Init
  PROVE  BInv
<1>1. LeftOver \subseteq Flags /\ MaxOrder \in Nat BY BuddyAssumption
<1>2. lists = [z \in Zone |-> [k \in Order |-> <<>>]] BY DEF Init
<1>3. FreeBlocks = {} /\ Hand = {} /\ held = {} /\ Blocks = {}
  BY <1>2 DEF Init, FreeBlocks, Blocks, Hand, ToSet, Block
<1>4. TypeOK
  <2>1. flags \in [Page -> Flags] BY <1>1 DEF Init
  <2>2. lists \in [Zone -> [Order -> Seq(Page)]] BY <1>2
  <2>3. answer \in [order : 0 .. MaxOrder + 1, page : Page \cup {0}]
    BY <1>1 DEF Init, NoAnswer
  <2> QED BY <2>1, <2>2, <2>3 DEF Init, TypeOK
<1>5. Shaped BY <1>3 DEF Shaped
<1>6. Covering BY <1>3 DEF Covering, Init
<1>7. InGiven BY <1>3 DEF InGiven
<1>8. LinkedOnce BY <1>2 DEF LinkedOnce
<1>9. Marked BY <1>3 DEF Marked, Init
<1>10. Coalesced BY <1>3 DEF Coalesced
<1>11. AtWork BY DEF AtWork, Init, NoWork, At
<1>12. Carving BY <1>3 DEF Carving, Init
<1>13. ~fault BY DEF Init
<1> QED BY <1>4, <1>5, <1>6, <1>7, <1>8, <1>9, <1>10, <1>11, <1>12, <1>13 DEF BInv

LEMMA AllocKeeps ==
  ASSUME BInv, NEW order \in 0 .. MaxOrder + 1, Alloc(order)
  PROVE  BInv'
<1>1. PICK z \in Zone :
        /\ Serves(z, order) # {}
        /\ LET current == Min(Serves(z, order))
               page    == Head(lists[z][current])
           IN  /\ lists' = [lists EXCEPT ![z][current] = Tail(@)]
               /\ flags' = SetBusy(flags, page)
               /\ work' = At("split", page, current, order)
  BY DEF Alloc
<1> DEFINE k == Min(Serves(z, order))
           p == Head(lists[z][k])
           b == [page |-> p, order |-> k]
<1>2. /\ todo = {} /\ work = NoWork /\ ~fault
      /\ UNCHANGED <<held, answer, todo, fault>>
  BY DEF Alloc, Idle
<1>3. TypeOK /\ LinkedOnce /\ MaxOrder \in Nat BY BuddyAssumption DEF BInv
<1>4. k \in order .. MaxOrder /\ lists[z][k] # <<>>
  <2>1. Serves(z, order) \subseteq order .. MaxOrder BY DEF Serves
  <2>2. Serves(z, order) \subseteq Nat BY <1>3, <2>1
  <2>3. k \in Serves(z, order) BY <1>1, <2>2, MinIs
  <2> HIDE DEF k
  <2> QED BY <2>3 DEF Serves
<1>5. k \in Order /\ order \in Order /\ order =< k BY <1>3, <1>4 DEF Order
<1>6. /\ lists' = [lists EXCEPT ![z][k] = Tail(lists[z][k])]
      /\ flags' = SetBusy(flags, p) /\ work' = At("split", p, k, order)
  BY <1>1
<1> HIDE DEF k
<1>7. /\ Sound(lists[z][k], z) /\ Sound(Tail(lists[z][k]), z)
      /\ ToSet(Tail(lists[z][k])) = ToSet(lists[z][k]) \ {p}
      /\ p \in ToSet(lists[z][k])
  BY <1>3, <1>4, <1>5, ListsSound, SoundTail
<1>8. p \in InZone(z) BY <1>7 DEF Sound, ToSet
<1>9. p \in Page /\ ZoneOf(p) = z BY <1>8, ZoneIs
<1> HIDE DEF p
<1>10. b \in Block /\ b.page = p /\ b.order = k BY <1>5, <1>9, BlockOf
<1>11. b \in FreeBlocks BY <1>3, <1>7, <1>9, <1>10, FreeIs
<1>12. /\ lists' \in [Zone -> [Order -> Seq(Page)]] /\ LinkedOnce'
       /\ FreeBlocks' = FreeBlocks \ {b}
  BY <1>3, <1>5, <1>6, <1>7, <1>9, Removes
<1>13. Hand = {} BY <1>2, HandIs
<1>14. Hand' = {b} BY <1>6, HandIs DEF Hand
<1>15. Blocks' = Blocks BY <1>2, <1>11, <1>12, <1>13, <1>14 DEF Blocks
<1>16. /\ flags' \in [Page -> Flags]
       /\ \A q \in Page : q # p => flags'[q] = flags[q]
       /\ ~flags'[p].free
  BY <1>3, <1>6, <1>9 DEF TypeOK, SetBusy, Flags
<1>17. TypeOK'
  <2>1. work' \in [doing : {"split", "merge"}, page : Page, order : Order, want : Order]
    BY <1>5, <1>6, <1>9 DEF At
  <2> QED BY <2>1, <1>2, <1>3, <1>12, <1>16 DEF TypeOK
<1>18. Shaped' /\ Covering' /\ InGiven'
  <2>1. b \notin held BY <1>11 DEF BInv, Shaped
  <2>2. FreeBlocks \cap held = {} BY DEF BInv, Shaped
  <2> QED BY <2>1, <2>2, <1>2, <1>12, <1>14, <1>15, SameBlocks
<1>19. Marked'
  <2>1. ASSUME NEW c \in FreeBlocks'
        PROVE  flags'[c.page] = [free |-> TRUE, order |-> c.order]
    <3>1. c \in FreeBlocks /\ c # b /\ c \in Block BY <2>1, <1>12 DEF FreeBlocks
    <3>2. Apart(c, b) BY <3>1, <1>11 DEF BInv, Shaped, Blocks
    <3>3. c.page # p BY <3>1, <3>2, <1>10, BlockIs DEF Apart
    <3> QED BY <3>1, <3>3, <1>16, BlockIs DEF BInv, Marked
  <2>2. ASSUME NEW q \in Page, flags'[q].free
        PROVE  /\ Aligned(q, flags'[q].order)
               /\ \/ [page |-> q, order |-> flags'[q].order] \in FreeBlocks'
                  \/ \E c \in Blocks' : q \in Pages(c) /\ flags'[q].order < c.order
    <3>1. q # p BY <2>2, <1>16
    <3>2. flags'[q] = flags[q] BY <3>1, <1>16
    <3>3. [page |-> q, order |-> flags[q].order] # b BY <3>1
    <3> QED BY <2>2, <3>2, <3>3, <1>12, <1>15 DEF BInv, Marked
  <2> QED BY <2>1, <2>2 DEF Marked
<1>20. Coalesced' BY <1>12 DEF BInv, Coalesced
<1>21. AtWork' BY <1>5, <1>6, <1>16, HandIs DEF AtWork
<1>22. Carving' BY <1>2 DEF Carving
<1> QED BY <1>2, <1>12, <1>17, <1>18, <1>19, <1>20, <1>21, <1>22 DEF BInv

LEMMA RefuseKeeps ==
  ASSUME BInv, NEW order \in 0 .. MaxOrder + 1, Refuse(order)
  PROVE  BInv'
<1>1. UNCHANGED <<flags, lists, held, todo, work, fault>> BY DEF Refuse
<1>2. UNCHANGED <<FreeBlocks, Hand, Blocks>> BY <1>1 DEF FreeBlocks, Hand, Blocks
<1>3. TypeOK' BY <1>1 DEF BInv, TypeOK, Refuse
<1>4. Shaped' /\ Covering' /\ InGiven' BY <1>1, <1>2 DEF BInv, Shaped, Covering, InGiven
<1>5. LinkedOnce' BY <1>1 DEF BInv, LinkedOnce
<1>6. Marked' /\ Coalesced' BY <1>1, <1>2 DEF BInv, Marked, Coalesced
<1>7. AtWork' BY <1>1 DEF BInv, AtWork
<1>8. Carving' BY <1>1, <1>2 DEF BInv, Carving
<1> QED BY <1>1, <1>3, <1>4, <1>5, <1>6, <1>7, <1>8 DEF BInv

LEMMA HandOutKeeps ==
  ASSUME BInv, HandOut
  PROVE  BInv'
<1> DEFINE w == [page |-> work.page, order |-> work.order]
<1>1. /\ work.doing = "split" /\ work.order = work.want
      /\ held' = held \cup {w} /\ work' = NoWork
      /\ answer' = [order |-> work.want, page |-> work.page]
      /\ UNCHANGED <<flags, lists, todo, fault>>
  BY DEF HandOut
<1>2. work # NoWork BY <1>1 DEF NoWork, At
<1>3. TypeOK /\ MaxOrder \in Nat BY BuddyAssumption DEF BInv
<1>4. work.page \in Page /\ work.order \in Order /\ work.want \in Order
  BY <1>2, <1>3 DEF TypeOK
<1>5. w \in Block BY <1>4, BlockOf
<1>6. Hand = {w} /\ Hand' = {} BY <1>1, <1>2, HandIs DEF Hand
<1>7. FreeBlocks' = FreeBlocks BY <1>1 DEF FreeBlocks
<1>8. Blocks' = Blocks BY <1>1, <1>6, <1>7 DEF Blocks
<1>9. TypeOK'
  <2>1. answer' \in [order : 0 .. MaxOrder + 1, page : Page \cup {0}]
    <3>1. work.want \in 0 .. MaxOrder + 1 BY <1>3, <1>4 DEF Order
    <3> QED BY <3>1, <1>1, <1>4
  <2> QED BY <2>1, <1>1, <1>3, <1>5 DEF TypeOK
<1>10. Shaped' /\ Covering' /\ InGiven'
  <2>1. w \notin FreeBlocks /\ FreeBlocks \cap held = {} BY <1>6 DEF BInv, Shaped
  <2> QED BY <2>1, <1>1, <1>6, <1>7, <1>8, SameBlocks
<1>11. LinkedOnce' BY <1>1 DEF BInv, LinkedOnce
<1>12. Marked' /\ Coalesced' BY <1>1, <1>7, <1>8 DEF BInv, Marked, Coalesced
<1>13. AtWork' BY <1>1 DEF AtWork, NoWork, At
<1>14. Carving' BY <1>1, <1>2 DEF BInv, Carving
<1> QED BY <1>1, <1>9, <1>10, <1>11, <1>12, <1>13, <1>14 DEF BInv

LEMMA FreeKeeps ==
  ASSUME BInv, NEW b \in held, Free(b)
  PROVE  BInv'
<1>1. /\ todo = {} /\ work = NoWork /\ ~fault
      /\ held' = held \ {b} /\ work' = At("merge", b.page, b.order, 0)
      /\ answer' = NoAnswer /\ UNCHANGED <<flags, lists, todo, fault>>
  BY DEF Free, Idle
<1>2. TypeOK /\ MaxOrder \in Nat BY BuddyAssumption DEF BInv
<1>3. b \in Block BY <1>2 DEF TypeOK
<1>4. /\ b = [page |-> b.page, order |-> b.order]
      /\ b.page \in Page /\ b.order \in Order
  BY <1>3, BlockIs
<1>5. Hand = {} /\ Hand' = {b} BY <1>1, <1>4, HandIs DEF Hand
<1>6. FreeBlocks' = FreeBlocks BY <1>1 DEF FreeBlocks
<1>7. Blocks' = Blocks BY <1>1, <1>5, <1>6 DEF Blocks
<1>8. TypeOK'
  <2>1. answer' \in [order : 0 .. MaxOrder + 1, page : Page \cup {0}]
    BY <1>1, <1>2 DEF NoAnswer
  <2>2. work' \in [doing : {"split", "merge"}, page : Page, order : Order, want : Order]
    BY <1>1, <1>2, <1>4 DEF At, Order
  <2> QED BY <2>1, <2>2, <1>1, <1>2 DEF TypeOK
<1>9. Shaped' /\ Covering' /\ InGiven'
  <2>1. b \notin FreeBlocks /\ FreeBlocks \cap held = {} BY DEF BInv, Shaped
  <2> QED BY <2>1, <1>1, <1>5, <1>6, <1>7, SameBlocks
<1>10. LinkedOnce' BY <1>1 DEF BInv, LinkedOnce
<1>11. Marked' /\ Coalesced' BY <1>1, <1>6, <1>7 DEF BInv, Marked, Coalesced
<1>12. AtWork' BY <1>1, HandIs DEF AtWork
<1>13. Carving' BY <1>1 DEF Carving
<1> QED BY <1>1, <1>8, <1>9, <1>10, <1>11, <1>12, <1>13 DEF BInv

LEMMA MergeEndsKeeps ==
  ASSUME BInv, MergeEnds
  PROVE  BInv'
<1> DEFINE p == work.page
           k == work.order
           w == [page |-> p, order |-> k]
<1>1. /\ work.doing = "merge" /\ ~Joins(p, k)
      /\ lists' = Link(lists, p, k) /\ flags' = SetFree(flags, p, k)
      /\ work' = NoWork /\ UNCHANGED <<held, answer, todo, fault>>
  BY DEF MergeEnds
<1>2. work # NoWork BY <1>1 DEF NoWork, At
<1>3. TypeOK /\ LinkedOnce /\ MaxOrder \in Nat BY BuddyAssumption DEF BInv
<1>4. p \in Page /\ k \in Order BY <1>2, <1>3 DEF TypeOK
<1>5. Hand = {w} /\ Hand' = {} BY <1>1, <1>2, HandIs DEF Hand
<1> HIDE DEF p, k
<1>6. w \in Block /\ w.page = p /\ w.order = k BY <1>4, BlockOf
<1>7. w \notin FreeBlocks /\ w \notin held /\ FreeBlocks \cap held = {}
  BY <1>5 DEF BInv, Shaped
<1>8. /\ lists' \in [Zone -> [Order -> Seq(Page)]] /\ LinkedOnce'
      /\ FreeBlocks' = FreeBlocks \cup {w}
  BY <1>1, <1>3, <1>4, <1>7, LinkAdds
<1>9. Blocks' = Blocks BY <1>1, <1>5, <1>8 DEF Blocks
<1>10. /\ flags' \in [Page -> Flags]
       /\ \A q \in Page : q # p => flags'[q] = flags[q]
       /\ flags'[p] = [free |-> TRUE, order |-> k]
  BY <1>1, <1>3, <1>4 DEF TypeOK, SetFree, Flags
<1>11. TypeOK' BY <1>1, <1>3, <1>8, <1>10 DEF TypeOK
<1>12. Shaped' /\ Covering' /\ InGiven'
  BY <1>1, <1>5, <1>7, <1>8, <1>9, SameBlocks
<1>13. Marked'
  <2>1. ASSUME NEW c \in FreeBlocks'
        PROVE  flags'[c.page] = [free |-> TRUE, order |-> c.order]
    <3>1. CASE c = w BY <3>1, <1>6, <1>10
    <3>2. CASE c # w
      <4>1. c \in FreeBlocks /\ c \in Block BY <2>1, <3>2, <1>8 DEF FreeBlocks
      <4>2. Apart(c, w) BY <4>1, <3>2, <1>5 DEF BInv, Shaped, Blocks
      <4>3. c.page # p BY <4>1, <4>2, <1>6, BlockIs DEF Apart
      <4> QED BY <4>1, <4>3, <1>10, BlockIs DEF BInv, Marked
    <3> QED BY <3>1, <3>2
  <2>2. ASSUME NEW q \in Page, flags'[q].free
        PROVE  /\ Aligned(q, flags'[q].order)
               /\ \/ [page |-> q, order |-> flags'[q].order] \in FreeBlocks'
                  \/ \E c \in Blocks' : q \in Pages(c) /\ flags'[q].order < c.order
    <3>1. CASE q = p
      <4>1. Aligned(p, k) BY <1>5, <1>6 DEF BInv, Shaped, Blocks
      <4> QED BY <4>1, <3>1, <1>8, <1>10
    <3>2. CASE q # p
      <4>1. flags'[q] = flags[q] BY <3>2, <1>10
      <4> QED BY <2>2, <4>1, <1>8, <1>9 DEF BInv, Marked
    <3> QED BY <3>1, <3>2
  <2> QED BY <2>1, <2>2 DEF Marked
<1>14. Coalesced'
  <2>1. ASSUME NEW c \in FreeBlocks, k < MaxOrder, c.order = k,
               c.page = Xor(p, k), c.page \in InZone(ZoneOf(p))
        PROVE  FALSE
    <3>1. flags[c.page] = [free |-> TRUE, order |-> k] BY <2>1 DEF BInv, Marked
    <3> QED BY <3>1, <2>1, <1>1 DEF Joins
  <2>2. SUFFICES ASSUME NEW b \in FreeBlocks', NEW c \in FreeBlocks',
                        b.order < MaxOrder, c.order = b.order,
                        c.page \in InZone(ZoneOf(b.page)), c.page = Xor(b.page, b.order)
                 PROVE  FALSE
    BY DEF Coalesced
  <2>3. b \in Block /\ c \in Block BY DEF FreeBlocks
  <2>4. Aligned(b.page, b.order) BY <1>12 DEF Shaped, Blocks
  <2>5. CASE b \in FreeBlocks /\ c \in FreeBlocks BY <2>5, <2>2 DEF BInv, Coalesced
  <2>6. CASE b = w /\ c \in FreeBlocks BY <2>6, <2>1, <2>2, <1>6
  <2>7. CASE b \in FreeBlocks /\ c = w
    <3>1. b.page = Xor(p, k) BY <2>2, <2>3, <2>4, <2>7, <1>6, BlockIs, XorIs
    <3>2. ZoneOf(b.page) = ZoneOf(p) /\ b.page \in InZone(ZoneOf(b.page))
      <4>1. ZoneOf(b.page) \in Zone /\ b.page \in InZone(ZoneOf(b.page))
        BY <2>3, BlockIs, PageZone
      <4> QED BY <4>1, <2>2, <2>7, <1>6, ZoneIs
    <3> QED BY <3>1, <3>2, <2>1, <2>2, <2>7, <1>6
  <2>8. CASE b = w /\ c = w
    <3>1. p = Xor(p, k) BY <2>2, <2>8, <1>6
    <3>2. Aligned(p, k) BY <2>4, <2>8, <1>6
    <3>3. p \in Nat /\ k \in Nat /\ Shl[k] \in Nat \ {0} BY <1>6, BlockIs
    <3>4. Xor(p, k) = p + Shl[k] \/ Xor(p, k) = p - Shl[k] BY <3>2, <3>3, XorIs
    <3>5. p + Shl[k] # p /\ p - Shl[k] # p BY <3>3
    <3> QED BY <3>1, <3>4, <3>5
  <2> QED BY <2>5, <2>6, <2>7, <2>8, <1>8
<1>15. AtWork' BY <1>1 DEF AtWork, NoWork, At
<1>16. Carving' BY <1>1, <1>2 DEF BInv, Carving
<1> QED BY <1>1, <1>8, <1>11, <1>12, <1>13, <1>14, <1>15, <1>16 DEF BInv

LEMMA SplitKeeps ==
  ASSUME BInv, SplitBlock
  PROVE  BInv'
<1> DEFINE p  == work.page
           o  == work.order
           h  == work.order - 1
           x  == Xor(work.page, work.order - 1)
           w  == [page |-> p, order |-> o]
           lo == [page |-> p, order |-> h]
           hi == [page |-> x, order |-> h]
<1>1. /\ work.doing = "split" /\ o # work.want
      /\ lists' = Link(lists, x, h) /\ flags' = SetFree(flags, x, h)
      /\ work' = [work EXCEPT !.order = h] /\ UNCHANGED <<held, answer, todo, fault>>
  BY DEF SplitBlock
<1>2. work # NoWork BY <1>1 DEF NoWork, At
<1>3. TypeOK /\ LinkedOnce /\ MaxOrder \in Nat BY BuddyAssumption DEF BInv
<1>4. work \in [doing : {"split", "merge"}, page : Page, order : Order, want : Order]
  BY <1>2, <1>3 DEF TypeOK
<1>5. work.want =< o /\ ~flags[p].free BY <1>1 DEF BInv, AtWork
<1>6. /\ p \in Page /\ p \in Nat /\ o \in Order /\ work.want \in Order /\ h \in Order
      /\ o = h + 1 /\ h \in Nat /\ work.want =< h
  <2>1. p \in Page /\ o \in Order /\ work.want \in Order BY <1>4
  <2>2. o \in 0 .. MaxOrder /\ work.want \in 0 .. MaxOrder BY <2>1 DEF Order
  <2>3. h \in 0 .. MaxOrder /\ o = h + 1 /\ work.want =< h BY <2>2, <1>1, <1>3, <1>5
  <2> QED BY <2>1, <2>3, <1>3, PageZone DEF Order
<1>7. work' = [doing |-> "split", page |-> p, order |-> h, want |-> work.want]
  BY <1>1, <1>4
<1>8. work' # NoWork BY <1>7 DEF NoWork, At
<1>9. Hand = {w} /\ Hand' = {lo}
  <2>1. Hand = {w} BY <1>2, HandIs
  <2>2. work'.page = p /\ work'.order = h BY <1>7
  <2> QED BY <2>1, <2>2, <1>8 DEF Hand
<1>10. w \in Block /\ lo \in Block /\ w.page = p /\ w.order = o /\ lo.page = p /\ lo.order = h
  BY <1>6, BlockOf
<1>11. Aligned(p, h + 1) /\ Pages(w) \subseteq InZone(ZoneOf(p)) /\ p > 0
  BY <1>6, <1>9, <1>10 DEF BInv, Shaped, Blocks
<1>12. Aligned(p, h) BY <1>6, <1>11, AlignedLess
<1>13. Shl[o] = 2 * Shl[h] /\ Shl[h] \in Nat \ {0} BY <1>6, ShlIs, ShlPos
<1>14. x = p + Shl[h] /\ Aligned(x, h) /\ x \in Nat /\ Xor(x, h) = p
  BY <1>6, <1>11, <1>12, XorIs
<1> HIDE DEF p, o, h, x
<1>15. x \in Pages(w) BY <1>6, <1>10, <1>13, <1>14, BlockIs
<1>16. x \in Page /\ ZoneOf(x) = ZoneOf(p) /\ x # p
  <2>1. ZoneOf(p) \in Zone BY <1>6, PageZone
  <2>2. x \in InZone(ZoneOf(p)) BY <1>11, <1>15
  <2> QED BY <2>1, <2>2, <1>6, <1>13, <1>14, ZoneIs
<1>17. hi \in Block /\ hi.page = x /\ hi.order = h BY <1>6, <1>16, BlockOf
<1>18. \A q : q \in Pages(w) <=> q \in Pages(lo) \/ q \in Pages(hi)
  <2>1. \A q : /\ q \in Pages(w) <=> q \in Nat /\ p =< q /\ q < p + Shl[o]
               /\ q \in Pages(lo) <=> q \in Nat /\ p =< q /\ q < p + Shl[h]
               /\ q \in Pages(hi) <=> q \in Nat /\ x =< q /\ q < x + Shl[h]
    BY <1>10, <1>17, BlockIs
  <2> QED BY <2>1, <1>6, <1>13, <1>14
<1>19. \A c \in FreeBlocks \cup held : /\ c # w /\ Apart(c, w) /\ c \in Block
                                       /\ c \in Blocks
  BY <1>9 DEF BInv, Shaped, Blocks
<1>20. \A c \in FreeBlocks \cup held : Apart(c, lo) /\ Apart(c, hi) /\ c # lo /\ c # hi
  <2> SUFFICES ASSUME NEW c \in FreeBlocks \cup held
               PROVE  Apart(c, lo) /\ Apart(c, hi) /\ c # lo /\ c # hi
    OBVIOUS
  <2>1. c \in Block /\ Pages(c) \cap Pages(w) = {} BY <1>10, <1>19, ApartIs
  <2>2. Pages(c) \cap Pages(lo) = {} /\ Pages(c) \cap Pages(hi) = {} BY <2>1, <1>18
  <2>3. c.page \in Pages(c) BY <2>1, BlockIs
  <2> QED BY <2>1, <2>2, <2>3, <1>10, <1>17, ApartIs
<1>21. hi # lo /\ Apart(lo, hi) /\ Apart(hi, lo)
  BY <1>10, <1>14, <1>16, <1>17 DEF Apart
<1>22. /\ lists' \in [Zone -> [Order -> Seq(Page)]] /\ LinkedOnce'
       /\ FreeBlocks' = FreeBlocks \cup {hi}
  BY <1>1, <1>3, <1>6, <1>16, <1>20, LinkAdds
<1>23. Blocks = FreeBlocks \cup held \cup {w} /\ Blocks' = FreeBlocks \cup held \cup {lo, hi}
  BY <1>1, <1>9, <1>22 DEF Blocks
<1>24. /\ flags' \in [Page -> Flags]
       /\ \A q \in Page : q # x => flags'[q] = flags[q]
       /\ flags'[x] = [free |-> TRUE, order |-> h]
  BY <1>1, <1>3, <1>6, <1>16 DEF TypeOK, SetFree, Flags
<1>25. TypeOK'
  <2>1. work' \in [doing : {"split", "merge"}, page : Page, order : Order, want : Order]
    BY <1>6, <1>7
  <2> QED BY <2>1, <1>1, <1>3, <1>22, <1>24 DEF TypeOK
<1>26. Shaped'
  <2>1. ASSUME NEW b \in Blocks'
        PROVE  /\ b \in Block /\ b.page > 0 /\ Aligned(b.page, b.order)
               /\ Pages(b) \subseteq InZone(ZoneOf(b.page))
    <3>1. CASE b \in FreeBlocks \cup held BY <3>1, <1>19 DEF BInv, Shaped
    <3>2. CASE b = lo BY <3>2, <1>10, <1>11, <1>12, <1>18
    <3>3. CASE b = hi
      <4>1. x > 0 BY <1>6, <1>11, <1>13, <1>14
      <4> QED BY <4>1, <3>3, <1>11, <1>14, <1>16, <1>17, <1>18
    <3> QED BY <3>1, <3>2, <3>3, <1>23
  <2>2. FreeBlocks' \cap held' = {} /\ Hand' \cap (FreeBlocks' \cup held') = {}
    <3>1. FreeBlocks \cap held = {} BY DEF BInv, Shaped
    <3> QED BY <3>1, <1>1, <1>9, <1>20, <1>21, <1>22
  <2>3. ASSUME NEW b \in Blocks', NEW c \in Blocks' PROVE b = c \/ Apart(b, c)
    <3>1. CASE b \in FreeBlocks \cup held /\ c \in FreeBlocks \cup held
      BY <3>1, <1>19 DEF BInv, Shaped
    <3>2. CASE b \in FreeBlocks \cup held /\ c \in {lo, hi} BY <3>2, <1>20
    <3>3. CASE c \in FreeBlocks \cup held /\ b \in {lo, hi} BY <3>3, <1>20 DEF Apart
    <3>4. CASE b \in {lo, hi} /\ c \in {lo, hi} BY <3>4, <1>21
    <3> QED BY <3>1, <3>2, <3>3, <3>4, <1>23
  <2> QED BY <2>1, <2>2, <2>3 DEF Shaped
<1>27. \A q : (\E b \in Blocks' : q \in Pages(b)) <=> (\E b \in Blocks : q \in Pages(b))
  BY <1>18, <1>23
<1>28. Covering' BY <1>1, <1>27 DEF BInv, Covering
<1>29. InGiven' BY <1>18, <1>23 DEF BInv, InGiven
<1>30. Marked'
  <2>1. ASSUME NEW c \in FreeBlocks'
        PROVE  flags'[c.page] = [free |-> TRUE, order |-> c.order]
    <3>1. CASE c = hi BY <3>1, <1>17, <1>24
    <3>2. CASE c # hi
      <4>1. c \in FreeBlocks /\ c \in Block BY <3>2, <1>19, <1>22
      <4>2. Apart(c, hi) BY <4>1, <1>20
      <4>3. c.page # x BY <4>1, <4>2, <1>17, BlockIs DEF Apart
      <4> QED BY <4>1, <4>3, <1>24, BlockIs DEF BInv, Marked
    <3> QED BY <3>1, <3>2
  <2>2. ASSUME NEW q \in Page, flags'[q].free
        PROVE  /\ Aligned(q, flags'[q].order)
               /\ \/ [page |-> q, order |-> flags'[q].order] \in FreeBlocks'
                  \/ \E c \in Blocks' : q \in Pages(c) /\ flags'[q].order < c.order
    <3>1. CASE q = x BY <3>1, <1>14, <1>22, <1>24
    <3>2. CASE q # x
      <4> DEFINE f == flags[q].order
      <4>1. flags'[q] = flags[q] BY <3>2, <1>24
      <4>2. /\ Aligned(q, f)
            /\ \/ [page |-> q, order |-> f] \in FreeBlocks
               \/ \E c \in Blocks : q \in Pages(c) /\ f < c.order
        BY <2>2, <4>1 DEF BInv, Marked
      <4>3. q # p BY <2>2, <4>1, <1>5 DEF p
      <4>4. CASE [page |-> q, order |-> f] \in FreeBlocks BY <4>1, <4>2, <4>4, <1>22
      <4>5. CASE \E c \in FreeBlocks \cup held : q \in Pages(c) /\ f < c.order
        BY <4>1, <4>2, <4>5, <1>23
      <4>6. CASE q \in Pages(w) /\ f < o
        <5>1. q \in Pages(lo) \/ q \in Pages(hi) BY <4>6, <1>18
        <5>2. f \in Nat /\ q \in Nat
          <6>1. flags[q] \in Flags BY <1>3 DEF TypeOK
          <6>2. f \in 0 .. MaxOrder BY <6>1 DEF Flags, Order
          <6> QED BY <6>2, <1>3, PageZone
        <5>3. f # h
          <6>1. SUFFICES ASSUME f = h PROVE FALSE
            OBVIOUS
          <6>2. /\ q \in Pages(lo) => p =< q /\ q < p + Shl[h]
                /\ q \in Pages(hi) => x =< q /\ q < x + Shl[h]
            BY <1>10, <1>17, BlockIs
          <6>3. \/ q + Shl[h] =< p
                \/ p + Shl[h] =< q
                \/ p =< q /\ q + Shl[h] =< p + Shl[h]
            BY <4>2, <5>2, <6>1, <1>6, <1>12, <1>14, Nested
          <6>4. \/ q + Shl[h] =< x
                \/ x + Shl[h] =< q
                \/ x =< q /\ q + Shl[h] =< x + Shl[h]
            BY <4>2, <5>2, <6>1, <1>6, <1>12, <1>14, Nested
          <6> QED BY <5>1, <5>2, <6>2, <6>3, <6>4, <4>3, <3>2, <1>6, <1>13, <1>14
        <5>4. f < h BY <4>6, <5>2, <5>3, <1>6
        <5>5. \E c \in {lo, hi} : q \in Pages(c) /\ f < c.order
          BY <5>1, <5>4, <1>10, <1>17
        <5> QED BY <5>5, <4>1, <4>2, <1>23
      <4> QED BY <4>2, <4>4, <4>5, <4>6, <1>10, <1>23
    <3> QED BY <3>1, <3>2
  <2> QED BY <2>1, <2>2 DEF Marked
<1>31. Coalesced'
  <2>1. \A c \in FreeBlocks : c.page # p
    <3> SUFFICES ASSUME NEW c \in FreeBlocks, c.page = p PROVE FALSE
      OBVIOUS
    <3>1. c \in Block /\ Apart(c, w) BY <1>19
    <3> QED BY <3>1, <1>10, BlockIs DEF Apart
  <2>2. SUFFICES ASSUME NEW b \in FreeBlocks', NEW c \in FreeBlocks',
                        b.order < MaxOrder, c.order = b.order,
                        c.page \in InZone(ZoneOf(b.page)), c.page = Xor(b.page, b.order)
                 PROVE  FALSE
    BY DEF Coalesced
  <2>3. b \in Block /\ Aligned(b.page, b.order)
    BY <1>26 DEF Shaped, Blocks
  <2>4. CASE b \in FreeBlocks /\ c \in FreeBlocks BY <2>4, <2>2 DEF BInv, Coalesced
  <2>5. CASE b = hi BY <2>1, <2>2, <2>5, <1>14, <1>16, <1>17, <1>22
  <2>6. CASE b \in FreeBlocks /\ c = hi
    <3>1. b.page = Xor(x, h) BY <2>2, <2>3, <2>6, <1>17, BlockIs, XorIs
    <3> QED BY <3>1, <2>1, <2>6, <1>14
  <2> QED BY <2>4, <2>5, <2>6, <1>22
<1>32. AtWork'
  <2>1. ~flags'[p].free BY <1>5, <1>6, <1>16, <1>24 DEF p
  <2>2. work'.page = p /\ work'.order = h /\ work'.want = work.want BY <1>7
  <2> QED BY <2>1, <2>2, <1>6 DEF AtWork
<1>33. Carving' BY <1>1, <1>2 DEF BInv, Carving
<1> QED BY <1>1, <1>22, <1>25, <1>26, <1>28, <1>29, <1>30, <1>31, <1>32, <1>33 DEF BInv

LEMMA MergeKeeps ==
  ASSUME BInv, MergeBuddy
  PROVE  BInv' /\ ~fault'
<1> DEFINE p   == work.page
           k   == work.order
           x   == Xor(work.page, work.order)
           l   == IF x < p THEN x ELSE p
           w   == [page |-> p, order |-> k]
           b   == [page |-> x, order |-> k]
           new == [page |-> l, order |-> k + 1]
<1>1. /\ work.doing = "merge" /\ ~fault /\ Joins(p, k)
      /\ lists' = Unlink(lists, x) /\ fault' = ~IsLinked(x)
      /\ work' = At("merge", l, k + 1, 0) /\ UNCHANGED <<flags, held, answer, todo>>
  BY DEF MergeBuddy
<1>2. work # NoWork BY <1>1 DEF NoWork, At
<1>3. TypeOK /\ LinkedOnce /\ MaxOrder \in Nat /\ Shaped /\ Marked
  BY BuddyAssumption DEF BInv
<1>4. p \in Page /\ k \in Order BY <1>2, <1>3 DEF TypeOK
<1>5. Hand = {w} /\ Hand' = {new}
  <2>1. work' # NoWork /\ work'.page = l /\ work'.order = k + 1 BY <1>1, HandIs
  <2> QED BY <2>1, <1>2, HandIs DEF Hand
<1>6. /\ k < MaxOrder /\ x \in InZone(ZoneOf(p))
      /\ flags[x] = [free |-> TRUE, order |-> k]
  BY <1>1 DEF Joins
<1> HIDE DEF p, k, x
<1>7. w \in Block /\ w.page = p /\ w.order = k /\ p \in Nat /\ k \in Nat
  BY <1>4, BlockOf, BlockIs
<1>8. w \in Blocks BY <1>5 DEF Blocks
<1>9. Aligned(p, k) /\ Pages(w) \subseteq InZone(ZoneOf(p)) /\ p > 0
  BY <1>3, <1>7, <1>8 DEF Shaped
<1>10. x \in Page /\ ZoneOf(x) = ZoneOf(p) /\ x \in Nat
  BY <1>4, <1>6, PageZone, ZoneIs
<1>11. b \in Block /\ b.page = x /\ b.order = k BY <1>4, <1>10, BlockOf
<1>12. b \in FreeBlocks
  <2>1. Xor(w.page, w.order) = x BY <1>7 DEF x, p, k
  <2> HIDE DEF w
  <2> QED BY <2>1, <1>3, <1>6, <1>7, <1>8, <1>10, Fresh
<1>13. b \in Blocks BY <1>12 DEF Blocks
<1>14. Pages(b) \subseteq InZone(ZoneOf(p)) /\ x > 0
  BY <1>3, <1>10, <1>11, <1>13 DEF Shaped
<1>15. /\ Shl[k + 1] = 2 * Shl[k] /\ Shl[k] \in Nat \ {0}
       /\ l \in Nat /\ Aligned(l, k + 1)
       /\ \/ p = l /\ x = l + Shl[k]
          \/ p = l + Shl[k] /\ x = l
  <2>1. PICK h \in Nat :
          /\ Aligned(h, k + 1) /\ Shl[k + 1] = 2 * Shl[k] /\ Shl[k] \in Nat \ {0}
          /\ \/ p = h /\ x = h + Shl[k]
             \/ p = h + Shl[k] /\ x = h
    BY <1>7, <1>9, Halves DEF x, p, k
  <2>2. l = h BY <2>1, <1>7, <1>10
  <2> QED BY <2>1, <2>2
<1>16. l \in Page /\ l > 0 /\ k + 1 \in Order /\ ZoneOf(l) = ZoneOf(p)
  <2>1. k + 1 \in Order BY <1>3, <1>6, <1>7 DEF Order
  <2> QED BY <2>1, <1>4, <1>9, <1>10, <1>14
<1>17. new \in Block /\ new.page = l /\ new.order = k + 1 BY <1>16, BlockOf
<1> HIDE DEF l
<1>18. \A q : q \in Pages(new) <=> q \in Pages(w) \/ q \in Pages(b)
  <2>1. \A q : /\ q \in Pages(w) <=> q \in Nat /\ p =< q /\ q < p + Shl[k]
               /\ q \in Pages(b) <=> q \in Nat /\ x =< q /\ q < x + Shl[k]
               /\ q \in Pages(new) <=> q \in Nat /\ l =< q /\ q < l + Shl[k + 1]
    BY <1>7, <1>11, <1>17, BlockIs
  <2> QED BY <2>1, <1>15
<1>19. w # b /\ b \notin held
  <2>1. w # b BY <1>7, <1>10, <1>11, <1>15
  <2> QED BY <2>1, <1>3, <1>12 DEF Shaped
<1> DEFINE others == (FreeBlocks \ {b}) \cup held
<1>20. \A c \in others : c # w /\ c # b /\ c \in Blocks /\ c \in Block
  BY <1>3, <1>5, <1>19 DEF Shaped, Blocks
<1>21. \A c \in others : c # new /\ Apart(c, new) /\ Apart(new, c)
  <2> SUFFICES ASSUME NEW c \in others PROVE c # new /\ Apart(c, new) /\ Apart(new, c)
    OBVIOUS
  <2>1. c \in Block /\ Apart(c, w) /\ Apart(c, b)
    BY <1>3, <1>8, <1>13, <1>20 DEF Shaped
  <2>2. Pages(c) \cap Pages(w) = {} /\ Pages(c) \cap Pages(b) = {}
    BY <2>1, <1>7, <1>11, ApartIs
  <2>3. Pages(c) \cap Pages(new) = {} BY <2>2, <1>18
  <2>4. c.page \in Pages(c) BY <2>1, BlockIs
  <2> QED BY <2>1, <2>3, <2>4, <1>17, ApartIs
<1> HIDE DEF w, b, new
<1>22. /\ lists' \in [Zone -> [Order -> Seq(Page)]] /\ LinkedOnce'
       /\ FreeBlocks' = FreeBlocks \ {b} /\ IsLinked(x)
  <2> DEFINE z == ZoneOf(x)
             s == lists[z][k]
             one == [j \in Order |->
                       IF Places(lists[z][j], x) = {} THEN lists[z][j]
                       ELSE RemoveAt(lists[z][j], CHOOSE i \in Places(lists[z][j], x) : TRUE)]
             n == CHOOSE i \in Places(s, x) : TRUE
  <2>1. z \in Zone BY <1>10, PageZone
  <2>2. Sound(s, z) BY <2>1, <1>3, <1>4, ListsSound
  <2>3. x \in ToSet(s) BY <1>3, <1>11, <1>12, FreeIs
  <2>4. Places(s, x) # {} BY <2>3 DEF Places, ToSet
  <2>5. n \in DOMAIN s /\ s[n] = x BY <2>4 DEF Places
  <2>6. ASSUME NEW j \in Order, j # k PROVE Places(lists[z][j], x) = {}
    <3>1. SUFFICES ASSUME NEW i \in DOMAIN lists[z][j], lists[z][j][i] = x PROVE FALSE
      BY DEF Places
    <3> DEFINE c == [page |-> x, order |-> j]
    <3>2. c \in Block /\ c.page = x /\ c.order = j BY <2>6, <1>10, BlockOf
    <3>3. x \in ToSet(lists[z][j]) BY <3>1 DEF ToSet
    <3>4. c \in FreeBlocks BY <3>2, <3>3, <1>3, FreeIs
    <3>5. c # b BY <3>2, <2>6, <1>11
    <3>6. Apart(c, b) BY <3>4, <3>5, <1>3, <1>13 DEF Shaped, Blocks
    <3> QED BY <3>2, <3>6, <1>11, BlockIs DEF Apart
  <2>7. lists' = [lists EXCEPT ![z] = one] BY <1>1 DEF Unlink
  <2>8. one = [lists[z] EXCEPT ![k] = RemoveAt(s, n)]
    <3>1. lists[z] \in [Order -> Seq(Page)] BY <2>1, <1>3 DEF TypeOK
    <3>2. \A j \in Order : j # k => one[j] = lists[z][j] BY <2>6
    <3>3. one[k] = RemoveAt(s, n) BY <2>4, <1>4
    <3>4. one = [j \in Order |-> one[j]] OBVIOUS
    <3> HIDE DEF one
    <3> QED BY <3>1, <3>2, <3>3, <3>4
  <2> HIDE DEF one, n
  <2>9. lists' = [lists EXCEPT ![z][k] = RemoveAt(s, n)] BY <2>7, <2>8
  <2>10. /\ Sound(RemoveAt(s, n), z)
         /\ ToSet(RemoveAt(s, n)) = ToSet(s) \ {x}
    BY <2>2, <2>5, SoundRemove
  <2>11. IsLinked(x) BY <2>4, <1>4 DEF IsLinked
  <2> QED BY <2>9, <2>10, <2>11, <1>3, <1>4, <1>10, Removes DEF b
<1>23. Blocks = others \cup {w, b} /\ Blocks' = others \cup {new}
  <2>1. Blocks = FreeBlocks \cup held \cup {w} BY <1>5 DEF Blocks
  <2>2. Blocks' = (FreeBlocks \ {b}) \cup held \cup {new}
    BY <1>1, <1>5, <1>22 DEF Blocks
  <2> QED BY <2>1, <2>2, <1>12
<1>24. TypeOK' /\ ~fault'
  <2>1. work' \in [doing : {"split", "merge"}, page : Page, order : Order, want : Order]
    BY <1>1, <1>3, <1>16 DEF At, Order
  <2>2. fault' = FALSE BY <1>1, <1>22
  <2> QED BY <2>1, <2>2, <1>1, <1>3, <1>22 DEF TypeOK
<1>25. Shaped'
  <2>1. ASSUME NEW c \in Blocks'
        PROVE  /\ c \in Block /\ c.page > 0 /\ Aligned(c.page, c.order)
               /\ Pages(c) \subseteq InZone(ZoneOf(c.page))
    <3>1. CASE c \in others BY <3>1, <1>3, <1>20 DEF Shaped
    <3>2. CASE c = new BY <3>2, <1>9, <1>14, <1>15, <1>16, <1>17, <1>18
    <3> QED BY <3>1, <3>2, <1>23
  <2>2. FreeBlocks' \cap held' = {} /\ Hand' \cap (FreeBlocks' \cup held') = {}
    <3>1. FreeBlocks \cap held = {} BY <1>3 DEF Shaped
    <3> QED BY <3>1, <1>1, <1>5, <1>21, <1>22
  <2>3. ASSUME NEW c \in Blocks', NEW d \in Blocks' PROVE c = d \/ Apart(c, d)
    <3>1. CASE c \in others /\ d \in others BY <3>1, <1>3, <1>20 DEF Shaped
    <3>2. CASE c = new \/ d = new BY <3>2, <2>3, <1>21, <1>23
    <3> QED BY <3>1, <3>2, <1>23
  <2> QED BY <2>1, <2>2, <2>3 DEF Shaped
<1>26. \A q : (\E c \in Blocks' : q \in Pages(c)) <=> (\E c \in Blocks : q \in Pages(c))
  BY <1>18, <1>23
<1>27. Covering' BY <1>1, <1>26 DEF BInv, Covering
<1>28. InGiven' BY <1>18, <1>23 DEF BInv, InGiven
<1>29. Marked'
  <2>1. ASSUME NEW c \in FreeBlocks'
        PROVE  flags'[c.page] = [free |-> TRUE, order |-> c.order]
    BY <2>1, <1>1, <1>3, <1>22 DEF Marked
  <2>2. ASSUME NEW q \in Page, flags'[q].free
        PROVE  /\ Aligned(q, flags'[q].order)
               /\ \/ [page |-> q, order |-> flags'[q].order] \in FreeBlocks'
                  \/ \E c \in Blocks' : q \in Pages(c) /\ flags'[q].order < c.order
    <3> DEFINE f == flags[q].order
    <3>1. flags'[q] = flags[q] BY <1>1
    <3>2. /\ Aligned(q, f)
          /\ \/ [page |-> q, order |-> f] \in FreeBlocks
             \/ \E c \in Blocks : q \in Pages(c) /\ f < c.order
      BY <2>2, <3>1, <1>3 DEF Marked
    <3>3. f \in Nat
      <4>1. flags[q] \in Flags BY <1>3 DEF TypeOK
      <4>2. f \in 0 .. MaxOrder BY <4>1 DEF Flags, Order
      <4> QED BY <4>2, <1>3
    <3>4. CASE [page |-> q, order |-> f] \in FreeBlocks \ {b}
      BY <3>1, <3>2, <3>4, <1>22
    <3>5. CASE [page |-> q, order |-> f] = b
      <4>1. q \in Pages(b) /\ f = k BY <3>5, <1>11, BlockIs
      <4>2. q \in Pages(new) /\ f < new.order BY <4>1, <1>7, <1>17, <1>18
      <4> QED BY <4>2, <3>1, <3>2, <1>23
    <3>6. CASE \E c \in others : q \in Pages(c) /\ f < c.order
      BY <3>1, <3>2, <3>6, <1>23
    <3>7. CASE (q \in Pages(w) \/ q \in Pages(b)) /\ f < k
      <4>1. q \in Pages(new) /\ f < new.order BY <3>3, <3>7, <1>7, <1>17, <1>18
      <4> QED BY <4>1, <3>1, <3>2, <1>23
    <3> QED BY <3>2, <3>4, <3>5, <3>6, <3>7, <1>7, <1>11, <1>23
  <2> QED BY <2>1, <2>2 DEF Marked
<1>30. Coalesced' BY <1>22 DEF BInv, Coalesced
<1>31. AtWork' BY <1>1, HandIs DEF AtWork
<1>32. Carving' BY <1>1, <1>2 DEF BInv, Carving
<1> QED BY <1>22, <1>24, <1>25, <1>27, <1>28, <1>29, <1>30, <1>31, <1>32 DEF BInv

\* A block that the setup has carved: inside its range, and as large as it can be.
Carved(b) ==
  /\ Pages(b) \subseteq FreedIn(FreeRanges[RangeOf(b.page)])
  /\ \/ b.order = MaxOrder \/ ~Aligned(b.page, b.order + 1)
     \/ b.page + Shl[b.order + 1] > LAST(FreeRanges[RangeOf(b.page)])

\* Of two buddies the lower one would have been carved larger, had both been in
\* one range; and two ranges do not touch.
LEMMA CarvedApart ==
  ASSUME NEW b \in Block, NEW c \in Block, Carved(b), Carved(c),
         RangeOf(b.page) \in DOMAIN FreeRanges, RangeOf(c.page) \in DOMAIN FreeRanges,
         b.order < MaxOrder, c.order = b.order, Aligned(b.page, b.order + 1),
         c.page = b.page + Shl[b.order]
  PROVE  FALSE
<1> DEFINE k == b.order
           i == RangeOf(b.page)
           j == RangeOf(c.page)
           s == Shl[k]
<1>1. /\ k \in Nat /\ b.page \in Nat /\ c.page \in Nat /\ s \in Nat \ {0}
      /\ Shl[k + 1] = 2 * s
  BY BlockIs, ShlIs
<1>2. /\ LAST(FreeRanges[i]) \in Nat /\ FIRST(FreeRanges[i]) \in Nat
      /\ LAST(FreeRanges[j]) \in Nat /\ FIRST(FreeRanges[j]) \in Nat
      /\ FreedFirst(FreeRanges[i]) \in Nat /\ FreedFirst(FreeRanges[j]) \in Nat
      /\ FIRST(FreeRanges[i]) =< FreedFirst(FreeRanges[i])
      /\ FIRST(FreeRanges[j]) =< FreedFirst(FreeRanges[j])
      /\ i \in Nat /\ j \in Nat
  BY RangeTypes
<1>3. b.page + 2 * s > LAST(FreeRanges[i])
  <2>1. k # MaxOrder BY <1>1, BuddyAssumption
  <2> QED BY <2>1, <1>1 DEF Carved
<1>4. /\ b.page + s - 1 \in FreedIn(FreeRanges[i]) /\ b.page \in FreedIn(FreeRanges[i])
      /\ c.page + s - 1 \in FreedIn(FreeRanges[j]) /\ c.page \in FreedIn(FreeRanges[j])
  <2>1. /\ b.page + s - 1 \in Pages(b) /\ b.page \in Pages(b)
        /\ c.page + s - 1 \in Pages(c) /\ c.page \in Pages(c)
    BY <1>1, BlockIs
  <2> QED BY <2>1 DEF Carved
<1>5. c.page = b.page + s OBVIOUS
<1> HIDE DEF k, i, j, s
<1>6. /\ FIRST(FreeRanges[i]) =< b.page /\ b.page + s =< LAST(FreeRanges[i])
      /\ FIRST(FreeRanges[j]) =< c.page /\ c.page + s =< LAST(FreeRanges[j])
  BY <1>1, <1>2, <1>4 DEF FreedIn
<1>7. i # j BY <1>1, <1>2, <1>3, <1>5, <1>6
<1>8. ~(i < j) BY <1>1, <1>2, <1>5, <1>6, RangesApart DEF i, j
<1>9. ~(j < i) BY <1>1, <1>2, <1>5, <1>6, RangesApart DEF i, j
<1> QED BY <1>2, <1>7, <1>8, <1>9

LEMMA CarveIs ==
  ASSUME NEW p \in Given, NEW end, end = LAST(FreeRanges[RangeOf(p)])
  PROVE  /\ CarveOrder(p, end) \in Order /\ Aligned(p, CarveOrder(p, end))
         /\ p + Shl[CarveOrder(p, end)] =< end
         /\ \/ CarveOrder(p, end) = MaxOrder \/ ~Aligned(p, CarveOrder(p, end) + 1)
            \/ p + Shl[CarveOrder(p, end) + 1] > end
<1> DEFINE S == {k \in Order : \/ k = MaxOrder
                               \/ ~Aligned(p, k + 1)
                               \/ p + Shl[k + 1] > end}
           o == Min(S)
<1>1. MaxOrder \in Nat BY BuddyAssumption
<1>2. RangeOf(p) \in DOMAIN FreeRanges /\ p \in FreedIn(FreeRanges[RangeOf(p)])
  BY GivenRange
<1>3. p \in Nat /\ end \in Nat /\ p < end
  <2>1. p \in Nat BY <1>2, RangeIs
  <2>2. end \in Nat BY <1>2, RangeTypes
  <2>3. p =< end - 1 BY <1>2, <2>1, <2>2, RangeTypes DEF FreedIn
  <2> QED BY <2>1, <2>2, <2>3
<1>4. MaxOrder \in S /\ S \subseteq Nat BY <1>1 DEF Order
<1>5. o \in S /\ \A m \in S : o =< m BY <1>4, MinIs
<1>6. CarveOrder(p, end) = o BY DEF CarveOrder
<1> HIDE DEF o
<1>7. o \in 0 .. MaxOrder BY <1>5 DEF Order
<1>8. CASE o = 0
  <2>1. Shl[0] = 1 BY ShlIs
  <2>2. p % 1 = 0 BY <1>3
  <2> QED BY <2>1, <2>2, <1>3, <1>5, <1>6, <1>8 DEF Aligned
<1>9. CASE o # 0
  <2>1. o - 1 \in Order /\ ~(o =< o - 1) /\ (o - 1) + 1 = o BY <1>1, <1>7, <1>9 DEF Order
  <2>2. o - 1 \notin S BY <1>5, <2>1
  <2>3. Aligned(p, o) /\ ~(p + Shl[o] > end) BY <2>1, <2>2
  <2>4. Shl[o] \in Nat BY <1>7, ShlPos
  <2>5. p + Shl[o] =< end BY <2>3, <2>4, <1>3
  <2> QED BY <2>3, <2>5, <1>5, <1>6
<1> QED BY <1>8, <1>9

LEMMA CarveKeeps ==
  ASSUME BInv, CarveBlock
  PROVE  BInv'
<1> DEFINE p == Min(todo)
           F == FreeRanges[RangeOf(p)]
           o == CarveOrder(p, LAST(F))
           b == [page |-> p, order |-> o]
<1>1. /\ todo # {}
      /\ lists' = [lists EXCEPT ![ZoneOf(p)][o] = Append(@, p)]
      /\ flags' = SetFree(flags, p, o)
      /\ todo' = todo \ Pages(b)
      /\ UNCHANGED <<held, answer, work, fault>>
  BY DEF CarveBlock
<1>2. TypeOK /\ LinkedOnce /\ MaxOrder \in Nat /\ Shaped /\ Covering /\ InGiven /\ Marked
  BY BuddyAssumption DEF BInv
<1>3. /\ held = {} /\ work = NoWork
      /\ \A q \in Given, r \in todo : r =< q => q \in todo
      /\ \A c \in FreeBlocks : Carved(c)
  BY <1>1 DEF BInv, Carving, Carved
<1>4. todo \subseteq Given BY <1>2 DEF TypeOK
<1>5. \A q \in Given : q \in Nat /\ q > 0 BY GivenRange, RangeIs
<1>6. p \in todo /\ \A m \in todo : p =< m
  <2>1. todo \subseteq Nat BY <1>4, <1>5
  <2> QED BY <2>1, <1>1, MinIs
<1>7. p \in Given /\ p \in Nat /\ p > 0 BY <1>4, <1>5, <1>6
<1> HIDE DEF p
<1>8. RangeOf(p) \in DOMAIN FreeRanges /\ p \in FreedIn(F) BY <1>7, GivenRange
<1>9. /\ o \in Order /\ Aligned(p, o) /\ p + Shl[o] =< LAST(F)
      /\ \/ o = MaxOrder \/ ~Aligned(p, o + 1) \/ p + Shl[o + 1] > LAST(F)
  BY <1>7, CarveIs
<1> HIDE DEF o
<1>10. p \in Page BY <1>8, RangeInZone
<1>11. b \in Block /\ b.page = p /\ b.order = o BY <1>9, <1>10, BlockOf
<1>12. Pages(b) \subseteq FreedIn(F)
  <2>1. \A q \in Pages(b) : q \in Nat /\ p =< q /\ q < p + Shl[o] BY <1>11, BlockIs
  <2>2. Shl[o] \in Nat BY <1>11, BlockIs
  <2> QED BY <2>1, <2>2, <1>7, <1>8, <1>9, RangeTypes DEF FreedIn
<1>13. Pages(b) \subseteq Given BY <1>8, <1>12 DEF Given
<1>14. Pages(b) \subseteq todo
  <2>1. \A q \in Pages(b) : p =< q BY <1>11, BlockIs
  <2> QED BY <2>1, <1>3, <1>6, <1>13
<1>15. Pages(b) \subseteq InZone(ZoneOf(p)) BY <1>8, <1>12, RangeInZone
<1>16. Hand = {} /\ Hand' = {} BY <1>1, <1>3, HandIs DEF Hand
<1>17. Blocks = FreeBlocks BY <1>3, <1>16 DEF Blocks
<1>18. \A c \in FreeBlocks : c \in Block /\ Pages(c) \subseteq Given \ todo
  <2> SUFFICES ASSUME NEW c \in FreeBlocks
               PROVE  c \in Block /\ Pages(c) \subseteq Given \ todo
    OBVIOUS
  <2>1. c \in Block /\ Pages(c) \subseteq Given BY <1>2, <1>17 DEF InGiven, FreeBlocks
  <2>2. \A q \in Pages(c) : q \notin todo BY <2>1, <1>2, <1>17 DEF Covering
  <2> QED BY <2>1, <2>2
<1>19. \A c \in FreeBlocks : Apart(c, b) /\ Apart(b, c) /\ c # b /\ c.page # p
  <2> SUFFICES ASSUME NEW c \in FreeBlocks
               PROVE  Apart(c, b) /\ Apart(b, c) /\ c # b /\ c.page # p
    OBVIOUS
  <2>1. Pages(c) \cap Pages(b) = {} BY <1>14, <1>18
  <2>2. c \in Block BY <1>18
  <2>3. Apart(c, b) /\ Apart(b, c) BY <2>1, <2>2, <1>11, ApartIs
  <2>4. p \in Pages(b) /\ c.page \in Pages(c) BY <2>2, <1>11, BlockIs
  <2> QED BY <2>1, <2>3, <2>4, <1>11
<1> HIDE DEF b
<1>20. /\ lists' \in [Zone -> [Order -> Seq(Page)]] /\ LinkedOnce'
       /\ FreeBlocks' = FreeBlocks \cup {b}
  BY <1>1, <1>2, <1>9, <1>10, <1>19, AppendAdds DEF b
<1>21. Blocks' = FreeBlocks \cup {b} BY <1>1, <1>3, <1>16, <1>20 DEF Blocks
<1>22. /\ flags' \in [Page -> Flags]
       /\ \A q \in Page : q # p => flags'[q] = flags[q]
       /\ flags'[p] = [free |-> TRUE, order |-> o]
  BY <1>1, <1>2, <1>9, <1>10 DEF TypeOK, SetFree, Flags
<1>23. TypeOK' BY <1>1, <1>2, <1>4, <1>20, <1>22 DEF TypeOK
<1>24. Shaped'
  <2>1. ASSUME NEW c \in Blocks'
        PROVE  /\ c \in Block /\ c.page > 0 /\ Aligned(c.page, c.order)
               /\ Pages(c) \subseteq InZone(ZoneOf(c.page))
    <3>1. CASE c \in FreeBlocks BY <3>1, <1>2, <1>17 DEF Shaped
    <3>2. CASE c = b BY <3>2, <1>7, <1>9, <1>11, <1>15
    <3> QED BY <3>1, <3>2, <1>21
  <2>2. FreeBlocks' \cap held' = {} /\ Hand' \cap (FreeBlocks' \cup held') = {}
    BY <1>1, <1>3, <1>16
  <2>3. ASSUME NEW c \in Blocks', NEW d \in Blocks' PROVE c = d \/ Apart(c, d)
    <3>1. CASE c \in FreeBlocks /\ d \in FreeBlocks BY <3>1, <1>2, <1>17 DEF Shaped
    <3>2. CASE c = b \/ d = b BY <3>2, <2>3, <1>19, <1>21
    <3> QED BY <3>1, <3>2, <1>21
  <2> QED BY <2>1, <2>2, <2>3 DEF Shaped
<1>25. Covering'
  <2> SUFFICES ASSUME NEW q \in Given
               PROVE  q \in todo' <=> ~(\E c \in Blocks' : q \in Pages(c))
    BY DEF Covering
  <2>1. q \in todo <=> ~(\E c \in FreeBlocks : q \in Pages(c)) BY <1>2, <1>17 DEF Covering
  <2>2. CASE q \in Pages(b) BY <2>2, <1>1, <1>21 DEF b
  <2>3. CASE q \notin Pages(b)
    <3>1. q \in todo' <=> q \in todo BY <2>3, <1>1 DEF b
    <3>2. (\E c \in Blocks' : q \in Pages(c)) <=> (\E c \in FreeBlocks : q \in Pages(c))
      BY <2>3, <1>21
    <3> QED BY <2>1, <3>1, <3>2
  <2> QED BY <2>2, <2>3
<1>26. InGiven' BY <1>2, <1>13, <1>17, <1>21 DEF InGiven
<1>27. Marked'
  <2>1. ASSUME NEW c \in FreeBlocks'
        PROVE  flags'[c.page] = [free |-> TRUE, order |-> c.order]
    <3>1. CASE c = b BY <3>1, <1>11, <1>22
    <3>2. CASE c \in FreeBlocks
      <4>1. c.page \in Page /\ c.page # p BY <3>2, <1>18, <1>19, BlockIs
      <4> QED BY <4>1, <3>2, <1>2, <1>22 DEF Marked
    <3> QED BY <3>1, <3>2, <1>20
  <2>2. ASSUME NEW q \in Page, flags'[q].free
        PROVE  /\ Aligned(q, flags'[q].order)
               /\ \/ [page |-> q, order |-> flags'[q].order] \in FreeBlocks'
                  \/ \E c \in Blocks' : q \in Pages(c) /\ flags'[q].order < c.order
    <3>1. CASE q = p BY <3>1, <1>9, <1>20, <1>22 DEF b
    <3>2. CASE q # p
      <4>1. flags'[q] = flags[q] BY <3>2, <1>22
      <4> QED BY <2>2, <4>1, <1>2, <1>17, <1>20, <1>21 DEF Marked
    <3> QED BY <3>1, <3>2
  <2> QED BY <2>1, <2>2 DEF Marked
<1>28. \A c \in FreeBlocks' : Carved(c) /\ c \in Block /\ RangeOf(c.page) \in DOMAIN FreeRanges
  <2>1. Carved(b) BY <1>9, <1>11, <1>12 DEF Carved
  <2>2. \A c \in FreeBlocks : RangeOf(c.page) \in DOMAIN FreeRanges
    BY <1>18, BlockIs, GivenRange
  <2> QED BY <2>1, <2>2, <1>3, <1>8, <1>11, <1>18, <1>20
<1>29. Coalesced'
  <2> SUFFICES ASSUME NEW c \in FreeBlocks', NEW d \in FreeBlocks',
                      c.order < MaxOrder, d.order = c.order, d.page = Xor(c.page, c.order)
               PROVE  FALSE
    BY DEF Coalesced
  <2>1. c \in Block /\ d \in Block /\ Aligned(c.page, c.order)
    BY <1>24, <1>28 DEF Shaped, Blocks
  <2>2. PICK l \in Nat :
          /\ Aligned(l, c.order + 1) /\ Shl[c.order + 1] = 2 * Shl[c.order]
          /\ Shl[c.order] \in Nat \ {0}
          /\ \/ c.page = l /\ Xor(c.page, c.order) = l + Shl[c.order]
             \/ c.page = l + Shl[c.order] /\ Xor(c.page, c.order) = l
    BY <2>1, BlockIs, Halves
  <2>3. CASE c.page = l /\ d.page = l + Shl[c.order]
    BY <2>1, <2>2, <2>3, <1>28, CarvedApart
  <2>4. CASE c.page = l + Shl[c.order] /\ d.page = l
    BY <2>1, <2>2, <2>4, <1>28, CarvedApart
  <2> QED BY <2>2, <2>3, <2>4
<1>30. AtWork' BY <1>1, <1>3 DEF AtWork, NoWork, At
<1>31. Carving'
  <2>1. held' = {} /\ work' = NoWork BY <1>1, <1>3
  <2>2. ASSUME NEW q \in Given, NEW r \in todo', r =< q PROVE q \in todo'
    <3>1. r \in todo /\ r \notin Pages(b) /\ r \in Nat /\ q \in Nat
      BY <2>2, <1>1, <1>4, <1>5 DEF b
    <3>2. q \in todo BY <3>1, <2>2, <1>3
    <3>3. p =< r BY <3>1, <1>6
    <3>4. q \notin Pages(b) BY <3>1, <3>3, <2>2, <1>7, <1>11, BlockIs
    <3> QED BY <3>2, <3>4, <1>1 DEF b
  <2>3. \A c \in FreeBlocks' : Carved(c) BY <1>28
  <2> QED BY <2>1, <2>2, <2>3 DEF Carving, Carved
<1>32. ~fault' BY <1>1 DEF BInv
<1> QED BY <1>20, <1>23, <1>24, <1>25, <1>26, <1>27, <1>29, <1>30, <1>31, <1>32 DEF BInv

LEMMA StepKeeps ==
  ASSUME BInv, [Next]_vars
  PROVE  BInv'
<1>1. CASE CarveBlock BY <1>1, CarveKeeps
<1>2. CASE \E order \in 0 .. MaxOrder + 1 : Alloc(order) \/ Refuse(order)
  BY <1>2, AllocKeeps, RefuseKeeps
<1>3. CASE SplitBlock BY <1>3, SplitKeeps
<1>4. CASE HandOut BY <1>4, HandOutKeeps
<1>5. CASE \E b \in held : Free(b) BY <1>5, FreeKeeps
<1>6. CASE MergeBuddy BY <1>6, MergeKeeps
<1>7. CASE MergeEnds BY <1>7, MergeEndsKeeps
<1>8. CASE UNCHANGED vars
  <2>1. UNCHANGED <<flags, lists, held, answer, todo, work, fault>> BY <1>8 DEF vars
  <2>2. UNCHANGED <<FreeBlocks, Hand, Blocks>> BY <2>1 DEF FreeBlocks, Hand, Blocks
  <2>3. TypeOK' BY <2>1 DEF BInv, TypeOK
  <2>4. Shaped' /\ Covering' /\ InGiven' BY <2>1, <2>2 DEF BInv, Shaped, Covering, InGiven
  <2>5. LinkedOnce' BY <2>1 DEF BInv, LinkedOnce
  <2>6. Marked' /\ Coalesced' BY <2>1, <2>2 DEF BInv, Marked, Coalesced
  <2>7. AtWork' BY <2>1 DEF BInv, AtWork
  <2>8. Carving' BY <2>1, <2>2 DEF BInv, Carving
  <2> QED BY <2>1, <2>3, <2>4, <2>5, <2>6, <2>7, <2>8 DEF BInv
<1> QED BY <1>1, <1>2, <1>3, <1>4, <1>5, <1>6, <1>7, <1>8 DEF Next

-----------------------------------------------------------------------------
(* What follows from the invariant                                         *)

LEMMA OnceFollows ==
  ASSUME BInv
  PROVE  EveryPageOnce
<1>1. \A b \in Blocks : b \in Block /\ Aligned(b.page, b.order) BY DEF BInv, Shaped
<1>2. FreeBlocks \cap held = {} /\ Hand \cap (FreeBlocks \cup held) = {}
  BY DEF BInv, Shaped
<1>3. \A b, c \in Blocks : b # c => Pages(b) \cap Pages(c) = {}
  <2> SUFFICES ASSUME NEW b \in Blocks, NEW c \in Blocks, b # c
               PROVE  Pages(b) \cap Pages(c) = {}
    OBVIOUS
  <2>1. Apart(b, c) BY DEF BInv, Shaped
  <2> QED BY <2>1, <1>1, ApartIs
<1>4. UNION {Pages(b) : b \in Blocks} = Given \ todo
  <2>1. ASSUME NEW p \in UNION {Pages(b) : b \in Blocks} PROVE p \in Given \ todo
    <3>1. PICK b \in Blocks : p \in Pages(b) OBVIOUS
    <3>2. p \in Given BY <3>1 DEF BInv, InGiven
    <3> QED BY <3>1, <3>2 DEF BInv, Covering
  <2>2. ASSUME NEW p \in Given \ todo PROVE p \in UNION {Pages(b) : b \in Blocks}
    BY DEF BInv, Covering
  <2> QED BY <2>1, <2>2
<1>5. \A z \in Zone, k \in Order :
        IsInjective(lists[z][k]) /\ ToSet(lists[z][k]) \subseteq InZone(z)
  BY DEF BInv, LinkedOnce, IsInjective, ToSet
<1> QED BY <1>1, <1>2, <1>3, <1>4, <1>5 DEF EveryPageOnce

LEMMA MarksFollow ==
  ASSUME BInv
  PROVE  BuddyMarksAreFresh
<1> SUFFICES ASSUME NEW b \in Blocks, b.order < MaxOrder,
                    Xor(b.page, b.order) \in InZone(ZoneOf(b.page))
             PROVE  flags[Xor(b.page, b.order)] = [free |-> TRUE, order |-> b.order]
                      <=> Xor(b.page, b.order) \in ToSet(lists[ZoneOf(b.page)][b.order])
  BY DEF BuddyMarksAreFresh
<1> DEFINE x == Xor(b.page, b.order)
           c == [page |-> x, order |-> b.order]
           z == ZoneOf(b.page)
<1>1. b \in Block /\ TypeOK /\ LinkedOnce /\ Shaped /\ Marked BY DEF BInv, Shaped
<1>2. z \in Zone BY <1>1, BlockIs, PageZone
<1>3. x \in Page /\ ZoneOf(x) = z BY <1>2, ZoneIs
<1>4. c \in Block /\ c.page = x /\ c.order = b.order BY <1>1, <1>3, BlockIs, BlockOf
<1>5. c \in FreeBlocks <=> x \in ToSet(lists[z][b.order]) BY <1>1, <1>3, <1>4, FreeIs
<1>6. flags[x] = [free |-> TRUE, order |-> b.order] => c \in FreeBlocks
  BY <1>1, <1>3, Fresh
<1>7. c \in FreeBlocks => flags[x] = [free |-> TRUE, order |-> b.order]
  BY <1>1, <1>4 DEF Marked
<1> QED BY <1>5, <1>6, <1>7

-----------------------------------------------------------------------------
(* The promise                                                             *)

Avail == (UNION {Pages(b) : b \in FreeBlocks \cup Hand}) \cup todo

LEMMA PromiseNames ==
  /\ \A b : Promise!Pages(b) = Pages(b)
  /\ Promise!NoAnswer = NoAnswer
  /\ Promise!poolVars = <<Avail, held, answer>>
<1>1. Promise!Shl = Shl BY DEF Promise!Shl, Shl
<1>2. \A b : Promise!Pages(b) = Pages(b) BY <1>1 DEF Promise!Pages, Pages
<1> QED BY <1>2 DEF Promise!NoAnswer, NoAnswer, Promise!poolVars, Avail

LEMMA CandidateIs ==
  ASSUME NEW order, NEW b \in Promise!Candidates(order)
  PROVE  /\ b.page \in Avail /\ b.order = order /\ order \in 0 .. MaxOrder
         /\ b.page % Shl[order] = 0 /\ Pages(b) \subseteq Avail
<1>1. Promise!Shl = Shl BY DEF Promise!Shl, Shl
<1>2. Promise!Pages(b) = Pages(b) BY PromiseNames
<1> QED BY <1>1, <1>2 DEF Promise!Candidates, Avail

LEMMA IsCandidate ==
  ASSUME NEW b \in Block, Aligned(b.page, b.order), Pages(b) \subseteq Avail
  PROVE  b \in Promise!Candidates(b.order)
<1>1. Promise!Shl = Shl BY DEF Promise!Shl, Shl
<1>2. Promise!Pages(b) = Pages(b) BY PromiseNames
<1>3. b.page \in Avail BY BlockIs
<1>4. b.order \in 0 .. MaxOrder BY BlockIs
<1>5. b \in [page : Avail, order : {b.order} \cap 0 .. MaxOrder] BY <1>3, <1>4, BlockIs
<1> QED BY <1>1, <1>2, <1>5 DEF Promise!Candidates, Avail, Aligned

LEMMA InitPromises ==
  ASSUME Init
  PROVE  Promise!Init
<1>1. lists = [z \in Zone |-> [k \in Order |-> <<>>]] BY DEF Init
<1>2. FreeBlocks = {} /\ Hand = {}
  BY <1>1 DEF Init, FreeBlocks, Hand, ToSet, Block
<1>3. Avail = Given BY <1>2 DEF Avail, Init
<1> QED BY <1>3, PromiseNames DEF Promise!Init, Init, Avail

LEMMA AvailIs ==
  ASSUME BInv
  PROVE  /\ \A p : p \in Avail <=> p \in todo \/ \E b \in FreeBlocks \cup Hand : p \in Pages(b)
         /\ Avail \subseteq Given
<1>1. \A p : p \in Avail <=> p \in todo \/ \E b \in FreeBlocks \cup Hand : p \in Pages(b)
  BY DEF Avail
<1>2. todo \subseteq Given BY DEF BInv, TypeOK
<1>3. \A b \in FreeBlocks \cup Hand : Pages(b) \subseteq Given BY DEF BInv, InGiven, Blocks
<1> QED BY <1>1, <1>2, <1>3

\* A page that is free and stays free whichever block it comes to lie in.
LEMMA SameAvail ==
  ASSUME BInv, BInv', UNCHANGED <<held, answer>>
  PROVE  UNCHANGED Promise!poolVars
<1>1. \A b \in held, c \in FreeBlocks \cup Hand : Pages(b) \cap Pages(c) = {}
  <2> SUFFICES ASSUME NEW b \in held, NEW c \in FreeBlocks \cup Hand
               PROVE  Pages(b) \cap Pages(c) = {}
    OBVIOUS
  <2>1. b # c /\ b \in Blocks /\ c \in Blocks BY DEF BInv, Shaped, Blocks
  <2> QED BY <2>1, OnceFollows DEF EveryPageOnce
<1>2. \A b \in held', c \in (FreeBlocks \cup Hand)' : Pages(b) \cap Pages(c) = {}
  <2> SUFFICES ASSUME NEW b \in held', NEW c \in (FreeBlocks \cup Hand)'
               PROVE  Pages(b) \cap Pages(c) = {}
    OBVIOUS
  <2>1. b # c /\ b \in Blocks' /\ c \in Blocks' BY DEF BInv, Shaped, Blocks
  <2>2. b \in Block /\ c \in Block /\ Apart(b, c) BY <2>1 DEF BInv, Shaped
  <2> QED BY <2>2, ApartIs
<1>3. \A p \in Given : p \in Avail <=> ~\E b \in held : p \in Pages(b)
  <2> SUFFICES ASSUME NEW p \in Given
               PROVE  p \in Avail <=> ~\E b \in held : p \in Pages(b)
    OBVIOUS
  <2>1. p \in todo <=> ~\E b \in Blocks : p \in Pages(b) BY DEF BInv, Covering
  <2>2. p \in Avail <=> p \in todo \/ \E b \in FreeBlocks \cup Hand : p \in Pages(b)
    BY AvailIs
  <2> QED BY <2>1, <2>2, <1>1 DEF Blocks
<1>4. \A p \in Given : p \in Avail' <=> ~\E b \in held' : p \in Pages(b)
  <2> SUFFICES ASSUME NEW p \in Given
               PROVE  p \in Avail' <=> ~\E b \in held' : p \in Pages(b)
    OBVIOUS
  <2>1. p \in todo' <=> ~\E b \in Blocks' : p \in Pages(b) BY DEF BInv, Covering
  <2>2. p \in Avail' <=> p \in todo' \/ \E b \in (FreeBlocks \cup Hand)' : p \in Pages(b)
    BY DEF Avail
  <2> QED BY <2>1, <2>2, <1>2 DEF Blocks
<1>5. Avail \subseteq Given BY AvailIs
<1>6. Avail' \subseteq Given
  <2>1. todo' \subseteq Given BY DEF BInv, TypeOK
  <2>2. \A b \in (FreeBlocks \cup Hand)' : Pages(b) \subseteq Given
    BY DEF BInv, InGiven, Blocks
  <2> QED BY <2>1, <2>2 DEF Avail
<1>7. Avail' = Avail BY <1>3, <1>4, <1>5, <1>6
<1> QED BY <1>7 DEF Promise!poolVars, Avail

\* Two buddies are never both free; for two halves of free pages that come in
\* the order of their addresses.
LEMMA NotBothFree ==
  ASSUME BInv, NEW b \in FreeBlocks, NEW c \in FreeBlocks, b.order < MaxOrder,
         c.order = b.order, Aligned(b.page, b.order + 1), c.page = b.page + Shl[b.order]
  PROVE  FALSE
<1> DEFINE k == b.order
           s == Shl[b.order]
<1>1. /\ b \in Block /\ c \in Block /\ Aligned(b.page, k)
      /\ Pages(b) \subseteq InZone(ZoneOf(b.page))
      /\ Pages(b) \subseteq Given /\ Pages(c) \subseteq Given
  BY DEF BInv, Shaped, InGiven, Blocks
<1>2. b.page \in Nat /\ c.page \in Nat /\ k \in Nat /\ s \in Nat \ {0} BY <1>1, BlockIs
<1>3. Xor(b.page, k) = c.page BY <1>1, <1>2, XorIs
<1>4. /\ b.page + s - 1 \in Pages(b) /\ c.page \in Pages(c)
      /\ (b.page + s - 1) + 1 = c.page /\ b.page + s - 1 \in Nat
  BY <1>1, <1>2, BlockIs
<1>5. ZoneOf(c.page) = ZoneOf(b.page + s - 1) BY <1>1, <1>4, NeighboursGiven
<1>6. ZoneOf(b.page) \in Zone BY <1>1, BlockIs, PageZone
<1>7. ZoneOf(b.page + s - 1) = ZoneOf(b.page) BY <1>1, <1>4, <1>6, ZoneIs
<1>8. c.page \in InZone(ZoneOf(c.page)) BY <1>1, BlockIs, PageZone
<1> QED BY <1>3, <1>5, <1>7, <1>8 DEF BInv, Coalesced

\* An aligned run of 2^k free pages in which every free block has an order
\* below k.
Gap(p, k) ==
  /\ p \in Nat /\ Aligned(p, k)
  /\ \A q \in Nat : p =< q /\ q < p + Shl[k] => q \in Avail
  /\ \A f \in FreeBlocks :
       \A q \in Pages(f) : p =< q /\ q < p + Shl[k] => f.order < k

\* There is none, since the halves of the shortest would be free buddies.
LEMMA NoGap ==
  ASSUME BInv, todo = {}, Hand = {}, NEW k \in Order, NEW p, Gap(p, k)
  PROVE  FALSE
<1>1. MaxOrder \in Nat BY BuddyAssumption
<1> DEFINE T == {n \in 0 .. MaxOrder : \E q : Gap(q, n)}
<1>2. k \in T /\ T \subseteq Nat BY <1>1 DEF Order
<1>3. PICK n \in T : \A m \in T : n =< m BY <1>2, Least
<1>4. PICK l : Gap(l, n) BY <1>3
<1>5. n \in Nat /\ n =< MaxOrder BY <1>1, <1>3
<1>6. \A q \in Avail : \E f \in FreeBlocks : q \in Pages(f) BY AvailIs
<1>7. \A f \in FreeBlocks : /\ f \in Block /\ f.order \in Nat /\ f.page \in Nat
                            /\ Aligned(f.page, f.order)
  BY BlockIs DEF BInv, Shaped, Blocks
<1>8. n # 0
  <2>1. Shl[n] \in Nat \ {0} /\ l \in Nat BY <1>4, <1>5, ShlPos DEF Gap
  <2>2. l \in Avail BY <1>4, <2>1 DEF Gap
  <2>3. PICK f \in FreeBlocks : l \in Pages(f) BY <2>2, <1>6
  <2>4. f.order < n BY <1>4, <2>1, <2>3 DEF Gap
  <2> QED BY <2>4, <1>7
<1> DEFINE h == n - 1
           s == Shl[h]
           u == l + s
<1>9. h \in Nat /\ h + 1 = n /\ h < MaxOrder /\ h \in 0 .. MaxOrder BY <1>1, <1>5, <1>8
<1>10. Shl[n] = 2 * s /\ s \in Nat \ {0} BY <1>9, ShlIs, ShlPos
<1>11. l \in Nat /\ Aligned(l, n) BY <1>4 DEF Gap
<1>12. Aligned(l, h) BY <1>5, <1>9, <1>11, AlignedLess
<1>13. u \in Nat /\ Aligned(u, h)
  <2>1. Xor(l, h) = u /\ Aligned(Xor(l, h), h) BY <1>9, <1>11, <1>12, XorIs
  <2> QED BY <2>1, <1>10, <1>11
\* Each half is a free block.
<1>14. ASSUME NEW x \in {l, u}
       PROVE  \E f \in FreeBlocks : f.order = h /\ f.page = x
  <2>1. x \in Nat /\ Aligned(x, h) /\ l =< x /\ x + s =< l + Shl[n]
    BY <1>10, <1>11, <1>12, <1>13
  <2>2. \A q \in Nat : x =< q /\ q < x + Shl[h] => l =< q /\ q < l + Shl[n]
    BY <2>1, <1>10, <1>11
  <2>3. ~Gap(x, h) BY <1>3, <1>5, <1>9
  <2>4. \A q \in Nat : x =< q /\ q < x + Shl[h] => q \in Avail
    BY <2>2, <1>4 DEF Gap
  <2>12. PICK f \in FreeBlocks : \E q \in Pages(f) :
          x =< q /\ q < x + Shl[h] /\ ~(f.order < h)
    BY <2>1, <2>3, <2>4 DEF Gap
  <2>5. PICK q \in Pages(f) : x =< q /\ q < x + Shl[h] /\ ~(f.order < h)
    BY <2>12
  <2>6. q \in Nat /\ f.page =< q /\ q < f.page + Shl[f.order] BY <2>5, <1>7, BlockIs
  <2>7. f.order < n BY <2>2, <2>5, <2>6, <1>4 DEF Gap
  <2>8. f.order = h BY <2>5, <2>7, <1>7, <1>9
  <2>9. \/ x + Shl[h] =< f.page
        \/ f.page + Shl[h] =< x
        \/ f.page =< x /\ x + Shl[h] =< f.page + Shl[h]
    BY <2>1, <2>8, <1>7, <1>9, Nested
  <2>10. \/ f.page + Shl[h] =< x
         \/ x + Shl[h] =< f.page
         \/ x =< f.page /\ f.page + Shl[h] =< x + Shl[h]
    BY <2>1, <2>8, <1>7, <1>9, Nested
  <2>11. f.page = x BY <2>1, <2>5, <2>6, <2>8, <2>9, <2>10, <1>7, <1>10
  <2> QED BY <2>8, <2>11
<1>15. PICK f \in FreeBlocks : f.order = h /\ f.page = l BY <1>14
<1>16. PICK g \in FreeBlocks : g.order = h /\ g.page = u BY <1>14
<1> QED BY <1>9, <1>11, <1>15, <1>16, NotBothFree

LEMMA RefusesRightly ==
  ASSUME BInv, Idle, NEW order \in 0 .. MaxOrder + 1,
         \A z \in Zone : Serves(z, order) = {}
  PROVE  Promise!Candidates(order) = {}
<1> SUFFICES ASSUME NEW b \in Promise!Candidates(order) PROVE FALSE
  OBVIOUS
<1>1. /\ b.page \in Avail /\ order \in 0 .. MaxOrder
      /\ b.page % Shl[order] = 0 /\ Pages(b) \subseteq Avail /\ b.order = order
  BY CandidateIs
<1>2. todo = {} /\ work = NoWork BY DEF Idle
<1>3. Hand = {} BY <1>2, HandIs
<1>4. b.page \in Nat BY <1>1, AvailIs, GivenRange, RangeIs
<1>5. \A f \in FreeBlocks : f.order < order
  <2> SUFFICES ASSUME NEW f \in FreeBlocks PROVE f.order < order
    OBVIOUS
  <2>1. f \in Block /\ TypeOK /\ LinkedOnce BY DEF BInv, FreeBlocks
  <2>2. ZoneOf(f.page) \in Zone BY <2>1, BlockIs, PageZone
  <2>3. f.page \in ToSet(lists[ZoneOf(f.page)][f.order]) BY <2>1, FreeIs
  <2>4. lists[ZoneOf(f.page)][f.order] # <<>> BY <2>3 DEF ToSet
  <2>5. f.order \notin order .. MaxOrder BY <2>2, <2>4 DEF Serves
  <2> QED BY <2>1, <2>5, <1>1, BlockIs
<1>6. Shl[order] \in Nat BY <1>1, ShlPos
<1>7. Pages(b) = b.page .. b.page + Shl[order] - 1 BY <1>1 DEF Pages
<1>8. Gap(b.page, order)
  <2>1. \A q \in Nat : b.page =< q /\ q < b.page + Shl[order] => q \in Avail
    <3>1. \A q \in Nat : b.page =< q /\ q < b.page + Shl[order] => q \in Pages(b)
      BY <1>4, <1>6, <1>7
    <3> QED BY <3>1, <1>1
  <2>2. Aligned(b.page, order) BY <1>1 DEF Aligned
  <2> QED BY <2>1, <2>2, <1>4, <1>5 DEF Gap
<1>9. order \in Order BY <1>1 DEF Order
<1> QED BY <1>2, <1>3, <1>8, <1>9, NoGap

LEMMA StepPromises ==
  ASSUME BInv, [Next]_vars
  PROVE  [Promise!Next]_(Promise!poolVars)
<1>0. BInv' BY StepKeeps
<1>1. CASE CarveBlock
  <2>1. UNCHANGED <<held, answer>> BY <1>1 DEF CarveBlock
  <2> QED BY <2>1, <1>0, SameAvail
<1>2. CASE \E order \in 0 .. MaxOrder + 1 : Alloc(order) \/ Refuse(order)
  <2>1. PICK order \in 0 .. MaxOrder + 1 : Alloc(order) \/ Refuse(order) BY <1>2
  <2>2. CASE Alloc(order)
    <3>1. UNCHANGED <<held, answer>> BY <2>2 DEF Alloc
    <3> QED BY <3>1, <1>0, SameAvail
  <2>3. CASE Refuse(order)
    <3>1. Promise!Candidates(order) = {} BY <2>3, RefusesRightly DEF Refuse
    <3>2. UNCHANGED <<flags, lists, held, todo, work>> BY <2>3 DEF Refuse
    <3>3. UNCHANGED <<FreeBlocks, Hand>> BY <3>2 DEF FreeBlocks, Hand
    <3>4. Avail' = Avail BY <3>2, <3>3 DEF Avail
    <3>5. Promise!Refuse(order) BY <3>1, <3>2, <3>4, <2>3 DEF Promise!Refuse, Refuse, Avail
    <3> QED BY <3>5 DEF Promise!Next
  <2> QED BY <2>1, <2>2, <2>3
<1>3. CASE SplitBlock
  <2>1. UNCHANGED <<held, answer>> BY <1>3 DEF SplitBlock
  <2> QED BY <2>1, <1>0, SameAvail
<1>4. CASE HandOut
  <2> DEFINE w == [page |-> work.page, order |-> work.order]
  <2>1. /\ held' = held \cup {w} /\ work' = NoWork /\ work.order = work.want
        /\ answer' = [order |-> work.order, page |-> work.page]
        /\ work # NoWork /\ UNCHANGED <<lists, todo>>
    BY <1>4 DEF HandOut, NoWork, At
  <2>2. Hand = {w} /\ Hand' = {} BY <2>1, HandIs DEF Hand
  <2>3. FreeBlocks' = FreeBlocks BY <2>1 DEF FreeBlocks
  <2>4. todo = {} BY <2>1 DEF BInv, Carving
  <2>5. w \in Block /\ Aligned(w.page, w.order) /\ w \in Blocks
    BY <2>2 DEF BInv, Shaped, Blocks
  <2>6. \A f \in FreeBlocks : Pages(f) \cap Pages(w) = {}
    <3> SUFFICES ASSUME NEW f \in FreeBlocks PROVE Pages(f) \cap Pages(w) = {}
      OBVIOUS
    <3>1. f # w /\ f \in Blocks BY <2>2 DEF BInv, Shaped, Blocks
    <3> QED BY <3>1, <2>5, OnceFollows DEF EveryPageOnce
  <2> HIDE DEF w
  <2>7. Pages(w) \subseteq Avail BY <2>2 DEF Avail
  <2>8. Avail' = Avail \ Pages(w)
    <3>1. \A p : p \in Avail <=> \E b \in FreeBlocks \cup {w} : p \in Pages(b)
      BY <2>2, <2>4 DEF Avail
    <3>2. \A p : p \in Avail' <=> \E b \in FreeBlocks : p \in Pages(b)
      BY <2>1, <2>2, <2>3, <2>4 DEF Avail
    <3> QED BY <3>1, <3>2, <2>6
  <2>9. w \in Promise!Candidates(w.order) BY <2>5, <2>7, IsCandidate
  <2>10. w.page = work.page /\ w.order = work.order BY DEF w
  <2>11. Promise!Give(w.order)
    BY <2>1, <2>8, <2>9, <2>10, PromiseNames DEF Promise!Give, Avail, w
  <2>12. w.order \in 0 .. MaxOrder + 1 BY <2>5, BlockIs, BuddyAssumption
  <2> QED BY <2>11, <2>12 DEF Promise!Next
<1>5. CASE \E b \in held : Free(b)
  <2>1. PICK b \in held : Free(b) BY <1>5
  <2>2. /\ todo = {} /\ work = NoWork /\ held' = held \ {b} /\ answer' = NoAnswer
        /\ work' = At("merge", b.page, b.order, 0) /\ UNCHANGED <<lists, todo>>
    BY <2>1 DEF Free, Idle
  <2>3. b = [page |-> b.page, order |-> b.order]
    <3>1. b \in Block BY DEF BInv, TypeOK
    <3> QED BY <3>1, BlockIs
  <2>4. Hand = {} /\ Hand' = {b} BY <2>2, <2>3, HandIs DEF Hand
  <2>5. FreeBlocks' = FreeBlocks BY <2>2 DEF FreeBlocks
  <2>6. Avail' = Avail \cup Pages(b)
    <3>1. \A p : p \in Avail <=> \E c \in FreeBlocks : p \in Pages(c)
      BY <2>2, <2>4 DEF Avail
    <3>2. \A p : p \in Avail' <=> \E c \in FreeBlocks \cup {b} : p \in Pages(c)
      BY <2>2, <2>4, <2>5 DEF Avail
    <3> QED BY <3>1, <3>2
  <2>7. Promise!TakeBack(b) BY <2>2, <2>6, PromiseNames DEF Promise!TakeBack, Avail
  <2> QED BY <2>7 DEF Promise!Next
<1>6. CASE MergeBuddy
  <2>1. UNCHANGED <<held, answer>> BY <1>6 DEF MergeBuddy
  <2> QED BY <2>1, <1>0, SameAvail
<1>7. CASE MergeEnds
  <2>1. UNCHANGED <<held, answer>> BY <1>7 DEF MergeEnds
  <2> QED BY <2>1, <1>0, SameAvail
<1>8. CASE UNCHANGED vars
  <2>1. UNCHANGED <<held, answer>> BY <1>8 DEF vars
  <2> QED BY <2>1, <1>0, SameAvail
<1> QED BY <1>1, <1>2, <1>3, <1>4, <1>5, <1>6, <1>7, <1>8 DEF Next

-----------------------------------------------------------------------------
(* Theorems.  memory.c:75 takes the page structures from the bootstrap     *)
(* allocator and memory.c:80 clears none of them: the theorems hold where  *)
(* no flag left over in them says "free", and the run buddy_left_over      *)
(* shows what goes wrong where one does.                                   *)

\* The invariant: blocks on the lists, at hand and held cover the given pages,
\* marks of whole blocks are true, stale marks lie inside larger blocks, and no
\* two buddies are free (memory.c:150-184, 235-265, 319-350).
THEOREM BuddyInvariance ==
  ASSUME \A f \in LeftOver : ~f.free
  PROVE  Spec => []BInv
<1>1. Init => BInv BY InitHolds
<1>2. BInv /\ [Next]_vars => BInv' BY StepKeeps
<1> QED BY <1>1, <1>2, PTL DEF Spec

\* No page is lost, and none is in two places (memory.c:167-184, 254-262,
\* 326-349).
THEOREM PagesOnce ==
  ASSUME \A f \in LeftOver : ~f.free
  PROVE  Spec => []EveryPageOnce
<1>1. Spec => []BInv BY BuddyInvariance
<1>2. BInv => EveryPageOnce BY OnceFollows
<1> QED BY <1>1, <1>2, PTL

\* The flags page_free_zone reads of a buddy are true where it reads them
\* (memory.c:326-343).
THEOREM MarksAreFresh ==
  ASSUME \A f \in LeftOver : ~f.free
  PROVE  Spec => []BuddyMarksAreFresh
<1>1. Spec => []BInv BY BuddyInvariance
<1>2. BInv => BuddyMarksAreFresh BY MarksFollow
<1> QED BY <1>1, <1>2, PTL

\* list_del is only called for pages that are on a list (memory.c:335).
THEOREM NeverFaults ==
  ASSUME \A f \in LeftOver : ~f.free
  PROVE  Spec => []NoFault
<1>1. Spec => []BInv BY BuddyInvariance
<1>2. BInv => NoFault BY DEF BInv, NoFault
<1> QED BY <1>1, <1>2, PTL

\* The allocator gives aligned blocks of free pages, each to one client, and
\* refuses only when there is no such block (memory.c:267-379).
THEOREM KeepsThePromise ==
  ASSUME \A f \in LeftOver : ~f.free
  PROVE  Spec => ImplementsPagePool
<1>1. Spec => []BInv BY BuddyInvariance
<1>2. Init => Promise!Init BY InitPromises
<1>3. BInv /\ [Next]_vars => [Promise!Next]_(Promise!poolVars) BY StepPromises
<1> QED BY <1>1, <1>2, <1>3, PTL DEF Spec, ImplementsPagePool, Promise!Spec

=============================================================================
