----------------------------- MODULE Format_proofs -----------------------------
(***************************************************************************)
(* Proofs about Format and the conversions of Convert, for every format,   *)
(* argument and size, and for integers of any width from four bits up.     *)
(***************************************************************************)
EXTENDS Format, TLAPS, WellFoundedInduction, SequenceTheorems

-----------------------------------------------------------------------------
(* The inductive invariant of the chip: what each write of the setup has   *)
(* reached, and that no one prints before the last.                        *)

ChipInv ==
  /\ step \in 1 .. 7
  /\ step \in 2 .. 3 => lcr = 0
  /\ step \in 4 .. 6 => lcr = LCR_DLAB
  /\ step = 7 => lcr = LCR_8BIT
  /\ step > 2 => ier = 0
  /\ divisor = <<IF step < 5 THEN 1 ELSE 12, IF step < 6 THEN 1 ELSE 0>>
  /\ ~SetupDone => holding = NONE /\ line = <<>> /\ ready = {} /\ strays = 0
  /\ line \in Seq(Nat \cup {STRAY}) /\ holding \in Nat \cup {STRAY, NONE}
  /\ strays \in Nat

-----------------------------------------------------------------------------
(* The inductive invariant of a call.                                      *)

\* The memory while the call is at work: of the text what fits, and nothing
\* else was written.
Filled ==
  [i \in Memory |-> IF i \in 0 .. size - 1 /\ i < written THEN text[i + 1] ELSE OLD]

\* And once vsnprintf has returned.
Ended == IF rc >= 0 THEN [Filled EXCEPT ![Terminator] = NUL] ELSE Filled

CallTypeOK ==
  /\ pc \in {"boot", "idle", "loop", "line", "end"} /\ sink \in {"line", "buf"}
  /\ fmt \in Seq(Nat \ {NUL}) /\ at \in Nat \ {0}
  /\ text \in Seq(Nat) /\ written = Len(text)
  /\ size \in 0 .. MaxSize /\ rc \in Nat \cup {-1}
  /\ last = Nothing \/ last.fn \in {"vprintf", "vsnprintf", "strtoul", "lltoa"}

CallInv ==
  /\ CallTypeOK /\ StaysInFormat
  /\ sink = "line" => size = 0
  /\ pc = "line" => sink = "line"
  /\ pc = "end" => sink = "buf" /\ rc \in {-1, written}
  /\ pc # "idle" => last = Nothing /\ buf = Filled
  /\ pc \in {"boot", "idle"} /\ last.fn \notin {"vprintf", "vsnprintf"} =>
       /\ fmt = <<>> /\ at = 1 /\ text = <<>> /\ rc = 0 /\ size = 0
       /\ buf = Untouched
  /\ last.fn = "vprintf" => buf = Untouched
  /\ last.fn = "vsnprintf" =>
       /\ last.rc = rc /\ rc \in {-1, written}
       /\ buf = Ended

\* f says where in t each byte of s is.
Embeds(f, s, t) ==
  /\ f \in [1 .. Len(s) -> 1 .. Len(t)]
  /\ \A i, j \in 1 .. Len(s) : i < j => f[i] < f[j]
  /\ \A i \in 1 .. Len(s) : s[i] = t[f[i]]

\* Of the text only bytes that others overwrote are missing.
TextIsCarried ==
  /\ \E f : Embeds(f, Carried, text)
  /\ Len(Carried) + strays >= Len(text)

\* The line and what is on its way there.  Between serial_putchar's test and
\* its write only others can write.
LineInv ==
  /\ ChipInv
  /\ ~SetupDone => pc = "boot"
  /\ out \in Seq(Nat)
  /\ pc # "line" => out = <<>>
  /\ pc \in {"boot", "idle"} /\ last = Nothing => sink = "line"
  /\ "me" \in ready => pc = "line" /\ out # <<>> /\ holding \notin Nat
  /\ sink = "line" => TextIsCarried

\* And what the conversions have answered.
Answered ==
  /\ last.fn = "strtoul" =>
       /\ last.str \in Scanned /\ last.base \in {0, 8, 10, 16}
       /\ last.result = strtoul(last.str, last.base)
  /\ last.fn = "lltoa" =>
       /\ last.value \in Long /\ last.base \in {8, 10, 16}
       /\ last.str = lltoa(last.value, last.base)

-----------------------------------------------------------------------------
(* Searches                                                                *)

\* Every set of numbers that is not empty has a least one.
LEMMA Least ==
  ASSUME NEW T \in SUBSET Nat, T # {}
  PROVE  \E n \in T : \A m \in T : n =< m
<1>1. IsWellFoundedOn(OpToRel(<, Nat), Nat)
  BY NatLessThanWellFounded
<1>2. PICK x \in T : \A y \in T : ~(<<y, x>> \in OpToRel(<, Nat))
  BY <1>1, WFMin
<1>3. ASSUME NEW y \in T PROVE x =< y
  <2>1. ~(y < x)
    BY <1>2 DEF OpToRel
  <2> QED
    BY <2>1
<1> QED
  BY <1>3

Text == Seq(Nat \ {NUL})

LEMMA AtIs ==
  ASSUME NEW str \in Text, NEW i \in Nat \ {0}
  PROVE  /\ At(str, i) \in Nat
         /\ At(str, i) = NUL <=> i > Len(str)
         /\ i =< Len(str) => At(str, i) = str[i]
BY DEF At, NUL, Text

\* A class of characters ends at the end of the string at the latest.
LEMMA ClassEnds ==
  ASSUME NEW str \in Text, NEW i \in 1 .. Len(str) + 1, NEW class, NUL \notin class
  PROVE  \E j \in i .. Len(str) + 1 :
           /\ At(str, j) \notin class
           /\ \A k \in i .. j - 1 : At(str, k) \in class
<1> DEFINE T == {j \in i .. Len(str) + 1 : At(str, j) \notin class}
<1>0. Len(str) \in Nat
  BY DEF Text
<1>1. Len(str) + 1 \in T
  BY <1>0, AtIs
<1>2. T \in SUBSET Nat
  BY <1>0
<1>3. PICK j \in T : \A k \in T : j =< k
  BY <1>1, <1>2, Least
<1>4. \A k \in i .. j - 1 : k \in i .. Len(str) + 1 /\ k \notin T
  BY <1>0, <1>3
<1> QED
  BY <1>3, <1>4

\* Where Skip stops.
LEMMA SkipsDigits ==
  ASSUME NEW str \in Text, NEW i \in 1 .. Len(str) + 1
  PROVE  Skip(str, i, isdigit) \in i .. Len(str) + 1
<1> DEFINE class   == 48 .. 57
           Ends(j) == /\ ~isdigit(At(str, j))
                      /\ \A k \in i .. j - 1 : isdigit(At(str, k))
<1>1. NUL \notin class /\ \A c : isdigit(c) <=> c \in class
  BY DEF NUL, isdigit
<1>2. \E j \in i .. Len(str) + 1 : Ends(j)
  <2> HIDE DEF class
  <2>1. \E j \in i .. Len(str) + 1 :
          At(str, j) \notin class /\ \A k \in i .. j - 1 : At(str, k) \in class
    BY <1>1, ClassEnds
  <2> QED
    BY <1>1, <2>1
<1>3. Skip(str, i, isdigit) = CHOOSE j \in i .. Len(str) + 1 : Ends(j)
  BY DEF Skip
<1> HIDE DEF Ends
<1> QED
  BY <1>2, <1>3

LEMMA SkipsPlain ==
  ASSUME NEW str \in Text, NEW i \in 1 .. Len(str), IsPlain(At(str, i))
  PROVE  Skip(str, i, IsPlain) \in i + 1 .. Len(str) + 1
<1> DEFINE class   == Nat \ {37, NUL}
           Ends(j) == /\ ~IsPlain(At(str, j))
                      /\ \A k \in i .. j - 1 : IsPlain(At(str, k))
<1>0. Len(str) \in Nat
  BY DEF Text
<1>1. NUL \notin class /\ \A c \in Nat : IsPlain(c) <=> c \in class
  BY DEF IsPlain
<1>2. \E j \in i .. Len(str) + 1 : Ends(j)
  <2> HIDE DEF class
  <2>1. PICK j \in i .. Len(str) + 1 :
          At(str, j) \notin class /\ \A k \in i .. j - 1 : At(str, k) \in class
    BY <1>0, <1>1, ClassEnds
  <2>2. \A k \in i .. j : At(str, k) \in Nat
    BY <1>0, AtIs
  <2> QED
    BY <1>0, <1>1, <2>1, <2>2
<1>3. Skip(str, i, IsPlain) = CHOOSE j \in i .. Len(str) + 1 : Ends(j)
  BY DEF Skip
<1>4. Skip(str, i, IsPlain) \in i .. Len(str) + 1 /\ Ends(Skip(str, i, IsPlain))
  <2> HIDE DEF Ends
  <2> QED
    BY <1>2, <1>3
<1> DEFINE j == Skip(str, i, IsPlain)
<1>5. j # i
  BY <1>4
<1>6. j \in i .. Len(str) + 1
  BY <1>4
<1> HIDE DEF j
<1>7. j \in i + 1 .. Len(str) + 1
  BY <1>0, <1>5, <1>6
<1> QED
  BY <1>7 DEF j

LEMMA SkipsSpaces ==
  ASSUME NEW str \in Text
  PROVE  /\ Skip(str, 1, isspace) \in 1 .. Len(str) + 1
         /\ ~isspace(At(str, Skip(str, 1, isspace)))
         /\ \A k \in 1 .. Skip(str, 1, isspace) - 1 : isspace(At(str, k))
<1> DEFINE class   == 9 .. 13 \cup {32}
           Ends(j) == /\ ~isspace(At(str, j))
                      /\ \A k \in 1 .. j - 1 : isspace(At(str, k))
<1>0. Len(str) \in Nat
  BY DEF Text
<1>1. NUL \notin class /\ \A c : isspace(c) <=> c \in class
  BY DEF NUL, isspace
<1>2. \E j \in 1 .. Len(str) + 1 : Ends(j)
  <2> HIDE DEF class
  <2>0. 1 \in 1 .. Len(str) + 1
    BY <1>0
  <2>1. \E j \in 1 .. Len(str) + 1 :
          At(str, j) \notin class /\ \A k \in 1 .. j - 1 : At(str, k) \in class
    BY <2>0, <1>1, ClassEnds
  <2> QED
    BY <1>1, <2>1
<1>3. Skip(str, 1, isspace) = CHOOSE j \in 1 .. Len(str) + 1 : Ends(j)
  BY DEF Skip
<1>4. Skip(str, 1, isspace) \in 1 .. Len(str) + 1 /\ Ends(Skip(str, 1, isspace))
  <2> HIDE DEF Ends
  <2> QED
    BY <1>2, <1>3
<1> QED
  BY <1>4

-----------------------------------------------------------------------------
(* The format                                                              *)

\* A directive that is known ends in the format; decode_format takes a
\* character at least.
LEMMA DecodeStays ==
  ASSUME NEW f \in Text, NEW i \in 1 .. Len(f)
  PROVE  /\ decode_format(f, i).next \in Nat \ {0}
         /\ decode_format(f, i).what.type # "invalid" =>
              decode_format(f, i).next \in i + 1 .. Len(f) + 1
<1>0. Len(f) \in Nat /\ \A k \in Nat \ {0} : At(f, k) = NUL => k > Len(f)
  BY AtIs DEF Text
<1>1. CASE IsPlain(At(f, i))
  <2>1. decode_format(f, i) = [what |-> [type |-> "none"], next |-> Skip(f, i, IsPlain)]
    BY <1>1 DEF decode_format
  <2>2. Skip(f, i, IsPlain) \in i + 1 .. Len(f) + 1
    BY <1>1, SkipsPlain
  <2> QED
    BY <1>0, <2>1, <2>2
<1>2. CASE ~IsPlain(At(f, i))
  <2> DEFINE width  == AfterWidth(f, i)
             length == Length(f, width)
             conv   == width + length.n
  <2>1. width \in i + 1 .. Len(f) + 1
    <3> DEFINE flag == IF IsFlag(At(f, i + 1)) THEN i + 2 ELSE i + 1
               num  == Skip(f, flag, isdigit)
    <3>1. flag \in i + 1 .. Len(f) + 1
      BY <1>0, AtIs DEF IsFlag, NUL
    <3> HIDE DEF flag
    <3>2. num \in i + 1 .. Len(f) + 1
      BY <1>0, <3>1, SkipsDigits
    <3> HIDE DEF num
    <3>3. ASSUME At(f, num) = 46
          PROVE  Skip(f, num + 1, isdigit) \in i + 1 .. Len(f) + 1
      <4>1. num =< Len(f)
        BY <1>0, <3>2, <3>3, AtIs DEF NUL
      <4> QED
        BY <1>0, <3>2, <4>1, SkipsDigits
    <3>4. width = IF At(f, num) = 46 THEN Skip(f, num + 1, isdigit) ELSE num
      BY DEF AfterWidth, num, flag
    <3> QED
      BY <3>2, <3>3, <3>4
  <2> HIDE DEF width
  <2>2. length.n \in 0 .. 2 /\ conv \in i + 1 .. Len(f) + 1
    <3>1. width \in Nat \ {0} /\ width + 1 \in Nat \ {0}
      BY <2>1
    <3>2. width =< Len(f) \/ At(f, width) = NUL
      BY <1>0, <2>1, <3>1, AtIs
    <3>3. width + 1 =< Len(f) \/ At(f, width + 1) = NUL
      BY <1>0, <2>1, <3>1, AtIs
    <3> QED
      BY <1>0, <2>1, <3>1, <3>2, <3>3 DEF Length, NUL
  <2> HIDE DEF length
  <2>3. decode_format(f, i) = [what |-> Conversion(At(f, conv), length.spec), next |-> conv + 1]
    BY <1>2 DEF decode_format, Directive, width, length
  <2>4. ASSUME conv = Len(f) + 1
        PROVE  Conversion(At(f, conv), length.spec).type = "invalid"
    <3>1. At(f, conv) = NUL
      BY <1>0, <2>4, AtIs
    <3> QED
      BY <3>1 DEF Conversion, NUL
  <2> HIDE DEF conv
  <2> QED
    BY <1>0, <2>2, <2>3, <2>4
<1> QED
  BY <1>1, <1>2

-----------------------------------------------------------------------------
(* The numerals                                                            *)

Bases == {8, 10, 16}

LEMMA Dividing ==
  ASSUME NEW base \in Bases, NEW v \in Nat
  PROVE  /\ v \div base \in Nat /\ v % base \in 0 .. base - 1
         /\ v = base * (v \div base) + (v % base)
         /\ v >= base => v \div base < v
         /\ v < base => v \div base = 0
<1>1. CASE base = 8
  BY <1>1
<1>2. CASE base = 10
  BY <1>2
<1>3. CASE base = 16
  BY <1>3
<1> QED
  BY <1>1, <1>2, <1>3 DEF Bases

LEMMA DigitCharIs ==
  ASSUME NEW r \in 0 .. 15
  PROVE  DigitChar(r) \in Nat \ {NUL}
BY DEF DigitChar, NUL

LEMMA OneDigit ==
  ASSUME NEW r \in 0 .. 15
  PROVE  <<DigitChar(r)>> \in Text
<1> DEFINE c == DigitChar(r)
<1>1. c \in Nat \ {NUL}
  BY DigitCharIs
<1> HIDE DEF c
<1>2. <<c>> \in Seq(Nat \ {NUL})
  BY <1>1
<1> QED
  BY <1>2 DEF c, Text

\* f spells the numbers up to n.
Spells(f, n, base) ==
  /\ f \in [0 .. n -> Text]
  /\ \A v \in 0 .. n :
       f[v] = IF v < base THEN <<DigitChar(v)>>
              ELSE Append(f[v \div base], DigitChar(v % base))

LEMMA SpellsExists ==
  ASSUME NEW base \in Bases
  PROVE  \A n \in Nat : \E f : Spells(f, n, base)
<1> DEFINE T == {n \in Nat : ~\E f : Spells(f, n, base)}
<1>1. SUFFICES ASSUME T # {} PROVE FALSE
  OBVIOUS
<1>2. PICK n \in T : \A m \in T : n =< m
  BY <1>1, Least
<1>3. \E g : /\ g \in [0 .. n - 1 -> Text]
             /\ \A v \in 0 .. n - 1 :
                  g[v] = IF v < base THEN <<DigitChar(v)>>
                         ELSE Append(g[v \div base], DigitChar(v % base))
  <2>1. CASE n = 0
    <3> DEFINE g == [v \in 0 .. n - 1 |-> <<>>]
    <3>1. 0 .. n - 1 = {}
      BY <2>1
    <3>2. g \in [0 .. n - 1 -> Text]
      BY <3>1
    <3> QED
      BY <3>1, <3>2
  <2>2. CASE n # 0
    <3>1. n - 1 \in Nat /\ n - 1 \notin T
      BY <1>2, <2>2
    <3> QED
      BY <3>1 DEF Spells
  <2> QED
    BY <2>1, <2>2
<1>4. PICK g : /\ g \in [0 .. n - 1 -> Text]
               /\ \A v \in 0 .. n - 1 :
                    g[v] = IF v < base THEN <<DigitChar(v)>>
                           ELSE Append(g[v \div base], DigitChar(v % base))
  BY <1>3
<1> DEFINE new == IF n < base THEN <<DigitChar(n)>>
                  ELSE Append(g[n \div base], DigitChar(n % base))
           f   == [v \in 0 .. n |-> IF v = n THEN new ELSE g[v]]
<1>5. \A v \in Nat : v >= base => v \div base \in 0 .. v - 1
  BY Dividing
<1>6. new \in Text
  <2>1. CASE n < base
    <3>1. n \in 0 .. 15
      BY <2>1 DEF Bases
    <3> QED
      BY <2>1, <3>1, DigitCharIs DEF Text
  <2>2. CASE ~(n < base)
    <3>1. g[n \div base] \in Text
      BY <1>4, <1>5, <2>2 DEF Bases
    <3>2. n % base \in 0 .. 15
      BY Dividing DEF Bases
    <3> QED
      BY <2>2, <3>1, <3>2, DigitCharIs, AppendProperties DEF Text
  <2> QED
    BY <2>1, <2>2
<1> HIDE DEF new
<1>7. f \in [0 .. n -> Text]
  BY <1>4, <1>6
<1>8. ASSUME NEW v \in 0 .. n
      PROVE  f[v] = IF v < base THEN <<DigitChar(v)>>
                    ELSE Append(f[v \div base], DigitChar(v % base))
  <2>1. v >= base => f[v \div base] = g[v \div base]
    BY <1>5
  <2>2. CASE v = n
    <3>1. f[v] = new /\ base \in Nat
      BY <2>2 DEF Bases
    <3> HIDE DEF f
    <3>2. CASE v < base
      BY <2>2, <3>1, <3>2 DEF new
    <3>3. CASE ~(v < base)
      <4>1. f[v \div base] = g[v \div base]
        BY <2>1, <3>1, <3>3
      <4> QED
        BY <2>2, <3>1, <3>3, <4>1 DEF new
    <3> QED
      BY <3>2, <3>3
  <2>3. CASE v # n
    <3>1. v \in 0 .. n - 1 /\ f[v] = g[v]
      BY <2>3
    <3>2. g[v] = IF v < base THEN <<DigitChar(v)>>
                 ELSE Append(g[v \div base], DigitChar(v % base))
      BY <1>4, <3>1
    <3> HIDE DEF f
    <3>3. CASE v < base
      BY <3>1, <3>2, <3>3
    <3>4. CASE ~(v < base)
      <4>1. f[v \div base] = g[v \div base]
        BY <2>1, <3>1, <3>4 DEF Bases
      <4> QED
        BY <3>1, <3>2, <3>4, <4>1
    <3> QED
      BY <3>3, <3>4
  <2> QED
    BY <2>2, <2>3
<1>9. Spells(f, n, base)
  BY <1>7, <1>8 DEF Spells
<1> QED
  BY <1>2, <1>9

LEMMA SpellsAgree ==
  ASSUME NEW base \in Bases, NEW m \in Nat, NEW n \in Nat, NEW f, NEW g,
         Spells(f, m, base), Spells(g, n, base), NEW k \in Nat, k =< m, k =< n
  PROVE  f[k] = g[k]
<1> DEFINE T == {v \in 0 .. k : f[v] # g[v]}
<1>1. SUFFICES ASSUME T # {} PROVE FALSE
  OBVIOUS
<1>0. T \in SUBSET Nat
  OBVIOUS
<1>2. PICK v \in T : \A u \in T : v =< u
  BY <1>0, <1>1, Least
<1>3. v \in 0 .. m /\ v \in 0 .. n /\ v \in Nat
  BY <1>2
<1>4. v < base => f[v] = g[v]
  BY <1>3 DEF Spells
<1>5. v >= base /\ v \div base \in 0 .. k /\ v \div base < v
  BY <1>2, <1>3, <1>4, Dividing DEF Bases
<1>6. f[v \div base] = g[v \div base]
  BY <1>2, <1>5
<1> QED
  BY <1>2, <1>3, <1>5, <1>6 DEF Spells, Bases

\* The recursive definition has a solution: every number has a numeral.
LEMMA NumeralsAre ==
  ASSUME NEW base \in Bases
  PROVE  /\ Numerals(base) \in [Nat -> Text]
         /\ \A v \in Nat :
              Numerals(base)[v] =
                IF v < base THEN <<DigitChar(v)>>
                ELSE Append(Numerals(base)[v \div base], DigitChar(v % base))
<1> DEFINE D(n) == CHOOSE f : Spells(f, n, base)
           F    == [n \in Nat |-> D(n)[n]]
           R(f) == [v \in Nat |-> IF v < base THEN <<DigitChar(v)>>
                                  ELSE Append(f[v \div base], DigitChar(v % base))]
<1>1. \A n \in Nat : Spells(D(n), n, base)
  BY SpellsExists
<1>2. \A n \in Nat : F[n] = D(n)[n]
  OBVIOUS
<1>3. F \in [Nat -> Text]
  <2>1. SUFFICES ASSUME NEW n \in Nat PROVE D(n)[n] \in Text
    OBVIOUS
  <2> HIDE DEF D
  <2> QED
    BY <1>1 DEF Spells
<1> HIDE DEF F, D
<1>4. ASSUME NEW v \in Nat
      PROVE  F[v] = IF v < base THEN <<DigitChar(v)>>
                    ELSE Append(F[v \div base], DigitChar(v % base))
  <2>1. D(v)[v] = IF v < base THEN <<DigitChar(v)>>
                  ELSE Append(D(v)[v \div base], DigitChar(v % base))
    BY <1>1 DEF Spells
  <2>2. v >= base => D(v)[v \div base] = D(v \div base)[v \div base]
    <3>1. v >= base => v \div base \in Nat /\ v \div base =< v
      BY Dividing
    <3> QED
      BY <1>1, <3>1, SpellsAgree
  <2>3. v \div base \in Nat
    BY Dividing
  <2> QED
    BY <1>2, <2>1, <2>2, <2>3 DEF Bases
<1>5. F = R(F)
  BY <1>3, <1>4
<1>6. Numerals(base) = CHOOSE f : f = R(f)
  BY DEF Numerals
<1> HIDE DEF R
<1>7. Numerals(base) = R(Numerals(base))
  BY <1>5, <1>6
<1>8. \A v \in Nat :
        Numerals(base)[v] =
          IF v < base THEN <<DigitChar(v)>>
          ELSE Append(Numerals(base)[v \div base], DigitChar(v % base))
  BY <1>7 DEF R
<1> DEFINE N == Numerals(base)
           T == {v \in Nat : N[v] \notin Text}
<1> HIDE DEF N
<1>9. T = {}
  <2>1. SUFFICES ASSUME T # {} PROVE FALSE
    OBVIOUS
  <2>2. PICK v \in T : \A u \in T : v =< u
    BY <2>1, Least
  <2>3. N[v] = IF v < base THEN <<DigitChar(v)>>
               ELSE Append(N[v \div base], DigitChar(v % base))
    BY <1>8 DEF N
  <2>4. CASE v < base
    <3>1. v \in 0 .. 15
      BY <2>4 DEF Bases
    <3>2. <<DigitChar(v)>> \in Text
      BY <3>1, OneDigit
    <3>3. N[v] = <<DigitChar(v)>>
      BY <2>3, <2>4
    <3> QED
      BY <2>2, <3>2, <3>3
  <2>5. CASE ~(v < base)
    <3>1. v \div base \in Nat /\ v \div base < v /\ v % base \in 0 .. 15
      BY <2>5, Dividing DEF Bases
    <3>2. N[v \div base] \in Text
      BY <2>2, <3>1
    <3>3. Append(N[v \div base], DigitChar(v % base)) \in Text
      BY <3>1, <3>2, DigitCharIs, AppendProperties DEF Text
    <3> QED
      BY <2>2, <2>3, <2>5, <3>3
  <2> QED
    BY <2>4, <2>5
<1>10. N \in [Nat -> Text]
  <2>1. N = [v \in Nat |-> N[v]]
    BY <1>7 DEF R, N
  <2> QED
    BY <1>9, <2>1
<1> QED
  BY <1>8, <1>10 DEF N

-----------------------------------------------------------------------------
(* The powers of two                                                       *)

\* f is Shl up to n.
Doubles(f, n) ==
  /\ f \in [0 .. n -> Nat]
  /\ f[0] = 1 /\ \A k \in 0 .. n - 1 : f[k + 1] = 2 * f[k]

LEMMA DoublesExists == \A n \in Nat : \E f : Doubles(f, n)
<1> DEFINE T == {n \in Nat : ~\E f : Doubles(f, n)}
<1>1. SUFFICES ASSUME T # {} PROVE FALSE
  OBVIOUS
<1>2. PICK n \in T : \A m \in T : n =< m BY <1>1, Least
<1>3. CASE n = 0
  <2> DEFINE f == [k \in 0 .. 0 |-> 1]
  <2>1. Doubles(f, 0) BY DEF Doubles
  <2> QED BY <2>1, <1>2, <1>3
<1>4. CASE n # 0
  <2>1. n - 1 \in Nat /\ n - 1 \notin T BY <1>2, <1>4
  <2>2. PICK g : Doubles(g, n - 1) BY <2>1
  <2> DEFINE f == [k \in 0 .. n |-> IF k = n THEN 2 * g[n - 1] ELSE g[k]]
  <2>3. \A k \in 0 .. n - 1 : g[k] \in Nat BY <2>2 DEF Doubles
  <2>4. f \in [0 .. n -> Nat]
    <3>1. 2 * g[n - 1] \in Nat BY <2>1, <2>3
    <3> QED BY <3>1, <2>3, <2>1
  <2>5. f[0] = 1 BY <1>4, <2>1, <2>2 DEF Doubles
  <2>6. ASSUME NEW k \in 0 .. n - 1 PROVE f[k + 1] = 2 * f[k]
    <3>1. CASE k = n - 1 BY <3>1, <2>1
    <3>2. CASE k # n - 1
      <4>1. k \in 0 .. (n - 1) - 1 BY <3>2, <2>1
      <4>2. g[k + 1] = 2 * g[k] BY <4>1, <2>2 DEF Doubles
      <4> QED BY <4>1, <4>2, <2>1
    <3> QED BY <3>1, <3>2
  <2>7. Doubles(f, n) BY <2>4, <2>5, <2>6 DEF Doubles
  <2> QED BY <2>7, <1>2
<1> QED BY <1>3, <1>4

LEMMA DoublesAgree ==
  ASSUME NEW m \in Nat, NEW n \in Nat, NEW f, NEW g, Doubles(f, m), Doubles(g, n),
         NEW k \in Nat, k =< m, k =< n
  PROVE  f[k] = g[k]
<1> DEFINE T == {j \in 0 .. k : f[j] # g[j]}
<1>1. SUFFICES ASSUME T # {} PROVE FALSE
  OBVIOUS
<1>2. T \in SUBSET Nat OBVIOUS
<1>3. PICK j \in T : \A i \in T : j =< i BY <1>1, <1>2, Least
<1>4. j # 0 BY <1>3 DEF Doubles
<1>5. j - 1 \in 0 .. m - 1 /\ j - 1 \in 0 .. n - 1 /\ j - 1 \in 0 .. k BY <1>3, <1>4
<1>6. f[j - 1] = g[j - 1] BY <1>3, <1>5
<1>7. f[j - 1 + 1] = 2 * f[j - 1] /\ g[j - 1 + 1] = 2 * g[j - 1] BY <1>5 DEF Doubles
<1>8. j - 1 + 1 = j BY <1>3
<1> QED BY <1>3, <1>6, <1>7, <1>8

\* The recursive definition has a solution.
LEMMA ShlIs ==
  /\ Shl \in [Nat -> Nat]
  /\ Shl[0] = 1 /\ \A k \in Nat : Shl[k + 1] = 2 * Shl[k]
<1> DEFINE D(n) == CHOOSE f : Doubles(f, n)
           F    == [n \in Nat |-> D(n)[n]]
           R(f) == [n \in Nat |-> IF n = 0 THEN 1 ELSE 2 * f[n - 1]]
<1>1. \A n \in Nat : Doubles(D(n), n) BY DoublesExists
<1>2. F \in [Nat -> Nat]
  <2>1. SUFFICES ASSUME NEW n \in Nat PROVE D(n)[n] \in Nat
    OBVIOUS
  <2>2. Doubles(D(n), n) BY <1>1
  <2> HIDE DEF D
  <2> QED BY <2>2 DEF Doubles
<1>3. F[0] = 1 BY <1>1 DEF Doubles
<1>4. ASSUME NEW k \in Nat PROVE F[k + 1] = 2 * F[k]
  <2>1. Doubles(D(k), k) /\ Doubles(D(k + 1), k + 1)
    <3>1. k \in Nat /\ k + 1 \in Nat OBVIOUS
    <3> HIDE DEF D
    <3> QED BY <1>1, <3>1
  <2>2. D(k + 1)[k + 1] = 2 * D(k + 1)[k]
    <3>1. k \in 0 .. (k + 1) - 1 OBVIOUS
    <3> HIDE DEF D
    <3> QED BY <2>1, <3>1 DEF Doubles
  <2>3. D(k + 1)[k] = D(k)[k]
    <3> HIDE DEF D
    <3> QED BY <2>1, DoublesAgree
  <2> QED BY <2>2, <2>3
<1> HIDE DEF F
<1>5. F = R(F)
  <2>1. \A n \in Nat : F[n] = IF n = 0 THEN 1 ELSE 2 * F[n - 1]
    <3>1. SUFFICES ASSUME NEW n \in Nat, n # 0 PROVE F[n] = 2 * F[n - 1]
      BY <1>3
    <3>2. n - 1 \in Nat /\ (n - 1) + 1 = n BY <3>1
    <3>3. F[(n - 1) + 1] = 2 * F[n - 1] BY <3>2, <1>4
    <3> QED BY <3>2, <3>3
  <2> QED BY <2>1, <1>2
<1>6. Shl = CHOOSE f : f = R(f) BY DEF Shl
<1>7. Shl = R(Shl) BY <1>5, <1>6
<1>8. \A n \in Nat : Shl[n] = IF n = 0 THEN 1 ELSE 2 * Shl[n - 1] BY <1>7
<1>9. \A k \in Nat : Shl[k] = F[k]
  <2> DEFINE T == {k \in Nat : Shl[k] # F[k]}
  <2>1. SUFFICES ASSUME T # {} PROVE FALSE
    OBVIOUS
  <2>2. PICK j \in T : \A i \in T : j =< i BY <2>1, Least
  <2>3. j # 0 BY <2>2, <1>3, <1>8
  <2>4. j - 1 \in Nat /\ j - 1 \notin T /\ (j - 1) + 1 = j BY <2>2, <2>3
  <2>5. F[j] = 2 * F[j - 1] BY <2>4, <1>4
  <2> QED BY <2>2, <2>3, <2>4, <2>5, <1>8
<1>10. Shl = F BY <1>7, <1>9, <1>2
<1> QED BY <1>10, <1>2, <1>3, <1>4

LEMMA ShlPos == \A k \in Nat : Shl[k] \in Nat \ {0}
<1> DEFINE T == {k \in Nat : Shl[k] = 0}
<1>1. SUFFICES ASSUME T # {} PROVE FALSE
  BY ShlIs
<1>2. PICK j \in T : \A i \in T : j =< i BY <1>1, Least
<1>3. j # 0 BY <1>2, ShlIs
<1>4. j - 1 \in Nat /\ j - 1 \notin T /\ (j - 1) + 1 = j BY <1>2, <1>3
<1>5. Shl[(j - 1) + 1] = 2 * Shl[j - 1] /\ Shl[j - 1] \in Nat BY <1>4, ShlIs
<1> QED BY <1>2, <1>4, <1>5

LEMMA ShlGrows ==
  ASSUME NEW j \in Nat, NEW k \in Nat, j =< k
  PROVE  Shl[j] =< Shl[k]
<1> DEFINE T == {n \in Nat : j =< n /\ ~(Shl[j] =< Shl[n])}
<1>1. SUFFICES ASSUME T # {} PROVE FALSE
  BY ShlIs
<1>2. PICK n \in T : \A m \in T : n =< m
  BY <1>1, Least
<1>3. n # j
  BY <1>2, ShlIs
<1>4. n - 1 \in Nat /\ n - 1 \notin T /\ (n - 1) + 1 = n /\ j =< n - 1
  BY <1>2, <1>3
<1>5. Shl[(n - 1) + 1] = 2 * Shl[n - 1] /\ Shl[n - 1] \in Nat /\ Shl[j] \in Nat
  BY <1>4, ShlIs
<1> QED
  BY <1>2, <1>4, <1>5

\* The range of an unsigned long.
LEMMA LongRange ==
  /\ Shl[LongBits] \in Nat /\ Shl[LongBits] >= 16
  /\ Shl[LongBits] = 2 * Shl[LongBits - 1] /\ Shl[LongBits - 1] \in Nat
  /\ ULONG_MAX \in Nat /\ ULONG_MAX >= 15
  /\ \A v \in Int : Unsigned(v) \in 0 .. ULONG_MAX
<1>1. LongBits \in Nat /\ LongBits - 1 \in Nat /\ (LongBits - 1) + 1 = LongBits
  BY LongAssumption
<1>2. Shl[(LongBits - 1) + 1] = 2 * Shl[LongBits - 1] /\ Shl[LongBits - 1] \in Nat
  BY <1>1, ShlIs
<1>3. Shl[4] = 16
  <2>1. Shl[0] = 1 /\ Shl[0 + 1] = 2 * Shl[0] /\ Shl[1 + 1] = 2 * Shl[1]
        /\ Shl[2 + 1] = 2 * Shl[2] /\ Shl[3 + 1] = 2 * Shl[3]
    BY ShlIs
  <2> QED
    BY <2>1
<1>4. Shl[4] =< Shl[LongBits]
  BY LongAssumption, ShlGrows
<1>5. Shl[LongBits] \in Nat /\ Shl[LongBits] >= 16
  BY <1>1, <1>2, <1>3, <1>4
<1> DEFINE R == Shl[LongBits]
<1> HIDE DEF R
<1>6. R \in Nat /\ R >= 16
  BY <1>5 DEF R
<1>7. \A v \in Int : v % R \in 0 .. R - 1
  BY <1>6
<1> QED
  BY <1>1, <1>2, <1>5, <1>6, <1>7 DEF ULONG_MAX, Unsigned, R

\* What lltoa and ulltoa write is text, of one character at least.
LEMMA Written ==
  ASSUME NEW base \in Bases
  PROVE  /\ \A v \in Nat : ulltoa(v, base) \in Text
         /\ \A v \in Int : lltoa(v, base) \in Text
<1>1. \A v \in Nat : ulltoa(v, base) \in Text
  BY NumeralsAre DEF ulltoa
<1>2. ASSUME NEW v \in Int
      PROVE  lltoa(v, base) \in Text
  <2>1. Unsigned(-v) \in Nat
    BY LongRange
  <2> DEFINE n == ulltoa(Unsigned(-v), base)
             m == ulltoa(v, base)
  <2>2. n \in Text /\ <<45>> \in Text
    BY <1>1, <2>1 DEF Text, NUL
  <2>3. v >= 0 => m \in Text
    BY <1>1
  <2>4. lltoa(v, base) = IF v < 0 THEN <<45>> \o n ELSE m
    BY DEF lltoa
  <2> HIDE DEF n, m
  <2>5. <<45>> \o n \in Text
    BY <2>2, ConcatProperties DEF Text
  <2> QED
    BY <2>3, <2>4, <2>5
<1> QED
  BY <1>1, <1>2

-----------------------------------------------------------------------------
(* The call                                                                *)

LEMMA SizesAreBounded == \A n \in Sizes : n \in 0 .. MaxSize /\ MaxSize \in Nat
BY FormatAssumption

\* print appends its piece, and copies of it what fits.
LEMMA PrintKeeps ==
  ASSUME CallInv, NEW piece \in Seq(Nat), NEW type, type # "invalid",
         Takes(type), print(piece)
  PROVE  CallInv'
<1>1. /\ pc = "loop" /\ rc \in Nat /\ last = Nothing /\ buf = Filled
      /\ fmt \in Text /\ at \in Nat \ {0} /\ At(fmt, at) # NUL
      /\ text \in Seq(Nat) /\ written = Len(text) /\ written \in Nat
      /\ size \in Nat /\ size \in 0 .. MaxSize /\ sink \in {"line", "buf"}
      /\ sink = "line" => size = 0
  BY FormatAssumption DEF CallInv, CallTypeOK, Takes, More, Text
<1>2. at \in 1 .. Len(fmt)
  BY <1>1, AtIs
<1>3. at' \in 1 .. Len(fmt) + 1
  <2>1. decode_format(fmt, at).what.type = type /\ at' = decode_format(fmt, at).next
    BY DEF Takes
  <2>2. at' \in at + 1 .. Len(fmt) + 1
    BY <1>1, <1>2, <2>1, DecodeStays
  <2> QED
    BY <1>1, <1>2, <2>2 DEF Text
<1>4. /\ text' = text \o piece /\ written' = written + Len(piece) /\ Len(piece) \in Nat
      /\ rc' = 0 /\ UNCHANGED <<sink, fmt, size, last>>
  BY DEF print, Counted
<1>5. /\ text' \in Seq(Nat) /\ written' = Len(text')
      /\ \A i \in 1 .. written : text'[i] = text[i]
      /\ \A i \in 1 .. Len(piece) : text'[written + i] = piece[i]
  BY <1>1, <1>4, ConcatProperties
<1>6. buf' = Filled'
  <2>1. CASE sink = "buf"
    <3> DEFINE n == Remain(Len(piece))
    <3>1. buf' = [i \in Memory |-> IF i \in written .. written + n - 1
                                   THEN piece[i - written + 1] ELSE buf[i]]
      BY <2>1 DEF print, str_out
    <3>2. n = IF written > size THEN 0
              ELSE IF Len(piece) < size - written THEN Len(piece) ELSE size - written
      BY DEF Remain
    <3> HIDE DEF n
    <3>3. \A i \in Memory : buf[i] = IF i \in 0 .. size - 1 /\ i < written
                                     THEN text[i + 1] ELSE OLD
      BY <1>1 DEF Filled
    <3>4. ASSUME NEW i \in Memory
          PROVE  buf'[i] = IF i \in 0 .. size - 1 /\ i < written'
                           THEN text'[i + 1] ELSE OLD
      <4>1. i \in Int
        BY FormatAssumption DEF Memory
      <4>2. CASE i \in written .. written + n - 1
        <5>1. i - written + 1 \in 1 .. Len(piece) /\ i \in 0 .. size - 1 /\ i < written'
          BY <1>1, <1>4, <3>2, <4>1, <4>2
        <5>2. text'[i + 1] = piece[i - written + 1]
          <6>1. text'[written + (i - written + 1)] = piece[i - written + 1]
            BY <1>5, <5>1
          <6>2. written + (i - written + 1) = i + 1
            BY <1>1, <4>1
          <6> QED
            BY <6>1, <6>2
        <5> QED
          BY <3>1, <4>2, <5>1, <5>2
      <4>3. CASE i \notin written .. written + n - 1
        <5>1. buf'[i] = buf[i]
          BY <3>1, <4>3
        <5>2. i \in 0 .. size - 1 => (i < written' <=> i < written)
          BY <1>1, <1>4, <3>2, <4>1, <4>3
        <5>3. i \in 0 .. size - 1 /\ i < written => text'[i + 1] = text[i + 1]
          BY <1>1, <1>5, <4>1
        <5> QED
          BY <3>3, <5>1, <5>2, <5>3
      <4> QED
        BY <4>2, <4>3
    <3>5. buf' = [i \in Memory |-> buf'[i]]
      BY <3>1
    <3> HIDE DEF n
    <3> QED
      BY <1>4, <3>4, <3>5 DEF Filled
  <2>2. CASE sink = "line"
    <3>1. UNCHANGED buf /\ size = 0 /\ size' = 0
      BY <1>1, <1>4, <2>2 DEF print, serial_out
    <3>2. Filled' = [i \in Memory |-> OLD] /\ Filled = [i \in Memory |-> OLD]
      BY <3>1 DEF Filled
    <3> QED
      BY <1>1, <3>1, <3>2
  <2> QED
    BY <1>1, <2>1, <2>2
<1>7. pc' = IF sink = "buf" THEN "loop" ELSE "line"
  BY DEF print, str_out, serial_out
<1> QED
  BY <1>1, <1>3, <1>4, <1>5, <1>6, <1>7
     DEF CallInv, CallTypeOK, StaysInFormat, Text, Nothing

LEMMA PartOfText ==
  ASSUME NEW f \in Text, NEW a \in 1 .. Len(f), NEW b \in a + 1 .. Len(f) + 1
  PROVE  SubSeq(f, a, b - 1) \in Seq(Nat)
<1> DEFINE n == Len(f)
           len == b - a
<1>1. n \in Nat /\ f \in [1 .. n -> Nat] /\ a \in Nat /\ b \in Nat /\ len \in Nat
  BY DEF Text
<1>2. SubSeq(f, a, b - 1) = [i \in 1 .. len |-> f[a + i - 1]]
  BY <1>1
<1>3. \A i \in 1 .. len : a + i - 1 \in 1 .. n
  BY <1>1
<1> HIDE DEF n, len
<1>4. [i \in 1 .. len |-> f[a + i - 1]] \in [1 .. len -> Nat]
  BY <1>1, <1>3
<1> QED
  BY <1>1, <1>2, <1>4

\* What is printed for each type, and that it is made of bytes.
LEMMA PiecesAre ==
  ASSUME CallInv, PrintNone \/ PrintStr \/ PrintChar \/ PrintPercent \/ PrintInt
  PROVE  \E piece, type :
           piece \in Seq(Nat) /\ type # "invalid" /\ Takes(type) /\ print(piece)
<1>1. CASE PrintNone
  <2>1. Takes("none") /\ print(SubSeq(fmt, at, at' - 1))
    BY <1>1 DEF PrintNone
  <2>2. fmt \in Text /\ at \in 1 .. Len(fmt)
    <3>1. fmt \in Text /\ at \in Nat \ {0} /\ At(fmt, at) # NUL
      BY <2>1 DEF CallInv, CallTypeOK, Takes, More, Text
    <3> QED
      BY <3>1, AtIs
  <2>3. at' \in at + 1 .. Len(fmt) + 1
    BY <2>1, <2>2, DecodeStays DEF Takes
  <2>4. SubSeq(fmt, at, at' - 1) \in Seq(Nat)
    <3>1. PICK f, a, b : f = fmt /\ a = at /\ b = at'
      OBVIOUS
    <3>2. f \in Text /\ a \in 1 .. Len(f) /\ b \in a + 1 .. Len(f) + 1
      BY <2>2, <2>3, <3>1
    <3>3. SubSeq(f, a, b - 1) \in Seq(Nat)
      BY <3>2, PartOfText
    <3> QED
      BY <3>1, <3>3
  <2> QED
    BY <2>1, <2>4
<1>2. CASE PrintStr
  <2>1. PICK str \in StrArgs : Takes("str") /\ print(str)
    BY <1>2 DEF PrintStr
  <2>2. str \in Seq(Nat)
    BY FormatAssumption
  <2> QED
    BY <2>1, <2>2
<1>3. CASE PrintChar
  <2>1. PICK c \in CharArgs : Takes("char") /\ print(<<c>>)
    BY <1>3 DEF PrintChar
  <2>2. c \in Nat
    BY FormatAssumption
  <2>3. <<c>> \in Seq(Nat)
    BY <2>2
  <2> QED
    BY <2>1, <2>3
<1>4. CASE PrintPercent
  <2>1. <<37>> \in Seq(Nat)
    OBVIOUS
  <2>2. Takes("percent") /\ print(<<37>>)
    BY <1>4 DEF PrintPercent
  <2> QED
    BY <2>1, <2>2
<1>5. CASE PrintInt
  <2> DEFINE what == decode_format(fmt, at).what
             bits == IF what.spec \in {"long", "llong"} THEN LongBits ELSE IntBits
  <2>1. PICK v \in Edge(bits, what.signed) :
          /\ Takes("int")
          /\ print(IF what.signed THEN lltoa(v, what.base) ELSE ulltoa(v, what.base))
    BY <1>5 DEF PrintInt
  <2>2. what.base \in Bases
    <3>1. what.type = "int"
      BY <2>1 DEF Takes
    <3>2. ASSUME NEW c, NEW spec, Conversion(c, spec).type = "int"
          PROVE  Conversion(c, spec).base \in Bases
      BY <3>2 DEF Conversion, Bases
    <3>3. \/ what = [type |-> "none"]
          \/ \E c, spec : what = Conversion(c, spec)
      BY DEF decode_format, Directive
    <3> HIDE DEF what
    <3>4. PICK c, spec : what = Conversion(c, spec)
      BY <3>1, <3>3
    <3> QED
      BY <3>1, <3>2, <3>4
  <2>3. v \in Int /\ (~what.signed => v \in Nat)
    <3>1. bits \in Nat \ {0}
      BY FormatAssumption, LongAssumption
    <3>2. Shl[bits] \in Nat \ {0} /\ Shl[bits - 1] \in Nat
      BY <3>1, ShlIs, ShlPos
    <3> HIDE DEF bits
    <3> QED
      BY <3>1, <3>2 DEF Edge
  <2> DEFINE piece == IF what.signed THEN lltoa(v, what.base) ELSE ulltoa(v, what.base)
  <2>4. piece \in Text
    <3> HIDE DEF what
    <3> QED
      BY <2>2, <2>3, Written
  <2> HIDE DEF what
  <2>5. piece \in Seq(Nat)
    BY <2>4 DEF Text
  <2> QED
    BY <2>1, <2>5
<1> QED
  BY <1>1, <1>2, <1>3, <1>4, <1>5

LEMMA PiecesKeep ==
  ASSUME CallInv, PrintNone \/ PrintStr \/ PrintChar \/ PrintPercent \/ PrintInt
  PROVE  CallInv'
<1>1. PICK piece, type :
        piece \in Seq(Nat) /\ type # "invalid" /\ Takes(type) /\ print(piece)
  BY PiecesAre
<1> QED
  BY <1>1, PrintKeeps

-----------------------------------------------------------------------------
(* The other steps of the call.                                            *)

\* What the invariant says when the loop is at its test.
LEMMA InTheLoop ==
  ASSUME CallInv, pc = "loop"
  PROVE  /\ last = Nothing /\ buf = Filled /\ fmt \in Text /\ at \in Nat \ {0}
         /\ text \in Seq(Nat) /\ written = Len(text) /\ written \in Nat
         /\ size \in Nat /\ size \in 0 .. MaxSize /\ sink \in {"line", "buf"}
         /\ sink = "line" => size = 0
         /\ More => rc \in Nat /\ at \in 1 .. Len(fmt)
<1>1. /\ last = Nothing /\ buf = Filled /\ fmt \in Text /\ at \in Nat \ {0}
      /\ text \in Seq(Nat) /\ written = Len(text) /\ rc \in Nat \cup {-1}
      /\ size \in 0 .. MaxSize /\ sink \in {"line", "buf"}
      /\ sink = "line" => size = 0
  BY DEF CallInv, CallTypeOK, Text
<1>2. size \in Nat /\ written \in Nat
  BY <1>1, FormatAssumption
<1>3. ASSUME More PROVE rc \in Nat /\ at \in 1 .. Len(fmt)
  <2>1. At(fmt, at) # NUL /\ rc \in Nat
    BY <1>1, <1>3 DEF More
  <2>2. Len(fmt) \in Nat
    BY <1>1 DEF Text
  <2> QED
    BY <1>1, <2>1, <2>2, AtIs
<1> QED
  BY <1>1, <1>2, <1>3

LEMMA InvalidKeeps ==
  ASSUME CallInv, PrintInvalid
  PROVE  CallInv'
<1>1. /\ pc = "loop" /\ More /\ at' = decode_format(fmt, at).next /\ rc' = -1
      /\ UNCHANGED <<pc, sink, fmt, written, size, buf, out, text, last>>
  BY DEF PrintInvalid, Takes, More, Rejected
<1>2. /\ last = Nothing /\ buf = Filled /\ fmt \in Text /\ at \in 1 .. Len(fmt)
      /\ text \in Seq(Nat) /\ written = Len(text) /\ size \in 0 .. MaxSize
      /\ sink \in {"line", "buf"}
      /\ sink = "line" => size = 0
  BY <1>1, InTheLoop
<1>3. at' \in Nat \ {0}
  <2>1. decode_format(fmt, at).next \in Nat \ {0}
    BY <1>2, DecodeStays
  <2> QED
    BY <1>1, <2>1
<1>4. Filled' = Filled
  BY <1>1 DEF Filled
<1> QED
  BY <1>1, <1>2, <1>3, <1>4 DEF CallInv, CallTypeOK, StaysInFormat, Text, Nothing

LEMMA DoneKeeps ==
  ASSUME CallInv, LoopDone
  PROVE  CallInv'
<1>1. /\ pc = "loop" /\ pc' = (IF sink = "buf" THEN "end" ELSE "idle")
      /\ last' = IF sink = "buf" THEN Nothing
                 ELSE [fn |-> "vprintf", rc |-> IF rc < 0 THEN rc ELSE written]
      /\ rc' = IF rc < 0 THEN rc ELSE written
      /\ UNCHANGED <<sink, fmt, at, written, size, buf, text>>
  BY DEF LoopDone
<1>2. /\ last = Nothing /\ buf = Filled /\ fmt \in Text /\ at \in Nat \ {0}
      /\ text \in Seq(Nat) /\ written = Len(text) /\ written \in Nat
      /\ size \in 0 .. MaxSize
      /\ sink \in {"line", "buf"}
      /\ sink = "line" => size = 0
  BY <1>1, InTheLoop
<1>3. rc' \in {-1, written}
  <2>1. rc \in Nat \cup {-1}
    BY DEF CallInv, CallTypeOK
  <2> QED
    BY <1>1, <1>2, <2>1
<1>4. Filled' = Filled
  BY <1>1 DEF Filled
<1>5. CASE sink = "buf"
  BY <1>1, <1>2, <1>3, <1>4, <1>5 DEF CallInv, CallTypeOK, StaysInFormat, Text, Nothing
<1>6. CASE sink = "line"
  <2>1. pc' = "idle" /\ last'.fn = "vprintf" /\ size = 0
    BY <1>1, <1>2, <1>6
  <2>2. buf' = Untouched
    <3>1. \A i \in Memory : ~(i \in 0 .. size - 1)
      BY <2>1
    <3> QED
      BY <1>1, <1>2, <3>1 DEF Filled, Untouched
  <2> QED
    BY <1>1, <1>2, <1>3, <1>6, <2>1, <2>2 DEF CallInv, CallTypeOK, StaysInFormat, Text
<1>7. sink = "buf" \/ sink = "line"
  BY <1>2
<1> QED
  BY <1>5, <1>6, <1>7

LEMMA EndKeeps ==
  ASSUME CallInv, vsnprintfEnds
  PROVE  CallInv'
<1>1. /\ pc = "end" /\ pc' = "idle"
      /\ buf' = (IF rc >= 0 THEN [buf EXCEPT ![Terminator] = NUL] ELSE buf)
      /\ last' = [fn |-> "vsnprintf", rc |-> rc]
      /\ UNCHANGED <<sink, fmt, at, written, rc, size, text>>
  BY DEF vsnprintfEnds
<1>2. /\ sink = "buf" /\ rc \in {-1, written} /\ buf = Filled
      /\ fmt \in Text /\ at \in Nat \ {0} /\ text \in Seq(Nat) /\ written = Len(text)
      /\ size \in 0 .. MaxSize /\ rc \in Nat \cup {-1}
  BY <1>1 DEF CallInv, CallTypeOK, Text
<1>3. Filled' = Filled /\ Terminator' = Terminator
  BY <1>1 DEF Filled, Terminator
<1>4. buf' = Ended'
  BY <1>1, <1>2, <1>3 DEF Ended
<1> QED
  BY <1>1, <1>2, <1>4 DEF CallInv, CallTypeOK, StaysInFormat, Text

\* A call begins.
LEMMA CallKeeps ==
  ASSUME CallInv, Idle, NEW where \in {"line", "buf"}, NEW f \in Text,
         NEW n \in 0 .. MaxSize, where = "line" => n = 0, Call(where, f, n)
  PROVE  CallInv'
<1>1. /\ pc = "idle" /\ last = Nothing /\ at = 1 /\ text = <<>> /\ rc = 0
      /\ buf = Untouched /\ written = 0
  BY DEF CallInv, CallTypeOK, Idle, Nothing
<1>2. /\ pc' = "loop" /\ sink' = where /\ fmt' = f /\ size' = n
      /\ UNCHANGED <<at, written, rc, buf, text, last>>
  BY DEF Call
<1>3. buf' = Filled'
  <2>1. \A i \in Memory : ~(i \in 0 .. n - 1 /\ i < 0)
    OBVIOUS
  <2> QED
    BY <1>1, <1>2, <2>1 DEF Filled, Untouched
<1>4. Len(f) \in Nat
  BY DEF Text
<1>5. /\ pc' = "loop" /\ sink' \in {"line", "buf"} /\ fmt' \in Seq(Nat \ {NUL})
      /\ at' = 1 /\ text' = <<>> /\ written' = 0 /\ rc' = 0
      /\ size' \in 0 .. MaxSize /\ last' = Nothing
      /\ sink' = "line" => size' = 0
  BY <1>1, <1>2 DEF Text
<1>6. StaysInFormat'
  BY <1>2, <1>4, <1>5 DEF StaysInFormat
<1>7. CallTypeOK'
  BY <1>5 DEF CallTypeOK
<1> QED
  BY <1>3, <1>5, <1>6, <1>7 DEF CallInv, Nothing

\* A conversion has nothing to do with the memory.
LEMMA ReturnKeeps ==
  ASSUME CallInv, Idle, NEW result, result.fn \in {"strtoul", "lltoa"},
         Returns(result)
  PROVE  CallInv'
<1>1. /\ pc = "idle" /\ fmt = <<>> /\ at = 1 /\ text = <<>> /\ rc = 0 /\ size = 0
      /\ buf = Untouched
  BY DEF CallInv, Idle, Nothing
<1>2. /\ last' = result
      /\ UNCHANGED <<pc, sink, fmt, at, written, rc, size, buf, text>>
  BY DEF Returns
<1> QED
  BY <1>1, <1>2 DEF CallInv, CallTypeOK, StaysInFormat

LEMMA RestKeeps ==
  ASSUME CallInv, Booted \/ TakeResult \/ PutChar \/ SerialWritten \/ UNCHANGED printVars
  PROVE  CallInv'
<1>1. CASE Booted
  <2>1. /\ pc = "boot" /\ pc' = "idle"
        /\ UNCHANGED <<sink, fmt, at, written, rc, size, buf, text, last>>
    BY <1>1 DEF Booted
  <2> QED
    BY <2>1 DEF CallInv, CallTypeOK, StaysInFormat, Nothing
<1>2. CASE TakeResult
  <2>1. /\ pc' = "idle" /\ last' = Nothing /\ sink' = "line" /\ fmt' = <<>> /\ at' = 1
        /\ written' = 0 /\ rc' = 0 /\ size' = 0 /\ buf' = Untouched /\ text' = <<>>
    BY <1>2 DEF TakeResult
  <2>2. 0 \in 0 .. MaxSize
    BY FormatAssumption
  <2> QED
    BY <2>1, <2>2 DEF CallInv, CallTypeOK, StaysInFormat, Nothing
<1>3. CASE PutChar
  <2>1. UNCHANGED <<pc, sink, fmt, at, written, rc, size, buf, text, last>>
    BY <1>3 DEF PutChar
  <2> QED
    BY <2>1 DEF CallInv, CallTypeOK, StaysInFormat, Filled, Ended, Terminator
<1>4. CASE SerialWritten
  <2>1. /\ pc = "line" /\ pc' = "loop"
        /\ UNCHANGED <<sink, fmt, at, written, rc, size, buf, text, last>>
    BY <1>4 DEF SerialWritten
  <2>2. Filled' = Filled
    BY <2>1 DEF Filled
  <2> QED
    BY <2>1, <2>2 DEF CallInv, CallTypeOK, StaysInFormat, Nothing
<1>5. CASE UNCHANGED printVars
  BY <1>5 DEF printVars, CallInv, CallTypeOK, StaysInFormat, Filled, Ended, Terminator
<1> QED
  BY <1>1, <1>2, <1>3, <1>4, <1>5

-----------------------------------------------------------------------------
(* The buffer and the format                                               *)

LEMMA CallInvariance == Spec => []CallInv
<1>1. Init => CallInv
  <2>1. 0 \in 0 .. MaxSize
    BY FormatAssumption
  <2>2. \A i \in Memory : ~(i \in 0 .. 0 - 1)
    OBVIOUS
  <2>3. Init => buf = Filled
    BY <2>2 DEF Init, Filled, Untouched
  <2> QED
    BY <2>1, <2>3 DEF Init, CallInv, CallTypeOK, StaysInFormat, Nothing
<1>2. ASSUME CallInv, [Next]_vars
      PROVE  CallInv'
  <2>1. CASE PrintNone \/ PrintStr \/ PrintChar \/ PrintPercent \/ PrintInt
    BY <1>2, <2>1, PiecesKeep
  <2>2. CASE PrintInvalid
    BY <1>2, <2>2, InvalidKeeps
  <2>3. CASE LoopDone
    BY <1>2, <2>3, DoneKeeps
  <2>4. CASE vsnprintfEnds
    BY <1>2, <2>4, EndKeeps
  <2>5. CASE Booted \/ TakeResult \/ PutChar \/ SerialWritten \/ UNCHANGED printVars
    BY <1>2, <2>5, RestKeeps
  <2>6. CASE AwaitLine \/ OthersPrint
    BY <1>2, <2>6, RestKeeps DEF AwaitLine, OthersPrint
  <2>7. CASE Idle /\ \E f \in LineFormats : vprintf(f)
    <3>1. PICK f \in LineFormats : Call("line", f, 0)
      BY <2>7 DEF vprintf
    <3>2. f \in Text /\ 0 \in 0 .. MaxSize
      BY FormatAssumption DEF Text
    <3> QED
      BY <1>2, <2>7, <3>1, <3>2, CallKeeps
  <2>8. CASE Idle /\ \E f \in Formats, n \in Sizes : vsnprintf(f, n)
    <3>1. PICK f \in Formats, n \in Sizes : Call("buf", f, n)
      BY <2>8 DEF vsnprintf
    <3>2. f \in Text /\ n \in 0 .. MaxSize
      BY FormatAssumption DEF Text
    <3> QED
      BY <1>2, <2>8, <3>1, <3>2, CallKeeps
  <2>9. CASE Idle /\ \E str \in Scanned, base \in {0, 8, 10, 16} : CallStrtoul(str, base)
    <3>1. PICK str, base : CallStrtoul(str, base)
      BY <2>9
    <3> DEFINE result == [fn |-> "strtoul", str |-> str, base |-> base,
                          result |-> strtoul(str, base)]
    <3>2. result.fn = "strtoul" /\ Returns(result)
      BY <3>1 DEF CallStrtoul
    <3> HIDE DEF result
    <3> QED
      BY <1>2, <2>9, <3>2, ReturnKeeps
  <2>10. CASE Idle /\ \E v \in Long, base \in {8, 10, 16} : CallLltoa(v, base)
    <3>1. PICK v, base : CallLltoa(v, base)
      BY <2>10
    <3> DEFINE result == [fn |-> "lltoa", value |-> v, base |-> base,
                          str |-> lltoa(v, base)]
    <3>2. result.fn = "lltoa" /\ Returns(result)
      BY <3>1 DEF CallLltoa
    <3> HIDE DEF result
    <3> QED
      BY <1>2, <2>10, <3>2, ReturnKeeps
  <2>11. UNCHANGED vars => UNCHANGED printVars
    BY DEF vars
  <2> QED
    BY <1>2, <2>1, <2>2, <2>3, <2>4, <2>5, <2>6, <2>7, <2>8, <2>9, <2>10, <2>11 DEF Next
<1> QED
  BY <1>1, <1>2, PTL DEF Spec

\* Whatever the format: __vprintf's pointer into it stays at or before the
\* final NUL while the call has not failed.
THEOREM FormatIsNotLeft == Spec => []StaysInFormat
<1>1. CallInv => StaysInFormat
  BY DEF CallInv
<1> QED
  BY <1>1, CallInvariance, PTL

\* Whatever is printed, and however small the buffer: vsnprintf writes inside
\* it, and before it only the NUL of an empty text or of a buffer without
\* room.
THEOREM WritesStayInside == Spec => []WritesInside
<1>1. ASSUME CallInv PROVE WritesInside
  <2>1. /\ size \in 0 .. MaxSize /\ size \in Nat /\ written \in Nat
        /\ rc \in Nat \cup {-1} /\ \A i \in Memory : i \in Int
    BY <1>1, FormatAssumption DEF CallInv, CallTypeOK, Memory
  <2>2. \A i \in Memory : Filled[i] # OLD => i \in 0 .. size - 1
    BY DEF Filled
  <2>3. CASE buf = Filled
    BY <2>2, <2>3 DEF WritesInside
  <2>4. CASE buf = Untouched
    BY <2>4 DEF WritesInside, Untouched
  <2>5. CASE last.fn = "vsnprintf" /\ pc = "idle" /\ last.rc = rc /\ buf = Ended
    <3>1. ASSUME NEW i \in Memory, buf[i] # OLD, i \notin 0 .. size - 1
          PROVE  i = -1 /\ (rc = 0 \/ size = 0)
      <4>1. Filled[i] = OLD
        BY <2>2, <3>1
      <4>2. rc >= 0 /\ i = Terminator
        <5>1. buf = IF rc >= 0 THEN [Filled EXCEPT ![Terminator] = NUL] ELSE Filled
          BY <2>5 DEF Ended
        <5>2. ~(rc >= 0) => buf[i] = Filled[i]
          BY <5>1
        <5>3. i # Terminator => [Filled EXCEPT ![Terminator] = NUL][i] = Filled[i]
          BY DEF Filled
        <5> QED
          BY <3>1, <4>1, <5>1, <5>2, <5>3
      <4> QED
        BY <2>1, <3>1, <4>2 DEF Terminator
    <3> QED
      BY <2>5, <3>1 DEF WritesInside
  <2>6. last.fn = "vsnprintf" => pc = "idle"
    BY <1>1 DEF CallInv, Nothing
  <2> QED
    BY <1>1, <2>3, <2>4, <2>5, <2>6 DEF CallInv, CallTypeOK, Nothing
<1> QED
  BY <1>1, CallInvariance, PTL

\* vsnprintf answers with the length of the whole text, and what is in the
\* buffer is the text up to the NUL, wherever that cuts it.
THEOREM BufferHoldsText == Spec => []TextIsCut
<1>1. ASSUME CallInv PROVE TextIsCut
  <2> SUFFICES ASSUME last.fn = "vsnprintf", last.rc > 0, size > 0
               PROVE  LET n == IF last.rc < size THEN last.rc ELSE size
                      IN  /\ last.rc = Len(text)
                          /\ \A i \in 0 .. n - 2 : buf[i] = text[i + 1]
                          /\ buf[n - 1] = NUL
    BY DEF TextIsCut
  <2>1. /\ size \in 0 .. MaxSize /\ size \in Nat /\ written \in Nat /\ MaxSize \in Nat
        /\ written = Len(text) /\ last.rc = rc /\ rc \in {-1, written} /\ buf = Ended
    BY <1>1, FormatAssumption DEF CallInv, CallTypeOK
  <2>2. rc = written /\ rc >= 0
    BY <2>1
  <2> DEFINE n == IF rc < size THEN rc ELSE size
  <2>3. n - 1 \in Memory /\ n \in Nat /\ Terminator = n - 1 /\ n =< written /\ n =< size
    BY <2>1, <2>2 DEF Memory, Terminator
  <2>4. buf = [Filled EXCEPT ![n - 1] = NUL]
    BY <2>1, <2>2, <2>3 DEF Ended
  <2>5. buf[n - 1] = NUL
    BY <2>3, <2>4 DEF Filled
  <2>6. ASSUME NEW i \in 0 .. n - 2 PROVE buf[i] = text[i + 1]
    <3>1. i \in Memory /\ i # n - 1 /\ i \in 0 .. size - 1 /\ i < written
      BY <2>1, <2>3 DEF Memory
    <3> HIDE DEF n
    <3> QED
      BY <2>4, <3>1 DEF Filled
  <2> QED
    BY <2>1, <2>2, <2>5, <2>6
<1> QED
  BY <1>1, CallInvariance, PTL

-----------------------------------------------------------------------------
(* The loops of strtoul                                                    *)

\* f is the states of a loop whose k-th turn is G[k], up to its m-th.
Runs(f, m, start, G) == f[0] = start /\ \A k \in 1 .. m : f[k] = G[k][f[k - 1]]

LEMMA LoopRuns ==
  ASSUME NEW n \in Nat, NEW S, NEW start \in S, NEW G \in [1 .. n -> [S -> S]]
  PROVE  \E f \in [0 .. n -> S] : Runs(f, n, start, G)
<1> DEFINE T == {m \in 0 .. n : ~\E f \in [0 .. m -> S] : Runs(f, m, start, G)}
<1>1. SUFFICES ASSUME T # {} PROVE FALSE
  OBVIOUS
<1>2. PICK m \in T : \A j \in T : m =< j
  <2>1. T \in SUBSET Nat
    OBVIOUS
  <2> HIDE DEF T
  <2> QED
    BY <1>1, <2>1, Least
<1>3. m # 0
  <2> DEFINE f == [k \in 0 .. 0 |-> start]
  <2>1. f \in [0 .. 0 -> S] /\ Runs(f, 0, start, G)
    BY DEF Runs
  <2> HIDE DEF f
  <2> QED
    BY <1>2, <2>1
<1>4. m - 1 \in 0 .. n /\ m - 1 \notin T
  BY <1>2, <1>3
<1>5. PICK f \in [0 .. m - 1 -> S] : Runs(f, m - 1, start, G)
  BY <1>4
<1> DEFINE g == [k \in 0 .. m |-> IF k = m THEN G[m][f[m - 1]] ELSE f[k]]
<1>6. G[m][f[m - 1]] \in S
  <2>1. f[m - 1] \in S /\ m \in 1 .. n
    BY <1>2, <1>4, <1>5
  <2> QED
    BY <2>1
<1>7. g \in [0 .. m -> S]
  <2>1. \A k \in 0 .. m : k # m => k \in 0 .. m - 1
    BY <1>2
  <2> QED
    BY <1>5, <1>6, <2>1
<1>8. g[0] = start
  BY <1>2, <1>3, <1>5 DEF Runs
<1>9. ASSUME NEW k \in 1 .. m PROVE g[k] = G[k][g[k - 1]]
  <2>1. k - 1 \in 0 .. m /\ k - 1 # m /\ g[k - 1] = f[k - 1]
    BY <1>2
  <2>2. k # m => k \in 1 .. m - 1
    BY <1>2
  <2> QED
    BY <1>5, <2>1, <2>2 DEF Runs
<1>10. Runs(g, m, start, G)
  BY <1>8, <1>9 DEF Runs
<1> HIDE DEF g
<1> QED
  BY <1>2, <1>7, <1>10

\* What a character stands for is a number, though not always of a digit.
LEMMA DigitIsInt == \A c \in Nat : Digit(c) \in Int
BY DEF Digit, toupper, islower, isdigit

\* A digit of the base.
IsDigit(c, base) == Digit(c) \in 0 .. base - 1

LEMMA NumeralsHaveDigits ==
  ASSUME NEW str \in Text, NEW base \in Bases, NEW i \in Nat \ {0},
         IsNumeral(str, i, base), NEW k \in i .. Len(str)
  PROVE  IsDigit(str[k], base) /\ ~isspace(str[k]) /\ ~IsSign(str[k]) /\ str[k] # 120
<1>1. \/ isdigit(str[k]) /\ str[k] - 48 < base
      \/ toupper(str[k]) \in 65 .. 55 + base - 1
  BY DEF IsNumeral
<1> DEFINE c == str[k]
<1>2. c \in Nat
  <2>1. k \in 1 .. Len(str) /\ str \in Seq(Nat \ {NUL})
    BY DEF Text
  <2> QED
    BY <2>1
<1> HIDE DEF c
<1>3. CASE isdigit(c) /\ c - 48 < base
  <2>1. c \in 48 .. 57 /\ toupper(c) = c
    BY <1>2, <1>3 DEF isdigit, toupper, islower
  <2>2. Digit(c) = c - 48
    BY <1>3, <2>1 DEF Digit
  <2> QED
    <3>1. Digit(c) \in 0 .. base - 1
      BY <1>3, <2>1, <2>2 DEF Bases
    <3>2. ~isspace(c) /\ ~IsSign(c) /\ c # 120
      BY <2>1 DEF isspace, IsSign
    <3> QED
      BY <3>1, <3>2 DEF IsDigit, c
<1>4. CASE toupper(c) \in 65 .. 55 + base - 1
  <2>1. base = 16 /\ toupper(c) \in 65 .. 70
    BY <1>4 DEF Bases
  <2>2. Digit(c) = toupper(c) - 55
    <3> DEFINE u == toupper(c)
    <3>1. Digit(c) = IF u \in 48 .. 57 THEN u - 48 ELSE u - 65 + 10
      BY DEF Digit, isdigit
    <3>2. u \in 65 .. 70
      BY <2>1
    <3> HIDE DEF u
    <3>3. Digit(c) = u - 55
      BY <3>1, <3>2
    <3> QED
      BY <3>3 DEF u
  <2>3. c \in 65 .. 70 \cup 97 .. 102
    BY <1>2, <2>1 DEF toupper, islower
  <2> QED
    <3>1. Digit(c) \in 0 .. 15
      BY <2>1, <2>2
    <3>2. ~isspace(c) /\ ~IsSign(c) /\ c # 120
      BY <2>3 DEF isspace, IsSign
    <3> QED
      BY <2>1, <3>1, <3>2 DEF IsDigit, c
<1> QED
  BY <1>1, <1>3, <1>4 DEF c

\* The states of the loop.
Reading == [ret : 0 .. ULONG_MAX, at : Nat, stop : BOOLEAN]

LEMMA TurnReads ==
  ASSUME NEW s \in Reading, NEW c \in Nat, NEW base \in Bases
  PROVE  /\ Turn(s, c, base) \in Reading
         /\ s.stop => Turn(s, c, base) = s
         /\ ~s.stop /\ IsDigit(c, base) =>
              LET v == s.ret * base + Digit(c)
              IN  Turn(s, c, base) =
                    IF v > ULONG_MAX
                    THEN [ret |-> ULONG_MAX, at |-> s.at, stop |-> TRUE]
                    ELSE [ret |-> v, at |-> s.at + 1, stop |-> FALSE]
<1> DEFINE U == ULONG_MAX
           d == Digit(c)
           v == s.ret * base + d
<1>1. /\ U \in Nat /\ U >= 15 /\ \A x \in Int : Unsigned(x) \in 0 .. U
      /\ \A x \in 0 .. U : Unsigned(x) = x
  <2>1. \A x \in 0 .. U : Unsigned(x) = x
    <3> DEFINE R == Shl[LongBits]
    <3>1. R \in Nat /\ R > 0 /\ U = R - 1
      BY LongRange DEF ULONG_MAX
    <3> HIDE DEF R
    <3>2. \A x \in 0 .. R - 1 : x % R = x
      BY <3>1
    <3> QED
      BY <3>1, <3>2 DEF Unsigned, R
  <2> QED
    BY <2>1, LongRange
<1>2. d \in Int /\ s.ret \in 0 .. U /\ s.at \in Nat /\ s.stop \in BOOLEAN
  BY DigitIsInt DEF Reading
<1> HIDE DEF d, U
<1>4. v \in Int
  BY <1>1, <1>2 DEF Bases
<1>5. Unsigned(v) \in 0 .. U
  BY <1>1, <1>4
<1>8. Turn(s, c, base) = IF s.stop THEN s
                         ELSE IF Overflows(s.ret, d, base)
                         THEN [ret |-> U, at |-> s.at, stop |-> TRUE]
                         ELSE [ret |-> Unsigned(v), at |-> s.at + 1, stop |-> FALSE]
  <2>1. CASE s.stop
    BY <2>1 DEF Turn
  <2>2. CASE ~s.stop
    BY <2>2 DEF Turn, d, U
  <2> QED
    BY <2>1, <2>2
<1>9. Turn(s, c, base) \in Reading
  <2>1. [ret |-> U, at |-> s.at, stop |-> TRUE] \in Reading
    BY <1>1, <1>2 DEF Reading, U
  <2>2. [ret |-> Unsigned(v), at |-> s.at + 1, stop |-> FALSE] \in Reading
    BY <1>2, <1>5 DEF Reading, U
  <2> HIDE DEF v
  <2> QED
    BY <1>8, <2>1, <2>2
<1>10. ASSUME ~s.stop, IsDigit(c, base)
       PROVE  Turn(s, c, base) = IF v > U THEN [ret |-> U, at |-> s.at, stop |-> TRUE]
                                 ELSE [ret |-> v, at |-> s.at + 1, stop |-> FALSE]
  <2>1. d \in 0 .. base - 1 /\ d \in 0 .. 15
    BY <1>10 DEF IsDigit, d, Bases
  <2>2. U - d \in 0 .. U
    BY <1>1, <2>1
  <2>3. Overflows(s.ret, d, base) <=> s.ret > (U - d) \div base
    <3>1. Unsigned(U - d) = U - d
      BY <1>1, <2>2
    <3> QED
      BY <3>1 DEF Overflows, U
  <2>4. s.ret > (U - d) \div base <=> v > U
    <3> DEFINE w == U - d
               q == w \div base
    <3>1. w \in Nat
      BY <2>2
    <3> HIDE DEF w
    <3>2. q \in Nat /\ w % base \in 0 .. base - 1 /\ w = base * q + (w % base)
      BY <3>1, Dividing
    <3> HIDE DEF q
    <3>3. s.ret > q <=> s.ret * base > w
      BY <1>2, <3>1, <3>2 DEF Bases
    <3>4. s.ret * base \in Int
      BY <1>2 DEF Bases
    <3>5. s.ret * base > w <=> v > U
      <4> DEFINE x == s.ret * base
      <4> HIDE DEF x
      <4>1. x > w <=> x + d > U
        BY <1>1, <2>1, <3>4 DEF x, w
      <4> QED
        BY <4>1 DEF x
    <3> QED
      BY <3>3, <3>5 DEF q, w
  <2>5. ~(v > U) => v \in 0 .. U
    BY <1>1, <1>2, <1>4, <2>1 DEF Bases
  <2>6. ~(v > U) => Unsigned(v) = v
    BY <1>1, <2>5
  <2> HIDE DEF v
  <2> QED
    BY <1>8, <1>10, <2>3, <2>4, <2>6
<1> QED
  BY <1>8, <1>9, <1>10 DEF U, d

\* f and g start alike and have the same turns.
SameTurns(f, g, n) ==
  f[0] = g[0] /\ \A k \in 1 .. n : f[k - 1] = g[k - 1] => f[k] = g[k]

LEMMA TurnsAgree ==
  ASSUME NEW n \in Nat, NEW f, NEW g, SameTurns(f, g, n)
  PROVE  \A k \in 0 .. n : f[k] = g[k]
<1> DEFINE T == {k \in 0 .. n : f[k] # g[k]}
<1>1. SUFFICES ASSUME T # {} PROVE FALSE
  OBVIOUS
<1>2. PICK k \in T : \A j \in T : k =< j
  <2>1. T \in SUBSET Nat
    OBVIOUS
  <2> HIDE DEF T
  <2> QED
    BY <1>1, <2>1, Least
<1>3. k \in 1 .. n /\ k - 1 \in 0 .. n /\ k - 1 \notin T
  BY <1>2 DEF SameTurns
<1> QED
  BY <1>2, <1>3 DEF SameTurns

\* The loop of strtoul, as the recursive definition has it.
LEMMA TurnsAre ==
  ASSUME NEW str \in Text, NEW p \in 1 .. Len(str) + 1, NEW base \in Bases
  PROVE  LET n == Len(str) + 1 - p
             f == Turns(str, p, base)
         IN  /\ f \in [0 .. n -> Reading]
             /\ f[0] = [ret |-> 0, at |-> 0, stop |-> FALSE]
             /\ \A k \in 1 .. n : f[k] = Turn(f[k - 1], str[p + k - 1], base)
<1> DEFINE n     == Len(str) + 1 - p
           start == [ret |-> 0, at |-> 0, stop |-> FALSE]
           R(f)  == [k \in 0 .. n |-> IF k = 0 THEN start
                                      ELSE Turn(f[k - 1], str[p + k - 1], base)]
           G     == [k \in 1 .. n |-> [s \in Reading |-> Turn(s, str[p + k - 1], base)]]
           t     == Turns(str, p, base)
<1>1. n \in Nat /\ \A k \in 1 .. n : str[p + k - 1] \in Nat
  <2>1. Len(str) \in Nat /\ str \in [1 .. Len(str) -> Nat]
    BY DEF Text
  <2> QED
    BY <2>1
<1>2. start \in Reading
  BY LongRange DEF Reading
<1>3. t = CHOOSE f : f = R(f)
  BY DEF Turns
<1> HIDE DEF n, t, start
<1>4. G \in [1 .. n -> [Reading -> Reading]]
  BY <1>1, TurnReads
<1>5. PICK f \in [0 .. n -> Reading] : Runs(f, n, start, G)
  <2> HIDE DEF G
  <2> QED
    BY <1>1, <1>2, <1>4, LoopRuns
<1>6. \A k \in 1 .. n : f[k] = Turn(f[k - 1], str[p + k - 1], base)
  <2>1. ASSUME NEW k \in 1 .. n PROVE f[k - 1] \in Reading
    <3>1. k - 1 \in 0 .. n
      BY <1>1
    <3> QED
      BY <3>1
  <2> QED
    BY <1>5, <2>1 DEF Runs
<1>7. f = R(f)
  BY <1>1, <1>5, <1>6 DEF Runs
<1>8. t = R(t)
  <2> HIDE DEF R
  <2> QED
    BY <1>3, <1>7
<1>9. t[0] = start /\ \A k \in 1 .. n : t[k] = Turn(t[k - 1], str[p + k - 1], base)
  BY <1>1, <1>8
<1>10. \A k \in 0 .. n : t[k] = f[k]
  <2>1. SameTurns(t, f, n)
    BY <1>5, <1>6, <1>9 DEF SameTurns, Runs
  <2> QED
    BY <1>1, <2>1, TurnsAgree
<1>11. t \in [0 .. n -> Reading]
  BY <1>8, <1>10
<1> QED
  BY <1>9, <1>11 DEF n, t, start

LEMMA ValuesAre ==
  ASSUME NEW str \in Text, NEW i \in 1 .. Len(str) + 1, NEW base \in Bases
  PROVE  LET n == Len(str) + 1 - i
             f == Values(str, i, base)
         IN  /\ f \in [0 .. n -> Int]
             /\ f[0] = 0
             /\ \A k \in 1 .. n : f[k] = f[k - 1] * base + Digit(str[i + k - 1])
<1> DEFINE n     == Len(str) + 1 - i
           next(v, k) == v * base + Digit(str[i + k - 1])
           R(f)  == [k \in 0 .. n |-> IF k = 0 THEN 0 ELSE next(f[k - 1], k)]
           G     == [k \in 1 .. n |-> [v \in Int |-> next(v, k)]]
           t     == Values(str, i, base)
<1>1. n \in Nat /\ \A k \in 1 .. n : Digit(str[i + k - 1]) \in Int
  <2>1. Len(str) \in Nat /\ str \in [1 .. Len(str) -> Nat]
    BY DEF Text
  <2>2. n \in Nat /\ \A k \in 1 .. n : str[i + k - 1] \in Nat
    BY <2>1
  <2> HIDE DEF n
  <2> QED
    BY <2>2, DigitIsInt
<1>2. ASSUME NEW k \in 1 .. n, NEW v \in Int PROVE next(v, k) \in Int
  <2> DEFINE d == Digit(str[i + k - 1])
  <2>1. d \in Int
    BY <1>1
  <2> HIDE DEF d
  <2>2. v * base + d \in Int
    BY <2>1 DEF Bases
  <2> QED
    BY <2>2 DEF d
<1>3. t = CHOOSE f : f = R(f)
  BY DEF Values
<1> HIDE DEF n, t, next
<1>4. G \in [1 .. n -> [Int -> Int]]
  BY <1>2
<1>5. PICK f \in [0 .. n -> Int] : Runs(f, n, 0, G)
  <2>1. 0 \in Int
    OBVIOUS
  <2> HIDE DEF G
  <2> QED
    BY <1>1, <1>4, <2>1, LoopRuns
<1>6. \A k \in 1 .. n : f[k] = next(f[k - 1], k)
  <2>1. ASSUME NEW k \in 1 .. n PROVE f[k - 1] \in Int
    <3>1. k - 1 \in 0 .. n
      BY <1>1
    <3> QED
      BY <3>1
  <2> QED
    BY <1>5, <2>1 DEF Runs
<1>7. f = R(f)
  BY <1>1, <1>5, <1>6 DEF Runs
<1>8. t = R(t)
  <2> HIDE DEF R
  <2> QED
    BY <1>3, <1>7
<1>9. t[0] = 0 /\ \A k \in 1 .. n : t[k] = next(t[k - 1], k)
  BY <1>1, <1>8
<1>10. \A k \in 0 .. n : t[k] = f[k]
  <2>1. SameTurns(t, f, n)
    BY <1>5, <1>6, <1>9 DEF SameTurns, Runs
  <2> QED
    BY <1>1, <2>1, TurnsAgree
<1>11. t \in [0 .. n -> Int]
  BY <1>8, <1>10
<1> QED
  BY <1>9, <1>11 DEF n, t, next

\* Induction up to n.
LEMMA Upwards ==
  ASSUME NEW n \in Nat, NEW T \in SUBSET (0 .. n), 0 \in T,
         \A k \in 1 .. n : k - 1 \in T => k \in T
  PROVE  T = 0 .. n
<1> DEFINE F == (0 .. n) \ T
<1>1. SUFFICES ASSUME F # {} PROVE FALSE
  OBVIOUS
<1>2. PICK k \in F : \A j \in F : k =< j
  <2>1. F \in SUBSET Nat
    OBVIOUS
  <2> HIDE DEF F
  <2> QED
    BY <1>1, <2>1, Least
<1>3. k \in 1 .. n /\ k - 1 \in 0 .. n /\ k - 1 \notin F
  BY <1>2
<1> QED
  BY <1>2, <1>3

\* The values of the first digits grow.
LEMMA ValuesGrow ==
  ASSUME NEW str \in Text, NEW p \in 1 .. Len(str) + 1, NEW base \in Bases,
         \A k \in p .. Len(str) : IsDigit(str[k], base)
  PROVE  LET n == Len(str) + 1 - p
             v == Values(str, p, base)
         IN  /\ n \in Nat /\ v \in [0 .. n -> Nat] /\ v[0] = 0
             /\ \A k \in 1 .. n : /\ Digit(str[p + k - 1]) \in 0 .. base - 1
                                  /\ v[k] = v[k - 1] * base + Digit(str[p + k - 1])
             /\ \A j, k \in 0 .. n : j =< k => v[j] =< v[k]
<1> DEFINE n    == Len(str) + 1 - p
           v    == Values(str, p, base)
           d(k) == Digit(str[p + k - 1])
<1>1. n \in Nat /\ \A k \in 1 .. n : d(k) \in 0 .. base - 1
  <2>1. Len(str) \in Nat
    BY DEF Text
  <2>2. \A k \in 1 .. n : p + k - 1 \in p .. Len(str)
    BY <2>1
  <2> QED
    BY <2>1, <2>2 DEF IsDigit
<1>2. v \in [0 .. n -> Int] /\ v[0] = 0 /\ \A k \in 1 .. n : v[k] = v[k - 1] * base + d(k)
  BY ValuesAre
<1> HIDE DEF n, v, d
<1>3. ASSUME NEW k \in 1 .. n, v[k - 1] \in Nat
      PROVE  v[k] \in Nat /\ v[k - 1] =< v[k]
  <2> DEFINE a == v[k - 1]
             e == d(k)
  <2>1. a \in Nat /\ e \in Nat /\ v[k] = a * base + e
    BY <1>1, <1>2, <1>3 DEF Bases
  <2> HIDE DEF a, e
  <2>2. a * base + e \in Nat /\ a =< a * base + e
    BY <2>1 DEF Bases
  <2> QED
    BY <2>1, <2>2 DEF a
<1>4. \A k \in 0 .. n : v[k] \in Nat
  <2> DEFINE T == {k \in 0 .. n : v[k] \in Nat}
  <2>1. 0 \in T /\ \A k \in 1 .. n : k - 1 \in T => k \in T
    BY <1>1, <1>2, <1>3
  <2>2. T \in SUBSET (0 .. n)
    OBVIOUS
  <2> HIDE DEF T
  <2>3. T = 0 .. n
    BY <1>1, <2>1, <2>2, Upwards
  <2> QED
    BY <2>3 DEF T
<1>5. ASSUME NEW j \in 0 .. n
      PROVE  \A k \in 0 .. n : j =< k => v[j] =< v[k]
  <2> DEFINE T == {k \in 0 .. n : j =< k => v[j] =< v[k]}
  <2>1. 0 \in T
    BY <1>1, <1>4
  <2>2. ASSUME NEW k \in 1 .. n, k - 1 \in T PROVE k \in T
    <3>1. v[k] \in Nat /\ v[k - 1] \in Nat /\ v[j] \in Nat /\ v[k - 1] =< v[k]
      <4>1. k - 1 \in 0 .. n /\ k \in 0 .. n
        BY <1>1
      <4> QED
        BY <1>3, <1>4, <4>1
    <3>2. j = k \/ j =< k - 1 \/ ~(j =< k)
      BY <1>1
    <3> QED
      BY <2>2, <3>1, <3>2
  <2>3. T \in SUBSET (0 .. n)
    OBVIOUS
  <2> HIDE DEF T
  <2>4. T = 0 .. n
    BY <1>1, <2>1, <2>2, <2>3, Upwards
  <2> QED
    BY <2>4 DEF T
<1>6. v \in [0 .. n -> Nat]
  BY <1>2, <1>4
<1> QED
  BY <1>1, <1>2, <1>5, <1>6 DEF n, v, d

\* A loop over digits reads their value, as far as an unsigned long holds it.
LEMMA LoopReads ==
  ASSUME NEW str \in Text, NEW p \in 1 .. Len(str) + 1, NEW base \in Bases,
         \A k \in p .. Len(str) : IsDigit(str[k], base)
  PROVE  LET n == Len(str) + 1 - p
             v == Values(str, p, base)
             s == Turns(str, p, base)[n]
         IN  \/ s.at = n /\ s.ret = v[n] /\ v[n] =< ULONG_MAX
             \/ /\ s.at \in 1 .. n /\ v[s.at] =< ULONG_MAX
                /\ s.ret = ULONG_MAX /\ v[n] > ULONG_MAX
<1> DEFINE n    == Len(str) + 1 - p
           v    == Values(str, p, base)
           c(k) == str[p + k - 1]
           t    == Turns(str, p, base)
           U    == ULONG_MAX
<1>1. /\ n \in Nat /\ v \in [0 .. n -> Nat] /\ v[0] = 0
      /\ \A k \in 1 .. n : v[k] = v[k - 1] * base + Digit(c(k)) /\ IsDigit(c(k), base)
      /\ \A j, k \in 0 .. n : j =< k => v[j] =< v[k]
  BY ValuesGrow DEF IsDigit
<1>2. /\ t \in [0 .. n -> Reading] /\ t[0] = [ret |-> 0, at |-> 0, stop |-> FALSE]
      /\ \A k \in 1 .. n : t[k] = Turn(t[k - 1], c(k), base)
  BY TurnsAre
<1>3. \A k \in 1 .. n : c(k) \in Nat
  <2>1. Len(str) \in Nat /\ str \in [1 .. Len(str) -> Nat]
    BY DEF Text
  <2> QED
    BY <2>1
<1>4. U \in Nat /\ U >= 15
  BY LongRange
<1> HIDE DEF n, v, c, t, U
<1> DEFINE Reads(k) == t[k].at = k /\ t[k].ret = v[k] /\ v[k] =< U /\ ~t[k].stop
           Full(k)  == /\ t[k].at \in 1 .. k - 1 /\ v[t[k].at] =< U
                       /\ t[k].ret = U /\ v[k] > U /\ t[k].stop
           T        == {k \in 0 .. n : Reads(k) \/ Full(k)}
<1>5. 0 \in T
  BY <1>1, <1>2, <1>4
<1>6. ASSUME NEW k \in 1 .. n, k - 1 \in T PROVE k \in T
  <2>1. /\ k - 1 \in 0 .. n /\ k \in 0 .. n /\ t[k - 1] \in Reading
        /\ v[k - 1] \in Nat /\ v[k] \in Nat /\ v[k - 1] =< v[k]
        /\ t[k] = Turn(t[k - 1], c(k), base) /\ c(k) \in Nat
        /\ v[k] = v[k - 1] * base + Digit(c(k)) /\ IsDigit(c(k), base)
    <3>1. k - 1 \in 0 .. n /\ k \in 0 .. n /\ k - 1 =< k
      BY <1>1
    <3> QED
      BY <1>1, <1>2, <1>3, <3>1
  <2>2. CASE Reads(k - 1)
    <3>1. t[k] = IF v[k] > U THEN [ret |-> U, at |-> k - 1, stop |-> TRUE]
                 ELSE [ret |-> v[k], at |-> k, stop |-> FALSE]
      <4>1. t[k - 1].at + 1 = k /\ t[k - 1].ret * base + Digit(c(k)) = v[k]
        BY <2>1, <2>2
      <4>2. t[k - 1].at = k - 1 /\ ~t[k - 1].stop
        BY <2>2
      <4> HIDE DEF Reads
      <4> QED
        BY <2>1, <4>1, <4>2, TurnReads DEF U
    <3>2. CASE v[k] > U
      <4>1. k # 1
        <5>1. k = 1 => v[1] = 0 * base + Digit(c(1)) /\ Digit(c(1)) \in 0 .. base - 1
          BY <1>1, <2>1 DEF IsDigit
        <5>2. 0 * base = 0 /\ base - 1 =< 15 /\ base \in Nat
          BY DEF Bases
        <5> QED
          BY <1>4, <3>2, <5>1, <5>2
      <4>2. t[k].at = k - 1 /\ t[k].ret = U /\ t[k].stop
        BY <3>1, <3>2
      <4>3. k - 1 \in 1 .. k - 1 /\ v[k - 1] =< U
        BY <2>2, <4>1
      <4>4. Full(k)
        BY <3>2, <4>2, <4>3
      <4> QED
        BY <2>1, <4>4
    <3>3. CASE ~(v[k] > U)
      <4>1. t[k].at = k /\ t[k].ret = v[k] /\ ~t[k].stop /\ v[k] =< U
        BY <1>4, <2>1, <3>1, <3>3
      <4> QED
        BY <2>1, <4>1
    <3> QED
      BY <3>2, <3>3
  <2>3. CASE Full(k - 1)
    <3>1. t[k] = t[k - 1]
      BY <2>1, <2>3, TurnReads
    <3>2. t[k].at \in 1 .. k - 1 /\ v[k] > U
      BY <1>4, <2>1, <2>3, <3>1
    <3>3. Full(k)
      BY <2>3, <3>1, <3>2
    <3> QED
      BY <2>1, <3>3
  <2> QED
    BY <1>6, <2>2, <2>3
<1>7. T \in SUBSET (0 .. n)
  OBVIOUS
<1>8. n \in T
  <2> HIDE DEF T
  <2>1. T = 0 .. n
    BY <1>1, <1>5, <1>6, <1>7, Upwards
  <2> QED
    BY <1>1, <2>1
<1>9. \/ t[n].at = n /\ t[n].ret = v[n] /\ v[n] =< U
      \/ t[n].at \in 1 .. n /\ v[t[n].at] =< U /\ t[n].ret = U /\ v[n] > U
  BY <1>1, <1>8
<1> QED
  BY <1>9 DEF n, v, t, U

-----------------------------------------------------------------------------
(* strtoul on numerals                                                     *)

\* From here and from there on n characters are the same.
Alike(str, i, txt, j, n) == \A k \in 1 .. n : str[i + k - 1] = txt[j + k - 1]

LEMMA SameValues ==
  ASSUME NEW str \in Text, NEW i \in 1 .. Len(str) + 1,
         NEW txt \in Text, NEW j \in 1 .. Len(txt) + 1, NEW base \in Bases,
         NEW n \in Nat, n =< Len(str) + 1 - i, n =< Len(txt) + 1 - j,
         Alike(str, i, txt, j, n)
  PROVE  \A k \in 0 .. n : Values(str, i, base)[k] = Values(txt, j, base)[k]
<1> DEFINE f == Values(str, i, base)
           g == Values(txt, j, base)
<1>1. Len(str) \in Nat /\ Len(txt) \in Nat
  BY DEF Text
<1>2. /\ f[0] = 0 /\ \A k \in 1 .. n : f[k] = f[k - 1] * base + Digit(str[i + k - 1])
      /\ g[0] = 0 /\ \A k \in 1 .. n : g[k] = g[k - 1] * base + Digit(txt[j + k - 1])
  <2>1. /\ \A k \in 1 .. n : k \in 1 .. Len(str) + 1 - i
        /\ \A k \in 1 .. n : k \in 1 .. Len(txt) + 1 - j
    BY <1>1
  <2> QED
    BY <2>1, ValuesAre
<1> HIDE DEF f, g
<1>3. SameTurns(f, g, n)
  BY <1>2 DEF SameTurns, Alike
<1> QED
  BY <1>3, TurnsAgree DEF f, g

\* The 0 that base 8 skips is worth nothing.
LEMMA ZeroIsNothing ==
  ASSUME NEW str \in Text, NEW i \in 1 .. Len(str), NEW base \in Bases, str[i] = 48
  PROVE  \A k \in 0 .. Len(str) - i :
           Values(str, i + 1, base)[k] = Values(str, i, base)[k + 1]
<1> DEFINE n == Len(str) - i
           v == Values(str, i, base)
           f == Values(str, i + 1, base)
           g == [k \in 0 .. n |-> v[k + 1]]
<1>1. Len(str) \in Nat /\ n \in Nat /\ i \in Nat /\ n + 1 = Len(str) + 1 - i
      /\ n = Len(str) + 1 - (i + 1) /\ i + 1 \in 1 .. Len(str) + 1
  BY DEF Text
<1>2. v[0] = 0 /\ \A k \in 1 .. n + 1 : v[k] = v[k - 1] * base + Digit(str[i + k - 1])
  <2>1. i \in 1 .. Len(str) + 1 /\ \A k \in 1 .. n + 1 : k \in 1 .. Len(str) + 1 - i
    BY <1>1
  <2> HIDE DEF n
  <2> QED
    BY <2>1, ValuesAre
<1>3. f[0] = 0 /\ \A k \in 1 .. n : f[k] = f[k - 1] * base + Digit(str[i + 1 + k - 1])
  BY <1>1, ValuesAre
<1> HIDE DEF n, v, f
<1>4. v[1] = 0
  <2>1. v[1] = v[1 - 1] * base + Digit(str[i + 1 - 1])
    BY <1>1, <1>2
  <2>2. 1 - 1 = 0 /\ i + 1 - 1 = i /\ 0 * base = 0
    BY <1>1 DEF Bases
  <2>3. Digit(48) = 0
    BY DEF Digit, toupper, islower, isdigit
  <2> QED
    BY <1>2, <2>1, <2>2, <2>3
<1>5. ASSUME NEW k \in 1 .. n, f[k - 1] = g[k - 1]
      PROVE  f[k] = g[k]
  <2>1. k + 1 \in 1 .. n + 1 /\ k - 1 \in 0 .. n /\ k \in 0 .. n /\ k - 1 + 1 = k
        /\ k + 1 - 1 = k /\ i + (k + 1) - 1 = i + 1 + k - 1
    BY <1>1
  <2>2. v[k + 1] = v[k + 1 - 1] * base + Digit(str[i + (k + 1) - 1])
    BY <1>2, <2>1
  <2>3. g[k] = v[k + 1] /\ g[k - 1] = v[k]
    BY <2>1
  <2> QED
    BY <1>3, <1>5, <2>1, <2>2, <2>3
<1>6. SameTurns(f, g, n)
  <2>1. 0 \in 0 .. n /\ 0 + 1 = 1 /\ g[0] = v[0 + 1]
    BY <1>1
  <2>2. f[0] = g[0]
    BY <1>3, <1>4, <2>1
  <2> HIDE DEF g
  <2> QED
    BY <1>5, <2>2 DEF SameTurns
<1> HIDE DEF g
<1>7. \A k \in 0 .. n : f[k] = g[k]
  BY <1>1, <1>6, TurnsAgree
<1> QED
  BY <1>7 DEF g, f, v, n

\* The first loop and the sign.
LEMMA LeadIsSkipped ==
  ASSUME NEW str \in Text, NEW base \in Bases, NEW i \in Lead(str),
         IsNumeral(str, i, base)
  PROVE  LET first == Skip(str, 1, isspace)
         IN  /\ AfterSign(str, first) = i
             /\ At(str, first) = 45 <=> i > 1 /\ str[i - 1] = 45
<1> DEFINE first == Skip(str, 1, isspace)
<1>1. Len(str) \in Nat /\ i \in 1 .. Len(str)
  BY DEF Text, Lead, IsNumeral
<1>2. PICK j \in 1 .. i : /\ \A k \in 1 .. j - 1 : isspace(str[k])
                          /\ i # j => i = j + 1 /\ IsSign(str[j])
  BY DEF Lead
<1>3. ~isspace(str[i]) /\ ~IsSign(str[i])
  BY <1>1, NumeralsHaveDigits
<1>4. \A c : IsSign(c) => ~isspace(c)
  BY DEF IsSign, isspace
<1>5. j \in 1 .. Len(str) /\ ~isspace(str[j])
  BY <1>1, <1>2, <1>3, <1>4
<1>6. \A k \in 1 .. Len(str) : At(str, k) = str[k]
  BY DEF At
<1>7. first = j
  <2>1. /\ first \in 1 .. Len(str) + 1 /\ ~isspace(At(str, first))
        /\ \A k \in 1 .. first - 1 : isspace(At(str, k))
    BY SkipsSpaces
  <2> HIDE DEF first
  <2>2. ~(j < first)
    BY <1>1, <1>5, <1>6, <2>1
  <2>3. ~(first < j)
    <3>1. first < j => first \in 1 .. j - 1 /\ first \in 1 .. Len(str)
      BY <1>1, <1>5, <2>1
    <3> QED
      BY <1>2, <1>6, <2>1, <3>1
  <2> QED
    BY <1>1, <1>5, <2>1, <2>2, <2>3
<1> HIDE DEF first
<1>8. At(str, first) = str[j]
  BY <1>5, <1>6, <1>7
<1>9. AfterSign(str, first) = IF IsSign(str[j]) THEN j + 1 ELSE j
  BY <1>7, <1>8 DEF AfterSign
<1>10. CASE i = j
  <2>1. AfterSign(str, first) = i /\ At(str, first) # 45
    BY <1>3, <1>8, <1>9, <1>10 DEF IsSign
  <2>2. i > 1 => str[i - 1] # 45
    <3>1. i > 1 => i - 1 \in 1 .. j - 1
      BY <1>1, <1>10
    <3> QED
      BY <1>2, <3>1 DEF isspace
  <2> QED
    BY <2>1, <2>2 DEF first
<1>11. CASE i # j
  <2>1. i = j + 1 /\ IsSign(str[j]) /\ i > 1 /\ i - 1 = j
    BY <1>1, <1>2, <1>11
  <2> QED
    BY <1>8, <1>9, <2>1 DEF first
<1> QED
  BY <1>10, <1>11

\* What of a numeral is taken for a prefix: the 0 of base 8.
LEMMA PrefixIsZero ==
  ASSUME NEW str \in Text, NEW base \in Bases, NEW i \in 1 .. Len(str),
         IsNumeral(str, i, base)
  PROVE  Prefix(str, i, base) =
           [base |-> base, at |-> IF base = 8 /\ str[i] = 48 THEN i + 1 ELSE i]
<1>1. Len(str) \in Nat /\ i \in Nat \ {0}
  BY DEF Text
<1>2. At(str, i) = str[i]
  BY DEF At
<1>3. At(str, i + 1) # 120
  <2>1. CASE i < Len(str)
    <3>1. i + 1 \in i .. Len(str) /\ At(str, i + 1) = str[i + 1]
      BY <1>1, <2>1 DEF At
    <3> QED
      BY <1>1, <3>1, NumeralsHaveDigits
  <2>2. CASE ~(i < Len(str))
    BY <1>1, <2>2 DEF At, NUL
  <2> QED
    BY <2>1, <2>2
<1>4. base \in {8, 10, 16}
  BY DEF Bases
<1> QED
  BY <1>2, <1>3, <1>4 DEF Prefix

\* strtoul reads a numeral of any width, with blanks and a sign before it.
LEMMA StrtoulReads ==
  ASSUME NEW str \in Text, NEW base \in Bases
  PROVE  ReadsNumeral(str, base, strtoul(str, base))
<1> DEFINE r     == strtoul(str, base)
           first == Skip(str, 1, isspace)
<1>0. Len(str) \in Nat
  BY DEF Text
<1>1. SUFFICES ASSUME NEW i \in Lead(str), IsNumeral(str, i, base)
      PROVE  LET value == Values(str, i, base)
                 all   == value[Len(str) + 1 - i]
                 cut   == IF all > ULONG_MAX THEN ULONG_MAX ELSE all
                 minus == i > 1 /\ str[i - 1] = 45
             IN  /\ r.value = IF minus THEN Unsigned(-cut) ELSE cut
                 /\ all =< ULONG_MAX /\ ~(base = 8 /\ i = Len(str) /\ str[i] = 48)
                      => r.taken = Len(str)
                 /\ all > ULONG_MAX
                      => value[r.taken + 1 - i] =< ULONG_MAX
  BY DEF ReadsNumeral
<1>2. i \in 1 .. Len(str)
  BY <1>0, <1>1 DEF Lead, IsNumeral
<1> DEFINE p     == IF base = 8 /\ str[i] = 48 THEN i + 1 ELSE i
           n     == Len(str) + 1 - p
           m     == Len(str) + 1 - i
           v     == Values(str, p, base)
           value == Values(str, i, base)
           s     == Turns(str, p, base)[n]
           minus == i > 1 /\ str[i - 1] = 45
           U     == ULONG_MAX
<1>3. /\ p \in 1 .. Len(str) + 1 /\ \A k \in p .. Len(str) : IsDigit(str[k], base)
      /\ n \in Nat /\ m \in Nat /\ p - i \in 0 .. 1 /\ n + (p - i) = m
  <2>1. /\ p \in 1 .. Len(str) + 1 /\ \A k \in p .. Len(str) : k \in i .. Len(str)
        /\ n \in Nat /\ m \in Nat /\ p - i \in 0 .. 1 /\ n + (p - i) = m
    BY <1>0, <1>2
  <2>2. i \in Nat \ {0}
    BY <1>0, <1>2
  <2> HIDE DEF p
  <2> QED
    BY <1>1, <2>1, <2>2, NumeralsHaveDigits
<1>4. Prefix(str, i, base) = [base |-> base, at |-> p]
  BY <1>1, <1>2, PrefixIsZero
<1>5. AfterSign(str, first) = i /\ (At(str, first) = 45 <=> minus)
  BY <1>1, LeadIsSkipped
<1>6. r = [value |-> IF minus THEN Unsigned(-s.ret) ELSE s.ret,
           taken |-> IF s.at = 0 THEN 0 ELSE p - 1 + s.at]
  <2>1. Prefix(str, AfterSign(str, first), base).at = p
        /\ Prefix(str, AfterSign(str, first), base).base = base
    BY <1>4, <1>5
  <2> HIDE DEF p
  <2> QED
    BY <1>5, <2>1 DEF strtoul
<1>7. \/ s.at = n /\ s.ret = v[n] /\ v[n] =< U
      \/ s.at \in 1 .. n /\ v[s.at] =< U /\ s.ret = U /\ v[n] > U
  <2> HIDE DEF p
  <2> QED
    BY <1>3, LoopReads
<1>8. \A k \in 0 .. n : v[k] = value[k + (p - i)]
  <2>1. CASE base = 8 /\ str[i] = 48
    <3>1. p = i + 1 /\ n = Len(str) - i /\ p - i = 1
      BY <1>0, <1>2, <2>1
    <3>2. \A k \in 0 .. Len(str) - i : Values(str, i + 1, base)[k] = value[k + 1]
      BY <1>2, <2>1, ZeroIsNothing
    <3> QED
      BY <3>1, <3>2
  <2>2. CASE ~(base = 8 /\ str[i] = 48)
    <3>1. p = i /\ p - i = 0 /\ \A k \in 0 .. n : k + 0 = k
      BY <1>0, <1>2, <2>2
    <3> QED
      BY <3>1
  <2> QED
    BY <2>1, <2>2
<1>9. U \in Nat /\ v \in [0 .. n -> Nat]
  <2> HIDE DEF p
  <2> QED
    BY <1>3, ValuesGrow, LongRange
<1>10. p > Len(str) <=> base = 8 /\ i = Len(str) /\ str[i] = 48
  BY <1>0, <1>2
<1> HIDE DEF p, v, value, minus, U, r
<1>11. v[n] = value[m]
  BY <1>3, <1>8
<1>12. n = 0 <=> base = 8 /\ i = Len(str) /\ str[i] = 48
  BY <1>0, <1>3, <1>10
<1>13. p \in Nat /\ i \in Nat /\ p - 1 + n = Len(str)
  BY <1>0, <1>2, <1>3
<1> HIDE DEF n, m, s
<1>14. CASE s.at = n /\ s.ret = v[n] /\ v[n] =< U
  <2>1. ~(value[m] > U) /\ value[m] = s.ret
    BY <1>3, <1>9, <1>11, <1>14
  <2>2. r.value = IF minus THEN Unsigned(-value[m]) ELSE value[m]
    BY <1>6, <2>1
  <2>3. n # 0 => r.taken = Len(str)
    BY <1>6, <1>13, <1>14
  <2> QED
    BY <1>12, <2>1, <2>2, <2>3 DEF m, r, value, minus, U
<1>15. CASE s.at \in 1 .. n /\ v[s.at] =< U /\ s.ret = U /\ v[n] > U
  <2>1. value[m] > U
    BY <1>11, <1>15
  <2>2. r.value = IF minus THEN Unsigned(-U) ELSE U
    BY <1>6, <1>15
  <2>3. r.taken + 1 - i = s.at + (p - i) /\ s.at \in 0 .. n
    BY <1>3, <1>6, <1>13, <1>15
  <2>4. value[r.taken + 1 - i] =< U
    BY <1>8, <1>15, <2>3
  <2>5. ~(value[m] =< U)
    BY <1>3, <1>9, <1>11, <2>1
  <2> QED
    BY <2>1, <2>2, <2>4, <2>5 DEF m, r, value, minus, U
<1> QED
  BY <1>7, <1>14, <1>15

-----------------------------------------------------------------------------
(* What is written is read back.                                           *)

LEMMA DigitCharReads ==
  ASSUME NEW base \in Bases, NEW r \in 0 .. base - 1
  PROVE  LET c == DigitChar(r)
         IN  /\ c \in Nat \ {NUL} /\ Digit(c) = r /\ (c = 48 => r = 0)
             /\ \/ isdigit(c) /\ c - 48 < base
                \/ toupper(c) \in 65 .. 55 + base - 1
<1> DEFINE c == DigitChar(r)
<1>1. CASE r < 10
  <2>1. c = 48 + r /\ c \in 48 .. 57 /\ r \in Nat
    BY <1>1 DEF DigitChar, Bases
  <2> HIDE DEF c
  <2>2. toupper(c) = c /\ isdigit(c)
    BY <2>1 DEF toupper, islower, isdigit
  <2>3. Digit(c) = r /\ c - 48 = r
    BY <2>1, <2>2 DEF Digit
  <2>4. c - 48 < base
    BY <2>1 DEF Bases
  <2>5. c \in Nat \ {NUL} /\ (c = 48 => r = 0)
    BY <2>1 DEF NUL
  <2> QED
    BY <2>2, <2>3, <2>4, <2>5 DEF c
<1>2. CASE ~(r < 10)
  <2>1. c = 87 + r /\ base = 16 /\ r \in 10 .. 15
    BY <1>2 DEF DigitChar, Bases
  <2> HIDE DEF c
  <2> DEFINE u == toupper(c)
  <2>2. u = 55 + r
    BY <2>1 DEF toupper, islower
  <2>3. Digit(c) = IF u \in 48 .. 57 THEN u - 48 ELSE u - 65 + 10
    BY DEF Digit, isdigit
  <2> HIDE DEF u
  <2>4. Digit(c) = r /\ u \in 65 .. 70
    BY <2>1, <2>2, <2>3
  <2>5. c \in Nat \ {NUL} /\ c # 48
    BY <2>1 DEF NUL
  <2>6. u \in 65 .. 55 + base - 1
    BY <2>1, <2>4
  <2> QED
    BY <2>4, <2>5, <2>6 DEF c, u
<1> QED
  BY <1>1, <1>2

\* A numeral of u, which starts with 0 only when it is 0.
Means(txt, u, base) ==
  /\ txt \in Text /\ Len(txt) \in Nat \ {0} /\ IsNumeral(txt, 1, base)
  /\ Values(txt, 1, base)[Len(txt)] = u
  /\ txt[1] = 48 => u = 0

LEMMA NumeralsMean ==
  ASSUME NEW base \in Bases
  PROVE  \A u \in Nat : Means(ulltoa(u, base), u, base)
<1> DEFINE T == {u \in Nat : ~Means(ulltoa(u, base), u, base)}
<1>1. SUFFICES ASSUME T # {} PROVE FALSE
  OBVIOUS
<1>2. PICK u \in T : \A w \in T : u =< w
  <2>1. T \in SUBSET Nat
    OBVIOUS
  <2> HIDE DEF T
  <2> QED
    BY <1>1, <2>1, Least
<1> DEFINE txt == ulltoa(u, base)
<1>3. u \in Nat /\ ~Means(txt, u, base)
  BY <1>2
<1>4. txt = IF u < base THEN <<DigitChar(u)>>
            ELSE Append(ulltoa(u \div base, base), DigitChar(u % base))
  BY <1>3, NumeralsAre DEF ulltoa
<1> HIDE DEF txt
<1>5. CASE u < base
  <2> DEFINE c == DigitChar(u)
  <2>1. /\ c \in Nat \ {NUL} /\ Digit(c) = u /\ (c = 48 => u = 0)
        /\ (isdigit(c) /\ c - 48 < base) \/ toupper(c) \in 65 .. 55 + base - 1
    <3>1. u \in 0 .. base - 1
      BY <1>3, <1>5 DEF Bases
    <3> QED
      BY <3>1, DigitCharReads
  <2>2. txt = <<c>>
    BY <1>4, <1>5
  <2> HIDE DEF c
  <2>3. txt \in Text /\ Len(txt) = 1 /\ txt[1] = c
    BY <2>1, <2>2 DEF Text
  <2>4. IsNumeral(txt, 1, base)
    <3>1. \A k \in 1 .. Len(txt) : txt[k] = c
      BY <2>3
    <3> QED
      BY <2>1, <2>3, <3>1 DEF IsNumeral
  <2>5. Values(txt, 1, base)[1] = u
    <3> DEFINE v == Values(txt, 1, base)
    <3>1. 1 \in 1 .. Len(txt) + 1 /\ 1 \in 1 .. Len(txt) + 1 - 1
      BY <2>3
    <3>2. v[0] = 0 /\ v[1] = v[1 - 1] * base + Digit(txt[1 + 1 - 1])
      BY <2>3, <3>1, ValuesAre
    <3> HIDE DEF v
    <3>3. 1 - 1 = 0 /\ 1 + 1 - 1 = 1 /\ 0 * base = 0
      BY DEF Bases
    <3>4. v[1] = u
      BY <1>3, <2>1, <2>3, <3>2, <3>3
    <3> QED
      BY <3>4 DEF v
  <2> QED
    BY <1>3, <2>1, <2>3, <2>4, <2>5 DEF Means
<1>6. CASE ~(u < base)
  <2> DEFINE q   == u \div base
             c   == DigitChar(u % base)
             pre == ulltoa(q, base)
             n   == Len(pre)
  <2>1. q \in Nat /\ q < u /\ u % base \in 0 .. base - 1 /\ u = base * q + (u % base) /\ q # 0
    BY <1>3, <1>6, Dividing DEF Bases
  <2>2. /\ c \in Nat \ {NUL} /\ Digit(c) = u % base
        /\ (isdigit(c) /\ c - 48 < base) \/ toupper(c) \in 65 .. 55 + base - 1
    BY <2>1, DigitCharReads
  <2>3. Means(pre, q, base)
    <3> HIDE DEF q, pre
    <3>1. q \notin T
      BY <1>2, <1>3, <2>1
    <3> QED
      BY <2>1, <3>1 DEF pre
  <2>4. txt = Append(pre, c)
    BY <1>4, <1>6
  <2> HIDE DEF q, c, pre
  <2>5. /\ pre \in Text /\ n \in Nat \ {0} /\ IsNumeral(pre, 1, base)
        /\ Values(pre, 1, base)[n] = q /\ pre[1] # 48
    BY <2>1, <2>3 DEF Means
  <2>6. /\ txt \in Text /\ Len(txt) = n + 1 /\ txt[n + 1] = c
        /\ \A k \in 1 .. n : txt[k] = pre[k]
    BY <2>2, <2>4, <2>5, AppendProperties DEF Text
  <2> HIDE DEF n
  <2>7. IsNumeral(txt, 1, base)
    <3>1. \A k \in 1 .. n : \/ isdigit(pre[k]) /\ pre[k] - 48 < base
                            \/ toupper(pre[k]) \in 65 .. 55 + base - 1
      BY <2>5 DEF IsNumeral, n
    <3>2. \A k \in 1 .. n + 1 : k \in 1 .. n \/ k = n + 1
      BY <2>5
    <3>3. 1 =< n + 1
      BY <2>5
    <3> QED
      BY <2>2, <2>6, <3>1, <3>2, <3>3 DEF IsNumeral
  <2>8. Values(txt, 1, base)[n] = q
    <3>1. /\ n =< Len(txt) + 1 - 1 /\ n =< Len(pre) + 1 - 1 /\ n \in Nat /\ n \in 0 .. n
          /\ 1 \in 1 .. Len(txt) + 1 /\ 1 \in 1 .. Len(pre) + 1
          /\ \A k \in 1 .. n : 1 + k - 1 = k
      BY <2>5, <2>6 DEF n
    <3>2. Alike(txt, 1, pre, 1, n)
      BY <2>6, <3>1 DEF Alike
    <3>3. \A k \in 0 .. n : Values(txt, 1, base)[k] = Values(pre, 1, base)[k]
      BY <2>5, <2>6, <3>1, <3>2, SameValues
    <3> QED
      BY <2>5, <3>1, <3>3
  <2>9. Values(txt, 1, base)[n + 1] = u
    <3> DEFINE v == Values(txt, 1, base)
    <3>1. /\ 1 \in 1 .. Len(txt) + 1 /\ n + 1 \in 1 .. Len(txt) + 1 - 1
          /\ n + 1 - 1 = n /\ 1 + (n + 1) - 1 = n + 1
      BY <2>5, <2>6
    <3>2. \A k \in 1 .. Len(txt) + 1 - 1 : v[k] = v[k - 1] * base + Digit(txt[1 + k - 1])
      BY <2>6, <3>1, ValuesAre
    <3> HIDE DEF v
    <3>3. v[n + 1] = v[n] * base + Digit(txt[n + 1])
      <4>1. PICK k : k = n + 1
        OBVIOUS
      <4>2. k \in 1 .. Len(txt) + 1 - 1 /\ k - 1 = n /\ 1 + k - 1 = n + 1
        BY <2>5, <3>1, <4>1
      <4>3. v[k] = v[k - 1] * base + Digit(txt[1 + k - 1])
        BY <3>2, <4>2
      <4> QED
        BY <4>1, <4>2, <4>3
    <3>4. v[n + 1] = q * base + (u % base)
      BY <2>2, <2>6, <2>8, <3>3 DEF v
    <3>5. q * base + (u % base) = u
      BY <2>1 DEF Bases
    <3> QED
      BY <3>4, <3>5 DEF v
  <2>10. txt[1] # 48
    BY <2>5, <2>6
  <2> QED
    BY <1>3, <2>5, <2>6, <2>7, <2>9, <2>10 DEF Means
<1> QED
  BY <1>5, <1>6

\* Behind a prefix that tells the base, strtoul reads the value of the rest.
LEMMA PrefixReads ==
  ASSUME NEW str \in Text, NEW base \in Bases, NEW p \in 1 .. Len(str) + 1,
         ~isspace(At(str, 1)), ~IsSign(At(str, 1)),
         Prefix(str, 1, 0) = [base |-> base, at |-> p],
         \A k \in p .. Len(str) : IsDigit(str[k], base),
         Values(str, p, base)[Len(str) + 1 - p] =< ULONG_MAX
  PROVE  strtoul(str, 0).value = Values(str, p, base)[Len(str) + 1 - p]
<1> DEFINE n     == Len(str) + 1 - p
           v     == Values(str, p, base)
           s     == Turns(str, p, base)[n]
           first == Skip(str, 1, isspace)
<1>1. first = 1
  <2>1. Len(str) \in Nat
    BY DEF Text
  <2>2. first \in 1 .. Len(str) + 1 /\ \A k \in 1 .. first - 1 : isspace(At(str, k))
    BY SkipsSpaces
  <2> HIDE DEF first
  <2>3. first > 1 => 1 \in 1 .. first - 1
    BY <2>1, <2>2
  <2> QED
    BY <2>1, <2>2, <2>3
<1>2. s.ret = v[n]
  <2>1. \/ s.at = n /\ s.ret = v[n] /\ v[n] =< ULONG_MAX
        \/ v[n] > ULONG_MAX
    BY LoopReads
  <2>2. n \in Nat /\ v[n] \in Nat
    <3>1. n \in Nat /\ v \in [0 .. n -> Nat]
      BY ValuesGrow
    <3> HIDE DEF n, v
    <3> QED
      BY <3>1
  <2>3. v[n] =< ULONG_MAX /\ ULONG_MAX \in Nat
    BY LongRange
  <2> HIDE DEF n, v, s
  <2> QED
    BY <2>1, <2>2, <2>3
<1>3. AfterSign(str, 1) = 1 /\ At(str, 1) # 45
  BY DEF AfterSign, IsSign
<1> HIDE DEF first
<1>4. strtoul(str, 0).value = s.ret
  BY <1>1, <1>3 DEF strtoul, first
<1> QED
  BY <1>2, <1>4

\* A number that fits.
LEMMA FitsUnchanged == \A u \in 0 .. ULONG_MAX : Unsigned(u) = u
<1> DEFINE R == Shl[LongBits]
<1>1. R \in Nat /\ R > 0 /\ ULONG_MAX = R - 1
  BY LongRange DEF ULONG_MAX
<1> HIDE DEF R
<1>2. \A x \in 0 .. R - 1 : x % R = x
  BY <1>1
<1> QED
  BY <1>1, <1>2 DEF Unsigned, R

\* Behind other characters a numeral means what it means.
LEMMA MeansBehind ==
  ASSUME NEW base \in Bases, NEW u, NEW txt, Means(txt, u, base),
         NEW str \in Text, NEW i \in 1 .. Len(str), Len(txt) = Len(str) + 1 - i,
         Alike(str, i, txt, 1, Len(txt))
  PROVE  /\ str[i] = txt[1]
         /\ IsNumeral(str, i, base)
         /\ Values(str, i, base)[Len(str) + 1 - i] = u
<1> DEFINE n == Len(txt)
<1>1. /\ txt \in Text /\ n \in Nat \ {0} /\ IsNumeral(txt, 1, base)
      /\ Values(txt, 1, base)[n] = u /\ Len(str) \in Nat
  BY DEF Means, Text
<1>2. \A k \in 1 .. n : str[i + k - 1] = txt[k]
  <2>1. \A k \in 1 .. n : 1 + k - 1 = k
    OBVIOUS
  <2> QED
    BY <2>1 DEF Alike
<1>3. IsNumeral(str, i, base)
  <2>1. \A k \in 1 .. n : \/ isdigit(txt[k]) /\ txt[k] - 48 < base
                          \/ toupper(txt[k]) \in 65 .. 55 + base - 1
    BY <1>1 DEF IsNumeral
  <2>2. ASSUME NEW k \in i .. Len(str)
        PROVE  \/ isdigit(str[k]) /\ str[k] - 48 < base
               \/ toupper(str[k]) \in 65 .. 55 + base - 1
    <3>1. PICK j : j = k - i + 1
      OBVIOUS
    <3>2. j \in 1 .. n /\ i + j - 1 = k
      BY <1>1, <3>1
    <3>3. str[k] = txt[j]
      BY <1>2, <3>2
    <3> QED
      BY <2>1, <3>2, <3>3
  <2> QED
    BY <2>2 DEF IsNumeral
<1>4. Values(str, i, base)[n] = u
  <2>1. /\ i \in 1 .. Len(str) + 1 /\ 1 \in 1 .. Len(txt) + 1 /\ n \in Nat
        /\ n =< Len(str) + 1 - i /\ n =< Len(txt) + 1 - 1 /\ n \in 0 .. n
    BY <1>1
  <2>2. Alike(str, i, txt, 1, n)
    OBVIOUS
  <2>3. \A k \in 0 .. n : Values(str, i, base)[k] = Values(txt, 1, base)[k]
    <3> SUFFICES ASSUME NEW j \in 1 .. Len(txt) + 1, NEW m \in Nat,
                        m =< Len(str) + 1 - i, m =< Len(txt) + 1 - j,
                        Alike(str, i, txt, j, m)
                 PROVE  \A k \in 0 .. m : Values(str, i, base)[k] = Values(txt, j, base)[k]
      BY <2>1, <2>2
    <3>1. txt \in Text /\ i \in 1 .. Len(str) + 1
      BY <1>1, <2>1
    <3> HIDE DEF n
    <3> QED
      BY <3>1, SameValues
  <2> QED
    BY <1>1, <2>1, <2>3
<1>5. str[i] = txt[1]
  <2>1. 1 \in 1 .. n /\ i + 1 - 1 = i
    BY <1>1
  <2> QED
    BY <1>2, <2>1
<1> QED
  BY <1>3, <1>4, <1>5

\* pre \o txt
LEMMA Behind ==
  ASSUME NEW pre \in Text, NEW txt \in Text, NEW str, str = pre \o txt
  PROVE  /\ str \in Text /\ Len(str) = Len(pre) + Len(txt)
         /\ \A k \in 1 .. Len(pre) : str[k] = pre[k]
         /\ Alike(str, Len(pre) + 1, txt, 1, Len(txt))
<1> DEFINE n == Len(txt)
           m == Len(pre)
<1>1. n \in Nat /\ m \in Nat
  BY DEF Text
<1>2. /\ str \in Text /\ Len(str) = m + n
      /\ \A k \in 1 .. m : str[k] = pre[k]
  BY ConcatProperties DEF Text
<1>3. \A k \in 1 .. n : str[m + k] = txt[k]
  BY ConcatProperties DEF Text
<1>4. \A k \in 1 .. n : m + 1 + k - 1 = m + k /\ 1 + k - 1 = k
  BY <1>1
<1> HIDE DEF n, m
<1>5. Alike(str, m + 1, txt, 1, n)
  BY <1>3, <1>4 DEF Alike
<1> QED
  BY <1>2, <1>5 DEF n, m

\* For every long, in every base the kernel prints in.
LEMMA ReadsBack ==
  ASSUME NEW v \in Long, NEW base \in Bases
  PROVE  strtoul(lltoa(v, base), base).value = Unsigned(v)
<1> DEFINE str == lltoa(v, base)
<1>1. v \in Int /\ ULONG_MAX \in Nat /\ (v >= 0 => v \in 0 .. ULONG_MAX)
      /\ (v < 0 => -v \in 0 .. ULONG_MAX)
  <2> DEFINE H == Shl[LongBits - 1]
  <2>1. H \in Nat /\ ULONG_MAX = 2 * H - 1 /\ H > 0 /\ ULONG_MAX \in Nat
    BY LongRange DEF ULONG_MAX
  <2>2. v \in -H .. H - 1
    BY DEF Long
  <2> HIDE DEF H
  <2> QED
    BY <2>1, <2>2
<1>2. CASE v >= 0
  <2> DEFINE txt == ulltoa(v, base)
             n   == Len(txt)
  <2>1. str = txt
    BY <1>1, <1>2 DEF lltoa
  <2>2. Means(txt, v, base)
    BY <1>1, <1>2, NumeralsMean
  <2> HIDE DEF str, txt
  <2>3. txt \in Text /\ n \in Nat \ {0} /\ IsNumeral(txt, 1, base) /\ n + 1 - 1 = n
        /\ Values(txt, 1, base)[n] = v
    BY <2>2 DEF Means
  <2>4. 1 \in Lead(txt)
    <3>1. 1 \in 1 .. n + 1 /\ 1 \in 1 .. 1 /\ \A k \in 1 .. 1 - 1 : FALSE
      BY <2>3
    <3> QED
      BY <3>1 DEF Lead
  <2>5. ReadsNumeral(txt, base, strtoul(txt, base))
    BY <2>3, StrtoulReads
  <2>6. LET all == Values(txt, 1, base)[n + 1 - 1]
            cut == IF all > ULONG_MAX THEN ULONG_MAX ELSE all
        IN  strtoul(txt, base).value = IF 1 > 1 /\ txt[1 - 1] = 45 THEN Unsigned(-cut) ELSE cut
    BY <2>3, <2>4, <2>5 DEF ReadsNumeral
  <2>7. strtoul(txt, base).value = v
    <3>1. Values(txt, 1, base)[n + 1 - 1] = v
      BY <2>3
    <3> QED
      BY <1>1, <1>2, <2>6, <3>1
  <2>8. Unsigned(v) = v
    BY <1>1, <1>2, FitsUnchanged
  <2> QED
    BY <2>1, <2>7, <2>8 DEF str
<1>3. CASE v < 0
  <2> DEFINE u   == -v
             txt == ulltoa(u, base)
             pre == <<45>>
  <2>1. u \in 0 .. ULONG_MAX /\ Unsigned(-v) = u
    BY <1>1, <1>3, FitsUnchanged
  <2>2. str = pre \o txt
    BY <1>3, <2>1 DEF lltoa
  <2>3. Means(txt, u, base)
    <3>1. u \in Nat
      BY <1>1, <1>3
    <3> HIDE DEF u
    <3> QED
      BY <3>1, NumeralsMean
  <2>4. pre \in Text /\ Len(pre) = 1 /\ pre[1] = 45 /\ txt \in Text /\ Len(txt) \in Nat \ {0}
    BY <2>3 DEF Text, NUL, Means
  <2> HIDE DEF str, txt, pre
  <2>5. str \in Text /\ Len(str) = 1 + Len(txt) /\ str[1] = 45
        /\ Alike(str, 2, txt, 1, Len(txt))
    <3>1. /\ str \in Text /\ Len(str) = Len(pre) + Len(txt)
          /\ \A k \in 1 .. Len(pre) : str[k] = pre[k]
          /\ Alike(str, Len(pre) + 1, txt, 1, Len(txt))
      <4>1. pre \in Text /\ txt \in Text
        BY <2>4
      <4> HIDE DEF u
      <4> QED
        BY <2>2, <4>1, Behind
    <3>2. Len(pre) + 1 = 2 /\ 1 \in 1 .. Len(pre)
      BY <2>4
    <3> QED
      BY <2>4, <3>1, <3>2
  <2>6. 2 \in 1 .. Len(str) /\ Len(txt) = Len(str) + 1 - 2
    BY <2>4, <2>5
  <2>7. IsNumeral(str, 2, base) /\ Values(str, 2, base)[Len(str) + 1 - 2] = u
    <3> HIDE DEF u
    <3> QED
      BY <2>3, <2>5, <2>6, MeansBehind
  <2>8. 2 \in Lead(str)
    <3>1. 2 \in 1 .. Len(str) + 1 /\ 1 \in 1 .. 2 /\ 2 = 1 + 1 /\ \A k \in 1 .. 1 - 1 : FALSE
      BY <2>4, <2>5
    <3>2. IsSign(str[1])
      BY <2>5 DEF IsSign
    <3> QED
      BY <3>1, <3>2 DEF Lead
  <2>9. ReadsNumeral(str, base, strtoul(str, base))
    BY <2>5, StrtoulReads
  <2>10. LET all == Values(str, 2, base)[Len(str) + 1 - 2]
             cut == IF all > ULONG_MAX THEN ULONG_MAX ELSE all
         IN  strtoul(str, base).value = IF 2 > 1 /\ str[2 - 1] = 45 THEN Unsigned(-cut) ELSE cut
    BY <2>7, <2>8, <2>9 DEF ReadsNumeral
  <2>11. strtoul(str, base).value = Unsigned(-u)
    <3>1. ~(u > ULONG_MAX) /\ 2 > 1 /\ 2 - 1 = 1
      BY <1>1, <2>1
    <3> HIDE DEF u
    <3> QED
      BY <2>5, <2>7, <2>10, <3>1
  <2>12. -u = v
    BY <1>1
  <2> QED
    BY <2>11, <2>12 DEF str
<1> QED
  BY <1>1, <1>2, <1>3

\* A digit is no x, large or small.
LEMMA DigitsAreNoX ==
  ASSUME NEW base \in Bases, NEW c \in Nat, IsDigit(c, base)
  PROVE  tolower(c) # 120
<1>1. SUFFICES ASSUME tolower(c) = 120 PROVE FALSE
  OBVIOUS
<1>2. c = 120 \/ c = 88
  BY <1>1 DEF tolower, isupper
<1>3. Digit(120) = 33 /\ Digit(88) = 33
  BY DEF Digit, toupper, islower, isdigit
<1> QED
  BY <1>2, <1>3 DEF IsDigit, Bases

\* How a numeral that starts at i says its base: after 0, after 0x or, in
\* base 10, by starting otherwise.
TellsBase(str, i, base) ==
  \/ base = 8  /\ i = 2 /\ str[1] = 48
  \/ base = 16 /\ i = 3 /\ str[1] = 48 /\ str[2] \in {88, 120}
  \/ base = 10 /\ i = 1 /\ (str[1] = 48 => Len(str) = 1)

LEMMA PrefixedReads ==
  ASSUME NEW base \in Bases, NEW u \in 0 .. ULONG_MAX, NEW txt, Means(txt, u, base),
         NEW str \in Text, NEW i \in 1 .. Len(str), Len(txt) = Len(str) + 1 - i,
         Alike(str, i, txt, 1, Len(txt)), TellsBase(str, i, base)
  PROVE  strtoul(str, 0).value = u
<1>1. str[i] = txt[1] /\ IsNumeral(str, i, base) /\ Values(str, i, base)[Len(str) + 1 - i] = u
  BY MeansBehind
<1>2. Len(str) \in Nat /\ i \in Nat \ {0} /\ i \in 1 .. Len(str) + 1 /\ ULONG_MAX \in Nat
  <2>1. Len(str) \in Nat
    BY DEF Text
  <2>2. ULONG_MAX \in Nat
    BY LongRange
  <2> QED
    BY <2>1, <2>2
<1>3. \A k \in i .. Len(str) : /\ IsDigit(str[k], base)
                               /\ ~isspace(str[k]) /\ ~IsSign(str[k])
  BY <1>1, <1>2, NumeralsHaveDigits
<1>4. ~isspace(48) /\ ~IsSign(48)
  BY DEF isspace, IsSign
<1>5. \A k \in 1 .. Len(str) : At(str, k) = str[k] /\ str[k] \in Nat
  BY DEF At, Text
<1>6. ASSUME NEW p \in 1 .. Len(str) + 1, NEW b \in Bases,
             ~isspace(At(str, 1)), ~IsSign(At(str, 1)),
             Prefix(str, 1, 0) = [base |-> b, at |-> p],
             \A k \in p .. Len(str) : IsDigit(str[k], b),
             Values(str, p, b)[Len(str) + 1 - p] = u
      PROVE  strtoul(str, 0).value = u
  <2>1. Values(str, p, b)[Len(str) + 1 - p] =< ULONG_MAX
    BY <1>2, <1>6
  <2> QED
    BY <1>6, <2>1, PrefixReads
<1>7. CASE base = 8 /\ i = 2 /\ str[1] = 48
  <2>1. 1 \in 1 .. Len(str) /\ 2 \in 2 .. Len(str) /\ 2 \in 1 .. Len(str)
    BY <1>2, <1>7
  <2>2. At(str, 1) = 48 /\ At(str, 2) = str[2]
    BY <1>5, <1>7, <2>1
  <2>3. tolower(str[2]) # 120
    <3>1. str[2] \in Nat /\ IsDigit(str[2], base)
      BY <1>3, <1>5, <1>7, <2>1
    <3> QED
      BY <3>1, DigitsAreNoX
  <2>4. Prefix(str, 1, 0) = [base |-> 8, at |-> 2]
    <3>1. 1 + 1 = 2
      OBVIOUS
    <3> QED
      BY <2>2, <2>3, <3>1 DEF Prefix
  <2>5. 2 \in 1 .. Len(str) + 1 /\ 8 \in Bases /\ ~isspace(At(str, 1)) /\ ~IsSign(At(str, 1))
    BY <1>2, <1>4, <1>7, <2>2
  <2>6. /\ \A k \in 2 .. Len(str) : IsDigit(str[k], 8)
        /\ Values(str, 2, 8)[Len(str) + 1 - 2] = u
    BY <1>1, <1>3, <1>7
  <2> QED
    BY <1>6, <2>4, <2>5, <2>6
<1>8. CASE base = 16 /\ i = 3 /\ str[1] = 48 /\ str[2] \in {88, 120}
  <2>1. 1 \in 1 .. Len(str) /\ 2 \in 1 .. Len(str)
    BY <1>2, <1>8
  <2>2. At(str, 1) = 48 /\ At(str, 2) = str[2]
    BY <1>5, <1>8, <2>1
  <2>3. tolower(88) = 120 /\ tolower(120) = 120
    BY DEF tolower, isupper
  <2>4. tolower(str[2]) = 120
    BY <1>8, <2>3
  <2>5. Prefix(str, 1, 0) = [base |-> 16, at |-> 3]
    <3>1. 1 + 1 = 2 /\ 1 + 2 = 3
      OBVIOUS
    <3> QED
      BY <2>2, <2>4, <3>1 DEF Prefix
  <2>6. 3 \in 1 .. Len(str) + 1 /\ 16 \in Bases /\ ~isspace(At(str, 1)) /\ ~IsSign(At(str, 1))
    BY <1>2, <1>4, <1>8, <2>2
  <2>7. /\ \A k \in 3 .. Len(str) : IsDigit(str[k], 16)
        /\ Values(str, 3, 16)[Len(str) + 1 - 3] = u
    BY <1>1, <1>3, <1>8
  <2> QED
    BY <1>6, <2>5, <2>6, <2>7
<1>9. CASE base = 10 /\ i = 1 /\ (str[1] = 48 => Len(str) = 1)
  <2>1. 1 \in 1 .. Len(str) /\ 1 \in 1 .. Len(str) + 1 /\ 10 \in Bases
    BY <1>2, <1>9
  <2>2. At(str, 1) = str[1]
    BY <1>5, <2>1
  <2>3. ~isspace(At(str, 1)) /\ ~IsSign(At(str, 1))
    BY <1>3, <1>9, <2>1, <2>2
  <2>4. CASE str[1] # 48
    <3>1. Prefix(str, 1, 0) = [base |-> 10, at |-> 1]
      BY <2>2, <2>4 DEF Prefix
    <3>2. /\ \A k \in 1 .. Len(str) : IsDigit(str[k], 10)
          /\ Values(str, 1, 10)[Len(str) + 1 - 1] = u
      BY <1>1, <1>3, <1>9
    <3> QED
      BY <1>6, <2>1, <2>3, <3>1, <3>2
  <2>5. CASE str[1] = 48
    <3>1. u = 0
      <4>1. txt[1] = 48
        BY <1>1, <1>9, <2>5
      <4> QED
        BY <4>1 DEF Means
    <3>2. Len(str) = 1
      BY <1>9, <2>5
    <3>3. At(str, 1 + 1) = 0
      BY <3>2 DEF At, NUL
    <3>4. tolower(0) # 120
      BY DEF tolower, isupper
    <3>5. Prefix(str, 1, 0) = [base |-> 8, at |-> 2]
      <4>1. 1 + 1 = 2
        OBVIOUS
      <4> QED
        BY <2>2, <2>5, <3>3, <3>4, <4>1 DEF Prefix
    <3>6. 2 \in 1 .. Len(str) + 1 /\ Len(str) + 1 - 2 = 0 /\ 8 \in Bases
          /\ \A k \in 2 .. Len(str) : IsDigit(str[k], 8)
      BY <3>2 DEF Bases
    <3>7. Values(str, 2, 8)[0] = 0
      BY <3>6, ValuesAre
    <3>8. Values(str, 2, 8)[Len(str) + 1 - 2] = u
      BY <3>1, <3>6, <3>7
    <3> QED
      BY <1>6, <2>3, <3>5, <3>6, <3>8
  <2> QED
    BY <2>4, <2>5
<1> QED
  BY <1>7, <1>8, <1>9 DEF TellsBase

\* str is pre and then txt.
Joins(str, pre, txt) == str = pre \o txt

\* The prefixes of the bases.
SaysBase(pre, base) ==
  \/ base = 8  /\ pre = <<48>>
  \/ base = 10 /\ pre = <<>>
  \/ base = 16 /\ pre = <<48, 88>>
  \/ base = 16 /\ pre = <<48, 120>>

\* And without a base, with the prefix that tells it.
LEMMA ReadsBackPrefixed ==
  ASSUME NEW v \in Long, v >= 0, NEW base \in Bases, NEW pre, SaysBase(pre, base)
  PROVE  strtoul(pre \o lltoa(v, base), 0).value = v
<1>1. v \in Nat /\ v \in 0 .. ULONG_MAX
  <2> DEFINE H == Shl[LongBits - 1]
  <2>1. H \in Nat /\ ULONG_MAX = 2 * H - 1 /\ H > 0
    BY LongRange DEF ULONG_MAX
  <2>2. v \in -H .. H - 1
    BY DEF Long
  <2> HIDE DEF H
  <2> QED
    BY <2>1, <2>2
<1>2. PICK txt : txt = ulltoa(v, base)
  OBVIOUS
<1>3. lltoa(v, base) = txt
  BY <1>1, <1>2 DEF lltoa
<1>4. Means(txt, v, base)
  BY <1>1, <1>2, NumeralsMean
<1>5. txt \in Text /\ Len(txt) \in Nat \ {0} /\ (txt[1] = 48 => v = 0)
  BY <1>4 DEF Means
<1>6. base = 10 /\ txt[1] = 48 => Len(txt) = 1
  <2>1. SUFFICES ASSUME base = 10, v = 0 PROVE Len(txt) = 1
    BY <1>5
  <2>2. Numerals(10)[0] = <<DigitChar(0)>>
    <3>1. 0 < 10 /\ 10 \in Bases
      BY DEF Bases
    <3> QED
      BY <3>1, NumeralsAre
  <2> QED
    BY <1>2, <2>1, <2>2 DEF ulltoa
<1>7. ASSUME NEW p \in Text, NEW str, Joins(str, p, txt),
             base = 8  => Len(p) = 1 /\ p[1] = 48,
             base = 10 => Len(p) = 0,
             base = 16 => Len(p) = 2 /\ p[1] = 48 /\ p[2] \in {88, 120}
      PROVE  strtoul(str, 0).value = v
  <2>1. PICK i : i = Len(p) + 1
    OBVIOUS
  <2>2. /\ str \in Text /\ Len(str) = Len(p) + Len(txt)
        /\ \A k \in 1 .. Len(p) : str[k] = p[k]
        /\ Alike(str, i, txt, 1, Len(txt))
    <3>1. /\ str \in Text /\ Len(str) = Len(p) + Len(txt)
          /\ \A k \in 1 .. Len(p) : str[k] = p[k]
          /\ Alike(str, Len(p) + 1, txt, 1, Len(txt))
      <4>1. txt \in Text /\ str = p \o txt
        BY <1>5, <1>7 DEF Joins
      <4> QED
        BY <4>1, Behind
    <3> QED
      BY <2>1, <3>1
  <2>3. Len(p) \in Nat
    BY DEF Text
  <2>4. i \in 1 .. Len(str) /\ Len(txt) = Len(str) + 1 - i
    BY <1>5, <2>1, <2>2, <2>3
  <2>5. str \in Text /\ Alike(str, i, txt, 1, Len(txt))
    BY <2>2
  <2>6. str[i] = txt[1]
    BY <1>4, <2>4, <2>5, MeansBehind
  <2>7. TellsBase(str, i, base)
    <3>1. CASE base = 8
      <4>1. Len(p) = 1 /\ p[1] = 48
        BY <1>7, <3>1
      <4>2. 1 \in 1 .. Len(p) /\ i = 2
        BY <2>1, <4>1
      <4>3. str[1] = 48
        BY <2>2, <4>1, <4>2
      <4> QED
        BY <3>1, <4>2, <4>3 DEF TellsBase
    <3>2. CASE base = 10
      <4>1. Len(p) = 0
        BY <1>7, <3>2
      <4>2. i = 1 /\ Len(str) = Len(txt)
        BY <1>5, <2>1, <2>2, <4>1
      <4>3. str[1] = 48 => Len(str) = 1
        BY <1>6, <2>6, <3>2, <4>2
      <4> QED
        BY <3>2, <4>2, <4>3 DEF TellsBase
    <3>3. CASE base = 16
      <4>1. Len(p) = 2 /\ p[1] = 48 /\ p[2] \in {88, 120}
        BY <1>7, <3>3
      <4>2. 1 \in 1 .. Len(p) /\ 2 \in 1 .. Len(p)
        BY <4>1
      <4>3. i = 3
        BY <2>1, <4>1
      <4>4. str[1] = p[1] /\ str[2] = p[2]
        BY <2>2, <4>2
      <4>5. str[1] = 48 /\ str[2] \in {88, 120}
        BY <4>1, <4>4
      <4> QED
        BY <3>3, <4>3, <4>5 DEF TellsBase
    <3> QED
      BY <3>1, <3>2, <3>3 DEF Bases
  <2> QED
    BY <1>1, <1>4, <2>4, <2>5, <2>7, PrefixedReads
<1>8. CASE base = 8 /\ pre = <<48>>
  <2>1. <<48>> \in Text /\ Len(<<48>>) = 1 /\ <<48>>[1] = 48
    BY DEF Text, NUL
  <2>2. Joins(<<48>> \o txt, <<48>>, txt)
    BY DEF Joins
  <2>3. strtoul(<<48>> \o txt, 0).value = v
    BY <1>7, <1>8, <2>1, <2>2
  <2> QED
    BY <1>3, <1>8, <2>3
<1>9. CASE base = 10 /\ pre = <<>>
  <2>1. <<>> \in Text /\ Len(<<>>) = 0
    BY DEF Text
  <2>2. Joins(<<>> \o txt, <<>>, txt)
    BY DEF Joins
  <2>3. strtoul(<<>> \o txt, 0).value = v
    BY <1>7, <1>9, <2>1, <2>2
  <2> QED
    BY <1>3, <1>9, <2>3
<1>10. ASSUME NEW x \in {88, 120}, base = 16, pre = <<48, x>>
       PROVE  strtoul(pre \o lltoa(v, base), 0).value = v
  <2>1. <<48, x>> \in Text /\ Len(<<48, x>>) = 2
        /\ <<48, x>>[1] = 48 /\ <<48, x>>[2] \in {88, 120}
    BY DEF Text, NUL
  <2>2. Joins(<<48, x>> \o txt, <<48, x>>, txt)
    BY DEF Joins
  <2>3. strtoul(<<48, x>> \o txt, 0).value = v
    BY <1>7, <1>10, <2>1, <2>2
  <2> QED
    BY <1>3, <1>10, <2>3
<1> QED
  BY <1>8, <1>9, <1>10 DEF SaysBase

-----------------------------------------------------------------------------
(* What the conversions have answered                                     *)

\* What is remembered of a call is what the conversion said.
LEMMA AnswersStand == Spec => []Answered
<1>1. Init => Answered
  BY DEF Init, Answered, Nothing
<1>2. ASSUME Answered, [Next]_vars PROVE Answered'
  <2>1. ASSUME UNCHANGED last PROVE Answered'
    BY <1>2, <2>1 DEF Answered
  <2>2. ASSUME last'.fn \in {"none", "vprintf", "vsnprintf"} PROVE Answered'
    BY <2>2 DEF Answered
  <2>3. CASE \/ PrintNone \/ PrintStr \/ PrintChar \/ PrintPercent \/ PrintInt
             \/ PrintInvalid
    <3>1. UNCHANGED last
      BY <2>3 DEF PrintNone, PrintStr, PrintChar, PrintPercent, PrintInt, PrintInvalid, print
    <3> QED
      BY <2>1, <3>1
  <2>4. CASE LoopDone
    BY <2>2, <2>4 DEF LoopDone, Nothing
  <2>5. CASE vsnprintfEnds
    BY <2>2, <2>5 DEF vsnprintfEnds
  <2>6. CASE TakeResult
    BY <2>2, <2>6 DEF TakeResult, Nothing
  <2>7. CASE Booted \/ PutChar \/ SerialWritten
    BY <2>1, <2>7 DEF Booted, PutChar, SerialWritten
  <2>8. CASE AwaitLine \/ OthersPrint \/ UNCHANGED printVars
    BY <2>1, <2>8 DEF AwaitLine, OthersPrint, printVars
  <2>9. CASE Idle /\ \/ \E f \in LineFormats : vprintf(f)
                     \/ \E f \in Formats, n \in Sizes : vsnprintf(f, n)
    BY <2>1, <2>9 DEF vprintf, vsnprintf, Call
  <2>10. CASE Idle /\ \E str \in Scanned, base \in {0, 8, 10, 16} : CallStrtoul(str, base)
    <3>1. PICK str \in Scanned, base \in {0, 8, 10, 16} : CallStrtoul(str, base)
      BY <2>10
    <3> DEFINE result == strtoul(str, base)
    <3>2. last' = [fn |-> "strtoul", str |-> str, base |-> base, result |-> result]
      BY <3>1 DEF CallStrtoul, Returns
    <3> HIDE DEF result
    <3>3. last'.fn = "strtoul" /\ last'.str = str /\ last'.base = base /\ last'.result = result
      BY <3>2
    <3> QED
      BY <3>3 DEF Answered, result
  <2>11. CASE Idle /\ \E v \in Long, base \in {8, 10, 16} : CallLltoa(v, base)
    <3>1. PICK v \in Long, base \in {8, 10, 16} : CallLltoa(v, base)
      BY <2>11
    <3> DEFINE result == lltoa(v, base)
    <3>2. last' = [fn |-> "lltoa", value |-> v, base |-> base, str |-> result]
      BY <3>1 DEF CallLltoa, Returns
    <3> HIDE DEF result
    <3>3. last'.fn = "lltoa" /\ last'.value = v /\ last'.base = base /\ last'.str = result
      BY <3>2
    <3> QED
      BY <3>3 DEF Answered, result
  <2>12. UNCHANGED vars => UNCHANGED printVars
    BY DEF vars
  <2> QED
    BY <1>2, <2>3, <2>4, <2>5, <2>6, <2>7, <2>8, <2>9, <2>10, <2>11, <2>12 DEF Next
<1> QED
  BY <1>1, <1>2, PTL DEF Spec

\* For every string: strtoul reads a numeral as far as an unsigned long of
\* any width holds it, and says where it stopped.
THEOREM NumeralsAreRead == Spec => []ScansNumerals
<1>1. ASSUME Answered PROVE ScansNumerals
  <2>1. SUFFICES ASSUME last.fn = "strtoul", last.base # 0
                 PROVE  ReadsNumeral(last.str, last.base, last.result)
    BY DEF ScansNumerals
  <2>2. /\ last.str \in Text /\ last.base \in Bases
        /\ last.result = strtoul(last.str, last.base)
    BY <1>1, <2>1, FormatAssumption DEF Answered, Text, Bases
  <2> QED
    BY <2>2, StrtoulReads
<1> QED
  BY <1>1, AnswersStand, PTL

\* For every long of any width: strtoul reads back what lltoa writes.
THEOREM NumbersAreReadBack == Spec => []NumbersReadBack
<1>1. ASSUME Answered PROVE NumbersReadBack
  <2>1. SUFFICES ASSUME last.fn = "lltoa" PROVE NumbersReadBack
    BY DEF NumbersReadBack
  <2>2. PICK v \in Long, base \in Bases :
          last.value = v /\ last.base = base /\ last.str = lltoa(v, base)
    BY <1>1, <2>1 DEF Answered, Bases
  <2>3. strtoul(lltoa(v, base), base).value = Unsigned(v)
    BY ReadsBack
  <2>4. v >= 0 => \A p \in CASE base = 8  -> {<<48>>}
                             [] base = 10 -> {<<>>}
                             [] base = 16 -> {<<48, 88>>, <<48, 120>>} :
                    strtoul(p \o lltoa(v, base), 0).value = v
    <3>1. SUFFICES ASSUME v >= 0, NEW p, SaysBase(p, base)
                   PROVE  strtoul(p \o lltoa(v, base), 0).value = v
      BY DEF Bases, SaysBase
    <3> QED
      BY <3>1, ReadsBackPrefixed
  <2> QED
    BY <2>2, <2>3, <2>4 DEF NumbersReadBack
<1> QED
  BY <1>1, AnswersStand, PTL

-----------------------------------------------------------------------------
(* The bytes of the call among those on the line                           *)

\* What can be on the line or in the chip.
Chars == Nat \cup {STRAY, NONE}

\* m is what is left of each of the first n bytes of s.
Sifts(m, s, n) ==
  /\ m[0] = <<>>
  /\ \A k \in 1 .. n :
       m[k] = IF s[k] \in {STRAY, NONE} THEN m[k - 1] ELSE Append(m[k - 1], s[k])

LEMMA MineSifts ==
  ASSUME NEW s \in Seq(Chars)
  PROVE  \E m \in [0 .. Len(s) -> Seq(Nat)] : Sifts(m, s, Len(s)) /\ Mine(s) = m[Len(s)]
<1> DEFINE n     == Len(s)
           next(v, k) == IF s[k] \in {STRAY, NONE} THEN v ELSE Append(v, s[k])
           R(f)  == [k \in 0 .. n |-> IF k = 0 THEN <<>> ELSE next(f[k - 1], k)]
           G     == [k \in 1 .. n |-> [v \in Seq(Nat) |-> next(v, k)]]
           t     == CHOOSE f : f = R(f)
<1>1. n \in Nat /\ \A k \in 1 .. n : s[k] \in Chars
  OBVIOUS
<1>2. ASSUME NEW k \in 1 .. n, NEW v \in Seq(Nat) PROVE next(v, k) \in Seq(Nat)
  <2>1. s[k] \in Nat \/ s[k] \in {STRAY, NONE}
    BY <1>1 DEF Chars
  <2> DEFINE c == s[k]
  <2> HIDE DEF c
  <2>2. c \in Nat => Append(v, c) \in Seq(Nat)
    BY AppendProperties
  <2> QED
    BY <2>1, <2>2 DEF c
<1>3. Mine(s) = t[n]
  BY DEF Mine
<1> HIDE DEF n, t, next
<1>4. G \in [1 .. n -> [Seq(Nat) -> Seq(Nat)]]
  BY <1>2
<1>5. PICK f \in [0 .. n -> Seq(Nat)] : Runs(f, n, <<>>, G)
  <2>1. <<>> \in Seq(Nat)
    OBVIOUS
  <2> HIDE DEF G
  <2> QED
    BY <1>1, <1>4, <2>1, LoopRuns
<1>6. \A k \in 1 .. n : f[k] = next(f[k - 1], k)
  <2>1. ASSUME NEW k \in 1 .. n PROVE f[k - 1] \in Seq(Nat)
    <3>1. k - 1 \in 0 .. n
      BY <1>1
    <3> QED
      BY <3>1
  <2> QED
    BY <1>5, <2>1 DEF Runs
<1>7. f = R(f)
  BY <1>1, <1>5, <1>6 DEF Runs
<1>8. t = R(t)
  <2> HIDE DEF R
  <2> QED
    BY <1>7 DEF t
<1>9. t[0] = <<>> /\ \A k \in 1 .. n : t[k] = next(t[k - 1], k)
  BY <1>1, <1>8
<1>10. \A k \in 0 .. n : t[k] = f[k]
  <2>1. SameTurns(t, f, n)
    BY <1>5, <1>6, <1>9 DEF SameTurns, Runs
  <2> QED
    BY <1>1, <2>1, TurnsAgree
<1>11. t \in [0 .. n -> Seq(Nat)]
  BY <1>8, <1>10
<1>12. Sifts(t, s, n)
  BY <1>9 DEF Sifts, next
<1> QED
  BY <1>3, <1>11, <1>12 DEF n

\* Nothing is left of nothing.
LEMMA NothingIsMine == Mine(<<>>) = <<>>
<1>1. <<>> \in Seq(Chars) /\ Len(<<>>) = 0
  OBVIOUS
<1>2. PICK m \in [0 .. Len(<<>>) -> Seq(Nat)] :
        Sifts(m, <<>>, Len(<<>>)) /\ Mine(<<>>) = m[Len(<<>>)]
  BY <1>1, MineSifts
<1> QED
  BY <1>1, <1>2 DEF Sifts

\* The last byte stays, or it is another's.
LEMMA MineAppends ==
  ASSUME NEW s \in Seq(Chars), NEW c \in Chars
  PROVE  /\ Mine(s) \in Seq(Nat)
         /\ c \in {STRAY, NONE} => Mine(Append(s, c)) = Mine(s)
         /\ c \in Nat => Mine(Append(s, c)) = Append(Mine(s), c)
<1> DEFINE n == Len(s)
           a == Append(s, c)
<1>1. /\ n \in Nat /\ a \in Seq(Chars) /\ Len(a) = n + 1 /\ a[n + 1] = c
      /\ \A k \in 1 .. n : a[k] = s[k]
  BY AppendProperties
<1>2. PICK m \in [0 .. n -> Seq(Nat)] : Sifts(m, s, n) /\ Mine(s) = m[n]
  BY MineSifts
<1> HIDE DEF a, n
<1>3. PICK l \in [0 .. n + 1 -> Seq(Nat)] : Sifts(l, a, n + 1) /\ Mine(a) = l[n + 1]
  BY <1>1, MineSifts
<1>4. \A k \in 0 .. n : l[k] = m[k]
  <2>1. SameTurns(l, m, n)
    <3>1. \A k \in 1 .. n : k \in 1 .. n + 1
      BY <1>1
    <3> QED
      BY <1>1, <1>2, <1>3, <3>1 DEF Sifts, SameTurns
  <2>2. n \in Nat
    BY <1>1
  <2> QED
    BY <2>1, <2>2, TurnsAgree
<1>5. Mine(a) = IF c \in {STRAY, NONE} THEN Mine(s) ELSE Append(Mine(s), c)
  <2>1. n + 1 \in 1 .. n + 1 /\ (n + 1) - 1 = n /\ n \in 0 .. n
    BY <1>1
  <2>2. l[n + 1] = IF a[n + 1] \in {STRAY, NONE} THEN l[n] ELSE Append(l[n], a[n + 1])
    BY <1>3, <2>1 DEF Sifts
  <2> QED
    BY <1>1, <1>2, <1>3, <1>4, <2>1, <2>2
<1>6. Mine(s) \in Seq(Nat)
  <2>1. n \in 0 .. n
    BY <1>1
  <2> QED
    BY <1>2, <2>1
<1> QED
  BY <1>5, <1>6, SerialAssumption DEF a

-----------------------------------------------------------------------------
(* What is in another sequence, in order                                   *)

\* Where the bytes of two sequences are when the second follows the first.
LEMMA ConcatAt ==
  ASSUME NEW S, NEW a \in Seq(S), NEW b \in Seq(S)
  PROVE  /\ Len(a \o b) = Len(a) + Len(b)
         /\ \A i \in 1 .. Len(a) : (a \o b)[i] = a[i]
         /\ \A i \in 1 .. Len(b) : (a \o b)[Len(a) + i] = b[i]
<1> DEFINE m == Len(a)
           l == Len(b)
           c == a \o b
<1>1. m \in Nat /\ l \in Nat
  OBVIOUS
<1>2. /\ Len(c) = m + l
      /\ \A i \in 1 .. m + l : c[i] = IF i =< m THEN a[i] ELSE b[i - m]
  BY ConcatProperties
<1> HIDE DEF m, l, c
<1>3. ASSUME NEW i \in 1 .. m PROVE c[i] = a[i]
  <2>1. i \in 1 .. m + l /\ i =< m
    BY <1>1
  <2> QED
    BY <1>2, <2>1
<1>4. ASSUME NEW i \in 1 .. l PROVE c[m + i] = b[i]
  <2>1. m + i \in 1 .. m + l /\ ~(m + i =< m) /\ (m + i) - m = i
    BY <1>1
  <2> QED
    BY <1>2, <2>1
<1> QED
  BY <1>2, <1>3, <1>4 DEF m, l, c

\* More bytes at the end of both.
LEMMA EmbedsMore ==
  ASSUME NEW s \in Seq(Nat), NEW t \in Seq(Nat), NEW piece \in Seq(Nat),
         NEW f, Embeds(f, s, t)
  PROVE  \E g : Embeds(g, s \o piece, t \o piece)
<1> DEFINE m == Len(s)
           n == Len(t)
           l == Len(piece)
           g == [i \in 1 .. m + l |-> IF i =< m THEN f[i] ELSE n + (i - m)]
           sp == s \o piece
           tp == t \o piece
<1>1. m \in Nat /\ n \in Nat /\ l \in Nat
  OBVIOUS
<1>2. /\ Len(sp) = m + l /\ Len(tp) = n + l
      /\ \A i \in 1 .. m : sp[i] = s[i]
      /\ \A i \in 1 .. n : tp[i] = t[i]
      /\ \A i \in 1 .. l : sp[m + i] = piece[i] /\ tp[n + i] = piece[i]
  BY ConcatAt
<1>3. /\ f \in [1 .. m -> 1 .. n]
      /\ \A i, j \in 1 .. m : i < j => f[i] < f[j]
      /\ \A i \in 1 .. m : s[i] = t[f[i]]
  BY DEF Embeds
<1> HIDE DEF m, n, l, sp, tp
<1>4. ASSUME NEW i \in 1 .. m + l
      PROVE  g[i] \in 1 .. n + l /\ sp[i] = tp[g[i]]
  <2>1. CASE i =< m
    <3>1. i \in 1 .. m /\ g[i] = f[i]
      BY <1>1, <2>1
    <3>2. f[i] \in 1 .. n /\ s[i] = t[f[i]]
      BY <1>3, <3>1
    <3>3. f[i] \in 1 .. n + l
      BY <1>1, <3>2
    <3>4. sp[i] = s[i] /\ tp[f[i]] = t[f[i]]
      BY <1>2, <3>1, <3>2
    <3> HIDE DEF g
    <3> QED
      BY <3>1, <3>2, <3>3, <3>4
  <2>2. CASE ~(i =< m)
    <3>1. i - m \in 1 .. l /\ g[i] = n + (i - m) /\ m + (i - m) = i
      BY <1>1, <2>2
    <3>2. sp[m + (i - m)] = piece[i - m] /\ tp[n + (i - m)] = piece[i - m]
      BY <1>2, <3>1
    <3>3. n + (i - m) \in 1 .. n + l
      BY <1>1, <3>1
    <3> QED
      BY <3>1, <3>2, <3>3
  <2> QED
    BY <2>1, <2>2
<1>5. ASSUME NEW i \in 1 .. m + l, NEW j \in 1 .. m + l, i < j
      PROVE  g[i] < g[j]
  <2>1. CASE j =< m
    <3>1. i \in 1 .. m /\ j \in 1 .. m /\ g[i] = f[i] /\ g[j] = f[j]
      BY <1>1, <1>5, <2>1
    <3> QED
      BY <1>3, <1>5, <3>1
  <2>2. CASE i =< m /\ ~(j =< m)
    <3>1. i \in 1 .. m /\ g[i] = f[i] /\ g[j] = n + (j - m)
      BY <1>1, <2>2
    <3>2. f[i] \in 1 .. n
      BY <1>3, <3>1
    <3> QED
      BY <1>1, <2>2, <3>1, <3>2
  <2>3. CASE ~(i =< m) /\ ~(j =< m)
    BY <1>1, <1>5, <2>3
  <2> QED
    BY <1>1, <1>5, <2>1, <2>2, <2>3
<1>6. g \in [1 .. m + l -> 1 .. n + l]
  BY <1>4
<1> HIDE DEF g
<1>7. Embeds(g, sp, tp)
  BY <1>2, <1>4, <1>5, <1>6 DEF Embeds
<1> QED
  BY <1>7 DEF sp, tp

\* One byte less.
LEMMA EmbedsLess ==
  ASSUME NEW a \in Seq(Nat), NEW c \in Nat, NEW b \in Seq(Nat), NEW t \in Seq(Nat),
         NEW f, Embeds(f, Append(a, c) \o b, t)
  PROVE  /\ \E g : Embeds(g, a \o b, t)
         /\ Len(Append(a, c) \o b) = Len(a \o b) + 1
<1> DEFINE m == Len(a)
           l == Len(b)
           n == Len(t)
           s == a \o b
           r == Append(a, c) \o b
           g == [i \in 1 .. m + l |-> IF i =< m THEN f[i] ELSE f[i + 1]]
<1>1. m \in Nat /\ n \in Nat /\ l \in Nat
  OBVIOUS
<1>2. /\ Len(s) = m + l
      /\ \A i \in 1 .. m : s[i] = a[i]
      /\ \A i \in 1 .. l : s[m + i] = b[i]
  BY ConcatAt
<1>3. /\ Len(r) = m + l + 1
      /\ \A i \in 1 .. m : r[i] = a[i]
      /\ \A i \in 1 .. l : r[m + 1 + i] = b[i]
  <2> DEFINE ac == Append(a, c)
  <2>1. ac \in Seq(Nat) /\ Len(ac) = m + 1 /\ \A i \in 1 .. m : ac[i] = a[i]
    BY AppendProperties
  <2> HIDE DEF ac
  <2>2. /\ Len(ac \o b) = m + 1 + l
        /\ \A i \in 1 .. m + 1 : (ac \o b)[i] = ac[i]
        /\ \A i \in 1 .. l : (ac \o b)[m + 1 + i] = b[i]
    <3>1. /\ Len(ac \o b) = Len(ac) + l
          /\ \A i \in 1 .. Len(ac) : (ac \o b)[i] = ac[i]
          /\ \A i \in 1 .. l : (ac \o b)[Len(ac) + i] = b[i]
      <4>1. ac \in Seq(Nat)
        BY <2>1
      <4> QED
        BY <4>1, ConcatAt
    <3>2. Len(ac) = m + 1
      BY <2>1
    <3> HIDE DEF m, l
    <3> QED
      BY <3>1, <3>2
  <2>3. \A i \in 1 .. m : i \in 1 .. m + 1
    BY <1>1
  <2>4. m + 1 + l = m + l + 1
    BY <1>1
  <2> HIDE DEF m, l
  <2> QED
    BY <2>1, <2>2, <2>3, <2>4 DEF ac
<1>4. /\ f \in [1 .. m + l + 1 -> 1 .. n]
      /\ \A i, j \in 1 .. m + l + 1 : i < j => f[i] < f[j]
      /\ \A i \in 1 .. m + l + 1 : r[i] = t[f[i]]
  <2>1. Embeds(f, r, t)
    OBVIOUS
  <2> HIDE DEF r, m, l, n
  <2> QED
    BY <1>3, <2>1 DEF Embeds, n
<1> HIDE DEF m, n, l, s, r
<1>5. ASSUME NEW i \in 1 .. m + l
      PROVE  g[i] \in 1 .. n /\ s[i] = t[g[i]]
  <2>1. CASE i =< m
    <3>1. i \in 1 .. m /\ i \in 1 .. m + l + 1 /\ g[i] = f[i]
      BY <1>1, <2>1
    <3>2. f[i] \in 1 .. n /\ r[i] = t[f[i]]
      BY <1>4, <3>1
    <3>3. s[i] = a[i] /\ r[i] = a[i]
      BY <1>2, <1>3, <3>1
    <3> HIDE DEF g
    <3> QED
      BY <3>1, <3>2, <3>3
  <2>2. CASE ~(i =< m)
    <3>1. /\ i - m \in 1 .. l /\ g[i] = f[i + 1] /\ m + (i - m) = i
          /\ m + 1 + (i - m) = i + 1 /\ i + 1 \in 1 .. m + l + 1
      BY <1>1, <2>2
    <3>2. s[m + (i - m)] = b[i - m] /\ r[m + 1 + (i - m)] = b[i - m]
      BY <1>2, <1>3, <3>1
    <3>3. f[i + 1] \in 1 .. n /\ r[i + 1] = t[f[i + 1]]
      BY <1>4, <3>1
    <3> QED
      BY <3>1, <3>2, <3>3
  <2> QED
    BY <2>1, <2>2
<1>6. ASSUME NEW i \in 1 .. m + l, NEW j \in 1 .. m + l, i < j
      PROVE  g[i] < g[j]
  <2>1. \A k \in 1 .. m + l : k \in 1 .. m + l + 1 /\ k + 1 \in 1 .. m + l + 1
    BY <1>1
  <2>2. CASE j =< m
    <3>1. g[i] = f[i] /\ g[j] = f[j]
      BY <1>1, <1>6, <2>2
    <3> QED
      BY <1>4, <1>6, <2>1, <3>1
  <2>3. CASE i =< m /\ ~(j =< m)
    <3>1. g[i] = f[i] /\ g[j] = f[j + 1] /\ i < j + 1
      BY <1>1, <1>6, <2>3
    <3> QED
      BY <1>4, <2>1, <3>1
  <2>4. CASE ~(i =< m) /\ ~(j =< m)
    <3>1. g[i] = f[i + 1] /\ g[j] = f[j + 1] /\ i + 1 < j + 1
      BY <1>1, <1>6, <2>4
    <3> QED
      BY <1>4, <2>1, <3>1
  <2> QED
    BY <1>1, <1>6, <2>2, <2>3, <2>4
<1>7. g \in [1 .. m + l -> 1 .. n]
  BY <1>5
<1> HIDE DEF g
<1>8. Embeds(g, s, t)
  BY <1>2, <1>5, <1>6, <1>7 DEF Embeds, n
<1>9. Len(r) = Len(s) + 1
  BY <1>2, <1>3
<1> QED
  BY <1>8, <1>9 DEF s, r

\* Then the bytes are met one after the other.
LEMMA EmbedsIsIn ==
  ASSUME NEW s \in Seq(Nat), NEW t \in Seq(Nat), NEW f, Embeds(f, s, t)
  PROVE  IsIn(s, t)
<1> DEFINE m == Len(s)
           n == Len(t)
           next(v, k) == IF v < m /\ s[v + 1] = t[k] THEN v + 1 ELSE v
           R(h)  == [k \in 0 .. n |-> IF k = 0 THEN 0 ELSE next(h[k - 1], k)]
           G     == [k \in 1 .. n |-> [v \in 0 .. m |-> next(v, k)]]
           met   == Met(s, t)
<1>1. m \in Nat /\ n \in Nat
  OBVIOUS
<1>2. ASSUME NEW k \in 1 .. n, NEW v \in 0 .. m PROVE next(v, k) \in 0 .. m
  BY <1>1
<1>3. met = CHOOSE h : h = R(h)
  BY DEF Met
<1>4. /\ f \in [1 .. m -> 1 .. n]
      /\ \A i, j \in 1 .. m : i < j => f[i] < f[j]
      /\ \A i \in 1 .. m : s[i] = t[f[i]]
  BY DEF Embeds
<1>5. IsIn(s, t) <=> met[n] = m
  BY DEF IsIn
<1> HIDE DEF m, n, met, next
<1>6. G \in [1 .. n -> [0 .. m -> 0 .. m]]
  BY <1>2
<1>7. PICK h \in [0 .. n -> 0 .. m] : Runs(h, n, 0, G)
  <2>1. 0 \in 0 .. m
    BY <1>1
  <2> HIDE DEF G
  <2> QED
    BY <1>1, <1>6, <2>1, LoopRuns
<1>8. \A k \in 1 .. n : h[k] = next(h[k - 1], k)
  <2>1. ASSUME NEW k \in 1 .. n PROVE h[k - 1] \in 0 .. m
    <3>1. k - 1 \in 0 .. n
      BY <1>1
    <3> QED
      BY <3>1
  <2> QED
    BY <1>7, <2>1 DEF Runs
<1>9. h = R(h)
  BY <1>1, <1>7, <1>8 DEF Runs
<1>10. met = R(met)
  <2> HIDE DEF R
  <2> QED
    BY <1>3, <1>9
<1>11. met[0] = 0 /\ \A k \in 1 .. n : met[k] = next(met[k - 1], k)
  BY <1>1, <1>10
<1>12. \A k \in 0 .. n : met[k] = h[k]
  <2>1. SameTurns(met, h, n)
    BY <1>7, <1>8, <1>11 DEF SameTurns, Runs
  <2> QED
    BY <1>1, <2>1, TurnsAgree
<1>13. met \in [0 .. n -> 0 .. m]
  BY <1>10, <1>12
<1> HIDE DEF R, G
\* No later turn takes back what an earlier one has met.
<1>14. ASSUME NEW k \in 0 .. n PROVE \A j \in k .. n : met[k] =< met[j]
  <2> DEFINE T == {j \in 0 .. n : k =< j => met[k] =< met[j]}
  <2>1. 0 \in T
    <3>1. k =< 0 => k = 0
      OBVIOUS
    <3>2. met[0] \in Nat /\ 0 \in 0 .. n
      BY <1>1, <1>13
    <3> QED
      BY <3>1, <3>2
  <2>2. ASSUME NEW j \in 1 .. n, j - 1 \in T PROVE j \in T
    <3>1. j - 1 \in 0 .. n /\ j \in 0 .. n
      BY <1>1
    <3>2. met[j - 1] \in 0 .. m /\ met[j] \in 0 .. m
      BY <1>13, <3>1
    <3>3. met[j - 1] =< met[j]
      <4>1. met[j] = next(met[j - 1], j)
        BY <1>11, <2>2
      <4>2. next(met[j - 1], j) \in {met[j - 1], met[j - 1] + 1}
        BY DEF next
      <4> QED
        BY <1>1, <3>2, <4>1, <4>2
    <3>4. k =< j - 1 \/ k = j \/ ~(k =< j)
      BY <1>1
    <3>5. met[k] \in 0 .. m
      BY <1>13
    <3> QED
      BY <1>1, <2>2, <3>1, <3>2, <3>3, <3>4, <3>5
  <2>3. T \in SUBSET (0 .. n)
    OBVIOUS
  <2> HIDE DEF T
  <2>4. T = 0 .. n
    BY <1>1, <2>1, <2>2, <2>3, Upwards
  <2>5. \A j \in k .. n : j \in 0 .. n /\ k =< j
    BY <1>1
  <2> QED
    BY <2>4, <2>5 DEF T
<1> DEFINE U == {i \in 0 .. m : i = 0 \/ met[f[i]] >= i}
<1>15. 0 \in U
  BY <1>1
<1>16. ASSUME NEW i \in 1 .. m, i - 1 \in U PROVE i \in U
  <2> DEFINE k == f[i]
  <2>1. k \in 1 .. n /\ k - 1 \in 0 .. n /\ k \in 0 .. n /\ s[i] = t[k]
    <3>1. k \in 1 .. n /\ s[i] = t[k]
      BY <1>4
    <3> HIDE DEF k
    <3> QED
      BY <1>1, <3>1
  <2>2. met[k - 1] \in 0 .. m /\ met[k] \in 0 .. m
    BY <1>13, <2>1
  <2>3. met[k] = next(met[k - 1], k)
    BY <1>11, <2>1
  <2>4. met[k - 1] >= i - 1
    <3>1. CASE i - 1 = 0
      BY <2>2, <3>1
    <3>2. CASE i - 1 # 0
      <4>1. i - 1 \in 1 .. m /\ i - 1 < i /\ met[f[i - 1]] >= i - 1
        BY <1>1, <1>16, <3>2
      <4>2. f[i - 1] < k /\ f[i - 1] \in 1 .. n
        BY <1>4, <4>1
      <4>3. f[i - 1] \in 0 .. n /\ k - 1 \in f[i - 1] .. n
        <5> DEFINE p == f[i - 1]
        <5> HIDE DEF k, p
        <5>1. p < k /\ p \in 1 .. n
          BY <4>2 DEF p
        <5>2. p \in 0 .. n /\ k - 1 \in p .. n
          BY <1>1, <2>1, <5>1
        <5> QED
          BY <5>2 DEF p
      <4>4. met[f[i - 1]] =< met[k - 1] /\ met[f[i - 1]] \in 0 .. m
        BY <1>13, <1>14, <4>3
      <4> HIDE DEF k
      <4> QED
        BY <1>1, <2>2, <4>1, <4>4
    <3> QED
      BY <3>1, <3>2
  <2> HIDE DEF k
  <2>5. CASE met[k - 1] = i - 1
    <3>1. met[k - 1] + 1 = i /\ met[k - 1] < m
      BY <1>1, <2>5
    <3>2. met[k] = i
      BY <2>1, <2>3, <3>1 DEF next
    <3> QED
      BY <1>1, <3>2 DEF k
  <2>6. CASE met[k - 1] # i - 1
    <3>1. met[k - 1] >= i
      BY <1>1, <2>2, <2>4, <2>6
    <3>2. met[k] >= met[k - 1]
      BY <1>1, <2>2, <2>3 DEF next
    <3> QED
      BY <1>1, <2>2, <3>1, <3>2 DEF k
  <2> QED
    BY <2>5, <2>6
<1>17. U = 0 .. m
  <2>1. U \in SUBSET (0 .. m)
    OBVIOUS
  <2> HIDE DEF U
  <2> QED
    BY <1>1, <1>15, <1>16, <2>1, Upwards
<1>18. met[n] \in 0 .. m /\ n \in 0 .. n
  BY <1>1, <1>13
<1>19. met[n] >= m
  <2>1. CASE m = 0
    BY <1>18, <2>1
  <2>2. CASE m # 0
    <3>1. m \in 1 .. m /\ m \in U
      <4> HIDE DEF U
      <4>1. m \in 1 .. m /\ m \in 0 .. m
        BY <1>1, <2>2
      <4> QED
        BY <1>17, <4>1
    <3>2. f[m] \in 0 .. n /\ n \in f[m] .. n /\ met[f[m]] >= m
      BY <1>1, <1>4, <2>2, <3>1
    <3>3. met[f[m]] =< met[n] /\ met[f[m]] \in 0 .. m
      BY <1>13, <1>14, <3>2
    <3> QED
      BY <1>1, <1>18, <3>2, <3>3
  <2> QED
    BY <2>1, <2>2
<1> QED
  BY <1>1, <1>5, <1>18, <1>19

-----------------------------------------------------------------------------
(* The steps of the chip                                                   *)

LEMMA SetupIs ==
  /\ Len(SetupWrites) = 6
  /\ SetupDone <=> step > 6
  /\ REG_DATA = 0 /\ REG_IER = 1 /\ REG_LCR = 3
  /\ LCR_8BIT = 3 /\ LCR_DLAB = 128
BY DEF SetupWrites, SetupDone, REG_DATA, REG_IER, REG_LCR, LCR_8BIT, LCR_DLAB

\* Each write of the setup reaches the register it is meant for.
LEMMA SetupKeeps ==
  ASSUME ChipInv, SerialSetup
  PROVE  ChipInv' /\ UNCHANGED <<holding, line, ready, strays>>
<1>1. /\ step \in 1 .. 6 /\ step' = step + 1
      /\ holding = NONE /\ line = <<>> /\ ready = {} /\ strays = 0
      /\ UNCHANGED <<line, ready, strays>>
  BY SetupIs DEF ChipInv, SerialSetup
<1>2. (step' > 6) <=> SetupDone'
  BY SetupIs DEF SetupDone, SetupWrites
<1>3. CASE step = 1
  <2>1. lcr' = 0 /\ UNCHANGED <<ier, divisor, holding>>
    BY <1>3, SetupIs DEF SerialSetup, SetupWrites, Out
  <2> QED
    BY <1>1, <1>2, <1>3, <2>1 DEF ChipInv
<1>4. CASE step = 2
  <2>1. ier' = 0 /\ UNCHANGED <<lcr, divisor, holding>>
    BY <1>4, SetupIs DEF SerialSetup, SetupWrites, Out, UsesDivisor, ChipInv
  <2> QED
    BY <1>1, <1>2, <1>4, <2>1 DEF ChipInv
<1>5. CASE step = 3
  <2>1. lcr' = LCR_DLAB /\ UNCHANGED <<ier, divisor, holding>>
    BY <1>5, SetupIs DEF SerialSetup, SetupWrites, Out
  <2> QED
    BY <1>1, <1>2, <1>5, <2>1 DEF ChipInv
<1>6. CASE step = 4
  <2>1. divisor' = [divisor EXCEPT ![1] = 12] /\ UNCHANGED <<lcr, ier, holding>>
    BY <1>6, SetupIs DEF SerialSetup, SetupWrites, Out, UsesDivisor, ChipInv
  <2>2. divisor = <<1, 1>>
    BY <1>6 DEF ChipInv
  <2>3. divisor' = <<12, 1>>
    BY <2>1, <2>2
  <2> QED
    BY <1>1, <1>2, <1>6, <2>1, <2>3 DEF ChipInv
<1>7. CASE step = 5
  <2>1. divisor' = [divisor EXCEPT ![2] = 0] /\ UNCHANGED <<lcr, ier, holding>>
    BY <1>7, SetupIs DEF SerialSetup, SetupWrites, Out, UsesDivisor, ChipInv
  <2>2. divisor = <<12, 1>>
    BY <1>7 DEF ChipInv
  <2>3. divisor' = <<12, 0>>
    BY <2>1, <2>2
  <2> QED
    BY <1>1, <1>2, <1>7, <2>1, <2>3 DEF ChipInv
<1>8. CASE step = 6
  <2>1. lcr' = LCR_8BIT /\ UNCHANGED <<ier, divisor, holding>>
    BY <1>8, SetupIs DEF SerialSetup, SetupWrites, Out
  <2> QED
    BY <1>1, <1>2, <1>8, <2>1, SetupIs DEF ChipInv
<1>9. step \in {1, 2, 3, 4, 5, 6}
  BY <1>1
<1> QED
  BY <1>1, <1>3, <1>4, <1>5, <1>6, <1>7, <1>8, <1>9

\* Once it is set up, what is written to the data register waits there.
LEMMA DataWaits ==
  ASSUME ChipInv, SetupDone, NEW c, Out(REG_DATA, c)
  PROVE  holding' = c /\ UNCHANGED <<lcr, ier, divisor>>
<1>1. lcr = 3
  BY SetupIs DEF ChipInv
<1>2. ~UsesDivisor /\ REG_DATA # REG_LCR /\ REG_DATA # REG_IER
  BY <1>1, SetupIs DEF UsesDivisor
<1> QED
  BY <1>2, SetupIs DEF Out

\* Of the chip nothing changes but what waits, what was sent and who writes.
LEMMA ChipKeeps ==
  ASSUME ChipInv, SetupDone, UNCHANGED <<lcr, ier, divisor, step>>,
         line' \in Seq(Nat \cup {STRAY}), holding' \in Nat \cup {STRAY, NONE},
         strays' \in Nat
  PROVE  ChipInv' /\ SetupDone'
BY DEF ChipInv, SetupDone, SetupWrites

-----------------------------------------------------------------------------
(* What the line carries                                                   *)

LEMMA LineIsOfChars ==
  ASSUME LineInv
  PROVE  /\ line \in Seq(Chars) /\ holding \in Chars
         /\ Mine(line) \in Seq(Nat) /\ out \in Seq(Nat)
         /\ holding \in Nat => Mine(Append(line, holding)) = Append(Mine(line), holding)
         /\ holding \notin Nat => Mine(Append(line, holding)) = Mine(line)
         /\ Mine(Append(line, holding)) \in Seq(Nat)
<1>1. line \in Seq(Chars) /\ holding \in Chars /\ out \in Seq(Nat)
  BY DEF LineInv, ChipInv, Chars
<1>2. holding \in Nat \/ holding \in {STRAY, NONE}
  BY DEF LineInv, ChipInv
<1>3. /\ Mine(line) \in Seq(Nat)
      /\ holding \in Nat => Mine(Append(line, holding)) = Append(Mine(line), holding)
      /\ holding \notin Nat => Mine(Append(line, holding)) = Mine(line)
  BY <1>1, <1>2, MineAppends
<1>4. holding \in Nat => Append(Mine(line), holding) \in Seq(Nat)
  BY <1>3, AppendProperties
<1> QED
  BY <1>1, <1>3, <1>4

\* A step that leaves the line, what waits and what was printed alone.
LEMMA CarriedStays ==
  ASSUME LineInv, sink = "line", UNCHANGED <<line, holding, strays, out, text>>
  PROVE  TextIsCarried'
BY DEF LineInv, TextIsCarried, Carried

LEMMA PrintCarries ==
  ASSUME CallInv, LineInv, NEW piece \in Seq(Nat), NEW type, Takes(type), print(piece)
  PROVE  LineInv'
<1>1. /\ pc = "loop" /\ out = <<>> /\ "me" \notin ready /\ SetupDone /\ ChipInv
      /\ text \in Seq(Nat) /\ last = Nothing /\ sink \in {"line", "buf"}
  BY DEF Takes, More, LineInv, CallInv, CallTypeOK
<1>2. /\ UNCHANGED <<lcr, ier, divisor, holding, line, step, ready, strays>>
      /\ UNCHANGED <<sink, last>> /\ text' = text \o piece
  BY DEF print, serialVars
<1>3. ChipInv' /\ SetupDone'
  BY <1>1, <1>2 DEF ChipInv, SetupDone, SetupWrites
<1>4. CASE sink = "buf"
  <2>1. pc' = "loop" /\ UNCHANGED out
    BY <1>4 DEF print, str_out
  <2> QED
    BY <1>1, <1>2, <1>3, <1>4, <2>1 DEF LineInv
<1>5. CASE sink = "line"
  <2>1. pc' = "line" /\ out' = piece
    BY <1>5 DEF print, serial_out
  <2> DEFINE mine == Mine(Append(line, holding))
  <2>2. mine \in Seq(Nat)
    BY LineIsOfChars
  <2>3. Carried = mine /\ Carried' = mine \o piece
    <3>1. Carried = mine \o <<>>
      BY <1>1 DEF Carried
    <3>2. Carried' = mine \o piece
      BY <1>2, <2>1 DEF Carried
    <3> HIDE DEF mine
    <3> QED
      BY <2>2, <3>1, <3>2, ConcatEmptySeq
  <2>4. PICK f : Embeds(f, mine, text)
    BY <1>5, <2>3 DEF LineInv, TextIsCarried
  <2>5. Len(mine) + strays >= Len(text) /\ strays \in Nat
    BY <1>5, <2>3 DEF LineInv, TextIsCarried, ChipInv
  <2> HIDE DEF mine
  <2>6. \E g : Embeds(g, mine \o piece, text \o piece)
    BY <1>1, <2>2, <2>4, EmbedsMore
  <2>7. Len(mine \o piece) + strays >= Len(text \o piece)
    <3>1. /\ Len(mine \o piece) = Len(mine) + Len(piece)
          /\ Len(text \o piece) = Len(text) + Len(piece)
          /\ Len(mine) \in Nat /\ Len(text) \in Nat /\ Len(piece) \in Nat
      BY <1>1, <2>2, ConcatProperties
    <3> QED
      BY <2>5, <3>1
  <2>8. TextIsCarried'
    BY <1>2, <2>3, <2>6, <2>7 DEF TextIsCarried
  <2> QED
    BY <1>1, <1>2, <1>3, <1>5, <2>1, <2>8 DEF LineInv
<1> QED
  BY <1>1, <1>4, <1>5

\* The chip is set up, or sends what waits.
LEMMA ChipCarries ==
  ASSUME LineInv, SerialSetup \/ Transmit, UNCHANGED printVars
  PROVE  LineInv'
<1>1. ChipInv /\ UNCHANGED <<pc, sink, out, text, last>>
  BY DEF LineInv, printVars
<1>2. CASE SerialSetup
  <2>1. ChipInv' /\ UNCHANGED <<holding, line, ready, strays>>
    BY <1>1, <1>2, SetupKeeps
  <2>2. pc = "boot"
    BY <1>2 DEF SerialSetup, LineInv
  <2>3. sink = "line" => TextIsCarried'
    BY <1>1, <2>1, CarriedStays
  <2> QED
    BY <1>1, <2>1, <2>2, <2>3 DEF LineInv
<1>3. CASE Transmit
  <2>1. /\ holding # NONE /\ line' = Append(line, holding) /\ holding' = NONE
        /\ UNCHANGED <<lcr, ier, divisor, step, ready, strays>>
    BY <1>3 DEF Transmit
  <2>2. SetupDone /\ strays \in Nat
    BY <2>1 DEF LineInv, ChipInv
  <2>3. line' \in Seq(Nat \cup {STRAY})
    <3>1. line \in Seq(Nat \cup {STRAY}) /\ holding \in Nat \cup {STRAY}
      BY <2>1 DEF LineInv, ChipInv
    <3> QED
      BY <2>1, <3>1, AppendProperties
  <2>4. ChipInv' /\ SetupDone'
    BY <1>1, <2>1, <2>2, <2>3, ChipKeeps
  <2> DEFINE l == Append(line, holding)
  <2>5. Mine(Append(l, NONE)) = Mine(l)
    <3>1. l \in Seq(Chars)
      BY LineIsOfChars, AppendProperties
    <3> HIDE DEF l
    <3> QED
      BY <3>1, MineAppends DEF Chars
  <2>6. Carried' = Carried
    <3>1. Carried = Mine(l) \o out
      BY DEF Carried
    <3>2. Carried' = Mine(Append(l, NONE)) \o out
      BY <1>1, <2>1 DEF Carried
    <3> HIDE DEF l
    <3> QED
      BY <2>5, <3>1, <3>2
  <2>7. sink = "line" => TextIsCarried'
    BY <1>1, <2>1, <2>6 DEF LineInv, TextIsCarried
  <2>8. holding' \notin Nat
    BY <2>1, SerialAssumption
  <2> HIDE DEF l
  <2> QED
    BY <1>1, <2>1, <2>4, <2>7, <2>8 DEF LineInv
<1> QED
  BY <1>2, <1>3

\* The next byte is written: from what is still to write it goes to the chip.
LEMMA PutCarries ==
  ASSUME LineInv, PutChar
  PROVE  LineInv'
<1>1. /\ pc = "line" /\ out # <<>> /\ serial_putchar(Head(out)) /\ out' = Tail(out)
      /\ UNCHANGED <<pc, sink, text, last>>
  BY DEF PutChar
<1>2. /\ "me" \in ready /\ ready' = ready \ {"me"} /\ UNCHANGED <<line, step, strays>>
      /\ Out(REG_DATA, Head(out))
  BY <1>1 DEF serial_putchar
<1>3. ChipInv /\ SetupDone /\ holding \notin Nat /\ out \in Seq(Nat)
      /\ line \in Seq(Nat \cup {STRAY}) /\ strays \in Nat
  BY <1>1, <1>2 DEF LineInv, ChipInv
<1>4. Head(out) \in Nat /\ Tail(out) \in Seq(Nat) /\ out = <<Head(out)>> \o Tail(out)
  BY <1>1, <1>3, HeadTailProperties
<1>5. holding' = Head(out) /\ UNCHANGED <<lcr, ier, divisor>>
  BY <1>2, <1>3, DataWaits
<1>6. ChipInv' /\ SetupDone'
  BY <1>2, <1>3, <1>4, <1>5, ChipKeeps
<1> DEFINE mine == Mine(line)
           h == Head(out)
           t == Tail(out)
<1>7. mine \in Seq(Nat) /\ Carried = mine \o out
  BY <1>3, LineIsOfChars DEF Carried
<1>8. Mine(Append(line, h)) = Append(mine, h)
  <2>1. line \in Seq(Chars) /\ h \in Chars /\ h \in Nat
    BY <1>4, LineIsOfChars DEF Chars
  <2> HIDE DEF h, mine
  <2> QED
    BY <2>1, MineAppends DEF mine
<1>9. Carried' = Append(mine, h) \o t
  BY <1>1, <1>2, <1>5, <1>8 DEF Carried
<1>10. Carried' = Carried
  <2>1. out = <<h>> \o t /\ h \in Nat /\ t \in Seq(Nat)
    BY <1>4
  <2> HIDE DEF mine, h, t
  <2>2. Append(mine, h) = mine \o <<h>>
    BY <1>7, <2>1, AppendIsConcat
  <2>3. <<h>> \in Seq(Nat)
    BY <2>1
  <2>4. (mine \o <<h>>) \o t = mine \o (<<h>> \o t)
    BY <1>7, <2>1, <2>3, ConcatAssociative
  <2> QED
    BY <1>7, <1>9, <2>1, <2>2, <2>4
<1>11. sink = "line" => TextIsCarried'
  BY <1>1, <1>2, <1>10 DEF LineInv, TextIsCarried
<1> HIDE DEF mine, h, t
<1> QED
  BY <1>1, <1>2, <1>4, <1>6, <1>11 DEF LineInv

\* A byte of others is written, over the one that waits if one does.
LEMMA StrayCarries ==
  ASSUME LineInv, StrayByte, sink = "line", pc \in {"loop", "line"},
         text \in Seq(Nat), UNCHANGED printVars
  PROVE  LineInv'
<1>1. /\ Out(REG_DATA, STRAY) /\ ready' = ready \ {"others"} /\ strays' = strays + 1
      /\ UNCHANGED <<line, step, pc, sink, out, text, last>>
  BY DEF StrayByte, printVars
<1>2. ChipInv /\ SetupDone /\ line \in Seq(Nat \cup {STRAY}) /\ strays \in Nat
  BY DEF LineInv, ChipInv
<1>3. holding' = STRAY /\ UNCHANGED <<lcr, ier, divisor>>
  BY <1>1, <1>2, DataWaits
<1>4. ChipInv' /\ SetupDone'
  BY <1>1, <1>2, <1>3, ChipKeeps
<1> DEFINE mine == Mine(line)
<1>5. mine \in Seq(Nat) /\ out \in Seq(Nat)
  BY LineIsOfChars
<1>6. Carried' = mine \o out
  <2>1. Mine(Append(line, STRAY)) = mine
    <3>1. line \in Seq(Chars) /\ STRAY \in Chars
      BY LineIsOfChars DEF Chars
    <3> QED
      BY <3>1, MineAppends
  <2> HIDE DEF mine
  <2> QED
    BY <1>1, <1>3, <2>1 DEF Carried
<1>7. (\E f : Embeds(f, Carried, text)) /\ Len(Carried) + strays >= Len(text)
  BY DEF LineInv, TextIsCarried
<1>8. Len(text) \in Nat
  OBVIOUS
<1>9. ASSUME holding \in Nat PROVE TextIsCarried'
  <2>1. Carried = Append(mine, holding) \o out
    BY <1>9, LineIsOfChars DEF Carried
  <2> HIDE DEF mine
  <2>2. PICK f : Embeds(f, Append(mine, holding) \o out, text)
    BY <1>7, <2>1
  <2>3. /\ \E g : Embeds(g, mine \o out, text)
        /\ Len(Append(mine, holding) \o out) = Len(mine \o out) + 1
    BY <1>5, <1>9, <2>2, EmbedsLess
  <2>4. Len(mine \o out) \in Nat
    BY <1>5, ConcatProperties
  <2>5. Len(mine \o out) + strays' >= Len(text)
    BY <1>1, <1>2, <1>7, <1>8, <2>1, <2>3, <2>4
  <2> QED
    BY <1>1, <1>6, <2>3, <2>5 DEF TextIsCarried
<1>10. ASSUME holding \notin Nat PROVE TextIsCarried'
  <2>1. Carried = mine \o out
    BY <1>10, LineIsOfChars DEF Carried
  <2> HIDE DEF mine
  <2>2. Len(mine \o out) \in Nat
    BY <1>5, ConcatProperties
  <2>3. Len(mine \o out) + strays' >= Len(text)
    BY <1>1, <1>2, <1>7, <1>8, <2>1, <2>2
  <2> QED
    BY <1>1, <1>6, <1>7, <2>1, <2>3 DEF TextIsCarried
<1>11. TextIsCarried'
  BY <1>9, <1>10
<1>12. holding' \notin Nat
  BY <1>3, SerialAssumption
<1> HIDE DEF mine
<1> QED
  BY <1>1, <1>4, <1>11, <1>12 DEF LineInv

\* The steps that print nothing and send nothing.
LEMMA QuietCarries ==
  ASSUME CallInv, LineInv, PrintInvalid \/ AwaitLine \/ SerialWritten
                           \/ LoopDone \/ vsnprintfEnds \/ Booted
  PROVE  LineInv'
<1>1. /\ UNCHANGED <<lcr, ier, divisor, holding, line, step, strays>>
      /\ UNCHANGED <<sink, out, text>>
  BY DEF PrintInvalid, AwaitLine, SeesReady, SerialWritten, LoopDone, vsnprintfEnds,
         Booted, serialVars, printVars
<1>2. SetupDone /\ ChipInv
  BY DEF LineInv, PrintInvalid, Takes, More, AwaitLine, SerialWritten, LoopDone,
         vsnprintfEnds, Booted
<1>3. ChipInv' /\ SetupDone'
  BY <1>1, <1>2 DEF ChipInv, SetupDone, SetupWrites
<1>4. sink = "line" => TextIsCarried'
  BY <1>1, CarriedStays
<1>5. CASE AwaitLine
  <2>1. /\ pc = "line" /\ out # <<>> /\ holding = NONE /\ UNCHANGED <<pc, last>>
    BY <1>5 DEF AwaitLine, SeesReady, Ready, printVars
  <2>2. holding' \notin Nat
    BY <1>1, <2>1, SerialAssumption
  <2> QED
    BY <1>1, <1>3, <1>4, <2>1, <2>2 DEF LineInv
<1>6. CASE ~AwaitLine
  <2>1. UNCHANGED ready
    BY <1>6 DEF PrintInvalid, SerialWritten, LoopDone, vsnprintfEnds, Booted, serialVars
  <2>2. CASE PrintInvalid
    <3>1. UNCHANGED <<pc, last>>
      BY <2>2 DEF PrintInvalid
    <3> QED
      BY <1>1, <1>3, <1>4, <2>1, <3>1 DEF LineInv
  <2>3. CASE SerialWritten
    <3>1. pc = "line" /\ out = <<>> /\ pc' = "loop"
      BY <2>3 DEF SerialWritten
    <3> QED
      BY <1>1, <1>3, <1>4, <2>1, <3>1 DEF LineInv
  <2>4. CASE LoopDone
    <3>1. /\ pc = "loop" /\ sink \in {"line", "buf"}
          /\ pc' = IF sink = "buf" THEN "end" ELSE "idle"
      BY <2>4 DEF LoopDone, CallInv, CallTypeOK
    <3> QED
      BY <1>1, <1>3, <1>4, <2>1, <3>1 DEF LineInv
  <2>5. CASE vsnprintfEnds
    <3>1. pc = "end" /\ pc' = "idle" /\ last' = [fn |-> "vsnprintf", rc |-> rc]
      BY <2>5 DEF vsnprintfEnds
    <3>2. last' # Nothing
      <4>1. last'.fn = "vsnprintf" /\ Nothing.fn = "none"
        BY <3>1 DEF Nothing
      <4> QED
        BY <4>1
    <3>3. Nothing' = Nothing
      BY DEF Nothing
    <3> QED
      BY <1>1, <1>3, <1>4, <2>1, <3>1, <3>2, <3>3 DEF LineInv
  <2>6. CASE Booted
    <3>1. pc = "boot" /\ pc' = "idle" /\ last' = last
      BY <2>6 DEF Booted
    <3>2. Nothing' = Nothing
      BY DEF Nothing
    <3> QED
      BY <1>1, <1>3, <1>4, <2>1, <3>1, <3>2 DEF LineInv
  <2> QED
    BY <1>6, <2>2, <2>3, <2>4, <2>5, <2>6
<1> QED
  BY <1>5, <1>6

\* With nothing printed nothing is missing.
LEMMA NothingIsCarried ==
  /\ Mine(Append(<<>>, NONE)) \o <<>> = <<>>
  /\ \E f : Embeds(f, <<>>, <<>>)
  /\ Len(<<>>) = 0
<1>1. Mine(Append(<<>>, NONE)) = <<>>
  <2>1. <<>> \in Seq(Chars) /\ NONE \in Chars
    BY DEF Chars
  <2>2. Mine(Append(<<>>, NONE)) = Mine(<<>>)
    BY <2>1, MineAppends
  <2> QED
    BY <2>2, NothingIsMine
<1>2. <<>> \o <<>> = <<>>
  <2>1. <<>> \in Seq(Nat)
    OBVIOUS
  <2> QED
    BY <2>1, ConcatEmptySeq
<1>3. Embeds([i \in 1 .. 0 |-> 0], <<>>, <<>>)
  BY DEF Embeds
<1> QED
  BY <1>1, <1>2, <1>3

LEMMA TakeCarries ==
  ASSUME LineInv, TakeResult
  PROVE  LineInv'
<1>1. /\ pc = "idle" /\ holding = NONE /\ sink' = "line" /\ text' = <<>>
      /\ line' = <<>> /\ strays' = 0 /\ last' = Nothing
      /\ UNCHANGED <<lcr, ier, divisor, holding, step, ready, pc, out>>
  BY DEF TakeResult
<1>2. ChipInv /\ SetupDone /\ out = <<>> /\ "me" \notin ready
  BY <1>1 DEF LineInv
<1>3. ChipInv' /\ SetupDone'
  <2>1. <<>> \in Seq(Nat \cup {STRAY})
    OBVIOUS
  <2> QED
    BY <1>1, <1>2, <2>1, ChipKeeps
<1>4. TextIsCarried'
  <2>1. Carried' = Mine(Append(<<>>, NONE)) \o <<>>
    BY <1>1, <1>2 DEF Carried
  <2> QED
    BY <1>1, <2>1, NothingIsCarried DEF TextIsCarried
<1> QED
  BY <1>1, <1>2, <1>3, <1>4 DEF LineInv

\* A call begins, or a conversion returns.
LEMMA CallCarries ==
  ASSUME LineInv, Idle, NEW where, NEW f, NEW n, NEW result,
         Call(where, f, n) \/ Returns(result)
  PROVE  LineInv'
<1>1. /\ pc = "idle" /\ last = Nothing /\ sink = "line"
      /\ UNCHANGED <<lcr, ier, divisor, holding, line, step, ready, strays>>
      /\ UNCHANGED <<out, text>>
  BY DEF Idle, LineInv, Call, Returns, serialVars
<1>2. ChipInv /\ SetupDone /\ out = <<>> /\ "me" \notin ready
  BY <1>1 DEF LineInv
<1>3. ChipInv' /\ SetupDone'
  BY <1>1, <1>2 DEF ChipInv, SetupDone, SetupWrites
<1>4. TextIsCarried'
  BY <1>1, CarriedStays
<1>5. pc' = "loop" \/ (pc' = "idle" /\ sink' = "line")
  BY <1>1 DEF Call, Returns
<1> QED
  BY <1>1, <1>2, <1>3, <1>4, <1>5 DEF LineInv

-----------------------------------------------------------------------------
(* The text is carried                                                     *)

LEMMA LineInvariance == Spec => []LineInv
<1>1. ASSUME Init PROVE LineInv
  <2>1. /\ lcr \in {0, LCR_DLAB} /\ ier \in {0, 1} /\ divisor = <<1, 1>>
        /\ holding = NONE /\ line = <<>> /\ step = 1 /\ ready = {} /\ strays = 0
        /\ pc = "boot" /\ sink = "line" /\ out = <<>> /\ text = <<>>
    BY <1>1 DEF Init, SerialInit
  <2>2. ChipInv
    <3>1. line \in Seq(Nat \cup {STRAY}) /\ strays \in Nat
      BY <2>1
    <3> QED
      BY <2>1, <3>1 DEF ChipInv
  <2>3. TextIsCarried
    <3>1. Carried = Mine(Append(<<>>, NONE)) \o <<>>
      BY <2>1 DEF Carried
    <3> QED
      BY <2>1, <3>1, NothingIsCarried DEF TextIsCarried
  <2> QED
    BY <2>1, <2>2, <2>3 DEF LineInv
<1>2. ASSUME CallInv, LineInv, [Next]_vars
      PROVE  LineInv'
  <2>1. CASE (SerialSetup \/ Transmit) /\ UNCHANGED printVars
    BY <1>2, <2>1, ChipCarries
  <2>2. CASE PrintNone \/ PrintStr \/ PrintChar \/ PrintPercent \/ PrintInt
    <3>1. PICK piece, type :
            piece \in Seq(Nat) /\ type # "invalid" /\ Takes(type) /\ print(piece)
      BY <1>2, <2>2, PiecesAre
    <3> QED
      BY <1>2, <3>1, PrintCarries
  <2>3. CASE \/ PrintInvalid \/ AwaitLine \/ SerialWritten
             \/ LoopDone \/ vsnprintfEnds \/ Booted
    BY <1>2, <2>3, QuietCarries
  <2>4. CASE PutChar
    BY <1>2, <2>4, PutCarries
  <2>5. CASE TakeResult
    BY <1>2, <2>5, TakeCarries
  <2>6. CASE OthersPrint
    <3>1. sink = "line" /\ pc \in {"loop", "line"} /\ UNCHANGED printVars
      BY <2>6 DEF OthersPrint
    <3>2. CASE StrayByte
      <4>1. text \in Seq(Nat)
        BY <1>2 DEF CallInv, CallTypeOK
      <4> QED
        BY <1>2, <3>1, <3>2, <4>1, StrayCarries
    <3>3. CASE SeesReady("others")
      <4>1. /\ UNCHANGED <<lcr, ier, divisor, holding, line, step, strays>>
            /\ UNCHANGED <<pc, sink, out, text, last>>
            /\ ready' = ready \cup {"others"} /\ SetupDone
        BY <3>1, <3>3 DEF SeesReady, printVars
      <4>2. TextIsCarried'
        BY <1>2, <3>1, <4>1, CarriedStays
      <4>3. ChipInv' /\ SetupDone'
        BY <1>2, <4>1 DEF LineInv, ChipInv, SetupDone, SetupWrites
      <4> QED
        BY <1>2, <3>1, <4>1, <4>2, <4>3 DEF LineInv
    <3> QED
      BY <2>6, <3>2, <3>3 DEF OthersPrint
  <2>7. CASE Idle /\ \/ \E f \in LineFormats : vprintf(f)
                     \/ \E f \in Formats, n \in Sizes : vsnprintf(f, n)
    <3>1. PICK where, f, n : Call(where, f, n)
      BY <2>7 DEF vprintf, vsnprintf
    <3> QED
      BY <1>2, <2>7, <3>1, CallCarries
  <2>8. CASE Idle /\ \/ \E str \in Scanned, base \in {0, 8, 10, 16} : CallStrtoul(str, base)
                     \/ \E v \in Long, base \in {8, 10, 16} : CallLltoa(v, base)
    <3>1. PICK result : Returns(result)
      BY <2>8 DEF CallStrtoul, CallLltoa
    <3> QED
      BY <1>2, <2>8, <3>1, CallCarries
  <2>9. CASE UNCHANGED vars
    <3>1. /\ UNCHANGED <<lcr, ier, divisor, holding, line, step, ready, strays>>
          /\ UNCHANGED <<pc, sink, out, text, last>>
      BY <2>9 DEF vars, serialVars, printVars
    <3>2. sink = "line" => TextIsCarried'
      BY <1>2, <3>1, CarriedStays
    <3>3. ChipInv' /\ (SetupDone <=> SetupDone')
      BY <1>2, <3>1 DEF LineInv, ChipInv, SetupDone, SetupWrites
    <3> QED
      BY <1>2, <3>1, <3>2, <3>3 DEF LineInv
  <2> QED
    BY <1>2, <2>1, <2>2, <2>3, <2>4, <2>5, <2>6, <2>7, <2>8, <2>9 DEF Next
<1> QED
  BY <1>1, <1>2, CallInvariance, PTL DEF Spec

\* Whatever is printed, whoever else prints: the serial line carries the text
\* in order and no byte of it twice, and of its bytes no more are missing than
\* others have written.
THEOREM LineKeepsText == Spec => []LineCarriesText
<1>1. ASSUME CallInv, LineInv PROVE LineCarriesText
  <2>1. SetupDone => lcr = LCR_8BIT /\ ier = 0 /\ divisor = <<12, 0>>
    BY <1>1, SetupIs DEF LineInv, ChipInv
  <2>2. ASSUME sink = "line"
        PROVE  IsIn(Carried, text) /\ Len(Carried) + strays >= Len(text)
    <3>1. PICK f : Embeds(f, Carried, text)
      BY <1>1, <2>2 DEF LineInv, TextIsCarried
    <3>2. Carried \in Seq(Nat)
      BY <1>1, LineIsOfChars, ConcatProperties DEF Carried
    <3>3. text \in Seq(Nat)
      BY <1>1 DEF CallInv, CallTypeOK
    <3>4. IsIn(Carried, text)
      BY <3>1, <3>2, <3>3, EmbedsIsIn
    <3> QED
      BY <1>1, <2>2, <3>4 DEF LineInv, TextIsCarried
  <2> QED
    BY <2>1, <2>2 DEF LineCarriesText
<1> QED
  BY <1>1, CallInvariance, LineInvariance, PTL

=============================================================================
