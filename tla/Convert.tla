------------------------------- MODULE Convert -------------------------------
(***************************************************************************)
(* stdlib.c and the classes of ctype.c: the conversions between numbers    *)
(* and text.  A character is its ASCII code, a string the sequence of its  *)
(* characters without the NUL that ends it.                                *)
(*                                                                         *)
(* The arithmetic keeps the width the code gives it: an unsigned long has  *)
(* LongBits bits, and what leaves its range comes back modulo 2^LongBits.  *)
(***************************************************************************)
EXTENDS Shift, Sequences

CONSTANTS LongBits    \* the bits of a long and of a long long

\* An unsigned long holds any digit.
ASSUME LongAssumption == LongBits \in Nat /\ LongBits >= 4

ULONG_MAX == Shl[LongBits] - 1
Unsigned(v) == v % Shl[LongBits]
Long == -Shl[LongBits - 1] .. Shl[LongBits - 1] - 1

String(chars, n) == UNION {[1 .. k -> chars] : k \in 0 .. n}

NUL == 0
At(str, i) == IF i =< Len(str) THEN str[i] ELSE NUL

\* The classes of the table ctype[], and the two maps between cases.
isspace(c) == c \in 9 .. 13 \cup {32}
isdigit(c) == c \in 48 .. 57
islower(c) == c \in 97 .. 122
isupper(c) == c \in 65 .. 90
toupper(c) == IF islower(c) THEN c - 32 ELSE c
tolower(c) == IF isupper(c) THEN c + 32 ELSE c

-----------------------------------------------------------------------------
(* ulltoa and lltoa                                                        *)

\* Mutant of DigitChar: the letters start too late.
DigitCharLate(r) == IF r < 10 THEN 48 + r ELSE 97 + r

\* The string "0123456789abcdefghijklmnopqrstuvwxyz" at r.
DigitChar(r) == IF r < 10 THEN 48 + r ELSE 87 + r

\* The loop divides until nothing is left, one digit a turn, the last digit
\* first; then the string is turned round.
Numerals(base) ==
  LET numeral[v \in Nat] ==
        IF v < base THEN <<DigitChar(v)>>
        ELSE Append(numeral[v \div base], DigitChar(v % base))
  IN  numeral

ulltoa(value, base) == Numerals(base)[value]

\* The least value is its own negative, and ulltoa takes it as unsigned.
lltoa(value, base) ==
  IF value < 0 THEN <<45>> \o ulltoa(Unsigned(-value), base)
               ELSE ulltoa(value, base)

-----------------------------------------------------------------------------
(* strtoul                                                                 *)

\* The first position from i on whose character is not in the class.
Skip(str, i, Class(_)) ==
  CHOOSE j \in i .. Len(str) + 1 :
    /\ ~Class(At(str, j))
    /\ \A k \in i .. j - 1 : Class(At(str, k))

IsSign(c) == c \in {43, 45}

AfterSign(str, i) == IF IsSign(At(str, i)) THEN i + 1 ELSE i

\* The base that is used, and where the digits start, for digits looked for
\* from i on.  Without a base the prefix tells it; with base 16 the prefix is
\* skipped only when its x is small: tolower is applied to the comparison.
Prefix(str, i, base) ==
  LET zero == At(str, i) = 48
      next == At(str, i + 1)
  IN  CASE base = 0 /\ zero /\ tolower(next) = 120 -> [base |-> 16, at |-> i + 2]
        [] base = 0 /\ zero /\ tolower(next) # 120 -> [base |-> 8,  at |-> i + 1]
        [] base = 0 /\ ~zero                       -> [base |-> 10, at |-> i]
        [] base = 8 /\ zero                        -> [base |-> 8,  at |-> i + 1]
        [] base = 16 /\ zero /\ next = 120         -> [base |-> 16, at |-> i + 2]
        [] OTHER                                   -> [base |-> base, at |-> i]

\* What the loop takes a character for: it never asks whether it is a digit.
Digit(c) ==
  LET u == toupper(c) IN IF isdigit(u) THEN u - 48 ELSE u - 65 + 10

\* Mutant of Overflows: the digit is left out of the test.
OverflowsLate(ret, digit, base) == ret > ULONG_MAX \div base

Overflows(ret, digit, base) == ret > Unsigned(ULONG_MAX - digit) \div base

\* One turn of the loop; s.ret is what was read of the digits, s.at how many
\* characters were taken, s.stop whether the loop was left.
Turn(s, c, base) ==
  IF s.stop THEN s
  ELSE IF Overflows(s.ret, Digit(c), base)
  THEN [ret |-> ULONG_MAX, at |-> s.at, stop |-> TRUE]
  ELSE [ret |-> Unsigned(s.ret * base + Digit(c)), at |-> s.at + 1, stop |-> FALSE]

\* What the loop has done after its first k turns, for each k.
Turns(str, at, base) ==
  LET after[k \in 0 .. Len(str) + 1 - at] ==
        IF k = 0 THEN [ret |-> 0, at |-> 0, stop |-> FALSE]
        ELSE Turn(after[k - 1], str[at + k - 1], base)
  IN  after

\* What strtoul returns, and endptr as the number of characters it has taken.
strtoul(str, base) ==
  LET first  == Skip(str, 1, isspace)
      prefix == Prefix(str, AfterSign(str, first), base)
      loop   == Turns(str, prefix.at, prefix.base)[Len(str) + 1 - prefix.at]
  IN  [value |-> IF At(str, first) = 45 THEN Unsigned(-loop.ret) ELSE loop.ret,
       taken |-> IF loop.at = 0 THEN 0 ELSE prefix.at - 1 + loop.at]

-----------------------------------------------------------------------------
(* What a caller expects of strtoul                                        *)

\* A numeral from i on: every character a digit of the base.
IsNumeral(str, i, base) ==
  i =< Len(str) /\ \A k \in i .. Len(str) :
    \/ isdigit(str[k]) /\ str[k] - 48 < base
    \/ toupper(str[k]) \in 65 .. 55 + base - 1

\* The values of its first characters: of none, of one, and so on.
Values(str, i, base) ==
  LET value[k \in 0 .. Len(str) + 1 - i] ==
        IF k = 0 THEN 0 ELSE value[k - 1] * base + Digit(str[i + k - 1])
  IN  value

\* Where the numeral of a string starts: after blanks and at most one sign.
Lead(str) == {i \in 1 .. Len(str) + 1 : \E j \in 1 .. i :
  /\ \A k \in 1 .. j - 1 : isspace(str[k])
  /\ i # j => i = j + 1 /\ IsSign(str[j])}

\* A result r of strtoul on a numeral with blanks and a sign before it: the
\* value, negated when the sign says so, or ULONG_MAX when it is larger, in
\* which case endptr is at the digit that was too much.  The 0 that base 8
\* skips is lost to endptr when it is all there is.
ReadsNumeral(str, base, r) ==
  \A i \in Lead(str) :
    LET value == Values(str, i, base)
        all   == value[Len(str) + 1 - i]
        cut   == IF all > ULONG_MAX THEN ULONG_MAX ELSE all
        minus == i > 1 /\ str[i - 1] = 45
    IN  IsNumeral(str, i, base) =>
          /\ r.value = IF minus THEN Unsigned(-cut) ELSE cut
          /\ all =< ULONG_MAX /\ ~(base = 8 /\ i = Len(str) /\ str[i] = 48)
               => r.taken = Len(str)
          /\ all > ULONG_MAX
               => value[r.taken + 1 - i] =< ULONG_MAX

=============================================================================
