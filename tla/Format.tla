-------------------------------- MODULE Format --------------------------------
(***************************************************************************)
(* print.c: printf on the serial line and snprintf into a buffer, and      *)
(* beside them the conversions of Convert, one call at a time.             *)
(*                                                                         *)
(* __vprintf's loop is one step a turn: decode_format and what is printed  *)
(* for the type it found.  The bytes for the serial line go out one by     *)
(* one while the chip sends them and others print as well.  An argument is *)
(* chosen when va_arg reads it.                                            *)
(***************************************************************************)
EXTENDS Serial, Convert

CONSTANTS
  Formats, Sizes,       \* the formats and the sizes passed to vsnprintf
  LineFormats,          \* the formats passed to vprintf
  IntBits,              \* the bits of an int
  StrArgs, CharArgs,    \* the arguments of %s and %c
  Scanned,              \* the strings passed to strtoul
  MaxStrays,            \* bound: the bytes others print during one call
  MaxSize               \* bound: how much memory is looked at

\* Strings are of characters other than the NUL that ends them.
ASSUME FormatAssumption ==
  /\ \A str \in Formats \cup LineFormats \cup StrArgs \cup Scanned :
       str \in Seq(Nat \ {NUL})
  /\ CharArgs \subseteq Nat
  /\ MaxSize \in Nat /\ Sizes \subseteq 0 .. MaxSize
  /\ IntBits \in 1 .. LongBits

VARIABLES
  pc,        \* "boot", "idle", "loop" at the test of __vprintf's loop,
             \* "line" in serial_write, "end" at vsnprintf's last line
  sink,      \* where the call prints: "line" or "buf"
  fmt, at,   \* the format and the position of the pointer into it
  written, rc,
  size, buf, \* vsnprintf's size, and the memory the buffer is the start of
  out,       \* what serial_write has still to write
  text,      \* everything handed to ctx.out in this call
  last       \* the last call that has returned, and its result

printVars == <<pc, sink, fmt, at, written, rc, size, buf, out, text, last>>
vars == <<serialVars, printVars>>

OLD == -1                         \* a byte nobody has written
Memory == -1 .. MaxSize           \* from the byte before the buffer on
Untouched == [i \in Memory |-> OLD]
Nothing == [fn |-> "none"]

Init ==
  /\ SerialInit
  /\ pc = "boot" /\ sink = "line"
  /\ fmt = <<>> /\ at = 1 /\ written = 0 /\ rc = 0
  /\ size = 0 /\ buf = Untouched
  /\ out = <<>> /\ text = <<>> /\ last = Nothing

-----------------------------------------------------------------------------
(* decode_format                                                           *)

IsFlag(c) == c \in {32, 35, 43, 45, 48}
IsPlain(c) == c \notin {37, NUL}

\* Past the flag, the width and the precision of the % at i.
AfterWidth(f, i) ==
  LET width == Skip(f, IF IsFlag(At(f, i + 1)) THEN i + 2 ELSE i + 1, isdigit)
  IN  IF At(f, width) = 46 THEN Skip(f, width + 1, isdigit) ELSE width

\* The length modifier at i: its specification, and how long it is.
Length(f, i) ==
  LET c == At(f, i)
      twice == At(f, i + 1) = c
  IN  CASE c = 108 /\ twice  -> [spec |-> "llong", n |-> 2]
        [] c = 108 /\ ~twice -> [spec |-> "long", n |-> 1]
        [] c = 104 /\ twice  -> [spec |-> "sshort", n |-> 2]
        [] c = 104 /\ ~twice -> [spec |-> "short", n |-> 1]
        [] OTHER             -> [spec |-> "int", n |-> 0]

\* What a conversion character asks for.
Conversion(c, spec) ==
  CASE c \in {100, 105}      -> [type |-> "int", spec |-> spec, base |-> 10, signed |-> TRUE]
    [] c = 117               -> [type |-> "int", spec |-> spec, base |-> 10, signed |-> FALSE]
    [] c = 111               -> [type |-> "int", spec |-> spec, base |-> 8, signed |-> FALSE]
    [] c \in {88, 120}       -> [type |-> "int", spec |-> spec, base |-> 16, signed |-> FALSE]
    [] c = 112               -> [type |-> "int", spec |-> "long", base |-> 16, signed |-> FALSE]
    [] c = 115               -> [type |-> "str"]
    [] c = 99                -> [type |-> "char"]
    [] c = 37                -> [type |-> "percent"]
    [] OTHER                 -> [type |-> "invalid"]

\* The directive at i and where the pointer stands after it.  The character
\* after the modifiers is taken whatever it is, the final NUL too.
Directive(f, i) ==
  LET width  == AfterWidth(f, i)
      length == Length(f, width)
      conv   == width + length.n
  IN  [what |-> Conversion(At(f, conv), length.spec), next |-> conv + 1]

decode_format(f, i) ==
  IF IsPlain(At(f, i)) THEN [what |-> [type |-> "none"], next |-> Skip(f, i, IsPlain)]
                       ELSE Directive(f, i)

-----------------------------------------------------------------------------
(* print and the two functions it calls                                    *)

\* Mutant of Remain: the rest of the piece is not cut to the buffer.
RemainAll(n) == n

\* How much of a piece of n bytes str_out copies.
Remain(n) ==
  IF written > size THEN 0
  ELSE IF n < size - written THEN n ELSE size - written

str_out(piece) ==
  /\ buf' = [i \in Memory |->
               IF i \in written .. written + Remain(Len(piece)) - 1
               THEN piece[i - written + 1] ELSE buf[i]]
  /\ pc' = "loop"
  /\ UNCHANGED out

\* serial_write's loop starts.
serial_out(piece) ==
  /\ out' = piece
  /\ pc' = "line"
  /\ UNCHANGED buf

\* Mutant of Counted: what did not fit is not counted.
CountedCut(n) == IF sink = "buf" THEN Remain(n) ELSE n

\* What print adds to ctx.written.
Counted(n) == n

print(piece) ==
  /\ IF sink = "buf" THEN str_out(piece) ELSE serial_out(piece)
  /\ written' = written + Counted(Len(piece))
  /\ text' = text \o piece
  /\ rc' = 0
  /\ UNCHANGED <<serialVars, sink, fmt, size, last>>

-----------------------------------------------------------------------------
(* __vprintf                                                               *)

\* The test of the loop: the format is read only while nothing went wrong.
More == pc = "loop" /\ rc >= 0 /\ At(fmt, at) # NUL

Takes(type) == LET d == decode_format(fmt, at) IN
  /\ More
  /\ d.what.type = type
  /\ at' = d.next

PrintNone == Takes("none") /\ print(SubSeq(fmt, at, at' - 1))

PrintStr == Takes("str") /\ \E str \in StrArgs : print(str)

PrintChar == Takes("char") /\ \E c \in CharArgs : print(<<c>>)

PrintPercent == Takes("percent") /\ print(<<37>>)

\* The least, the greatest and the values around 0 of a type of this width.
Edge(bits, signed) ==
  IF signed THEN {-Shl[bits - 1], -1, 0, Shl[bits - 1] - 1}
            ELSE {0, 1, Shl[bits] - 1}

\* print_number: a short argument is read as an int and printed as one.
PrintInt == LET what == decode_format(fmt, at).what IN
  /\ Takes("int")
  /\ \E v \in Edge(IF what.spec \in {"long", "llong"} THEN LongBits ELSE IntBits,
                   what.signed) :
       print(IF what.signed THEN lltoa(v, what.base) ELSE ulltoa(v, what.base))

\* Mutant of Rejected: an unknown directive prints nothing and the loop goes on.
RejectedNot == 0

\* What rc becomes at an unknown directive.
Rejected == -1

PrintInvalid ==
  /\ Takes("invalid")
  /\ rc' = Rejected
  /\ UNCHANGED <<serialVars, pc, sink, fmt, written, size, buf, out, text, last>>

\* One turn of serial_write's loop.
AwaitLine ==
  /\ pc = "line" /\ out # <<>>
  /\ SeesReady("me")
  /\ UNCHANGED printVars

PutChar ==
  /\ pc = "line" /\ out # <<>>
  /\ serial_putchar(Head(out))
  /\ out' = Tail(out)
  /\ UNCHANGED <<pc, sink, fmt, at, written, rc, size, buf, text, last>>

\* Others print while this call is at work.
OthersPrint ==
  /\ sink = "line" /\ pc \in {"loop", "line"}
  /\ \/ strays < MaxStrays /\ SeesReady("others")
     \/ StrayByte
  /\ UNCHANGED printVars

SerialWritten ==
  /\ pc = "line" /\ out = <<>>
  /\ pc' = "loop"
  /\ UNCHANGED <<serialVars, sink, fmt, at, written, rc, size, buf, out, text, last>>

\* The loop is left: vprintf returns, vsnprintf ends the string first.
LoopDone ==
  /\ pc = "loop" /\ ~More
  /\ pc' = IF sink = "buf" THEN "end" ELSE "idle"
  /\ last' = IF sink = "buf" THEN Nothing
             ELSE [fn |-> "vprintf", rc |-> IF rc < 0 THEN rc ELSE written]
  /\ rc' = IF rc < 0 THEN rc ELSE written
  /\ UNCHANGED <<serialVars, sink, fmt, at, written, size, buf, out, text>>

\* Where vsnprintf writes the NUL.
Terminator == IF rc < size THEN rc - 1 ELSE size - 1

vsnprintfEnds ==
  /\ pc = "end"
  /\ buf' = IF rc >= 0 THEN [buf EXCEPT ![Terminator] = NUL] ELSE buf
  /\ last' = [fn |-> "vsnprintf", rc |-> rc]
  /\ pc' = "idle"
  /\ UNCHANGED <<serialVars, sink, fmt, at, written, rc, size, out, text>>

-----------------------------------------------------------------------------
(* The calls.  The result of one is taken before the next begins, and the  *)
(* memory and the histories text and line start anew.                      *)

Booted ==
  /\ pc = "boot" /\ SetupDone
  /\ pc' = "idle"
  /\ UNCHANGED <<serialVars, sink, fmt, at, written, rc, size, buf, out, text, last>>

TakeResult ==
  /\ pc = "idle" /\ last # Nothing /\ holding = NONE
  /\ last' = Nothing
  /\ sink' = "line" /\ fmt' = <<>> /\ at' = 1
  /\ written' = 0 /\ rc' = 0
  /\ size' = 0 /\ buf' = Untouched
  /\ text' = <<>> /\ line' = <<>> /\ strays' = 0
  /\ UNCHANGED <<lcr, ier, divisor, holding, step, ready, pc, out>>

Idle == pc = "idle" /\ last = Nothing

Call(where, f, n) ==
  /\ pc' = "loop"
  /\ sink' = where /\ fmt' = f /\ size' = n
  /\ UNCHANGED <<serialVars, at, written, rc, buf, out, text, last>>

vprintf(f) == Call("line", f, 0)
vsnprintf(f, n) == Call("buf", f, n)

\* A conversion changes nothing but what its caller gets.
Returns(result) ==
  /\ last' = result
  /\ UNCHANGED <<serialVars, pc, sink, fmt, at, written, rc, size, buf, out, text>>

CallStrtoul(str, base) ==
  Returns([fn |-> "strtoul", str |-> str, base |-> base,
           result |-> strtoul(str, base)])

CallLltoa(v, base) ==
  Returns([fn |-> "lltoa", value |-> v, base |-> base, str |-> lltoa(v, base)])

Next ==
  \/ SerialSetup /\ UNCHANGED printVars
  \/ Transmit /\ UNCHANGED printVars
  \/ Booted \/ TakeResult
  \/ PrintNone \/ PrintStr \/ PrintChar \/ PrintInt \/ PrintPercent
  \/ PrintInvalid
  \/ AwaitLine \/ PutChar \/ SerialWritten \/ OthersPrint
  \/ LoopDone \/ vsnprintfEnds
  \/ Idle /\ \/ \E f \in LineFormats : vprintf(f)
             \/ \E f \in Formats, n \in Sizes : vsnprintf(f, n)
             \/ \E str \in Scanned, base \in {0, 8, 10, 16} : CallStrtoul(str, base)
             \/ \E v \in Long, base \in {8, 10, 16} : CallLltoa(v, base)

Spec == Init /\ [][Next]_vars

-----------------------------------------------------------------------------
(* Properties                                                              *)

\* vsnprintf's answer: rc is the length of the whole text, however little of
\* it fits, and the buffer holds the text up to a NUL, which takes the place
\* of the last character that was printed or that fits: a text that fits
\* loses its last character.  After an error the string has no end.
TextIsCut ==
  last.fn = "vsnprintf" /\ last.rc > 0 /\ size > 0 =>
    LET n == IF last.rc < size THEN last.rc ELSE size
    IN  /\ last.rc = Len(text)
        /\ \A i \in 0 .. n - 2 : buf[i] = text[i + 1]
        /\ buf[n - 1] = NUL

\* No byte outside the buffer is written, but for the one before it when the
\* text is empty or the size is 0.
WritesInside ==
  \A i \in Memory :
    buf[i] # OLD =>
      \/ i \in 0 .. size - 1
      \/ i = -1 /\ pc = "idle" /\ (last.rc = 0 \/ size = 0)

\* The pointer into the format never passes the final NUL, unless the call
\* has failed: then the loop ends before it reads there.
StaysInFormat == pc \in {"loop", "line"} /\ rc >= 0 => at =< Len(fmt) + 1

\* Of a sequence of bytes those the others did not print.
Mine(s) ==
  LET mine[k \in 0 .. Len(s)] ==
        IF k = 0 THEN <<>>
        ELSE IF s[k] \in {STRAY, NONE} THEN mine[k - 1] ELSE Append(mine[k - 1], s[k])
  IN  mine[Len(s)]

\* What is on the line or will be, but for what the others print.
Carried == Mine(Append(line, holding)) \o out

\* From the left, how many bytes of s are met in the first k of t, for each k.
Met(s, t) ==
  LET met[k \in 0 .. Len(t)] ==
        IF k = 0 THEN 0
        ELSE IF met[k - 1] < Len(s) /\ s[met[k - 1] + 1] = t[k] THEN met[k - 1] + 1
        ELSE met[k - 1]
  IN  met

\* Every byte of s is met in t, in order.
IsIn(s, t) == Met(s, t)[Len(t)] = Len(s)

\* The serial line carries what was printed, in order and no byte twice, from
\* a chip that was set up as serial_setup's comments have it.  A byte is lost
\* only to a byte of others that comes between serial_putchar's test and its
\* write, and to each of those one at most: before interrupts are enabled
\* nothing is lost.
LineCarriesText ==
  SetupDone =>
    /\ lcr = LCR_8BIT /\ ier = 0 /\ divisor = <<12, 0>>
    /\ sink = "line" => /\ IsIn(Carried, text)
                       /\ Len(Carried) + strays >= Len(text)

\* strtoul reads a numeral, with blanks and a sign before it, as far as it
\* goes and as far as an unsigned long can hold it.
ScansNumerals ==
  last.fn = "strtoul" /\ last.base # 0 =>
    ReadsNumeral(last.str, last.base, last.result)

\* What lltoa writes strtoul reads back, in every base the kernel prints in,
\* a negative number modulo 2^LongBits and the least one too; and, for base 0,
\* with the prefix that tells the base.
NumbersReadBack ==
  last.fn = "lltoa" =>
    LET prefix == CASE last.base = 8  -> {<<48>>}
                    [] last.base = 10 -> {<<>>}
                    [] last.base = 16 -> {<<48, 88>>, <<48, 120>>}
    IN  /\ strtoul(last.str, last.base).value = Unsigned(last.value)
        /\ last.value >= 0 => \A p \in prefix :
             strtoul(p \o last.str, 0).value = last.value

=============================================================================
