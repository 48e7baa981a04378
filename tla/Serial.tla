-------------------------------- MODULE Serial --------------------------------
(***************************************************************************)
(* serial.c and the part of the UART it uses.  The ports 0 and 1 of the    *)
(* chip are the data register and the interrupt enable register, or the    *)
(* two halves of the divisor when LCR has DLAB set; a character written to *)
(* the data register waits there until the chip takes it to the line.      *)
(*                                                                         *)
(* No lock guards the line.  The caller of serial_write that is followed   *)
(* may be switched out between the test for an empty transmitter and the   *)
(* write; meanwhile the others print: other threads, or the scheduler in   *)
(* the interrupt (thread.c:132, 178).  All of their bytes look alike here. *)
(***************************************************************************)
EXTENDS Naturals, Sequences

CONSTANTS
  NONE,     \* no character waits
  STRAY     \* a byte the others print

\* Neither is taken for a byte of the caller that is followed.
ASSUME SerialAssumption == NONE \notin Nat /\ STRAY \notin Nat /\ NONE # STRAY

VARIABLES
  lcr, ier, divisor,   \* the registers, divisor as <<low, high>>
  holding,             \* the character the chip has not sent yet, or NONE
  line,                \* what it has sent
  step,                \* how far serial_setup has come
  ready,               \* who has seen the transmitter empty and not yet
                       \* written
  strays               \* how many bytes the others have written

serialVars == <<lcr, ier, divisor, holding, line, step, ready, strays>>

REG_DATA == 0
REG_IER == 1
REG_LCR == 3

LCR_8BIT == 3
LCR_DLAB == 128
UsesDivisor == lcr >= LCR_DLAB

\* The loader may have left anything in the registers.
SerialInit ==
  /\ lcr \in {0, LCR_DLAB} /\ ier \in {0, 1} /\ divisor = <<1, 1>>
  /\ holding = NONE /\ line = <<>>
  /\ step = 1
  /\ ready = {} /\ strays = 0

\* What the chip does with an out8.  A character that was still waiting is
\* lost when the next one is written.
Out(port, value) ==
  CASE port = REG_LCR ->
         lcr' = value /\ UNCHANGED <<ier, divisor, holding>>
    [] port = REG_IER /\ ~UsesDivisor ->
         ier' = value /\ UNCHANGED <<lcr, divisor, holding>>
    [] port = REG_DATA /\ ~UsesDivisor ->
         holding' = value /\ UNCHANGED <<lcr, ier, divisor>>
    [] port # REG_LCR /\ UsesDivisor ->
         divisor' = [divisor EXCEPT ![port + 1] = value]
         /\ UNCHANGED <<lcr, ier, holding>>

\* serial_setup's writes, in order; REG_DLL is REG_DATA, REG_DLH is REG_IER.
SetupWrites ==
  << <<REG_LCR, 0>>, <<REG_IER, 0>>, <<REG_LCR, LCR_DLAB>>,
     <<REG_DATA, 12>>, <<REG_IER, 0>>, <<REG_LCR, LCR_8BIT>> >>

SetupDone == step > Len(SetupWrites)

SerialSetup ==
  /\ ~SetupDone
  /\ Out(SetupWrites[step][1], SetupWrites[step][2])
  /\ step' = step + 1
  /\ UNCHANGED <<line, ready, strays>>

\* Mutant of Ready: the transmitter is not waited for.
ReadyAlways == TRUE

\* LSR_TX_READY
Ready == holding = NONE

\* The loop of serial_putchar is left, by me or by the others.
SeesReady(who) ==
  /\ SetupDone /\ Ready /\ who \notin ready
  /\ ready' = ready \cup {who}
  /\ UNCHANGED <<lcr, ier, divisor, holding, line, step, strays>>

\* And out8, however long ago that was.
serial_putchar(c) ==
  /\ "me" \in ready
  /\ Out(REG_DATA, c)
  /\ ready' = ready \ {"me"}
  /\ UNCHANGED <<line, step, strays>>

StrayByte ==
  /\ "others" \in ready
  /\ Out(REG_DATA, STRAY)
  /\ ready' = ready \ {"others"}
  /\ strays' = strays + 1
  /\ UNCHANGED <<line, step>>

\* The chip sends the character.
Transmit ==
  /\ holding # NONE
  /\ line' = Append(line, holding)
  /\ holding' = NONE
  /\ UNCHANGED <<lcr, ier, divisor, step, ready, strays>>

=============================================================================
