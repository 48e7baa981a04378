------------------------------- MODULE MCBuddy -------------------------------
(* Buddy with two zones that begin and end at odd addresses and pages, the *)
(* first one at address 0; and with one zone whose page structures hold    *)
(* whatever was in memory.                                                 *)
EXTENDS Buddy

Span(b, e) == [begin |-> b, end |-> e]

TwoMaps == <<Span(0, 27), Span(28, 48)>>
TwoFree == <<Span(0, 22), Span(31, 48)>>
Zeroed  == {[free |-> FALSE, order |-> 0]}

OneMap  == <<Span(0, 16)>>
OneFree == <<Span(4, 16)>>
AnyFlags == Flags
=============================================================================
