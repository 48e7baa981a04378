--------------------------------- MODULE Shift ---------------------------------
(* 1ull << k: the pages of a block of order k, and what an integer of k bits *)
(* can hold.  (A function of its own because nothing can be proved about ^.) *)
EXTENDS Integers

Shl[order \in Nat] == IF order = 0 THEN 1 ELSE 2 * Shl[order - 1]

=============================================================================
