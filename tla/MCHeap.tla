-------------------------------- MODULE MCHeap --------------------------------
(* Heap with two threads, interchangeable, and the cache for 1920 bytes,   *)
(* whose pools are blocks of four pages.  The requests: an object of that  *)
(* cache, one of another cache, one block of whole pages and two.          *)
EXTENDS Heap, TLC
CONSTANTS t1, t2
Blocks == 0 .. 2
Interchangeable == Permutations({t1, t2})
=============================================================================
