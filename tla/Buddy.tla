--------------------------------- MODULE Buddy ---------------------------------
(***************************************************************************)
(* The page allocator of memory.c: zones, each with one list of free       *)
(* blocks per order, blocks split when they are allocated and merged with  *)
(* their buddies when they are freed.                                      *)
(*                                                                         *)
(* A step is one turn of a loop: of the loop that carves the free ranges   *)
(* into blocks at setup, of the one that splits a block, of the one that   *)
(* merges.  page_alloc, __page_alloc, page_free and __page_free hold       *)
(* page_lock from their first look at a list to their last change of one,  *)
(* so one call is at work at a time.  The clients are arbitrary, but free  *)
(* what they hold, once, and with the order they asked for.                *)
(***************************************************************************)
EXTENDS Shift, Sequences, FiniteSets, SequencesExt

CONSTANTS
  PageSize,     \* bytes in a page
  MaxOrder,     \* MAX_ORDER
  MemoryMap,    \* memory_map, a sequence of address ranges [begin, end)
  FreeRanges,   \* free_ranges when page_alloc_setup runs, likewise
  LeftOver      \* what page.flags may hold before it is written

FIRST(range) == (range.begin + PageSize - 1) \div PageSize
LAST(range)  == range.end \div PageSize

\* __page_alloc_zone_setup: one zone per range that holds a whole page.
Zone == {z \in DOMAIN MemoryMap : FIRST(MemoryMap[z]) < LAST(MemoryMap[z])}
InZone(z) == FIRST(MemoryMap[z]) .. LAST(MemoryMap[z]) - 1
Page  == UNION {InZone(z) : z \in Zone}
Order == 0 .. MaxOrder
Flags == [free : BOOLEAN, order : Order]

\* page_alloc_zone_find, page_zone, addr_page
ZoneOf(page) == CHOOSE z \in Zone : page \in InZone(z)

\* The whole pages of a free range.  Page 0 is left out: its address is the
\* null pointer.
FreedFirst(range) == IF range.begin = 0 THEN 1 ELSE FIRST(range)
FreedIn(range) == FreedFirst(range) .. LAST(range) - 1

Given == UNION {FreedIn(FreeRanges[i]) : i \in DOMAIN FreeRanges}
RangeOf(page) == CHOOSE i \in DOMAIN FreeRanges : page \in FreedIn(FreeRanges[i])

AddressRange == [begin : Nat, end : Nat]

ASSUME BuddyAssumption ==
  /\ PageSize \in Nat \ {0} /\ MaxOrder \in Nat
  /\ LeftOver \subseteq Flags /\ LeftOver # {}
  /\ MemoryMap \in Seq(AddressRange) /\ FreeRanges \in Seq(AddressRange)
  \* zones are disjoint, in order of address
  /\ \A i, j \in DOMAIN MemoryMap : i < j => MemoryMap[i].end =< MemoryMap[j].begin
  \* a free range lies within one range of the memory map
  /\ \A i \in DOMAIN FreeRanges : \E j \in DOMAIN MemoryMap :
       /\ MemoryMap[j].begin =< FreeRanges[i].begin
       /\ FreeRanges[i].end =< MemoryMap[j].end
  \* and there is something between two of them
  /\ \A i, j \in DOMAIN FreeRanges : i < j => FreeRanges[i].end < FreeRanges[j].begin

VARIABLES
  flags,      \* page.flags: PAGE_FREE_MASK and PAGE_ORDER_MASK
  lists,      \* zone.order: for each zone and order the linked blocks
  held,       \* the blocks the clients hold
  answer,     \* the last allocation's order and the page it returned, or 0
  todo,       \* the pages of free ranges that the setup has not carved yet
  work,       \* the call at work: the block at hand, and the order asked for
  fault       \* list_del followed the pointers of a page on no list

vars == <<flags, lists, held, answer, todo, work, fault>>

\* Nothing has been asked since a block was freed.
NoAnswer == [order |-> MaxOrder + 1, page |-> 0]

At(doing, page, order, want) ==
  [doing |-> doing, page |-> page, order |-> order, want |-> want]

NoWork == At("none", 0, 0, 0)

Init ==
  /\ flags \in [Page -> LeftOver]
  /\ lists = [z \in Zone |-> [k \in Order |-> <<>>]]
  /\ held = {} /\ answer = NoAnswer /\ fault = FALSE
  /\ todo = Given /\ work = NoWork

-----------------------------------------------------------------------------
(* Blocks and flags                                                        *)

Pages(b) == b.page .. b.page + Shl[b.order] - 1

Aligned(page, order) == page % Shl[order] = 0

\* page ^ (1ull << order)
Xor(page, order) ==
  IF page % Shl[order + 1] < Shl[order] THEN page + Shl[order] ELSE page - Shl[order]

SetFree(f, page, order) == [f EXCEPT ![page] = [free |-> TRUE, order |-> order]]

\* Mutant of SetBusy: the block keeps its free mark.
SetBusyNot(f, page) == f

SetBusy(f, page) == [f EXCEPT ![page].free = FALSE]

\* list_add of a block to the list of its order.
Link(l, page, order) == [l EXCEPT ![ZoneOf(page)][order] = <<page>> \o @]

Places(list, page) == {i \in DOMAIN list : list[i] = page}

\* list_del of a block, from whichever list it is on.
Unlink(l, page) ==
  LET z   == ZoneOf(page)
      one == [k \in Order |->
                IF Places(l[z][k], page) = {} THEN l[z][k]
                ELSE RemoveAt(l[z][k], CHOOSE i \in Places(l[z][k], page) : TRUE)]
  IN  [l EXCEPT ![z] = one]

IsLinked(page) == \E k \in Order : Places(lists[ZoneOf(page)][k], page) # {}

-----------------------------------------------------------------------------
(* Setup                                                                   *)

\* The loop that chooses the size of a block: it stops at the first order
\* that the page is not aligned to the double of, or the double of which does
\* not fit below end.
CarveOrder(page, end) ==
  Min({k \in Order : \/ k = MaxOrder
                     \/ ~Aligned(page, k + 1)
                     \/ page + Shl[k + 1] > end})

\* __page_alloc_zone_free: one block is carved off the front of what is left.
CarveBlock ==
  LET page  == Min(todo)
      order == CarveOrder(page, LAST(FreeRanges[RangeOf(page)]))
  IN  /\ todo # {}
      /\ lists' = [lists EXCEPT ![ZoneOf(page)][order] = Append(@, page)]
      /\ flags' = SetFree(flags, page, order)
      /\ todo' = todo \ Pages([page |-> page, order |-> order])
      /\ UNCHANGED <<held, answer, work, fault>>

-----------------------------------------------------------------------------
(* page_alloc, __page_alloc                                                *)

\* Setup is over and no call is at work.
Idle == todo = {} /\ work = NoWork /\ ~fault

\* The orders from which zone z can serve a request.
Serves(z, order) == {k \in order .. MaxOrder : lists[z][k] # <<>>}

\* The first zone that has a block gives the first one of the smallest order.
Alloc(order) ==
  /\ Idle
  /\ \E z \in Zone :
       /\ Serves(z, order) # {} /\ \A y \in Zone : y < z => Serves(y, order) = {}
       /\ LET current == Min(Serves(z, order))
              page    == Head(lists[z][current])
          IN  /\ lists' = [lists EXCEPT ![z][current] = Tail(@)]
              /\ flags' = SetBusy(flags, page)
              /\ work' = At("split", page, current, order)
  /\ UNCHANGED <<held, answer, todo, fault>>

\* No zone has one, or the order is more than MAX_ORDER.
Refuse(order) ==
  /\ Idle
  /\ \A z \in Zone : Serves(z, order) = {}
  /\ answer' = [order |-> order, page |-> 0]
  /\ UNCHANGED <<flags, lists, held, todo, work, fault>>

\* page_alloc_zone: the block is too large, its upper half goes back.
SplitBlock ==
  LET half  == work.order - 1
      buddy == Xor(work.page, half)
  IN  /\ work.doing = "split" /\ work.order # work.want
      /\ lists' = Link(lists, buddy, half)
      /\ flags' = SetFree(flags, buddy, half)
      /\ work' = [work EXCEPT !.order = half]
      /\ UNCHANGED <<held, answer, todo, fault>>

HandOut ==
  /\ work.doing = "split" /\ work.order = work.want
  /\ held' = held \cup {[page |-> work.page, order |-> work.order]}
  /\ answer' = [order |-> work.want, page |-> work.page]
  /\ work' = NoWork
  /\ UNCHANGED <<flags, lists, todo, fault>>

-----------------------------------------------------------------------------
(* page_free, __page_free                                                  *)

\* Mutant of Joins: it does not compare the orders.
JoinsAnyOrder(page, order) ==
  LET buddy == Xor(page, order)
  IN  order < MaxOrder /\ buddy \in InZone(ZoneOf(page)) /\ flags[buddy].free

\* Mutant of Joins: the loop stops one order early.
JoinsBelow(page, order) ==
  LET buddy == Xor(page, order)
  IN  /\ order < MaxOrder - 1 /\ buddy \in InZone(ZoneOf(page))
      /\ flags[buddy] = [free |-> TRUE, order |-> order]

\* What page_free_zone asks of the buddy before it merges: in the zone,
\* free, and of the same order.
Joins(page, order) ==
  LET buddy == Xor(page, order)
  IN  /\ order < MaxOrder /\ buddy \in InZone(ZoneOf(page))
      /\ flags[buddy] = [free |-> TRUE, order |-> order]

Free(b) ==
  /\ Idle
  /\ held' = held \ {b}
  /\ answer' = NoAnswer
  /\ work' = At("merge", b.page, b.order, 0)
  /\ UNCHANGED <<flags, lists, todo, fault>>

\* page_free_zone: the buddy leaves its list and joins.  A buddy that is on no
\* list has no neighbours to link: list_del faults, and nothing runs after that.
MergeBuddy ==
  LET buddy == Xor(work.page, work.order)
  IN  /\ work.doing = "merge" /\ ~fault /\ Joins(work.page, work.order)
      /\ lists' = Unlink(lists, buddy)
      /\ fault' = ~IsLinked(buddy)
      /\ work' = At("merge", IF buddy < work.page THEN buddy ELSE work.page,
                    work.order + 1, 0)
      /\ UNCHANGED <<flags, held, answer, todo>>

MergeEnds ==
  /\ work.doing = "merge" /\ ~fault /\ ~Joins(work.page, work.order)
  /\ lists' = Link(lists, work.page, work.order)
  /\ flags' = SetFree(flags, work.page, work.order)
  /\ work' = NoWork
  /\ UNCHANGED <<held, answer, todo, fault>>

Next ==
  \/ CarveBlock
  \/ \E order \in 0 .. MaxOrder + 1 : Alloc(order) \/ Refuse(order)
  \/ SplitBlock \/ HandOut
  \/ \E b \in held : Free(b)
  \/ MergeBuddy \/ MergeEnds

Spec == Init /\ [][Next]_vars

-----------------------------------------------------------------------------
(* Properties                                                              *)

Block == [page : Page, order : Order]

TypeOK ==
  /\ flags \in [Page -> Flags]
  /\ lists \in [Zone -> [Order -> Seq(Page)]]
  /\ held \in SUBSET Block
  /\ answer \in [order : 0 .. MaxOrder + 1, page : Page \cup {0}]
  /\ todo \in SUBSET Given
  /\ \/ work = NoWork
     \/ work \in [doing : {"split", "merge"}, page : Page, order : Order, want : Order]
  /\ fault \in BOOLEAN

FreeBlocks == {b \in Block : \E z \in Zone : b.page \in ToSet(lists[z][b.order])}
Hand       == IF work = NoWork THEN {} ELSE {[page |-> work.page, order |-> work.order]}
Blocks     == FreeBlocks \cup held \cup Hand

\* memory.c:167-184, 254-262, 326-349 - no page is lost and none is in two
\* places: the blocks on the lists, those clients hold and the one at hand are
\* aligned, do not overlap, and together are exactly the pages given at setup;
\* no page is linked twice or in a foreign zone.
EveryPageOnce ==
  /\ \A b \in Blocks : Aligned(b.page, b.order)
  /\ FreeBlocks \cap held = {} /\ Hand \cap (FreeBlocks \cup held) = {}
  /\ \A b, c \in Blocks : b # c => Pages(b) \cap Pages(c) = {}
  /\ UNION {Pages(b) : b \in Blocks} = Given \ todo
  /\ \A z \in Zone, k \in Order :
       /\ IsInjective(lists[z][k])
       /\ ToSet(lists[z][k]) \subseteq InZone(z)

\* memory.c:326-343 - the flags page_free_zone reads are up to date where it
\* reads them: the buddy of a block is marked free, with an order, only while
\* it is linked in the list of that order.  (A page inside a merged or split
\* block keeps the flags it once had as a block of its own: those are never
\* read.)
BuddyMarksAreFresh ==
  \A b \in Blocks :
    LET buddy == Xor(b.page, b.order)
        z     == ZoneOf(b.page)
    IN  b.order < MaxOrder /\ buddy \in InZone(z)
          => (flags[buddy] = [free |-> TRUE, order |-> b.order]
                <=> buddy \in ToSet(lists[z][b.order]))

\* page_alloc and page_free only follow pointers of pages that are linked:
\* test_buddy (main.c:127-133) can give back every page it got.
NoFault == ~fault

\* The allocator keeps its promise.  A block at hand counts as free until it
\* is handed out, and again from the moment it comes back.
Promise == INSTANCE PagePool WITH
  avail <- (UNION {Pages(b) : b \in FreeBlocks \cup Hand}) \cup todo

ImplementsPagePool == Promise!Spec

=============================================================================
