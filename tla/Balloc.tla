--------------------------------- MODULE Balloc ---------------------------------
(***************************************************************************)
(* The bootstrap allocator of balloc.c: two trees of address ranges, the   *)
(* known memory and the free memory, filled from the memory map the boot   *)
(* loader leaves, and the allocations the kernel takes from the second     *)
(* before the page allocator of memory.c exists.                           *)
(*                                                                         *)
(* A tree is the set of its ranges.  That they never overlap, so that the  *)
(* searches by begin and by end find the same neighbours in the tree of    *)
(* rbtree.c and in the set, is the invariant IsTree; BallocTree.tla has    *)
(* the trees themselves.                                                   *)
(*                                                                         *)
(* Everything runs on the boot CPU with interrupts disabled: there are no  *)
(* interleavings, but the memory map is whatever the BIOS wrote: entries   *)
(* in any order, overlapping, free and reserved.                           *)
(***************************************************************************)
EXTENDS Integers, Sequences, FiniteSets

CONSTANTS
  Maps,         \* the memory maps the boot loader may leave: sequences of
                \* entries [begin, end, type], type 1 for available memory
  KernelImage,  \* text_phys_begin to bss_phys_end, as a range [begin, end]
  MaxRanges,    \* BALLOC_MAX_RANGES
  Requests      \* bound: the allocations asked for, [size, align, from, to]

ASSUME BallocAssumption ==
  /\ MaxRanges \in Nat
  /\ KernelImage \in [begin : Nat, end : Nat] /\ KernelImage.begin < KernelImage.end
  /\ \A map \in Maps :
       /\ map \in Seq([begin : Nat, end : Nat, type : Nat])
       /\ \A i \in DOMAIN map : map[i].begin < map[i].end
  /\ Requests \subseteq [size : Nat \ {0}, align : Nat \ {0}, from : Nat, to : Nat]

VARIABLES
  machine,      \* "up", or "BUG" after a failed BUG_ON
  info,         \* the memory map of this boot
  pc,           \* the loop of balloc_parse_mmap, "cut" in __balloc_remove_range
                \* called from it, "ready" after it
  ptr,          \* the entry the loop is at
  node,         \* the node __balloc_remove_range is at: at most one range
  memory_map,   \* the two trees
  free_ranges,
  held,         \* the blocks the kernel has taken, as ranges
  answer        \* the last request and the address it got

vars == <<machine, info, pc, ptr, node, memory_map, free_ranges, held, answer>>

NoAnswer == [addr |-> -1]

Span(b, e) == [begin |-> b, end |-> e]

Init ==
  /\ machine = "up" /\ info \in Maps
  /\ pc = "add" /\ ptr = 1 /\ node = {}
  /\ memory_map = {} /\ free_ranges = {} /\ held = {} /\ answer = NoAnswer

-----------------------------------------------------------------------------
(* The trees                                                               *)

\* The node before, and the first node at or after, the place of a new range.
Before(tree, from) ==
  {n \in tree : n.begin < from
                  /\ \A m \in tree : m.begin < from => m.begin =< n.begin}
After(tree, from) ==
  {n \in tree : n.begin >= from
                  /\ \A m \in tree : m.begin >= from => n.begin =< m.begin}

Touching(prev, from) == {n \in prev : n.end >= from}

The(n) == CHOOSE m \in n : TRUE

\* __balloc_add_range: the new range is merged with the one before it and
\* with the first one after it; of the latter it takes the end.
AddRange(tree, from, to) ==
  LET prev  == Touching(Before(tree, from), from)
      begin == IF prev = {} THEN from ELSE The(prev).begin
      grown == IF prev # {} /\ The(prev).end > to THEN The(prev).end ELSE to
      next  == {n \in After(tree, from) : n.begin =< grown}
      end   == IF next = {} THEN grown ELSE The(next).end
  IN  (tree \ (prev \cup next)) \cup {Span(begin, end)}

\* Mutant of Behind: the search goes by begin.
BehindByBegin(tree, from) == {n \in tree : n.begin >= from}

\* The nodes that hold some address from on, or lie behind it.
Behind(tree, from) == {n \in tree : n.end > from}

\* Where the searches by end and the walk to the next node end up.
First(nodes)    == {n \in nodes : \A m \in nodes : n.begin =< m.begin}
NextTo(tree, n) == First({m \in tree : m.begin > n.begin})

\* Mutant of Cut: what lies behind the removed range goes too.
CutRest(tree, n, from, to) ==
  IF n.begin < from THEN AddRange(tree \ {n}, n.begin, from) ELSE tree \ {n}

\* A node leaves the tree, what it has outside from .. to - 1 comes back.
Cut(tree, n, from, to) ==
  LET rest == tree \ {n}
      left == IF n.begin < from THEN AddRange(rest, n.begin, from) ELSE rest
  IN  IF n.end > to THEN AddRange(left, to, n.end) ELSE left

\* Mutant of Rests: a node is taken for a rest that is empty.
RestsAlways(n, from, to) == 2

\* The pieces of a node outside from .. to - 1: each takes a node of its own
\* before the node itself is given back.
Rests(n, from, to) ==
  (IF n.begin < from THEN 1 ELSE 0) + (IF n.end > to THEN 1 ELSE 0)

\* balloc_alloc_node finds a node n times when the trees hold these ranges.
NodesLeft(known, free, n) == Cardinality(known) + Cardinality(free) + n =< MaxRanges

-----------------------------------------------------------------------------
(* balloc_parse_mmap                                                       *)

Goto(label) == pc' = label /\ ptr' = 1

\* Both trees get the range; the second one needs a node when the first has
\* merged what it could.
AddToBoth(range) ==
  /\ memory_map' = AddRange(memory_map, range.begin, range.end)
  /\ free_ranges' = AddRange(free_ranges, range.begin, range.end)
  /\ machine' = IF /\ NodesLeft(memory_map, free_ranges, 1)
                   /\ NodesLeft(memory_map', free_ranges, 1)
                THEN machine ELSE "BUG"

AddEntry ==
  /\ machine = "up" /\ pc = "add" /\ ptr =< Len(info)
  /\ AddToBoth(info[ptr])
  /\ ptr' = ptr + 1
  /\ UNCHANGED <<info, pc, node, held, answer>>

AddKernel ==
  /\ machine = "up" /\ pc = "add" /\ ptr > Len(info)
  /\ AddToBoth(KernelImage)
  /\ Goto("remove")
  /\ UNCHANGED <<info, node, held, answer>>

Reserved(entry) == entry.type # 1

\* The range that the loop over the entries, or the last call, takes out.
Removed == IF ptr =< Len(info) THEN info[ptr] ELSE KernelImage

SkipEntry ==
  /\ machine = "up" /\ pc = "remove" /\ ptr =< Len(info) /\ ~Reserved(info[ptr])
  /\ ptr' = ptr + 1
  /\ UNCHANGED <<machine, info, pc, node, memory_map, free_ranges, held, answer>>

\* __balloc_remove_range, for a reserved entry or the kernel image: the search.
RemoveRange ==
  /\ machine = "up" /\ pc = "remove"
  /\ ptr =< Len(info) => Reserved(info[ptr])
  /\ pc' = "cut" /\ node' = First(Behind(free_ranges, Removed.begin))
  /\ UNCHANGED <<machine, info, ptr, memory_map, free_ranges, held, answer>>

\* A turn of its loop: the next node is looked up before this one is erased.
CutNode ==
  /\ machine = "up" /\ pc = "cut"
  /\ \E n \in node :
       /\ n.begin < Removed.end
       /\ node' = NextTo(free_ranges, n)
       /\ free_ranges' = Cut(free_ranges, n, Removed.begin, Removed.end)
       /\ machine' = IF NodesLeft(memory_map, free_ranges,
                                  Rests(n, Removed.begin, Removed.end))
                     THEN machine ELSE "BUG"
  /\ UNCHANGED <<info, pc, ptr, memory_map, held, answer>>

\* The last node is cut; after the kernel image the map has been read.
RangeRemoved ==
  /\ machine = "up" /\ pc = "cut"
  /\ \A n \in node : n.begin >= Removed.end
  /\ node' = {}
  /\ IF ptr =< Len(info) THEN pc' = "remove" /\ ptr' = ptr + 1 ELSE Goto("ready")
  /\ UNCHANGED <<machine, info, memory_map, free_ranges, held, answer>>

-----------------------------------------------------------------------------
(* __balloc_alloc and balloc_free                                          *)

\* Mutant of FirstFit: the mask is align.
FirstFitNext(n, r) ==
  LET b == IF n.begin > r.from THEN n.begin ELSE r.from
  IN  ((b + r.align) \div r.align) * r.align

\* The first aligned address of a node that may serve the request.
FirstFit(n, r) ==
  LET b == IF n.begin > r.from THEN n.begin ELSE r.from
  IN  ((b + r.align - 1) \div r.align) * r.align

\* Mutant of Fits: the end of the window is not looked at.
FitsAnywhere(n, r) == FirstFit(n, r) + r.size =< n.end

Fits(n, r) == FirstFit(n, r) + r.size =< IF n.end < r.to THEN n.end ELSE r.to

\* The nodes the loop passes, up to the window's end, that fit.
Serving(r) == {n \in Behind(free_ranges, r.from) : n.begin < r.to /\ Fits(n, r)}

\* The lowest node that fits gives the block, the rests go back; without one
\* the answer is r.to.
Alloc(r) ==
  /\ machine = "up" /\ pc = "ready"
  /\ \/ \E n \in First(Serving(r)) :
          LET block == Span(FirstFit(n, r), FirstFit(n, r) + r.size)
          IN  /\ free_ranges' = Cut(free_ranges, n, block.begin, block.end)
              /\ machine' = IF NodesLeft(memory_map, free_ranges,
                                         Rests(n, block.begin, block.end))
                            THEN machine ELSE "BUG"
              /\ held' = held \cup {block}
              /\ answer' = [request |-> r, addr |-> block.begin]
     \/ /\ Serving(r) = {}
        /\ answer' = [request |-> r, addr |-> r.to]
        /\ UNCHANGED <<free_ranges, machine, held>>
  /\ UNCHANGED <<info, pc, ptr, node, memory_map>>

Free(block) ==
  /\ machine = "up" /\ pc = "ready"
  /\ free_ranges' = AddRange(free_ranges, block.begin, block.end)
  /\ machine' = IF NodesLeft(memory_map, free_ranges, 1) THEN machine ELSE "BUG"
  /\ held' = held \ {block}
  /\ answer' = NoAnswer
  /\ UNCHANGED <<info, pc, ptr, node, memory_map>>

Next ==
  \/ AddEntry \/ AddKernel \/ SkipEntry \/ RemoveRange \/ CutNode \/ RangeRemoved
  \/ \E r \in Requests : Alloc(r)
  \/ \E block \in held : Free(block)

Spec == Init /\ [][Next]_vars

-----------------------------------------------------------------------------
(* What a state is                                                         *)

Bytes(ranges) == UNION {n.begin .. n.end - 1 : n \in ranges}

Available == {info[i] : i \in {j \in DOMAIN info : ~Reserved(info[j])}}
Taken     == {info[i] : i \in {j \in DOMAIN info : Reserved(info[j])}} \cup {KernelImage}
Usable    == Bytes(Available) \ Bytes(Taken)

AddressRanges == {n \in [begin : Nat, end : Nat] : n.begin < n.end}

\* The ranges of a tree are never empty and never overlap or touch, whatever
\* the memory map says: the two searches, by begin and by end, see the nodes
\* in the same order.
IsTree(tree) ==
  /\ tree \subseteq AddressRanges
  /\ \A m, n \in tree : m # n => m.end < n.begin \/ n.end < m.begin

TypeOK ==
  /\ machine \in {"up", "BUG"} /\ info \in Maps
  /\ pc \in {"add", "remove", "cut", "ready"} /\ ptr \in 1 .. Len(info) + 1
  /\ IsTree(memory_map) /\ IsTree(free_ranges) /\ held \subseteq AddressRanges

-----------------------------------------------------------------------------
(* Properties                                                              *)

\* No free range reaches over a gap.
Within == \A n \in free_ranges \cup held : \E m \in memory_map :
            m.begin =< n.begin /\ n.end =< m.end

\* The block of the last request stands where it was asked for.
Answered ==
  answer # NoAnswer /\ answer.addr # answer.request.to =>
    LET r == answer.request
    IN  /\ answer.addr >= r.from /\ answer.addr + r.size =< r.to
        /\ answer.addr % r.align = 0
        /\ Span(answer.addr, answer.addr + r.size) \in held

\* balloc.c:189-196 - when the memory map has been read, in whatever order and
\* with whatever overlaps its entries came, no byte of a reserved region or
\* of the kernel image is free or handed out; nothing is free that no entry
\* names, and each free range lies in one range of the known memory, so that
\* page_zone of memory.c finds a zone for every page.
OnlyUsableIsFree ==
  /\ pc = "ready" => Bytes(Taken) \cap Bytes(free_ranges \cup held) = {}
  /\ Within

\* A block is handed out once, aligned, inside the window, and only memory
\* that was usable.
HandedOutOnce ==
  /\ \A b \in held : b.begin .. b.end - 1 \subseteq Usable \ Bytes(free_ranges)
  /\ \A a, b \in held : a # b => Bytes({a}) \cap Bytes({b}) = {}
  /\ Answered

\* balloc.c:189-196 - overlapping regions are no problem "until overlapped
\* regions have different attributes": no usable byte is lost.
NothingForgotten ==
  pc = "ready" => Usable \subseteq Bytes(free_ranges \cup held)

\* balloc.c:145-153,175-178 - after setup bytes only move between the free
\* ranges and the blocks in use, whatever is cut and merged: none is lost.
NothingLeaks ==
  [][ pc = "ready" => Bytes(free_ranges' \cup held') = Bytes(free_ranges \cup held) ]_vars

\* At addr there is an aligned block of free bytes for the request.
FitsAt(r, addr) ==
  addr % r.align = 0 /\ addr + r.size =< r.to
    /\ addr .. addr + r.size - 1 \subseteq Bytes(free_ranges)

\* An allocation fails only when no aligned block of free bytes lies in the
\* window: the first-fit search misses none.
RefusesOnlyWhenFull ==
  [][ \A r \in Requests :
        answer' = [request |-> r, addr |-> r.to] =>
          \A addr \in r.from .. r.to - 1 : ~FitsAt(r, addr) ]_vars

\* The nodes suffice: no BUG_ON in balloc_alloc_node.
NodesSuffice == machine = "up"

=============================================================================
