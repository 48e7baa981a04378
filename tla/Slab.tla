---------------------------------- MODULE Slab ----------------------------------
(***************************************************************************)
(* One mem_cache of alloc.c: pools of ObjCount objects, each in a block of *)
(* 2^pool_order pages from the page allocator, with a bitmask of the slots *)
(* in use, and linked in one of the lists free_pools, partial_pools and    *)
(* busy_pools.                                                             *)
(*                                                                         *)
(* mem_cache_alloc, mem_cache_free, mem_cache_shrink and mem_cache_release *)
(* hold cache->lck throughout, so each is one step; they take page_lock    *)
(* inside it, never the other way round.  mem_free reads the cache of an   *)
(* object from its page before it takes any lock: that is a step of its    *)
(* own.  The page allocator's other clients take and return blocks at any  *)
(* time.                                                                   *)
(*                                                                         *)
(* Which of several pools a list holds first makes no difference to what   *)
(* is said here: list_first is any pool of the list.                       *)
(***************************************************************************)
EXTENDS Naturals, FiniteSets

CONSTANTS
  Thread,      \* the threads that use the cache
  Block,       \* the aligned blocks of 2^pool_order pages
  NULL,
  ObjCount,    \* cache.obj_count
  WordBits     \* OBJS_PER_WORD

\* mem_cache_layout_setup leaves room for two objects at least in every
\* cache of mem_pool_size.
ASSUME SlabAssumption ==
  /\ ObjCount \in Nat \ {0, 1}
  /\ WordBits \in Nat \ {0}

Slot == 0 .. ObjCount - 1
mask_words == (ObjCount + WordBits - 1) \div WordBits
Bit == 0 .. mask_words * WordBits - 1
Object == [block : Block, slot : Slot]

VARIABLES
  machine,    \* "up", or "BUG" after a failed BUG_ON
  on,         \* the list each block's pool is linked in, "none" if in none
  mask,       \* pool.bitmask: the bits set
  free,       \* pool.free
  user,       \* whom the page allocator gave the block to
  tag,        \* PAGE_CACHE_BIT and u.cache of the block's pages: the cache
              \* they name, "none" when the bit is clear
  live,       \* the objects clients hold
  pc, arg,    \* a thread in mem_free, past page_test_bit, and its ptr
  released    \* mem_cache_release has run and mem_cache_setup has not

vars == <<machine, on, mask, free, user, tag, live, pc, arg, released>>

Lists == {"none", "free", "partial", "busy"}
Tags == {"none", "this", "other"}
Pools(list) == {p \in Block : on[p] = list}

\* mem_pool_bitmap_setup: the bits past the last object are set for good.
NewMask == {i \in Bit : i >= ObjCount}

\* What mem_pool_create sets pool.free to.
NewFree == ObjCount

\* The page structures are never zeroed (memory.c:80): they hold any tag.
Init ==
  /\ machine = "up"
  /\ on = [p \in Block |-> "none"]
  /\ mask = [p \in Block |-> {}] /\ free = [p \in Block |-> 0]
  /\ user = [p \in Block |-> "pages"] /\ tag \in [Block -> Tags]
  /\ live = {}
  /\ pc = [t \in Thread |-> "idle"] /\ arg = [t \in Thread |-> NULL]
  /\ released = FALSE

-----------------------------------------------------------------------------
(* mem_cache_alloc                                                         *)

\* ffs of the first word that is not all ones: the first clear bit.
FirstClear(bits) ==
  CHOOSE i \in Bit \ bits : \A j \in Bit \ bits : i =< j

\* Mutant of Mark: the slot is not marked.
MarkNot(bits, slot) == bits

Mark(bits, slot) == bits \cup {slot}

\* mem_pool_alloc on a pool with these bits set and this many slots free,
\* which is then linked in the list; BUG when there is no slot.
TakeSlot(p, bits, count, list) ==
  LET full == count = 0 \/ Bit \ bits = {}
      slot == FirstClear(bits)
  IN  /\ machine' = IF full THEN "BUG" ELSE machine
      /\ mask' = IF full THEN mask ELSE [mask EXCEPT ![p] = Mark(bits, slot)]
      /\ free' = IF full THEN free ELSE [free EXCEPT ![p] = count - 1]
      /\ live' = IF full THEN live
                 ELSE live \cup {[block |-> p, slot |-> slot]}
      /\ on' = [on EXCEPT ![p] = list]

\* Mutant of ListAfterTake: a pool whose last slot went stays in its list.
ListAfterTakeSame(list, left) == list

\* The list of a pool from which a slot was taken: the pool was in list, and
\* left slots are free in it now.
ListAfterTake(list, left) ==
  CASE list = "partial" /\ left = 0     -> "busy"
    [] list = "free" /\ left # ObjCount -> "partial"
    [] OTHER                            -> list

\* A client that allocates is not inside mem_free.
Runs(t) == machine = "up" /\ ~released /\ pc[t] = "idle"

AllocFrom(t, list) == \E p \in Pools(list) :
  /\ Runs(t)
  /\ TakeSlot(p, mask[p], free[p], ListAfterTake(list, free[p] - 1))
  /\ UNCHANGED <<user, tag, pc, arg, released>>

AllocPartial(t) == AllocFrom(t, "partial")

AllocFree(t) == Pools("partial") = {} /\ AllocFrom(t, "free")

\* mem_pool_create, when the page allocator has a block.  (When it has none
\* mem_cache_alloc returns 0 and has changed nothing.)
AllocNew(t) == \E p \in Block :
  /\ Runs(t)
  /\ Pools("partial") = {} /\ Pools("free") = {}
  /\ user[p] = "pages"
  /\ user' = [user EXCEPT ![p] = "cache"]
  /\ tag' = [tag EXCEPT ![p] = "this"]
  /\ TakeSlot(p, NewMask, NewFree, "partial")
  /\ UNCHANGED <<pc, arg, released>>

-----------------------------------------------------------------------------
(* mem_free and mem_cache_free                                             *)

\* mem_free: the client gives up the object, its page tells the cache.  An
\* object whose page has no PAGE_CACHE_BIT would be freed as whole pages.
FreeLookup(t) == \E o \in live :
  /\ Runs(t)
  /\ live' = live \ {o}
  /\ machine' = IF tag[o.block] = "this" THEN machine ELSE "BUG"
  /\ pc' = [pc EXCEPT ![t] = "free"]
  /\ arg' = [arg EXCEPT ![t] = o]
  /\ UNCHANGED <<on, mask, free, user, tag, released>>

\* Mutant of ListAfterFree: the pool stays where it is until it is empty.
ListAfterFreeLate(list, left) == IF left = ObjCount THEN "free" ELSE list

\* The list of a pool to which a slot was returned.
ListAfterFree(list, left) ==
  CASE left = ObjCount -> "free"
    [] left = 1        -> "partial"
    [] OTHER           -> list

\* mem_pool_free
ReturnSlot(p, slot) ==
  /\ mask' = [mask EXCEPT ![p] = @ \ {slot}]
  /\ free' = [free EXCEPT ![p] = @ + 1]

\* mem_cache_free: BUG when the slot is not in use, when the counter passes
\* obj_count, and when list_del would be applied to a pool in no list.
FreeSlot(t) ==
  LET p == arg[t].block
      slot == arg[t].slot
  IN  /\ machine = "up" /\ pc[t] = "free"
      /\ ReturnSlot(p, slot)
      /\ on' = [on EXCEPT ![p] = ListAfterFree(@, free'[p])]
      /\ machine' = IF slot \notin mask[p] \/ free'[p] > ObjCount
                       \/ on[p] = "none"
                    THEN "BUG" ELSE machine
      /\ pc' = [pc EXCEPT ![t] = "idle"]
      /\ arg' = [arg EXCEPT ![t] = NULL]
      /\ UNCHANGED <<user, tag, live, released>>

-----------------------------------------------------------------------------
(* mem_cache_shrink and mem_cache_release                                  *)

\* Mutant of Doomed: mem_cache_shrink takes the partial pools too.
DoomedPartial(p) == on[p] \in {"free", "partial"}

\* The pools mem_cache_shrink destroys.
Doomed(p) == on[p] = "free"

\* mem_pool_destroy for every doomed pool, BUG when one has objects in use.
Destroy ==
  /\ machine' = IF \E p \in Block : Doomed(p) /\ free[p] # ObjCount
                THEN "BUG" ELSE machine
  /\ tag' = [p \in Block |-> IF Doomed(p) THEN "none" ELSE tag[p]]
  /\ user' = [p \in Block |-> IF Doomed(p) THEN "pages" ELSE user[p]]

Shrink(t) ==
  /\ Runs(t)
  /\ Pools("free") # {}
  /\ Destroy
  /\ on' = [p \in Block |-> IF Doomed(p) THEN "none" ELSE on[p]]
  /\ UNCHANGED <<mask, free, live, pc, arg, released>>

\* mem_cache_release, once every object has been freed.  It leaves the
\* destroyed pools linked: the cache is useless until it is set up again.
Release(t) ==
  /\ Runs(t)
  /\ live = {} /\ \A u \in Thread : pc[u] = "idle"
  /\ tag' = [p \in Block |-> IF on[p] = "free" THEN "none" ELSE tag[p]]
  /\ user' = [p \in Block |-> IF on[p] = "free" THEN "pages" ELSE user[p]]
  /\ machine' = IF \/ Pools("busy") # {} \/ Pools("partial") # {}
                   \/ \E p \in Block : on[p] = "free" /\ free[p] # ObjCount
                THEN "BUG" ELSE machine
  /\ released' = TRUE
  /\ UNCHANGED <<on, mask, free, live, pc, arg>>

\* mem_cache_setup on a released cache.
Setup ==
  /\ machine = "up" /\ released
  /\ on' = [p \in Block |-> "none"]
  /\ released' = FALSE
  /\ UNCHANGED <<machine, mask, free, user, tag, live, pc, arg>>

-----------------------------------------------------------------------------
(* The page allocator's other clients, mem_alloc for whole pages and the   *)
(* other caches: they take and return blocks, one or several, and leave    *)
(* any mark on their pages, or none.                                       *)

Of(who) == {p \in Block : user[p] = who}

Remark(blocks) ==
  tag' \in [Block -> Tags] /\ \A p \in Block \ blocks : tag'[p] = tag[p]

Pass(blocks, to) ==
  /\ machine = "up"
  /\ user' = [p \in Block |-> IF p \in blocks THEN to ELSE user[p]]
  /\ Remark(blocks)
  /\ UNCHANGED <<machine, on, mask, free, live, pc, arg, released>>

OthersTake == \E blocks \in SUBSET Of("pages") : Pass(blocks, "other")

OthersReturn == \E blocks \in SUBSET Of("other") : Pass(blocks, "pages")

Next ==
  \/ \E t \in Thread : \/ AllocPartial(t) \/ AllocFree(t) \/ AllocNew(t)
                       \/ FreeLookup(t) \/ FreeSlot(t)
                       \/ Shrink(t) \/ Release(t)
  \/ Setup
  \/ OthersTake \/ OthersReturn

Spec == Init /\ [][Next]_vars

-----------------------------------------------------------------------------
(* Properties                                                              *)

TypeOK ==
  /\ machine \in {"up", "BUG"}
  /\ on \in [Block -> Lists]
  /\ mask \in [Block -> SUBSET Bit]
  /\ free \in [Block -> 0 .. ObjCount]
  /\ user \in [Block -> {"pages", "cache", "other"}]
  /\ tag \in [Block -> Tags]
  /\ live \in SUBSET Object
  /\ pc \in [Thread -> {"idle", "free"}]
  /\ arg \in [Thread -> Object \cup {NULL}]
  /\ released \in BOOLEAN

Busy == {t \in Thread : pc[t] = "free"}
InUse == live \cup {arg[t] : t \in Busy}
UsedIn(p) == {i \in Slot : [block |-> p, slot |-> i] \in InUse}

\* The memory of an object in use is the cache's: the page allocator gave its
\* block to the cache, has not had it back, and the block's pages still name
\* this cache, so that mem_free finds the way back.
InUseIsOurs == \A o \in InUse : user[o.block] = "cache" /\ tag[o.block] = "this"

\* The bits set in a pool are those of the objects in use (no object is handed
\* out twice, none is lost), and two threads never free the same one.
MaskTellsUse ==
  /\ \A p \in Block : user[p] = "cache" => mask[p] = NewMask \cup UsedIn(p)
  /\ \A t \in Busy : arg[t] \notin live
  /\ \A t, u \in Busy : arg[t] = arg[u] => t = u

\* The list a pool is in tells how full it is, and a pool in no list is not
\* the cache's: no pool is forgotten, none is linked after it was destroyed.
ListTellsFill == ~released => \A p \in Block :
  /\ on[p] = "none"    <=> user[p] # "cache"
  /\ on[p] = "free"     => UsedIn(p) = {}
  /\ on[p] = "partial"  => UsedIn(p) # {} /\ UsedIn(p) # Slot
  /\ on[p] = "busy"     => UsedIn(p) = Slot

\* No BUG_ON of the cache can fire: a pool on partial_pools or free_pools has
\* a free slot, a destroyed one has all of them, the counter stays in range,
\* and a cache whose objects were all freed can be released.
NoBug == machine = "up"

\* A cache takes pages from the page allocator only when every slot of every
\* pool it has is in use.
GrowsOnlyWhenFull ==
  [][ (\E p \in Block : user[p] = "pages" /\ user'[p] = "cache")
        => \A p \in Block : user[p] = "cache" => UsedIn(p) = Slot ]_vars

=============================================================================
