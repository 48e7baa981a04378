---------------------------------- MODULE Heap ----------------------------------
(***************************************************************************)
(* mem_alloc, mem_free and mem_realloc of alloc.c on top of one mem_cache, *)
(* that of mem_pool[Class] with all its states, and the page allocator: a  *)
(* request goes to a cache or to whole pages, and mem_free and mem_realloc *)
(* find out which from PAGE_CACHE_BIT in the page of the pointer.          *)
(*                                                                         *)
(* Blocks are numbered: block b is the 2^PoolOrder pages from page         *)
(* b * 2^PoolOrder on.  Slab's tag of a block is what its first page says. *)
(* The other caches take and return blocks.  Of what clients do with them  *)
(* only mem_realloc from and to a cache is followed, with [class |-> i]    *)
(* for an object of mem_pool[i].                                           *)
(***************************************************************************)
EXTENDS Slab, Layout

CONSTANTS
  Class,        \* the cache that is modelled
  OtherClass,   \* a cache with smaller objects, of which clients hold some
  Requests      \* the sizes asked for

\* The layout of mem_pool[i]: its size, aligned to the least of them.
LayoutOf(i) == mem_cache_layout_setup(mem_pool_size[i], mem_pool_size[1])

PoolOrder == LayoutOf(Class).pool_order

\* The cache that serves each request, 0 for whole pages; and the order of
\* those.
CacheFor == [size \in Requests |-> mem_pool_lookup(size)]
OrderFor == [size \in {s \in Requests : CacheFor[s] = 0} |->
               mem_order_calculate(size)]

Orders == {OrderFor[size] : size \in DOMAIN OrderFor}

ASSUME HeapAssumption ==
  /\ Block = 0 .. Cardinality(Block) - 1
  /\ Class \in 1 .. MEM_POOLS /\ OtherClass \in 1 .. Class - 1
  \* a block of whole pages is made of the cache's blocks
  /\ \A n \in Orders : n >= PoolOrder
  /\ Requests \subseteq Nat

Whole == [first : Block, order : {n \in Orders : n =< MAX_ORDER}]

VARIABLES
  booted,   \* how many caches mem_alloc_setup has set up
  cache,    \* the layout of the last one
  order,    \* u.order of the blocks' first pages: 0 also where u.cache was
            \* written last
  whole,    \* the whole pages clients hold
  call      \* the mem_realloc a thread is in: the step that is next, and the
            \* old and the new memory

heapVars == <<booted, cache, order, whole, call>>

NoCall == [step |-> "none", old |-> NULL, new |-> NULL]

HeapInit ==
  /\ Init
  /\ booted = 1 /\ cache = LayoutOf(1)
  \* the page structures are never zeroed, here in all pages alike
  /\ order \in {[b \in Block |-> IF tag[b] = "none" THEN n ELSE 0] :
                  n \in Orders \cup {0}}
  /\ whole = {}
  /\ call = [t \in Thread |-> NoCall]

\* The loop of mem_alloc_setup, before interrupts are enabled.
mem_alloc_setup ==
  /\ booted < MEM_POOLS
  /\ booted' = booted + 1
  /\ cache' = LayoutOf(booted')
  /\ UNCHANGED <<vars, order, whole, call>>

\* A thread that is in no call.
Ready(t) == booted = MEM_POOLS /\ Runs(t) /\ call[t].step = "none"

-----------------------------------------------------------------------------
(* The page allocator: it gives an aligned block of free pages, if there   *)
(* is one, as module PagePool says.                                        *)

\* The cache's blocks in the aligned block of 2^n pages around block b.
Around(b, n) ==
  IF n >= PoolOrder
  THEN {c \in Block : c \div 2^(n - PoolOrder) = b \div 2^(n - PoolOrder)}
  ELSE {}

BlocksOf(w) == Around(w.first, w.order)

Free(n) ==
  {w \in Whole : /\ w.order = n
                 /\ w.first % 2^(n - PoolOrder) = 0
                 /\ Cardinality(BlocksOf(w)) = 2^(n - PoolOrder)
                 /\ BlocksOf(w) \subseteq Of("pages")}

SetUser(blocks, who) ==
  user' = [b \in Block |-> IF b \in blocks THEN who ELSE user[b]]

\* u is a union: what writes or clears u.cache leaves no order there.
CacheOverOrder ==
  order' = [b \in Block |-> IF tag'[b] # tag[b] THEN 0 ELSE order[b]]

-----------------------------------------------------------------------------
(* mem_alloc                                                               *)

\* mem_cache_alloc
FromCache(t) ==
  /\ AllocPartial(t) \/ AllocFree(t) \/ AllocNew(t)
  /\ CacheOverOrder
  /\ UNCHANGED whole

\* Mutants of MarkWhole: the bit stays as it was; or it is cleared in all
\* pages, and in those of one block more.
MarkWholeNot(w) == tag' = tag /\ order' = [order EXCEPT ![w.first] = w.order]
MarkWholeMore(w) ==
  LET last == w.first + 2^(w.order - PoolOrder)
  IN  /\ tag' = [b \in Block |-> IF b \in w.first .. last THEN "none" ELSE tag[b]]
      /\ order' = [order EXCEPT ![w.first] = w.order]

\* Only the first page is marked.
MarkWhole(w) ==
  /\ tag' = [tag EXCEPT ![w.first] = "none"]
  /\ order' = [order EXCEPT ![w.first] = w.order]

\* __page_alloc, and the marks.  Between the two the page is the caller's.
FromPages(w) ==
  /\ SetUser(BlocksOf(w), "other")
  /\ MarkWhole(w)
  /\ whole' = whole \cup {w}
  /\ UNCHANGED <<machine, on, mask, free, live, pc, arg, released>>

\* The memory that serves a request of this size, if there is any now:
\* whole pages, when no cache has objects as large.  What comes from another
\* cache changes nothing here.
MemAlloc(t) == \E size \in Requests :
  /\ Ready(t)
  /\ \/ CacheFor[size] = Class /\ FromCache(t)
     \/ /\ CacheFor[size] = 0
        /\ \E w \in Free(OrderFor[size]) : FromPages(w)
  /\ UNCHANGED <<booted, cache, call>>

-----------------------------------------------------------------------------
(* mem_free                                                                *)

\* What a mem_realloc works on, and nobody else frees.
Moving == UNION {{call[t].old, call[t].new} : t \in Thread}

\* mem_free of a pointer into a page with PAGE_CACHE_BIT, as in Slab.
FreeObject(t) ==
  /\ FreeLookup(t)
  /\ UNCHANGED <<order, whole>>

\* mem_free of whole pages: the order is read from the page, the bit and the
\* order are cleared, and the block of that order around the page goes back.
\* Until then the page is the caller's.  With PAGE_CACHE_BIT set, mem_free
\* would return an object to the cache.
FreePages(w) ==
  /\ whole' = whole \ {w}
  /\ machine' = IF tag[w.first] = "none" THEN machine ELSE "BUG"
  /\ SetUser(Around(w.first, order[w.first]), "pages")
  /\ order' = [order EXCEPT ![w.first] = 0]
  /\ UNCHANGED <<on, mask, free, tag, live, pc, arg, released>>

MemFree(t) ==
  /\ Ready(t)
  /\ \/ FreeObject(t) /\ arg'[t] \notin Moving
     \/ \E w \in whole \ Moving : FreePages(w)
  /\ UNCHANGED <<booted, cache, call>>

\* The rest of mem_free, under the lock of the cache.
MemCacheFree(t) == FreeSlot(t) /\ UNCHANGED heapVars

-----------------------------------------------------------------------------
(* mem_realloc                                                             *)

\* How much a client may use, as mem_realloc reads it: from the cache the
\* page names, or from its order.
SizeOf(ptr) ==
  CASE ptr \in live  -> mem_pool_size[Class]
    [] ptr \in whole -> 2^(PAGE_SHIFT + order[ptr.first])
    [] OTHER         -> mem_pool_size[ptr.class]

\* Mutant of Steps: the old memory is freed before it is copied.
StepsSwapped == [alloc |-> "free", free |-> "copy", copy |-> "none"]

\* What follows what in a mem_realloc that moves the memory.
Steps == [alloc |-> "copy", copy |-> "free", free |-> "none"]

Advance(t) ==
  LET next == Steps[call[t].step]
  IN  call' = [call EXCEPT ![t] = IF next = "none" THEN NoCall
                                  ELSE [@ EXCEPT !.step = next]]

\* mem_alloc, when the old memory is too small.  When it finds no memory
\* mem_realloc returns 0 and has changed nothing.
ReallocAlloc(t) ==
  \E old \in (live \cup whole \cup {[class |-> OtherClass]}) \ Moving,
     size \in Requests :
    LET i == CacheFor[size]
        begin(new) ==
          call' = [call EXCEPT ![t] =
                     [step |-> Steps["alloc"], old |-> old, new |-> new]]
    IN  /\ Ready(t)
        /\ SizeOf(old) < size
        /\ \/ i = Class /\ FromCache(t) /\ begin(CHOOSE o \in live' \ live : TRUE)
           \/ /\ i = 0
              /\ \E w \in Free(OrderFor[size]) : FromPages(w) /\ begin(w)
           \/ /\ i \notin {0, Class} /\ old \in live
              /\ begin([class |-> i])
              /\ UNCHANGED <<vars, order, whole>>
        /\ UNCHANGED <<booted, cache>>

\* memcpy
ReallocCopy(t) ==
  /\ Runs(t) /\ call[t].step = "copy"
  /\ Advance(t)
  /\ UNCHANGED <<vars, booted, cache, order, whole>>

\* mem_free of the old memory.
ReallocFree(t) ==
  LET old == call[t].old
  IN  /\ Runs(t) /\ call[t].step = "free"
      /\ \/ old \in live /\ FreeObject(t) /\ arg'[t] = old
         \/ old \in whole /\ FreePages(old)
         \/ old \notin live \cup whole /\ UNCHANGED <<vars, order, whole>>
      /\ Advance(t)
      /\ UNCHANGED <<booted, cache>>

-----------------------------------------------------------------------------
(* mem_cache_shrink, mem_cache_release and mem_cache_setup                 *)

Shrinking(t) == Ready(t) /\ Shrink(t) /\ CacheOverOrder

\* test_slab (main.c:81) has a cache of its own, which it releases.
Releasing(t) == Ready(t) /\ Moving = {NULL} /\ Release(t) /\ CacheOverOrder

SettingUp == Setup /\ UNCHANGED order

\* The other caches, with pools of one block.
CacheTakes(b) ==
  /\ user[b] = "pages"
  /\ user' = [user EXCEPT ![b] = "other"]
  /\ tag' = [tag EXCEPT ![b] = "other"]

CacheReturns(b) ==
  /\ user[b] = "other" /\ \A w \in whole : b \notin BlocksOf(w)
  /\ user' = [user EXCEPT ![b] = "pages"]
  /\ tag' = [tag EXCEPT ![b] = "none"]

OtherCache == \E b \in Block :
  /\ machine = "up" /\ booted = MEM_POOLS
  /\ CacheTakes(b) \/ CacheReturns(b)
  /\ CacheOverOrder
  /\ UNCHANGED <<machine, on, mask, free, live, pc, arg, released>>

HeapNext ==
  \/ mem_alloc_setup
  \/ \E t \in Thread : \/ MemAlloc(t) \/ MemFree(t) \/ MemCacheFree(t)
                       \/ ReallocAlloc(t) \/ ReallocCopy(t) \/ ReallocFree(t)
  \/ /\ \/ \E t \in Thread : Shrinking(t) \/ Releasing(t)
        \/ SettingUp
        \/ OtherCache
     /\ UNCHANGED <<booted, cache, whole, call>>

HeapSpec == HeapInit /\ [][HeapNext]_<<vars, heapVars>>

-----------------------------------------------------------------------------
(* Properties                                                              *)

\* Every cache that mem_alloc_setup lays out has pools whose objects end
\* before the pool's own data, whose data end within the pool and have a bit
\* for every object, with room for two objects at least, which is what module
\* Slab assumes; and no pool has room for one more.
LayoutFits ==
  LET objs == cache.obj_count
      pool_size == 2^(cache.pool_order + PAGE_SHIFT)
  IN  /\ cache.obj_size >= mem_pool_size[booted]
      /\ cache.obj_size * objs =< cache.meta_offs
      /\ cache.meta_offs % 8 = 0
      /\ cache.meta_offs + 40 + 8 * cache.mask_words = pool_size
      /\ cache.mask_words * OBJS_PER_WORD >= objs /\ objs >= 2
      /\ cache.obj_size * (objs + 1) + meta_size(objs + 1) > pool_size

\* mem_free takes the way back that mem_alloc came: the first page of whole
\* pages never looks like a page of a cache, whatever was left in it, and has
\* the order they were taken with, so that exactly they go back; no two
\* clients hold the same pages.
FreeFindsItsWay ==
  /\ \A w \in whole :
       /\ tag[w.first] = "none" /\ order[w.first] = w.order
       /\ \A b \in BlocksOf(w) : user[b] = "other"
  /\ \A w, v \in whole : w # v => BlocksOf(w) \cap BlocksOf(v) = {}

\* Memory of one of these caches, of another cache, or whole pages, that a
\* client holds.
Held(ptr) == ptr \in live \cup whole \/ "class" \in DOMAIN ptr

\* mem_realloc copies from memory that is still the caller's to memory that
\* is the caller's, is larger, and so has room for all that is copied.
CopiesWhatItHolds ==
  \A t \in Thread : call[t].step = "copy" =>
    /\ Held(call[t].old) /\ Held(call[t].new)
    /\ SizeOf(call[t].old) < SizeOf(call[t].new)

\* To one cache, mem_alloc for whole pages and the other caches are just
\* clients of the page allocator: what is proved of Slab holds in the heap.
ImplementsSlab == Spec

=============================================================================
