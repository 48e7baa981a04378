------------------------------ MODULE Heap_proofs ------------------------------
(***************************************************************************)
(* First Slab: IInv is an inductive invariant of a cache, and what follows *)
(* from it.                                                                *)
(*                                                                         *)
(* Then the heap, which implements Slab: to one cache, mem_alloc for whole *)
(* pages and the other caches are clients of the page allocator.  The      *)
(* argument needs that mem_free recognises whole pages (FreeFindsItsWay),  *)
(* which in turn needs Slab's invariant: so both are carried through one   *)
(* induction.  On it rest the layouts of the caches and what mem_realloc   *)
(* works on.                                                               *)
(***************************************************************************)
EXTENDS Heap, TLAPS, FiniteSetTheorems, WellFoundedInduction

-----------------------------------------------------------------------------
(* The inductive invariant of a cache                                      *)

\* pool.free counts the slots that are not in use.
FreeCounts ==
  \A p \in Block :
    user[p] = "cache" => free[p] = Cardinality(Slot \ UsedIn(p))

\* The lists by the counter, as the code decides them.
ListByCount == ~released => \A p \in Block :
  /\ on[p] = "none"    <=> user[p] # "cache"
  /\ on[p] = "free"     => free[p] = ObjCount
  /\ on[p] = "partial"  => free[p] \in 1 .. ObjCount - 1
  /\ on[p] = "busy"     => free[p] = 0

\* A released cache has nothing any more.
ReleasedIsEmpty == released => InUse = {} /\ \A p \in Block : user[p] # "cache"

\* The pages of every pool name the cache.
TagTellsOwner == \A p \in Block : user[p] = "cache" => tag[p] = "this"

FreeHasObject == \A t \in Busy : arg[t] \in Object

IInv ==
  /\ TypeOK /\ NoBug
  /\ InUseIsOurs /\ MaskTellsUse
  /\ FreeCounts /\ ListByCount /\ ReleasedIsEmpty /\ FreeHasObject
  /\ TagTellsOwner

-----------------------------------------------------------------------------
(* The inductive invariants, together with that of Slab.                   *)

HInv ==
  /\ IInv
  /\ whole \subseteq Whole
  /\ order = [b \in Block |-> order[b]]
  /\ FreeFindsItsWay

\* The layout is that of the cache that was set up last.
LayoutInv == booted \in 1 .. MEM_POOLS /\ cache = LayoutOf(booted)

\* What a mem_realloc works on is held until its own step frees it, and no
\* two of them work on the same memory.
MoveInv ==
  /\ call = [t \in Thread |-> call[t]]
  /\ \A t \in Thread :
       \/ call[t] = NoCall
       \/ /\ call[t] = [step |-> call[t].step, old |-> call[t].old,
                       new |-> call[t].new]
          /\ call[t].step \in {"copy", "free"}
          /\ Held(call[t].old) /\ Held(call[t].new) /\ call[t].old # call[t].new
          /\ SizeOf(call[t].old) < SizeOf(call[t].new)
  /\ \A t, u \in Thread :
       t # u /\ call[t].step # "none" /\ call[u].step # "none" =>
         {call[t].old, call[t].new} \cap {call[u].old, call[u].new}
           \cap (live \cup whole) = {}

-----------------------------------------------------------------------------
(* Bits, slots and their number                                            *)

\* The words of the bitmask have a bit for every object.
LEMMA SlotsHaveBits == Slot \subseteq Bit
<1>1. ASSUME NEW n \in Nat \ {0, 1}, NEW w \in Nat \ {0}
      PROVE  n =< ((n + w - 1) \div w) * w
  <2> DEFINE q == (n + w - 1) \div w
  <2>1. q \in Int /\ n + w - 1 \in Int
    BY <1>1
  <2>2. n + w - 1 = w * q + ((n + w - 1) % w)
    BY <1>1
  <2>3. (n + w - 1) % w =< w - 1
    BY <1>1
  <2>4. w * q = q * w
    BY <1>1, <2>1
  <2> QED BY <1>1, <2>1, <2>2, <2>3, <2>4
<1> QED
  BY <1>1, SlabAssumption DEF Slot, Bit, mask_words

LEMMA SlotsAreFinite == IsFiniteSet(Slot) /\ Cardinality(Slot) = ObjCount
BY FS_Interval, SlabAssumption DEF Slot

LEMMA BitsArePartitioned == NewMask = Bit \ Slot
BY SlotsHaveBits, SlabAssumption DEF NewMask, Slot, Bit, mask_words

\* The clear bits of a pool are its slots that are not in use.
LEMMA ClearBits ==
  ASSUME NEW used \in SUBSET Slot
  PROVE  Bit \ (NewMask \cup used) = Slot \ used
BY SlotsHaveBits, BitsArePartitioned

\* A nonempty finite set of numbers has a least element: of the sets of
\* elements up to some i, a minimal one under inclusion shows which.
LEMMA LeastElement ==
  ASSUME NEW T \in SUBSET Nat, T # {}, IsFiniteSet(T)
  PROVE  \E i \in T : \A j \in T : i =< j
<1> DEFINE upTo(i) == {j \in T : j =< i}
           family == {upTo(i) : i \in T}
<1>1. family \subseteq SUBSET T /\ family # {}
  OBVIOUS
<1>2. IsWellFoundedOn(StrictSubsetOrdering(T), SUBSET T)
  BY FS_StrictSubsetOrderingWellFounded, FS_FiniteSubsetsOfFinite
<1>3. PICK x \in family : \A y \in family :
                            <<y, x>> \notin StrictSubsetOrdering(T)
  BY <1>1, <1>2, WFMin
<1>4. PICK i \in T : x = upTo(i)
  BY <1>3
<1>5. ASSUME NEW j \in T, ~(i =< j)
      PROVE  FALSE
  <2>0. i \in Nat /\ j \in Nat /\ \A k \in T : k \in Nat
    OBVIOUS
  <2>1. i =< i /\ j < i
    BY <2>0, <1>5
  <2>2. \A k \in T : k =< j => k =< i
    BY <2>0, <2>1
  <2>3. upTo(j) \subseteq upTo(i) /\ i \in upTo(i) /\ i \notin upTo(j)
    BY <2>1, <2>2, <1>5
  <2>4. <<upTo(j), upTo(i)>> \in StrictSubsetOrdering(T)
    BY <2>3 DEF StrictSubsetOrdering
  <2> QED
    BY <1>3, <1>4, <2>4
<1> QED
  BY <1>5

\* The search of mem_pool_alloc finds a clear bit when there is one.
LEMMA FirstClearIsClear ==
  ASSUME NEW bits, Bit \ bits # {}
  PROVE  FirstClear(bits) \in Bit \ bits
<1>1. mask_words * WordBits - 1 \in Int
  BY SlabAssumption DEF mask_words
<1>2. IsFiniteSet(Bit) /\ Bit \in SUBSET Nat
  BY <1>1, FS_Interval DEF Bit
<1>3. IsFiniteSet(Bit \ bits) /\ Bit \ bits \in SUBSET Nat
  BY <1>2, FS_Subset
<1> QED
  BY <1>3, LeastElement DEF FirstClear

\* Slots left, as a number: all, none, or something in between.
LEMMA SlotsLeft ==
  ASSUME NEW used \in SUBSET Slot
  PROVE  /\ Cardinality(Slot \ used) \in 0 .. ObjCount
         /\ Cardinality(Slot \ used) = 0 <=> used = Slot
         /\ Cardinality(Slot \ used) = ObjCount <=> used = {}
<1> DEFINE left == Slot \ used
<1>1. IsFiniteSet(left) /\ Cardinality(left) \in Nat
      /\ Cardinality(left) =< ObjCount
      /\ (Cardinality(left) = ObjCount => left = Slot)
  BY SlotsAreFinite, FS_Subset, FS_CardinalityType
<1>2. Cardinality(left) = 0 <=> left = {}
  BY <1>1, FS_EmptySet
<1>3. left = {} <=> used = Slot
  OBVIOUS
<1>4. left = Slot <=> used = {}
  OBVIOUS
<1> HIDE DEF left
<1>5. /\ Cardinality(left) \in 0 .. ObjCount
      /\ Cardinality(left) = 0 <=> used = Slot
      /\ Cardinality(left) = ObjCount <=> used = {}
  BY <1>1, <1>2, <1>3, <1>4, SlotsAreFinite, SlabAssumption
<1> QED
  BY <1>5 DEF left

LEMMA OneSlotLess ==
  ASSUME NEW used \in SUBSET Slot, NEW s \in Slot \ used
  PROVE  /\ Cardinality(Slot \ (used \cup {s})) = Cardinality(Slot \ used) - 1
         /\ Cardinality(Slot \ used) \in 1 .. ObjCount
<1>1. IsFiniteSet(Slot \ used)
  BY SlotsAreFinite, FS_Subset
<1>2. Slot \ (used \cup {s}) = (Slot \ used) \ {s}
  OBVIOUS
<1>3. Cardinality((Slot \ used) \ {s}) = Cardinality(Slot \ used) - 1
  BY <1>1, FS_RemoveElement
<1>4. Cardinality(Slot \ used) \in 1 .. ObjCount
  BY SlotsLeft, SlabAssumption
<1> QED
  BY <1>2, <1>3, <1>4

\* What mem_pool_alloc does to a pool that has a slot left.
LEMMA TakeSlotTakesOne ==
  ASSUME NEW p \in Block, NEW used \in SUBSET Slot, used # Slot, NEW list,
         TakeSlot(p, NewMask \cup used, Cardinality(Slot \ used), list)
  PROVE  \E s \in Slot \ used :
           /\ UNCHANGED machine
           /\ mask' = [mask EXCEPT ![p] = NewMask \cup (used \cup {s})]
           /\ free' = [free EXCEPT ![p] = Cardinality(Slot \ (used \cup {s}))]
           /\ on' = [on EXCEPT ![p] = list]
           /\ live' = live \cup {[block |-> p, slot |-> s]}
<1> DEFINE bits == NewMask \cup used
           count == Cardinality(Slot \ used)
           s == FirstClear(bits)
<1>1. Bit \ bits = Slot \ used
  BY ClearBits
<1>2. s \in Slot \ used
  BY <1>1, FirstClearIsClear
<1>3. count # 0 /\ Cardinality(Slot \ (used \cup {s})) = count - 1
  BY <1>2, OneSlotLess
<1>4. ~(count = 0 \/ Bit \ bits = {})
  BY <1>1, <1>2, <1>3
<1>5. Mark(bits, s) = NewMask \cup (used \cup {s})
  BY DEF Mark
<1> WITNESS s \in Slot \ used
<1> QED
  BY <1>3, <1>4, <1>5 DEF TakeSlot

-----------------------------------------------------------------------------
(* The steps                                                               *)

LEMMA InitHolds == Init => IInv
<1> SUFFICES ASSUME Init PROVE IInv
  OBVIOUS
<1>1. Busy = {} /\ InUse = {}
  BY DEF Init, Busy, InUse
<1>2. TypeOK
  <2>1. 0 \in 0 .. ObjCount /\ {} \in SUBSET Bit
    BY SlabAssumption
  <2> QED
    BY <2>1 DEF Init, TypeOK, Lists
<1>3. NoBug /\ InUseIsOurs /\ MaskTellsUse /\ FreeHasObject
  BY <1>1 DEF Init, NoBug, InUseIsOurs, MaskTellsUse, FreeHasObject
<1>4. FreeCounts /\ ListByCount /\ ReleasedIsEmpty /\ TagTellsOwner
  BY <1>1 DEF Init, FreeCounts, ListByCount, ReleasedIsEmpty, TagTellsOwner
<1> QED
  BY <1>2, <1>3, <1>4 DEF IInv

\* In a pool of the cache the counter counts the slots not in use.
LEMMA PoolCounts ==
  ASSUME IInv, NEW p \in Block, user[p] = "cache"
  PROVE  /\ mask[p] = NewMask \cup UsedIn(p)
         /\ free[p] = Cardinality(Slot \ UsedIn(p))
         /\ UsedIn(p) \in SUBSET Slot
         /\ free[p] \in 0 .. ObjCount
         /\ free[p] = 0 <=> UsedIn(p) = Slot
         /\ free[p] = ObjCount <=> UsedIn(p) = {}
<1>1. UsedIn(p) \in SUBSET Slot
  BY DEF UsedIn
<1>2. mask[p] = NewMask \cup UsedIn(p) /\ free[p] = Cardinality(Slot \ UsedIn(p))
  BY DEF IInv, MaskTellsUse, FreeCounts
<1> QED
  BY <1>1, <1>2, SlotsLeft

\* mem_pool_alloc in a pool p that has a slot left and goes, or stays, where
\* its new count says.
LEMMA TakeKeeps ==
  ASSUME IInv, ~released, NEW p \in Block, NEW list, NEW bits, NEW count,
         UsedIn(p) # Slot,
         bits = NewMask \cup UsedIn(p), count = Cardinality(Slot \ UsedIn(p)),
         TakeSlot(p, bits, count, list),
         \/ list = "busy" /\ count = 1
         \/ list = "partial" /\ count # 1,
         user' = [user EXCEPT ![p] = "cache"],
         tag' = [tag EXCEPT ![p] = "this"],
         UNCHANGED <<pc, arg, released>>
  PROVE  IInv'
<1>1. UsedIn(p) \in SUBSET Slot
  BY DEF UsedIn
<1>2. PICK s \in Slot \ UsedIn(p) :
         /\ UNCHANGED machine
         /\ mask' = [mask EXCEPT ![p] = NewMask \cup (UsedIn(p) \cup {s})]
         /\ free' = [free EXCEPT ![p] = Cardinality(Slot \ (UsedIn(p) \cup {s}))]
         /\ on' = [on EXCEPT ![p] = list]
         /\ live' = live \cup {[block |-> p, slot |-> s]}
  BY <1>1, TakeSlotTakesOne
<1> DEFINE o == [block |-> p, slot |-> s]
<1>3. Busy' = Busy /\ InUse' = InUse \cup {o} /\ o \in Object /\ o \notin InUse
  BY <1>2 DEF Busy, InUse, Object, UsedIn
<1>4. \A q \in Block : UsedIn(q)' = IF q = p THEN UsedIn(p) \cup {s} ELSE UsedIn(q)
  BY <1>2, <1>3 DEF UsedIn
<1>5. /\ Cardinality(Slot \ (UsedIn(p) \cup {s}))
           = Cardinality(Slot \ UsedIn(p)) - 1
      /\ Cardinality(Slot \ UsedIn(p)) \in 1 .. ObjCount
  BY <1>1, <1>2, OneSlotLess
<1>6. free'[p] = Cardinality(Slot \ UsedIn(p)) - 1 /\ free'[p] \in 0 .. ObjCount - 1
  BY <1>2, <1>5, SlabAssumption DEF IInv, TypeOK
<1>7. TypeOK'
  <2>1. mask' \in [Block -> SUBSET Bit]
    BY <1>1, <1>2, SlotsHaveBits, BitsArePartitioned DEF IInv, TypeOK
  <2>2. free' \in [Block -> 0 .. ObjCount]
    BY <1>2, <1>6, SlabAssumption DEF IInv, TypeOK
  <2>3. on' \in [Block -> Lists]
    BY <1>2 DEF IInv, TypeOK, Lists
  <2>4. live' \in SUBSET Object
    BY <1>2, <1>3 DEF IInv, TypeOK
  <2> QED
    BY <1>2, <2>1, <2>2, <2>3, <2>4 DEF IInv, TypeOK, Tags
<1>8. InUseIsOurs'
  BY <1>3 DEF IInv, TypeOK, InUseIsOurs, Object, InUse
<1>9. MaskTellsUse'
  <2>1. \A q \in Block : user'[q] = "cache" => mask'[q] = NewMask \cup UsedIn(q)'
    BY <1>2, <1>4 DEF IInv, TypeOK, MaskTellsUse
  <2>2. \A t \in Busy : arg[t] # o
    BY <1>3 DEF InUse
  <2> QED
    BY <1>2, <1>3, <2>1, <2>2 DEF IInv, MaskTellsUse
<1>10. FreeCounts'
  BY <1>2, <1>4 DEF IInv, TypeOK, FreeCounts
<1>11. ListByCount'
  <2>1. on'[p] = list /\ user'[p] = "cache"
    BY <1>2 DEF IInv, TypeOK
  <2>2. /\ list = "busy" => free'[p] = 0
        /\ list = "partial" => free'[p] \in 1 .. ObjCount - 1
        /\ list \in {"busy", "partial"}
    BY <1>5, <1>6, SlabAssumption
  <2>3. \A q \in Block \ {p} :
          on'[q] = on[q] /\ user'[q] = user[q] /\ free'[q] = free[q]
    BY <1>2 DEF IInv, TypeOK
  <2> QED
    BY <2>1, <2>2, <2>3 DEF IInv, ListByCount
<1>12. ReleasedIsEmpty' /\ FreeHasObject' /\ NoBug' /\ TagTellsOwner'
  BY <1>2, <1>3 DEF IInv, TypeOK, ReleasedIsEmpty, FreeHasObject, NoBug,
                    TagTellsOwner
<1> QED
  BY <1>7, <1>8, <1>9, <1>10, <1>11, <1>12 DEF IInv

\* mem_cache_alloc on a pool of partial_pools or free_pools.
LEMMA AllocFromKeeps ==
  ASSUME IInv, NEW t \in Thread, NEW list \in {"partial", "free"}, AllocFrom(t, list)
  PROVE  IInv'
<1>1. PICK p \in Pools(list) :
        /\ Runs(t)
        /\ TakeSlot(p, mask[p], free[p], ListAfterTake(list, free[p] - 1))
        /\ UNCHANGED <<user, tag, pc, arg, released>>
  BY DEF AllocFrom
<1>2. p \in Block /\ on[p] = list /\ ~released
  BY <1>1 DEF Pools, Runs
<1>3. user[p] = "cache" /\ free[p] \in 1 .. ObjCount
      /\ (list = "free" => free[p] = ObjCount)
      /\ (list = "partial" => free[p] \in 1 .. ObjCount - 1)
  BY <1>2, SlabAssumption DEF IInv, ListByCount
<1>4. /\ mask[p] = NewMask \cup UsedIn(p)
      /\ free[p] = Cardinality(Slot \ UsedIn(p))
      /\ UsedIn(p) # Slot
  BY <1>2, <1>3, PoolCounts
<1>5. ListAfterTake(list, free[p] - 1) = IF free[p] = 1 THEN "busy" ELSE "partial"
  BY <1>3, SlabAssumption DEF ListAfterTake
<1>6. user' = [user EXCEPT ![p] = "cache"] /\ tag' = [tag EXCEPT ![p] = "this"]
  BY <1>1, <1>2, <1>3 DEF IInv, TypeOK, TagTellsOwner
<1>7. \/ ListAfterTake(list, free[p] - 1) = "busy" /\ free[p] = 1
      \/ ListAfterTake(list, free[p] - 1) = "partial" /\ free[p] # 1
  BY <1>5
<1> QED
  BY <1>1, <1>2, <1>4, <1>6, <1>7, TakeKeeps

LEMMA AllocNewKeeps ==
  ASSUME IInv, NEW t \in Thread, AllocNew(t)
  PROVE  IInv'
<1>1. PICK p \in Block :
        /\ Runs(t)
        /\ user[p] = "pages"
        /\ user' = [user EXCEPT ![p] = "cache"]
        /\ tag' = [tag EXCEPT ![p] = "this"]
        /\ TakeSlot(p, NewMask, NewFree, "partial")
        /\ UNCHANGED <<pc, arg, released>>
  BY DEF AllocNew
<1>2. UsedIn(p) = {}
  BY <1>1 DEF IInv, InUseIsOurs, UsedIn
<1>3. /\ NewMask \cup UsedIn(p) = NewMask /\ Slot \ UsedIn(p) = Slot
      /\ UsedIn(p) # Slot
  BY <1>2, SlabAssumption DEF Slot
<1>4. Cardinality(Slot \ UsedIn(p)) = NewFree /\ NewFree # 1
  BY <1>3, SlotsAreFinite, SlabAssumption DEF NewFree
<1>5. ~released
  BY <1>1 DEF Runs
<1> QED
  BY <1>1, <1>3, <1>4, <1>5, TakeKeeps

\* A step that changes neither a pool nor which objects are in use.
LEMMA SamePools ==
  ASSUME IInv, TypeOK', NoBug', FreeHasObject',
         InUse' = InUse,
         \A t \in Busy' : arg'[t] \notin live',
         \A t, u \in Busy' : arg'[t] = arg'[u] => t = u,
         UNCHANGED <<on, mask, free, released>>,
         \A p \in Block : user[p] = "cache" <=> user'[p] = "cache",
         \A p \in Block : user[p] = "cache" => tag'[p] = tag[p]
  PROVE  IInv'
<1>1. \A p \in Block : UsedIn(p)' = UsedIn(p)
  BY DEF UsedIn
<1>2. FreeCounts' /\ MaskTellsUse'
  BY <1>1 DEF IInv, FreeCounts, MaskTellsUse
<1>3. InUseIsOurs'
  <2>1. \A o \in InUse : o.block \in Block
    BY DEF IInv, TypeOK, FreeHasObject, InUse, Object
  <2> QED
    BY <2>1 DEF IInv, InUseIsOurs
<1>4. ListByCount' /\ ReleasedIsEmpty' /\ TagTellsOwner'
  BY DEF IInv, ListByCount, ReleasedIsEmpty, TagTellsOwner
<1> QED
  BY <1>2, <1>3, <1>4 DEF IInv

\* mem_free: the object goes from live to arg.
LEMMA FreeLookupKeeps ==
  ASSUME IInv, NEW t \in Thread, FreeLookup(t)
  PROVE  IInv'
<1>1. PICK o \in live :
        /\ pc[t] = "idle"
        /\ live' = live \ {o}
        /\ machine' = IF tag[o.block] = "this" THEN machine ELSE "BUG"
        /\ pc' = [pc EXCEPT ![t] = "free"]
        /\ arg' = [arg EXCEPT ![t] = o]
        /\ UNCHANGED <<on, mask, free, user, tag, released>>
  BY DEF FreeLookup, Runs
<1>2. o \in InUse /\ o \in Object
  BY DEF IInv, TypeOK, InUse
<1>3. NoBug'
  BY <1>1, <1>2 DEF IInv, InUseIsOurs, NoBug
<1>4. Busy' = Busy \cup {t} /\ t \notin Busy
  BY <1>1 DEF IInv, TypeOK, Busy
<1>5. arg'[t] = o /\ \A u \in Busy : arg'[u] = arg[u]
  BY <1>1, <1>4 DEF IInv, TypeOK, Busy
<1>6. InUse' = InUse
  BY <1>1, <1>4, <1>5 DEF InUse
<1>7. \A u \in Busy : arg[u] # o
  BY DEF IInv, MaskTellsUse
<1>8. /\ \A u \in Busy' : arg'[u] \notin live'
      /\ \A u, v \in Busy' : arg'[u] = arg'[v] => u = v
  BY <1>1, <1>4, <1>5, <1>7 DEF IInv, MaskTellsUse
<1>9. FreeHasObject'
  BY <1>2, <1>4, <1>5 DEF IInv, FreeHasObject
<1>10. TypeOK'
  BY <1>1, <1>2, <1>3 DEF IInv, TypeOK, NoBug
<1> QED
  BY <1>1, <1>3, <1>6, <1>8, <1>9, <1>10, SamePools

\* The page allocator's other clients.
LEMMA OthersKeep ==
  ASSUME IInv, OthersTake \/ OthersReturn
  PROVE  IInv'
<1>1. PICK blocks \in SUBSET Block, to \in {"other", "pages"} :
        /\ \A q \in blocks : user[q] # "cache"
        /\ Pass(blocks, to)
  BY DEF OthersTake, OthersReturn, Of
<1>2. TypeOK' /\ NoBug'
  BY <1>1 DEF Pass, Remark, IInv, TypeOK, NoBug
<1>3. InUse' = InUse /\ Busy' = Busy /\ UNCHANGED <<arg, live, on, mask, free, released>>
  BY <1>1 DEF Pass, InUse, Busy
<1>4. FreeHasObject'
  BY <1>3 DEF IInv, FreeHasObject
<1>5. /\ \A q \in Block : user[q] = "cache" <=> user'[q] = "cache"
      /\ \A q \in Block : user[q] = "cache" => tag'[q] = tag[q]
  BY <1>1 DEF Pass, Remark
<1>6. /\ \A u \in Busy' : arg'[u] \notin live'
      /\ \A u, v \in Busy' : arg'[u] = arg'[v] => u = v
  BY <1>3 DEF IInv, MaskTellsUse
<1> QED
  BY <1>2, <1>3, <1>4, <1>5, <1>6, SamePools

\* mem_cache_free: the slot of arg is clear again, the pool moves by its count.
LEMMA FreeSlotKeeps ==
  ASSUME IInv, NEW t \in Thread, FreeSlot(t)
  PROVE  IInv'
<1> DEFINE o == arg[t]
           p == arg[t].block
           s == arg[t].slot
<1>1. /\ pc[t] = "free" /\ t \in Busy
      /\ mask' = [mask EXCEPT ![p] = @ \ {s}]
      /\ free' = [free EXCEPT ![p] = @ + 1]
      /\ on' = [on EXCEPT ![p] = ListAfterFree(@, free'[p])]
      /\ machine' = IF s \notin mask[p] \/ free'[p] > ObjCount \/ on[p] = "none"
                    THEN "BUG" ELSE machine
      /\ pc' = [pc EXCEPT ![t] = "idle"]
      /\ arg' = [arg EXCEPT ![t] = NULL]
      /\ UNCHANGED <<user, tag, live, released>>
  BY DEF FreeSlot, ReturnSlot, Busy
<1>2. /\ o \in Object /\ o \in InUse /\ p \in Block /\ s \in Slot
      /\ o = [block |-> p, slot |-> s]
  BY <1>1 DEF IInv, FreeHasObject, InUse, Object
<1>3. user[p] = "cache" /\ ~released /\ s \in UsedIn(p)
  BY <1>2 DEF IInv, InUseIsOurs, ReleasedIsEmpty, UsedIn
<1> DEFINE rest == UsedIn(p) \ {s}
<1>4. rest \in SUBSET Slot /\ s \in Slot \ rest /\ rest \cup {s} = UsedIn(p)
  BY <1>2, <1>3 DEF UsedIn
<1>5. /\ free[p] = Cardinality(Slot \ rest) - 1
      /\ Cardinality(Slot \ rest) \in 1 .. ObjCount
      /\ free'[p] = Cardinality(Slot \ rest)
  <2>1. /\ Cardinality(Slot \ UsedIn(p)) = Cardinality(Slot \ rest) - 1
        /\ Cardinality(Slot \ rest) \in 1 .. ObjCount
    BY <1>4, OneSlotLess
  <2>2. free[p] = Cardinality(Slot \ UsedIn(p))
    BY <1>2, <1>3, PoolCounts
  <2>3. free'[p] = free[p] + 1
    BY <1>1, <1>2 DEF IInv, TypeOK
  <2> QED
    BY <2>1, <2>2, <2>3, SlabAssumption
<1>6. mask[p] = NewMask \cup UsedIn(p) /\ s \in mask[p] /\ s \notin NewMask
      /\ mask'[p] = NewMask \cup rest
  BY <1>1, <1>2, <1>3, PoolCounts, BitsArePartitioned DEF IInv, TypeOK
<1>7. on[p] # "none" /\ NoBug'
  BY <1>1, <1>2, <1>3, <1>5, <1>6, SlabAssumption DEF IInv, ListByCount, NoBug
<1>8. /\ Busy' = Busy \ {t}
      /\ \A u \in Busy' : arg'[u] = arg[u] /\ arg[u] # o
      /\ InUse' = InUse \ {o}
  <2>1. Busy' = Busy \ {t}
    BY <1>1 DEF IInv, TypeOK, Busy
  <2>2. \A u \in Busy' : arg'[u] = arg[u] /\ arg[u] # o
    BY <1>1, <2>1 DEF IInv, TypeOK, MaskTellsUse, Busy
  <2>3. o \notin live
    BY <1>1 DEF IInv, MaskTellsUse
  <2> QED
    BY <1>1, <2>1, <2>2, <2>3 DEF InUse
<1>9. \A q \in Block : UsedIn(q)' = IF q = p THEN rest ELSE UsedIn(q)
  BY <1>2, <1>8 DEF UsedIn
<1>10. \A q \in Block \ {p} : /\ mask'[q] = mask[q] /\ free'[q] = free[q]
                              /\ on'[q] = on[q]
  BY <1>1 DEF IInv, TypeOK
<1>11. /\ on'[p] \in {"free", "partial", on[p]}
       /\ on'[p] = "free" => free'[p] = ObjCount
       /\ on'[p] = "partial" => free'[p] \in 1 .. ObjCount - 1
       /\ on'[p] \notin {"none", "busy"}
  <2>1. on'[p] = ListAfterFree(on[p], free'[p])
    BY <1>1, <1>2 DEF IInv, TypeOK
  <2>2. /\ on[p] = "free" => free[p] = ObjCount
        /\ on[p] = "partial" => free[p] \in 1 .. ObjCount - 1
        /\ on[p] = "busy" => free[p] = 0
        /\ on[p] \in {"free", "partial", "busy"}
    BY <1>2, <1>3, <1>7 DEF IInv, ListByCount, TypeOK, Lists
  <2>3. free'[p] = free[p] + 1 /\ free[p] \in 0 .. ObjCount - 1
    BY <1>5, SlabAssumption
  <2> QED
    BY <2>1, <2>2, <2>3, SlabAssumption DEF ListAfterFree
<1>12. TypeOK'
  <2>1. free'[p] \in 0 .. ObjCount
    BY <1>5, SlabAssumption
  <2>2. on' \in [Block -> Lists]
    BY <1>1, <1>11 DEF IInv, TypeOK, Lists
  <2>3. free' \in [Block -> 0 .. ObjCount]
    BY <1>1, <1>10, <2>1 DEF IInv, TypeOK
  <2> QED
    BY <1>1, <1>7, <2>2, <2>3 DEF IInv, TypeOK, NoBug
<1>13. InUseIsOurs' /\ FreeHasObject' /\ TagTellsOwner' /\ ReleasedIsEmpty'
  BY <1>1, <1>3, <1>8 DEF IInv, InUseIsOurs, FreeHasObject, TagTellsOwner,
                          ReleasedIsEmpty
<1>14. MaskTellsUse'
  BY <1>1, <1>6, <1>8, <1>9, <1>10 DEF IInv, MaskTellsUse
<1>15. FreeCounts'
  <2>1. ASSUME NEW q \in Block \ {p}, user'[q] = "cache"
        PROVE  free'[q] = Cardinality(Slot \ UsedIn(q)')
    BY <1>1, <1>9, <1>10, <2>1 DEF IInv, FreeCounts
  <2>2. ASSUME NEW q \in Block, q = p
        PROVE  free'[q] = Cardinality(Slot \ UsedIn(q)')
    BY <1>5, <1>9, <2>2
  <2> QED
    BY <2>1, <2>2 DEF FreeCounts
<1>16. ListByCount'
  <2>1. ASSUME NEW q \in Block \ {p}, ~released'
        PROVE  /\ on'[q] = "none"    <=> user'[q] # "cache"
               /\ on'[q] = "free"     => free'[q] = ObjCount
               /\ on'[q] = "partial"  => free'[q] \in 1 .. ObjCount - 1
               /\ on'[q] = "busy"     => free'[q] = 0
    BY <1>1, <1>10, <2>1 DEF IInv, ListByCount
  <2>2. user'[p] = "cache"
    BY <1>1, <1>3
  <2> QED
    BY <1>11, <2>1, <2>2 DEF ListByCount
<1> QED
  BY <1>7, <1>12, <1>13, <1>14, <1>15, <1>16 DEF IInv

\* Destroyed pools, of which none has an object in use, leave the rest as it
\* was.
LEMMA DestroyKeeps ==
  ASSUME IInv, ~released, TypeOK', NoBug', NEW gone \in SUBSET Block,
         \A p \in gone : on[p] = "free",
         \A p \in Block : on'[p] = IF p \in gone THEN "none" ELSE on[p],
         \A p \in gone : user'[p] = "pages",
         \A p \in Block \ gone : user'[p] = user[p] /\ tag'[p] = tag[p],
         UNCHANGED <<mask, free, live, pc, arg>>
  PROVE  /\ InUseIsOurs' /\ MaskTellsUse' /\ FreeCounts' /\ FreeHasObject'
         /\ TagTellsOwner'
         /\ UNCHANGED released => IInv'
<1>1. InUse' = InUse /\ Busy' = Busy /\ \A p \in Block : UsedIn(p)' = UsedIn(p)
  BY DEF InUse, Busy, UsedIn
<1>2. \A p \in gone : UsedIn(p) = {}
  <2> TAKE p \in gone
  <2>1. user[p] = "cache" /\ free[p] = ObjCount
    BY DEF IInv, ListByCount
  <2> QED
    BY <2>1, PoolCounts
<1>3. \A o \in InUse : o.block \in Block \ gone
  <2>1. \A o \in InUse : o \in Object
    BY DEF IInv, TypeOK, FreeHasObject, InUse
  <2>2. \A o \in Object :
          o = [block |-> o.block, slot |-> o.slot] /\ o.slot \in Slot
          /\ o.block \in Block
    BY DEF Object
  <2> QED
    BY <1>2, <2>1, <2>2 DEF UsedIn
<1>4. InUseIsOurs' /\ FreeHasObject' /\ TagTellsOwner'
  BY <1>1, <1>3 DEF IInv, InUseIsOurs, FreeHasObject, TagTellsOwner
<1>5. MaskTellsUse' /\ FreeCounts'
  BY <1>1 DEF IInv, MaskTellsUse, FreeCounts
<1>6. ListByCount' /\ (UNCHANGED released => ReleasedIsEmpty')
  BY DEF IInv, ListByCount, ReleasedIsEmpty
<1> QED
  BY <1>4, <1>5, <1>6 DEF IInv

LEMMA ShrinkKeeps ==
  ASSUME IInv, NEW t \in Thread, Shrink(t)
  PROVE  IInv'
<1> DEFINE gone == {p \in Block : on[p] = "free"}
<1>1. /\ ~released
      /\ machine' = IF \E p \in gone : free[p] # ObjCount THEN "BUG" ELSE machine
      /\ tag' = [p \in Block |-> IF p \in gone THEN "none" ELSE tag[p]]
      /\ user' = [p \in Block |-> IF p \in gone THEN "pages" ELSE user[p]]
      /\ on' = [p \in Block |-> IF p \in gone THEN "none" ELSE on[p]]
      /\ UNCHANGED <<mask, free, live, pc, arg, released>>
  BY DEF Shrink, Destroy, Doomed, Runs
<1>2. NoBug'
  BY <1>1 DEF IInv, ListByCount, NoBug
<1>3. TypeOK'
  BY <1>1, <1>2 DEF IInv, TypeOK, NoBug, Lists, Tags
<1>4. \A p \in gone : on[p] = "free"
  OBVIOUS
<1>5. gone \in SUBSET Block
  OBVIOUS
<1> HIDE DEF gone
<1> QED
  BY <1>1, <1>2, <1>3, <1>4, <1>5, DestroyKeeps

\* mem_cache_release: without objects in use every pool is in free_pools.
LEMMA ReleaseKeeps ==
  ASSUME IInv, NEW t \in Thread, Release(t)
  PROVE  IInv'
<1>1. /\ ~released /\ released' = TRUE
      /\ live = {} /\ \A u \in Thread : pc[u] = "idle"
      /\ tag' = [p \in Block |-> IF on[p] = "free" THEN "none" ELSE tag[p]]
      /\ user' = [p \in Block |-> IF on[p] = "free" THEN "pages" ELSE user[p]]
      /\ machine' = IF \/ Pools("busy") # {} \/ Pools("partial") # {}
                       \/ \E p \in Block : on[p] = "free" /\ free[p] # ObjCount
                    THEN "BUG" ELSE machine
      /\ UNCHANGED <<on, mask, free, live, pc, arg>>
  BY DEF Release, Runs
<1>2. InUse = {} /\ \A p \in Block : UsedIn(p) = {}
  BY <1>1 DEF InUse, Busy, UsedIn
<1>3. \A p \in Block : user[p] = "cache" => on[p] = "free" /\ free[p] = ObjCount
  <2> TAKE p \in Block
  <2> HAVE user[p] = "cache"
  <2>1. free[p] = ObjCount
    BY <1>2, PoolCounts
  <2> QED
    BY <1>1, <2>1, SlabAssumption DEF IInv, ListByCount, TypeOK, Lists
<1>4. \A p \in Block : on[p] # "busy" /\ on[p] # "partial"
                       /\ (on[p] = "free" => free[p] = ObjCount)
  BY <1>1, <1>3 DEF IInv, ListByCount
<1>5. NoBug'
  BY <1>1, <1>4 DEF IInv, NoBug, Pools
<1>6. TypeOK'
  BY <1>1, <1>5 DEF IInv, TypeOK, NoBug, Tags
<1>7. InUse' = {} /\ Busy' = {} /\ \A p \in Block : user'[p] # "cache"
  BY <1>1, <1>2, <1>3 DEF InUse, Busy, IInv, TypeOK
<1>8. InUseIsOurs' /\ MaskTellsUse' /\ FreeCounts' /\ FreeHasObject'
      /\ TagTellsOwner' /\ ReleasedIsEmpty' /\ ListByCount'
  BY <1>1, <1>7 DEF InUseIsOurs, MaskTellsUse, FreeCounts, FreeHasObject,
                    TagTellsOwner, ReleasedIsEmpty, ListByCount
<1> QED
  BY <1>5, <1>6, <1>8 DEF IInv

LEMMA SetupKeeps ==
  ASSUME IInv, Setup
  PROVE  IInv'
<1>1. InUse' = InUse /\ Busy' = Busy /\ InUse = {} /\ (\A p \in Block : user[p] # "cache")
  BY DEF Setup, InUse, Busy, IInv, ReleasedIsEmpty
<1>2. \A p \in Block : user'[p] # "cache" /\ on'[p] = "none"
  BY <1>1 DEF Setup
<1>3. TypeOK' /\ NoBug'
  BY DEF Setup, IInv, TypeOK, NoBug, Lists
<1>4. InUseIsOurs' /\ MaskTellsUse' /\ FreeHasObject'
  BY <1>1, <1>2 DEF Setup, IInv, InUseIsOurs, MaskTellsUse, FreeHasObject
<1>5. FreeCounts' /\ TagTellsOwner' /\ ReleasedIsEmpty' /\ ListByCount'
  BY <1>1, <1>2 DEF Setup, FreeCounts, TagTellsOwner, ReleasedIsEmpty, ListByCount
<1> QED
  BY <1>3, <1>4, <1>5 DEF IInv

\* Every step keeps the invariant.
LEMMA StepHolds ==
  ASSUME IInv, [Next]_vars
  PROVE  IInv'
<1>1. ASSUME NEW t \in Thread, AllocPartial(t) \/ AllocFree(t)
      PROVE  IInv'
  BY <1>1, AllocFromKeeps DEF AllocPartial, AllocFree
<1>2. ASSUME NEW t \in Thread, AllocNew(t)
      PROVE  IInv'
  BY <1>2, AllocNewKeeps
<1>3. ASSUME NEW t \in Thread, FreeLookup(t)
      PROVE  IInv'
  BY <1>3, FreeLookupKeeps
<1>4. ASSUME NEW t \in Thread, FreeSlot(t)
      PROVE  IInv'
  BY <1>4, FreeSlotKeeps
<1>5. ASSUME NEW t \in Thread, Shrink(t)
      PROVE  IInv'
  BY <1>5, ShrinkKeeps
<1>6. ASSUME NEW t \in Thread, Release(t)
      PROVE  IInv'
  BY <1>6, ReleaseKeeps
<1>7. CASE Setup
  BY <1>7, SetupKeeps
<1>8. CASE OthersTake \/ OthersReturn
  BY <1>8, OthersKeep
<1>9. CASE UNCHANGED vars
  BY <1>9 DEF vars, IInv, TypeOK, NoBug, InUseIsOurs, InUse, Busy, MaskTellsUse,
              UsedIn, FreeCounts, ListByCount, ReleasedIsEmpty, TagTellsOwner,
              FreeHasObject
<1> QED
  BY <1>1, <1>2, <1>3, <1>4, <1>5, <1>6, <1>7, <1>8, <1>9 DEF Next

LEMMA Invariance == Spec => []IInv
<1> QED
  BY InitHolds, StepHolds, PTL DEF Spec

-----------------------------------------------------------------------------
(* The theorems                                                            *)

\* Type correctness of one mem_cache.
THEOREM TypeCorrect == Spec => []TypeOK
BY Invariance, PTL DEF IInv

\* Whatever mem_cache_shrink, the page allocator and other threads do, the
\* memory of an object in use stays the cache's, and mem_free finds the cache
\* from the page.
THEOREM ObjectsAreOwned == Spec => []InUseIsOurs
BY Invariance, PTL DEF IInv

\* The bitmask tells the objects in use: mem_cache_alloc hands out no object
\* twice, and mem_cache_free loses none.
THEOREM MaskIsRight == Spec => []MaskTellsUse
BY Invariance, PTL DEF IInv

\* mem_cache_alloc and mem_cache_free move a pool to the list its fill asks for.
THEOREM ListsAreRight == Spec => []ListTellsFill
<1>1. IInv => ListTellsFill
  <2> SUFFICES ASSUME IInv, ~released, NEW p \in Block
               PROVE  /\ on[p] = "none"    <=> user[p] # "cache"
                      /\ on[p] = "free"     => UsedIn(p) = {}
                      /\ on[p] = "partial"  => UsedIn(p) # {} /\ UsedIn(p) # Slot
                      /\ on[p] = "busy"     => UsedIn(p) = Slot
    BY DEF ListTellsFill
  <2>1. /\ on[p] = "none"    <=> user[p] # "cache"
        /\ on[p] = "free"     => free[p] = ObjCount
        /\ on[p] = "partial"  => free[p] \in 1 .. ObjCount - 1
        /\ on[p] = "busy"     => free[p] = 0
    BY DEF IInv, ListByCount
  <2>2. CASE user[p] = "cache"
    <3>1. /\ free[p] = 0 <=> UsedIn(p) = Slot
          /\ free[p] = ObjCount <=> UsedIn(p) = {}
      BY <2>2, PoolCounts
    <3>2. on[p] = "partial" => free[p] # 0 /\ free[p] # ObjCount
      BY <2>1, SlabAssumption
    <3> QED
      BY <2>1, <3>1, <3>2
  <2>3. CASE user[p] # "cache"
    BY <2>1, <2>3
  <2> QED
    BY <2>2, <2>3
<1> QED
  BY <1>1, Invariance, PTL

\* No BUG_ON of mem_pool_alloc, mem_pool_free, mem_pool_destroy and
\* mem_cache_release fires.
THEOREM AssertionsHold == Spec => []NoBug
BY Invariance, PTL DEF IInv

\* mem_cache_alloc takes pages only when all its pools are full.
THEOREM GrowsLast == Spec => GrowsOnlyWhenFull
<1> DEFINE Grows == \E p \in Block : user[p] = "pages" /\ user'[p] = "cache"
           Full == \A p \in Block : user[p] = "cache" => UsedIn(p) = Slot
<1>1. ASSUME IInv, [Next]_vars, Grows
      PROVE  Full
  <2>1. PICK p \in Block : user[p] = "pages" /\ user'[p] = "cache"
    BY <1>1
  <2>2. \E t \in Thread : AllocNew(t)
    <3>1. ASSUME NEW t \in Thread,
                 AllocPartial(t) \/ AllocFree(t) \/ FreeLookup(t) \/ FreeSlot(t)
          PROVE  UNCHANGED user
      BY <3>1 DEF AllocPartial, AllocFree, AllocFrom, FreeLookup, FreeSlot
    <3>2. ASSUME NEW t \in Thread, Shrink(t) \/ Release(t)
          PROVE  user'[p] \in {"pages", user[p]}
      BY <3>2 DEF Shrink, Release, Destroy
    <3>3. ASSUME OthersTake \/ OthersReturn
          PROVE  user'[p] \in {"pages", "other", user[p]}
      BY <3>3 DEF OthersTake, OthersReturn, Pass
    <3>4. CASE Setup
      BY <2>1, <3>4 DEF Setup
    <3>5. CASE UNCHANGED vars
      BY <2>1, <3>5 DEF vars
    <3> QED
      BY <1>1, <2>1, <3>1, <3>2, <3>3, <3>4, <3>5 DEF Next
  <2>3. ~released /\ \A q \in Block : on[q] # "partial" /\ on[q] # "free"
    BY <2>2 DEF AllocNew, Runs, Pools
  <2>4. ASSUME NEW q \in Block, user[q] = "cache"
        PROVE  UsedIn(q) = Slot
    <3>1. on[q] = "busy" /\ free[q] = 0
      BY <1>1, <2>3, <2>4 DEF IInv, ListByCount, TypeOK, Lists
    <3> QED
      BY <1>1, <2>4, <3>1, PoolCounts
  <2> QED
    BY <2>4
<1>2. IInv /\ [Next]_vars => [Grows => Full]_vars
  BY <1>1
<1>3. [][Grows => Full]_vars <=> GrowsOnlyWhenFull
  BY DEF GrowsOnlyWhenFull
<1> QED
  BY <1>2, <1>3, Invariance, PTL DEF Spec

-----------------------------------------------------------------------------
(* Blocks of whole pages                                                   *)

\* A block of whole pages begins in the first of the cache's blocks it has.
LEMMA FirstOfBlocks ==
  ASSUME NEW w \in Whole
  PROVE  w.first \in BlocksOf(w) /\ BlocksOf(w) \subseteq Block
BY HeapAssumption DEF Whole, BlocksOf, Around

\* What an invariant step has to leave alone: the marks of whole pages.
LEMMA WholePagesKept ==
  ASSUME HInv, IInv', UNCHANGED whole,
         order' = [b \in Block |-> order'[b]],
         \A w \in whole : \A b \in BlocksOf(w) :
           user'[b] = "other" /\ tag'[b] = tag[b] /\ order'[b] = order[b]
  PROVE  HInv'
<1>1. \A w : BlocksOf(w)' = BlocksOf(w)
  BY DEF BlocksOf, Around
<1>2. \A w \in whole : w.first \in BlocksOf(w)
  BY FirstOfBlocks DEF HInv
<1>3. FreeFindsItsWay'
  BY <1>1, <1>2 DEF HInv, FreeFindsItsWay
<1> QED
  BY <1>3 DEF HInv

-----------------------------------------------------------------------------
(* Steps                                                                   *)

\* mem_cache_alloc
LEMMA FromCacheKeeps ==
  ASSUME HInv, IInv', NEW t \in Thread, FromCache(t)
  PROVE  Next /\ HInv'
<1>1. Next
  BY DEF FromCache, Next
<1>2. \A b \in Block : user[b] = "other" => user'[b] = "other" /\ tag'[b] = tag[b]
  BY DEF FromCache, AllocPartial, AllocFree, AllocFrom, AllocNew, HInv, IInv, TypeOK
<1>3. order' = [b \in Block |-> order'[b]]
      /\ \A b \in Block : tag'[b] = tag[b] => order'[b] = order[b]
  BY DEF FromCache, CacheOverOrder
<1>4. \A w \in whole : \A b \in BlocksOf(w) : b \in Block /\ user[b] = "other"
  BY FirstOfBlocks DEF HInv, FreeFindsItsWay
<1>5. UNCHANGED whole
  BY DEF FromCache
<1> QED
  BY <1>1, <1>2, <1>3, <1>4, <1>5, WholePagesKept

\* __page_alloc for whole pages, and the marks: a step of the others.
LEMMA FromPagesIsTaking ==
  ASSUME HInv, machine = "up", NEW n \in Orders, NEW w \in Free(n), FromPages(w)
  PROVE  OthersTake
<1>1. w \in Whole /\ BlocksOf(w) \subseteq Of("pages")
  BY DEF Free
<1>2. w.first \in BlocksOf(w) /\ w.first \in Block
  BY <1>1, FirstOfBlocks
<1>3. tag \in [Block -> Tags] /\ tag' = [tag EXCEPT ![w.first] = "none"]
  BY DEF HInv, IInv, TypeOK, FromPages, MarkWhole
<1>4. Remark(BlocksOf(w))
  BY <1>2, <1>3 DEF Remark, Tags
<1>5. Pass(BlocksOf(w), "other")
  BY <1>4 DEF Pass, FromPages, SetUser
<1> QED
  BY <1>1, <1>5 DEF OthersTake

LEMMA FromPagesKeeps ==
  ASSUME HInv, IInv', NEW n \in Orders, NEW w \in Free(n), FromPages(w)
  PROVE  HInv'
<1>1. w \in Whole /\ BlocksOf(w) \subseteq Of("pages")
  BY DEF Free
<1>2. \A v \in whole : BlocksOf(v) \subseteq Block /\ v.first \in BlocksOf(v)
  BY FirstOfBlocks DEF HInv
<1>3. \A v \in whole : BlocksOf(v) \cap BlocksOf(w) = {}
  <2>1. \A v \in whole : \A b \in BlocksOf(v) : user[b] = "other"
    BY DEF HInv, FreeFindsItsWay
  <2> QED
    BY <1>1, <2>1 DEF Of
<1>4. w.first \in BlocksOf(w) /\ BlocksOf(w) \subseteq Block
  BY <1>1, FirstOfBlocks
<1>5. /\ tag' = [tag EXCEPT ![w.first] = "none"]
      /\ order' = [order EXCEPT ![w.first] = w.order]
      /\ whole' = whole \cup {w}
      /\ \A b \in Block : user'[b] = IF b \in BlocksOf(w) THEN "other" ELSE user[b]
  BY DEF FromPages, MarkWhole, SetUser
<1>6. tag \in [Block -> Tags] /\ order = [b \in Block |-> order[b]]
      /\ order' = [b \in Block |-> order'[b]]
  BY <1>5 DEF HInv, IInv, TypeOK
<1>7. \A v : BlocksOf(v)' = BlocksOf(v)
  BY DEF BlocksOf, Around
<1>8. ASSUME NEW v \in whole'
      PROVE  /\ tag'[v.first] = "none" /\ order'[v.first] = v.order
             /\ \A b \in BlocksOf(v) : user'[b] = "other"
  <2>1. CASE v = w
    BY <1>4, <1>5, <1>6, <2>1
  <2>2. CASE v \in whole /\ v # w
    <3>1. v.first # w.first /\ v.first \in Block
      BY <1>2, <1>3, <1>4, <2>2
    <3>2. tag[v.first] = "none" /\ order[v.first] = v.order
          /\ \A b \in BlocksOf(v) : user[b] = "other"
      BY <2>2 DEF HInv, FreeFindsItsWay
    <3> QED
      BY <1>2, <1>5, <1>6, <2>2, <3>1, <3>2
  <2> QED
    BY <1>5, <2>1, <2>2
<1>9. \A v, u \in whole' : v # u => BlocksOf(v) \cap BlocksOf(u) = {}
  BY <1>3, <1>5 DEF HInv, FreeFindsItsWay
<1> QED
  BY <1>1, <1>5, <1>6, <1>7, <1>8, <1>9 DEF HInv, FreeFindsItsWay

\* mem_free of whole pages: the others return what they took.
LEMMA FreePagesIsReturning ==
  ASSUME HInv, machine = "up", NEW w \in whole, FreePages(w)
  PROVE  OthersReturn
<1>1. tag[w.first] = "none" /\ order[w.first] = w.order
      /\ \A b \in BlocksOf(w) : user[b] = "other"
  BY DEF HInv, FreeFindsItsWay
<1>2. BlocksOf(w) \subseteq Of("other")
  BY <1>1, FirstOfBlocks DEF HInv, Of
<1>3. SetUser(BlocksOf(w), "pages") /\ UNCHANGED machine
  BY <1>1 DEF FreePages, BlocksOf
<1>4. Remark(BlocksOf(w))
  BY DEF FreePages, Remark, HInv, IInv, TypeOK
<1>5. Pass(BlocksOf(w), "pages")
  BY <1>3, <1>4 DEF Pass, FreePages, SetUser
<1> QED
  BY <1>2, <1>5 DEF OthersReturn

LEMMA FreePagesKeeps ==
  ASSUME HInv, IInv', NEW w \in whole, FreePages(w)
  PROVE  HInv'
<1>1. order[w.first] = w.order
  BY DEF HInv, FreeFindsItsWay
<1>2. /\ whole' = whole \ {w}
      /\ order' = [order EXCEPT ![w.first] = 0]
      /\ UNCHANGED tag
      /\ \A b \in Block : user'[b] = IF b \in BlocksOf(w) THEN "pages" ELSE user[b]
  BY <1>1 DEF FreePages, SetUser, BlocksOf
<1>3. order = [b \in Block |-> order[b]] /\ order' = [b \in Block |-> order'[b]]
  BY <1>2 DEF HInv
<1>4. \A v : BlocksOf(v)' = BlocksOf(v)
  BY DEF BlocksOf, Around
<1>5. ASSUME NEW v \in whole'
      PROVE  /\ tag'[v.first] = "none" /\ order'[v.first] = v.order
             /\ \A b \in BlocksOf(v) : user'[b] = "other"
  <2>1. v \in whole /\ v # w
    BY <1>2
  <2>2. BlocksOf(v) \cap BlocksOf(w) = {} /\ tag[v.first] = "none"
        /\ order[v.first] = v.order /\ \A b \in BlocksOf(v) : user[b] = "other"
    BY <2>1 DEF HInv, FreeFindsItsWay
  <2>3. v.first \in BlocksOf(v) /\ BlocksOf(v) \subseteq Block /\ w.first \in BlocksOf(w)
    BY <2>1, FirstOfBlocks DEF HInv
  <2>4. v.first # w.first /\ v.first \in Block
    BY <2>2, <2>3
  <2>5. order'[v.first] = order[v.first]
    BY <1>2, <1>3, <2>4
  <2> QED
    BY <1>2, <2>2, <2>3, <2>5
<1>6. \A v, u \in whole' : v # u => BlocksOf(v) \cap BlocksOf(u) = {}
  BY <1>2 DEF HInv, FreeFindsItsWay
<1> QED
  BY <1>2, <1>3, <1>4, <1>5, <1>6 DEF HInv, FreeFindsItsWay

\* Objects, and what they live in, when no whole pages come or go.
LEMMA OthersKept ==
  ASSUME HInv, IInv', UNCHANGED whole,
         order' = [b \in Block |-> order'[b]],
         \A b \in Block : user[b] = "other" =>
           user'[b] = "other" /\ tag'[b] = tag[b] /\ order'[b] = order[b]
  PROVE  HInv'
<1>1. \A w \in whole : \A b \in BlocksOf(w) : b \in Block /\ user[b] = "other"
  BY FirstOfBlocks DEF HInv, FreeFindsItsWay
<1> QED
  BY <1>1, WholePagesKept

LEMMA StandstillKeeps ==
  ASSUME HInv, IInv', UNCHANGED <<user, tag, order, whole>>
  PROVE  HInv'
BY OthersKept DEF HInv

\* mem_cache_shrink and mem_cache_release give back what is the cache's.
LEMMA ShrinkingKeeps ==
  ASSUME HInv, IInv', NEW t \in Thread, Shrinking(t) \/ Releasing(t),
         UNCHANGED whole
  PROVE  HInv'
<1>1. CacheOverOrder /\ ~released
  BY DEF Shrinking, Releasing, Ready, Runs
<1>2. \A b \in Block : user[b] = "other" => on[b] # "free"
  BY <1>1 DEF HInv, IInv, ListByCount
<1>3. \A b \in Block : on[b] # "free" => user'[b] = user[b] /\ tag'[b] = tag[b]
  BY DEF Shrinking, Releasing, Shrink, Release, Destroy, Doomed
<1> QED
  BY <1>1, <1>2, <1>3, OthersKept DEF CacheOverOrder

\* The other caches take a block nobody holds, and return one that is in no
\* whole pages.
LEMMA OtherCacheIsOthers ==
  ASSUME HInv, OtherCache
  PROVE  OthersTake \/ OthersReturn
<1>1. PICK b \in Block : CacheTakes(b) \/ CacheReturns(b)
  BY DEF OtherCache
<1>2. user \in [Block -> {"pages", "cache", "other"}] /\ tag \in [Block -> Tags]
  BY DEF HInv, IInv, TypeOK
<1>3. ASSUME NEW to, Remark({b}), user' = [p \in Block |-> IF p \in {b} THEN to ELSE user[p]]
      PROVE  Pass({b}, to)
  <2>1. machine = "up"
        /\ UNCHANGED <<machine, on, mask, free, live, pc, arg, released>>
    BY DEF OtherCache
  <2> QED
    BY <1>3, <2>1, Zenon DEF Pass
<1>4. CASE CacheTakes(b)
  <2>1. {b} \in SUBSET Of("pages") /\ Remark({b})
    BY <1>2, <1>4 DEF CacheTakes, Of, Remark, Tags
  <2>2. user' = [p \in Block |-> IF p \in {b} THEN "other" ELSE user[p]]
    BY <1>2, <1>4 DEF CacheTakes
  <2>3. Pass({b}, "other")
    BY <1>3, <2>1, <2>2
  <2> QED
    BY <2>1, <2>3 DEF OthersTake
<1>5. CASE CacheReturns(b)
  <2>1. {b} \in SUBSET Of("other") /\ Remark({b})
    BY <1>2, <1>5 DEF CacheReturns, Of, Remark, Tags
  <2>2. user' = [p \in Block |-> IF p \in {b} THEN "pages" ELSE user[p]]
    BY <1>2, <1>5 DEF CacheReturns
  <2>3. Pass({b}, "pages")
    BY <1>3, <2>1, <2>2
  <2> QED
    BY <2>1, <2>3 DEF OthersReturn
<1> QED
  BY <1>1, <1>4, <1>5

LEMMA OtherCacheKeeps ==
  ASSUME HInv, IInv', OtherCache, UNCHANGED whole
  PROVE  HInv'
<1>1. PICK b \in Block : (CacheTakes(b) \/ CacheReturns(b)) /\ CacheOverOrder
  BY DEF OtherCache
<1>2. \A w \in whole : BlocksOf(w) \subseteq Block
                       /\ \A c \in BlocksOf(w) : user[c] = "other"
  BY FirstOfBlocks DEF HInv, FreeFindsItsWay
<1>3. \A w \in whole : b \notin BlocksOf(w)
  BY <1>1, <1>2 DEF CacheTakes, CacheReturns
<1>4. \A c \in Block \ {b} : user'[c] = user[c] /\ tag'[c] = tag[c]
  BY <1>1 DEF CacheTakes, CacheReturns, HInv, IInv, TypeOK
<1>5. \A w \in whole : \A c \in BlocksOf(w) :
        user'[c] = "other" /\ tag'[c] = tag[c] /\ order'[c] = order[c]
  BY <1>1, <1>2, <1>3, <1>4 DEF CacheOverOrder
<1> QED
  BY <1>1, <1>5, WholePagesKept DEF CacheOverOrder

-----------------------------------------------------------------------------
(* Induction                                                               *)

LEMMA HeapStarts == HeapInit => Init /\ HInv
<1> SUFFICES ASSUME HeapInit
             PROVE  Init /\ HInv
  OBVIOUS
<1>1. Init /\ IInv
  BY InitHolds DEF HeapInit
<1>2. PICK n \in Orders \cup {0} :
        order = [b \in Block |-> IF tag[b] = "none" THEN n ELSE 0]
  BY DEF HeapInit
<1>3. whole = {} /\ order = [b \in Block |-> order[b]]
  BY <1>2 DEF HeapInit
<1> QED
  BY <1>1, <1>3 DEF HInv, FreeFindsItsWay

\* Every step of the heap is one of Slab, or changes nothing of it.
LEMMA HeapStepIsSlabStep ==
  ASSUME HInv, [HeapNext]_<<vars, heapVars>>
  PROVE  [Next]_vars
<1>1. CASE mem_alloc_setup \/ UNCHANGED <<vars, heapVars>>
  BY <1>1 DEF mem_alloc_setup
<1>2. ASSUME NEW t \in Thread,
             FromCache(t) \/ FreeObject(t) \/ MemCacheFree(t)
               \/ Shrinking(t) \/ Releasing(t)
      PROVE  Next
  BY <1>2 DEF FromCache, FreeObject, MemCacheFree, Shrinking, Releasing, Next
<1>3. ASSUME NEW size \in DOMAIN OrderFor, NEW w \in Free(OrderFor[size]),
             machine = "up", FromPages(w)
      PROVE  Next
  BY <1>3, FromPagesIsTaking DEF Orders, Next
<1>4. ASSUME NEW w \in whole, machine = "up", FreePages(w)
      PROVE  Next
  BY <1>4, FreePagesIsReturning DEF Next
<1>5. ASSUME NEW size \in Requests, CacheFor[size] = 0
      PROVE  size \in DOMAIN OrderFor
  BY <1>5 DEF OrderFor
<1>6. ASSUME NEW t \in Thread, MemAlloc(t)
      PROVE  Next
  BY <1>2, <1>3, <1>5, <1>6 DEF MemAlloc, Ready, Runs
<1>7. ASSUME NEW t \in Thread, MemFree(t)
      PROVE  Next
  BY <1>2, <1>4, <1>7 DEF MemFree, Ready, Runs
<1>8. ASSUME NEW t \in Thread, ReallocAlloc(t)
      PROVE  [Next]_vars
  BY <1>2, <1>3, <1>5, <1>8 DEF ReallocAlloc, Ready, Runs
<1>9. ASSUME NEW t \in Thread, ReallocCopy(t)
      PROVE  [Next]_vars
  BY <1>9 DEF ReallocCopy
<1>10. ASSUME NEW t \in Thread, ReallocFree(t)
       PROVE  [Next]_vars
  BY <1>2, <1>4, <1>10 DEF ReallocFree, Runs
<1>11. CASE SettingUp
  BY <1>11 DEF SettingUp, Next
<1>12. CASE OtherCache
  BY <1>12, OtherCacheIsOthers DEF Next
<1> QED
  BY <1>1, <1>2, <1>6, <1>7, <1>8, <1>9, <1>10, <1>11, <1>12 DEF HeapNext

LEMMA HeapStepHolds ==
  ASSUME HInv, [HeapNext]_<<vars, heapVars>>
  PROVE  HInv'
<1>1. IInv'
  BY HeapStepIsSlabStep, StepHolds DEF HInv
<1>2. CASE mem_alloc_setup \/ UNCHANGED <<vars, heapVars>>
  BY <1>1, <1>2, StandstillKeeps DEF mem_alloc_setup, vars, heapVars
<1>3. ASSUME NEW t \in Thread, FromCache(t)
      PROVE  HInv'
  BY <1>1, <1>3, FromCacheKeeps
<1>4. ASSUME NEW t \in Thread, FreeObject(t) \/ MemCacheFree(t)
      PROVE  HInv'
  BY <1>1, <1>4, StandstillKeeps
     DEF FreeObject, FreeLookup, MemCacheFree, FreeSlot, heapVars
<1>5. ASSUME NEW size \in Requests, CacheFor[size] = 0,
             NEW w \in Free(OrderFor[size]), FromPages(w)
      PROVE  HInv'
  BY <1>1, <1>5, FromPagesKeeps DEF Orders, OrderFor
<1>6. ASSUME NEW w \in whole, FreePages(w)
      PROVE  HInv'
  BY <1>1, <1>6, FreePagesKeeps
<1>7. ASSUME NEW t \in Thread, MemAlloc(t) \/ MemFree(t)
      PROVE  HInv'
  BY <1>3, <1>4, <1>5, <1>6, <1>7 DEF MemAlloc, MemFree
<1>8. ASSUME NEW t \in Thread, ReallocAlloc(t)
      PROVE  HInv'
  BY <1>1, <1>3, <1>5, <1>8, StandstillKeeps DEF ReallocAlloc, vars
<1>9. ASSUME NEW t \in Thread, ReallocCopy(t) \/ ReallocFree(t)
      PROVE  HInv'
  BY <1>1, <1>4, <1>6, <1>9, StandstillKeeps DEF ReallocCopy, ReallocFree, vars
<1>10. ASSUME NEW t \in Thread, Shrinking(t) \/ Releasing(t), UNCHANGED whole
       PROVE  HInv'
  BY <1>1, <1>10, ShrinkingKeeps
<1>11. CASE SettingUp /\ UNCHANGED whole
  BY <1>1, <1>11, StandstillKeeps DEF SettingUp, Setup
<1>12. CASE OtherCache /\ UNCHANGED whole
  BY <1>1, <1>12, OtherCacheKeeps
<1> QED
  BY <1>2, <1>4, <1>7, <1>8, <1>9, <1>10, <1>11, <1>12 DEF HeapNext

LEMMA HeapInvariance == HeapSpec => []HInv
BY HeapStarts, HeapStepHolds, PTL DEF HeapSpec

-----------------------------------------------------------------------------
(* The theorems                                                            *)

\* To a cache, mem_alloc and mem_free of whole pages and the other caches do
\* nothing that clients of the page allocator may not do.
THEOREM HeapIsSlab == HeapSpec => ImplementsSlab
<1>1. HInv /\ [HeapNext]_<<vars, heapVars>> => [Next]_vars
  BY HeapStepIsSlabStep
<1>2. HeapInit => Init
  BY HeapStarts
<1> QED
  BY <1>1, <1>2, HeapInvariance, PTL DEF HeapSpec, ImplementsSlab, Spec

\* mem_free tells whole pages from objects and knows how many they are, and
\* mem_alloc gives no page to two clients, whatever marks the pages had.
THEOREM WayBack == HeapSpec => []FreeFindsItsWay
BY HeapInvariance, PTL DEF HInv

\* So the cache's objects stay its own in the whole heap.
THEOREM HeapObjectsAreOwned == HeapSpec => [](InUseIsOurs /\ MaskTellsUse /\ NoBug)
BY HeapInvariance, PTL DEF HInv, IInv

-----------------------------------------------------------------------------
(* Searches for the least                                                  *)

\* Every set of numbers that is not empty has a least one.
LEMMA Least ==
  ASSUME NEW T \in SUBSET Nat, T # {}
  PROVE  \E n \in T : \A m \in T : n =< m
<1>1. IsWellFoundedOn(OpToRel(<, Nat), Nat)
  BY NatLessThanWellFounded
<1>2. PICK x \in T : \A y \in T : ~(<<y, x>> \in OpToRel(<, Nat))
  BY <1>1, WFMin
<1>3. ASSUME NEW y \in T PROVE x =< y
  <2>1. ~(y < x)
    BY <1>2 DEF OpToRel
  <2> QED
    BY <2>1
<1> QED
  BY <1>3

-----------------------------------------------------------------------------
(* The layout of a pool                                                    *)

LEMMA PoolsAre == MEM_POOLS = 34
BY DEF MEM_POOLS, mem_pool_size

LEMMA FirstPool == mem_pool_size[1] = 64
BY DEF mem_pool_size

\* A size a cache may have.
PoolSize(size) == size \in Nat /\ size >= 1 /\ size =< 8192

LEMMA PoolSizes == \A i \in 1 .. MEM_POOLS : PoolSize(mem_pool_size[i])
<1>1. \A i \in 1 .. 34 : PoolSize(mem_pool_size[i])
  BY DEF mem_pool_size, PoolSize
<1> QED
  BY <1>1, PoolsAre

\* A whole number of words.
LEMMA MetaSizeIs ==
  ASSUME NEW n \in Nat
  PROVE  /\ ceil(n, OBJS_PER_WORD) \in Nat
         /\ ceil(n, OBJS_PER_WORD) * OBJS_PER_WORD >= n
         /\ meta_size(n) = 40 + 8 * ceil(n, OBJS_PER_WORD)
<1>1. ceil(n, OBJS_PER_WORD) \in Nat /\ ceil(n, OBJS_PER_WORD) * OBJS_PER_WORD >= n
  BY DEF ceil, OBJS_PER_WORD
<1> DEFINE c == ceil(n, OBJS_PER_WORD)
<1> HIDE DEF c
<1>2. ASSUME NEW k \in Nat PROVE 8 * ((48 + (k - 1) * 8 + 8 - 1) \div 8) = 40 + 8 * k
  OBVIOUS
<1>3. meta_size(n) = 40 + 8 * c
  BY <1>1, <1>2 DEF meta_size, align_up, ceil, c
<1> QED
  BY <1>1, <1>3 DEF c

\* The loop ends with the largest number that fits; none need not be tried.
LEMMA ObjsThatFitIs ==
  ASSUME NEW size \in Nat \ {0}, NEW pool \in Nat, pool >= 2 * size + 48
  PROVE  LET objs == ObjsThatFit(pool, size)
         IN  /\ objs \in Nat /\ objs >= 2
             /\ size * objs + meta_size(objs) =< pool
             /\ size * (objs + 1) + meta_size(objs + 1) > pool
<1> DEFINE most    == pool \div size
           fits(n) == size * n + meta_size(n) =< pool
           Last(n) == fits(n) /\ \A m \in n + 1 .. most : ~fits(m)
           objs    == ObjsThatFit(pool, size)
           T       == {k \in 0 .. most : fits(most - k)}
<1>1. most \in Nat /\ size * most =< pool /\ size * (most + 1) > pool
  OBVIOUS
<1> HIDE DEF most
<1>2. \A n \in Nat : meta_size(n) \in Nat
  BY MetaSizeIs
<1>3. fits(0) /\ fits(2)
  <2>1. meta_size(0) = 40 /\ meta_size(2) = 48
    BY MetaSizeIs DEF ceil, OBJS_PER_WORD
  <2> QED
    BY <2>1
<1>4. 2 =< most
  <2>1. CASE most = 0
    BY <1>1, <2>1
  <2>2. CASE most = 1
    BY <1>1, <2>2
  <2> QED
    BY <1>1, <2>1, <2>2
<1> HIDE DEF fits
<1>5. \E n \in 0 .. most : Last(n)
  <2>1. most - 2 \in T /\ T \in SUBSET Nat
    BY <1>1, <1>3, <1>4
  <2>2. PICK k \in T : \A j \in T : k =< j
    BY <2>1, Least
  <2>3. most - k \in 0 .. most /\ fits(most - k)
    BY <1>1, <2>2
  <2>4. ASSUME NEW m \in (most - k) + 1 .. most, fits(m) PROVE FALSE
    <3>1. most - m \in 0 .. most /\ most - (most - m) = m /\ most - m < k
      BY <1>1, <2>2, <2>3
    <3>2. most - m \in T
      BY <3>1, <2>4
    <3> QED
      BY <3>1, <3>2, <2>2, <1>1
  <2> QED
    BY <2>3, <2>4
<1>6. objs = CHOOSE n \in 0 .. most : Last(n)
  BY DEF ObjsThatFit, fits, most
<1> HIDE DEF objs, Last
<1>7. objs \in 0 .. most /\ Last(objs)
  BY <1>5, <1>6
<1>8. fits(objs) /\ \A m \in objs + 1 .. most : ~fits(m)
  BY <1>7 DEF Last
<1>9. objs \in Nat /\ objs >= 2
  <2>1. ~(objs < 2)
    BY <1>1, <1>3, <1>4, <1>7, <1>8
  <2> QED
    BY <2>1, <1>1, <1>7
<1>10. size * (objs + 1) + meta_size(objs + 1) > pool
  <2>1. CASE objs < most
    <3>1. objs + 1 \in objs + 1 .. most
      BY <2>1, <1>1, <1>9
    <3>2. ~fits(objs + 1) /\ size * (objs + 1) \in Nat /\ meta_size(objs + 1) \in Nat
      BY <3>1, <1>2, <1>8, <1>9
    <3> QED
      BY <3>2 DEF fits
  <2>2. CASE objs = most
    BY <2>2, <1>1, <1>2
  <2> QED
    BY <2>1, <2>2, <1>1, <1>7
<1> QED
  BY <1>8, <1>9, <1>10 DEF fits, objs

LEMMA ilog2Is ==
  ASSUME NEW x \in 0 .. 32
  PROVE  ilog2(x) \in 0 .. 5 /\ 2^ilog2(x) >= x
<1> DEFINE T       == {n \in 0 .. 30 : 2^n >= x}
           Fits(n) == 2^n >= x /\ \A m \in 0 .. n - 1 : 2^m < x
<1>1. 2^5 = 32
  OBVIOUS
<1>2. 5 \in T /\ T \in SUBSET Nat
  BY <1>1
<1>3. PICK n \in T : \A m \in T : n =< m
  BY <1>2, Least
<1>4. n =< 5 /\ Fits(n)
  <2>1. n =< 5 /\ n \in 0 .. 30 /\ 2^n >= x
    BY <1>2, <1>3
  <2>2. ASSUME NEW m \in 0 .. n - 1 PROVE 2^m < x
    <3>1. m \in 0 .. 30 /\ m \notin T
      BY <1>3
    <3>2. 2^m \in Int /\ ~(2^m >= x)
      BY <3>1
    <3> QED
      BY <3>2
  <2> QED
    BY <2>1, <2>2
<1> DEFINE l == ilog2(x)
<1>5. l = CHOOSE k \in 0 .. 30 : Fits(k)
  BY DEF ilog2
<1> HIDE DEF l
<1>6. l \in 0 .. 30 /\ Fits(l)
  <2> HIDE DEF Fits
  <2> QED
    BY <1>3, <1>4, <1>5
<1>7. ~(5 < l)
  <2>1. ASSUME 5 < l PROVE FALSE
    <3>1. 5 \in 0 .. l - 1
      BY <1>6, <2>1
    <3>2. \A m \in 0 .. l - 1 : 2^m < x
      BY <1>6
    <3>3. 2^5 < x
      BY <3>1, <3>2, Zenon
    <3> QED
      BY <3>3, <1>1
  <2> QED
    BY <2>1
<1> QED
  BY <1>6, <1>7 DEF l

LEMMA LayoutIs ==
  ASSUME NEW size, PoolSize(size)
  PROVE  LET c    == mem_cache_layout_setup(size, 64)
             objs == c.obj_count
             pool == 2^(c.pool_order + PAGE_SHIFT)
         IN  /\ c.obj_size >= size
             /\ c.obj_size * objs =< c.meta_offs
             /\ c.meta_offs % 8 = 0
             /\ c.meta_offs + 40 + 8 * c.mask_words = pool
             /\ c.mask_words * OBJS_PER_WORD >= objs /\ objs >= 2
             /\ c.obj_size * (objs + 1) + meta_size(objs + 1) > pool
<1> DEFINE obj   == align_up(size, 64)
           least == obj * MIN_POOL_OBJS + meta_size(MIN_POOL_OBJS)
           ord   == ilog2(least \div 2^PAGE_SHIFT)
           pool  == 2^(ord + PAGE_SHIFT)
           objs  == ObjsThatFit(pool, obj)
           c     == mem_cache_layout_setup(size, 64)
<1>1. obj \in Nat \ {0} /\ obj >= size /\ obj =< 8255
  BY DEF align_up, ceil, PoolSize
<1> HIDE DEF obj
<1>2. least = obj * 8 + 48
  <2>1. meta_size(8) = 40 + 8 * ceil(8, OBJS_PER_WORD)
    BY MetaSizeIs
  <2>2. ceil(8, OBJS_PER_WORD) = 1
    BY DEF ceil, OBJS_PER_WORD
  <2> QED
    BY <1>1, <2>1, <2>2 DEF MIN_POOL_OBJS
<1> HIDE DEF least
<1>3. 2^PAGE_SHIFT = 4096
  BY DEF PAGE_SHIFT
<1>4. least \div 2^PAGE_SHIFT \in 0 .. 32
  BY <1>1, <1>2, <1>3
<1>5. ord \in 0 .. 5 /\ 2^ord >= least \div 2^PAGE_SHIFT
  <2> DEFINE x == least \div 2^PAGE_SHIFT
  <2>1. x \in 0 .. 32 /\ ord = ilog2(x)
    BY <1>4
  <2> HIDE DEF x, ord
  <2>2. ord \in 0 .. 5 /\ 2^ord >= x
    BY <2>1, ilog2Is
  <2> QED
    BY <2>2 DEF x
<1> HIDE DEF ord
<1>6. pool = 4096 * 2^ord /\ pool \in Nat /\ pool % 8 = 0 /\ 2^ord >= 1
  <2>1. CASE ord = 0 BY <2>1 DEF PAGE_SHIFT
  <2>2. CASE ord = 1 BY <2>2 DEF PAGE_SHIFT
  <2>3. CASE ord = 2 BY <2>3 DEF PAGE_SHIFT
  <2>4. CASE ord = 3 BY <2>4 DEF PAGE_SHIFT
  <2>5. CASE ord = 4 BY <2>5 DEF PAGE_SHIFT
  <2>6. CASE ord = 5 BY <2>6 DEF PAGE_SHIFT
  <2> QED
    BY <1>5, <2>1, <2>2, <2>3, <2>4, <2>5, <2>6
<1>7. pool >= 2 * obj + 48
  <2> DEFINE w == 2^ord
  <2>1. w \in Int /\ w >= 1 /\ pool = 4096 * w /\ w >= (obj * 8 + 48) \div 4096
    BY <1>2, <1>3, <1>5, <1>6
  <2> HIDE DEF w, pool
  <2> QED
    BY <1>1, <2>1
<1> HIDE DEF pool
<1>8. /\ objs \in Nat /\ objs >= 2
      /\ obj * objs + meta_size(objs) =< pool
      /\ obj * (objs + 1) + meta_size(objs + 1) > pool
  BY <1>1, <1>6, <1>7, ObjsThatFitIs
<1>9. c = [meta_offs |-> pool - meta_size(objs), obj_count |-> objs,
           mask_words |-> ceil(objs, OBJS_PER_WORD), obj_size |-> obj,
           pool_order |-> ord]
  BY DEF mem_cache_layout_setup, obj, least, ord, pool
<1> HIDE DEF objs, c
<1>10. /\ ceil(objs, OBJS_PER_WORD) \in Nat
       /\ ceil(objs, OBJS_PER_WORD) * OBJS_PER_WORD >= objs
       /\ meta_size(objs) = 40 + 8 * ceil(objs, OBJS_PER_WORD)
  BY <1>8, MetaSizeIs
<1>11. /\ c.meta_offs = pool - meta_size(objs) /\ c.obj_count = objs
       /\ c.mask_words = ceil(objs, OBJS_PER_WORD) /\ c.obj_size = obj
       /\ 2^(c.pool_order + PAGE_SHIFT) = pool
  BY <1>9 DEF pool
<1>12. obj * objs \in Int
  BY <1>1, <1>8
<1>13. /\ obj * objs =< pool - meta_size(objs)
       /\ (pool - meta_size(objs)) % 8 = 0
       /\ pool - meta_size(objs) + 40 + 8 * ceil(objs, OBJS_PER_WORD) = pool
  <2> DEFINE w == ceil(objs, OBJS_PER_WORD)
             m == meta_size(objs)
             y == obj * objs
  <2>1. w \in Nat /\ m = 40 + 8 * w /\ y \in Int /\ y + m =< pool
    BY <1>8, <1>10, <1>12
  <2> HIDE DEF w, m, y
  <2>2. y =< pool - m /\ (pool - m) % 8 = 0 /\ pool - m + 40 + 8 * w = pool
    BY <2>1, <1>6
  <2> QED
    BY <2>2 DEF w, m, y
<1>14. /\ c.obj_size >= size
       /\ c.obj_size * c.obj_count =< c.meta_offs
       /\ c.meta_offs % 8 = 0
       /\ c.meta_offs + 40 + 8 * c.mask_words = 2^(c.pool_order + PAGE_SHIFT)
       /\ c.mask_words * OBJS_PER_WORD >= c.obj_count /\ c.obj_count >= 2
       /\ c.obj_size * (c.obj_count + 1) + meta_size(c.obj_count + 1)
            > 2^(c.pool_order + PAGE_SHIFT)
  BY <1>1, <1>8, <1>10, <1>11, <1>13
<1> QED
  BY <1>14 DEF c

LEMMA LayoutInvariance == HeapSpec => []LayoutInv
<1>1. HeapInit => LayoutInv
  BY PoolsAre DEF HeapInit, LayoutInv
<1>2. ASSUME LayoutInv, [HeapNext]_<<vars, heapVars>>
      PROVE  LayoutInv'
  <2>1. CASE mem_alloc_setup
    BY <1>2, <2>1, PoolsAre DEF mem_alloc_setup, LayoutInv
  <2>2. CASE UNCHANGED <<booted, cache>>
    BY <1>2, <2>2 DEF LayoutInv, LayoutOf
  <2>3. CASE UNCHANGED <<vars, heapVars>>
    BY <2>2, <2>3 DEF heapVars
  <2>4. HeapNext => mem_alloc_setup \/ UNCHANGED <<booted, cache>>
    BY DEF HeapNext, MemAlloc, MemFree, MemCacheFree, ReallocAlloc, ReallocCopy,
           ReallocFree, heapVars
  <2> QED
    BY <1>2, <2>1, <2>2, <2>3, <2>4
<1> QED
  BY <1>1, <1>2, PTL DEF HeapSpec

\* Every cache mem_alloc_setup lays out, of any size up to the largest, has
\* pools in which objects, bitmask and pool header fit without overlap and no
\* object more would fit.
THEOREM LayoutsFit == HeapSpec => []LayoutFits
<1>1. LayoutInv => LayoutFits
  <2> SUFFICES ASSUME LayoutInv PROVE LayoutFits
    OBVIOUS
  <2>1. PoolSize(mem_pool_size[booted]) /\ cache = mem_cache_layout_setup(mem_pool_size[booted], 64)
    BY FirstPool, PoolSizes DEF LayoutInv, LayoutOf
  <2> QED
    BY <2>1, LayoutIs DEF LayoutFits
<1> QED
  BY <1>1, LayoutInvariance, PTL

-----------------------------------------------------------------------------
(* mem_realloc                                                             *)

\* An object, whole pages and an object of another cache are told apart.
LEMMA Kinds ==
  /\ \A o \in Object : "class" \notin DOMAIN o /\ o \notin Whole
  /\ \A w \in Whole : "class" \notin DOMAIN w
  /\ \A i : "class" \in DOMAIN [class |-> i] /\ [class |-> i].class = i
BY DEF Object, Whole

LEMMA SizeIs ==
  HInv => \A ptr :
    /\ ptr \in live => SizeOf(ptr) = mem_pool_size[Class]
    /\ ptr \in whole => SizeOf(ptr) = 2^(PAGE_SHIFT + ptr.order)
    /\ "class" \in DOMAIN ptr => SizeOf(ptr) = mem_pool_size[ptr.class]
<1> SUFFICES ASSUME HInv, NEW ptr
             PROVE  /\ ptr \in live => SizeOf(ptr) = mem_pool_size[Class]
                    /\ ptr \in whole => SizeOf(ptr) = 2^(PAGE_SHIFT + ptr.order)
                    /\ "class" \in DOMAIN ptr => SizeOf(ptr) = mem_pool_size[ptr.class]
  OBVIOUS
<1>1. live \subseteq Object /\ whole \subseteq Whole
  BY DEF HInv, IInv, TypeOK
<1>2. /\ ptr \in live => ptr \notin whole /\ "class" \notin DOMAIN ptr
      /\ ptr \in whole => ptr \notin live /\ "class" \notin DOMAIN ptr
  BY <1>1, Kinds
<1>3. ptr \in whole => order[ptr.first] = ptr.order
  BY DEF HInv, FreeFindsItsWay
<1> QED
  BY <1>2, <1>3 DEF SizeOf

LEMMA SizeWillBe ==
  (HInv => \A ptr :
    /\ ptr \in live => SizeOf(ptr) = mem_pool_size[Class]
    /\ ptr \in whole => SizeOf(ptr) = 2^(PAGE_SHIFT + ptr.order)
    /\ "class" \in DOMAIN ptr => SizeOf(ptr) = mem_pool_size[ptr.class])'
BY SizeIs, PTL

\* Memory has its size as long as it is held.
LEMMA SizeKept ==
  ASSUME HInv, HInv', NEW ptr, Held(ptr),
         ptr \in live => ptr \in live', ptr \in whole => ptr \in whole'
  PROVE  Held(ptr)' /\ SizeOf(ptr)' = SizeOf(ptr)
BY SizeIs, SizeWillBe DEF Held

\* The object of a mem_alloc from the cache is new.
LEMMA ObjectIsNew ==
  ASSUME HInv, NEW t \in Thread, FromCache(t)
  PROVE  \E o \in Object : o \notin live /\ live' = live \cup {o}
<1>1. ASSUME NEW p \in Block, NEW list, UsedIn(p) # Slot,
             TakeSlot(p, NewMask \cup UsedIn(p), Cardinality(Slot \ UsedIn(p)), list)
      PROVE  \E o \in Object : o \notin live /\ live' = live \cup {o}
  <2>1. UsedIn(p) \in SUBSET Slot
    BY DEF UsedIn
  <2>2. PICK s \in Slot \ UsedIn(p) : live' = live \cup {[block |-> p, slot |-> s]}
    BY <1>1, <2>1, TakeSlotTakesOne
  <2>3. [block |-> p, slot |-> s] \in Object /\ [block |-> p, slot |-> s] \notin live
    BY <2>2 DEF Object, UsedIn, InUse
  <2> QED
    BY <2>2, <2>3
<1>2. ASSUME NEW list \in {"partial", "free"}, AllocFrom(t, list)
      PROVE  \E o \in Object : o \notin live /\ live' = live \cup {o}
  <2>1. PICK p \in Pools(list) :
          Runs(t) /\ TakeSlot(p, mask[p], free[p], ListAfterTake(list, free[p] - 1))
    BY <1>2 DEF AllocFrom
  <2>2. p \in Block /\ on[p] = list /\ ~released
    BY <2>1 DEF Pools, Runs
  <2>3. user[p] = "cache" /\ free[p] # 0
    BY <2>2, SlabAssumption DEF HInv, IInv, ListByCount
  <2>4. /\ mask[p] = NewMask \cup UsedIn(p)
        /\ free[p] = Cardinality(Slot \ UsedIn(p)) /\ UsedIn(p) # Slot
    BY <2>2, <2>3, PoolCounts DEF HInv
  <2> QED
    BY <1>1, <2>1, <2>2, <2>4
<1>3. CASE AllocNew(t)
  <2>1. PICK p \in Block : user[p] = "pages" /\ TakeSlot(p, NewMask, NewFree, "partial")
    BY <1>3 DEF AllocNew
  <2>2. UsedIn(p) = {}
    BY <2>1 DEF HInv, IInv, InUseIsOurs, UsedIn
  <2>3. NewMask \cup UsedIn(p) = NewMask /\ UsedIn(p) # Slot
        /\ Cardinality(Slot \ UsedIn(p)) = NewFree
    <3>1. Slot \ UsedIn(p) = Slot /\ Slot # {}
      BY <2>2, SlabAssumption DEF Slot
    <3> QED
      BY <2>2, <3>1, SlotsAreFinite DEF NewFree
  <2> QED
    BY <1>1, <2>1, <2>3
<1> QED
  BY <1>2, <1>3 DEF FromCache, AllocPartial, AllocFree

\* The cache mem_pool_lookup finds has objects as large as the request.
LEMMA LookupFits ==
  ASSUME NEW size, mem_pool_lookup(size) # 0
  PROVE  /\ mem_pool_lookup(size) \in 1 .. MEM_POOLS
         /\ mem_pool_size[mem_pool_lookup(size)] >= size
<1> DEFINE fits     == {i \in 1 .. MEM_POOLS : mem_pool_size[i] >= size}
           First(i) == \A j \in fits : i =< j
           l        == mem_pool_lookup(size)
<1>1. l = IF fits = {} THEN 0 ELSE CHOOSE i \in fits : First(i)
  BY DEF mem_pool_lookup
<1>2. fits \in SUBSET Nat
  BY PoolsAre
<1> HIDE DEF l
<1>3. fits # {} /\ l = CHOOSE i \in fits : First(i)
  BY <1>1 DEF l
<1>4. \E i \in fits : First(i)
  BY <1>2, <1>3, Least
<1>5. l \in fits
  <2> HIDE DEF fits, First
  <2> QED
    BY <1>3, <1>4
<1> QED
  BY <1>5 DEF l

\* The block mem_order_calculate asks for is as large as the request, unless
\* there is none.
LEMMA OrderFits ==
  ASSUME NEW size \in Nat, mem_order_calculate(size) =< MAX_ORDER
  PROVE  2^(PAGE_SHIFT + mem_order_calculate(size)) >= size
<1> DEFINE fits     == {n \in 0 .. MAX_ORDER : 2^(n + PAGE_SHIFT) >= size}
           First(n) == \A m \in fits : n =< m
           l        == mem_order_calculate(size)
<1>1. l = IF fits = {} THEN MAX_ORDER + 1 ELSE CHOOSE n \in fits : First(n)
  BY DEF mem_order_calculate
<1>2. fits \in SUBSET Nat
  OBVIOUS
<1> HIDE DEF l
<1>3. fits # {} /\ l = CHOOSE n \in fits : First(n)
  BY <1>1 DEF l, MAX_ORDER
<1>4. \E n \in fits : First(n)
  BY <1>2, <1>3, Least
<1>5. l \in fits
  <2> HIDE DEF fits, First
  <2> QED
    BY <1>3, <1>4
<1>6. l + PAGE_SHIFT = PAGE_SHIFT + l
  BY <1>5 DEF PAGE_SHIFT
<1> QED
  BY <1>5, <1>6 DEF l

LEMMA OrdersAreNumbers == Orders \subseteq Nat
<1>1. ASSUME NEW size PROVE mem_order_calculate(size) \in Nat
  <2> DEFINE fits     == {n \in 0 .. MAX_ORDER : 2^(n + PAGE_SHIFT) >= size}
             First(n) == \A m \in fits : n =< m
             l        == mem_order_calculate(size)
  <2>1. l = IF fits = {} THEN MAX_ORDER + 1 ELSE CHOOSE n \in fits : First(n)
    BY DEF mem_order_calculate
  <2>2. fits \in SUBSET Nat
    OBVIOUS
  <2> HIDE DEF l, fits
  <2>3. CASE fits = {}
    BY <2>1, <2>3 DEF MAX_ORDER, l
  <2>4. CASE fits # {}
    <3>1. \E n \in fits : First(n)
      BY <2>2, <2>4, Least
    <3> HIDE DEF First
    <3>2. l \in fits
      BY <2>1, <2>4, <3>1
    <3> QED
      BY <2>2, <3>2 DEF l
  <2> QED
    BY <2>3, <2>4
<1> QED
  BY <1>1 DEF Orders, OrderFor

\* The memory that a mem_realloc may begin with.
LEMMA OldSize ==
  ASSUME HInv, NEW ptr \in live \cup whole \cup {[class |-> OtherClass]}
  PROVE  Held(ptr) /\ SizeOf(ptr) \in Int
<1>1. CASE ptr \in live
  BY <1>1, SizeIs, PoolSizes, HeapAssumption DEF PoolSize, Held
<1>2. CASE ptr \in whole
  <2>1. ptr.order \in Nat
    BY <1>2, OrdersAreNumbers DEF HInv, Whole
  <2> QED
    BY <1>2, <2>1, SizeIs DEF PAGE_SHIFT, Held
<1>3. CASE ptr = [class |-> OtherClass]
  <2>1. OtherClass \in 1 .. MEM_POOLS
    BY HeapAssumption, PoolsAre
  <2> QED
    BY <1>3, <2>1, SizeIs, PoolSizes, Kinds DEF PoolSize, Held
<1> QED
  BY <1>1, <1>2, <1>3

\* What each mem_realloc works on: its part of MoveInv.
Moves(t) ==
  \/ call[t] = NoCall
  \/ /\ call[t] = [step |-> call[t].step, old |-> call[t].old,
                  new |-> call[t].new]
     /\ call[t].step \in {"copy", "free"}
     /\ Held(call[t].old) /\ Held(call[t].new) /\ call[t].old # call[t].new
     /\ SizeOf(call[t].old) < SizeOf(call[t].new)

Apart(t, u) ==
  t # u /\ call[t].step # "none" /\ call[u].step # "none" =>
    {call[t].old, call[t].new} \cap {call[u].old, call[u].new}
      \cap (live \cup whole) = {}

LEMMA MoveInvIs ==
  MoveInv <=> /\ call = [t \in Thread |-> call[t]]
              /\ \A t \in Thread : Moves(t)
              /\ \A t, u \in Thread : Apart(t, u)
BY DEF MoveInv, Moves, Apart

LEMMA MoveInvWillBe ==
  (MoveInv <=> /\ call = [t \in Thread |-> call[t]]
               /\ \A t \in Thread : Moves(t)
               /\ \A t, u \in Thread : Apart(t, u))'
BY MoveInvIs, PTL

\* A call that goes on, while what it works on stays held.
LEMMA MovesKept ==
  ASSUME HInv, HInv', MoveInv, NEW t \in Thread, call'[t] = call[t],
         call[t].step # "none" =>
           \A ptr \in {call[t].old, call[t].new} :
             (ptr \in live => ptr \in live') /\ (ptr \in whole => ptr \in whole')
  PROVE  Moves(t)'
<1>1. CASE call[t] = NoCall
  BY <1>1 DEF Moves
<1>2. CASE call[t] # NoCall
  <2>1. /\ call[t] = [step |-> call[t].step, old |-> call[t].old,
                     new |-> call[t].new]
        /\ call[t].step \in {"copy", "free"} /\ call[t].step # "none"
        /\ Held(call[t].old) /\ Held(call[t].new) /\ call[t].old # call[t].new
        /\ SizeOf(call[t].old) < SizeOf(call[t].new)
    BY <1>2, MoveInvIs DEF Moves
  <2>2. PICK old, new : old = call[t].old /\ new = call[t].new
    OBVIOUS
  <2>3. Held(old) /\ Held(new) /\ SizeOf(old) < SizeOf(new)
    BY <2>1, <2>2
  <2>4. /\ old \in live => old \in live'
        /\ old \in whole => old \in whole'
        /\ new \in live => new \in live'
        /\ new \in whole => new \in whole'
    BY <2>1, <2>2
  <2>5. Held(old)' /\ SizeOf(old)' = SizeOf(old)
    BY <2>3, <2>4, SizeKept
  <2>6. Held(new)' /\ SizeOf(new)' = SizeOf(new)
    BY <2>3, <2>4, SizeKept
  <2>7. Moves(t)' <=>
          \/ call[t] = NoCall
          \/ /\ call[t] = [step |-> call[t].step, old |-> old, new |-> new]
             /\ call[t].step \in {"copy", "free"}
             /\ Held(old)' /\ Held(new)' /\ old # new
             /\ SizeOf(old)' < SizeOf(new)'
    BY <2>2 DEF Moves
  <2> QED
    BY <2>1, <2>2, <2>3, <2>5, <2>6, <2>7
<1> QED
  BY <1>1, <1>2

\* Two calls that go on work on different memory, old or new.
LEMMA ApartKept ==
  ASSUME HInv', MoveInv, NEW t \in Thread, NEW u \in Thread,
         call'[t] = call[t], call'[u] = call[u]
  PROVE  Apart(t, u)'
<1> SUFFICES ASSUME t # u, call[t].step # "none", call[u].step # "none",
                    NEW ptr \in {call[t].old, call[t].new} \cap {call[u].old, call[u].new},
                    ptr \in live' \cup whole'
             PROVE  FALSE
  BY DEF Apart
<1>1. Held(ptr)
  <2>1. Moves(t) /\ call[t] # NoCall
    BY MoveInvIs DEF NoCall
  <2> QED
    BY <2>1 DEF Moves
<1>2. ptr \notin live \cup whole
  BY MoveInvIs DEF Apart
<1>3. "class" \notin DOMAIN ptr
  BY Kinds DEF HInv, IInv, TypeOK
<1> QED
  BY <1>1, <1>2, <1>3 DEF Held

\* A step outside mem_realloc: it frees nothing a mem_realloc works on.
LEMMA StandingCallsKept ==
  ASSUME HInv, HInv', MoveInv, UNCHANGED call,
         \A ptr : ptr \in live \ live' \/ ptr \in whole \ whole' => ptr \notin Moving
  PROVE  MoveInv'
<1>1. ASSUME NEW t \in Thread PROVE Moves(t)'
  <2>1. \A ptr \in {call[t].old, call[t].new} : ptr \in Moving
    BY DEF Moving
  <2> QED
    BY <2>1, MovesKept
<1>2. ASSUME NEW t \in Thread, NEW u \in Thread PROVE Apart(t, u)'
  BY ApartKept
<1> QED
  BY <1>1, <1>2, MoveInvIs, MoveInvWillBe

\* A call that begins, with memory that was nobody's.
LEMMA Begins ==
  ASSUME HInv, HInv', MoveInv, NEW t \in Thread, NEW old, NEW new, NEW size \in Nat,
         call[t].step = "none", live \subseteq live', whole \subseteq whole',
         old \in live \cup whole \cup {[class |-> OtherClass]}, old \notin Moving,
         SizeOf(old) < size,
         call' = [call EXCEPT ![t] = [step |-> "copy", old |-> old, new |-> new]],
         Held(new)', SizeOf(new)' \in Int, SizeOf(new)' >= size,
         new \notin live \cup whole, new # old
  PROVE  MoveInv'
<1>1. /\ call = [u \in Thread |-> call[u]] /\ call' = [u \in Thread |-> call'[u]]
      /\ call'[t] = [step |-> "copy", old |-> old, new |-> new]
      /\ \A u \in Thread \ {t} : call'[u] = call[u]
  BY MoveInvIs
<1>2. Held(old) /\ SizeOf(old) \in Int
  BY OldSize
<1>3. Held(old)' /\ SizeOf(old)' = SizeOf(old)
  BY <1>2, SizeKept
<1>4. Moves(t)'
  <2>1. /\ Held(old)' /\ Held(new)' /\ old # new /\ SizeOf(old)' < SizeOf(new)'
    BY <1>2, <1>3
  <2>2. /\ call'[t] = [step |-> "copy", old |-> old, new |-> new]
        /\ call'[t].step = "copy" /\ call'[t].old = old /\ call'[t].new = new
    BY <1>1
  <2> QED
    BY <2>1, <2>2 DEF Moves
<1>5. ASSUME NEW u \in Thread \ {t} PROVE Moves(u)'
  BY <1>1, MovesKept
<1>6. ASSUME NEW u \in Thread \ {t} PROVE Apart(t, u)' /\ Apart(u, t)'
  <2> SUFFICES ASSUME call[u].step # "none",
                      NEW ptr \in {old, new} \cap {call[u].old, call[u].new},
                      ptr \in live' \cup whole'
               PROVE  FALSE
    BY <1>1 DEF Apart
  <2>1. ptr \in Moving
    BY DEF Moving
  <2>2. ptr = new
    BY <2>1
  <2>3. Held(ptr)
    <3>1. Moves(u) /\ call[u] # NoCall
      BY MoveInvIs DEF NoCall
    <3> QED
      BY <3>1 DEF Moves
  <2>4. "class" \notin DOMAIN ptr
    BY Kinds DEF HInv, IInv, TypeOK
  <2> QED
    BY <2>2, <2>3, <2>4 DEF Held
<1>7. ASSUME NEW u \in Thread \ {t}, NEW v \in Thread \ {t} PROVE Apart(u, v)'
  BY <1>1, ApartKept
<1>8. Apart(t, t)'
  BY DEF Apart
<1>9. \A u, v \in Thread : Apart(u, v)'
  BY <1>6, <1>7, <1>8
<1> QED
  BY <1>1, <1>4, <1>5, <1>9, MoveInvWillBe

\* A call that goes on, or ends; when it frees, it frees its own.
LEMMA Advances ==
  ASSUME HInv, HInv', MoveInv, NEW t \in Thread, call[t].step # "none",
         \/ /\ call' = [call EXCEPT ![t] = [@ EXCEPT !.step = "free"]]
            /\ UNCHANGED <<live, whole>>
         \/ /\ call' = [call EXCEPT ![t] = NoCall]
            /\ live \subseteq live' \cup {call[t].old}
            /\ whole \subseteq whole' \cup {call[t].old}
  PROVE  MoveInv'
<1>1. /\ call = [u \in Thread |-> call[u]] /\ call' = [u \in Thread |-> call'[u]]
      /\ \A u \in Thread \ {t} : call'[u] = call[u]
  BY MoveInvIs
<1>2. Moves(t)' /\ \A u \in Thread : Apart(t, u)' /\ Apart(u, t)'
  <2>1. CASE call' = [call EXCEPT ![t] = NoCall]
    BY <1>1, <2>1 DEF Moves, Apart, NoCall
  <2>2. CASE /\ call' = [call EXCEPT ![t] = [@ EXCEPT !.step = "free"]]
             /\ UNCHANGED <<live, whole>>
    <3>1. /\ call[t] = [step |-> call[t].step, old |-> call[t].old,
                       new |-> call[t].new]
          /\ call[t].step \in {"copy", "free"}
          /\ Held(call[t].old) /\ Held(call[t].new) /\ call[t].old # call[t].new
          /\ SizeOf(call[t].old) < SizeOf(call[t].new)
      BY MoveInvIs DEF Moves, NoCall
    <3>2. PICK old, new : old = call[t].old /\ new = call[t].new
      OBVIOUS
    <3>3. call'[t] = [step |-> "free", old |-> old, new |-> new]
      <4>1. call'[t] = [call[t] EXCEPT !.step = "free"]
        BY <1>1, <2>2
      <4> QED
        BY <3>1, <3>2, <4>1
    <3>4. Held(old) /\ Held(new) /\ old # new /\ SizeOf(old) < SizeOf(new)
      BY <3>1, <3>2
    <3>5. Held(old)' /\ SizeOf(old)' = SizeOf(old)
      BY <2>2, <3>4, SizeKept
    <3>6. Held(new)' /\ SizeOf(new)' = SizeOf(new)
      BY <2>2, <3>4, SizeKept
    <3>7. Moves(t)'
      BY <3>3, <3>4, <3>5, <3>6 DEF Moves
    <3>8. \A u \in Thread : Apart(t, u)' /\ Apart(u, t)'
      <4>1. \A u \in Thread : Apart(t, u) /\ Apart(u, t)
        BY MoveInvIs
      <4> QED
        BY <1>1, <2>2, <3>2, <3>3, <4>1 DEF Apart
    <3> QED
      BY <3>7, <3>8
  <2> QED
    BY <2>1, <2>2
<1>3. ASSUME NEW u \in Thread \ {t} PROVE Moves(u)'
  <2>1. ASSUME call[u].step # "none", NEW ptr \in {call[u].old, call[u].new}
        PROVE  (ptr \in live => ptr \in live') /\ (ptr \in whole => ptr \in whole')
    <3>1. ptr = call[t].old => ptr \notin live \cup whole
      BY <2>1, MoveInvIs DEF Apart
    <3> QED
      BY <3>1
  <2> QED
    BY <1>1, <2>1, MovesKept
<1>4. ASSUME NEW u \in Thread \ {t}, NEW v \in Thread \ {t} PROVE Apart(u, v)'
  BY <1>1, ApartKept
<1> QED
  BY <1>1, <1>2, <1>3, <1>4, MoveInvWillBe

\* mem_alloc from the cache takes no memory from anybody.
LEMMA FromCacheAdds ==
  ASSUME HInv, HInv', NEW t \in Thread, FromCache(t)
  PROVE  /\ live \subseteq live' /\ UNCHANGED whole
         /\ (CHOOSE o \in live' \ live : TRUE) \in live' \ live
<1>1. PICK o \in Object : o \notin live /\ live' = live \cup {o}
  BY ObjectIsNew
<1>2. o \in live' \ live
  BY <1>1
<1> QED
  BY <1>1, <1>2 DEF FromCache

\* Whole pages that mem_alloc gives were nobody's.
LEMMA PagesAreNew ==
  ASSUME HInv, NEW n, NEW w \in Free(n)
  PROVE  w \in Whole /\ w.order = n /\ w \notin live \cup whole
<1>1. w \in Whole /\ w.order = n /\ BlocksOf(w) \subseteq Of("pages")
  BY DEF Free
<1>2. w.first \in BlocksOf(w)
  BY <1>1, FirstOfBlocks
<1>3. user[w.first] = "pages"
  BY <1>1, <1>2 DEF Of
<1>4. w \notin whole
  BY <1>2, <1>3 DEF HInv, FreeFindsItsWay
<1>5. w \notin live
  BY <1>1, Kinds DEF HInv, IInv, TypeOK
<1> QED
  BY <1>1, <1>4, <1>5

\* mem_realloc, up to its mem_alloc.
LEMMA ReallocAllocKeeps ==
  ASSUME HInv, HInv', MoveInv, NEW t \in Thread, ReallocAlloc(t)
  PROVE  MoveInv'
<1> DEFINE Begin(old, new) ==
      call' = [call EXCEPT ![t] = [step |-> "copy", old |-> old, new |-> new]]
<1>1. PICK old \in (live \cup whole \cup {[class |-> OtherClass]}) \ Moving,
           size \in Requests :
        /\ call[t].step = "none" /\ SizeOf(old) < size
        /\ \/ /\ CacheFor[size] = Class /\ FromCache(t)
              /\ Begin(old, CHOOSE o \in live' \ live : TRUE)
           \/ /\ CacheFor[size] = 0
              /\ \E w \in Free(OrderFor[size]) : FromPages(w) /\ Begin(old, w)
           \/ /\ CacheFor[size] \notin {0, Class} /\ old \in live
              /\ Begin(old, [class |-> CacheFor[size]])
              /\ UNCHANGED <<vars, order, whole>>
  BY DEF ReallocAlloc, Ready, Steps
<1>2. size \in Nat /\ CacheFor[size] = mem_pool_lookup(size)
  BY HeapAssumption DEF CacheFor
<1>3. Held(old)
  BY OldSize
<1>4. CASE /\ CacheFor[size] = Class /\ FromCache(t)
           /\ Begin(old, CHOOSE o \in live' \ live : TRUE)
  <2>1. PICK new : new = CHOOSE o \in live' \ live : TRUE
    OBVIOUS
  <2>2. live \subseteq live' /\ whole \subseteq whole' /\ new \in live' \ live
    BY <1>4, <2>1, FromCacheAdds
  <2>3. Held(new)' /\ SizeOf(new)' = mem_pool_size[Class]
    BY <2>2, SizeWillBe DEF Held
  <2>4. Class \in 1 .. MEM_POOLS /\ mem_pool_size[Class] >= size
    <3>1. mem_pool_lookup(size) = Class
      BY <1>2, <1>4
    <3>2. Class \in 1 .. MEM_POOLS /\ Class # 0
      BY HeapAssumption, PoolsAre
    <3> QED
      BY <3>1, <3>2, LookupFits
  <2>5. mem_pool_size[Class] \in Int
    BY <2>4, PoolSizes DEF PoolSize
  <2>6. new \notin live \cup whole
    BY <2>2, Kinds DEF HInv, IInv, TypeOK
  <2>7. new # old
    BY <2>2, <2>6, <1>3, Kinds DEF Held, HInv, IInv, TypeOK
  <2>8. Begin(old, new)
    BY <1>4, <2>1
  <2> QED
    BY <1>1, <1>2, <2>2, <2>3, <2>4, <2>5, <2>6, <2>7, <2>8, Begins
<1>5. CASE /\ CacheFor[size] = 0
           /\ \E w \in Free(OrderFor[size]) : FromPages(w) /\ Begin(old, w)
  <2>1. PICK w \in Free(OrderFor[size]) : FromPages(w) /\ Begin(old, w)
    BY <1>5
  <2>2. OrderFor[size] = mem_order_calculate(size)
    BY <1>1, <1>5 DEF OrderFor
  <2>3. w \in Whole /\ w.order = mem_order_calculate(size) /\ w \notin live \cup whole
    BY <2>2, PagesAreNew
  <2>4. UNCHANGED live /\ whole' = whole \cup {w}
    BY <2>1 DEF FromPages
  <2>5. Held(w)' /\ SizeOf(w)' = 2^(PAGE_SHIFT + w.order)
    BY <2>4, SizeWillBe DEF Held
  <2>6. w.order =< MAX_ORDER /\ w.order \in Nat
    BY <2>3, OrdersAreNumbers DEF Whole
  <2>7. SizeOf(w)' >= size
    BY <1>2, <2>3, <2>5, <2>6, OrderFits
  <2>8. SizeOf(w)' \in Int
    BY <2>5, <2>6 DEF PAGE_SHIFT
  <2>9. w # old
    BY <2>3, <1>3, Kinds DEF Held
  <2> QED
    BY <1>1, <1>2, <2>1, <2>3, <2>4, <2>5, <2>7, <2>8, <2>9, Begins
<1>6. CASE /\ CacheFor[size] \notin {0, Class} /\ old \in live
           /\ Begin(old, [class |-> CacheFor[size]])
           /\ UNCHANGED <<vars, order, whole>>
  <2>1. PICK i, new : i = mem_pool_lookup(size) /\ new = [class |-> i]
    OBVIOUS
  <2>2. i \in 1 .. MEM_POOLS /\ mem_pool_size[i] >= size
    BY <1>2, <1>6, <2>1, LookupFits
  <2>3. "class" \in DOMAIN new /\ new.class = i
    BY <2>1
  <2>4. Held(new)' /\ SizeOf(new)' = mem_pool_size[i]
    BY <2>3, SizeWillBe DEF Held
  <2>5. mem_pool_size[i] \in Int
    BY <2>2, PoolSizes DEF PoolSize
  <2>6. new \notin live \cup whole /\ new # old
    BY <1>6, <2>3, Kinds DEF HInv, IInv, TypeOK
  <2>7. live \subseteq live' /\ whole \subseteq whole'
    BY <1>6 DEF vars
  <2>8. Begin(old, new)
    BY <1>2, <1>6, <2>1
  <2> QED
    BY <1>1, <1>2, <2>2, <2>4, <2>5, <2>6, <2>7, <2>8, Begins
<1> QED
  BY <1>1, <1>4, <1>5, <1>6

\* memcpy, and mem_free of the old memory.
LEMMA AdvancesByStep ==
  ASSUME NEW t \in Thread, Advance(t)
  PROVE  /\ call[t].step = "copy" => call' = [call EXCEPT ![t] = [@ EXCEPT !.step = "free"]]
         /\ call[t].step = "free" => call' = [call EXCEPT ![t] = NoCall]
<1> DEFINE next == Steps[call[t].step]
<1>1. call' = [call EXCEPT ![t] = IF next = "none" THEN NoCall
                                  ELSE [@ EXCEPT !.step = next]]
  BY DEF Advance
<1>2. /\ call[t].step = "copy" => next = "free" /\ next # "none"
      /\ call[t].step = "free" => next = "none"
  BY DEF Steps
<1> HIDE DEF next
<1>3. ASSUME call[t].step = "copy"
      PROVE  call' = [call EXCEPT ![t] = [@ EXCEPT !.step = "free"]]
  <2>1. next = "free" /\ next # "none"
    BY <1>2, <1>3
  <2> QED
    BY <1>1, <2>1
<1>4. ASSUME call[t].step = "free"
      PROVE  call' = [call EXCEPT ![t] = NoCall]
  <2>1. next = "none"
    BY <1>2, <1>4
  <2> QED
    BY <1>1, <2>1
<1> QED
  BY <1>3, <1>4

LEMMA ReallocGoesOn ==
  ASSUME HInv, HInv', MoveInv, NEW t \in Thread, ReallocCopy(t) \/ ReallocFree(t)
  PROVE  MoveInv'
<1>1. CASE ReallocCopy(t)
  <2>1. /\ call[t].step # "none"
        /\ call' = [call EXCEPT ![t] = [@ EXCEPT !.step = "free"]]
        /\ UNCHANGED <<live, whole>>
    BY <1>1, AdvancesByStep DEF ReallocCopy, vars
  <2> QED
    BY <2>1, Advances
<1>2. CASE ReallocFree(t)
  <2>1. call[t].step # "none" /\ call' = [call EXCEPT ![t] = NoCall]
    BY <1>2, AdvancesByStep DEF ReallocFree
  <2>2. live \subseteq live' \cup {call[t].old} /\ whole \subseteq whole' \cup {call[t].old}
    <3>1. ASSUME FreeObject(t), arg'[t] = call[t].old
          PROVE  live \subseteq live' \cup {call[t].old} /\ UNCHANGED whole
      BY <3>1 DEF FreeObject, FreeLookup, HInv, IInv, TypeOK
    <3> QED
      BY <1>2, <3>1 DEF ReallocFree, FreePages, vars
  <2> QED
    BY <2>1, <2>2, Advances
<1> QED
  BY <1>1, <1>2

\* Everything else leaves the memory of every mem_realloc alone.
LEMMA MoveInvKept ==
  ASSUME HInv, HInv', MoveInv, [HeapNext]_<<vars, heapVars>>
  PROVE  MoveInv'
<1>1. CASE UNCHANGED <<call, live, whole>>
  BY <1>1, StandingCallsKept
<1>2. ASSUME NEW t \in Thread, MemAlloc(t)
      PROVE  MoveInv'
  <2>1. UNCHANGED call
    BY <1>2 DEF MemAlloc
  <2>2. live \subseteq live' /\ whole \subseteq whole'
    BY <1>2, FromCacheAdds DEF MemAlloc, FromPages
  <2> QED
    BY <2>1, <2>2, StandingCallsKept
<1>3. ASSUME NEW t \in Thread, MemFree(t)
      PROVE  MoveInv'
  <2>1. UNCHANGED call
    BY <1>3 DEF MemFree
  <2>2. CASE FreeObject(t) /\ arg'[t] \notin Moving
    <3>1. live \ live' \subseteq {arg'[t]} /\ UNCHANGED whole
      BY <2>2 DEF FreeObject, FreeLookup, HInv, IInv, TypeOK
    <3> QED
      BY <2>1, <2>2, <3>1, StandingCallsKept
  <2>3. CASE \E w \in whole \ Moving : FreePages(w)
    <3>1. PICK w \in whole \ Moving : FreePages(w)
      BY <2>3
    <3>2. whole \ whole' \subseteq {w} /\ UNCHANGED live
      BY <3>1 DEF FreePages
    <3> QED
      BY <2>1, <3>1, <3>2, StandingCallsKept
  <2> QED
    BY <1>3, <2>2, <2>3 DEF MemFree
<1>4. ASSUME NEW t \in Thread, MemCacheFree(t)
      PROVE  MoveInv'
  BY <1>1, <1>4 DEF MemCacheFree, FreeSlot, heapVars
<1>5. ASSUME NEW t \in Thread, Shrinking(t) \/ Releasing(t), UNCHANGED <<whole, call>>
      PROVE  MoveInv'
  BY <1>1, <1>5 DEF Shrinking, Releasing, Shrink, Release
<1>6. CASE (SettingUp \/ OtherCache) /\ UNCHANGED <<whole, call>>
  BY <1>1, <1>6 DEF SettingUp, Setup, OtherCache
<1>7. CASE mem_alloc_setup \/ UNCHANGED <<vars, heapVars>>
  BY <1>1, <1>7 DEF mem_alloc_setup, vars, heapVars
<1> QED
  BY <1>2, <1>3, <1>4, <1>5, <1>6, <1>7, ReallocAllocKeeps, ReallocGoesOn DEF HeapNext

LEMMA HeapStepMoves ==
  ASSUME HInv, MoveInv, [HeapNext]_<<vars, heapVars>>
  PROVE  MoveInv'
BY HeapStepHolds, MoveInvKept

LEMMA MoveInvariance == HeapSpec => []MoveInv
<1>1. HeapInit => MoveInv
  BY DEF HeapInit, MoveInv, NoCall
<1>2. HInv /\ MoveInv /\ [HeapNext]_<<vars, heapVars>> => MoveInv'
  BY HeapStepMoves
<1> QED
  BY <1>1, <1>2, HeapInvariance, PTL DEF HeapSpec

\* mem_realloc copies from memory it still has to larger memory it has: no
\* interleaving of calls frees either in between, and neither the lookup of
\* a cache nor the order calculated for a request gives too little.
THEOREM CopiesItsOwn == HeapSpec => []CopiesWhatItHolds
<1>1. MoveInv => CopiesWhatItHolds
  BY DEF MoveInv, CopiesWhatItHolds, NoCall
<1> QED
  BY <1>1, MoveInvariance, PTL

=============================================================================
