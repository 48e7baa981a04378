--------------------------------- MODULE Layout ---------------------------------
(***************************************************************************)
(* The arithmetic of alloc.c: how many objects of a size go into a pool,   *)
(* where the pool keeps its own data, and which cache or how many pages    *)
(* serve a request.  Sizes are in bytes.                                   *)
(***************************************************************************)
EXTENDS Integers, Sequences

PAGE_SHIFT == 12
MAX_ORDER == 18
OBJS_PER_WORD == 64
MIN_POOL_OBJS == 8

\* The power of two that is not less than x.
ilog2(x) == CHOOSE n \in 0 .. 30 : 2^n >= x /\ \A m \in 0 .. n - 1 : 2^m < x

ceil(divident, divisor) == (divident + divisor - 1) \div divisor

align_up(size, align) == align * ceil(size, align)

\* struct mem_pool ends in one word of its bitmask, the others follow it.
meta_size(objs) == align_up(48 + (ceil(objs, OBJS_PER_WORD) - 1) * 8, 8)

\* Mutant of ObjsThatFit: the pool's own data are forgotten.
ObjsThatFitAlone(pool_size, obj_size) == pool_size \div obj_size

\* The loop of mem_cache_layout_setup, from the number that fits without the
\* pool's own data down.
ObjsThatFit(pool_size, obj_size) ==
  LET fits(objs) == obj_size * objs + meta_size(objs) =< pool_size
  IN  CHOOSE objs \in 0 .. pool_size \div obj_size :
        fits(objs) /\ \A n \in objs + 1 .. pool_size \div obj_size : ~fits(n)

mem_cache_layout_setup(size, align) ==
  LET obj_size   == align_up(size, align)
      min_size   == obj_size * MIN_POOL_OBJS + meta_size(MIN_POOL_OBJS)
      pool_order == ilog2(min_size \div 2^PAGE_SHIFT)
      pool_size  == 2^(pool_order + PAGE_SHIFT)
      objs       == ObjsThatFit(pool_size, obj_size)
  IN  [meta_offs |-> pool_size - meta_size(objs), obj_count |-> objs,
       mask_words |-> ceil(objs, OBJS_PER_WORD), obj_size |-> obj_size,
       pool_order |-> pool_order]

mem_pool_size ==
  << 64,   128,  192,  256,  320,  384,  448,
     512,  576,  640,  704,  768,  832,  896,
     960,  1024, 1152, 1280, 1408, 1536, 1664,
     1792, 1920, 2048, 2304, 2560, 2816, 3072,
     3584, 4096, 5120, 6144, 7168, 8192 >>

MEM_POOLS == Len(mem_pool_size)

\* The number of the cache, 0 if there is none.
mem_pool_lookup(size) ==
  LET fits == {i \in 1 .. MEM_POOLS : mem_pool_size[i] >= size}
  IN  IF fits = {} THEN 0 ELSE CHOOSE i \in fits : \A j \in fits : i =< j

\* MAX_ORDER + 1 when no block is large enough: the page allocator refuses.
mem_order_calculate(size) ==
  LET fits == {n \in 0 .. MAX_ORDER : 2^(n + PAGE_SHIFT) >= size}
  IN  IF fits = {} THEN MAX_ORDER + 1
                   ELSE CHOOSE n \in fits : \A m \in fits : n =< m

=============================================================================
