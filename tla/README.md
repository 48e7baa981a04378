# A TLA+ model of the spbau-os-hw kernel

The repository is a small teaching kernel for one x86-64 CPU, compiled at -O0:
spin locks, preemptive threads, three memory allocators stacked on each other
(bootstrap, pages, slabs), page tables, and a serial console. This directory
holds TLA+ modules for its core, the TLC configurations that check them, and
proofs for TLAPS. Paths below are relative to `src/src/src/` unless they say
otherwise; `inc/` is `src/src/inc/`.

    tlc -config Threads.cfg MCThreads.tla       # one of the runs listed below
    tlapm Threads_proofs.tla                    # the proofs

## 1. Inventory

### The parts, their state and their operations

| Part | Files | State | Operations |
|---|---|---|---|
| Spin lock | `spinlock.c`, `inc/spinlock.h` | one word | `lock` (test, then exchange), `unlock` |
| Threads | `thread.c`, `switch_threads.S` | the ring of `thread_t` (list heads, saved stack pointer, `state`), `threads_head`, `threads_lock`, `all_proc_ended` | `thread_create`, `thread_wrapper`, `thread_kill`, `thread_wait`, `switch_threads` |
| Timer interrupt | `time.c`, `ints.c`, `i8259a.c`, `entry.S` | the interrupt flag, request and in-service bits of the controller, activations on each stack | tick, gate, acknowledgement, `pit_handler`, `iretq` |
| Test program | `main.c` | `x`, `lck`, two threads | `main`, `add`, `print` |
| Page allocator | `memory.c` | zones, free lists by order, the flags of each `struct page`, `page_lock` | `page_alloc_setup`, `page_alloc`, `page_free` and the zone variants |
| Slab caches and heap | `alloc.c` | 34 caches, each with three lists of pools; per pool a bitmask and a counter; `PAGE_CACHE_BIT` and the cache or the order in each page | `mem_cache_alloc/free/shrink/release/setup`, `mem_alloc/free/realloc/shrink` |
| Bootstrap allocator | `balloc.c` | two trees of address ranges over 128 nodes | `balloc_parse_mmap`, `balloc_alloc`, `balloc_free` |
| kmap | `paging.c` from line 214 | `kmap_ranges` (boundary tags), lists of free runs by order, the page table entries of the window | `kmap_setup`, `kmap`, `kunmap` |
| Page tables | `paging.c` to line 213 | four levels of tables | `pt_map_pages`, `pt_populate_pages`, `paging_setup` |
| Red-black tree, lists | `rbtree.c`, `list.c` | links (and colours) | insert, erase, walk; `list_add`, `list_del`, `list_splice` |
| Formatted output, conversions | `print.c`, `stdlib.c`, `ctype.c`, `string.c` | of a call: the place in the format, what was written, the buffer | `printf`, `snprintf`, `strtoul`, `lltoa`, ... |
| Serial line | `serial.c` | the registers of the chip, the byte it has not sent, who has seen it ready | `serial_setup`, `serial_putchar`, `serial_write` |
| Boot, backtrace | `bootstrap.S`, `videomem.S`, `backtrace.c` | none that lasts | mode switch, dumps |

### How they interact

* The **timer interrupt** is the only source of concurrency. It is taken
  between any two instructions that run with interrupts enabled, and calls
  `switch_threads`, which moves `threads_head` one place round the ring and
  swaps stacks. A thread that is switched out is inside the handler, on its own
  stack, and returns to its code when the ring comes round to it.
* `thread_create` and `thread_kill` hold `threads_lock` but leave interrupts
  enabled, so the scheduler walks the ring they are changing. `thread_wait` takes
  no lock: it spins on a `state` that another thread's last switch sets.
* `thread_create` and `thread_wait` call `mem_alloc` and `mem_free`; those take
  the lock of a **slab cache** and, inside it, `page_lock`; never the other way.
  `mem_free` finds the cache from the page of the pointer before it takes any lock.
* The **page allocator** gets its zones and its free pages from the two trees of
  the **bootstrap allocator**, which gets them from the multiboot memory map.
  Both set-ups run before interrupts are enabled for the first time.
* **kmap** takes its array from `mem_alloc`, the tables of its window are filled
  beforehand by `kmap_setup`; it has no lock, and its only caller (`test_kmap`) is
  commented out of `main`.
* **`mem_alloc`** serves a request from a cache or, past 8 KB, with whole pages.
  `mem_free` and `mem_realloc` find out which from a bit in the page structure, which
  the page allocator neither clears nor keeps.
* **`printf`** sends each piece to the **serial line**, which takes one byte at a time and has no
  lock: `add` prints without `lck` (`main.c:170`), and the scheduler
  prints inside the interrupt (`thread.c:132`, `178`).

### What is hard about it, and what must hold

| Part | Hard behaviour | What makes it correct |
|---|---|---|
| Spin lock | preemption between the test and the exchange | exclusion; the word is never left LOCKED without a holder |
| Threads | a tick in the middle of a list insertion, a switch or a kill; a thread freed while it may still be on its stack; interrupts enabled inside the handler | one ring, linked both ways, at every instruction; each thread resumes on its own registers; nothing reachable is freed; only a dying thread leaves; everybody runs again |
| Timer interrupt | a handler that switches to a new thread never comes back to its caller | the interrupt is acknowledged before interrupts are enabled |
| Test program | a tick while `x` is printed or added to, use after free, waiting for each other | the number printed is that of `x`, and a wait shows all additions; `x` outlives its users; the program ends |
| Page allocator | zone edges, stale flags in pages inside blocks, long sequences of splits and merges | no page lost or given twice; marks fresh where they are read; merging is complete; refusal only when no block is left |
| Slab caches | pools moving between lists, shrinking while others free, pages that change owner | objects in use are the cache's own; mask, counter and list agree; pages are taken last |
| Heap | whole pages told from objects by one bit that earlier owners left as they liked; the layout of 34 size classes; copying before freeing | `mem_free` goes back the way `mem_alloc` came; objects, bitmask and pool data fit in the pool; `mem_realloc` copies from and to memory of its own |
| Bootstrap allocator | entries in any order, overlapping, reserved and free; a fixed supply of nodes | nothing reserved is free, nothing usable is lost, blocks are handed out once |
| Red-black tree | relinking and recolouring in many shapes; the next node looked up before an erasure | order and balance hold; every node is found; the walk meets each node once |
| kmap | neighbours found from tags that may be stale | the runs tile the window; a run leads to its pages, the rest of the window nowhere |
| Page tables | ragged ends at four levels, large pages, the top of the address space | every address leads where it should, before and after any call of kmap |
| Formatted output | the end of the buffer, the end of the format, an unknown directive | the text is cut, not lost; nothing is written or read outside |
| Serial line | registers behind the divisor latch bit; a byte of others between the test for an empty transmitter and the write | the line carries what was printed, in order; a byte is lost only to a byte of others |
| Conversions | the greatest and least values, prefixes, overflow | what is written reads back |

`PROJECT.json` lists each hazard with its line and the properties that watch it, or why none does.

## 2. The modules

    Mutex  <--implements--  Spinlock          Spinlock_proofs
    RoundRobin  <--impl.--  Threads           Threads_proofs
                               ^ EXTENDS
                            ThreadTest        ThreadTest_proofs
    PagePool  <--impl.--    Buddy             Buddy_proofs
             Slab  <--EXTENDS and implements--  Heap  --EXTENDS-->  Layout
                                              Heap_proofs
                            Balloc  <--EXTENDS--  BallocTree  --EXTENDS-->  RBTree
                            Balloc_proofs
                            KMap    <--EXTENDS--  Paging      --EXTENDS-->  PageTable
                                              Paging_proofs
                            Serial  <--EXTENDS--  Format      --EXTENDS-->  Convert
                                              Format_proofs

**Shift** holds the powers of two (`1 << k`), for Buddy, PagePool, Layout, KMap and
Convert. Modules `MC...` only give constants small values. In each module the properties
come last, and an operator that a comment calls a mutant is a plausible wrong
version of the definition after it, used only to see that a property notices.

**Spinlock** (`spinlock.c`). `pc` per thread, one action per instruction that
touches the word: the relaxed load, the exchange, the store. `Mutex` is what is
promised: a set of waiting threads, at most one holder.

**Threads** (`thread.c`, `switch_threads.S`, `list.c`, and the timer's way through
`time.c`, `ints.c`, `entry.S`, `i8259a.c`). State: the CPU (whose stack it is on,
the interrupt flag), the controller's request and in-service bits, the fields of every
`thread_t`, and where each thread's code is. Whatever runs with interrupts
enabled is cut into steps at every read or write of shared state
(`LockThreads`, `AllocThread`, `AllocStack`, `InsertRead`, `InsertForward`,
`InsertBackward`, `LayFrame`, `UnlockCreate`; `KillMark`, `KillDisableInts`,
`KillUnlock`; `WaitDead`, `WaitFreeStack`, `WaitFreeThread`); the interrupt may come
between any two. `Switch` is the part of `switch_threads` that runs with
interrupts disabled, the deletion of a dying thread included; `Resume` and
`SwitchReturns` are its ways out, which enable interrupts. `frame[t]` is the
thread whose saved registers the stack pointer in `t` leads to. A switch to a
thread that has no frame yet sets `machine` to "wild": what the CPU does
then is undefined, and the model stops. Clients are arbitrary: they create, wait
once for each thread they created, and return. Taking `threads_lock` is one
step, which module Spinlock justifies.

`RoundRobin` is the promise: a queue of threads, `Spawn` at its end, `Rotate`,
and `Reap` for the first when it is doomed. The mapping walks the `next` pointers
from `threads_head`.

**ThreadTest** (`main.c` from `enable_ints()` on) replaces the arbitrary clients by
the program: `main` allocates `x`, creates a printer and an adder, waits for
both and frees `x`. `*x += 1` is a load and a store. Every kernel step is
that of Threads. `mem_alloc` takes the lowest free slot of a pool, so it is known which
`thread_t` the printer gets: the constant `First`.

**Buddy** (`memory.c`). Page numbers, zones, lists as sequences, and for each
page the two things its flags keep: a free mark and an order. A step is one turn of a
loop. `CarveBlock` is a turn of the set-up, which cuts the largest aligned block off the
front of what is left (`todo`). `Alloc` searches the zones as `__page_alloc` does and
takes the first block it finds (`work`, the block at hand), `SplitBlock` gives back its
upper half as often as needed, `HandOut` ends the call. `Free` takes a block, `MergeBuddy`
joins it with its buddy if the marks it reads say so, `MergeEnds` links what it has become.
The call holds `page_lock` throughout, so no other call starts in between.
`PagePool` is the promise: a set of free pages, a block given is aligned and disjoint from all
others, a refusal means that no aligned block is free or that the order is past `MAX_ORDER`,
which `memory.c:269` and `294` test before they look (in the model no zone serves such an order).

**Slab** (`alloc.c`). One cache: for each block of pages the list it is in,
the bitmask, the counter, the owner, and the cache its pages name. Operations
that hold the cache's lock are one step; the look at the page in `mem_free` is a
step of its own (`FreeLookup`, `FreeSlot`). The page allocator's other clients take and
return any blocks in between and leave any marks on them (`OthersTake`, `OthersReturn`),
and the pages start with any marks: they are never zeroed.

**Layout** (`alloc.c:31-94`, `339-366`): the arithmetic. The layout of a pool, the size
class of a request, the order of whole pages.

**Heap** (`alloc.c:368-472`) composes one cache with the rest of the heap. After
`mem_alloc_setup` has laid out the 34 caches, threads call `MemAlloc`, `MemFree` and
mem_realloc, the last in three steps (`ReallocAlloc`, `ReallocCopy`, `ReallocFree`) since no
lock spans them. Its cache steps are Slab's; `FromPages` and `FreePages` are whole
pages, with the marks as the code writes them and an order read back from the page;
`OtherCache` is what the other caches do to the pages. The page allocator in it is what
PagePool promises. `ImplementsSlab` says that all this is Slab, whose
`OthersTake` and `OthersReturn` are the rest of the heap.

**Balloc** (`balloc.c`). A tree is a set of ranges; that the search by begin and the
search by end agree is the invariant that ranges neither overlap nor touch (`IsTree`). One action per turn of the two
loops of `balloc_parse_mmap`, and within them per turn of the loop of
`__balloc_remove_range` (`RemoveRange` finds the first node, `CutNode` cuts one and goes to the
next, `RangeRemoved` ends it); then `Alloc` and `Free`. `NodesLeft` counts nodes
at the moment when `balloc_alloc_node` would fail.

**RBTree** (`rbtree.c`). `Link`, `Insert`, `Erase` and `Neighbour` are functions of
a tree: root, children, parents, red nodes. The code writes each function twice,
for left and right; here the side is a parameter. `Erase` keeps the order of the
code: `EraseInner` puts the next node in the place of one with two children, `EraseFix` then
repairs the missing black node, with `FixByBrother` as the rest of its loop. `RedBlack` says what a red-black tree is.

**BallocTree** (`balloc.c` on `rbtree.c`) adds the two real trees to Balloc. Every action
is Balloc's, together with what the code does to the trees: its two searches, its walk to the next
node, its insertions and erasures (`TreeAdd`, `TreeCut`, `TreeRemove`, `TreeAlloc`). That the
trees then hold the ranges of the sets is `TreesAreRight`. The functions recurse, so nothing is
proved about them; Balloc itself stays free of them.

**KMap** (`paging.c:214-411`). Tags, list heads ("linked", "self", or "wild" after
`list_del`), lists, and the runs that are held. The neighbours of a freed run
are computed from the tags, exactly as in the code, stale ones included.

**PageTable** (`paging.c:26-158`, `363-379`). Tables of entries, and the recursion of
`__pt_map_pages` as a stack of calls: `Turn` is one turn of its loop, with large
pages, new tables, and a `fault` where a BUG_ON stops or a large page is taken for a table.
`Translate` is the processor's walk.

**Paging** (`paging.c:194-213`, `322-411`): `paging_setup`, `kmap_setup`, then KMap's steps
with what kmap and kunmap do to the tables, entry by entry.

**Convert** (`stdlib.c`, `ctype.c`): `strtoul`, `ulltoa`, `lltoa` and the character
classes, on strings of character codes, with arithmetic modulo 2^LongBits. The two loops
are recursive functions: `Numerals` of a number, `Turns` of the number of characters read.

**Serial** (`serial.c`): the setup's writes one by one on a chip whose first two ports mean
the divisor while DLAB is set, and the byte that waits in the transmitter. `serial_putchar` is two
steps, `SeesReady` and the write; `StrayByte` is the write of somebody else.

**Format** (`print.c`): `decode_format`, one turn of `__vprintf` a step, into a buffer
(`str_out`, with the bytes around the buffer in the model, up to `MaxSize`) or byte by byte to the line,
while others print there (`OthersPrint`).

## 3. The runs

| Run | Question | Result |
|---|---|---|
| spinlock | does it exclude, implement a mutex, and let somebody in? | yes |
| threads | do ring, registers and memory stay right when ticks hit every step and nest? is it a round robin? | yes, until the machine stops |
| thread_test | do the printer and `main` see what was added, is `x` freed last, does the program end? does every thread get the CPU again and again? | yes, but for the defect below |
| thread_test_ends | does the program always end? | **no** |
| thread_test_wild | does a new thread always have a frame when it is switched to? | **no** |
| buddy | no page lost or given twice, marks fresh where merging reads them, refusal only when no block is left? | yes |
| buddy_left_over | and if the page structures are not zeroed at set-up? | **no** |
| heap | do all size classes fit? do objects, masks and owners agree while whole pages and other caches come and go? does `mem_free` find its way? | yes |
| balloc | nothing reserved free, nothing given twice, nothing leaked, no fit missed, nodes enough? are the red-black trees in order, balanced, and do they hold the right ranges? | yes |
| balloc_overlap | is no usable byte forgotten when entries overlap? | **no** |
| paging | does every address lead where it should, for every amount of memory? do runs tile the window, and lead to their pages? | yes |
| format | what ends in the buffer, on the line, in the number read? | what the properties say, next paragraph |

`TextIsCut` and `WritesInside` say what the code does, which is not what C promises:
`vsnprintf` (`print.c:240`) puts the NUL in the place of the last character even when there is
room behind it, and writes the byte before the buffer when the text is empty or the size is
0. Nothing in the repository says otherwise, so this is no run of its own.

### What the four violations show

* **thread_test_ends**, `thread.c:142`. `thread_kill` marks the thread DYING, and only
  then disables interrupts. A tick between the two deletes the thread while it
  holds `threads_lock`; nobody unlocks it, and the next thread to end
  spins for ever. `EndsUnlessLockLost`, in run thread_test, says that this is
  the only way for the program to hang.
* **thread_test_wild**, `thread.c:44`. `new_thread_init` links the thread into the
  ring before `thread_create` lays the frame its first switch pops. A
  tick in between resumes from an empty stack.
* **buddy_left_over**, `memory.c:80`. The size of the `memset` that should zero the
  page structures is `zone->end - zone->end`. Pages that are never given to the
  allocator keep what was in memory; when it looks like a free buddy,
  `page_free_zone` unlinks a page that is on no list. The run's constant
  `LeftOver` is the set of left-over flags; run buddy sets it to zeroed ones and
  checks everything else.
* **balloc_overlap**, `balloc.c:83`. Where the new range meets its successor it takes
  `next->end`, even when it reaches further itself. The comment at lines
  189-196 says that overlaps of regions of one kind are no problem. What is lost
  is only lost: `OnlyUsableIsFree` holds for all overlaps.

One more disagreement is visible in Threads and has no run of its own: the comments
at `ints.c:64-65` and `108-110` say that interrupts stay disabled until
`iretq`, but `switch_threads` enables them before it returns to the handler
(`thread.c:172,179,226`), so ticks nest. The model has this, up to `MaxNest`
activations on a stack; the run shows that the scheduler's data do not mind.

### Bounds, and why they are enough

* **spinlock**: four threads. Three already show a thread that loses the exchange
  while another waits; the proofs do not depend on the number.
* **threads**: the boot thread and two more places, interchangeable (symmetry; the
  run checks no liveness). Two creators and a killer in one ring need no more;
  places are reused after `thread_wait`, so histories are not bounded. `MaxNest = 2`:
  an interrupt inside an interrupt's tail; a deeper one finds the same state on
  its stack.
* **thread_test**: `Rounds = 1` and no nesting, no symmetry, for it checks liveness;
  `First` fixes the order in which `thread_t` are given out, which the program
  cannot influence; **thread_test_ends** and
  **thread_test_wild** use two rounds. With one round the adder's load and
  store already race with everything the printer and `main` do; the loop itself
  adds only repetition.
* **buddy**: two zones with ragged ends, the first at address 0, orders 0 to 2: blocks
  at both ends of a zone whose buddy lies outside it, a zone without a block
  of the highest order, and eight free pages to split and merge. 127 061 states, since
  every turn of a loop is one.
* **heap**: three objects per pool (a first, a middle, and a last one), words of two
  bits so that the last word is partly unused, three blocks, two threads. The modelled
  cache is that of 1920 bytes, whose pools are four pages, so that the requests (1900,
  3000, 16384 and 16385 bytes) are an object of it, one of another cache, one block
  of whole pages and two. Layouts are computed with the real sizes, all 34.
* **balloc**: all memory maps of two and three entries over the addresses 0, 8, 16,
  20, 32, free or reserved, and maps of three entries that leave a gap of
  one byte, which is where the kernel image cuts. For deep trees, maps of six regions
  that stay apart, inserted in three orders and reserved again in all 720, or the other way
  round: with the kernel image seven nodes, enough for every case of `Insert` and `EraseFix`.
  `MaxRanges = 14` (128 in the code) is tight: with 13, `NodesSuffice` fails; a map
  of nine regions that touch stays within it only because they are merged.
* **paging**: tables of three entries (512 in the code), so 81 pages of address space; every
  amount of memory from one page to more than fits, whose ends are ragged at each
  level; a window of nine pages (2^19) that spans several tables, three lists (16), runs of two,
  three and eight pages: a power of two, what is not, a request past the last list. With
  one amount of memory (`KmapLimits`) several runs are held at a time; with the others
  one, since the tables of the window do not depend on it.
* **format**: all formats of up to four of nine characters and longer ones for each modifier, into
  buffers of 0 to 5 bytes; on the line, formats of up to three characters and the longer ones,
  with two bytes of others (`MaxStrays`), so that one can be lost and one go between; the edge
  values of each integer type (7 bits for long, 5 for int), all strings of up to four characters
  for strtoul in each base, all values of a long through lltoa. `MaxSize = 12` is how much
  memory from the buffer's start the model looks at, more than twice the largest buffer.

### Fairness

* Spinlock: weak fairness of the steps of each thread that is in `lock`, and of the
  store of the one that holds it: the scheduler gives the CPU to everybody. It is
  not assumed that a thread wins the exchange, so the property is that *someone*
  gets in.
* Threads: the timer keeps ticking (it is programmed once, `time.c`), the CPU takes
  an interrupt that stays possible, and a thread that gets the CPU again and
  again goes on, inside the handler and outside (strong fairness: its steps are
  disabled while others run). That every thread does get the CPU is not assumed;
  it is `EveryThreadRuns`. It is assumed that the handler ends before the next
  tick often enough for the code below it to advance.
* ThreadTest: the same, and for the steps of the program. `EveryThreadRuns` is checked
  there: a thread in the ring gets the CPU again and again while the machine runs. Clients
  of Threads owe nothing: a thread may stay in its run function for ever.

## 4. The proofs

For every value of the constants that the modules' assumptions allow. Each inductive invariant stands in
its module of proofs.

* **Spinlock_proofs**: `Exclusion`, `WordAndHolder`, and `Refinement`: every step is a
  step of `Mutex` or a stutter. `Changes` says once what any step does to the word and to
  the sets of those who ask for the lock and who hold it; the other proofs rest on it and look at no
  program counter. Exclusion alone is not inductive: an exchange that
  finds UNLOCKED must imply that nobody is inside, so the invariant, `WordAndHolders`, joins the
  two: UNLOCKED and no holder, or LOCKED and one.
* **Threads_proofs**: type correctness, `RingIsWhole`, `ContextIsOwn`, `NoUseAfterFree`,
  `DeadAreOut`, `Exclusion`, `AssertionsHold`, `NoZombie`, `TicksGoOn`, the action
  property `LeavesByDying` and the refinement `SchedulerIsRoundRobin`, for any number of
  threads and any nesting. `IInv` says what holds at every instruction:
  where interrupts are disabled (`CpuInv`), that everybody who does not run is
  inside a switch or new (`ActivationInv`), that who is outside the ring is idle or died
  with the lock (`PcInv`), when a thread is DYING (`StateInv`), what the arguments of
  an insertion point to while `threads_lock` is held (`ArgInv`), that a `thread_t` has one owner
  (`OwnInv`, without which two waits could free it twice), and the
  links (`LinkInv`) with the insertion in progress as the one exception. `OneRing` is stated
  with sets closed under `next`, so that insertion and deletion are set arguments.
  One lemma per action; the long ones are the two halves of
  the insertion and the switch away from a dying thread. For the refinement this is not
  enough: the queue is the walk along `next` from `threads_head`, so `QInv` adds that there
  is a sequence which lists the ring in that order (`Lists`). Each step changes that
  sequence as RoundRobin says: an insertion appends, a switch rotates, a deletion drops the first.
* **ThreadTest_proofs**: `ReadersAreCurrent` and `XIsFreedLast`, for any number of threads
  and rounds, and `KernelHolds`, that the scheduler keeps its invariant when this program is the client.
  `TInv` says which threads `main` has named and waits for (`NameInv`, `HandleInv`,
  `WaitInv`), how far each is in its run function (`WorkInv`), and that `x` counts the adder's
  rounds and is what the holder of `lck` has read (`CountInv`). Only the adder writes `x`, so no increment could be
  lost even without `lck`; what `lck` does is to keep `x` still while the printer prints it;
  that a wait returns only after a death comes from `IInv` of Threads.
* **Heap_proofs**, first part (the cache): type correctness, `ObjectsAreOwned`, `MaskIsRight`,
  `ListsAreRight`, `AssertionsHold` and the action property `GrowsLast`, for any number of threads and
  blocks and any pool of two objects or more. The code decides the list from the
  counter, the promise is about objects: `IInv` joins them by `FreeCounts`, that
  the counter is the number of slots not in use. Second part (the heap): `HeapIsSlab`, that the
  heap implements Slab, and `WayBack`, that
  `mem_free` recognises whole pages and knows how many they are, for any requests, blocks and
  threads. Neither stands alone: that `FreePages` is a step of Slab's others needs the
  marks to be right, and that the marks stay right needs Slab's invariant (what shrinks is
  the cache's, what a cache takes is nobody's). `HInv` carries both. With it
  everything proved of Slab holds in the heap (`HeapObjectsAreOwned`). Third part:
  `LayoutsFit`, the layout of each of the 34 caches, which has no parameters and is computed
  from the recursive function `Shl`; and `CopiesItsOwn`, that `mem_realloc` copies between memory that is its
  caller's. `MoveInv` says that what a call works on is held until its own step frees it and that no
  two calls work on the same memory, and this needs `HInv`.
* **Balloc_proofs**: `FreeIsUsable`, `BlocksAreGood`, and the action properties `NoByteLost` and
  `NoFalseRefusal`, for any maps, kernel image, number of nodes and requests. The sets of ranges keep apart
  and no two touch, whatever order the entries come in (`AddRange`, also for the overlaps of which it
  forgets bytes); what was removed stays away (`Cleared`). `AtNode` carries the loop of
  `__balloc_remove_range`: what it has still to cut lies at its node or behind it.
  `NodesForAll` says when the nodes suffice, whatever the map and the order of calls: two for each entry and for
  the kernel image, one for each block in use and two more (with the code's 128 a map of 20 entries leaves
  room for 84 blocks). `StartInv` bounds the trees by where ranges may begin: where an entry or the kernel image
  begins or, once that part has been taken out, where it ends, and after the setup also where another range ends.
  As no two ranges of a tree begin at one place, there are no more than such places. The
  code does not test how long the map is, so the sum is a hypothesis; past it a `BUG_ON` may stop the boot.
* **Paging_proofs** (kmap): `WindowIsTiled`, `RefusesTruly` and `KmapStaysUp`, for any window, number of
  lists and requests. `Sound` says that the free runs, those held and the one at hand divide the window, that
  their tags are right at both ends, that free runs are merged, and that each is on its
  own list (`Filed`). Stale tags inside runs are allowed, and the proof shows that they are not read.
* **Paging_proofs** (page tables): `PagingNeverFaults`, `MemoryIsMapped` and `RunsAreMapped`, for any number of
  entries in a table, any layout, any amount of memory, any size of the window and any requests. The arithmetic
  comes first: lemmas on quotients and remainders, from which `Block(a, lvl)`, the addresses that one entry of a
  level covers, and the index of an address in each level (`Digits`) are all the rest needs. `Tree` says what the
  code takes for granted: each table is reached, from the root, by exactly one block of addresses and at
  exactly one level (`Walk`). So writing one entry changes the translation of one block (`WriteLeaf`), and
  hanging a fresh table into an empty entry changes none (`WriteTable`). `Works` is the invariant of the loop of
  `__pt_map_pages`: the calls on the stack divide what is left, each inside the block of the entry above it
  (`StackOK`); what lies before it is mapped as asked, what lies behind and outside as it was, and every page
  populated has a table (`Filled`). `TurnKeeps` goes through the four ways of a turn, and shows that neither
  BUG_ON fires. `MapPageIs` and `ClearPageIs` say the same of one page of kmap and kunmap, where
  `WindowHasTables` stands in for the missing pool, and `LoopStays` carries it through their loops. `PagingInv` puts
  these together by phase. What a page of the window means is known from `Sound` alone: runs that are held are apart.
* **Buddy_proofs**: `PagesOnce`, `MarksAreFresh`, `NeverFaults` and `KeepsThePromise`, that Buddy implements
  PagePool, for any zones, free ranges and largest order. The theorems assume that no flag left over in the
  page structures says "free": run buddy_left_over shows what happens when one does, and
  nothing in the code prevents it. The hard part of `BInv` is `Marked`: a mark in a page that
  no list links is stale, and then lies inside a block of a *larger* order; the order that `page_free_zone`
  compares keeps such a page from being taken for the buddy. `Coalesced`, no two buddies are
  free, is what makes a refusal true: an aligned run of free pages then lies in one block.
* **Format_proofs**: `WritesStayInside`, `BufferHoldsText` and `FormatIsNotLeft`, for every format, argument and
  size, and `NumeralsAreRead` and `NumbersAreReadBack`, for integers of any width from four bits. `CallInv`
  says that at each turn the memory is the part of the text that fits and nothing else has changed. The
  conversions need no invariant beyond `Answered` (what is remembered of a call is what the operator
  says) but lemmas about it: the loop of `strtoul` has either read the value of the digits so far or
  stopped at the first that overflows, and then every longer prefix overflows too (`LoopReads`,
  `ValuesGrow`), leading zeros that a base skips do not count (`ZeroIsNothing`), and what
  `ulltoa` writes is a numeral of its argument (`NumeralsMean`). `LineKeepsText`, for any number of bytes
  others print: `LineInv` says where in the text each byte is that was sent, waits in the chip or is still to be
  written (`Embeds`), and that between the test for an empty transmitter and the write what waits
  there can only be another's byte. A byte of others over one of the caller's takes one place away (`EmbedsLess`); a piece
  that is printed adds its own at the end (`EmbedsMore`). The run compares from left to right (`Met`), which
  `EmbedsIsIn` shows to find such places.

Recursive functions (`Shl`, `Numerals`, `Turns`, `Values`) are reasoned about without the library's induction
theorems, which the installed provers cannot instantiate: a set of counterexamples that is not empty has a
least member (lemma `Least`, from the well-foundedness of `<` on Nat), and that one leads to a smaller.
That such a function satisfies its recursive equation is proved in the same way (`NumeralsAre`,
`TurnsAre`, `ValuesAre`, `MineSifts`).

The runs check a small instance of what a theorem lists as its property. Type correctness, `MutualExclusion`,
`CreateKillExclusion`, `AcknowledgedInTime`, `ListTellsFill`, `WordTellsHolder`, `DeadIsOut` and Threads'
`NoBug` are proved and no longer repeated in a run.

Only model-checked:

* all liveness (`SomeoneGetsIn`, `EveryThreadRuns`, `EndsUnlessLockLost`), which TLAPS does not reach;
* that `NodesSuffice` with *fewer* nodes than `NodesForAll` asks for, as in run balloc, where maps of nine entries that
  touch get by with 14: what merging saves depends on the map;
* `TreesAreRight`: the red-black tree's operators are RECURSIVE, as the code's loops climb and
  fall in the tree, and tlapm cannot work in a module that reaches them.

## 5. Assumptions and what is not modelled

* Instructions take effect in program order: one CPU, and -O0 keeps the accesses.
* `mem_alloc` in Threads and ThreadTest may fail; the code does not test it and
  faults, which stops the model ("fault") and is not counted as a violation.
* Clients of the allocators free what they hold, once, with the right size.
* Addresses in Balloc do not wrap at 2^64.
* Slab: every size class has room for two objects in a pool, which run heap checks
  (`LayoutFits`). `MIN_POOL_OBJS` is not what guarantees it: `alloc.c:81` shifts before it
  rounds up, and the class of 512 bytes has 7 objects, those from 832 to 960 have 4.
* Heap: the boot order means nobody allocates before `mem_alloc_setup` is done. `mem_cache_free` finds the pool
  by rounding the pointer down, which is the block because the page allocator aligns it.
* Page tables: there is memory, some of the address space below the window is left for it, and the window
  lies directly below the kernel image (`LayoutAssumption`; `inc/memory.h`).
* kmap's calls come one after the other, and the setup's pools always have a page: when not,
  a BUG_ON stops the machine and says so.
* `pt_count_pages` is called by nobody and left out.
* One call of `printf` is followed. What others print meanwhile is up to two bytes that all look
  alike, and what becomes of *their* text is not asked. Sizes above INT_MAX are not modelled. `strtoul`'s
  test for "0X" (`stdlib.c:31`) is in the model as written; the properties speak of numerals only.
* `memory.c:239` reads one list head past the array before it compares the
  index. Either answer ends in the same refusal, so only the refusal is modelled.
* Stack depth is not modelled, so neither is an overflow by nested ticks.
* Not modelled: error interrupts (they print and loop), the second interrupt
  controller (its lines are never unmasked), handlers other than the timer's, mode switches,
backtraces, dumps (output only), and of string.c what nothing modelled uses.

## 6. Plan

Order of work, most important behaviour first; the first twelve are done.

1. Spinlock, with Mutex and its proofs.
2. Threads, with RoundRobin and its proofs; ThreadTest on top.
3. Buddy with PagePool.
4. Slab and its proofs.
5. Balloc; KMap.
6. RBTree, and BallocTree on top of Balloc.
7. Layout and Heap, composing Slab with whole pages, other caches and `mem_realloc`.
8. PageTable and Paging, with KMap.
9. Convert, Serial, Format.
10. Proofs that Heap implements Slab.
11. Proofs: the round robin, ThreadTest, Balloc, KMap, Buddy, the layouts and `mem_realloc`,
    `vsnprintf`, the conversions and the serial line.
12. Proofs: the page tables, their arithmetic included; the nodes of the bootstrap allocator.
13. The interrupt controller's setup and the table of handlers (`ints.c`, `i8259a.c`), as the initial
    states that Threads starts from.
