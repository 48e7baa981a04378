-------------------------------- MODULE Paging --------------------------------
(***************************************************************************)
(* paging_setup and kmap_setup on the page tables, one turn of             *)
(* __pt_map_pages' loop a step, and then every step of KMap.tla together   *)
(* with what kmap and kunmap do to the tables.                             *)
(*                                                                         *)
(* The pools of the setup always have a page: when they have not the code  *)
(* stops with a BUG_ON that says so.                                       *)
(***************************************************************************)
EXTENDS KMap, PageTable

CONSTANTS
  HIGHER_BASE, KMAP_BEGIN, VIRTUAL_BASE,    \* the layout of the address space
  Limits,       \* the ends of physical memory balloc_memory may report
  KmapLimits    \* bound: those of them with which several runs are held
                \* at a time

\* memory.h: the window lies between the memory and the kernel image.
ASSUME LayoutAssumption ==
  /\ {HIGHER_BASE, KMAP_BEGIN, VIRTUAL_BASE} \subseteq Nat
  /\ HIGHER_BASE < KMAP_BEGIN
  /\ KMAP_BEGIN + Pages = VIRTUAL_BASE /\ VIRTUAL_BASE < Top
  /\ Limits \subseteq Nat \ {0}

VARIABLES
  limit,      \* balloc_memory()
  phase,      \* "start", then what is being mapped: "memory", "image",
              \* "window"; "ready" after kmap_setup
  mapping     \* the tables, and the call of __pt_map_pages at work

pagingVars == <<limit, phase, mapping>>
allVars == <<vars, pagingVars>>

MAX_PMEM_SIZE == KMAP_BEGIN - HIGHER_BASE
mem_size == IF limit < MAX_PMEM_SIZE THEN limit ELSE MAX_PMEM_SIZE

PInit ==
  /\ Init
  /\ limit \in Limits
  /\ phase = "start"
  /\ mapping = Start(<<>>, 0, 0, 0, "map", TRUE)

-----------------------------------------------------------------------------
(* The setup                                                               *)

\* paging_setup: the root, and the first call.
MapMemory ==
  /\ phase = "start"
  /\ phase' = "memory"
  /\ mapping' = Start(<<FreshTable>>, HIGHER_BASE, HIGHER_BASE + mem_size - 1,
                      0, "map", TRUE)

Running == phase # "start" /\ mapping.stack # <<>>

MapTurn ==
  /\ Running
  /\ mapping' = Turn(mapping)
  /\ UNCHANGED phase

Finished(what) == phase = what /\ mapping.stack = <<>>

MapImage ==
  /\ Finished("memory")
  /\ phase' = "image"
  /\ mapping' = Start(mapping.tables, VIRTUAL_BASE, Top - 1, 0, "map", TRUE)

\* pt_populate_pages passes no flags.
PopulateFlags == "populate"

\* kmap_setup
Populate ==
  /\ Finished("image")
  /\ phase' = "window"
  /\ mapping' = Start(mapping.tables, KMAP_BEGIN, VIRTUAL_BASE - 1, 0,
                      PopulateFlags, TRUE)

KmapSetup ==
  /\ Finished("window")
  /\ phase' = "ready"
  /\ mapping' = [mapping EXCEPT !.flags = "map", !.pool = FALSE]

Setup ==
  /\ MapMemory \/ MapTurn \/ MapImage \/ Populate \/ KmapSetup
  /\ UNCHANGED <<vars, limit>>

-----------------------------------------------------------------------------
(* kmap and kunmap                                                         *)

\* The pages a client maps in a run: any pages, in any order.  Bound: those.
PageOf(run, i) == (run.first + 2 * run.count + 5 * i) % 9

\* Mutant of PageNo: the index is not moved on.
PageNoFirst(i) == 0

\* Which of its pages a client finds at the i-th place of the run.
PageNo(i) == i

\* kmap's loop.
MapRun(run) ==
  LET after[i \in 0 .. run.count] ==
        IF i = 0 THEN mapping
        ELSE MapPage(after[i - 1], KMAP_BEGIN + run.first + i - 1,
                     PageOf(run, PageNo(i - 1)))
  IN  after[run.count]

\* kunmap's loop, as far as the length kept with the run says.
ClearRun(run) ==
  LET after[i \in 0 .. tag[run.first]] ==
        IF i = 0 THEN mapping
        ELSE ClearPage(after[i - 1], KMAP_BEGIN + run.first + i - 1)
  IN  after[tag[run.first]]

Ready == phase = "ready" /\ ~mapping.fault

PKmap(count) ==
  /\ Ready /\ (limit \in KmapLimits \/ held = {})
  /\ Kmap(count)
  /\ LET new == held' \ held
     IN  mapping' = IF new = {} THEN mapping ELSE MapRun(CHOOSE r \in new : TRUE)
  /\ UNCHANGED <<limit, phase>>

PKunmap(run) ==
  /\ Ready
  /\ Kunmap(run)
  /\ mapping' = ClearRun(run)
  /\ UNCHANGED <<limit, phase>>

PNext ==
  \/ Setup
  \/ \E count \in Counts : PKmap(count)
  \/ \E run \in held : PKunmap(run)

PSpec == PInit /\ [][PNext]_allVars

-----------------------------------------------------------------------------
(* Properties                                                              *)

Phys(addr) == Translate(mapping.tables, addr)

\* Where an address outside the window leads: the memory is mapped from
\* HIGHER_BASE on, the low 2 GB once more from VIRTUAL_BASE on, nothing else.
Meant(addr) ==
  CASE addr \in HIGHER_BASE .. HIGHER_BASE + mem_size - 1 -> addr - HIGHER_BASE
    [] addr >= VIRTUAL_BASE                               -> addr - VIRTUAL_BASE
    [] OTHER                                              -> UNMAPPED

\* paging.c:79-131, 191-213 - however much memory there is and however badly
\* it is aligned, every address outside the window leads where it should from
\* the moment paging_setup loads the tables, and no call that comes later
\* disturbs it.
MapsMemory ==
  phase \in {"window", "ready"} =>
    \A addr \in 0 .. Top - 1 :
      addr \notin KMAP_BEGIN .. VIRTUAL_BASE - 1 => Phys(addr) = Meant(addr)

\* paging.c:338-346, 359-379 - every page of a run that is held leads to the
\* client's page, in the order the client gave, and nothing else in the window
\* is mapped: kunmap leaves no entry behind and takes none of a neighbour.
WindowIsRuns ==
  phase = "ready" =>
    /\ \A p \in Page : (\A r \in held : p \notin Covers(r))
                         => Phys(KMAP_BEGIN + p) = UNMAPPED
    /\ \A r \in held : \A i \in 0 .. r.count - 1 :
         Phys(KMAP_BEGIN + r.first + i) = PageOf(r, i)

\* paging.c:98-124, 270-289, 338-346 - no BUG_ON fires, no pointer of an
\* unlinked list head is followed, no large page is taken for a table, and
\* kmap never needs a page for a table, for which it has no pool.
NothingFaults == machine = "up" /\ ~mapping.fault

=============================================================================
