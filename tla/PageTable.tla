------------------------------ MODULE PageTable ------------------------------
(***************************************************************************)
(* The page tables of paging.c: four levels of tables of PT_ENTRIES        *)
(* entries, filled by the recursion of __pt_map_pages, walked by the       *)
(* processor and by kunmap.  Addresses and physical addresses are counted  *)
(* in pages.                                                               *)
(*                                                                         *)
(* An entry that is present and neither large nor of level 1 points to a   *)
(* table.  The physical address in an entry that is not present is looked  *)
(* at by nobody and not kept.                                              *)
(***************************************************************************)
EXTENDS Integers, Sequences

CONSTANTS PT_ENTRIES

ASSUME PageTableAssumption == PT_ENTRIES \in Nat \ {0, 1}

\* From a table, as pml_shift.
pml_size(lvl) ==
  <<1, PT_ENTRIES, PT_ENTRIES * PT_ENTRIES, PT_ENTRIES * PT_ENTRIES * PT_ENTRIES>>[lvl]
pml_offs(addr, lvl) == (addr \div pml_size(lvl)) % PT_ENTRIES

Top == pml_size(4) * PT_ENTRIES
UNMAPPED == -1

EMPTY == [present |-> FALSE, large |-> FALSE, to |-> 0]
TableEntry(table) == [present |-> TRUE, large |-> FALSE, to |-> table]
FreshTable == [i \in 0 .. PT_ENTRIES - 1 |-> EMPTY]

-----------------------------------------------------------------------------
(* __pt_map_pages, one turn of its loop at a time.  The state of a call of *)
(* pt_map_pages or pt_populate_pages:                                      *)
(*   tables   all tables, the root first; a new one is appended            *)
(*   stack    what each active call has still to do, the innermost first   *)
(*   flags    "map" for PRESENT and LARGE, "populate" for no flags         *)
(*   pool     does the call bring a page_pool?                             *)
(*   fault    a BUG_ON failed, a null pool was asked for a page, or a      *)
(*            large page was taken for a table                             *)

\* A call for begin .. last, both included, as the code does to avoid
\* overflow.
CallOf(table, lvl, begin, last, phys) ==
  [table |-> table, lvl |-> lvl, begin |-> begin, last |-> last, phys |-> phys]

Start(tables, begin, last, phys, flags, pool) ==
  [tables |-> tables, stack |-> <<CallOf(1, 4, begin, last, phys)>>,
   flags |-> flags, pool |-> pool, fault |-> FALSE]

Index(c) == pml_offs(c.begin, c.lvl)

\* How much of what is left the entry at hand covers.
EntryEnd(c) == c.begin + pml_size(c.lvl) - (c.begin % pml_size(c.lvl)) - 1
tomap(c) == (IF EntryEnd(c) < c.last THEN EntryEnd(c) ELSE c.last) - c.begin + 1

\* Mutant of IsLeaf: an entry that is covered in part is filled as a whole.
IsLeafRagged(c, flags) ==
  /\ (c.begin % pml_size(c.lvl)) = 0 /\ (c.phys % pml_size(c.lvl)) = 0
  /\ c.lvl \in IF flags = "map" THEN {1, 2, 3} ELSE {1}

\* Is the entry at hand mapped directly?
IsLeaf(c, flags) ==
  /\ tomap(c) = pml_size(c.lvl)
  /\ (c.begin % pml_size(c.lvl)) = 0 /\ (c.phys % pml_size(c.lvl)) = 0
  /\ c.lvl \in IF flags = "map" THEN {1, 2, 3} ELSE {1}

Leaf(c, flags) ==
  IF flags = "map" THEN [present |-> TRUE, large |-> c.lvl # 1, to |-> c.phys]
                   ELSE EMPTY

\* The calls left when the turn is over.
Rest(stack) ==
  LET c == Head(stack)
  IN  IF Index(c) < pml_offs(c.last, c.lvl)
      THEN <<CallOf(c.table, c.lvl, c.begin + tomap(c), c.last, c.phys + tomap(c))>>
           \o Tail(stack)
      ELSE Tail(stack)

\* Goes down into the table of the entry at hand.
Descend(s, c, table) ==
  [s EXCEPT !.stack =
     <<CallOf(table, c.lvl - 1, c.begin, c.begin + tomap(c) - 1, c.phys)>>
     \o Rest(s.stack)]

Fault(s) == [s EXCEPT !.fault = TRUE, !.stack = <<>>]

NewTable(s, c) ==
  LET table == Len(s.tables) + 1
  IN  Descend([s EXCEPT !.tables = Append([@ EXCEPT ![c.table][Index(c)] =
                                             TableEntry(table)], FreshTable)],
              c, table)

TurnOf(s, c, pte) ==
  CASE pte.present /\ (c.lvl = 1 \/ pte.large) -> Fault(s)
    [] pte.present /\ c.lvl # 1 /\ ~pte.large  -> Descend(s, c, pte.to)
    [] ~pte.present /\ IsLeaf(c, s.flags) ->
         [s EXCEPT !.tables[c.table][Index(c)] = Leaf(c, s.flags),
                   !.stack = Rest(s.stack)]
    [] ~pte.present /\ ~IsLeaf(c, s.flags) ->
         IF c.lvl = 1 \/ ~s.pool THEN Fault(s) ELSE NewTable(s, c)

Turn(s) ==
  IF s.stack = <<>> THEN s
  ELSE LET c == Head(s.stack) IN TurnOf(s, c, s.tables[c.table][Index(c)])

\* pt_map_pages of one page, without a pool: one turn in each level.
MapPage(s, addr, phys) ==
  Turn(Turn(Turn(Turn([s EXCEPT !.stack = <<CallOf(1, 4, addr, addr, phys)>>]))))

\* kunmap's walk: down three entries, none of them tested, to the one that is
\* cleared.
ClearPage(s, addr) ==
  LET down(table, lvl) ==
        IF table # 0 /\ s.tables[table][pml_offs(addr, lvl)].present
        THEN s.tables[table][pml_offs(addr, lvl)].to ELSE 0
      table == down(down(down(1, 4), 3), 2)
  IN  IF table = 0 THEN Fault(s)
      ELSE [s EXCEPT !.tables[table][pml_offs(addr, 1)] = EMPTY]

-----------------------------------------------------------------------------
(* What the processor makes of the tables.                                 *)

\* Through the entry of this level, and on into the table it points to.
Through(pte, addr, lvl, Lower(_)) ==
  CASE ~pte.present -> UNMAPPED
    [] pte.present /\ (lvl = 1 \/ pte.large) -> pte.to + (addr % pml_size(lvl))
    [] OTHER -> Lower(pte.to)

Translate(tables, addr) ==
  LET entry(t, lvl) == tables[t][pml_offs(addr, lvl)]
      page(t)   == UNMAPPED
      first(t)  == Through(entry(t, 1), addr, 1, page)
      second(t) == Through(entry(t, 2), addr, 2, first)
      third(t)  == Through(entry(t, 3), addr, 3, second)
  IN  Through(entry(1, 4), addr, 4, third)

=============================================================================
