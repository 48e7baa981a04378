---------------------------------- MODULE KMap ----------------------------------
(***************************************************************************)
(* kmap and kunmap of paging.c: runs of pages of the virtual window        *)
(* KMAP_BEGIN .. KMAP_END - 1, handed out by an allocator that keeps the   *)
(* length of every run at its first and at its last page, and free runs in *)
(* one list per order of magnitude.                                        *)
(*                                                                         *)
(* The allocator has no lock: its calls are made one after the other.      *)
(* (count = 0 and count = 1 never reach it: kmap answers them at once.)    *)
(***************************************************************************)
EXTENDS Integers, Sequences, FiniteSets, SequencesExt

CONSTANTS
  Pages,     \* KMAP_PAGES
  Orders,    \* KMAP_ORDERS
  Counts     \* bound: the numbers of pages clients map at once

ASSUME KMapAssumption ==
  /\ Pages \in Nat \ {0} /\ Orders \in Nat \ {0}
  /\ Counts \subseteq Nat \ {0, 1}

Page == 0 .. Pages - 1

VARIABLES
  tag,       \* kmap_ranges[page].pages, -1 before it is first written
  ll,        \* kmap_ranges[page].ll: "linked", "self" after list_init, "wild"
             \* after list_del and before it is first written
  lists,     \* kmap_free_ranges
  present,   \* the pages of the window that have a page table entry
  held,      \* the first pages and lengths of the runs clients have mapped
  answer,    \* the last count asked for, and was it given?
  machine    \* "up", "BUG" after a failed BUG_ON, "fault" after list_del of
             \* something that is on no list

vars == <<tag, ll, lists, present, held, answer, machine>>

NoAnswer == [count |-> 0, given |-> TRUE]

\* kmap_order
kmap_order(count) == Min({o \in 0 .. Orders : o = Orders \/ 2^o >= count})

\* The list a free run of this length belongs to.
ListOf(count) == kmap_order(count + 1) - 1

\* kmap_setup: the whole window is one free run; the rest of kmap_ranges is
\* as mem_alloc returned it.
Init ==
  /\ tag = [p \in Page |-> IF p \in {0, Pages - 1} THEN Pages ELSE -1]
  /\ ll = [p \in Page |-> IF p = 0 THEN "linked" ELSE "wild"]
  /\ lists = [o \in 0 .. Orders - 1 |-> IF o = ListOf(Pages) THEN <<0>> ELSE <<>>]
  /\ present = {} /\ held = {} /\ answer = NoAnswer /\ machine = "up"

-----------------------------------------------------------------------------
(* The allocator, as functions of its state s = [tag, ll, lists, fault].   *)

The(run) == CHOOSE p \in run : TRUE

\* Mutant of Unused: a run that was handed out counts as free.
UnusedAlways(s, run) == run \in Page

\* The test of a run's list head: it is not empty.
Unused(s, run) == s.ll[run] # "self"

\* The free run before first .. first + count - 1, and the one behind it.
Prev(s, first) ==
  {p \in {first - s.tag[q] : q \in {first - 1} \cap Page} : Unused(s, p)}
Next(s, first, count) == {p \in {first + count} \cap Page : Unused(s, p)}

\* Mutant of SetTags: only the first page of a run gets its length.
SetTagsFirst(f, first, count) == [f EXCEPT ![first] = count]

SetTags(f, first, count) == [f EXCEPT ![first + count - 1] = count, ![first] = count]

\* list_del of a run, if there is one.
Without(free, run) ==
  LET at(o) == {i \in DOMAIN free[o] : free[o][i] \in run}
  IN  [o \in DOMAIN free |->
         IF at(o) = {} THEN free[o] ELSE RemoveAt(free[o], The(at(o)))]

\* kmap_free_range: the neighbours leave their lists, the whole is one run.
FreeRange(s, first, count) ==
  LET prev  == Prev(s, first)
      start == IF prev = {} THEN first ELSE The(prev)
      next  == Next(s, first, count)
      end   == first + count + IF next = {} THEN 0 ELSE s.tag[The(next)]
      total == end - start
  IN  [tag   |-> SetTags(s.tag, start, total),
       ll    |-> [p \in Page |-> IF p = start THEN "linked"
                                 ELSE IF p \in next THEN "wild" ELSE s.ll[p]],
       lists |-> [Without(Without(s.lists, prev), next)
                    EXCEPT ![ListOf(total)] = <<start>> \o @],
       fault |-> s.fault \/ \E p \in prev \cup next : s.ll[p] # "linked"]

\* kmap_find_free: the first run of a list that is long enough.
Finds(order, count) == \E i \in DOMAIN lists[order] : tag[lists[order][i]] >= count

Found(order, count) ==
  LET list == lists[order]
  IN  list[Min({i \in DOMAIN list : tag[list[i]] >= count})]

\* Mutant of Search: the list below, where a run may still fit, is not looked at.
SearchAbove(count) ==
  {o \in kmap_order(count) .. Orders - 1 :
     /\ Finds(o, count)
     /\ \A below \in kmap_order(count) .. o - 1 : ~Finds(below, count)}

\* The list kmap_alloc_range takes a run from: the lowest whose runs are all
\* long enough, and if there is none the list below, whose runs may be.
Search(count) ==
  LET start == kmap_order(count)
      above == {o \in start .. Orders - 1 : Finds(o, count)}
  IN  IF above # {} THEN {Min(above)}
      ELSE {o \in {start - 1} : 2^start > count /\ Finds(o, count)}

\* The run leaves its list and gets its own length.
HandOut(run, count) ==
  [tag   |-> SetTags(tag, run, count),
   ll    |-> [ll EXCEPT ![run] = "self"],
   lists |-> Without(lists, {run}),
   fault |-> FALSE]

\* The rest of kmap_alloc_range: what the run has too much is freed.
Take(run, count) ==
  IF tag[run] > count
  THEN FreeRange(HandOut(run, count), run + count, tag[run] - count)
  ELSE HandOut(run, count)

Now == [tag |-> tag, ll |-> ll, lists |-> lists, fault |-> FALSE]
Becomes(s) == tag' = s.tag /\ ll' = s.ll /\ lists' = s.lists

-----------------------------------------------------------------------------
\* The page table entries kmap writes and kunmap clears.
Entries(first, count) == first .. first + count - 1

\* kmap: every page of the run gets an entry, BUG when it has one already.
Kmap(count) ==
  /\ machine = "up"
  /\ \/ \E o \in Search(count) :
          LET run == Found(o, count)
              s   == Take(run, count)
              new == Entries(run, count)
          IN  /\ Becomes(s)
              /\ present' = present \cup new
              /\ machine' = CASE s.fault                  -> "fault"
                              [] new \cap present # {}    -> "BUG"
                              [] OTHER                    -> "up"
              /\ held' = held \cup {[first |-> run, count |-> count]}
              /\ answer' = [count |-> count, given |-> TRUE]
     \/ /\ Search(count) = {}
        /\ answer' = [count |-> count, given |-> FALSE]
        /\ UNCHANGED <<tag, ll, lists, present, held, machine>>

\* kunmap: the length is that kept with the run.
Kunmap(run) ==
  LET s == FreeRange(Now, run.first, tag[run.first])
  IN  /\ machine = "up"
      /\ Becomes(s)
      /\ present' = present \ Entries(run.first, tag[run.first])
      /\ machine' = IF s.fault THEN "fault" ELSE "up"
      /\ held' = held \ {run}
      /\ answer' = NoAnswer

KNext ==
  \/ \E count \in Counts : Kmap(count)
  \/ \E run \in held : Kunmap(run)

Spec == Init /\ [][KNext]_vars

-----------------------------------------------------------------------------
(* Properties                                                              *)

TypeOK ==
  /\ tag \in [Page -> {-1} \cup 1 .. Pages]
  /\ ll \in [Page -> {"linked", "self", "wild"}]
  /\ lists \in [0 .. Orders - 1 -> Seq(Page)]
  /\ present \in SUBSET Page
  /\ held \in SUBSET [first : Page, count : Counts]
  /\ answer.count \in Counts \cup {0} /\ answer.given \in BOOLEAN
  /\ machine \in {"up", "BUG", "fault"}

Covers(run) == run.first .. run.first + run.count - 1

\* The free runs of the allocator in state s.
Linked(s) == {p \in Page : s.ll[p] = "linked"}
FreeIn(s) == {[first |-> p, count |-> s.tag[p]] : p \in Linked(s)}

FreeRuns == FreeIn(Now)

\* paging.c:267-289 - the runs tile the window, both ends of every run carry
\* its length, and two free runs never lie side by side: the arithmetic that
\* finds the neighbours from the tags always lands on the head of a run, never
\* on a tag of an earlier life, and misses none.
Tiled ==
  /\ UNION {Covers(r) : r \in FreeRuns \cup held} = Page
  /\ \A r, s \in FreeRuns \cup held : r # s => Covers(r) \cap Covers(s) = {}
  /\ \A r \in FreeRuns \cup held :
       tag[r.first] = r.count /\ tag[r.first + r.count - 1] = r.count
  /\ \A r, s \in FreeRuns : r.first + r.count # s.first

\* paging.c:292-308 - kmap fails only when no free run is long enough; for
\* counts of fewer than 2^KMAP_ORDERS pages (it always refuses larger ones).
RefusesOnlyWhenNone ==
  ~answer.given /\ answer.count < 2^Orders =>
    \A r \in FreeRuns : r.count < answer.count

=============================================================================
