----------------------------- MODULE PageMappings -----------------------------
(***************************************************************************)
(* The pages of one subresource, or of one tail of mips, of a sparse       *)
(* resource: struct PageRangeMapping of renderdoc/core/sparse_page_table.  *)
(* One whose pages follow one another in memory, or all use one page, is   *)
(* kept as a single mapping; it is split when a part of it is bound anew.  *)
(***************************************************************************)
EXTENDS Integers

CONSTANT PageBytes       \* the bytes of a page

ASSUME PageBytesAssumption == PageBytes \in Nat \ {0}

NoHeap == "none"

Page(memory, offset) == [memory |-> memory, offset |-> offset]
NoPage == Page(NoHeap, 0)

\* The page n pages after p.
PagesOn(p, n) == IF p.memory = NoHeap THEN p ELSE [p EXCEPT !.offset = @ + n * PageBytes]

\* Without memory the offset means nothing.
SamePage(p, q) == p.memory = q.memory /\ (p.memory # NoHeap => p.offset = q.offset)

Pages(n) == (n + PageBytes - 1) \div PageBytes

-----------------------------------------------------------------------------
(* struct PageRangeMapping.                                                *)

hasSingleMapping(m) == DOMAIN m.pages = {}

SingleMapping(page, reused) == [single |-> page, reused |-> reused, pages |-> <<>>]
Unmapped == SingleMapping(NoPage, FALSE)

isMapped(m) == ~hasSingleMapping(m) \/ m.single.memory # NoHeap

getPage(m, idx) ==
    IF ~hasSingleMapping(m) THEN m.pages[idx]
    ELSE IF m.reused THEN m.single
    ELSE [m.single EXCEPT !.offset = @ + idx * PageBytes]

(* Mutant: the pages of a single mapping are copies of its first. *)
createPagesAlike(m, n) ==
    IF ~hasSingleMapping(m) THEN m
    ELSE [single |-> NoPage, reused |-> FALSE, pages |-> [idx \in 0 .. n - 1 |-> m.single]]

createPages(m, n) ==
    IF ~hasSingleMapping(m) THEN m
    ELSE [single |-> NoPage, reused |-> FALSE,
          pages  |-> [idx \in 0 .. n - 1 |->
                        IF m.reused \/ m.single.memory = NoHeap THEN m.single ELSE getPage(m, idx)]]

simplifyUnmapped(m) ==
    IF hasSingleMapping(m) \/ \E idx \in DOMAIN m.pages : m.pages[idx].memory # NoHeap
    THEN m ELSE Unmapped

(* What the loops over pages do: split into n pages, bind those of nth, the *)
(* nth[idx]-th page from page on, or all to the one page.                   *)
BindPages(m, n, nth, page, reused) ==
    LET split == createPages(m, n)
    IN  simplifyUnmapped([split EXCEPT !.pages = [idx \in DOMAIN @ |->
            IF idx \notin DOMAIN nth THEN @[idx]
            ELSE IF reused THEN page ELSE PagesOn(page, nth[idx])]])
===============================================================================
