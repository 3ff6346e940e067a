--------------------------------- MODULE Heap ----------------------------------
(***************************************************************************)
(* The heap of ezheap.c: a piece of memory that is used up from its end.    *)
(* Nothing is given back: kfree does nothing.                              *)
(*                                                                         *)
(* A heap h has the piece that is left, from h.start to h.end, and the      *)
(* number of the page memory_alloc_page would give next.  An address counts *)
(* bytes; of a result r, r.h is the heap after the call and r.at the block.  *)
(***************************************************************************)
EXTENDS Integers

CONSTANTS
    PAGE_SIZE,
    Grain           \* 16: what sizes are rounded to

ASSUME HeapAssumption ==
    /\ {PAGE_SIZE, Grain} \subseteq Nat \ {0}
    /\ PAGE_SIZE % Grain = 0

\* heap_init, as of memory_init: from the end of the kernel image to a page.
heap_init(start, end) == [start |-> start, end |-> end, page |-> end \div PAGE_SIZE]

Rounded(size) == ((size + Grain - 1) \div Grain) * Grain

\* A request that does not fit gets a new page.  What is left of the page becomes
\* the heap if it is more than the old one has left.
Fits(h, s) == s <= h.end - h.start
Replaces(h, s) == h.end - h.start < PAGE_SIZE - s

NewPage(h, s) ==
    LET block == h.page * PAGE_SIZE
    IN IF Replaces(h, s)
       THEN [h |-> [start |-> block, end |-> block + PAGE_SIZE - s, page |-> h.page + 1],
             at |-> block + PAGE_SIZE - s]
       ELSE [h |-> [h EXCEPT !.page = @ + 1], at |-> block]

\* A request that is only rounded once it fits.
RoundedLate(h, size) ==
    IF Fits(h, size)
    THEN [h |-> [h EXCEPT !.end = @ - Rounded(size)], at |-> h.end - Rounded(size)]
    ELSE NewPage(h, Rounded(size))

\* It panics if PAGE_SIZE < Rounded(size).
kmalloc(h, size) ==
    IF Fits(h, Rounded(size))
    THEN [h |-> [h EXCEPT !.end = @ - Rounded(size)], at |-> h.end - Rounded(size)]
    ELSE NewPage(h, Rounded(size))

==============================================================================
