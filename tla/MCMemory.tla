------------------------------- MODULE MCMemory -------------------------------
(* Memory with numbers for processes and images of a few words. *)
EXTENDS Memory

Seg(vaddr, filesz, memsz, rest, data) ==
    [vaddr |-> vaddr, filesz |-> filesz, memsz |-> memsz, rest |-> rest, data |-> data]
Image(segs) == [header |-> TRUE, segs |-> segs]

\* Two segments that share a page, the second all zeroes; one that does not fit;
\* a file that is no program.
Programs ==
    {Image(<<Seg(0, 1, 1, 1, 11), Seg(1, 0, 1, 0, 0)>>),
     Image(<<Seg(6, 1, 2, 1, 12)>>),
     [header |-> FALSE, segs |-> <<>>]}

\* Headers at odds with themselves: a segment that misses its last page; more data
\* than memory; an end that wraps, with and without data.
Misfits ==
    {Image(<<Seg(1, 2, 2, 2, 11)>>), Image(<<Seg(0, 2, 1, 2, 11)>>),
     Image(<<Seg(6, 1, ADDR_MOD - 6, 1, 11)>>), Image(<<Seg(4, 0, ADDR_MOD - 3, 0, 11)>>)}

\* And some that load in spite of that: the page that is missed was mapped before; a
\* size of the data that wraps, so that what is cleared is the word below.
Lucky == {Image(<<Seg(2, 1, 1, 1, 11), Seg(1, 2, 2, 2, 11), Seg(2, ADDR_MOD - 1, 0, 0, 0)>>)}

MCImages == Programs \cup Misfits \cup Lucky

==============================================================================
