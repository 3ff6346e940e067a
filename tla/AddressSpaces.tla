----------------------------- MODULE AddressSpaces -----------------------------
(***************************************************************************)
(* What virtual memory promises: every process has a memory of its own,     *)
(* pages of it come zeroed, and a child starts with a copy of its parent's. *)
(***************************************************************************)
EXTENDS Integers

CONSTANTS
    Procs, UserSize, PageSize, Unmapped,
    Values,     \* what a program may store
    Segments    \* of programs: the pages they add, what is read and cleared, the data

VARIABLE space      \* what each address of each process holds

Addrs == 0 .. UserSize - 1
Empty == [a \in Addrs |-> Unmapped]
PageOf(a) == a \div PageSize

Init == \A p \in Procs : space[p] = Empty

\* The memories that s may become by a store, a new page, and a segment of a
\* program: pages, data in them, then zeroes, all of it where there is memory.
Stored(s) == {[s EXCEPT ![a] = v] : a \in {x \in Addrs : s[x] # Unmapped}, v \in Values}

Extended(s, pages) ==
    [a \in Addrs |-> IF s[a] = Unmapped /\ PageOf(a) \in pages THEN 0 ELSE s[a]]
Grown(s) == {Extended(s, {PageOf(a)}) : a \in Addrs}

WithSegment(s, seg) ==
    LET grown == Extended(s, seg.pages)
    IN [a \in Addrs |-> IF a \in seg.clear THEN 0
                        ELSE IF a \in seg.read THEN seg.data ELSE grown[a]]
Writes(s, seg) == \A a \in seg.read \cup seg.clear : a \in Addrs /\ s[a] # Unmapped
Loaded(s) ==
    {WithSegment(s, seg) : seg \in {x \in Segments : Writes(Extended(s, x.pages), x)}}

Copied(s, p) == IF s = Empty THEN {space[q] : q \in Procs \ {p}} ELSE {}

\* One memory changes at a time.
Next ==
    \E p \in Procs :
        /\ \A q \in Procs \ {p} : space'[q] = space[q]
        /\ LET old == space[p]
               new == space'[p]
           IN \/ new = Empty
              \/ new \in Stored(old) \/ new \in Grown(old)
              \/ new \in Loaded(old) \/ new \in Copied(old, p)

Spec == Init /\ [][Next]_space

==============================================================================
