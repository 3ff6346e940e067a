-------------------------------- MODULE Handles --------------------------------
(***************************************************************************)
(* What descriptors promise: a process names open objects by table entries, *)
(* an object that is opened is nobody's yet, and it is open exactly as long *)
(* as it can be reached.  Pinned are those given up without being closed.   *)
(***************************************************************************)

CONSTANTS Procs, FDs, Objects, Null

VARIABLES
    table,      \* what each descriptor of each process names
    hand,       \* the object a process holds during a call
    pinned,
    live        \* the objects that are open

vars == <<table, hand, pinned, live>>

Reached ==
    {o \in Objects : o \in pinned \/ \E p \in Procs :
        hand[p] = o \/ \E fd \in FDs : table[p][fd] = o}

Init ==
    /\ table = [p \in Procs |-> [fd \in FDs |-> Null]]
    /\ hand = [p \in Procs |-> Null]
    /\ pinned \subseteq Objects
    /\ live = pinned

New(p, o) ==
    /\ hand[p] = Null /\ o \notin live
    /\ hand' = [hand EXCEPT ![p] = o]
    /\ UNCHANGED <<table, pinned>>

Install(p, fd) ==
    /\ hand[p] # Null /\ table[p][fd] = Null
    /\ table' = [table EXCEPT ![p][fd] = hand[p]]
    /\ hand' = [hand EXCEPT ![p] = Null]
    /\ UNCHANGED pinned

\* Opened and installed, or opened and given up, in one.
NewInstalled(p, fd, o) ==
    /\ o \notin live /\ table[p][fd] = Null
    /\ table' = [table EXCEPT ![p][fd] = o]
    /\ UNCHANGED <<hand, pinned>>
NewPinned(o) ==
    /\ o \notin live
    /\ pinned' = pinned \cup {o}
    /\ UNCHANGED <<table, hand>>

Take(p, fd) ==
    /\ hand[p] = Null
    /\ hand' = [hand EXCEPT ![p] = table[p][fd]]
    /\ table' = [table EXCEPT ![p][fd] = Null]
    /\ UNCHANGED pinned

Forget(p) ==
    /\ hand[p] # Null
    /\ pinned' = pinned \cup {hand[p]}
    /\ hand' = [hand EXCEPT ![p] = Null]
    /\ UNCHANGED table

Drop(p, gone) ==
    /\ table' = [table EXCEPT ![p] = [fd \in FDs |-> IF fd \in gone THEN Null ELSE @[fd]]]
    /\ UNCHANGED <<hand, pinned>>

Copy(p, q) ==
    /\ \A fd \in FDs : table[q][fd] = Null
    /\ table' = [table EXCEPT ![q] = table[p]]
    /\ UNCHANGED <<hand, pinned>>

Next ==
    /\ \/ \E o \in Objects : NewPinned(o)
       \/ \E p \in Procs :
             \/ \E o \in Objects : New(p, o) \/ \E fd \in FDs : NewInstalled(p, fd, o)
             \/ \E fd \in FDs : Install(p, fd) \/ Take(p, fd)
             \/ \E gone \in SUBSET FDs : Drop(p, gone)
             \/ Forget(p)
             \/ \E q \in Procs : Copy(p, q)
    /\ live' = Reached'

Spec == Init /\ [][Next]_vars

==============================================================================
