\* Three processes with two descriptors; three slots, a port and a file, which is a
\* program; the port may bring one or not.  Two references may be lost.
CONSTANTS
    Procs = {p1, p2, p3}
    Main = p1
    IOMAX = 2
    NPROC = 16
    Slots = {1, 2, 3}
    Files = {prog}
    Images = {prog}
    NDEV = 16
    Attached <- MCAttached
    Null = Null
    MaxLost = 2
    p1 = p1
    p2 = p2
    p3 = p3
SYMMETRY MCSymmetry
SPECIFICATION Spec
INVARIANTS
    HoldersCounted
    NoAlias
PROPERTIES
    ReachableOpen
