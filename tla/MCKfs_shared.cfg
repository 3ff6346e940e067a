\* From boot on: main loads, then two processes that may share an open file and
\* write what they like, on a device that fails requests at will.
CONSTANTS
    Threads = {1, 2}
    Kernel = {1}
    Slots = {0, 1}
    BLOCK_SIZE = 2
    blksz = 2
    FileSize <- SmallSize
    Blocks <- SmallBlocks
    Counts = {1}
    Seeks = {0}
    Forks = TRUE
    PartBlocks = TRUE
    Faults = TRUE
    PosBound = 0
SPECIFICATION FairSpec
INVARIANTS
    LockHeld
    NoLostWakeup
PROPERTIES
    LockReleased
