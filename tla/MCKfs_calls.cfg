\* Two processes, reads of any bytes and writes of whole device blocks.
CONSTANTS
    Threads = {1, 2}
    Kernel = {}
    Slots = {0, 1}
    BLOCK_SIZE = 4
    blksz = 2
    FileSize <- OneSize
    Blocks <- OneBlocks
    Counts = {3, 4}
    Seeks = {0, 4}
    Forks = FALSE
    PartBlocks = FALSE
    Faults = FALSE
    PosBound = 6
SPECIFICATION Spec
INVARIANTS
    SlotsDistinct
PROPERTIES
    AtomicSpec
