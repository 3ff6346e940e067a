\* Two processes over a pool in which a second fork may find too few pages.
CONSTANTS
    Procs = {1, 2}
    Main = 1
    PoolSize = 13
    PAGE_SIZE = 2
    USER_START = 6
    ADDR_MOD = 16
    Images <- MCImages
    StoreAt = {1, 3}
    MaxCalls = 3
    Null = Null
SPECIFICATION Spec
INVARIANTS
    SpacesApart
PROPERTIES
    FittingSegmentsLoad
    OwnMemory
