\* Main, idle and a thread that forks, with a device and the timer, under fairness.
CONSTANTS
    NTHR = 3
    Conds = {disk}
    Tick = tick
    PagePool = 2
    NoCond = nocond
    disk = disk
    tick = tick
    nocond = nocond
SPECIFICATION FairSpec
INVARIANTS
    ListsExact
    NoKernelAssert
    NoSleepWhileReady
PROPERTIES
    WakeOrder
    ReadyRuns
