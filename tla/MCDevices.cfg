\* Every device is opened once; one later allocation or two; two serial interrupts.
CONSTANTS
    PAGE_SIZE = 16
    Grain = 2
    Buses <- MCBuses
    NDEV = 4
    PLIC_SRCCNT = 12
    PLIC_CTXCNT = 2
    WordBits = 4
    PLIC_ENCTX = 48
    BLCK_SIZE = 12
    UART_IRQ_PRIO = 3
    VIOBLK_IRQ_PRIO = 1
    HeapSizes = {5, 16}
    UartSize = 5
    BlkSize = 6
    blksz = 4
    Sizes = {7, 15}
    Instances = {0, 1}
    IDXMOD = 4
    MaxOpens = 1
    MaxEvents = 2
    MaxAllocs = 6
SPECIFICATION FairSpec
CHECK_DEADLOCK FALSE
INVARIANTS
    BlocksApart
    HandlersReady
    WokenDone
    OpensInstance
PROPERTIES
    RequestServed
