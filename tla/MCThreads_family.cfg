\* Slots are reused once; the timer is the only interrupt.
CONSTANTS
    NTHR = 4
    Conds = {}
    Tick = tick
    PagePool = 3
    NoCond = nocond
    disk = disk
    tick = tick
    nocond = nocond
SPECIFICATION Spec
INVARIANTS
    NoLostChildExit
    FamilyRooted
    UserInOwnSpace
PROPERTIES
    TreeSpec
