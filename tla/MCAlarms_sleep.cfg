\* Three sleepers; a delay past INT_MAX (15) saturates.
CONSTANTS
    Threads = {t1, t2, t3}
    TICK_PERIOD = 3
    PER_US = 2
    INT_MAX = 7
    UMAX = 1023
    Delays = {1, 15}
    Horizon = 7
    t1 = t1
    t2 = t2
    t3 = t3
SPECIFICATION FairSpec
INVARIANTS
    SleepListExact
    TimerArmed
PROPERTIES
    SleptLongEnough
    SleeperWakes
