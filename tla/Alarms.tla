-------------------------------- MODULE Alarms --------------------------------
(***************************************************************************)
(* The timer and its alarms, src/src/kern/timer.c, and usleep.             *)
(*                                                                         *)
(* Each thread has one alarm of its own, as sysusleep does.  Times are      *)
(* unsigned machine words that saturate at UMAX.  alarm_sleep runs with     *)
(* interrupts disabled from the insertion into the sleep list until the     *)
(* thread has left the hart, and the handler with interrupts disabled, so   *)
(* both are single steps; the clock moves between any two.                  *)
(***************************************************************************)
EXTENDS Integers, Sequences, FiniteSets, Functions

CONSTANTS
    Threads,
    TICK_PERIOD,    \* clock units between two ticks
    PER_US,         \* TIMER_FREQ / 1000 / 1000
    INT_MAX,        \* largest C int: usleep passes its argument through one
    UMAX,           \* UINT64_MAX
    Delays,         \* arguments of usleep, in microseconds
    Horizon         \* the clock stops here (the bound of the model)

ASSUME AlarmsAssumption ==
    /\ TICK_PERIOD \in Nat \ {0} /\ PER_US \in Nat \ {0}
    /\ INT_MAX \in Nat /\ UMAX \in Nat /\ INT_MAX < UMAX
    /\ Delays \subseteq 0 .. UMAX
    /\ Horizon \in 0 .. UMAX - TICK_PERIOD

VARIABLES
    mtime, mtcmp,   \* the clock and its comparator
    mtie, stip,     \* machine interrupt armed; supervisor interrupt pending
    next_tick,
    sleep_list,     \* the alarms of these threads, linked by al->next
    twake,          \* al->twake
    pc              \* "run", "insert" (past the early return), "asleep", "woken"

clockVars == <<mtime, mtcmp, mtie, stip, next_tick>>
vars == <<clockVars, sleep_list, twake, pc>>

\* timer_init.  next_tick is a zero-initialised static that it does not set.
Init ==
    /\ mtime = 0
    /\ mtcmp = TICK_PERIOD
    /\ mtie = TRUE
    /\ stip = FALSE
    /\ next_tick = 0
    /\ sleep_list = <<>>
    /\ twake = [t \in Threads |-> 0]
    /\ pc = [t \in Threads |-> "run"]

------------------------------------------------------------------------------
(* The clock and the machine-mode handler *)

Advance ==
    /\ mtime < Horizon
    /\ mtime' = mtime + 1
    /\ UNCHANGED <<mtcmp, mtie, stip, next_tick, sleep_list, twake, pc>>

\* _mmode_trap_entry passes the interrupt on to supervisor mode, once.
MachineTimer ==
    /\ mtie
    /\ mtcmp <= mtime
    /\ stip' = TRUE
    /\ mtie' = FALSE
    /\ UNCHANGED <<mtime, mtcmp, next_tick, sleep_list, twake, pc>>

\* set_mtcmp(c) and the ecall of enable_mmode_timer_intr, and without the ecall.
SetOnly(c) == mtcmp' = c /\ mtie' = mtie /\ stip' = FALSE
Rearm(c) == mtcmp' = c /\ mtie' = TRUE /\ stip' = FALSE

------------------------------------------------------------------------------
(* alarm_sleep *)

\* al->twake + tcnt, which saturates; and a sum that wraps.
WrappedSum(a, b) == (a + b) % (UMAX + 1)
SatSum(a, b) == IF UMAX - a < b THEN UMAX ELSE a + b

\* The clock units of a usleep: its argument goes through an int, whose sign is
\* extended, and is multiplied in 64 bits.
AsInt(us) == IF us <= INT_MAX THEN us ELSE us + (UMAX - 2 * INT_MAX - 1)
UsleepTicks(us) == (AsInt(us % (2 * INT_MAX + 2)) * PER_US) % (UMAX + 1)

\* alarm_init (a usleep starts with it) and alarm_reset.
Reset(t) ==
    /\ pc[t] = "run"
    /\ twake' = [twake EXCEPT ![t] = mtime]
    /\ UNCHANGED <<clockVars, sleep_list, pc>>

\* alarm_sleep up to intr_disable: relative to the last reset or wake-up, and
\* without sleeping when that time is over.
Usleep(t, us) ==
    /\ pc[t] = "run"
    /\ LET w == SatSum(twake[t], UsleepTicks(us))
       IN /\ twake' = [twake EXCEPT ![t] = w]
          /\ pc' = IF w < mtime THEN pc ELSE [pc EXCEPT ![t] = "insert"]
    /\ UNCHANGED <<clockVars, sleep_list>>

\* Where the alarm goes: after all that are due before it.  One that looked for
\* a later alarm from the tail.
EarlierCount(t) == Cardinality({i \in DOMAIN sleep_list : twake[sleep_list[i]] < twake[t]})
AtTail(t) == Append(sleep_list, t)
Inserted(t) ==
    LET k == EarlierCount(t)
    IN SubSeq(sleep_list, 1, k) \o <<t>> \o SubSeq(sleep_list, k + 1, Len(sleep_list))

\* The comparator is moved forward for an alarm at the head before the next
\* tick, and one that left it alone.
NoRearm(t) == UNCHANGED <<mtcmp, mtie, stip>>
RearmFor(t) ==
    IF EarlierCount(t) = 0 /\ twake[t] < next_tick
    THEN Rearm(twake[t])
    ELSE UNCHANGED <<mtcmp, mtie, stip>>

Insert(t) ==
    /\ pc[t] = "insert"
    /\ sleep_list' = Inserted(t)
    /\ RearmFor(t)
    /\ pc' = [pc EXCEPT ![t] = "asleep"]
    /\ UNCHANGED <<mtime, next_tick, twake>>

\* condition_wait returns and so does alarm_sleep.
Return(t) ==
    /\ pc[t] = "woken"
    /\ pc' = [pc EXCEPT ![t] = "run"]
    /\ UNCHANGED <<clockVars, sleep_list, twake>>

------------------------------------------------------------------------------
(* timer_intr_handler *)

\* The alarms at the front that are due: the loop stops at the first that is not.
DueCount == CHOOSE k \in 0 .. Len(sleep_list) :
                /\ \A i \in 1 .. k : twake[sleep_list[i]] <= mtime
                /\ k < Len(sleep_list) => twake[sleep_list[k + 1]] > mtime

\* The alarms it wakes, and what stays on the list.
Due == {sleep_list[i] : i \in 1 .. DueCount}
Remaining == SubSeq(sleep_list, DueCount + 1, Len(sleep_list))

Handler ==
    /\ stip
    /\ LET rest == Remaining
           tick == IF next_tick < mtime THEN next_tick + TICK_PERIOD ELSE next_tick
       IN /\ pc' = [t \in Threads |-> IF t \in Due THEN "woken" ELSE pc[t]]
          /\ sleep_list' = rest
          /\ next_tick' = tick
          /\ Rearm(IF rest # <<>> /\ twake[Head(rest)] < tick
                   THEN twake[Head(rest)] ELSE tick)
    /\ UNCHANGED <<mtime, twake>>

------------------------------------------------------------------------------

\* The bound: no time after Horizon.
TimeOver == mtime = Horizon /\ UNCHANGED vars

Next ==
    \/ Advance \/ MachineTimer \/ Handler \/ TimeOver
    \/ \E t \in Threads :
          \/ \E us \in Delays : Usleep(t, us)
          \/ Reset(t) \/ Insert(t) \/ Return(t)

\* The clock runs, the hardware delivers what is pending, and the kernel enables
\* interrupts again; a thread in alarm_sleep goes on to sleep.
Fairness ==
    /\ WF_vars(Advance) /\ WF_vars(MachineTimer) /\ WF_vars(Handler)
    /\ \A t \in Threads : WF_vars(Insert(t))

Spec == Init /\ [][Next]_vars
FairSpec == Spec /\ Fairness

------------------------------------------------------------------------------
(* Properties *)

Asleep == {t \in Threads : pc[t] = "asleep"}

TypeOK ==
    /\ {mtime, mtcmp, next_tick} \subseteq 0 .. UMAX
    /\ {mtie, stip} \subseteq BOOLEAN
    /\ sleep_list \in Seq(Threads)
    /\ twake \in [Threads -> 0 .. UMAX]
    /\ pc \in [Threads -> {"run", "insert", "asleep", "woken"}]

\* The sleep list holds the alarm of every sleeping thread once and no other.
\* Alarms live on kernel stacks: one left on the list after its thread returned
\* is a dangling pointer that the next handler broadcasts through.
ListHoldsSleepers ==
    /\ Range(sleep_list) = Asleep
    /\ IsInjective(sleep_list)

\* The list is in order of wake-up time, so that timer_intr_handler may stop at
\* the first alarm that is not due and look at the head only for the comparator.
ListSorted ==
    \A i, j \in DOMAIN sleep_list : i < j => twake[sleep_list[i]] <= twake[sleep_list[j]]

\* The sleep list is what alarm_sleep and the handler both take it for.
SleepListExact == TypeOK /\ ListHoldsSleepers /\ ListSorted

\* From the first tick on the comparator is armed, or its interrupt pending, no
\* later than the first alarm and the next tick, whatever alarm_sleep and the
\* handler did to it in turn.
TimerArmed ==
    next_tick # 0 =>
        \/ stip
        \/ /\ mtie
           /\ mtcmp <= next_tick
           /\ sleep_list # <<>> => mtcmp <= twake[Head(sleep_list)]

\* What the comment in alarm_sleep says: "If current alarm occurs before next
\* tick, update mtcmp".  The comparator is never later than the first alarm.
HeadArmed ==
    sleep_list # <<>> /\ ~stip => mtcmp <= twake[Head(sleep_list)]

\* No sleep is shorter than was asked for: no thread is woken before the time in its
\* alarm, and that time never moves backwards, through saturated sleeps, early returns
\* and resets, to one that is over already.
SleptLongEnough ==
    [][\A t \in Threads : /\ pc[t] = "asleep" /\ pc'[t] # "asleep" => twake[t] <= mtime
                          /\ twake[t] <= twake'[t]]_vars

\* A thread whose time comes is woken, although alarms and ticks share the one
\* comparator and each of them moves it.
SleeperWakes ==
    \A t \in Threads : (pc[t] = "asleep" /\ twake[t] <= Horizon) ~> pc[t] # "asleep"

==============================================================================
