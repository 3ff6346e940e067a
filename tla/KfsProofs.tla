------------------------------ MODULE KfsProofs ------------------------------
(***************************************************************************)
(* Proofs about the file system over the block driver: the driver's lock   *)
(* is held by whoever is past lock_acquire, nobody sleeps without someone  *)
(* to wake it, whoever goes on after a request finds it answered, and no   *)
(* two opens share a descriptor, for every number of callers, descriptors  *)
(* and files, every size of the two blocks, and with every failure of the  *)
(* device.                                                                 *)
(***************************************************************************)
EXTENDS Kfs, SequenceTheorems, FiniteSetTheorems, WellFoundedInduction, TLAPS

------------------------------------------------------------------------------
(* Quotients and remainders *)

\* A number is so many times another and a remainder.
LEMMA DivMod ==
    ASSUME NEW b \in Nat, b > 0, NEW x \in Int
    PROVE  /\ x \div b \in Int
           /\ x % b \in 0 .. b - 1
           /\ x = b * (x \div b) + (x % b)
OBVIOUS

\* There is one quotient and one remainder.
LEMMA DivUnique ==
    ASSUME NEW b \in Nat, b > 0,
           NEW q \in Int, NEW r \in 0 .. b - 1,
           NEW p \in Int, NEW s \in 0 .. b - 1,
           b * q + r = b * p + s
    PROVE  q = p /\ r = s
<1>1. b * (q - p) = s - r OBVIOUS
<1>2. ASSUME q - p >= 1 PROVE b * (q - p) >= b BY <1>2
<1>3. ASSUME q - p <= 0 - 1 PROVE b * (q - p) <= 0 - b BY <1>3
<1> QED BY <1>1, <1>2, <1>3

------------------------------------------------------------------------------
(* The lock and the waits *)

\* Asleep on the device, or woken from it and not yet running.
Waiting == {"entry_ret", "pre_ret", "xfer_ret"}

\* The control state of the calls.
ControlTyped ==
    /\ lk_tid \in Threads \cup {NoThread}
    /\ pc \in [Threads -> Holding \cup {"user", "acquire"}]
    /\ handle \in [Threads -> Slots \cup {NoSlot}]
    /\ flags \in [Slots -> BOOLEAN]
    /\ dev_wait \subseteq Threads

\* The device works for the holder of the lock alone, which sleeps until the
\* interrupt of its request: condition_wait is not in a loop that looks again.
OneRequest ==
    /\ inflight # NoReq \/ irq <=> dev_wait # {}
    /\ inflight = NoReq \/ ~irq
    /\ \A t \in dev_wait : lk_tid = t /\ pc[t] \in Waiting /\ cpu # t

\* Whoever goes on after a request finds it answered, and no other under way.
RequestAnswered ==
    \A t \in Threads : pc[t] \in Waiting /\ t \notin dev_wait => inflight = NoReq /\ ~irq

\* What is kept of the descriptors.
SlotsKept ==
    \A t, u \in Threads :
        /\ handle[t] # NoSlot => flags[handle[t]]
        /\ ~Forks /\ t # u /\ handle[t] # NoSlot => handle[t] # handle[u]

IInv == ControlTyped /\ LockHeld /\ NoLostWakeup /\ OneRequest /\ SlotsKept

------------------------------------------------------------------------------
(* What the actions do to the lock, the device and the descriptors *)

\* The holder of the lock runs on.
Stays(t) ==
    /\ pc[t] \in Holding
    /\ cpu = t \/ t \notin dev_wait
    /\ \E l \in {"loop", "entry", "xfer"} : pc' = [pc EXCEPT ![t] = l]
    /\ UNCHANGED <<inflight, irq, dev_wait, lk_tid, lk_wait, flags, handle>>

\* It asks the device for something and sleeps.
Sleeps(t) ==
    /\ pc[t] \in Holding
    /\ cpu = t \/ t \notin dev_wait
    /\ inflight'.type # "none"
    /\ dev_wait' = dev_wait \cup {t}
    /\ cpu' = NoThread
    /\ \E l \in Waiting : pc' = [pc EXCEPT ![t] = l]
    /\ UNCHANGED <<irq, lk_tid, lk_wait, flags, handle>>

\* It releases the lock and returns.
Leaves(t) ==
    /\ pc[t] \in Holding
    /\ cpu = t \/ t \notin dev_wait
    /\ pc' = [pc EXCEPT ![t] = "user"]
    /\ lk_tid' = NoThread /\ lk_wait' = {}
    /\ UNCHANGED <<inflight, irq, dev_wait, flags, handle>>

\* A call begins, up to lock_acquire, or returns before it.
Outside(t) ==
    /\ pc[t] = "user"
    /\ pc' \in {pc, [pc EXCEPT ![t] = "acquire"]}
    /\ cpu' \in {cpu, t}
    /\ UNCHANGED <<inflight, irq, dev_wait, lk_tid, lk_wait>>

\* Every step of a thread under the lock is one of the first three.
LEMMA UnderTheLock ==
    ASSUME IInv, NEW t \in Threads,
           \/ Loop(t) \/ LoopOpen(t) \/ Done(t)
           \/ Fetch(t) \/ Fetched(t) \/ EntryHit(t) \/ EntryFailed(t) \/ ReadHit(t)
           \/ PreRead(t) \/ WriteBlock(t) \/ WriteDone(t) \/ TransferFailed(t)
    PROVE  (Stays(t) /\ cpu' = t) \/ Sleeps(t) \/ (Leaves(t) /\ cpu' = NoThread)
<1> USE DEF Runs, Goto, Keeps, Gives, Holding, Waiting, lkVars, devVars, drvVars, fdVars, callVars
<1>1. CASE Loop(t) BY <1>1 DEF Loop, Stays
<1>2. CASE LoopOpen(t) BY <1>2 DEF LoopOpen, Stays
<1>3. CASE Done(t) BY <1>3 DEF Done, Leaves, Release, Return
<1>4. CASE Fetch(t)
  <2>1. inflight'.type # "none" BY <1>4 DEF Fetch, Submit
  <2> QED BY <1>4, <2>1 DEF Fetch, Reading, Submit, Sleeps
<1>5. CASE Fetched(t) BY <1>5 DEF Fetched, Stays
<1>6. CASE EntryHit(t) BY <1>6 DEF EntryHit, Entry, Stays, Leaves, Release, Return
<1>7. CASE EntryFailed(t)
  <2>1. PICK v : Entry(t, v, 0) BY <1>7 DEF EntryFailed
  <2> QED BY <1>7, <2>1 DEF EntryFailed, Entry, Stays, Leaves, Release, Return
<1>8. CASE ReadHit(t) BY <1>8 DEF ReadHit, Reading, Advance, Stays
<1>9. CASE PreRead(t)
  <2>1. inflight'.type # "none" BY <1>9 DEF PreRead, Submit
  <2> QED BY <1>9, <2>1 DEF PreRead, Submit, Sleeps
<1>10. CASE WriteBlock(t)
  <2>1. inflight'.type # "none" BY <1>10 DEF WriteBlock, Submit
  <2>2. pc[t] \in Holding /\ (cpu = t \/ t \notin dev_wait) BY <1>10 DEF WriteBlock
  <2>3. /\ dev_wait' = dev_wait \cup {t} /\ cpu' = NoThread /\ pc' = [pc EXCEPT ![t] = "xfer_ret"]
        /\ UNCHANGED <<irq, lk_tid, lk_wait, flags, handle>>
    BY <1>10 DEF WriteBlock, Submit
  <2> QED BY <2>1, <2>2, <2>3 DEF Sleeps
<1>11. CASE WriteDone(t) BY <1>11 DEF WriteDone, Advance, Stays
<1>12. CASE TransferFailed(t) BY <1>12 DEF TransferFailed, Leaves, Release, Return
<1> QED BY <1>1, <1>2, <1>3, <1>4, <1>5, <1>6, <1>7, <1>8, <1>9, <1>10, <1>11, <1>12

------------------------------------------------------------------------------
(* The inductive invariant *)

\* A request of either type is not the absence of one.
LEMMA RequestIsOne == NoReq.type = "none"
BY DEF NoReq

LEMMA InitIInv == Init => IInv
<1> SUFFICES ASSUME Init PROVE IInv OBVIOUS
<1> USE KfsAssumption DEF Init, Holding
<1>1. ControlTyped BY DEF ControlTyped
<1>2. LockHeld /\ NoLostWakeup BY DEF LockHeld, NoLostWakeup, NoThread
<1>3. OneRequest BY DEF OneRequest
<1>4. SlotsKept BY DEF SlotsKept
<1> QED BY <1>1, <1>2, <1>3, <1>4 DEF IInv

LEMMA StaysKeeps == ASSUME IInv, NEW t \in Threads, Stays(t), cpu' = t PROVE IInv'
<1> USE DEF IInv, Stays
<1>1. ControlTyped' BY DEF ControlTyped, Holding
<1>2. LockHeld' BY DEF LockHeld, ControlTyped, Holding
<1>3. NoLostWakeup' BY DEF NoLostWakeup
<1>4. OneRequest'
  <2>1. lk_tid = t BY DEF LockHeld
  <2>2. dev_wait = {} BY <2>1 DEF OneRequest
  <2> QED BY <2>2 DEF OneRequest
<1>5. SlotsKept' BY DEF SlotsKept
<1> QED BY <1>1, <1>2, <1>3, <1>4, <1>5

LEMMA SleepsKeeps == ASSUME IInv, NEW t \in Threads, Sleeps(t) PROVE IInv'
<1> USE DEF IInv, Sleeps
<1>1. ControlTyped' BY DEF ControlTyped, Holding, Waiting
<1>2. LockHeld' BY DEF LockHeld, ControlTyped, Holding, Waiting
<1>3. inflight' # NoReq BY RequestIsOne
<1>4. NoReq' = NoReq BY DEF NoReq
<1>5. NoLostWakeup' BY <1>3, <1>4 DEF NoLostWakeup
<1>6. OneRequest'
  <2>1. lk_tid = t BY DEF LockHeld
  <2>2. dev_wait = {} /\ ~irq BY <2>1 DEF OneRequest
  <2>3. pc'[t] \in Waiting BY DEF ControlTyped
  <2>4. cpu' # t BY KfsAssumption DEF NoThread
  <2> QED BY <1>3, <1>4, <2>1, <2>2, <2>3, <2>4 DEF OneRequest
<1>7. SlotsKept' BY DEF SlotsKept
<1> QED BY <1>1, <1>2, <1>5, <1>6, <1>7

LEMMA LeavesKeeps ==
    ASSUME IInv, NEW t \in Threads, Leaves(t), cpu' = NoThread PROVE IInv'
<1> USE DEF IInv, Leaves
<1>1. ControlTyped' BY DEF ControlTyped, Holding
<1>2. LockHeld' BY KfsAssumption DEF LockHeld, ControlTyped, Holding, NoThread
<1>3. NoLostWakeup' BY DEF NoLostWakeup
<1>4. OneRequest'
  <2>1. lk_tid = t BY DEF LockHeld
  <2>2. dev_wait = {} BY <2>1 DEF OneRequest
  <2> QED BY <2>2 DEF OneRequest
<1>5. SlotsKept' BY DEF SlotsKept
<1> QED BY <1>1, <1>2, <1>3, <1>4, <1>5

\* What a call outside the lock does to the lock and the device: nothing.
LEMMA OutsideKeeps ==
    ASSUME IInv, NEW t \in Threads, Outside(t), pc[t] = "user"
    PROVE  LockHeld' /\ NoLostWakeup' /\ OneRequest'
           /\ pc' \in [Threads -> Holding \cup {"user", "acquire"}]
           /\ lk_tid' \in Threads \cup {NoThread}
<1> USE DEF IInv, Outside
<1>1. pc' \in [Threads -> Holding \cup {"user", "acquire"}] /\ lk_tid' \in Threads \cup {NoThread}
  BY DEF ControlTyped
<1>2. LockHeld' BY DEF LockHeld, ControlTyped, Holding
<1>3. NoLostWakeup' BY DEF NoLostWakeup
<1>4. OneRequest'
  <2>1. t \notin dev_wait BY DEF OneRequest, Waiting
  <2>2. \A u \in dev_wait : u # t /\ cpu # u /\ pc'[u] = pc[u] 
    BY <2>1 DEF OneRequest, ControlTyped
  <2> QED BY <2>1, <2>2 DEF OneRequest
<1> QED BY <1>1, <1>2, <1>3, <1>4

LEMMA AcquireKeeps == ASSUME IInv, NEW t \in Threads, Acquire(t) PROVE IInv'
<1> USE DEF IInv, Acquire, Runs, Goto, Keeps, Gives, devVars, drvVars, fdVars, callVars
<1>1. ControlTyped' BY DEF ControlTyped, Holding
<1>2. LockHeld' BY KfsAssumption DEF LockHeld, ControlTyped, Holding, MayTake, NoThread
<1>3. NoLostWakeup' BY KfsAssumption DEF NoLostWakeup, MayTake, NoThread
<1>4. OneRequest'
  <2>1. lk_tid = NoThread => dev_wait = {} BY KfsAssumption DEF OneRequest, LockHeld, ControlTyped, NoThread
  <2> QED BY <2>1, KfsAssumption DEF OneRequest, MayTake, NoThread, ControlTyped
<1>5. SlotsKept' BY DEF SlotsKept
<1> QED BY <1>1, <1>2, <1>3, <1>4, <1>5

LEMMA CompleteKeeps == IInv /\ Complete => IInv'
<1> SUFFICES ASSUME IInv, Complete PROVE IInv' OBVIOUS
<1> USE DEF IInv, lkVars, fdVars, callVars
<1>1. /\ inflight # NoReq /\ inflight' = NoReq /\ irq'
      /\ UNCHANGED <<dev_wait, lk_tid, lk_wait, flags, handle, pc, cpu>>
  BY DEF Complete
<1>2. NoReq' = NoReq BY DEF NoReq
<1>3. ControlTyped' BY <1>1 DEF ControlTyped
<1>4. LockHeld' /\ NoLostWakeup' BY <1>1 DEF LockHeld, NoLostWakeup
<1>5. OneRequest' BY <1>1, <1>2 DEF OneRequest
<1>6. SlotsKept' BY <1>1 DEF SlotsKept
<1> QED BY <1>3, <1>4, <1>5, <1>6

LEMMA IsrKeeps == IInv /\ Isr => IInv'
<1> SUFFICES ASSUME IInv, Isr PROVE IInv' OBVIOUS
<1> USE DEF IInv, Isr, lkVars, fdVars, callVars
<1>1. NoReq' = NoReq BY DEF NoReq
<1>2. ControlTyped' BY DEF ControlTyped
<1>3. LockHeld' /\ NoLostWakeup' BY DEF LockHeld, NoLostWakeup
<1>4. OneRequest' BY <1>1 DEF OneRequest
<1>5. SlotsKept' BY DEF SlotsKept
<1> QED BY <1>2, <1>3, <1>4, <1>5

\* Of a set of numbers Min is one, and the least.
LEMMA MinIsLeast ==
    ASSUME NEW S \in SUBSET Nat, S # {}
    PROVE  Min(S) \in S
<1> DEFINE R == OpToRel(<, Nat)
<1>1. \A x, y \in Nat : x < y => <<x, y>> \in R BY DEF OpToRel
<1>2. IsWellFoundedOn(R, Nat) BY NatLessThanWellFounded
<1> HIDE DEF R
<1>3. PICK x \in S : \A y \in S : <<y, x>> \notin R BY <1>2, WFMin
<1>4. \A y \in S : x <= y
  <2> TAKE y \in S
  <2>1. x \in Nat /\ y \in Nat OBVIOUS
  <2>2. ~(y < x) BY <1>1, <1>3, <2>1
  <2> QED BY <2>1, <2>2
<1> QED BY <1>4 DEF Min

\* The descriptor fs_open takes is one that is not in use.
LEMMA FreeSlot ==
    ASSUME NEW fl \in [Slots -> BOOLEAN], \E x \in Slots : ~fl[x]
    PROVE  LET s == Min({x \in Slots : ~fl[x]}) IN s \in Slots /\ ~fl[s]
<1> DEFINE free == {x \in Slots : ~fl[x]}
<1>1. free \in SUBSET Nat /\ free # {} BY KfsAssumption
<1> HIDE DEF free
<1>2. Min(free) \in free BY <1>1, MinIsLeast
<1> QED BY <1>2 DEF free

LEMMA OpenKeeps ==
    ASSUME IInv, NEW t \in Threads, NEW f \in Files \cup {NoFile}, Open(t, f) PROVE IInv'
<1> DEFINE free == {x \in Slots : ~flags[x]}
           s == Min(free)
<1>1. /\ pc[t] = "user" /\ handle[t] = NoSlot /\ free # {}
      /\ flags' = [flags EXCEPT ![s] = TRUE]
      /\ handle' \in {handle, [handle EXCEPT ![t] = s]}
  BY DEF Open, Idle, Marked
<1>2. Outside(t)
  BY DEF Open, Idle, Outside, Goto, Keeps, devVars, drvVars, lkVars
<1>3. dev_wait' = dev_wait BY DEF Open, drvVars
<1>4. s \in Slots /\ ~flags[s] BY <1>1, FreeSlot DEF IInv, ControlTyped
<1> HIDE DEF s
<1>5. IInv BY DEF IInv
<1>6. /\ handle \in [Threads -> Slots \cup {NoSlot}] /\ flags \in [Slots -> BOOLEAN]
      /\ NoSlot \notin Slots
  BY <1>5, KfsAssumption DEF IInv, ControlTyped, NoSlot
<1>7. LockHeld' /\ NoLostWakeup' /\ OneRequest'
      /\ pc' \in [Threads -> Holding \cup {"user", "acquire"}]
      /\ lk_tid' \in Threads \cup {NoThread}
  BY <1>1, <1>2, OutsideKeeps
<1>8. handle' \in [Threads -> Slots \cup {NoSlot}] /\ flags' \in [Slots -> BOOLEAN]
  BY <1>1, <1>4, <1>6
<1>9. ControlTyped' BY <1>3, <1>5, <1>7, <1>8 DEF IInv, ControlTyped
<1>10. SlotsKept'
  <2>1. \A u \in Threads : handle[u] # NoSlot => flags[handle[u]] /\ handle[u] # s
    BY <1>4, <1>5 DEF IInv, SlotsKept
  <2>2. \A u \in Threads : handle'[u] # NoSlot =>
            \/ u = t /\ handle'[u] = s
            \/ u # t /\ handle'[u] = handle[u]
    BY <1>1, <1>6
  <2>3. \A u \in Threads : handle'[u] # NoSlot => flags'[handle'[u]]
    <3> TAKE u \in Threads
    <3> HAVE handle'[u] # NoSlot
    <3>1. CASE u = t BY <1>1, <1>4, <1>6, <2>2, <3>1
    <3>2. CASE u # t
      <4>1. handle'[u] = handle[u] /\ handle[u] # NoSlot BY <2>2, <3>2
      <4>2. handle[u] \in Slots /\ flags[handle[u]] BY <1>6, <2>1, <4>1
      <4> QED BY <1>1, <1>6, <4>1, <4>2
    <3> QED BY <3>1, <3>2
  <2>4. ASSUME ~Forks, NEW u \in Threads, NEW v \in Threads, u # v, handle'[u] # NoSlot
        PROVE  handle'[u] # handle'[v]
    <3>1. handle[u] # NoSlot => handle[u] # handle[v]
      BY <1>5, <2>4 DEF IInv, SlotsKept
    <3>2. handle[v] # NoSlot => handle[v] # handle[u]
      BY <1>5, <2>4 DEF IInv, SlotsKept
    <3> QED BY <1>4, <1>6, <2>1, <2>2, <2>4, <3>1, <3>2
  <2> QED BY <2>3, <2>4 DEF SlotsKept
<1> QED BY <1>7, <1>9, <1>10 DEF IInv

LEMMA CloseKeeps == ASSUME IInv, NEW t \in Threads, Close(t) PROVE IInv'
<1>1. /\ pc[t] = "user" /\ handle[t] # NoSlot
      /\ handle' = [handle EXCEPT ![t] = NoSlot]
      /\ flags' = IF LastHolder(t) THEN [flags EXCEPT ![handle[t]] = FALSE] ELSE flags
      /\ UNCHANGED <<dev_wait, pc, cpu, inflight, irq, lk_tid, lk_wait>>
  BY DEF Close, Idle, devVars, drvVars, lkVars
<1>2. Outside(t) BY <1>1 DEF Outside
<1>3. LockHeld' /\ NoLostWakeup' /\ OneRequest' BY <1>1, <1>2, OutsideKeeps
<1>4. ControlTyped' BY <1>1 DEF IInv, ControlTyped
<1>5. SlotsKept'
  <2>1. ASSUME NEW u \in Threads, handle'[u] # NoSlot
        PROVE  u # t /\ handle'[u] = handle[u] /\ flags'[handle[u]]
    <3>1. u # t /\ handle'[u] = handle[u] BY <1>1, <2>1 DEF IInv, ControlTyped
    <3>2. handle[u] \in Slots /\ flags[handle[u]]
      BY <2>1, <3>1 DEF IInv, ControlTyped, SlotsKept
    <3>3. LastHolder(t) => handle[u] # handle[t] BY <3>1 DEF LastHolder
    <3> QED BY <1>1, <3>1, <3>2, <3>3 DEF IInv, ControlTyped
  <2>2. ASSUME ~Forks, NEW u \in Threads, NEW v \in Threads, u # v, handle'[u] # NoSlot
        PROVE  handle'[u] # handle'[v]
    <3>1. handle'[u] = handle[u] /\ handle[u] # handle[v]
      BY <2>1, <2>2 DEF IInv, SlotsKept
    <3>2. handle'[v] \in {NoSlot, handle[v]} BY <1>1 DEF IInv, ControlTyped
    <3> QED BY <2>2, <3>1, <3>2
  <2> QED BY <2>1, <2>2 DEF SlotsKept
<1> QED BY <1>3, <1>4, <1>5 DEF IInv

LEMMA EnterUserKeeps == ASSUME IInv, NEW t \in Threads, EnterUser(t) PROVE IInv'
<1>1. /\ pc[t] = "user"
      /\ handle' = [handle EXCEPT ![t] = NoSlot]
      /\ UNCHANGED <<flags, dev_wait, pc, cpu, inflight, irq, lk_tid, lk_wait>>
  BY DEF EnterUser, Idle, devVars, drvVars, lkVars, fdVars
<1>2. Outside(t) BY <1>1 DEF Outside
<1>3. LockHeld' /\ NoLostWakeup' /\ OneRequest' BY <1>1, <1>2, OutsideKeeps
<1>4. ControlTyped' BY <1>1 DEF IInv, ControlTyped
<1>5. \A u \in Threads : handle'[u] \in {NoSlot, handle[u]} BY <1>1 DEF IInv, ControlTyped
<1>6. SlotsKept' BY <1>1, <1>5 DEF IInv, SlotsKept
<1> QED BY <1>3, <1>4, <1>6 DEF IInv

LEMMA ForkKeeps ==
    ASSUME IInv, NEW t \in Threads, NEW u \in Threads, Fork(t, u) PROVE IInv'
<1>1. /\ Forks /\ pc[t] = "user" /\ handle[t] # NoSlot
      /\ handle' = [handle EXCEPT ![u] = handle[t]]
      /\ UNCHANGED <<flags, dev_wait, pc, cpu, inflight, irq, lk_tid, lk_wait>>
  BY DEF Fork, Idle, devVars, drvVars, lkVars, fdVars
<1>2. Outside(t) BY <1>1 DEF Outside
<1>3. LockHeld' /\ NoLostWakeup' /\ OneRequest' BY <1>1, <1>2, OutsideKeeps
<1>4. ControlTyped' BY <1>1 DEF IInv, ControlTyped
<1>5. \A w \in Threads : handle'[w] \in {handle[t], handle[w]} BY <1>1 DEF IInv, ControlTyped
<1>6. SlotsKept' BY <1>1, <1>5 DEF IInv, SlotsKept
<1> QED BY <1>3, <1>4, <1>6 DEF IInv

\* The other calls: read and write up to lock_acquire, a seek, and an open that finds
\* no descriptor.
LEMMA CallKeeps ==
    ASSUME IInv, NEW t \in Threads,
           \/ OpenFull(t)
           \/ \E call \in {"read", "write"}, k \in Counts : Transfer(t, call, k)
           \/ \E p \in Seeks : SetPos(t, p)
    PROVE  IInv'
<1>1. pc[t] = "user" /\ Outside(t) /\ UNCHANGED <<flags, handle, dev_wait>>
  <2>1. CASE OpenFull(t)
    BY <2>1 DEF OpenFull, Idle, Outside, vars, devVars, drvVars, lkVars, fdVars, callVars
  <2>2. CASE \E call \in {"read", "write"}, k \in Counts : Transfer(t, call, k)
    BY <2>2 DEF Transfer, Idle, Goto, Keeps, Outside, devVars, drvVars, lkVars, fdVars
  <2>3. CASE \E p \in Seeks : SetPos(t, p)
    BY <2>3 DEF SetPos, Idle, Outside, devVars, drvVars, lkVars, callVars
  <2> QED BY <2>1, <2>2, <2>3
<1>2. /\ LockHeld' /\ NoLostWakeup' /\ OneRequest'
      /\ pc' \in [Threads -> Holding \cup {"user", "acquire"}]
      /\ lk_tid' \in Threads \cup {NoThread}
  BY <1>1, OutsideKeeps
<1>3. ControlTyped' BY <1>1, <1>2 DEF IInv, ControlTyped
<1>4. SlotsKept' BY <1>1 DEF IInv, SlotsKept
<1> QED BY <1>2, <1>3, <1>4 DEF IInv

LEMMA StutterKeeps == IInv /\ UNCHANGED vars => IInv'
<1> SUFFICES ASSUME IInv, UNCHANGED vars PROVE IInv' OBVIOUS
<1> USE DEF IInv, vars, devVars, drvVars, lkVars, fdVars, callVars
<1>1. NoReq' = NoReq BY DEF NoReq
<1>2. ControlTyped' BY DEF ControlTyped
<1>3. LockHeld' /\ NoLostWakeup' BY <1>1 DEF LockHeld, NoLostWakeup
<1>4. OneRequest' BY <1>1 DEF OneRequest
<1>5. SlotsKept' BY DEF SlotsKept
<1> QED BY <1>2, <1>3, <1>4, <1>5

LEMMA StepKeeps == IInv /\ [Next]_vars => IInv'
<1> SUFFICES ASSUME IInv, Next PROVE IInv' BY StutterKeeps
<1>1. CASE Complete \/ Isr BY <1>1, CompleteKeeps, IsrKeeps
<1>2. ASSUME NEW t \in Threads, Step(t) PROVE IInv'
  <2>1. CASE Acquire(t) BY <2>1, AcquireKeeps
  <2>2. CASE ~Acquire(t)
    BY <1>2, <2>2, UnderTheLock, StaysKeeps, SleepsKeeps, LeavesKeeps DEF Step
  <2> QED BY <2>1, <2>2
<1>3. ASSUME NEW t \in Threads, Call(t) PROVE IInv'
  BY <1>3, OpenKeeps, CallKeeps, CloseKeeps, EnterUserKeeps, ForkKeeps DEF Call
<1> QED BY <1>1, <1>2, <1>3 DEF Next

LEMMA Invariant == Spec => []IInv
BY InitIInv, StepKeeps, PTL DEF Spec

------------------------------------------------------------------------------
(* The theorems *)

\* vioblk_lock: at most one thread is between lock_acquire and lock_release, and it is
\* the one the lock names, whatever sleeps, fails or is interrupted in between.
THEOREM OneHolder == Spec => []LockHeld
<1>1. IInv => LockHeld BY DEF IInv
<1> QED BY <1>1, Invariant, PTL

\* No thread sleeps on the device without a request under way or its interrupt pending,
\* and none on the lock without a holder.
THEOREM SomeoneWakes == Spec => []NoLostWakeup
<1>1. IInv => NoLostWakeup BY DEF IInv
<1> QED BY <1>1, Invariant, PTL

\* The descriptor of every open file is marked, however many processes share it and
\* while fs_open sleeps: kfs.c gives it to nobody else.
THEOREM DescriptorsMarked == Spec => []SlotsMarked
<1>1. IInv => SlotsMarked BY DEF IInv, SlotsKept, SlotsMarked
<1> QED BY <1>1, Invariant, PTL

\* Without fork, which shares them, no two opens have the same descriptor.
THEOREM DescriptorsDistinct == ~Forks /\ Spec => []SlotsDistinct
<1>1. CASE ~Forks
  <2>1. IInv => SlotsDistinct BY <1>1 DEF IInv, SlotsKept, SlotsDistinct
  <2> QED BY <2>1, Invariant, PTL
<1>2. CASE Forks BY <1>2
<1> QED BY <1>1, <1>2

\* The driver does not look again after condition_wait, and need not: whoever goes on
\* finds its request answered and the device idle.
THEOREM AnsweredOnWaking == Spec => []RequestAnswered
<1>1. IInv => RequestAnswered
  <2> SUFFICES ASSUME IInv, NEW t \in Threads, pc[t] \in Waiting, t \notin dev_wait
               PROVE  inflight = NoReq /\ ~irq
    BY DEF RequestAnswered
  <2>1. lk_tid = t BY DEF IInv, LockHeld, Waiting, Holding
  <2>2. dev_wait = {} BY <2>1 DEF IInv, OneRequest
  <2> QED BY <2>2 DEF IInv, OneRequest
<1> QED BY <1>1, Invariant, PTL

------------------------------------------------------------------------------
(* The calls are atomic: the inductive invariant *)

\* Every open file has one holder, processes write whole blocks of the device, and
\* the device answers.
Plain == ~Forks /\ ~PartBlocks /\ ~Faults

File(t) == inode_num[handle[t]]
Pos(t) == file_pos[handle[t]]

DataTyped ==
    /\ disk \in [0 .. DiskEnd -> Nat]
    /\ DOMAIN blkbuf = 0 .. blksz - 1
    /\ devpos \in Nat /\ bufblkno \in Nat
    /\ file_pos \in [Slots -> Nat] /\ file_size \in [Slots -> Nat]
    /\ inode_num \in [Slots -> Files]
    /\ op \in [Threads -> {"none", "open", "read", "write"}]
    /\ n \in [Threads -> Nat] /\ chunk \in [Threads -> Nat] /\ m \in [Threads -> Nat]
    /\ got \in [Threads -> Seq(Nat)]
    /\ ~failed

\* What a call has to do when it is where it is.
CallsOK ==
    \A t \in Threads :
        /\ pc[t] = "user" <=> op[t] = "none"
        /\ op[t] # "none" => handle[t] # NoSlot
        /\ op[t] \in {"none", "open"} => n[t] = 0
        /\ pc[t] \in {"user", "acquire", "loop"} \/ op[t] = "open" => chunk[t] = 0 /\ m[t] = 0
        /\ pc[t] \in {"user", "acquire"} \/ op[t] # "read" => got[t] = <<>>
        /\ pc[t] \in {"xfer", "xfer_ret"} => op[t] # "open"
        /\ pc[t] # "pre_ret"

\* A call stays within its file.
WithinFile ==
    \A t \in Threads : handle[t] # NoSlot =>
        IF op[t] = "open" THEN Pos(t) = 0
        ELSE /\ file_size[handle[t]] = FileSize[File(t)]
             /\ Pos(t) + n[t] <= FileSize[File(t)]

\* A write stays at the boundaries of the device's blocks.
WholeBlocks ==
    \A t \in Threads : op[t] = "write" =>
        /\ Pos(t) % blksz = 0 /\ n[t] % blksz = 0
        /\ chunk[t] % blksz = 0 /\ m[t] % blksz = 0

\* A round of the loop stays within a block of the file.
WithinBlock ==
    \A t \in Threads : pc[t] \in {"entry", "entry_ret", "xfer", "xfer_ret"} /\ op[t] # "open" =>
        /\ 0 < m[t] /\ m[t] <= chunk[t] /\ chunk[t] <= n[t]
        /\ (Pos(t) % BLOCK_SIZE) + chunk[t] <= BLOCK_SIZE

\* The device is where the holder of the lock wants to read or to write.
DeviceAt ==
    \A t \in Threads :
        /\ pc[t] \in {"entry", "entry_ret"} =>
              IF op[t] = "open" THEN devpos = TableAt(File(t), 0)
              ELSE /\ devpos = TableAt(File(t), Pos(t) \div BLOCK_SIZE + 1)
                   /\ m[t] = chunk[t]
        /\ pc[t] \in {"xfer", "xfer_ret"} => devpos = ByteAt(File(t), Pos(t)) + Moved(t)

\* Block k is in the buffer.
Buffered(k) ==
    \A i \in 0 .. blksz - 1 : k * blksz + i <= DiskEnd => blkbuf[i] = disk[k * blksz + i]

Fetching(t) == pc[t] = "entry_ret" \/ (pc[t] = "xfer_ret" /\ op[t] = "read")
Storing(t) == pc[t] = "xfer_ret" /\ op[t] = "write"

\* What the buffer holds, and what the device does with it.
BufferOK ==
    /\ inflight = NoReq /\ (\A t \in Threads : ~Fetching(t)) => Buffered(bufblkno)
    /\ \A t \in Threads : Fetching(t) =>
          IF inflight = NoReq THEN Buffered(devpos \div blksz)
          ELSE inflight = [type |-> "in", blk |-> devpos \div blksz]
    /\ \A t \in Threads : Storing(t) =>
          /\ bufblkno = devpos \div blksz
          /\ \A i \in 0 .. blksz - 1 : blkbuf[i] = t
          /\ inflight \in {NoReq, [type |-> "out", blk |-> bufblkno]}

\* Nobody writes over the tables.
TablesOK ==
    \A f \in Files :
        /\ disk[TableAt(f, 0)] = FileSize[f]
        /\ \A k \in DOMAIN Blocks[f] : disk[TableAt(f, k)] = Blocks[f][k]

DataOK ==
    /\ DataTyped /\ CallsOK /\ WithinFile /\ WholeBlocks /\ WithinBlock /\ DeviceAt
    /\ BufferOK /\ TablesOK

DataInv == Plain /\ IInv /\ DataOK

------------------------------------------------------------------------------
(* Quotients and remainders of the two block sizes *)

\* A number given as quotient and remainder has them.
LEMMA QuotRem ==
    ASSUME NEW c \in Nat, c > 0, NEW q \in Int, NEW r \in 0 .. c - 1
    PROVE  (c * q + r) \div c = q /\ (c * q + r) % c = r
<1> DEFINE x == c * q + r
           p == x \div c
           s == x % c
<1>1. x \in Int OBVIOUS
<1>2. p \in Int /\ s \in 0 .. c - 1 /\ c * q + r = c * p + s BY <1>1, DivMod
<1> HIDE DEF p, s
<1>3. q = p /\ r = s BY <1>2, DivUnique
<1> QED BY <1>3 DEF p, s

LEMMA Multiple ==
    ASSUME NEW c \in Nat, c > 0, NEW q \in Int
    PROVE  (c * q) % c = 0
<1>1. c * q = c * q + 0 /\ 0 \in 0 .. c - 1 OBVIOUS
<1> QED BY <1>1, QuotRem

\* Sums and differences of multiples are multiples.
LEMMA MultiplesAdd ==
    ASSUME NEW c \in Nat, c > 0, NEW x \in Int, NEW y \in Int, x % c = 0, y % c = 0
    PROVE  (x + y) % c = 0 /\ (x - y) % c = 0
<1> DEFINE p == x \div c
           q == y \div c
<1>1. p \in Int /\ q \in Int /\ x = c * p + (x % c) /\ y = c * q + (y % c) BY DivMod
<1> HIDE DEF p, q
<1>2. x = c * p /\ y = c * q BY <1>1
<1>3. x + y = c * (p + q) /\ x - y = c * (p - q) BY <1>1, <1>2
<1>4. p + q \in Int /\ p - q \in Int BY <1>1
<1> QED BY <1>3, <1>4, Multiple

\* A positive multiple is not less.
LEMMA LeastMultiple ==
    ASSUME NEW c \in Nat, c > 0, NEW x \in Nat, x > 0, x % c = 0
    PROVE  x >= c
<1> DEFINE p == x \div c
<1>1. p \in Int /\ x = c * p + (x % c) BY DivMod
<1> HIDE DEF p
<1>2. x = c * p BY <1>1
<1>3. CASE p >= 1 BY <1>1, <1>2, <1>3
<1>4. CASE p <= 0 BY <1>1, <1>2, <1>4
<1> QED BY <1>1, <1>3, <1>4

\* The sizes of the blocks.
LEMMA Sizes ==
    /\ BLOCK_SIZE \in Nat /\ BLOCK_SIZE > 0
    /\ blksz \in Nat /\ blksz > 0
    /\ BLOCK_SIZE % blksz = 0
    /\ NInodes \in Nat
    /\ Files = 0 .. NInodes - 1
BY KfsAssumption, DiskAssumption, FS_CardinalityType DEF NInodes

\* The boundaries of the file system's blocks are boundaries of the device's.
LEMMA BlockMultiple ==
    ASSUME NEW q \in Int
    PROVE  (BLOCK_SIZE * q) % blksz = 0
<1> DEFINE k == BLOCK_SIZE \div blksz
<1>1. k \in Int /\ BLOCK_SIZE = blksz * k + (BLOCK_SIZE % blksz) BY Sizes, DivMod
<1> HIDE DEF k
<1>2. BLOCK_SIZE = blksz * k BY <1>1, Sizes
<1> DEFINE j == k * q
<1>3. BLOCK_SIZE * q = blksz * j BY <1>1, <1>2, Sizes
<1>4. j \in Int BY <1>1
<1> HIDE DEF j
<1>5. (blksz * j) % blksz = 0 BY <1>4, Sizes, Multiple
<1> QED BY <1>3, <1>5

\* A position on a boundary of the device's is on one within its block.
LEMMA OffsetMultiple ==
    ASSUME NEW x \in Nat, x % blksz = 0
    PROVE  (x % BLOCK_SIZE) % blksz = 0
<1> DEFINE q == x \div BLOCK_SIZE
           r == x % BLOCK_SIZE
<1>1. q \in Int /\ r \in 0 .. BLOCK_SIZE - 1 /\ x = BLOCK_SIZE * q + r BY Sizes, DivMod
<1> HIDE DEF q, r
<1> DEFINE y == BLOCK_SIZE * q
<1>2. r = x - y /\ y \in Int BY <1>1, Sizes
<1>3. y % blksz = 0 BY <1>1, BlockMultiple
<1> HIDE DEF y
<1>4. blksz \in Nat /\ blksz > 0 /\ x \in Int BY Sizes
<1>5. (x - y) % blksz = 0 BY ONLY <1>2, <1>3, <1>4, x % blksz = 0, MultiplesAdd
<1> QED BY <1>2, <1>5 DEF r

------------------------------------------------------------------------------
(* The layout of the disk *)

\* A function of the first numbers has a bound.
LEMMA Bounded ==
    ASSUME NEW len \in Nat, NEW h \in [1 .. len -> Nat]
    PROVE  \E bound \in Nat : \A i \in 1 .. len : h[i] <= bound
<1> DEFINE R == OpToRel(<, Nat)
           Up(k) == \E bound \in Nat : \A i \in 1 .. k : h[i] <= bound
           Bad == {k \in Nat : k <= len /\ ~Up(k)}
<1>1. \A x, y \in Nat : x < y => <<x, y>> \in R BY DEF OpToRel
<1>2. IsWellFoundedOn(R, Nat) BY NatLessThanWellFounded
<1> HIDE DEF R
<1>3. Up(0) BY 0 \in Nat
<1>4. ASSUME NEW k \in Nat, k + 1 <= len, Up(k) PROVE Up(k + 1)
  <2>1. PICK bound \in Nat : \A i \in 1 .. k : h[i] <= bound BY <1>4
  <2>2. h[k + 1] \in Nat BY <1>4
  <2>3. PICK top \in Nat : bound <= top /\ h[k + 1] <= top BY <2>2
  <2>4. \A i \in 1 .. k + 1 : h[i] <= top
    <3> TAKE i \in 1 .. k + 1
    <3>1. CASE i = k + 1 BY <2>3, <3>1
    <3>2. CASE i # k + 1
      <4>1. i \in 1 .. k /\ h[i] \in Nat BY <1>4, <3>2
      <4> QED BY <2>1, <2>3, <4>1
    <3> QED BY <3>1, <3>2
  <2> QED BY <2>4
<1> HIDE DEF Up
<1>5. Bad = {}
  <2> SUFFICES ASSUME Bad # {} PROVE FALSE OBVIOUS
  <2>1. Bad \subseteq Nat OBVIOUS
  <2> HIDE DEF Bad
  <2>2. PICK k \in Bad : \A j \in Bad : <<j, k>> \notin R BY <1>2, <2>1, WFMin
  <2> USE DEF Bad
  <2>3. k \in Nat /\ k <= len /\ ~Up(k) BY <2>2
  <2>4. k # 0 BY <1>3, <2>3
  <2>5. k - 1 \in Nat /\ k - 1 < k /\ k - 1 <= len BY <2>3, <2>4
  <2>6. <<k - 1, k>> \in R BY <1>1, <2>3, <2>5
  <2>7. Up(k - 1) BY <2>2, <2>5, <2>6
  <2>8. k - 1 + 1 = k BY <2>3
  <2> QED BY <1>4, <2>3, <2>5, <2>7, <2>8
<1>6. Up(len) BY <1>5
<1> QED BY <1>6 DEF Up

\* A set of numbers with a bound has a greatest one, and Max is it.
LEMMA MaxIsGreatest ==
    ASSUME NEW S \in SUBSET Nat, S # {}, NEW bound \in Nat, \A x \in S : x <= bound
    PROVE  Max(S) \in S /\ \A x \in S : x <= Max(S)
<1> DEFINE R == OpToRel(<, Nat)
           W == {bound - x : x \in S}
<1>1. \A x, y \in Nat : x < y => <<x, y>> \in R BY DEF OpToRel
<1>2. IsWellFoundedOn(R, Nat) BY NatLessThanWellFounded
<1> HIDE DEF R
<1>3. W \subseteq Nat /\ W # {}
  <2>1. \A x \in S : x \in Nat /\ x <= bound OBVIOUS
  <2>2. \A x \in S : bound - x \in Nat BY <2>1
  <2> QED BY <2>2
<1>4. \A x \in S : bound - x \in W OBVIOUS
<1>5. \A w \in W : \E x \in S : w = bound - x OBVIOUS
<1> HIDE DEF W
<1>6. PICK w \in W : \A v \in W : <<v, w>> \notin R BY <1>2, <1>3, WFMin
<1>7. PICK x \in S : w = bound - x BY <1>5
<1>8. \A y \in S : y <= x
  <2> TAKE y \in S
  <2>1. x \in Nat /\ y \in Nat /\ w \in Nat /\ bound - y \in Nat BY <1>3, <1>4
  <2>2. ~(bound - y < w) BY <1>1, <1>4, <1>6, <2>1
  <2> QED BY <1>7, <2>1, <2>2
<1>9. \E y \in S : \A z \in S : y >= z BY <1>8
<1> QED BY <1>9 DEF Max

UsedBlocks == UNION {{Blocks[f][i] : i \in DOMAIN Blocks[f]} : f \in Files}

\* The disk ends after the last block in use.
LEMMA LastBlock ==
    /\ Max(UsedBlocks) \in Nat
    /\ \A f \in Files : \A i \in DOMAIN Blocks[f] :
          Blocks[f][i] \in Nat /\ Blocks[f][i] <= Max(UsedBlocks)
<1>1. \A f \in Files : /\ Len(Blocks[f]) \in Nat
                       /\ DOMAIN Blocks[f] = 1 .. Len(Blocks[f])
                       /\ Blocks[f] \in [1 .. Len(Blocks[f]) -> Nat]
  BY DiskAssumption
<1>2. \A f \in Files : \A i \in DOMAIN Blocks[f] : Blocks[f][i] \in Nat /\ Blocks[f][i] \in UsedBlocks
  BY <1>1 DEF UsedBlocks
<1>3. UsedBlocks \subseteq Nat BY <1>2 DEF UsedBlocks
<1>4. UsedBlocks # {}
  <2>1. PICK f \in Files : Blocks[f] # <<>> BY DiskAssumption
  <2>2. Len(Blocks[f]) # 0 BY <2>1, DiskAssumption
  <2>3. 1 \in DOMAIN Blocks[f] BY <1>1, <2>2
  <2> QED BY <1>2, <2>3
<1> DEFINE top == [f \in Files |-> CHOOSE b \in Nat :
                                \A i \in 1 .. Len(Blocks[f]) : Blocks[f][i] <= b]
<1>5. \A f \in Files : \E b \in Nat : \A i \in 1 .. Len(Blocks[f]) : Blocks[f][i] <= b
  BY <1>1, Bounded
<1>6. \A f \in Files : top[f] \in Nat /\ \A i \in DOMAIN Blocks[f] : Blocks[f][i] <= top[f]
  BY <1>1, <1>5
<1> HIDE DEF top
<1> DEFINE h == [i \in 1 .. NInodes |-> top[i - 1]]
<1>7. h \in [1 .. NInodes -> Nat] BY <1>6, Sizes
<1>8. \A f \in Files : f + 1 \in 1 .. NInodes /\ h[f + 1] = top[f] BY Sizes
<1> HIDE DEF h
<1>9. PICK bound \in Nat : \A i \in 1 .. NInodes : h[i] <= bound BY <1>7, Sizes, Bounded
<1>10. \A x \in UsedBlocks : x <= bound
  <2> TAKE x \in UsedBlocks
  <2>1. PICK f \in Files : \E i \in DOMAIN Blocks[f] : x = Blocks[f][i] BY DEF UsedBlocks
  <2>2. x \in Nat /\ x <= top[f] /\ top[f] \in Nat BY <1>2, <1>6, <2>1
  <2>3. top[f] <= bound BY <1>8, <1>9
  <2> QED BY <2>2, <2>3
<1>11. Max(UsedBlocks) \in UsedBlocks /\ \A x \in UsedBlocks : x <= Max(UsedBlocks)
  BY <1>3, <1>4, <1>10, MaxIsGreatest
<1> QED BY <1>2, <1>3, <1>11

\* The position of a byte of a file: the block and the offset within it.
LEMMA InFile ==
    ASSUME NEW f \in Files, NEW p \in Nat, p < FileSize[f]
    PROVE  /\ p \div BLOCK_SIZE + 1 \in DOMAIN Blocks[f]
           /\ p \div BLOCK_SIZE + 1 \in 1 .. BLOCK_SIZE - 1
           /\ p % BLOCK_SIZE \in 0 .. BLOCK_SIZE - 1
           /\ p = BLOCK_SIZE * (p \div BLOCK_SIZE) + (p % BLOCK_SIZE)
           /\ Blocks[f][p \div BLOCK_SIZE + 1] \in Nat
           /\ Blocks[f][p \div BLOCK_SIZE + 1] <= Max(UsedBlocks)
<1> DEFINE q == p \div BLOCK_SIZE
           r == p % BLOCK_SIZE
           len == Len(Blocks[f])
<1>1. q \in Int /\ r \in 0 .. BLOCK_SIZE - 1 /\ p = BLOCK_SIZE * q + r BY Sizes, DivMod
<1>2. /\ len \in Nat /\ len < BLOCK_SIZE /\ FileSize[f] <= len * BLOCK_SIZE
      /\ FileSize[f] \in Nat /\ DOMAIN Blocks[f] = 1 .. len
  BY DiskAssumption
<1> HIDE DEF q, r, len
<1>3. q >= 0
  <2> SUFFICES ASSUME q <= -1 PROVE FALSE BY <1>1
  <2>1. BLOCK_SIZE * q <= 0 - BLOCK_SIZE BY <1>1, Sizes
  <2> QED BY <1>1, <2>1, Sizes
<1>4. q < len
  <2> SUFFICES ASSUME q >= len PROVE FALSE BY <1>1, <1>2
  <2>1. BLOCK_SIZE * q >= BLOCK_SIZE * len BY <1>1, <1>2, Sizes
  <2> QED BY <1>1, <1>2, <2>1, Sizes
<1>5. q + 1 \in DOMAIN Blocks[f] /\ q + 1 \in 1 .. BLOCK_SIZE - 1 BY <1>1, <1>2, <1>3, <1>4, Sizes
<1>6. Blocks[f][q + 1] \in Nat /\ Blocks[f][q + 1] <= Max(UsedBlocks) BY <1>5, LastBlock
<1> QED BY <1>1, <1>5, <1>6 DEF q, r

\* Where the data begins: after the tables.
DataStart == BLOCK_SIZE * (NInodes + 1)

LEMMA DataPlace ==
    ASSUME NEW k \in Nat, NEW o \in 0 .. BLOCK_SIZE - 1
    PROVE  /\ DataAt(k, o) = BLOCK_SIZE * (NInodes + 1 + k) + o
           /\ DataAt(k, o) \in Nat /\ DataAt(k, o) >= DataStart
           /\ DataStart \in Nat
           /\ DataAt(k, o) \div BLOCK_SIZE = NInodes + 1 + k
           /\ DataAt(k, o) % BLOCK_SIZE = o
<1>1. DataAt(k, o) = BLOCK_SIZE * (NInodes + 1 + k) + o BY Sizes DEF DataAt
<1>2. BLOCK_SIZE * (NInodes + 1 + k) = DataStart + BLOCK_SIZE * k BY Sizes DEF DataStart
<1>3. DataStart \in Nat /\ BLOCK_SIZE * k \in Nat BY Sizes DEF DataStart
<1> DEFINE q == NInodes + 1 + k
<1>4. q \in Int BY Sizes
<1> HIDE DEF q
<1>5. (BLOCK_SIZE * q + o) \div BLOCK_SIZE = q /\ (BLOCK_SIZE * q + o) % BLOCK_SIZE = o
  BY <1>4, Sizes, QuotRem
<1>6. DataAt(k, o) = BLOCK_SIZE * q + o BY <1>1 DEF q
<1>7. DataAt(k, o) \div BLOCK_SIZE = q /\ DataAt(k, o) % BLOCK_SIZE = o BY <1>5, <1>6
<1> QED BY <1>1, <1>2, <1>3, <1>7 DEF q

LEMMA TablePlace ==
    ASSUME NEW f \in Files, NEW k \in 0 .. BLOCK_SIZE - 1
    PROVE  /\ TableAt(f, k) = BLOCK_SIZE * (f + 1) + k
           /\ TableAt(f, k) \in Nat /\ TableAt(f, k) < DataStart /\ TableAt(f, k) >= BLOCK_SIZE
           /\ TableAt(f, k) \div BLOCK_SIZE = f + 1
           /\ TableAt(f, k) % BLOCK_SIZE = k
<1>1. f \in Nat /\ f + 1 <= NInodes BY Sizes
<1>2. TableAt(f, k) = BLOCK_SIZE * (f + 1) + k BY <1>1, Sizes DEF TableAt
<1>3. BLOCK_SIZE * (f + 1) <= BLOCK_SIZE * NInodes BY <1>1, Sizes
<1>4. DataStart = BLOCK_SIZE * NInodes + BLOCK_SIZE BY Sizes DEF DataStart
<1>5. BLOCK_SIZE * (f + 1) >= BLOCK_SIZE BY <1>1, Sizes
<1> DEFINE q == f + 1
<1>6. q \in Int BY <1>1
<1> HIDE DEF q
<1>7. (BLOCK_SIZE * q + k) \div BLOCK_SIZE = q /\ (BLOCK_SIZE * q + k) % BLOCK_SIZE = k
  BY <1>6, Sizes, QuotRem
<1>8. TableAt(f, k) = BLOCK_SIZE * q + k BY <1>2 DEF q
<1>9. TableAt(f, k) \div BLOCK_SIZE = q /\ TableAt(f, k) % BLOCK_SIZE = k BY <1>7, <1>8
<1>10. BLOCK_SIZE * (f + 1) \in Nat /\ BLOCK_SIZE * NInodes \in Nat BY <1>1, Sizes
<1>11. TableAt(f, k) < DataStart /\ TableAt(f, k) >= BLOCK_SIZE /\ TableAt(f, k) \in Nat
  BY <1>2, <1>3, <1>4, <1>5, <1>10, Sizes
<1> QED BY <1>2, <1>9, <1>11 DEF q

LEMMA DiskEnds ==
    /\ DiskEnd = BLOCK_SIZE * (NInodes + 1 + Max(UsedBlocks) + 1) - 1
    /\ DiskEnd \in Nat
    /\ DataStart <= DiskEnd
<1> DEFINE top == Max(UsedBlocks)
<1>1. top \in Nat BY LastBlock
<1>2. DiskEnd = DataAt(top + 1, 0) - 1 BY DEF DiskEnd, UsedBlocks
<1> HIDE DEF top
<1>3. DiskEnd = BLOCK_SIZE * (NInodes + 1 + top + 1) - 1 BY <1>1, <1>2, Sizes DEF DataAt
<1>4. BLOCK_SIZE * (NInodes + 1 + top + 1) = DataStart + BLOCK_SIZE * top + BLOCK_SIZE
  BY <1>1, Sizes DEF DataStart
<1>5. DataStart \in Nat /\ BLOCK_SIZE * top \in Nat BY <1>1, Sizes DEF DataStart
<1> QED BY <1>3, <1>4, <1>5, Sizes DEF top

\* The bytes of the files are on the disk, after the tables, each at a place of its own.
LEMMA BytePlace ==
    ASSUME NEW f \in Files, NEW p \in Nat, p < FileSize[f]
    PROVE  /\ ByteAt(f, p) \in Nat
           /\ ByteAt(f, p) \in 0 .. DiskEnd
           /\ ByteAt(f, p) >= DataStart
           /\ ByteAt(f, p) % BLOCK_SIZE = p % BLOCK_SIZE
           /\ ByteAt(f, p) \div BLOCK_SIZE = NInodes + 1 + Blocks[f][p \div BLOCK_SIZE + 1]
<1> DEFINE k == Blocks[f][p \div BLOCK_SIZE + 1]
           o == p % BLOCK_SIZE
           top == Max(UsedBlocks)
<1>1. k \in Nat /\ k <= top /\ o \in 0 .. BLOCK_SIZE - 1 BY InFile
<1>2. top \in Nat BY LastBlock
<1>3. ByteAt(f, p) = DataAt(k, o) BY DEF ByteAt
<1>4. DiskEnd = BLOCK_SIZE * (NInodes + 1 + top + 1) - 1 BY DiskEnds
<1> HIDE DEF k, o, top
<1>5. /\ DataAt(k, o) = BLOCK_SIZE * (NInodes + 1 + k) + o
      /\ DataAt(k, o) \in Nat /\ DataAt(k, o) >= DataStart
      /\ DataAt(k, o) \div BLOCK_SIZE = NInodes + 1 + k /\ DataAt(k, o) % BLOCK_SIZE = o
  BY <1>1, DataPlace
<1>6. BLOCK_SIZE * (NInodes + 1 + k) <= BLOCK_SIZE * (NInodes + 1 + top)
  <2>1. BLOCK_SIZE * (top - k) >= 0 BY <1>1, <1>2, Sizes
  <2> QED BY <1>1, <1>2, <2>1, Sizes
<1>7. BLOCK_SIZE * (NInodes + 1 + top + 1) = BLOCK_SIZE * (NInodes + 1 + top) + BLOCK_SIZE
  BY <1>2, Sizes
<1>8. BLOCK_SIZE * (NInodes + 1 + k) \in Nat /\ BLOCK_SIZE * (NInodes + 1 + top) \in Nat
  BY <1>1, <1>2, Sizes
<1>9. DataAt(k, o) <= DiskEnd BY <1>1, <1>4, <1>5, <1>6, <1>7, <1>8, Sizes
<1> QED BY <1>3, <1>5, <1>9, DiskEnds DEF k, o

LEMMA BytesApart ==
    ASSUME NEW f \in Files, NEW p \in Nat, p < FileSize[f],
           NEW g \in Files, NEW q \in Nat, q < FileSize[g],
           ByteAt(f, p) = ByteAt(g, q)
    PROVE  f = g /\ p = q
<1>1. /\ p % BLOCK_SIZE = q % BLOCK_SIZE
      /\ NInodes + 1 + Blocks[f][p \div BLOCK_SIZE + 1]
            = NInodes + 1 + Blocks[g][q \div BLOCK_SIZE + 1]
  BY BytePlace
<1>2. /\ p \div BLOCK_SIZE + 1 \in DOMAIN Blocks[f] /\ Blocks[f][p \div BLOCK_SIZE + 1] \in Nat
      /\ p = BLOCK_SIZE * (p \div BLOCK_SIZE) + (p % BLOCK_SIZE)
  BY InFile
<1>3. /\ q \div BLOCK_SIZE + 1 \in DOMAIN Blocks[g] /\ Blocks[g][q \div BLOCK_SIZE + 1] \in Nat
      /\ q = BLOCK_SIZE * (q \div BLOCK_SIZE) + (q % BLOCK_SIZE)
  BY InFile
<1>4. Blocks[f][p \div BLOCK_SIZE + 1] = Blocks[g][q \div BLOCK_SIZE + 1] BY <1>1, <1>2, <1>3, Sizes
<1>5. f = g /\ p \div BLOCK_SIZE + 1 = q \div BLOCK_SIZE + 1
  <2> DEFINE i == p \div BLOCK_SIZE + 1
             j == q \div BLOCK_SIZE + 1
  <2>1. i \in DOMAIN Blocks[f] /\ j \in DOMAIN Blocks[g] /\ Blocks[f][i] = Blocks[g][j]
    BY <1>2, <1>3, <1>4
  <2> HIDE DEF i, j
  <2>2. f = g /\ i = j BY SMTT(30), <2>1, DiskAssumption
  <2> QED BY <2>2 DEF i, j
<1>6. p \div BLOCK_SIZE \in Int /\ q \div BLOCK_SIZE \in Int BY Sizes, DivMod
<1>7. p \div BLOCK_SIZE = q \div BLOCK_SIZE BY <1>5, <1>6
<1> QED BY <1>1, <1>2, <1>3, <1>5, <1>7

\* Within a block the bytes follow each other.
LEMMA BytesFollow ==
    ASSUME NEW f \in Files, NEW p \in Nat, NEW j \in Nat,
           p + j < FileSize[f], (p % BLOCK_SIZE) + j < BLOCK_SIZE
    PROVE  ByteAt(f, p + j) = ByteAt(f, p) + j
<1> DEFINE q == p \div BLOCK_SIZE
           r == p % BLOCK_SIZE
<1>1. q \in Int /\ r \in 0 .. BLOCK_SIZE - 1 /\ p = BLOCK_SIZE * q + r BY Sizes, DivMod
<1> HIDE DEF q, r
<1>2. r + j \in 0 .. BLOCK_SIZE - 1 BY <1>1, Sizes DEF r
<1>3. p + j = BLOCK_SIZE * q + (r + j) BY <1>1, Sizes
<1>4. (p + j) \div BLOCK_SIZE = q /\ (p + j) % BLOCK_SIZE = r + j
  <2> DEFINE s == r + j
             y == p + j
  <2>1. s \in 0 .. BLOCK_SIZE - 1 /\ y = BLOCK_SIZE * q + s BY <1>2, <1>3
  <2> HIDE DEF s, y
  <2>2. (BLOCK_SIZE * q + s) \div BLOCK_SIZE = q /\ (BLOCK_SIZE * q + s) % BLOCK_SIZE = s
    BY <1>1, <2>1, Sizes, QuotRem
  <2>3. y \div BLOCK_SIZE = q /\ y % BLOCK_SIZE = s BY <2>1, <2>2
  <2> QED BY <2>3 DEF s, y
<1>5. p < FileSize[f] BY DiskAssumption
<1>6. Blocks[f][q + 1] \in Nat BY <1>5, InFile DEF q
<1>7. ByteAt(f, p + j) = DataAt(Blocks[f][q + 1], r + j) BY <1>4 DEF ByteAt
<1>8. ByteAt(f, p) = DataAt(Blocks[f][q + 1], r) BY DEF ByteAt, q, r
<1> DEFINE k == Blocks[f][q + 1]
<1>9. k \in Nat BY <1>6
<1> HIDE DEF k
<1>10. DataAt(k, r + j) = DataAt(k, r) + j
  <2>1. (NInodes + 1 + k) * BLOCK_SIZE \in Int BY <1>9, Sizes
  <2> QED BY <1>1, <2>1 DEF DataAt
<1> QED BY <1>7, <1>8, <1>10 DEF k

------------------------------------------------------------------------------
(* The disk at the start *)

\* A table entry's place says which it is.
LEMMA TablesApart ==
    ASSUME NEW f \in Files, NEW j \in 0 .. BLOCK_SIZE - 1,
           NEW g \in Files, NEW k \in 0 .. BLOCK_SIZE - 1,
           TableAt(f, j) = TableAt(g, k)
    PROVE  f = g /\ j = k
<1>1. f \in Int /\ g \in Int BY Sizes
<1>2. f + 1 = g + 1 /\ j = k BY TablePlace
<1> QED BY <1>1, <1>2

\* No file is longer than the disk: its blocks are different ones.
LEMMA FileFits ==
    ASSUME NEW f \in Files
    PROVE  FileSize[f] <= DiskEnd
<1> DEFINE len == Len(Blocks[f])
           top == Max(UsedBlocks)
<1>1. /\ len \in Nat /\ FileSize[f] \in Nat /\ FileSize[f] <= len * BLOCK_SIZE
      /\ DOMAIN Blocks[f] = 1 .. len /\ Blocks[f] \in [1 .. len -> Nat]
  BY DiskAssumption
<1>2. top \in Nat /\ \A i \in 1 .. len : Blocks[f][i] <= top BY <1>1, LastBlock
<1>3. DiskEnd = BLOCK_SIZE * (NInodes + 1 + top + 1) - 1 BY DiskEnds
<1> HIDE DEF len, top
<1>4. len <= top + 1
  <2> SUFFICES ASSUME top + 1 < len PROVE FALSE BY <1>1, <1>2
  <2>1. Blocks[f] \in [1 .. len -> 0 .. top] BY <1>1, <1>2
  <2>2. IsFiniteSet(1 .. len) /\ Cardinality(1 .. len) = len BY <1>1, FS_Interval
  <2>3. IsFiniteSet(0 .. top) /\ Cardinality(0 .. top) = top + 1
    <3>1. /\ IsFiniteSet(0 .. top)
          /\ Cardinality(0 .. top) = IF 0 > top THEN 0 ELSE top - 0 + 1
      BY <1>2, FS_Interval
    <3> QED BY <1>2, <3>1
  <2>4. \E i, j \in 1 .. len : i # j /\ Blocks[f][i] = Blocks[f][j]
    BY ZenonT(30), <2>1, <2>2, <2>3, FS_PigeonHole
  <2> QED BY <1>1, <2>4, DiskAssumption
<1>5. len * BLOCK_SIZE <= BLOCK_SIZE * (top + 1)
  <2>1. BLOCK_SIZE * (top + 1 - len) >= 0 BY <1>1, <1>2, <1>4, Sizes
  <2> QED BY <1>1, <1>2, <2>1, Sizes
<1>6. BLOCK_SIZE * (NInodes + 1 + top + 1)
        = BLOCK_SIZE * NInodes + BLOCK_SIZE + BLOCK_SIZE * (top + 1)
  BY <1>2, Sizes
<1>7. BLOCK_SIZE * NInodes \in Nat /\ BLOCK_SIZE * (top + 1) \in Nat /\ len * BLOCK_SIZE \in Nat
  BY <1>1, <1>2, Sizes
<1> QED BY SMTT(30), <1>1, <1>3, <1>5, <1>6, <1>7, Sizes

\* It holds the tables and the files, and block 0, which describes it.
LEMMA InitDiskOK ==
    /\ InitDisk \in [0 .. DiskEnd -> Nat]
    /\ \A f \in Files : /\ InitDisk[TableAt(f, 0)] = FileSize[f]
                        /\ \A k \in DOMAIN Blocks[f] : InitDisk[TableAt(f, k)] = Blocks[f][k]
                        /\ \A p \in 0 .. FileSize[f] - 1 : InitDisk[ByteAt(f, p)] = Fresh(f, p)
    /\ \A x \in 0 .. BLOCK_SIZE - 1 : x <= DiskEnd => InitDisk[x] = 0
<1> DEFINE Ent(x) == {f \in Files : x = TableAt(f, 0)}
           Tab(x) == {fk \in Files \X (1 .. BLOCK_SIZE - 1) :
                        fk[2] \in DOMAIN Blocks[fk[1]] /\ x = TableAt(fk[1], fk[2])}
           Byt(x) == {fp \in Files \X (0 .. DiskEnd) :
                        fp[2] < FileSize[fp[1]] /\ x = ByteAt(fp[1], fp[2])}
           val(x) == IF Ent(x) # {} THEN FileSize[CHOOSE f \in Ent(x) : TRUE]
                     ELSE IF Tab(x) # {} THEN LET fk == CHOOSE v \in Tab(x) : TRUE IN Blocks[fk[1]][fk[2]]
                     ELSE IF Byt(x) # {} THEN LET fp == CHOOSE v \in Byt(x) : TRUE IN Fresh(fp[1], fp[2])
                     ELSE 0
<1>1. InitDisk = [x \in 0 .. DiskEnd |-> val(x)] BY DEF InitDisk
<1>2. \A f \in Files : /\ FileSize[f] \in Nat /\ f \in Nat
                       /\ DOMAIN Blocks[f] \subseteq 1 .. BLOCK_SIZE - 1
                       /\ \A k \in DOMAIN Blocks[f] : Blocks[f][k] \in Nat
  BY SMTT(30), DiskAssumption, Sizes
<1>3. \A x : \A f \in Ent(x) : f \in Files /\ x = TableAt(f, 0) /\ 0 \in 0 .. BLOCK_SIZE - 1
  BY Sizes
<1>4. ASSUME NEW x, NEW v \in Tab(x)
      PROVE  /\ v[1] \in Files /\ v[2] \in DOMAIN Blocks[v[1]]
             /\ v[2] \in 1 .. BLOCK_SIZE - 1 /\ v[2] \in 0 .. BLOCK_SIZE - 1
             /\ x = TableAt(v[1], v[2])
  BY <1>4, Sizes
<1>5. ASSUME NEW x, NEW v \in Byt(x)
      PROVE  /\ v[1] \in Files /\ v[2] \in Nat /\ v[2] < FileSize[v[1]]
             /\ x = ByteAt(v[1], v[2])
  BY <1>5
<1>6. ASSUME NEW x
      PROVE  \/ Ent(x) # {} /\ \E f \in Ent(x) : val(x) = FileSize[f]
             \/ Ent(x) = {} /\ \E v \in Tab(x) : val(x) = Blocks[v[1]][v[2]]
             \/ Ent(x) = {} /\ Tab(x) = {} /\ \E v \in Byt(x) : val(x) = Fresh(v[1], v[2])
             \/ Ent(x) = {} /\ Tab(x) = {} /\ Byt(x) = {} /\ val(x) = 0
  <2> DEFINE e == CHOOSE f \in Ent(x) : TRUE
             u == CHOOSE v \in Tab(x) : TRUE
             w == CHOOSE v \in Byt(x) : TRUE
  <2>1. val(x) = IF Ent(x) # {} THEN FileSize[e] ELSE IF Tab(x) # {} THEN Blocks[u[1]][u[2]]
                 ELSE IF Byt(x) # {} THEN Fresh(w[1], w[2]) ELSE 0
    OBVIOUS
  <2> HIDE DEF val, Ent, Tab, Byt
  <2>2. /\ Ent(x) # {} => e \in Ent(x)
        /\ Tab(x) # {} => u \in Tab(x)
        /\ Byt(x) # {} => w \in Byt(x)
    OBVIOUS
  <2> HIDE DEF e, u, w
  <2> QED BY <2>1, <2>2
<1>13. \A f \in Files : f \in Ent(TableAt(f, 0)) OBVIOUS
<1>14. ASSUME NEW f \in Files, NEW k \in DOMAIN Blocks[f] PROVE <<f, k>> \in Tab(TableAt(f, k))
  BY <1>2
<1>15. ASSUME NEW f \in Files, NEW p \in 0 .. FileSize[f] - 1
       PROVE  <<f, p>> \in Byt(ByteAt(f, p)) /\ p \in Nat /\ p < FileSize[f]
  <2>1. p \in Nat /\ p < FileSize[f] BY <1>2
  <2>2. p \in 0 .. DiskEnd BY <1>2, <2>1, FileFits, DiskEnds
  <2> QED BY <2>1, <2>2
<1> HIDE DEF val, Ent, Tab, Byt
<1>16. ASSUME NEW f \in Files, NEW k \in 0 .. BLOCK_SIZE - 1,
              NEW g \in Files, NEW p \in Nat, p < FileSize[g], TableAt(f, k) = ByteAt(g, p)
       PROVE  FALSE
  <2>1. TableAt(f, k) \in Nat /\ TableAt(f, k) < DataStart BY TablePlace
  <2>2. ByteAt(g, p) \in Nat /\ ByteAt(g, p) >= DataStart BY <1>16, BytePlace
  <2>3. DataStart \in Nat BY Sizes DEF DataStart
  <2> QED BY <1>16, <2>1, <2>2, <2>3
<1>17. ASSUME NEW f \in Files PROVE val(TableAt(f, 0)) = FileSize[f]
  <2>1. PICK g \in Ent(TableAt(f, 0)) : val(TableAt(f, 0)) = FileSize[g] BY <1>6, <1>13
  <2>2. g \in Files /\ TableAt(f, 0) = TableAt(g, 0) /\ 0 \in 0 .. BLOCK_SIZE - 1 BY <1>3
  <2>3. f = g BY <2>2, TablesApart
  <2> QED BY <2>1, <2>3
<1>18. ASSUME NEW f \in Files, NEW k \in DOMAIN Blocks[f] PROVE val(TableAt(f, k)) = Blocks[f][k]
  <2>1. k \in 0 .. BLOCK_SIZE - 1 /\ k \in 1 .. BLOCK_SIZE - 1 BY <1>2, Sizes
  <2>2. Ent(TableAt(f, k)) = {}
    <3> SUFFICES ASSUME NEW g \in Ent(TableAt(f, k)) PROVE FALSE OBVIOUS
    <3>1. g \in Files /\ TableAt(f, k) = TableAt(g, 0) /\ 0 \in 0 .. BLOCK_SIZE - 1 BY <1>3
    <3>2. k = 0 BY <2>1, <3>1, TablesApart
    <3> QED BY <2>1, <3>2
  <2>3. PICK v \in Tab(TableAt(f, k)) : val(TableAt(f, k)) = Blocks[v[1]][v[2]]
    BY <1>6, <1>14, <2>2
  <2>4. v[1] \in Files /\ v[2] \in 0 .. BLOCK_SIZE - 1 /\ TableAt(f, k) = TableAt(v[1], v[2])
    BY <1>4
  <2>5. f = v[1] /\ k = v[2] BY <2>1, <2>4, TablesApart
  <2> QED BY <2>3, <2>5
<1>19. ASSUME NEW f \in Files, NEW p \in 0 .. FileSize[f] - 1
       PROVE  val(ByteAt(f, p)) = Fresh(f, p)
  <2>1. p \in Nat /\ p < FileSize[f] BY <1>15
  <2>2. Ent(ByteAt(f, p)) = {}
    <3> SUFFICES ASSUME NEW g \in Ent(ByteAt(f, p)) PROVE FALSE OBVIOUS
    <3>1. g \in Files /\ TableAt(g, 0) = ByteAt(f, p) /\ 0 \in 0 .. BLOCK_SIZE - 1 BY <1>3
    <3> QED BY <1>16, <2>1, <3>1
  <2>3. Tab(ByteAt(f, p)) = {}
    <3> SUFFICES ASSUME NEW v \in Tab(ByteAt(f, p)) PROVE FALSE OBVIOUS
    <3>1. v[1] \in Files /\ v[2] \in 0 .. BLOCK_SIZE - 1 /\ TableAt(v[1], v[2]) = ByteAt(f, p)
      BY <1>4
    <3> QED BY <1>16, <2>1, <3>1
  <2>4. PICK v \in Byt(ByteAt(f, p)) : val(ByteAt(f, p)) = Fresh(v[1], v[2])
    BY <1>6, <1>15, <2>2, <2>3
  <2>5. v[1] \in Files /\ v[2] \in Nat /\ v[2] < FileSize[v[1]] /\ ByteAt(f, p) = ByteAt(v[1], v[2])
    BY <1>5
  <2>6. f = v[1] /\ p = v[2] BY <2>1, <2>5, BytesApart
  <2> QED BY <2>4, <2>6
<1>7. ASSUME NEW x \in 0 .. BLOCK_SIZE - 1 PROVE val(x) = 0
  <2>1. Ent(x) = {}
    <3> SUFFICES ASSUME NEW g \in Ent(x) PROVE FALSE OBVIOUS
    <3>1. g \in Files /\ x = TableAt(g, 0) /\ 0 \in 0 .. BLOCK_SIZE - 1 BY <1>3
    <3>2. x \in Int /\ x >= BLOCK_SIZE BY <3>1, TablePlace
    <3> QED BY <3>2, Sizes
  <2>2. Tab(x) = {}
    <3> SUFFICES ASSUME NEW v \in Tab(x) PROVE FALSE OBVIOUS
    <3>1. v[1] \in Files /\ v[2] \in 0 .. BLOCK_SIZE - 1 /\ x = TableAt(v[1], v[2]) BY <1>4
    <3>2. x \in Int /\ x >= BLOCK_SIZE BY <3>1, TablePlace
    <3> QED BY <3>2, Sizes
  <2>3. Byt(x) = {}
    <3> SUFFICES ASSUME NEW v \in Byt(x) PROVE FALSE OBVIOUS
    <3>1. v[1] \in Files /\ v[2] \in Nat /\ v[2] < FileSize[v[1]] /\ x = ByteAt(v[1], v[2])
      BY <1>5
    <3>2. x >= DataStart /\ x \in Int BY <3>1, BytePlace
    <3>3. DataStart >= BLOCK_SIZE /\ DataStart \in Int
      <4>1. DataStart = BLOCK_SIZE * NInodes + BLOCK_SIZE /\ BLOCK_SIZE * NInodes \in Nat
        BY Sizes DEF DataStart
      <4> QED BY <4>1, Sizes
    <3> QED BY <3>2, <3>3, Sizes
  <2> QED BY <1>6, <2>1, <2>2, <2>3
<1>8. ASSUME NEW x PROVE val(x) \in Nat
  <2>1. CASE \E f \in Ent(x) : val(x) = FileSize[f] BY <1>2, <1>3, <2>1
  <2>2. CASE \E v \in Tab(x) : val(x) = Blocks[v[1]][v[2]] BY <1>2, <1>4, <2>2
  <2>3. CASE \E v \in Byt(x) : val(x) = Fresh(v[1], v[2])
    <3>1. PICK v \in Byt(x) : val(x) = Fresh(v[1], v[2]) BY <2>3
    <3>2. v[1] \in Nat /\ v[2] \in Nat BY <1>2, <1>5
    <3> QED BY <3>1, <3>2 DEF Fresh
  <2> QED BY <1>6, <2>1, <2>2, <2>3
<1>9. InitDisk \in [0 .. DiskEnd -> Nat] BY <1>1, <1>8
<1>10. \A x \in 0 .. DiskEnd : InitDisk[x] = val(x) BY <1>1
<1>11. ASSUME NEW f \in Files
       PROVE  /\ InitDisk[TableAt(f, 0)] = FileSize[f]
              /\ \A k \in DOMAIN Blocks[f] : InitDisk[TableAt(f, k)] = Blocks[f][k]
              /\ \A p \in 0 .. FileSize[f] - 1 : InitDisk[ByteAt(f, p)] = Fresh(f, p)
  <2>1. \A k \in 0 .. BLOCK_SIZE - 1 : TableAt(f, k) \in 0 .. DiskEnd
    <3> TAKE k \in 0 .. BLOCK_SIZE - 1
    <3>1. TableAt(f, k) \in Nat /\ TableAt(f, k) < DataStart BY TablePlace
    <3>2. DataStart \in Int BY Sizes DEF DataStart
    <3> QED BY <3>1, <3>2, DiskEnds
  <2>2. InitDisk[TableAt(f, 0)] = FileSize[f]
    <3>1. TableAt(f, 0) \in 0 .. DiskEnd BY <2>1, Sizes
    <3> QED BY <1>10, <1>17, <3>1
  <2>3. ASSUME NEW k \in DOMAIN Blocks[f] PROVE InitDisk[TableAt(f, k)] = Blocks[f][k]
    <3>1. k \in 0 .. BLOCK_SIZE - 1 BY <1>2, Sizes
    <3>2. TableAt(f, k) \in 0 .. DiskEnd BY <2>1, <3>1
    <3> QED BY <1>10, <1>18, <3>2
  <2>4. ASSUME NEW p \in 0 .. FileSize[f] - 1 PROVE InitDisk[ByteAt(f, p)] = Fresh(f, p)
    <3>1. p \in Nat /\ p < FileSize[f] BY <1>15
    <3>2. ByteAt(f, p) \in 0 .. DiskEnd BY <3>1, BytePlace
    <3> QED BY <1>10, <1>19, <3>2
  <2> QED BY <2>2, <2>3, <2>4
<1>12. ASSUME NEW x \in 0 .. BLOCK_SIZE - 1, x <= DiskEnd PROVE InitDisk[x] = 0
  <2>1. x \in 0 .. DiskEnd BY <1>12, Sizes, DiskEnds
  <2> QED BY <1>7, <1>10, <2>1
<1> QED BY <1>9, <1>11, <1>12

------------------------------------------------------------------------------
(* The holder of the lock *)

\* Who is under the lock is there alone, with a file of its own, and what it asked
\* of the device is answered when it runs.
LEMMA Holder ==
    ASSUME DataInv, NEW t \in Threads, pc[t] \in Holding
    PROVE  /\ lk_tid = t
           /\ \A u \in Threads : u # t => pc[u] \in {"user", "acquire"}
           /\ op[t] \in {"open", "read", "write"}
           /\ handle[t] \in Slots
           /\ cpu = t \/ t \notin dev_wait => inflight = NoReq
<1> USE DEF DataInv, DataOK
<1>1. lk_tid = t /\ \A u \in Threads : u # t => pc[u] \notin Holding BY DEF IInv, LockHeld
<1>2. pc \in [Threads -> Holding \cup {"user", "acquire"}] /\ handle \in [Threads -> Slots \cup {NoSlot}]
  BY DEF IInv, ControlTyped
<1>3. op[t] \in {"open", "read", "write"} /\ handle[t] # NoSlot
  <2>1. pc[t] # "user" BY DEF Holding
  <2> QED BY <2>1 DEF CallsOK, DataTyped
<1>4. ASSUME cpu = t \/ t \notin dev_wait PROVE inflight = NoReq
  <2>1. dev_wait = {} BY <1>1, <1>4 DEF IInv, OneRequest
  <2> QED BY <2>1 DEF IInv, OneRequest
<1> QED BY <1>1, <1>2, <1>3, <1>4

\* No other thread has its descriptor.
LEMMA OwnSlot ==
    ASSUME DataInv, NEW t \in Threads, handle[t] # NoSlot
    PROVE  /\ handle[t] \in Slots
           /\ \A u \in Threads : u # t => handle[u] # handle[t]
           /\ File(t) \in Files /\ Pos(t) \in Nat
           /\ FileSize[File(t)] \in Nat
<1>1. handle[t] \in Slots BY DEF DataInv, IInv, ControlTyped
<1>2. \A u \in Threads : u # t => handle[u] # handle[t] BY DEF DataInv, Plain, IInv, SlotsKept
<1>3. File(t) \in Files /\ Pos(t) \in Nat BY <1>1 DEF DataInv, DataOK, DataTyped, File, Pos
<1> QED BY <1>1, <1>2, <1>3, DiskAssumption

\* Where a read or a write is, in its file and on the disk.
LEMMA AtData ==
    ASSUME DataInv, NEW t \in Threads, pc[t] \in {"xfer", "xfer_ret"}
    PROVE  /\ op[t] \in {"read", "write"}
           /\ n[t] \in Nat /\ chunk[t] \in Nat /\ m[t] \in Nat
           /\ 0 < m[t] /\ m[t] <= chunk[t] /\ chunk[t] <= n[t]
           /\ Moved(t) \in Nat /\ Moved(t) + m[t] = chunk[t]
           /\ Pos(t) + n[t] <= FileSize[File(t)]
           /\ \A j \in 0 .. m[t] - 1 :
                 /\ Pos(t) + Moved(t) + j \in 0 .. FileSize[File(t)] - 1
                 /\ ByteAt(File(t), Pos(t) + Moved(t) + j) = devpos + j
                 /\ devpos + j \in 0 .. DiskEnd
                 /\ devpos + j >= DataStart
<1>1. pc[t] \in Holding BY DEF Holding
<1>2. op[t] \in {"read", "write"} BY <1>1, Holder DEF DataInv, DataOK, CallsOK
<1>3. handle[t] # NoSlot BY <1>2 DEF DataInv, DataOK, CallsOK
<1>4. File(t) \in Files /\ Pos(t) \in Nat /\ FileSize[File(t)] \in Nat BY <1>3, OwnSlot
<1>5. n[t] \in Nat /\ chunk[t] \in Nat /\ m[t] \in Nat BY DEF DataInv, DataOK, DataTyped
<1>6. /\ 0 < m[t] /\ m[t] <= chunk[t] /\ chunk[t] <= n[t]
      /\ (Pos(t) % BLOCK_SIZE) + chunk[t] <= BLOCK_SIZE
  BY <1>2 DEF DataInv, DataOK, WithinBlock
<1>7. Pos(t) + n[t] <= FileSize[File(t)] BY <1>2, <1>3 DEF DataInv, DataOK, WithinFile
<1>8. devpos = ByteAt(File(t), Pos(t)) + Moved(t) BY DEF DataInv, DataOK, DeviceAt
<1>9. Moved(t) \in Nat /\ Moved(t) + m[t] = chunk[t] BY <1>5, <1>6 DEF Moved
<1>10. ASSUME NEW j \in 0 .. m[t] - 1
       PROVE  /\ Pos(t) + Moved(t) + j \in 0 .. FileSize[File(t)] - 1
              /\ ByteAt(File(t), Pos(t) + Moved(t) + j) = devpos + j
              /\ devpos + j \in 0 .. DiskEnd
              /\ devpos + j >= DataStart
  <2> DEFINE f == File(t)
             p == Pos(t)
             o == p % BLOCK_SIZE
             i == Moved(t) + j
             x == ByteAt(f, p)
  <2>1. o \in 0 .. BLOCK_SIZE - 1 BY <1>4, Sizes, DivMod
  <2>2. o + chunk[t] <= BLOCK_SIZE BY <1>6
  <2> HIDE DEF o
  <2>3. i \in Nat /\ i < chunk[t] BY <1>5, <1>6, <1>9
  <2>5. devpos = x + Moved(t) BY <1>8
  <2> HIDE DEF i, x
  <2>12. chunk[t] <= n[t] /\ BLOCK_SIZE \in Nat BY <1>6, Sizes
  <2>4. p + i < FileSize[f] /\ o + i < BLOCK_SIZE
    BY ONLY <1>4, <1>5, <1>7, <2>1, <2>2, <2>3, <2>12
  <2>6. ByteAt(f, p + i) = x + i BY <1>4, <2>3, <2>4, BytesFollow DEF o, x
  <2>7. p + i \in Nat BY <1>4, <2>3
  <2>8. ByteAt(f, p + i) \in 0 .. DiskEnd /\ ByteAt(f, p + i) >= DataStart
    BY <1>4, <2>4, <2>7, BytePlace
  <2>9. x \in Nat
    <3>1. p < FileSize[f] BY <1>4, <2>3, <2>4
    <3> QED BY <1>4, <3>1, BytePlace DEF x
  <2>10. x + i = devpos + j BY <1>9, <2>3, <2>5, <2>9 DEF i
  <2>11. p + i = Pos(t) + Moved(t) + j BY <1>4, <1>9 DEF i
  <2> QED BY <1>4, <2>4, <2>6, <2>7, <2>8, <2>10, <2>11
<1> QED BY <1>2, <1>5, <1>6, <1>7, <1>9, <1>10

\* A write is at a boundary of the device's blocks.
LEMMA AtBoundary ==
    ASSUME DataInv, NEW t \in Threads, pc[t] \in {"xfer", "xfer_ret"}, op[t] = "write"
    PROVE  devpos % blksz = 0 /\ m[t] >= blksz
<1>1. /\ n[t] \in Nat /\ chunk[t] \in Nat /\ m[t] \in Nat /\ 0 < m[t] /\ Moved(t) \in Nat
      /\ Pos(t) + n[t] <= FileSize[File(t)] /\ chunk[t] <= n[t] /\ m[t] <= chunk[t]
  BY AtData
<1>2. Pos(t) % blksz = 0 /\ chunk[t] % blksz = 0 /\ m[t] % blksz = 0 BY DEF DataInv, DataOK, WholeBlocks
<1>3. m[t] >= blksz BY <1>1, <1>2, Sizes, LeastMultiple
<1>4. handle[t] # NoSlot BY DEF DataInv, DataOK, CallsOK
<1>5. File(t) \in Files /\ Pos(t) \in Nat /\ FileSize[File(t)] \in Nat BY <1>4, OwnSlot
<1>6. Moved(t) % blksz = 0
  <2>1. blksz \in Nat /\ blksz > 0 /\ chunk[t] \in Int /\ m[t] \in Int BY <1>1, Sizes
  <2>2. (chunk[t] - m[t]) % blksz = 0 BY ONLY <1>2, <2>1, MultiplesAdd
  <2> QED BY <2>2 DEF Moved
<1> DEFINE x == ByteAt(File(t), Pos(t))
           q == x \div BLOCK_SIZE
           r == x % BLOCK_SIZE
<1>7. x \in Nat /\ r = Pos(t) % BLOCK_SIZE
  <2>1. Pos(t) < FileSize[File(t)] BY <1>1, <1>5
  <2> QED BY <1>5, <2>1, BytePlace
<1>8. r % blksz = 0 BY <1>2, <1>5, <1>7, OffsetMultiple
<1>9. devpos = x + Moved(t) BY DEF DataInv, DataOK, DeviceAt
<1> HIDE DEF x
<1>10. q \in Int /\ r \in 0 .. BLOCK_SIZE - 1 /\ x = BLOCK_SIZE * q + r BY <1>7, Sizes, DivMod
<1> HIDE DEF q, r
<1> DEFINE y == BLOCK_SIZE * q
<1>16. y % blksz = 0 BY <1>10, BlockMultiple
<1>17. y \in Int /\ x = y + r BY <1>10, Sizes
<1> HIDE DEF y
<1>11. y % blksz = 0 /\ y \in Int /\ x = y + r BY <1>16, <1>17
<1>12. blksz \in Nat /\ blksz > 0 /\ r \in Int /\ Moved(t) \in Int /\ x \in Int BY <1>1, <1>7, <1>10, Sizes
<1>13. (y + r) % blksz = 0 BY ONLY <1>8, <1>11, <1>12, MultiplesAdd
<1>14. x % blksz = 0 BY <1>11, <1>13
<1>15. (x + Moved(t)) % blksz = 0 BY ONLY <1>6, <1>12, <1>14, MultiplesAdd
<1> QED BY <1>3, <1>9, <1>15

\* A round moves something, at most what is left, and a round of a write a whole block.
LEMMA Rounds ==
    ASSUME DataInv, NEW t \in Threads, pc[t] \in {"xfer", "xfer_ret"}
    PROVE  /\ Round(t) \in 1 .. m[t]
           /\ devpos % blksz \in 0 .. blksz - 1
           /\ (devpos % blksz) + Round(t) <= blksz
           /\ op[t] = "write" => Round(t) = blksz
<1> DEFINE o == devpos % blksz
           a == blksz - o
           S == {a, m[t]}
<1>1. m[t] \in Nat /\ 0 < m[t] BY AtData
<1>2. devpos \in Nat BY DEF DataInv, DataOK, DataTyped
<1>3. o \in 0 .. blksz - 1 BY <1>2, Sizes, DivMod
<1>4. op[t] = "write" => o = 0 /\ m[t] >= blksz BY AtBoundary
<1> HIDE DEF o
<1>5. a \in Nat /\ a > 0 BY <1>3, Sizes
<1>6. \E x \in S : \A y \in S : x <= y
  <2>1. CASE a <= m[t] BY <1>1, <1>5, <2>1
  <2>2. CASE m[t] <= a BY <1>1, <1>5, <2>2
  <2> QED BY <1>1, <1>5, <2>1, <2>2
<1>7. Min(S) \in S /\ \A y \in S : Min(S) <= y BY <1>6 DEF Min
<1>8. Round(t) = Min(S) BY DEF Round, o
<1>9. Round(t) \in {a, m[t]} /\ Round(t) <= a /\ Round(t) <= m[t] BY <1>7, <1>8
<1> HIDE DEF S
<1>10. Round(t) \in 1 .. m[t] /\ o + Round(t) <= blksz BY <1>1, <1>3, <1>5, <1>9, Sizes
<1>11. op[t] = "write" => Round(t) = blksz BY <1>1, <1>4, <1>9, Sizes
<1> QED BY <1>3, <1>10, <1>11 DEF o

\* What the buffer has of the disk.
LEMMA FromBuffer ==
    ASSUME NEW k \in Nat, Buffered(k),
           NEW x \in 0 .. DiskEnd, x \div blksz = k
    PROVE  blkbuf[x % blksz] = disk[x]
<1> DEFINE i == x % blksz
<1>1. i \in 0 .. blksz - 1 /\ x = blksz * (x \div blksz) + i BY DiskEnds, Sizes, DivMod
<1> HIDE DEF i
<1>2. x = k * blksz + i BY <1>1, Sizes
<1>3. x <= DiskEnd BY DiskEnds
<1> QED BY <1>1, <1>2, <1>3 DEF Buffered, i

------------------------------------------------------------------------------
(* The invariant at the start, and under the lock *)

LEMMA InitDataOK == Init => DataOK
<1> SUFFICES ASSUME Init PROVE DataOK OBVIOUS
<1> USE DEF Init
<1> DEFINE k == BLOCK_SIZE \div blksz
<1>1. k \in Int /\ k >= 1 /\ BLOCK_SIZE = blksz * k
  <2>1. k \in Int /\ BLOCK_SIZE = blksz * k + (BLOCK_SIZE % blksz) BY Sizes, DivMod
  <2> HIDE DEF k
  <2>2. BLOCK_SIZE = blksz * k BY <2>1, Sizes
  <2>3. CASE k <= 0 BY <2>1, <2>2, <2>3, Sizes
  <2> QED BY <2>1, <2>2, <2>3
<1>2. bufblkno = k - 1 OBVIOUS
<1> HIDE DEF k
<1>3. bufblkno \in Nat BY <1>1, <1>2
<1>4. 0 \in Files /\ \A f \in Files : FileSize[f] \in Nat BY DiskAssumption, Sizes
<1>5. DataTyped BY <1>3, <1>4, InitDiskOK, Sizes DEF DataTyped
<1>6. CallsOK BY DEF CallsOK
<1>7. WithinFile /\ WholeBlocks /\ WithinBlock /\ DeviceAt
  BY DEF WithinFile, WholeBlocks, WithinBlock, DeviceAt
<1>8. TablesOK BY InitDiskOK DEF TablesOK
<1>9. Buffered(bufblkno)
  <2> SUFFICES ASSUME NEW i \in 0 .. blksz - 1, bufblkno * blksz + i <= DiskEnd
               PROVE  blkbuf[i] = disk[bufblkno * blksz + i]
    BY DEF Buffered
  <2> DEFINE x == bufblkno * blksz + i
  <2>1. x \in 0 .. BLOCK_SIZE - 1
    <3> DEFINE a == bufblkno * blksz
    <3>1. a = BLOCK_SIZE - blksz BY ONLY <1>1, <1>2, Sizes
    <3>2. a >= 0 /\ a \in Int BY ONLY <1>3, Sizes
    <3>3. x = a + i OBVIOUS
    <3>4. i \in Nat /\ i < blksz BY ONLY i \in 0 .. blksz - 1, Sizes
    <3> HIDE DEF a, x
    <3> QED BY ONLY <3>1, <3>2, <3>3, <3>4, Sizes
  <2> HIDE DEF x
  <2>2. InitDisk[x] = 0 BY <2>1, InitDiskOK DEF x
  <2> QED BY <2>2 DEF x
<1>10. BufferOK BY <1>9 DEF BufferOK, Fetching, Storing
<1> QED BY <1>5, <1>6, <1>7, <1>8, <1>10 DEF DataOK

LEMMA LoopOK == ASSUME DataInv, NEW t \in Threads, Loop(t) PROVE DataOK'
<1> DEFINE s == handle[t]
           left == BLOCK_SIZE - (file_pos[s] % BLOCK_SIZE)
           k == IF n[t] > left THEN left ELSE n[t]
<1>1. /\ pc[t] = "loop" /\ op[t] # "open" /\ n[t] > 0
      /\ chunk' = [chunk EXCEPT ![t] = k]
      /\ m' = [m EXCEPT ![t] = k]
      /\ devpos' = TableAt(inode_num[s], file_pos[s] \div BLOCK_SIZE + 1)
      /\ pc' = [pc EXCEPT ![t] = "entry"]
      /\ UNCHANGED <<disk, inflight, failed, irq, bufblkno, blkbuf, flags, file_pos, file_size,
                     inode_num, handle, op, n, got>>
  BY DEF Loop, Runs, Goto, devVars, fdVars
<1>2. /\ lk_tid = t /\ \A u \in Threads : u # t => pc[u] \in {"user", "acquire"}
      /\ op[t] \in {"read", "write"} /\ s \in Slots /\ s # NoSlot
  <2>1. pc[t] \in Holding BY <1>1 DEF Holding
  <2> QED BY <1>1, <2>1, Holder, KfsAssumption DEF NoSlot
<1>3. /\ pc \in [Threads -> Holding \cup {"user", "acquire"}]
      /\ DataTyped /\ CallsOK /\ WithinFile /\ WholeBlocks /\ WithinBlock /\ DeviceAt
      /\ BufferOK /\ TablesOK
  BY DEF DataInv, DataOK, IInv, ControlTyped
<1>4. inode_num[s] = File(t) /\ file_pos[s] = Pos(t) BY DEF File, Pos
<1>5. /\ File(t) \in Files /\ Pos(t) \in Nat /\ FileSize[File(t)] \in Nat BY <1>2, OwnSlot
<1>6. n[t] \in Nat /\ Pos(t) + n[t] <= FileSize[File(t)] /\ Pos(t) < FileSize[File(t)]
  BY <1>1, <1>2, <1>3, <1>5 DEF WithinFile, DataTyped
<1>7. left \in 1 .. BLOCK_SIZE /\ (Pos(t) % BLOCK_SIZE) + left = BLOCK_SIZE
  <2>1. Pos(t) % BLOCK_SIZE \in 0 .. BLOCK_SIZE - 1 BY <1>5, Sizes, DivMod
  <2> QED BY <1>4, <2>1, Sizes
<1>8. op[t] = "write" => left % blksz = 0
  <2> SUFFICES ASSUME op[t] = "write" PROVE left % blksz = 0 OBVIOUS
  <2> DEFINE o == Pos(t) % BLOCK_SIZE
  <2>1. Pos(t) % blksz = 0 BY <1>3 DEF WholeBlocks
  <2>2. o % blksz = 0 BY <1>5, <2>1, OffsetMultiple
  <2>3. o \in Int /\ BLOCK_SIZE \in Int /\ blksz \in Nat /\ blksz > 0 /\ BLOCK_SIZE % blksz = 0
    BY <1>5, Sizes, DivMod
  <2>4. left = BLOCK_SIZE - o BY <1>4
  <2> HIDE DEF o, left
  <2>5. (BLOCK_SIZE - o) % blksz = 0 BY ONLY <2>2, <2>3, MultiplesAdd
  <2> QED BY <2>4, <2>5
<1>9. k \in Nat /\ 0 < k /\ k <= n[t] /\ k <= left BY <1>1, <1>6, <1>7
<1>10. op[t] = "write" => k % blksz = 0 BY <1>3, <1>8 DEF WholeBlocks
<1> HIDE DEF k, left
<1>11. DataTyped'
  <2>1. TableAt(File(t), Pos(t) \div BLOCK_SIZE + 1) \in Nat
    <3>1. Pos(t) \div BLOCK_SIZE + 1 \in 0 .. BLOCK_SIZE - 1 BY <1>5, <1>6, InFile
    <3> QED BY <1>5, <3>1, TablePlace
  <2> QED BY <1>1, <1>3, <1>4, <1>9, <2>1 DEF DataTyped
<1>12. CallsOK' BY <1>1, <1>2, <1>3 DEF CallsOK, DataTyped
<1>13. WithinFile' BY <1>1, <1>3 DEF WithinFile, File, Pos
<1>14. WholeBlocks' BY <1>1, <1>3, <1>10 DEF WholeBlocks, Pos, DataTyped
<1>15. WithinBlock'
  <2>1. (Pos(t) % BLOCK_SIZE) + k <= BLOCK_SIZE
    <3>1. Pos(t) % BLOCK_SIZE \in 0 .. BLOCK_SIZE - 1 BY <1>5, Sizes, DivMod
    <3> QED BY <1>7, <1>9, <3>1, Sizes
  <2>2. \A u \in Threads : u # t => pc'[u] \in {"user", "acquire"} BY <1>1, <1>2, <1>3
  <2>3. chunk'[t] = k /\ m'[t] = k /\ n' = n /\ Pos(t)' = Pos(t) BY <1>1, <1>3 DEF DataTyped, Pos
  <2> QED BY <1>9, <2>1, <2>2, <2>3 DEF WithinBlock
<1>16. DeviceAt'
  <2>1. \A u \in Threads : u # t => pc'[u] \in {"user", "acquire"} BY <1>1, <1>2, <1>3
  <2>2. pc'[t] = "entry" /\ op'[t] # "open" BY <1>1, <1>3
  <2>3. chunk'[t] = k /\ m'[t] = k /\ Pos(t)' = Pos(t) /\ File(t)' = File(t)
    BY <1>1, <1>3 DEF DataTyped, Pos, File
  <2>4. devpos' = TableAt(File(t), Pos(t) \div BLOCK_SIZE + 1) BY <1>1, <1>4
  <2>5. TableAt(File(t)', Pos(t)' \div BLOCK_SIZE + 1) = TableAt(File(t), Pos(t) \div BLOCK_SIZE + 1)
    BY <2>3
  <2> QED BY <2>1, <2>2, <2>3, <2>4, <2>5 DEF DeviceAt
<1>17. BufferOK'
  <2>1. \A u \in Threads : ~Fetching(u) /\ ~Storing(u) BY <1>1, <1>2 DEF Fetching, Storing
  <2>2. \A u \in Threads : ~Fetching(u)' /\ ~Storing(u)' BY <1>1, <1>2, <1>3 DEF Fetching, Storing
  <2>3. inflight = NoReq => Buffered(bufblkno) BY <1>3, <2>1 DEF BufferOK
  <2>4. NoReq' = NoReq BY DEF NoReq
  <2>5. inflight' = NoReq' => Buffered(bufblkno)' BY <1>1, <2>3, <2>4 DEF Buffered
  <2> QED BY <2>2, <2>5 DEF BufferOK
<1>18. TablesOK' BY <1>1, <1>3 DEF TablesOK
<1> QED BY <1>11, <1>12, <1>13, <1>14, <1>15, <1>16, <1>17, <1>18 DEF DataOK

\* The parts of the invariant, and where the others are when t is under the lock.
LEMMA Parts ==
    ASSUME DataInv
    PROVE  /\ pc \in [Threads -> Holding \cup {"user", "acquire"}]
           /\ handle \in [Threads -> Slots \cup {NoSlot}]
           /\ flags \in [Slots -> BOOLEAN]
           /\ NoSlot \notin Slots
           /\ DataTyped /\ CallsOK /\ WithinFile /\ WholeBlocks /\ WithinBlock /\ DeviceAt
           /\ BufferOK /\ TablesOK
BY KfsAssumption DEF DataInv, DataOK, IInv, ControlTyped, NoSlot

LEMMA Alone ==
    ASSUME DataInv, NEW t \in Threads, pc[t] \in Holding, NEW l, pc' = [pc EXCEPT ![t] = l]
    PROVE  /\ pc'[t] = l
           /\ \A u \in Threads : u # t =>
                 pc[u] \in {"user", "acquire"} /\ pc'[u] = pc[u]
BY Parts, Holder

\* A step that leaves the disk and the buffer alone, while nothing is fetched or stored.
LEMMA SameBuffer ==
    ASSUME DataInv, UNCHANGED <<disk, inflight, bufblkno, blkbuf>>,
           \A u \in Threads : ~Fetching(u) /\ ~Storing(u),
           \A u \in Threads : ~Fetching(u)' /\ ~Storing(u)'
    PROVE  BufferOK'
<1>1. inflight = NoReq => Buffered(bufblkno) BY Parts DEF BufferOK
<1>2. NoReq' = NoReq BY DEF NoReq
<1>3. inflight' = NoReq' => Buffered(bufblkno)' BY <1>1, <1>2 DEF Buffered
<1> QED BY <1>3 DEF BufferOK

LEMMA SameTables == ASSUME DataInv, UNCHANGED disk PROVE TablesOK'
BY Parts DEF TablesOK

LEMMA LoopOpenOK == ASSUME DataInv, NEW t \in Threads, LoopOpen(t) PROVE DataOK'
<1>1. /\ pc[t] = "loop" /\ op[t] = "open"
      /\ devpos' = TableAt(File(t), 0)
      /\ pc' = [pc EXCEPT ![t] = "entry"]
      /\ UNCHANGED <<disk, inflight, failed, irq, bufblkno, blkbuf, flags, file_pos, file_size,
                     inode_num, handle, op, n, chunk, m, got>>
  BY DEF LoopOpen, Runs, Goto, devVars, fdVars, callVars, File
<1>2. pc[t] \in Holding /\ handle[t] # NoSlot BY <1>1, Parts DEF Holding, CallsOK
<1>3. pc'[t] = "entry" /\ \A u \in Threads : u # t => pc[u] \in {"user", "acquire"} /\ pc'[u] = pc[u]
  BY <1>1, <1>2, Alone
<1>4. DataTyped'
  <2>1. TableAt(File(t), 0) \in Nat BY <1>2, OwnSlot, TablePlace, Sizes
  <2> QED BY <1>1, <2>1, Parts DEF DataTyped
<1>5. CallsOK' BY <1>1, <1>3, Parts DEF CallsOK
<1>6. WithinFile' /\ WholeBlocks' BY <1>1, Parts DEF WithinFile, WholeBlocks, File, Pos
<1>7. WithinBlock' BY <1>1, <1>3 DEF WithinBlock
<1>8. DeviceAt' BY <1>1, <1>3 DEF DeviceAt, File
<1>9. BufferOK' BY <1>1, <1>3, SameBuffer DEF Fetching, Storing
<1>10. TablesOK' BY <1>1, SameTables
<1> QED BY <1>4, <1>5, <1>6, <1>7, <1>8, <1>9, <1>10 DEF DataOK

LEMMA DoneOK == ASSUME DataInv, NEW t \in Threads, Done(t) PROVE DataOK'
<1>1. /\ pc[t] = "loop" /\ op[t] # "open"
      /\ pc' = [pc EXCEPT ![t] = "user"]
      /\ op' = [op EXCEPT ![t] = "none"]
      /\ n' = [n EXCEPT ![t] = 0]
      /\ chunk' = [chunk EXCEPT ![t] = 0]
      /\ m' = [m EXCEPT ![t] = 0]
      /\ got' = [got EXCEPT ![t] = <<>>]
      /\ UNCHANGED <<disk, inflight, failed, irq, devpos, bufblkno, blkbuf, flags, file_pos, file_size,
                     inode_num, handle>>
  BY DEF Done, Runs, Return, Goto, devVars, drvVars, fdVars
<1>2. pc[t] \in Holding /\ handle[t] # NoSlot
  <2>1. pc[t] \in Holding BY <1>1 DEF Holding
  <2> QED BY <2>1, Holder, Parts
<1>3. pc'[t] = "user" /\ \A u \in Threads : u # t => pc[u] \in {"user", "acquire"} /\ pc'[u] = pc[u]
  BY <1>1, <1>2, Alone
<1>4. DataTyped' BY <1>1, Parts DEF DataTyped
<1>5. CallsOK' BY <1>1, <1>3, Parts DEF CallsOK, DataTyped
<1>6. WithinFile'
  <2>1. \A u \in Threads : n'[u] \in Nat /\ n'[u] <= n[u] /\ n[u] \in Nat BY <1>1, Parts DEF DataTyped
  <2>2. \A u \in Threads : op'[u] = "open" <=> op[u] = "open" BY <1>1, Parts DEF DataTyped
  <2>3. \A u \in Threads : handle[u] # NoSlot => Pos(u) \in Nat /\ FileSize[File(u)] \in Nat
    BY OwnSlot
  <2>4. \A u \in Threads : Pos(u)' = Pos(u) /\ File(u)' = File(u) BY <1>1 DEF Pos, File
  <2> QED BY <1>1, <2>1, <2>2, <2>3, <2>4, Parts DEF WithinFile
<1>7. WholeBlocks' BY <1>1, Parts DEF WholeBlocks, Pos, DataTyped
<1>8. WithinBlock' /\ DeviceAt' BY <1>3 DEF WithinBlock, DeviceAt
<1>9. BufferOK' BY <1>1, <1>3, SameBuffer DEF Fetching, Storing
<1>10. TablesOK' BY <1>1, SameTables
<1> QED BY <1>4, <1>5, <1>6, <1>7, <1>8, <1>9, <1>10 DEF DataOK

LEMMA FetchOK == ASSUME DataInv, NEW t \in Threads, Fetch(t) PROVE DataOK'
<1>1. /\ pc[t] = "entry" \/ (pc[t] = "xfer" /\ op[t] = "read")
      /\ inflight' = [type |-> "in", blk |-> devpos \div blksz]
      /\ pc' = [pc EXCEPT ![t] = IF pc[t] = "entry" THEN "entry_ret" ELSE "xfer_ret"]
      /\ UNCHANGED <<disk, failed, devpos, bufblkno, blkbuf, flags, file_pos, file_size,
                     inode_num, handle, op, n, chunk, m, got>>
  BY DEF Fetch, Reading, Runs, Submit, Goto, fdVars, callVars
<1>2. pc[t] \in Holding BY <1>1 DEF Holding
<1>3. /\ pc'[t] = IF pc[t] = "entry" THEN "entry_ret" ELSE "xfer_ret"
      /\ \A u \in Threads : u # t => pc[u] \in {"user", "acquire"} /\ pc'[u] = pc[u]
  BY <1>1, <1>2, Alone
<1>4. DataTyped' BY <1>1, Parts DEF DataTyped
<1>5. CallsOK' BY <1>1, <1>3, Parts DEF CallsOK
<1>6. WithinFile' /\ WholeBlocks' BY <1>1, Parts DEF WithinFile, WholeBlocks, File, Pos
<1>7. WithinBlock'
  <2>1. Pos(t)' = Pos(t) BY <1>1 DEF Pos
  <2> QED BY <1>1, <1>3, <2>1, Parts DEF WithinBlock
<1>8. DeviceAt'
  <2>1. Pos(t)' = Pos(t) /\ File(t)' = File(t) /\ Moved(t)' = Moved(t) BY <1>1 DEF Pos, File, Moved
  <2>2. /\ TableAt(File(t)', Pos(t)' \div BLOCK_SIZE + 1) = TableAt(File(t), Pos(t) \div BLOCK_SIZE + 1)
        /\ ByteAt(File(t)', Pos(t)') = ByteAt(File(t), Pos(t))
        /\ TableAt(File(t)', 0) = TableAt(File(t), 0)
    BY <2>1
  <2> QED BY <1>1, <1>3, <2>1, <2>2, Parts DEF DeviceAt
<1>9. BufferOK'
  <2>1. Fetching(t)' /\ ~Storing(t)' BY <1>1, <1>3 DEF Fetching, Storing
  <2>2. \A u \in Threads : u # t => ~Fetching(u)' /\ ~Storing(u)' BY <1>3 DEF Fetching, Storing
  <2>3. inflight' # NoReq' BY <1>1 DEF NoReq
  <2>4. inflight' = [type |-> "in", blk |-> devpos' \div blksz] BY <1>1
  <2> QED BY <2>1, <2>2, <2>3, <2>4 DEF BufferOK
<1>10. TablesOK' BY <1>1, SameTables
<1> QED BY <1>4, <1>5, <1>6, <1>7, <1>8, <1>9, <1>10 DEF DataOK

LEMMA FetchedOK == ASSUME DataInv, NEW t \in Threads, Fetched(t) PROVE DataOK'
<1>1. /\ pc[t] = "entry_ret" \/ (pc[t] = "xfer_ret" /\ op[t] = "read")
      /\ cpu = t \/ t \notin dev_wait
      /\ bufblkno' = devpos \div blksz
      /\ pc' = [pc EXCEPT ![t] = IF pc[t] = "entry_ret" THEN "entry" ELSE "xfer"]
      /\ UNCHANGED <<disk, inflight, failed, devpos, blkbuf, flags, file_pos, file_size,
                     inode_num, handle, op, n, chunk, m, got>>
  BY DEF Fetched, Runs, Goto, devVars, fdVars, callVars
<1>2. pc[t] \in Holding BY <1>1 DEF Holding
<1>3. /\ pc'[t] = IF pc[t] = "entry_ret" THEN "entry" ELSE "xfer"
      /\ \A u \in Threads : u # t => pc[u] \in {"user", "acquire"} /\ pc'[u] = pc[u]
  BY <1>1, <1>2, Alone
<1>4. DataTyped'
  <2>1. devpos \div blksz \in Nat
    <3>1. devpos \in Nat BY Parts DEF DataTyped
    <3> QED BY <3>1, Sizes
  <2> QED BY <1>1, <2>1, Parts DEF DataTyped
<1>5. CallsOK' BY <1>1, <1>3, Parts DEF CallsOK
<1>6. WithinFile' /\ WholeBlocks' BY <1>1, Parts DEF WithinFile, WholeBlocks, File, Pos
<1>7. WithinBlock'
  <2>1. Pos(t)' = Pos(t) BY <1>1 DEF Pos
  <2> QED BY <1>1, <1>3, <2>1, Parts DEF WithinBlock
<1>8. DeviceAt'
  <2>1. Pos(t)' = Pos(t) /\ File(t)' = File(t) /\ Moved(t)' = Moved(t) BY <1>1 DEF Pos, File, Moved
  <2>2. /\ TableAt(File(t)', Pos(t)' \div BLOCK_SIZE + 1) = TableAt(File(t), Pos(t) \div BLOCK_SIZE + 1)
        /\ ByteAt(File(t)', Pos(t)') = ByteAt(File(t), Pos(t))
        /\ TableAt(File(t)', 0) = TableAt(File(t), 0)
    BY <2>1
  <2> QED BY <1>1, <1>3, <2>1, <2>2, Parts DEF DeviceAt
<1>9. BufferOK'
  <2>1. Fetching(t) BY <1>1 DEF Fetching
  <2>2. inflight = NoReq BY <1>1, <1>2, Holder
  <2>3. Buffered(devpos \div blksz) BY <2>1, <2>2, Parts DEF BufferOK
  <2>4. Buffered(bufblkno)' BY <1>1, <2>3 DEF Buffered
  <2>5. \A u \in Threads : ~Fetching(u)' /\ ~Storing(u)' BY <1>3 DEF Fetching, Storing
  <2> QED BY <2>4, <2>5 DEF BufferOK
<1>10. TablesOK' BY <1>1, SameTables
<1> QED BY <1>4, <1>5, <1>6, <1>7, <1>8, <1>9, <1>10 DEF DataOK

\* What an ioread of an entry finds is on the disk.
LEMMA EntryRead ==
    ASSUME DataInv, NEW t \in Threads, EntryHit(t)
    PROVE  /\ handle[t] # NoSlot /\ pc[t] \in Holding /\ pc[t] = "entry"
           /\ inflight = NoReq
           /\ Entry(t, IF op[t] = "open" THEN FileSize[File(t)]
                       ELSE Blocks[File(t)][Pos(t) \div BLOCK_SIZE + 1], 1)
<1>1. /\ pc[t] = "entry" /\ (cpu = t \/ t \notin dev_wait)
      /\ bufblkno = devpos \div blksz
      /\ Entry(t, blkbuf[devpos % blksz], 1)
  BY DEF EntryHit, Runs
<1>2. pc[t] \in Holding BY <1>1 DEF Holding
<1>3. /\ inflight = NoReq /\ handle[t] # NoSlot
      /\ \A u \in Threads : u # t => pc[u] \in {"user", "acquire"}
  BY <1>1, <1>2, Holder, Parts
<1>4. Buffered(bufblkno) BY <1>1, <1>3, Parts DEF BufferOK, Fetching
<1>5. File(t) \in Files /\ Pos(t) \in Nat /\ FileSize[File(t)] \in Nat BY <1>3, OwnSlot
<1>6. blkbuf[devpos % blksz] = IF op[t] = "open" THEN FileSize[File(t)]
                               ELSE Blocks[File(t)][Pos(t) \div BLOCK_SIZE + 1]
  <2>1. ASSUME NEW k \in 0 .. BLOCK_SIZE - 1, devpos = TableAt(File(t), k)
        PROVE  blkbuf[devpos % blksz] = disk[TableAt(File(t), k)]
    <3>1. devpos \in 0 .. DiskEnd
      <4>1. TableAt(File(t), k) \in Nat /\ TableAt(File(t), k) < DataStart BY <1>5, TablePlace
      <4>2. DataStart \in Int BY Sizes DEF DataStart
      <4> QED BY <2>1, <4>1, <4>2, DiskEnds
    <3>2. bufblkno \in Nat BY Parts DEF DataTyped
    <3>3. blkbuf[devpos % blksz] = disk[devpos] BY <1>1, <1>4, <3>1, <3>2, FromBuffer
    <3> QED BY <2>1, <3>3
  <2>2. CASE op[t] = "open"
    <3>1. devpos = TableAt(File(t), 0) BY <1>1, <2>2, Parts DEF DeviceAt
    <3>2. disk[TableAt(File(t), 0)] = FileSize[File(t)] BY <1>5, Parts DEF TablesOK
    <3> QED BY <2>1, <2>2, <3>1, <3>2, Sizes
  <2>3. CASE op[t] # "open"
    <3> DEFINE k == Pos(t) \div BLOCK_SIZE + 1
    <3>1. devpos = TableAt(File(t), k) BY <1>1, <2>3, Parts DEF DeviceAt
    <3>2. Pos(t) < FileSize[File(t)]
      <4>1. 0 < m[t] /\ m[t] <= chunk[t] /\ chunk[t] <= n[t] BY <1>1, <2>3, Parts DEF WithinBlock
      <4>2. m[t] \in Nat /\ chunk[t] \in Nat /\ n[t] \in Nat BY Parts DEF DataTyped
      <4>3. Pos(t) + n[t] <= FileSize[File(t)] BY <1>3, <2>3, Parts DEF WithinFile
      <4> QED BY <1>5, <4>1, <4>2, <4>3
    <3>3. k \in DOMAIN Blocks[File(t)] /\ k \in 1 .. BLOCK_SIZE - 1 BY <1>5, <3>2, InFile
    <3> HIDE DEF k
    <3>4. disk[TableAt(File(t), k)] = Blocks[File(t)][k] BY <1>5, <3>3, Parts DEF TablesOK
    <3>5. k \in 0 .. BLOCK_SIZE - 1 BY <3>3, Sizes
    <3>6. blkbuf[devpos % blksz] = Blocks[File(t)][k] BY <2>1, <3>1, <3>4, <3>5
    <3> QED BY <2>3, <3>6 DEF k
  <2> QED BY <2>2, <2>3
<1> QED BY <1>1, <1>2, <1>3, <1>6

LEMMA EntryHitOK == ASSUME DataInv, NEW t \in Threads, EntryHit(t) PROVE DataOK'
<1>1. /\ handle[t] # NoSlot /\ pc[t] \in Holding /\ pc[t] = "entry"
      /\ UNCHANGED <<disk, inflight, failed, irq, bufblkno, blkbuf>>
      /\ Entry(t, IF op[t] = "open" THEN FileSize[File(t)]
                  ELSE Blocks[File(t)][Pos(t) \div BLOCK_SIZE + 1], 1)
  BY EntryRead DEF EntryHit, devVars
<1>2. /\ File(t) \in Files /\ Pos(t) \in Nat /\ FileSize[File(t)] \in Nat /\ handle[t] \in Slots
      /\ \A u \in Threads : u # t => handle[u] # handle[t]
  BY <1>1, OwnSlot
<1>3. TablesOK' BY <1>1, SameTables
<1>4. CASE op[t] = "open"
  <2>1. /\ file_size' = [file_size EXCEPT ![handle[t]] = FileSize[File(t)]]
        /\ devpos' = devpos + 1
        /\ pc' = [pc EXCEPT ![t] = "user"]
        /\ op' = [op EXCEPT ![t] = "none"]
        /\ n' = [n EXCEPT ![t] = 0]
        /\ chunk' = [chunk EXCEPT ![t] = 0]
        /\ m' = [m EXCEPT ![t] = 0]
        /\ got' = [got EXCEPT ![t] = <<>>]
        /\ UNCHANGED <<flags, file_pos, inode_num, handle>>
    BY <1>1, <1>4 DEF Entry, Return, Goto
  <2>2. pc'[t] = "user" /\ \A u \in Threads : u # t => pc[u] \in {"user", "acquire"} /\ pc'[u] = pc[u]
    BY <1>1, <2>1, Alone
  <2>3. DataTyped' BY SMTT(30), <1>1, <1>2, <2>1, Parts DEF DataTyped
  <2>4. CallsOK' BY <2>1, <2>2, Parts DEF CallsOK, DataTyped
  <2>5. WithinFile'
    <3>1. \A u \in Threads : Pos(u)' = Pos(u) /\ File(u)' = File(u) BY <2>1 DEF Pos, File
    <3>2. /\ file_size'[handle[t]] = FileSize[File(t)] /\ op'[t] = "none" /\ n'[t] = 0
          /\ Pos(t) = 0
      BY <1>1, <1>2, <1>4, <2>1, Parts DEF DataTyped, WithinFile
    <3>3. \A u \in Threads : u # t => op'[u] = op[u] /\ n'[u] = n[u] BY <2>1, Parts DEF DataTyped
    <3>4. \A u \in Threads : u # t => file_size'[handle[u]] = file_size[handle[u]]
      BY <1>2, <2>1, Parts DEF DataTyped
    <3> QED BY <1>2, <2>1, <3>1, <3>2, <3>3, <3>4, Parts DEF WithinFile
  <2>6. WholeBlocks' BY <2>1, Parts DEF WholeBlocks, Pos, DataTyped
  <2>7. WithinBlock' /\ DeviceAt' BY <2>2 DEF WithinBlock, DeviceAt
  <2>8. BufferOK' BY <1>1, <2>2, SameBuffer DEF Fetching, Storing
  <2> QED BY <1>3, <2>3, <2>4, <2>5, <2>6, <2>7, <2>8 DEF DataOK
<1>5. CASE op[t] # "open"
  <2> DEFINE k == Blocks[File(t)][Pos(t) \div BLOCK_SIZE + 1]
  <2>1. /\ devpos' = DataAt(k, Pos(t) % BLOCK_SIZE)
        /\ pc' = [pc EXCEPT ![t] = "xfer"]
        /\ UNCHANGED <<flags, file_pos, file_size, inode_num, handle, op, n, chunk, m, got>>
    BY <1>1, <1>5 DEF Entry, Goto, fdVars, callVars, Pos
  <2>2. pc'[t] = "xfer" /\ \A u \in Threads : u # t => pc[u] \in {"user", "acquire"} /\ pc'[u] = pc[u]
    BY <1>1, <2>1, Alone
  <2>3. /\ 0 < m[t] /\ m[t] <= chunk[t] /\ chunk[t] <= n[t] /\ m[t] = chunk[t]
        /\ n[t] \in Nat /\ m[t] \in Nat /\ chunk[t] \in Nat
    BY <1>1, <1>5, Parts DEF WithinBlock, DeviceAt, DataTyped
  <2>4. devpos' = ByteAt(File(t), Pos(t)) BY <2>1 DEF ByteAt
  <2>5. Pos(t) < FileSize[File(t)]
    <3>1. Pos(t) + n[t] <= FileSize[File(t)] BY <1>1, <1>5, Parts DEF WithinFile
    <3> QED BY <1>2, <2>3, <3>1
  <2>6. ByteAt(File(t), Pos(t)) \in Nat BY <1>2, <2>5, BytePlace
  <2>7. DataTyped' BY <1>1, <2>1, <2>4, <2>6, Parts DEF DataTyped
  <2>8. CallsOK' BY <1>1, <1>5, <2>1, <2>2, Parts DEF CallsOK
  <2>14. \A u \in Threads : Pos(u)' = Pos(u) /\ File(u)' = File(u) BY <2>1 DEF Pos, File
  <2>15. WithinFile' BY <2>1, <2>14, Parts DEF WithinFile
  <2>9. WholeBlocks' BY <2>1, <2>14, Parts DEF WholeBlocks
  <2>10. Pos(t)' = Pos(t) /\ File(t)' = File(t) /\ Moved(t)' = 0
    BY <2>1, <2>3 DEF Pos, File, Moved
  <2>11. WithinBlock' BY <1>1, <2>1, <2>2, <2>10, Parts DEF WithinBlock
  <2>12. DeviceAt'
    <3>1. ByteAt(File(t)', Pos(t)') = ByteAt(File(t), Pos(t)) BY <2>10
    <3>2. devpos' = ByteAt(File(t), Pos(t)) + 0 BY <2>4, <2>6
    <3> QED BY <2>2, <2>10, <3>1, <3>2 DEF DeviceAt
  <2>13. BufferOK' BY <1>1, <2>2, SameBuffer DEF Fetching, Storing
  <2> QED BY <1>3, <2>7, <2>8, <2>9, <2>11, <2>12, <2>13, <2>15 DEF DataOK
<1> QED BY <1>4, <1>5

\* The end of a round, of either kind.
LEMMA AdvanceOK ==
    ASSUME DataInv, NEW t \in Threads, pc[t] \in {"xfer", "xfer_ret"},
           NEW k \in 1 .. m[t], Advance(t, k), op[t] = "write" => k % blksz = 0,
           UNCHANGED <<disk, failed, bufblkno, blkbuf, flags, file_size, inode_num, handle, op>>,
           got' \in [Threads -> Seq(Nat)],
           \A u \in Threads : got'[u] # got[u] => u = t /\ op[t] = "read"
    PROVE  /\ DataTyped' /\ CallsOK' /\ WithinFile' /\ WholeBlocks' /\ WithinBlock' /\ DeviceAt'
           /\ \A u \in Threads : ~Fetching(u)' /\ ~Storing(u)'
<1>1. pc[t] \in Holding BY DEF Holding
<1>2. /\ op[t] \in {"read", "write"}
      /\ n[t] \in Nat /\ chunk[t] \in Nat /\ m[t] \in Nat
      /\ 0 < m[t] /\ m[t] <= chunk[t] /\ chunk[t] <= n[t]
      /\ Moved(t) \in Nat /\ Moved(t) + m[t] = chunk[t]
      /\ Pos(t) + n[t] <= FileSize[File(t)]
  BY AtData
<1>3. handle[t] # NoSlot BY <1>2, Parts DEF CallsOK
<1>4. /\ File(t) \in Files /\ Pos(t) \in Nat /\ FileSize[File(t)] \in Nat /\ handle[t] \in Slots
      /\ \A u \in Threads : u # t => handle[u] # handle[t]
  BY <1>3, OwnSlot
<1>5. devpos' = devpos + k /\ m' = [m EXCEPT ![t] = @ - k] /\ devpos \in Nat
      /\ k \in Nat /\ k > 0 /\ k <= m[t]
  BY <1>2, Parts DEF Advance, DataTyped
<1>6. m'[t] = m[t] - k /\ m[t] - k \in Nat BY <1>2, <1>5, Parts DEF DataTyped
<1>7. op[t] = "write" => (m[t] - k) % blksz = 0
  <2> SUFFICES ASSUME op[t] = "write" PROVE (m[t] - k) % blksz = 0 OBVIOUS
  <2>1. m[t] % blksz = 0 BY Parts DEF WholeBlocks
  <2>2. k % blksz = 0 /\ blksz \in Nat /\ blksz > 0 /\ m[t] \in Int /\ k \in Int BY <1>2, <1>5, Sizes
  <2> QED BY ONLY <2>1, <2>2, MultiplesAdd
<1>8. CASE m[t] = k
  <2>1. /\ file_pos' = [file_pos EXCEPT ![handle[t]] = @ + chunk[t]]
        /\ n' = [n EXCEPT ![t] = @ - chunk[t]]
        /\ chunk' = [chunk EXCEPT ![t] = 0]
        /\ pc' = [pc EXCEPT ![t] = "loop"]
    BY <1>8 DEF Advance, Goto
  <2>2. pc'[t] = "loop" /\ \A u \in Threads : u # t => pc[u] \in {"user", "acquire"} /\ pc'[u] = pc[u]
    BY <1>1, <2>1, Alone
  <2>3. /\ n'[t] = n[t] - chunk[t] /\ chunk'[t] = 0 /\ m'[t] = 0
        /\ Pos(t)' = Pos(t) + chunk[t] /\ n[t] - chunk[t] \in Nat
    BY SMTT(30), <1>2, <1>4, <1>6, <1>8, <2>1, Parts DEF DataTyped, Pos
  <2>4. \A u \in Threads : u # t =>
            /\ n'[u] = n[u] /\ chunk'[u] = chunk[u] /\ m'[u] = m[u]
            /\ (handle[u] # NoSlot => Pos(u)' = Pos(u)) /\ File(u)' = File(u)
    BY <1>4, <1>5, <2>1, Parts DEF DataTyped, Pos, File
  <2>5. DataTyped'
    <3>1. file_pos' \in [Slots -> Nat]
      <4>1. file_pos[handle[t]] + chunk[t] \in Nat BY <1>2, <1>4 DEF Pos
      <4> QED BY <2>1, <4>1, Parts DEF DataTyped
    <3>2. n' \in [Threads -> Nat] /\ chunk' \in [Threads -> Nat] /\ m' \in [Threads -> Nat]
      BY <1>5, <1>6, <2>1, <2>3, Parts DEF DataTyped
    <3>3. devpos' \in Nat BY <1>5
    <3> QED BY <3>1, <3>2, <3>3, Parts DEF DataTyped
  <2>6. CallsOK' BY ZenonT(30), <1>2, <1>3, <2>2, <2>3, <2>4, Parts DEF CallsOK
  <2>7. WithinFile'
    <3>1. File(t)' = File(t) /\ file_size' = file_size /\ handle' = handle /\ op' = op BY DEF File
    <3>2. /\ op'[t] # "open" /\ file_size[handle[t]] = FileSize[File(t)]
          /\ Pos(t)' + n'[t] <= FileSize[File(t)]
      <4>1. op'[t] # "open" /\ file_size[handle[t]] = FileSize[File(t)]
        BY <1>2, <1>3, <3>1, Parts DEF WithinFile
      <4>2. Pos(t)' + n'[t] = Pos(t) + n[t] BY SMTT(30), <1>2, <1>4, <2>3
      <4> QED BY <1>2, <4>1, <4>2
    <3>3. ASSUME NEW u \in Threads, u # t, handle[u] # NoSlot
          PROVE  IF op'[u] = "open" THEN Pos(u)' = 0
                 ELSE /\ file_size'[handle'[u]] = FileSize[File(u)']
                      /\ Pos(u)' + n'[u] <= FileSize[File(u)']
      <4>1. Pos(u)' = Pos(u) /\ File(u)' = File(u) /\ n'[u] = n[u] BY <2>4, <3>3
      <4>2. IF op[u] = "open" THEN Pos(u) = 0
            ELSE file_size[handle[u]] = FileSize[File(u)] /\ Pos(u) + n[u] <= FileSize[File(u)]
        BY <3>3, Parts DEF WithinFile
      <4>3. Pos(u)' + n'[u] = Pos(u) + n[u] /\ FileSize[File(u)'] = FileSize[File(u)] BY <4>1
      <4> QED BY <3>1, <4>1, <4>2, <4>3
    <3>4. ASSUME NEW u \in Threads, handle'[u] # NoSlot'
          PROVE  IF op'[u] = "open" THEN Pos(u)' = 0
                 ELSE /\ file_size'[handle'[u]] = FileSize[File(u)']
                      /\ Pos(u)' + n'[u] <= FileSize[File(u)']
      <4>1. CASE u = t BY ONLY <3>1, <3>2, <4>1
      <4>2. handle[u] # NoSlot BY <3>1, <3>4 DEF NoSlot
      <4>3. CASE u # t BY ONLY <3>3, <4>2, <4>3, u \in Threads
      <4> QED BY <4>1, <4>3
    <3> QED BY ONLY <3>4 DEF WithinFile
  <2>8. WholeBlocks'
    <3>1. ASSUME op[t] = "write"
          PROVE  (Pos(t) + chunk[t]) % blksz = 0 /\ (n[t] - chunk[t]) % blksz = 0 /\ 0 % blksz = 0
      <4>1. WholeBlocks BY Parts
      <4>2. Pos(t) % blksz = 0 /\ chunk[t] % blksz = 0 /\ n[t] % blksz = 0
        BY ONLY <3>1, <4>1, t \in Threads DEF WholeBlocks
      <4>3. blksz \in Nat /\ blksz > 0 /\ Pos(t) \in Int /\ chunk[t] \in Int /\ n[t] \in Int
        BY ONLY <1>2, <1>4, Sizes
      <4>4. (Pos(t) + chunk[t]) % blksz = 0 /\ (n[t] - chunk[t]) % blksz = 0
        BY ONLY <4>2, <4>3, MultiplesAdd
      <4>5. 0 % blksz = 0 BY Sizes
      <4> QED BY <4>4, <4>5
    <3>2. \A u \in Threads : op[u] = "write" => handle[u] # NoSlot BY Parts DEF CallsOK
    <3> QED BY <2>3, <2>4, <3>1, <3>2, Parts DEF WholeBlocks
  <2>9. WithinBlock' /\ DeviceAt' BY <2>2 DEF WithinBlock, DeviceAt
  <2>10. \A u \in Threads : ~Fetching(u)' /\ ~Storing(u)' BY <2>2 DEF Fetching, Storing
  <2> QED BY <2>5, <2>6, <2>7, <2>8, <2>9, <2>10
<1>9. CASE m[t] # k
  <2>1. pc' = [pc EXCEPT ![t] = "xfer"] /\ UNCHANGED <<file_pos, n, chunk>>
    BY <1>9 DEF Advance, Goto
  <2>2. pc'[t] = "xfer" /\ \A u \in Threads : u # t => pc[u] \in {"user", "acquire"} /\ pc'[u] = pc[u]
    BY <1>1, <2>1, Alone
  <2>3. \A u \in Threads : u # t => m'[u] = m[u] BY <1>5, Parts DEF DataTyped
  <2>4. \A u \in Threads : Pos(u)' = Pos(u) /\ File(u)' = File(u) BY <2>1 DEF Pos, File
  <2>5. DataTyped'
    <3>1. m' \in [Threads -> Nat] /\ devpos' \in Nat BY <1>5, <1>6, Parts DEF DataTyped
    <3> QED BY <2>1, <3>1, Parts DEF DataTyped
  <2>6. CallsOK' BY ZenonT(30), <1>2, <2>1, <2>2, <2>3, Parts DEF CallsOK
  <2>7. WithinFile' BY <2>1, <2>4, Parts DEF WithinFile
  <2>8. WholeBlocks' BY <1>6, <1>7, <2>1, <2>3, <2>4, Parts DEF WholeBlocks
  <2>9. WithinBlock'
    <3>1. 0 < m'[t] /\ m'[t] <= chunk'[t] /\ chunk'[t] <= n'[t]
      BY <1>2, <1>5, <1>6, <1>9, <2>1
    <3>2. (Pos(t) % BLOCK_SIZE) + chunk[t] <= BLOCK_SIZE BY <1>2, Parts DEF WithinBlock
    <3> QED BY <2>1, <2>2, <2>4, <3>1, <3>2 DEF WithinBlock
  <2>10. DeviceAt'
    <3>1. devpos = ByteAt(File(t), Pos(t)) + Moved(t) BY Parts DEF DeviceAt
    <3>2. ByteAt(File(t), Pos(t)) \in Nat
      <4>1. Pos(t) < FileSize[File(t)] BY <1>2, <1>4
      <4> QED BY <1>4, <4>1, BytePlace
    <3>3. Moved(t)' = Moved(t) + k BY <1>2, <1>5, <1>6, <2>1 DEF Moved
    <3>4. devpos' = ByteAt(File(t), Pos(t)) + Moved(t)' BY <1>2, <1>5, <3>1, <3>2, <3>3
    <3>5. ByteAt(File(t)', Pos(t)') = ByteAt(File(t), Pos(t)) BY <2>4
    <3> QED BY <2>2, <3>4, <3>5 DEF DeviceAt
  <2>11. \A u \in Threads : ~Fetching(u)' /\ ~Storing(u)' BY <2>2 DEF Fetching, Storing
  <2> QED BY <2>5, <2>6, <2>7, <2>8, <2>9, <2>10, <2>11
<1> QED BY <1>8, <1>9

\* Positions of a block have its number and follow each other in the buffer.
LEMMA SameBlock ==
    ASSUME NEW x \in Nat, NEW j \in Nat, (x % blksz) + j < blksz
    PROVE  (x + j) \div blksz = x \div blksz /\ (x + j) % blksz = (x % blksz) + j
<1> DEFINE q == x \div blksz
           r == x % blksz
           y == x + j
           s == r + j
<1>1. q \in Int /\ r \in 0 .. blksz - 1 /\ x = blksz * q + r BY Sizes, DivMod
<1>2. s \in 0 .. blksz - 1 BY <1>1, Sizes
<1> HIDE DEF q, r
<1>3. y = blksz * q + s BY <1>1, Sizes
<1> HIDE DEF y, s
<1>4. (blksz * q + s) \div blksz = q /\ (blksz * q + s) % blksz = s BY <1>1, <1>2, Sizes, QuotRem
<1>5. y \div blksz = q /\ y % blksz = s BY <1>3, <1>4
<1> QED BY <1>5 DEF y, s, q, r

\* What a round of a read finds in the buffer are the bytes of the file.
LEMMA RoundRead ==
    ASSUME DataInv, NEW t \in Threads, ReadHit(t), NEW i \in 1 .. Round(t)
    PROVE  /\ blkbuf[(devpos % blksz) + i - 1]
                = disk[ByteAt(File(t), Pos(t) + Moved(t) + i - 1)]
           /\ blkbuf[(devpos % blksz) + i - 1] \in Nat
<1>1. pc[t] = "xfer" /\ op[t] = "read" /\ (cpu = t \/ t \notin dev_wait) /\ bufblkno = devpos \div blksz
  BY DEF ReadHit, Reading, Runs
<1>2. pc[t] \in Holding BY <1>1 DEF Holding
<1>3. inflight = NoReq /\ \A u \in Threads : u # t => pc[u] \in {"user", "acquire"}
  BY <1>1, <1>2, Holder
<1>4. Buffered(bufblkno) BY <1>1, <1>3, Parts DEF BufferOK, Fetching
<1>5. bufblkno \in Nat /\ devpos \in Nat /\ disk \in [0 .. DiskEnd -> Nat] BY Parts DEF DataTyped
<1> DEFINE j == i - 1
           o == devpos % blksz
<1>6. /\ Round(t) \in 1 .. m[t] /\ m[t] \in Nat
      /\ o \in 0 .. blksz - 1 /\ o + Round(t) <= blksz
  BY <1>1, AtData, Rounds
<1>7. j \in Nat /\ j \in 0 .. m[t] - 1 /\ i = j + 1 /\ o + j < blksz BY <1>6, Sizes
<1>8. /\ ByteAt(File(t), Pos(t) + Moved(t) + j) = devpos + j
      /\ devpos + j \in 0 .. DiskEnd
  BY <1>1, <1>7, AtData
<1>9. (devpos + j) \div blksz = bufblkno /\ (devpos + j) % blksz = o + j
  BY <1>1, <1>5, <1>7, SameBlock
<1>10. blkbuf[(devpos + j) % blksz] = disk[devpos + j] BY <1>4, <1>5, <1>8, <1>9, FromBuffer
<1>11. blkbuf[o + j] = disk[devpos + j] /\ disk[devpos + j] \in Nat BY <1>5, <1>8, <1>9, <1>10
<1>12. o + i - 1 = o + j /\ Pos(t) + Moved(t) + i - 1 = Pos(t) + Moved(t) + j
  <2>1. op[t] # "none" BY <1>1
  <2>2. handle[t] # NoSlot BY <2>1, Parts DEF CallsOK
  <2>3. Pos(t) \in Nat /\ Moved(t) \in Nat BY <1>1, <2>2, OwnSlot, AtData
  <2> QED BY <1>6, <2>3
<1> QED BY <1>8, <1>11, <1>12

LEMMA ReadHitOK == ASSUME DataInv, NEW t \in Threads, ReadHit(t) PROVE DataOK'
<1> DEFINE bytes == [i \in 1 .. Round(t) |-> blkbuf[(devpos % blksz) + i - 1]]
<1>1. /\ pc[t] = "xfer" /\ op[t] = "read"
      /\ got' = [got EXCEPT ![t] = @ \o bytes]
      /\ Advance(t, Round(t))
      /\ UNCHANGED <<disk, inflight, failed, bufblkno, blkbuf, flags, file_size, inode_num, handle, op>>
  BY DEF ReadHit, Reading, Runs, devVars
<1>2. Round(t) \in 1 .. m[t] /\ m[t] \in Nat BY <1>1, Rounds, AtData
<1>3. bytes \in Seq(Nat)
  <2>1. \A i \in 1 .. Round(t) : blkbuf[(devpos % blksz) + i - 1] \in Nat BY RoundRead
  <2> HIDE DEF bytes
  <2>2. bytes \in [1 .. Round(t) -> Nat] BY <2>1 DEF bytes
  <2> QED BY <1>2, <2>2
<1> HIDE DEF bytes
<1>4. got' \in [Threads -> Seq(Nat)]
  <2>1. got[t] \o bytes \in Seq(Nat) BY <1>3, Parts DEF DataTyped
  <2> QED BY <1>1, <2>1, Parts DEF DataTyped
<1>5. \A u \in Threads : got'[u] # got[u] => u = t /\ op[t] = "read"
  BY <1>1, Parts DEF DataTyped
<1>6. /\ DataTyped' /\ CallsOK' /\ WithinFile' /\ WholeBlocks' /\ WithinBlock' /\ DeviceAt'
      /\ \A u \in Threads : ~Fetching(u)' /\ ~Storing(u)'
  <2>1. op[t] = "write" => Round(t) % blksz = 0 BY <1>1
  <2>2. pc[t] \in {"xfer", "xfer_ret"} BY <1>1
  <2> QED BY <1>1, <1>2, <1>4, <1>5, <2>1, <2>2, AdvanceOK
<1>7. BufferOK'
  <2>1. pc[t] \in Holding BY <1>1 DEF Holding
  <2>2. \A u \in Threads : ~Fetching(u) /\ ~Storing(u)
    BY <1>1, <2>1, Holder DEF Fetching, Storing
  <2> QED BY <1>1, <1>6, <2>2, SameBuffer
<1>8. TablesOK' BY <1>1, SameTables
<1> QED BY <1>6, <1>7, <1>8 DEF DataOK

\* A write is stored by one request for each block of the device: none is written
\* before it was read.
LEMMA WriteIsWhole ==
    ASSUME DataInv, NEW t \in Threads, WriteBlock(t)
    PROVE  /\ pc[t] = "xfer" /\ op[t] = "write"
           /\ Patched(t) = [i \in 0 .. blksz - 1 |-> t]
<1>1. op[t] = "write" /\ pc[t] = "xfer" BY Parts DEF WriteBlock, Runs, CallsOK
<1>2. devpos % blksz = 0 /\ Round(t) = blksz BY <1>1, AtBoundary, Rounds
<1>3. ASSUME NEW i \in 0 .. blksz - 1
      PROVE  i \in (devpos % blksz) .. (devpos % blksz) + Round(t) - 1
  BY <1>2, Sizes
<1>4. Patched(t) = [i \in 0 .. blksz - 1 |-> t] BY <1>3 DEF Patched
<1> QED BY <1>1, <1>4

LEMMA WriteBlockOK == ASSUME DataInv, NEW t \in Threads, WriteBlock(t) PROVE DataOK'
<1>1. /\ pc[t] = "xfer" /\ op[t] = "write"
      /\ bufblkno' = devpos \div blksz
      /\ blkbuf' = [i \in 0 .. blksz - 1 |-> t]
      /\ inflight' = [type |-> "out", blk |-> devpos \div blksz]
      /\ pc' = [pc EXCEPT ![t] = "xfer_ret"]
      /\ UNCHANGED <<disk, failed, devpos, flags, file_pos, file_size,
                     inode_num, handle, op, n, chunk, m, got>>
  BY WriteIsWhole DEF WriteBlock, Submit, Goto, fdVars, callVars
<1>2. pc[t] \in Holding BY <1>1 DEF Holding
<1>3. pc'[t] = "xfer_ret" /\ \A u \in Threads : u # t => pc[u] \in {"user", "acquire"} /\ pc'[u] = pc[u]
  BY <1>1, <1>2, Alone
<1>4. DataTyped'
  <2>1. devpos \div blksz \in Nat
    <3>1. devpos \in Nat BY Parts DEF DataTyped
    <3> QED BY <3>1, Sizes
  <2> QED BY <1>1, <2>1, Parts DEF DataTyped
<1>5. CallsOK' BY <1>1, <1>3, Parts DEF CallsOK
<1>6. \A u \in Threads : Pos(u)' = Pos(u) /\ File(u)' = File(u) /\ Moved(u)' = Moved(u)
  BY <1>1 DEF Pos, File, Moved
<1>7. WithinFile' BY <1>1, <1>6, Parts DEF WithinFile
<1>8. WholeBlocks' BY <1>1, <1>6, Parts DEF WholeBlocks
<1>9. WithinBlock' BY <1>1, <1>3, <1>6, Parts DEF WithinBlock
<1>10. DeviceAt'
  <2>1. ByteAt(File(t)', Pos(t)') = ByteAt(File(t), Pos(t)) BY <1>6
  <2> QED BY <1>1, <1>3, <1>6, <2>1, Parts DEF DeviceAt
<1>11. BufferOK'
  <2>1. Storing(t)' /\ ~Fetching(t)' BY <1>1, <1>3 DEF Fetching, Storing
  <2>2. \A u \in Threads : u # t => ~Fetching(u)' /\ ~Storing(u)' BY <1>3 DEF Fetching, Storing
  <2>3. inflight' # NoReq' BY <1>1 DEF NoReq
  <2> QED BY <1>1, <2>1, <2>2, <2>3 DEF BufferOK
<1>12. TablesOK' BY <1>1, SameTables
<1> QED BY <1>4, <1>5, <1>7, <1>8, <1>9, <1>10, <1>11, <1>12 DEF DataOK

\* When a write of a block is done, its bytes are on the disk.
LEMMA RoundWritten ==
    ASSUME DataInv, NEW t \in Threads, WriteDone(t)
    PROVE  /\ pc[t] = "xfer_ret" /\ op[t] = "write" /\ Round(t) = blksz
           /\ Buffered(bufblkno)
           /\ \A j \in 0 .. Round(t) - 1 :
                 disk[ByteAt(File(t), Pos(t) + Moved(t) + j)] = t
<1>1. pc[t] = "xfer_ret" /\ op[t] = "write" /\ (cpu = t \/ t \notin dev_wait)
  BY DEF WriteDone, Runs
<1>2. pc[t] \in Holding BY <1>1 DEF Holding
<1>3. inflight = NoReq /\ \A u \in Threads : u # t => pc[u] \in {"user", "acquire"}
  BY <1>1, <1>2, Holder
<1>4. \A u \in Threads : ~Fetching(u) BY <1>1, <1>3 DEF Fetching
<1>5. /\ Buffered(bufblkno) /\ bufblkno = devpos \div blksz
      /\ \A i \in 0 .. blksz - 1 : blkbuf[i] = t
  BY <1>1, <1>3, <1>4, Parts DEF BufferOK, Storing
<1>6. Round(t) = blksz /\ devpos % blksz = 0 /\ m[t] >= blksz /\ m[t] \in Nat
  BY <1>1, Rounds, AtBoundary, AtData
<1>7. bufblkno \in Nat /\ devpos \in Nat BY Parts DEF DataTyped
<1>8. ASSUME NEW j \in 0 .. Round(t) - 1
      PROVE  disk[ByteAt(File(t), Pos(t) + Moved(t) + j)] = t
  <2>1. j \in Nat /\ j \in 0 .. blksz - 1 /\ j \in 0 .. m[t] - 1 /\ (devpos % blksz) + j < blksz
    BY <1>6, Sizes
  <2>2. ByteAt(File(t), Pos(t) + Moved(t) + j) = devpos + j /\ devpos + j \in 0 .. DiskEnd
    BY <1>1, <2>1, AtData
  <2>3. (devpos + j) \div blksz = bufblkno /\ (devpos + j) % blksz = j
    BY <1>5, <1>6, <1>7, <2>1, SameBlock
  <2>4. blkbuf[(devpos + j) % blksz] = disk[devpos + j] BY <1>5, <1>7, <2>2, <2>3, FromBuffer
  <2> QED BY <1>5, <2>1, <2>2, <2>3, <2>4
<1> QED BY <1>1, <1>5, <1>6, <1>8

LEMMA WriteDoneOK == ASSUME DataInv, NEW t \in Threads, WriteDone(t) PROVE DataOK'
<1>1. /\ pc[t] = "xfer_ret" /\ op[t] = "write" /\ Round(t) = blksz /\ Buffered(bufblkno)
      /\ Advance(t, Round(t))
      /\ UNCHANGED <<disk, inflight, failed, bufblkno, blkbuf, flags, file_size, inode_num, handle, op, got>>
  BY RoundWritten DEF WriteDone, devVars
<1>2. Round(t) \in 1 .. m[t] BY <1>1, Rounds
<1>3. Round(t) % blksz = 0 BY <1>1, Sizes
<1>4. got' \in [Threads -> Seq(Nat)] BY <1>1, Parts DEF DataTyped
<1>5. /\ DataTyped' /\ CallsOK' /\ WithinFile' /\ WholeBlocks' /\ WithinBlock' /\ DeviceAt'
      /\ \A u \in Threads : ~Fetching(u)' /\ ~Storing(u)'
  <2>1. pc[t] \in {"xfer", "xfer_ret"} /\ \A u \in Threads : got'[u] = got[u] BY <1>1
  <2> QED BY <1>1, <1>2, <1>3, <1>4, <2>1, AdvanceOK
<1>6. BufferOK'
  <2>1. Buffered(bufblkno)' BY <1>1 DEF Buffered
  <2> QED BY <1>5, <2>1 DEF BufferOK
<1>7. TablesOK' BY <1>1, SameTables
<1> QED BY <1>5, <1>6, <1>7 DEF DataOK

\* Without failures and writes of part of a block these steps are not taken.
LEMMA NotTaken ==
    ASSUME DataInv, NEW t \in Threads
    PROVE  ~EntryFailed(t) /\ ~TransferFailed(t) /\ ~PreRead(t) /\ \A u \in Threads : ~Fork(t, u)
<1>1. ~failed BY Parts DEF DataTyped
<1>2. ~PreRead(t)
  <2> SUFFICES ASSUME PreRead(t) PROVE FALSE OBVIOUS
  <2>1. pc[t] = "xfer" /\ op[t] = "write" /\ Round(t) < blksz BY DEF PreRead, Runs
  <2>2. Round(t) = blksz BY <2>1, Rounds
  <2> QED BY <2>1, <2>2, Sizes
<1>3. ~Forks BY DEF DataInv, Plain
<1> QED BY <1>1, <1>2, <1>3 DEF EntryFailed, TransferFailed, Fork

------------------------------------------------------------------------------
(* The device, and the calls up to the lock *)

\* The device works for whoever fetches or stores.
LEMMA Requester ==
    ASSUME DataInv, inflight # NoReq
    PROVE  \E t \in Threads :
              /\ pc[t] \in Holding
              /\ \/ Fetching(t) /\ ~Storing(t)
                    /\ inflight = [type |-> "in", blk |-> devpos \div blksz]
                 \/ Storing(t) /\ ~Fetching(t)
                    /\ inflight = [type |-> "out", blk |-> bufblkno]
<1>1. dev_wait # {} /\ dev_wait \subseteq Threads BY DEF DataInv, IInv, OneRequest, ControlTyped
<1>2. PICK t \in dev_wait : TRUE BY <1>1
<1>3. t \in Threads /\ pc[t] \in Waiting BY <1>1, <1>2 DEF DataInv, IInv, OneRequest
<1>4. pc[t] \in Holding BY <1>3 DEF Waiting, Holding
<1>5. op[t] \in {"open", "read", "write"} BY <1>3, <1>4, Holder
<1>6. \/ Fetching(t) /\ ~Storing(t)
      \/ Storing(t) /\ ~Fetching(t)
  BY <1>3, <1>5, Parts DEF Waiting, Fetching, Storing, CallsOK
<1>7. /\ Fetching(t) => inflight = [type |-> "in", blk |-> devpos \div blksz]
      /\ Storing(t) => inflight = [type |-> "out", blk |-> bufblkno]
  BY <1>3, Parts DEF BufferOK
<1> QED BY <1>3, <1>4, <1>6, <1>7

\* What a stored block covers: bytes of the writer's file that it has still to write.
LEMMA Stored ==
    ASSUME DataInv, NEW t \in Threads, Storing(t)
    PROVE  /\ bufblkno = devpos \div blksz /\ devpos % blksz = 0
           /\ \A x \in Int : x \in Span(bufblkno) <=> \E j \in 0 .. blksz - 1 : x = devpos + j
           /\ \A j \in 0 .. blksz - 1 :
                 /\ ByteAt(File(t), Pos(t) + Moved(t) + j) = devpos + j
                 /\ Pos(t) + Moved(t) + j \in Rest(t)
                 /\ Pos(t) + Moved(t) + j \in 0 .. FileSize[File(t)] - 1
                 /\ devpos + j >= DataStart
<1>1. pc[t] = "xfer_ret" /\ op[t] = "write" BY DEF Storing
<1>2. bufblkno = devpos \div blksz BY Parts DEF BufferOK
<1>3. devpos % blksz = 0 /\ m[t] >= blksz BY <1>1, AtBoundary
<1>4. devpos \in Nat BY Parts DEF DataTyped
<1>5. devpos = blksz * bufblkno /\ bufblkno \in Int
  <2>1. devpos = blksz * (devpos \div blksz) + (devpos % blksz) /\ devpos \div blksz \in Int
    BY <1>4, Sizes, DivMod
  <2> QED BY <1>2, <1>3, <2>1, Sizes
<1>6. ASSUME NEW x \in Int
      PROVE  x \in Span(bufblkno) <=> \E j \in 0 .. blksz - 1 : x = devpos + j
  <2>1. bufblkno * blksz = devpos /\ (bufblkno + 1) * blksz - 1 = devpos + blksz - 1
    BY <1>5, Sizes
  <2>2. x \in Span(bufblkno) <=> x \in devpos .. devpos + blksz - 1 BY <2>1 DEF Span
  <2>3. x \in devpos .. devpos + blksz - 1 => x - devpos \in 0 .. blksz - 1 /\ x = devpos + (x - devpos)
    BY <1>4, Sizes
  <2> QED BY <1>4, <2>2, <2>3, Sizes
<1>7. ASSUME NEW j \in 0 .. blksz - 1
      PROVE  /\ ByteAt(File(t), Pos(t) + Moved(t) + j) = devpos + j
             /\ Pos(t) + Moved(t) + j \in Rest(t)
             /\ Pos(t) + Moved(t) + j \in 0 .. FileSize[File(t)] - 1
             /\ devpos + j >= DataStart
  <2>1. /\ m[t] \in Nat /\ n[t] \in Nat /\ chunk[t] \in Nat /\ Moved(t) \in Nat
        /\ m[t] <= chunk[t] /\ chunk[t] <= n[t] /\ Moved(t) + m[t] = chunk[t]
    BY <1>1, AtData
  <2>2. j \in 0 .. m[t] - 1 /\ j \in Nat BY <1>3, <2>1, Sizes
  <2>3. /\ ByteAt(File(t), Pos(t) + Moved(t) + j) = devpos + j
        /\ Pos(t) + Moved(t) + j \in 0 .. FileSize[File(t)] - 1
        /\ devpos + j >= DataStart
    BY <1>1, <2>2, AtData
  <2>4. Pos(t) \in Nat
    <3>1. handle[t] # NoSlot BY <1>1, Parts DEF CallsOK
    <3> QED BY <3>1, OwnSlot
  <2>5. Pos(t) + Moved(t) + j \in Pos(t) + Moved(t) .. Pos(t) + n[t] - 1 BY <2>1, <2>2, <2>4
  <2> QED BY <2>3, <2>5 DEF Rest, Pos
<1> QED BY <1>2, <1>3, <1>6, <1>7

LEMMA CompleteOK == ASSUME DataInv, Complete PROVE DataOK'
<1>1. /\ inflight # NoReq /\ inflight' = NoReq /\ failed' = FALSE
      /\ disk' = IF inflight.type = "in" THEN disk
                 ELSE [x \in DOMAIN disk |->
                         IF x \in Span(inflight.blk) THEN blkbuf[x % blksz] ELSE disk[x]]
      /\ blkbuf' = IF inflight.type = "out" THEN blkbuf
                   ELSE [i \in 0 .. blksz - 1 |-> disk[inflight.blk * blksz + i]]
      /\ UNCHANGED <<devpos, bufblkno, flags, file_pos, file_size, inode_num,
                     handle, op, n, chunk, m, got, pc>>
  <2>1. Faults = FALSE BY KfsAssumption DEF DataInv, Plain
  <2>2. {FALSE, Faults} = {FALSE} BY <2>1
  <2> QED BY <2>2 DEF Complete, fdVars, callVars
<1>2. PICK t \in Threads :
        /\ pc[t] \in Holding
        /\ \/ Fetching(t) /\ ~Storing(t)
              /\ inflight = [type |-> "in", blk |-> devpos \div blksz]
           \/ Storing(t) /\ ~Fetching(t)
              /\ inflight = [type |-> "out", blk |-> bufblkno]
  BY <1>1, Requester
<1>3. \A u \in Threads : u # t => pc[u] \in {"user", "acquire"} BY <1>2, Holder
<1>4. \A u \in Threads : /\ Pos(u)' = Pos(u) /\ File(u)' = File(u) /\ Moved(u)' = Moved(u)
                         /\ (Fetching(u)' <=> Fetching(u)) /\ (Storing(u)' <=> Storing(u))
  BY <1>1 DEF Pos, File, Moved, Fetching, Storing
<1>5. CallsOK' BY <1>1, Parts DEF CallsOK
<1>6. WithinFile' BY <1>1, <1>4, Parts DEF WithinFile
<1>7. WholeBlocks' BY <1>1, <1>4, Parts DEF WholeBlocks
<1>8. WithinBlock' BY <1>1, <1>4, Parts DEF WithinBlock
<1>9. DeviceAt'
  <2>1. ASSUME NEW u \in Threads
        PROVE  /\ TableAt(File(u)', 0) = TableAt(File(u), 0)
               /\ TableAt(File(u)', Pos(u)' \div BLOCK_SIZE + 1) = TableAt(File(u), Pos(u) \div BLOCK_SIZE + 1)
               /\ ByteAt(File(u)', Pos(u)') = ByteAt(File(u), Pos(u))
    BY <1>4
  <2> QED BY <1>1, <1>4, <2>1, Parts DEF DeviceAt
<1>10. NoReq' = NoReq BY DEF NoReq
<1>11. \A u \in Threads : u # t => ~Fetching(u) /\ ~Storing(u) BY <1>3 DEF Fetching, Storing
<1>12. CASE Fetching(t) /\ ~Storing(t) /\ inflight = [type |-> "in", blk |-> devpos \div blksz]
  <2> DEFINE k == devpos \div blksz
  <2>1. disk' = disk /\ blkbuf' = [i \in 0 .. blksz - 1 |-> disk[k * blksz + i]]
    BY <1>1, <1>12
  <2>2. DataTyped' BY <1>1, <2>1, Parts DEF DataTyped
  <2>3. Buffered(devpos \div blksz)' BY <1>1, <2>1 DEF Buffered
  <2>4. BufferOK' BY <1>1, <1>4, <1>10, <1>11, <1>12, <2>3 DEF BufferOK
  <2>5. TablesOK' BY <2>1, SameTables
  <2> QED BY <1>5, <1>6, <1>7, <1>8, <1>9, <2>2, <2>4, <2>5 DEF DataOK
<1>13. CASE Storing(t) /\ ~Fetching(t) /\ inflight = [type |-> "out", blk |-> bufblkno]
  <2>1. /\ blkbuf' = blkbuf
        /\ disk' = [x \in 0 .. DiskEnd |-> IF x \in Span(bufblkno) THEN blkbuf[x % blksz] ELSE disk[x]]
    BY <1>1, <1>13, Parts DEF DataTyped
  <2>2. \A i \in 0 .. blksz - 1 : blkbuf[i] = t BY <1>13, Parts DEF BufferOK
  <2>3. \A x \in 0 .. DiskEnd : x % blksz \in 0 .. blksz - 1 BY DiskEnds, Sizes, DivMod
  <2>4. \A x \in 0 .. DiskEnd : disk'[x] = IF x \in Span(bufblkno) THEN t ELSE disk[x]
    BY <2>1, <2>2, <2>3
  <2>5. t \in Nat BY KfsAssumption
  <2>6. disk' \in [0 .. DiskEnd -> Nat] BY <2>1, <2>4, <2>5, Parts DEF DataTyped
  <2>7. DataTyped' BY <1>1, <2>1, <2>6, Parts DEF DataTyped
  <2>8. Buffered(bufblkno)'
    <3> SUFFICES ASSUME NEW i \in 0 .. blksz - 1, bufblkno * blksz + i <= DiskEnd
                 PROVE  blkbuf[i] = disk'[bufblkno * blksz + i]
      BY <1>1, <2>1 DEF Buffered
    <3>1. bufblkno \in Nat BY Parts DEF DataTyped
    <3>2. bufblkno * blksz + i \in 0 .. DiskEnd
      <4>1. bufblkno * blksz \in Nat BY <3>1, Sizes
      <4> QED BY <4>1, Sizes, DiskEnds
    <3>3. bufblkno * blksz + i \in Span(bufblkno) BY <3>1, Sizes DEF Span
    <3> QED BY <2>2, <2>4, <3>2, <3>3
  <2>9. BufferOK' BY <1>1, <1>4, <1>10, <1>11, <1>13, <2>1, <2>2, <2>8, Parts DEF BufferOK
  <2>10. TablesOK'
    <3>1. ASSUME NEW f \in Files, NEW k \in 0 .. BLOCK_SIZE - 1
          PROVE  disk'[TableAt(f, k)] = disk[TableAt(f, k)]
      <4>1. TableAt(f, k) \in Nat /\ TableAt(f, k) < DataStart BY TablePlace
      <4>2. DataStart \in Int BY Sizes DEF DataStart
      <4>3. TableAt(f, k) \in 0 .. DiskEnd BY <4>1, <4>2, DiskEnds
      <4>4. TableAt(f, k) \notin Span(bufblkno)
        <5> SUFFICES ASSUME TableAt(f, k) \in Span(bufblkno) PROVE FALSE OBVIOUS
        <5>1. PICK j \in 0 .. blksz - 1 : TableAt(f, k) = devpos + j BY <1>13, <4>1, Stored
        <5>2. devpos + j >= DataStart BY <1>13, Stored
        <5>3. TableAt(f, k) \in Int BY <4>1
        <5> QED BY <4>1, <4>2, <5>1, <5>2, <5>3
      <4> QED BY <2>4, <4>3, <4>4
    <3>2. \A f \in Files : DOMAIN Blocks[f] \subseteq 0 .. BLOCK_SIZE - 1
      BY SMTT(30), DiskAssumption, Sizes
    <3> QED BY <3>1, <3>2, Parts, Sizes DEF TablesOK
  <2> QED BY <1>5, <1>6, <1>7, <1>8, <1>9, <2>7, <2>9, <2>10 DEF DataOK
<1> QED BY <1>2, <1>12, <1>13

\* Nothing changes but who waits.
LEMMA QuietOK ==
    ASSUME DataInv,
           UNCHANGED <<disk, inflight, failed, devpos, bufblkno, blkbuf, file_pos, file_size,
                       inode_num, handle, op, n, chunk, m, got, pc>>
    PROVE  DataOK'
<1>1. \A u \in Threads : /\ Pos(u)' = Pos(u) /\ File(u)' = File(u) /\ Moved(u)' = Moved(u)
                         /\ (Fetching(u)' <=> Fetching(u)) /\ (Storing(u)' <=> Storing(u))
  BY DEF Pos, File, Moved, Fetching, Storing
<1>2. DataTyped' BY Parts DEF DataTyped
<1>3. CallsOK' BY Parts DEF CallsOK
<1>4. WithinFile' BY <1>1, Parts DEF WithinFile
<1>5. WholeBlocks' BY <1>1, Parts DEF WholeBlocks
<1>6. WithinBlock' BY <1>1, Parts DEF WithinBlock
<1>7. DeviceAt'
  <2>1. ASSUME NEW u \in Threads
        PROVE  /\ TableAt(File(u)', 0) = TableAt(File(u), 0)
               /\ TableAt(File(u)', Pos(u)' \div BLOCK_SIZE + 1) = TableAt(File(u), Pos(u) \div BLOCK_SIZE + 1)
               /\ ByteAt(File(u)', Pos(u)') = ByteAt(File(u), Pos(u))
    BY <1>1
  <2> QED BY <1>1, <2>1, Parts DEF DeviceAt
<1>8. BufferOK'
  <2>1. NoReq' = NoReq BY DEF NoReq
  <2>2. (Buffered(bufblkno)' <=> Buffered(bufblkno))
        /\ (Buffered(devpos \div blksz)' <=> Buffered(devpos \div blksz))
    BY DEF Buffered
  <2> QED BY <1>1, <2>1, <2>2, Parts DEF BufferOK
<1>9. TablesOK' BY SameTables
<1> QED BY <1>2, <1>3, <1>4, <1>5, <1>6, <1>7, <1>8, <1>9 DEF DataOK

LEMMA AcquireOK == ASSUME DataInv, NEW t \in Threads, Acquire(t) PROVE DataOK'
<1>1. /\ pc[t] = "acquire"
      /\ pc' \in {pc, [pc EXCEPT ![t] = "loop"]}
      /\ UNCHANGED <<disk, inflight, failed, devpos, bufblkno, blkbuf, flags, file_pos, file_size,
                     inode_num, handle, op, n, chunk, m, got>>
  BY DEF Acquire, Runs, Goto, devVars, drvVars, fdVars, callVars
<1>2. CASE pc' = pc BY <1>1, <1>2, QuietOK
<1>3. CASE pc' = [pc EXCEPT ![t] = "loop"]
  <2>1. pc'[t] = "loop" /\ \A u \in Threads : u # t => pc'[u] = pc[u] BY <1>3, Parts
  <2>2. \A u \in Threads : Pos(u)' = Pos(u) /\ File(u)' = File(u) /\ Moved(u)' = Moved(u)
    BY <1>1 DEF Pos, File, Moved
  <2>3. \A u \in Threads : (Fetching(u)' <=> Fetching(u)) /\ (Storing(u)' <=> Storing(u))
    BY <1>1, <2>1 DEF Fetching, Storing
  <2>4. DataTyped' BY <1>1, Parts DEF DataTyped
  <2>5. CallsOK' BY <1>1, <2>1, Parts DEF CallsOK
  <2>6. WithinFile' BY <1>1, <2>2, Parts DEF WithinFile
  <2>7. WholeBlocks' BY <1>1, <2>2, Parts DEF WholeBlocks
  <2>8. WithinBlock' BY <1>1, <2>1, <2>2, Parts DEF WithinBlock
  <2>9. DeviceAt'
    <3>1. ASSUME NEW u \in Threads
          PROVE  /\ TableAt(File(u)', 0) = TableAt(File(u), 0)
                 /\ TableAt(File(u)', Pos(u)' \div BLOCK_SIZE + 1) = TableAt(File(u), Pos(u) \div BLOCK_SIZE + 1)
                 /\ ByteAt(File(u)', Pos(u)') = ByteAt(File(u), Pos(u))
      BY <2>2
    <3> QED BY <1>1, <2>1, <2>2, <3>1, Parts DEF DeviceAt
  <2>10. BufferOK'
    <3>1. NoReq' = NoReq BY DEF NoReq
    <3>2. (Buffered(bufblkno)' <=> Buffered(bufblkno))
          /\ (Buffered(devpos \div blksz)' <=> Buffered(devpos \div blksz))
      BY <1>1 DEF Buffered
    <3> QED BY <1>1, <2>3, <3>1, <3>2, Parts DEF BufferOK
  <2>11. TablesOK' BY <1>1, SameTables
  <2> QED BY <2>4, <2>5, <2>6, <2>7, <2>8, <2>9, <2>10, <2>11 DEF DataOK
<1> QED BY <1>1, <1>2, <1>3

\* What the calls up to the lock have in common: t is the one that changes, and
\* neither the device nor those under the lock see it.
LEMMA BeginOK ==
    ASSUME DataInv, NEW t \in Threads, pc[t] = "user", pc'[t] \in {"user", "acquire"},
           UNCHANGED <<disk, inflight, failed, devpos, bufblkno, blkbuf, chunk, m, got>>,
           \A u \in Threads : u # t =>
              /\ pc'[u] = pc[u] /\ op'[u] = op[u] /\ n'[u] = n[u] /\ handle'[u] = handle[u]
              /\ handle[u] # NoSlot =>
                    /\ Pos(u)' = Pos(u) /\ File(u)' = File(u)
                    /\ file_size'[handle[u]] = file_size[handle[u]],
           file_pos' \in [Slots -> Nat], file_size' \in [Slots -> Nat],
           inode_num' \in [Slots -> Files],
           op' \in [Threads -> {"none", "open", "read", "write"}], n' \in [Threads -> Nat],
           pc'[t] = "user" <=> op'[t] = "none",
           op'[t] # "none" => handle'[t] # NoSlot,
           op'[t] \in {"none", "open"} => n'[t] = 0,
           handle'[t] # NoSlot =>
              IF op'[t] = "open" THEN Pos(t)' = 0
              ELSE /\ file_size'[handle'[t]] = FileSize[File(t)']
                   /\ Pos(t)' + n'[t] <= FileSize[File(t)'],
           op'[t] = "write" => Pos(t)' % blksz = 0 /\ n'[t] % blksz = 0
    PROVE  DataOK'
<1>1. DataTyped' BY Parts DEF DataTyped
<1>2. chunk[t] = 0 /\ m[t] = 0 /\ got[t] = <<>> BY Parts DEF CallsOK
<1>3. CallsOK'
  <2> DEFINE Ok(u) == /\ pc[u] = "user" <=> op[u] = "none"
                      /\ op[u] # "none" => handle[u] # NoSlot
                      /\ op[u] \in {"none", "open"} => n[u] = 0
                      /\ pc[u] \in {"user", "acquire", "loop"} \/ op[u] = "open" => chunk[u] = 0 /\ m[u] = 0
                      /\ pc[u] \in {"user", "acquire"} \/ op[u] # "read" => got[u] = <<>>
                      /\ pc[u] \in {"xfer", "xfer_ret"} => op[u] # "open"
                      /\ pc[u] # "pre_ret"
  <2>1. \A u \in Threads : Ok(u) BY Parts DEF CallsOK
  <2>2. ASSUME NEW u \in Threads, u # t PROVE Ok(u)'
    <3>1. /\ pc'[u] = pc[u] /\ op'[u] = op[u] /\ n'[u] = n[u] /\ handle'[u] = handle[u]
          /\ chunk'[u] = chunk[u] /\ m'[u] = m[u] /\ got'[u] = got[u]
      BY <2>2
    <3>2. Ok(u) BY <2>1
    <3> QED BY ONLY <3>1, <3>2
  <2>3. Ok(t)' BY <1>2
  <2> QED BY <2>2, <2>3 DEF CallsOK
<1>4. \A u \in Threads : op[u] # "none" => handle[u] # NoSlot BY Parts DEF CallsOK
<1>5. \A u \in Threads : pc[u] \in {"entry", "entry_ret", "xfer", "xfer_ret"} => u # t /\ op[u] # "none"
  BY Parts DEF CallsOK
<1>6. WithinFile'
  <2> SUFFICES ASSUME NEW u \in Threads, handle'[u] # NoSlot
               PROVE  IF op'[u] = "open" THEN Pos(u)' = 0
                      ELSE /\ file_size'[handle'[u]] = FileSize[File(u)']
                           /\ Pos(u)' + n'[u] <= FileSize[File(u)']
    BY DEF WithinFile
  <2>1. CASE u = t BY <2>1
  <2>2. CASE u # t
    <3>1. /\ Pos(u)' = Pos(u) /\ File(u)' = File(u) /\ n'[u] = n[u] /\ op'[u] = op[u]
          /\ handle'[u] = handle[u] /\ handle[u] # NoSlot
          /\ file_size'[handle[u]] = file_size[handle[u]]
      BY <2>2
    <3>2. IF op[u] = "open" THEN Pos(u) = 0
          ELSE file_size[handle[u]] = FileSize[File(u)] /\ Pos(u) + n[u] <= FileSize[File(u)]
      BY <3>1, Parts DEF WithinFile
    <3>3. Pos(u)' + n'[u] = Pos(u) + n[u] /\ FileSize[File(u)'] = FileSize[File(u)] BY <3>1
    <3> QED BY <3>1, <3>2, <3>3
  <2> QED BY <2>1, <2>2
<1>7. WholeBlocks'
  <2>1. 0 % blksz = 0 BY Sizes
  <2> QED BY <1>2, <1>4, <2>1, Parts DEF WholeBlocks
<1>8. WithinBlock'
  <2> SUFFICES ASSUME NEW u \in Threads, pc'[u] \in {"entry", "entry_ret", "xfer", "xfer_ret"}, op'[u] # "open"
               PROVE  /\ 0 < m'[u] /\ m'[u] <= chunk'[u] /\ chunk'[u] <= n'[u]
                      /\ (Pos(u)' % BLOCK_SIZE) + chunk'[u] <= BLOCK_SIZE
    BY DEF WithinBlock
  <2>1. u # t OBVIOUS
  <2>2. /\ pc'[u] = pc[u] /\ op'[u] = op[u] /\ n'[u] = n[u] BY <2>1
  <2>3. Pos(u)' = Pos(u) BY <1>4, <1>5, <2>1, <2>2
  <2> QED BY <2>2, <2>3, Parts DEF WithinBlock
<1>9. DeviceAt'
  <2>1. ASSUME NEW u \in Threads, pc'[u] \in {"entry", "entry_ret", "xfer", "xfer_ret"}
        PROVE  /\ pc'[u] = pc[u] /\ op'[u] = op[u]
               /\ Pos(u)' = Pos(u) /\ File(u)' = File(u) /\ Moved(u)' = Moved(u)
    <3>1. u # t BY <2>1
    <3>2. pc'[u] = pc[u] BY <3>1
    <3>3. handle[u] # NoSlot BY <1>4, <1>5, <2>1, <3>2
    <3> QED BY <3>1, <3>3 DEF Moved
  <2>2. ASSUME NEW u \in Threads, Pos(u)' = Pos(u), File(u)' = File(u)
        PROVE  /\ TableAt(File(u)', 0) = TableAt(File(u), 0)
               /\ TableAt(File(u)', Pos(u)' \div BLOCK_SIZE + 1) = TableAt(File(u), Pos(u) \div BLOCK_SIZE + 1)
               /\ ByteAt(File(u)', Pos(u)') = ByteAt(File(u), Pos(u))
    BY <2>2
  <2> QED BY <2>1, <2>2, Parts DEF DeviceAt
<1>10. BufferOK'
  <2>1. NoReq' = NoReq BY DEF NoReq
  <2>2. \A u \in Threads : (Fetching(u)' <=> Fetching(u)) /\ (Storing(u)' <=> Storing(u))
    BY DEF Fetching, Storing
  <2>3. (Buffered(bufblkno)' <=> Buffered(bufblkno))
        /\ (Buffered(devpos \div blksz)' <=> Buffered(devpos \div blksz))
    BY DEF Buffered
  <2> QED BY <2>1, <2>2, <2>3, Parts DEF BufferOK
<1>11. TablesOK' BY SameTables
<1> QED BY <1>1, <1>3, <1>6, <1>7, <1>8, <1>9, <1>10, <1>11 DEF DataOK


LEMMA OpenOK ==
    ASSUME DataInv, NEW t \in Threads, NEW f \in Files \cup {NoFile}, Open(t, f) PROVE DataOK'
<1> DEFINE s == Min({x \in Slots : ~flags[x]})
<1>1. /\ pc[t] = "user" /\ handle[t] = NoSlot
      /\ \E x \in Slots : ~flags[x]
      /\ file_pos' = [file_pos EXCEPT ![s] = 0]
      /\ \/ f = NoFile /\ UNCHANGED <<inode_num, handle, op, pc>>
         \/ /\ f \in Files
            /\ inode_num' = [inode_num EXCEPT ![s] = f]
            /\ handle' = [handle EXCEPT ![t] = s]
            /\ op' = [op EXCEPT ![t] = "open"]
            /\ pc' = [pc EXCEPT ![t] = "acquire"]
      /\ UNCHANGED <<disk, inflight, failed, devpos, bufblkno, blkbuf, file_size, n, chunk, m, got>>
  BY DEF Open, Idle, Goto, devVars, drvVars
<1>2. s \in Slots /\ ~flags[s] BY <1>1, Parts, FreeSlot
<1> HIDE DEF s
<1>3. \A u \in Threads : handle[u] # NoSlot => handle[u] \in Slots /\ handle[u] # s
  BY <1>2, Parts DEF DataInv, IInv, SlotsKept
<1>4. /\ pc \in [Threads -> Holding \cup {"user", "acquire"}]
      /\ handle \in [Threads -> Slots \cup {NoSlot}] /\ NoSlot \notin Slots
      /\ op \in [Threads -> {"none", "open", "read", "write"}] /\ n \in [Threads -> Nat]
      /\ file_pos \in [Slots -> Nat] /\ file_size \in [Slots -> Nat] /\ inode_num \in [Slots -> Files]
  BY Parts DEF DataTyped
<1>5. op[t] = "none" /\ n[t] = 0 BY <1>1, Parts DEF CallsOK
<1>6. \A u \in Threads : u # t =>
         pc'[u] = pc[u] /\ op'[u] = op[u] /\ n'[u] = n[u] /\ handle'[u] = handle[u]
  BY <1>1, <1>4
<1>7. \A u \in Threads : u # t /\ handle[u] # NoSlot =>
         /\ Pos(u)' = Pos(u) /\ File(u)' = File(u)
         /\ file_size'[handle[u]] = file_size[handle[u]]
  BY <1>1, <1>3, <1>4, <1>6 DEF Pos, File
<1>8. /\ file_pos' \in [Slots -> Nat] /\ file_size' \in [Slots -> Nat]
      /\ inode_num' \in [Slots -> Files]
      /\ op' \in [Threads -> {"none", "open", "read", "write"}] /\ n' \in [Threads -> Nat]
  <2>1. n' \in [Threads -> Nat] /\ file_size' \in [Slots -> Nat] BY <1>1, <1>4
  <2>2. file_pos' \in [Slots -> Nat] BY <1>1, <1>4
  <2>3. inode_num' \in [Slots -> Files] /\ op' \in [Threads -> {"none", "open", "read", "write"}]
    <3>1. CASE inode_num' = inode_num /\ op' = op BY <1>4, <3>1
    <3>2. CASE f \in Files /\ inode_num' = [inode_num EXCEPT ![s] = f]
               /\ op' = [op EXCEPT ![t] = "open"]
      BY <1>4, <3>2
    <3> QED BY <1>1, <3>1, <3>2
  <2> QED BY <2>1, <2>2, <2>3
<1>9. /\ pc'[t] \in {"user", "acquire"}
      /\ pc'[t] = "user" <=> op'[t] = "none"
      /\ op'[t] # "none" => handle'[t] # NoSlot
      /\ op'[t] \in {"none", "open"} /\ n'[t] = 0
      /\ handle'[t] # NoSlot => op'[t] = "open"
  BY <1>1, <1>2, <1>4, <1>5
<1>10. handle'[t] # NoSlot => Pos(t)' = 0 BY <1>1, <1>2, <1>4 DEF Pos
<1> QED BY <1>1, <1>6, <1>7, <1>8, <1>9, <1>10, BeginOK

\* What a read or a write is asked for is cut to what is left of the file.
LEMMA ClampedFits ==
    ASSUME DataInv, NEW t \in Threads, handle[t] # NoSlot, op[t] = "none", NEW k \in Counts
    PROVE  /\ Clamped(handle[t], k) \in Nat
           /\ file_size[handle[t]] = FileSize[File(t)]
           /\ Pos(t) + Clamped(handle[t], k) <= FileSize[File(t)]
<1>1. handle[t] \in Slots BY OwnSlot
<1>2. file_size[handle[t]] \in Nat /\ Pos(t) \in Nat /\ n[t] \in Nat /\ k \in Nat
  BY <1>1, Parts, KfsAssumption DEF DataTyped, Pos
<1>3. file_size[handle[t]] = FileSize[File(t)] /\ Pos(t) + n[t] <= FileSize[File(t)]
  BY Parts DEF WithinFile
<1> QED BY <1>2, <1>3 DEF Clamped, Pos

LEMMA TransferOK ==
    ASSUME DataInv, NEW t \in Threads, NEW call \in {"read", "write"}, NEW k \in Counts,
           Transfer(t, call, k)
    PROVE  DataOK'
<1> DEFINE c == Clamped(handle[t], k)
<1>1. /\ pc[t] = "user" /\ handle[t] # NoSlot
      /\ call = "write" => PartBlocks \/ Aligned(handle[t], k)
      /\ op' = [op EXCEPT ![t] = call]
      /\ n' = [n EXCEPT ![t] = c]
      /\ pc' = [pc EXCEPT ![t] = "acquire"]
      /\ UNCHANGED <<disk, inflight, failed, devpos, bufblkno, blkbuf, file_pos, file_size,
                     inode_num, handle, chunk, m, got>>
  BY DEF Transfer, Idle, Goto, devVars, drvVars, fdVars
<1>2. op[t] = "none" BY <1>1, Parts DEF CallsOK
<1>3. /\ c \in Nat /\ file_size[handle[t]] = FileSize[File(t)]
      /\ Pos(t) + c <= FileSize[File(t)]
  BY <1>1, <1>2, ClampedFits
<1>4. call = "write" => Pos(t) % blksz = 0 /\ c % blksz = 0 BY <1>1 DEF Aligned, Pos, DataInv, Plain
<1> HIDE DEF c
<1>5. /\ pc \in [Threads -> Holding \cup {"user", "acquire"}]
      /\ op \in [Threads -> {"none", "open", "read", "write"}] /\ n \in [Threads -> Nat]
      /\ file_pos \in [Slots -> Nat] /\ file_size \in [Slots -> Nat] /\ inode_num \in [Slots -> Files]
  BY Parts DEF DataTyped
<1>6. \A u \in Threads : u # t => pc'[u] = pc[u] /\ op'[u] = op[u] /\ n'[u] = n[u]
  BY <1>1, <1>5
<1>7. \A u \in Threads : Pos(u)' = Pos(u) /\ File(u)' = File(u) BY <1>1 DEF Pos, File
<1>8. /\ op' \in [Threads -> {"none", "open", "read", "write"}] /\ n' \in [Threads -> Nat]
      /\ pc'[t] = "acquire" /\ op'[t] = call /\ n'[t] = c
  BY <1>1, <1>3, <1>5
<1>9. IF op'[t] = "open" THEN Pos(t)' = 0
      ELSE /\ file_size'[handle'[t]] = FileSize[File(t)']
           /\ Pos(t)' + n'[t] <= FileSize[File(t)']
  BY <1>1, <1>3, <1>7, <1>8
<1>10. op'[t] = "write" => Pos(t)' % blksz = 0 /\ n'[t] % blksz = 0 BY <1>4, <1>7, <1>8
<1> QED BY <1>1, <1>5, <1>6, <1>7, <1>8, <1>9, <1>10, BeginOK

LEMMA SetPosOK == ASSUME DataInv, NEW t \in Threads, NEW p \in Seeks, SetPos(t, p) PROVE DataOK'
<1>1. /\ pc[t] = "user" /\ handle[t] # NoSlot
      /\ p <= file_size[handle[t]]
      /\ file_pos' = [file_pos EXCEPT ![handle[t]] = p]
      /\ UNCHANGED <<disk, inflight, failed, devpos, bufblkno, blkbuf, file_size, inode_num,
                     handle, op, n, chunk, m, got, pc>>
  BY DEF SetPos, Idle, devVars, drvVars, callVars
<1>2. op[t] = "none" /\ n[t] = 0 BY <1>1, Parts DEF CallsOK
<1>3. handle[t] \in Slots /\ \A u \in Threads : u # t => handle[u] # handle[t] BY <1>1, OwnSlot
<1>4. /\ handle \in [Threads -> Slots \cup {NoSlot}]
      /\ op \in [Threads -> {"none", "open", "read", "write"}] /\ n \in [Threads -> Nat]
      /\ file_pos \in [Slots -> Nat] /\ file_size \in [Slots -> Nat] /\ inode_num \in [Slots -> Files]
      /\ p \in Nat
  BY Parts, KfsAssumption DEF DataTyped
<1>5. file_size[handle[t]] = FileSize[File(t)] BY <1>1, <1>2, Parts DEF WithinFile
<1>6. \A u \in Threads : File(u)' = File(u) BY <1>1 DEF File
<1>7. \A u \in Threads : u # t /\ handle[u] # NoSlot => Pos(u)' = Pos(u)
  BY <1>1, <1>3, <1>4 DEF Pos
<1>8. Pos(t)' = p BY <1>1, <1>3, <1>4 DEF Pos
<1>9. file_pos' \in [Slots -> Nat] BY <1>1, <1>4
<1>10. file_size'[handle'[t]] = FileSize[File(t)'] /\ Pos(t)' + n'[t] <= FileSize[File(t)']
  BY <1>1, <1>2, <1>3, <1>4, <1>5, <1>6, <1>8
<1> QED BY <1>1, <1>2, <1>4, <1>6, <1>7, <1>9, <1>10, BeginOK

\* A descriptor is given back.
LEMMA CloseOK == ASSUME DataInv, NEW t \in Threads, Close(t) \/ EnterUser(t) PROVE DataOK'
<1>1. /\ pc[t] = "user" /\ handle[t] # NoSlot
      /\ handle' = [handle EXCEPT ![t] = NoSlot]
      /\ UNCHANGED <<disk, inflight, failed, devpos, bufblkno, blkbuf, file_pos, file_size,
                     inode_num, op, n, chunk, m, got, pc>>
  BY DEF Close, EnterUser, Idle, devVars, drvVars, fdVars
<1>2. op[t] = "none" /\ n[t] = 0 BY <1>1, Parts DEF CallsOK
<1>3. /\ handle \in [Threads -> Slots \cup {NoSlot}]
      /\ op \in [Threads -> {"none", "open", "read", "write"}] /\ n \in [Threads -> Nat]
      /\ file_pos \in [Slots -> Nat] /\ file_size \in [Slots -> Nat] /\ inode_num \in [Slots -> Files]
  BY Parts DEF DataTyped
<1>4. \A u \in Threads : u # t => handle'[u] = handle[u] /\ Pos(u)' = Pos(u) /\ File(u)' = File(u)
  BY <1>1, <1>3 DEF Pos, File
<1>5. handle'[t] = NoSlot BY <1>1, <1>3
<1> QED BY <1>1, <1>2, <1>3, <1>4, <1>5, BeginOK

LEMMA DataStep == DataInv /\ [Next]_vars => DataInv'
<1> SUFFICES ASSUME DataInv, [Next]_vars PROVE DataInv' OBVIOUS
<1>1. IInv' BY StepKeeps DEF DataInv
<1>2. ASSUME UNCHANGED vars PROVE DataOK'
  BY <1>2, QuietOK DEF vars, devVars, drvVars, fdVars, callVars
<1>3. ASSUME Complete PROVE DataOK' BY <1>3, CompleteOK
<1>4. ASSUME Isr PROVE DataOK' BY <1>4, QuietOK DEF Isr, fdVars, callVars
<1>5. ASSUME NEW t \in Threads, Step(t) PROVE DataOK'
  <2>1. ~EntryFailed(t) /\ ~TransferFailed(t) /\ ~PreRead(t) BY NotTaken
  <2> QED BY <1>5, <2>1, AcquireOK, LoopOK, LoopOpenOK, DoneOK, FetchOK, FetchedOK, EntryHitOK,
             ReadHitOK, WriteBlockOK, WriteDoneOK DEF Step
<1>6. ASSUME NEW t \in Threads, Call(t) PROVE DataOK'
  <2>1. \A u \in Threads : ~Fork(t, u) BY DEF Fork, DataInv, Plain
  <2>2. CASE OpenFull(t)
    BY <2>2, QuietOK DEF OpenFull, vars, devVars, drvVars, fdVars, callVars
  <2> QED BY <1>6, <2>1, <2>2, OpenOK, TransferOK, SetPosOK, CloseOK DEF Call
<1>7. DataOK' BY <1>2, <1>3, <1>4, <1>5, <1>6 DEF Next
<1> QED BY <1>1, <1>7 DEF DataInv, Plain

LEMMA DataInvariant == Plain /\ Spec => []DataInv
<1>1. Plain /\ Init => DataInv BY InitIInv, InitDataOK DEF DataInv
<1> QED BY <1>1, DataStep, PTL DEF Spec


------------------------------------------------------------------------------
(* The calls are atomic: the refinement *)

\* What AtomicFiles sees of a thread.
View(t) == <<OpenFile(t), Position(t), Calling(t), Asked(t), Decided(t), Result(t)>>

LEMMA Unseen ==
    ASSUME Contents' = Contents, \A u \in Threads : View(u)' = View(u)
    PROVE  UNCHANGED Atomic!vars
<1>1. \A u \in Threads : /\ OpenFile(u)' = OpenFile(u) /\ Position(u)' = Position(u)
                         /\ Calling(u)' = Calling(u) /\ Asked(u)' = Asked(u)
                         /\ Decided(u)' = Decided(u) /\ Result(u)' = Result(u)
  BY DEF View
<1> QED BY <1>1 DEF Atomic!vars

\* Who holds the lock before or after a step is the only one whose view depends
\* on more than its call and its descriptor.
LEMMA Bystander ==
    ASSUME NEW u \in Threads, lk_tid # u, lk_tid' # u,
           op'[u] = op[u], n'[u] = n[u], handle'[u] = handle[u],
           handle[u] # NoSlot => Pos(u)' = Pos(u) /\ File(u)' = File(u)
    PROVE  View(u)' = View(u)
<1>1. Calling(u)' = Calling(u) /\ (IsOpen(u)' <=> IsOpen(u)) BY DEF Calling, IsOpen
<1>2. ~Decided(u) /\ ~Decided(u)' /\ ~Moving(u, "read") /\ ~Moving(u, "read")'
  BY DEF Decided, Moving
<1>3. Decided(u)' = Decided(u) /\ Asked(u)' = Asked(u) /\ Result(u)' = Result(u)
  BY <1>2 DEF Decided, Asked, Result
<1>4. IsOpen(u) => handle[u] # NoSlot BY DEF IsOpen
<1>5. OpenFile(u)' = OpenFile(u) BY <1>1, <1>4 DEF OpenFile, File
<1>6. Position(u)' = Position(u) BY <1>1, <1>2, <1>4 DEF Position, Pos
<1> QED BY <1>1, <1>3, <1>5, <1>6 DEF View

LEMMA SameContents ==
    ASSUME \A f \in Files : \A p \in 0 .. FileSize[f] - 1 :
              (IF Unwritten(f, p)' THEN lk_tid' ELSE disk'[ByteAt(f, p)])
                 = IF Unwritten(f, p) THEN lk_tid ELSE disk[ByteAt(f, p)]
    PROVE  Contents' = Contents
BY DEF Contents

\* What the holder of the lock has to write.
LEMMA HolderWrites ==
    ASSUME NEW t \in Threads, lk_tid = t, NEW f, NEW p
    PROVE  Unwritten(f, p) <=>
              op[t] = "write" /\ File(t) = f /\ p \in Pos(t) + Moved(t) .. Pos(t) + n[t] - 1
BY DEF Unwritten, Moving, Rest, File, Pos

LEMMA HolderWillWrite ==
    ASSUME NEW t \in Threads, lk_tid' = t, NEW f, NEW p
    PROVE  Unwritten(f, p)' <=>
              op'[t] = "write" /\ File(t)' = f /\ p \in Pos(t)' + Moved(t)' .. Pos(t)' + n'[t] - 1
BY DEF Unwritten, Moving, Rest, File, Pos

LEMMA NothingUnwritten ==
    /\ \A t \in Threads : NoThread # t
    /\ lk_tid = NoThread => \A f, p : ~Unwritten(f, p)
    /\ lk_tid' = NoThread => \A f, p : ~Unwritten(f, p)'
<1>1. \A t \in Threads : NoThread # t BY KfsAssumption DEF NoThread
<1> QED BY <1>1 DEF Unwritten, Moving

\* Steps that change neither the disk nor what the calls have to do.
LEMMA QuietMaps ==
    ASSUME UNCHANGED <<disk, lk_tid, file_pos, inode_num, handle, op, n, got>>,
           \A u \in Threads : Moved(u)' = Moved(u)
    PROVE  UNCHANGED Atomic!vars
<1>1. \A u \in Threads, c \in {"read", "write"} :
         (Moving(u, c)' <=> Moving(u, c)) /\ Rest(u)' = Rest(u)
  BY DEF Moving, Rest
<1>2. Contents' = Contents
  <2>1. ASSUME NEW f \in Files, NEW p \in 0 .. FileSize[f] - 1
        PROVE  (IF Unwritten(f, p)' THEN lk_tid' ELSE disk'[ByteAt(f, p)])
                 = IF Unwritten(f, p) THEN lk_tid ELSE disk[ByteAt(f, p)]
    <3>1. Unwritten(f, p)' <=> Unwritten(f, p) BY <1>1 DEF Unwritten
    <3> QED BY <3>1
  <2> QED BY <2>1, SameContents
<1>3. ASSUME NEW u \in Threads PROVE View(u)' = View(u)
  <2>1. Calling(u)' = Calling(u) /\ (IsOpen(u)' <=> IsOpen(u)) BY DEF Calling, IsOpen
  <2>2. (Decided(u)' <=> Decided(u)) /\ Decided(u)' = Decided(u) BY <2>1 DEF Decided
  <2>3. OpenFile(u)' = OpenFile(u) BY <2>1 DEF OpenFile
  <2>4. Position(u)' = Position(u) /\ Asked(u)' = Asked(u) BY <2>1, <2>2 DEF Position, Asked
  <2>5. ToRead(u)' = ToRead(u)
    <3>1. n'[u] - Moved(u)' = n[u] - Moved(u) OBVIOUS
    <3> QED BY <3>1 DEF ToRead
  <2>6. Result(u)' = Result(u) BY <1>1, <2>5 DEF Result
  <2> QED BY <2>1, <2>2, <2>3, <2>4, <2>6 DEF View
<1> QED BY <1>2, <1>3, Unseen


\* The files are as they were when the device has stored what a write will write.
LEMMA CompleteMaps == ASSUME DataInv, Complete PROVE UNCHANGED Atomic!vars
<1>1. /\ inflight # NoReq
      /\ UNCHANGED <<lk_tid, file_pos, inode_num, handle, op, n, chunk, m, got>>
  BY DEF Complete, lkVars, fdVars, callVars
<1>2. \A u \in Threads : Moved(u)' = Moved(u) /\ Pos(u)' = Pos(u) /\ File(u)' = File(u)
  BY <1>1 DEF Moved, Pos, File
<1>3. PICK t \in Threads :
        /\ lk_tid = t /\ pc[t] \in Holding
        /\ \/ Fetching(t) /\ ~Storing(t) /\ inflight = [type |-> "in", blk |-> devpos \div blksz]
           \/ Storing(t) /\ ~Fetching(t) /\ inflight = [type |-> "out", blk |-> bufblkno]
  BY <1>1, Requester, Holder
<1>4. CASE Fetching(t) /\ ~Storing(t) /\ inflight = [type |-> "in", blk |-> devpos \div blksz]
  <2>1. disk' = disk BY <1>4 DEF Complete
  <2> QED BY <1>1, <1>2, <2>1, QuietMaps
<1>5. CASE Storing(t) /\ ~Fetching(t) /\ inflight = [type |-> "out", blk |-> bufblkno]
  <2>1. op[t] = "write" BY <1>5 DEF Storing
  <2>2. \A x \in 0 .. DiskEnd : disk'[x] = disk[x] \/ x \in Span(bufblkno)
    <3>1. DOMAIN disk = 0 .. DiskEnd BY Parts DEF DataTyped
    <3>2. \/ disk' = disk
          \/ disk' = [x \in DOMAIN disk |-> IF x \in Span(bufblkno) THEN blkbuf[x % blksz] ELSE disk[x]]
      BY <1>5 DEF Complete
    <3> QED BY <3>1, <3>2
  <2>3. ASSUME NEW f \in Files, NEW p \in 0 .. FileSize[f] - 1
        PROVE  (IF Unwritten(f, p)' THEN lk_tid' ELSE disk'[ByteAt(f, p)])
                 = IF Unwritten(f, p) THEN lk_tid ELSE disk[ByteAt(f, p)]
    <3>1. Unwritten(f, p)' <=> Unwritten(f, p)
      <4>1. lk_tid' = t BY <1>1, <1>3
      <4>2. Unwritten(f, p) <=>
              op[t] = "write" /\ File(t) = f /\ p \in Pos(t) + Moved(t) .. Pos(t) + n[t] - 1
        BY <1>3, HolderWrites
      <4>3. Unwritten(f, p)' <=>
              op'[t] = "write" /\ File(t)' = f /\ p \in Pos(t)' + Moved(t)' .. Pos(t)' + n'[t] - 1
        BY <4>1, HolderWillWrite
      <4> QED BY <1>1, <1>2, <4>2, <4>3
    <3>2. FileSize[f] \in Nat /\ p \in Nat /\ p < FileSize[f] BY DiskAssumption
    <3>3. ByteAt(f, p) \in 0 .. DiskEnd BY <3>2, BytePlace
    <3>4. ASSUME ByteAt(f, p) \in Span(bufblkno) PROVE Unwritten(f, p)
      <4>1. ByteAt(f, p) \in Int BY <3>2, BytePlace
      <4>2. PICK j \in 0 .. blksz - 1 : ByteAt(f, p) = devpos + j BY <1>5, <3>4, <4>1, Stored
      <4> DEFINE q == Pos(t) + Moved(t) + j
      <4>3. ByteAt(File(t), q) = devpos + j /\ q \in Rest(t) /\ q \in 0 .. FileSize[File(t)] - 1
        BY <1>5, Stored
      <4>4. handle[t] # NoSlot BY <1>3, Holder, Parts
      <4>5. File(t) \in Files /\ FileSize[File(t)] \in Nat BY <4>4, OwnSlot
      <4> HIDE DEF q
      <4>6. q \in Nat /\ q < FileSize[File(t)] BY <4>3, <4>5
      <4>7. File(t) = f /\ p = q BY <3>2, <4>2, <4>3, <4>5, <4>6, BytesApart
      <4> QED BY <1>3, <2>1, <4>3, <4>7 DEF Unwritten, Moving, File
    <3> QED BY <1>1, <2>2, <3>1, <3>3, <3>4
  <2>4. Contents' = Contents BY <2>3, SameContents
  <2>5. ASSUME NEW u \in Threads PROVE View(u)' = View(u)
    <3>1. CASE u # t BY <1>1, <1>2, <1>3, <3>1, Bystander
    <3>2. CASE u = t
      <4>1. Calling(u)' = Calling(u) /\ (IsOpen(u)' <=> IsOpen(u)) BY <1>1 DEF Calling, IsOpen
      <4>2. Decided(u)' = Decided(u) BY <1>1, <4>1 DEF Decided
      <4>3. OpenFile(u)' = OpenFile(u) BY <1>1, <4>1 DEF OpenFile
      <4>4. Position(u)' = Position(u) /\ Asked(u)' = Asked(u) BY <1>1, <4>1, <4>2 DEF Position, Asked
      <4>5. Result(u)' = Result(u) BY <1>1, <2>1, <3>2 DEF Result, Moving
      <4> QED BY <4>1, <4>2, <4>3, <4>4, <4>5 DEF View
    <3> QED BY <3>1, <3>2
  <2> QED BY <2>4, <2>5, Unseen
<1> QED BY <1>3, <1>4, <1>5

LEMMA SilentSteps ==
    ASSUME DataInv, NEW t \in Threads,
           \/ Isr \/ UNCHANGED vars
           \/ Loop(t) \/ LoopOpen(t) \/ Fetch(t) \/ Fetched(t) \/ WriteBlock(t)
           \/ EntryHit(t) /\ op[t] # "open"
           \/ Acquire(t) /\ lk_tid' = lk_tid
    PROVE  UNCHANGED Atomic!vars
<1>1. UNCHANGED <<disk, lk_tid, file_pos, inode_num, handle, op, n, got>>
  BY DEF Isr, Loop, LoopOpen, Fetch, Fetched, WriteBlock, EntryHit, Acquire, Entry, Submit,
         vars, devVars, drvVars, lkVars, fdVars, callVars
<1>2. ASSUME UNCHANGED <<chunk, m>> PROVE \A u \in Threads : Moved(u)' = Moved(u)
  BY <1>2 DEF Moved
<1>3. ASSUME Loop(t) PROVE \A u \in Threads : Moved(u)' = Moved(u)
  <2> DEFINE left == BLOCK_SIZE - (file_pos[handle[t]] % BLOCK_SIZE)
             k == IF n[t] > left THEN left ELSE n[t]
  <2>1. chunk' = [chunk EXCEPT ![t] = k] /\ m' = [m EXCEPT ![t] = k] BY <1>3 DEF Loop
  <2>2. handle[t] \in Slots
    <3>1. pc[t] \in Holding BY <1>3 DEF Loop, Runs, Holding
    <3> QED BY <3>1, Holder
  <2>3. k \in Int
    <3>1. file_pos[handle[t]] \in Nat /\ n[t] \in Nat BY <2>2, Parts DEF DataTyped
    <3>2. file_pos[handle[t]] % BLOCK_SIZE \in 0 .. BLOCK_SIZE - 1 BY <3>1, Sizes, DivMod
    <3> QED BY <3>1, <3>2, Sizes
  <2> HIDE DEF k
  <2>4. chunk[t] = 0 /\ m[t] = 0
    <3>1. pc[t] = "loop" BY <1>3 DEF Loop, Runs
    <3> QED BY <3>1, Parts DEF CallsOK
  <2> QED BY <2>1, <2>3, <2>4, Parts DEF DataTyped, Moved
<1>4. ~Loop(t) => UNCHANGED <<chunk, m>>
  BY DEF Isr, LoopOpen, Fetch, Fetched, WriteBlock, EntryHit, Acquire, Entry, Submit,
         vars, devVars, drvVars, lkVars, fdVars, callVars
<1> QED BY <1>1, <1>2, <1>3, <1>4, QuietMaps

LEMMA InitMaps == Init => Atomic!Init
<1> SUFFICES ASSUME Init PROVE Atomic!Init OBVIOUS
<1> USE DEF Init
<1>1. Contents = [f \in Files |-> [p \in 0 .. FileSize[f] - 1 |-> Fresh(f, p)]]
  <2>1. \A f, p : ~Unwritten(f, p) BY NothingUnwritten
  <2>2. \A f \in Files : \A p \in 0 .. FileSize[f] - 1 : disk[ByteAt(f, p)] = Fresh(f, p)
    BY InitDiskOK
  <2> QED BY <2>1, <2>2 DEF Contents
<1>2. \A u \in Threads : /\ OpenFile(u) = NoFile /\ Position(u) = 0 /\ Calling(u) = "none"
                         /\ Asked(u) = 0 /\ ~Decided(u) /\ Decided(u) = FALSE /\ Result(u) = <<>>
  BY NothingUnwritten DEF OpenFile, Position, Calling, Asked, Decided, Result, IsOpen, Moving
<1> QED BY <1>1, <1>2 DEF Atomic!Init, Atomic!Files, Files


\* A step of t shows in what t sees, and in the files.
LEMMA OneSeen ==
    ASSUME NEW t \in Threads, \A u \in Threads : u # t => View(u)' = View(u)
    PROVE  /\ [u \in Threads |-> OpenFile(u)]'
                 = [[u \in Threads |-> OpenFile(u)] EXCEPT ![t] = OpenFile(t)']
           /\ [u \in Threads |-> Position(u)]'
                 = [[u \in Threads |-> Position(u)] EXCEPT ![t] = Position(t)']
           /\ [u \in Threads |-> Calling(u)]'
                 = [[u \in Threads |-> Calling(u)] EXCEPT ![t] = Calling(t)']
           /\ [u \in Threads |-> Asked(u)]'
                 = [[u \in Threads |-> Asked(u)] EXCEPT ![t] = Asked(t)']
           /\ [u \in Threads |-> Decided(u)]'
                 = [[u \in Threads |-> Decided(u)] EXCEPT ![t] = Decided(t)']
           /\ [u \in Threads |-> Result(u)]'
                 = [[u \in Threads |-> Result(u)] EXCEPT ![t] = Result(t)']
<1>1. \A u \in Threads : u # t =>
         /\ OpenFile(u)' = OpenFile(u) /\ Position(u)' = Position(u)
         /\ Calling(u)' = Calling(u) /\ Asked(u)' = Asked(u)
         /\ Decided(u)' = Decided(u) /\ Result(u)' = Result(u)
  BY DEF View
<1> QED BY <1>1

\* A thread outside the lock does not disturb the others.
LEMMA OthersSeen ==
    ASSUME DataInv, NEW t \in Threads, pc[t] \in {"user", "acquire"},
           UNCHANGED <<disk, lk_tid, chunk, m, got>>,
           \A u \in Threads : u # t =>
              /\ op'[u] = op[u] /\ n'[u] = n[u] /\ handle'[u] = handle[u]
              /\ handle[u] # NoSlot => Pos(u)' = Pos(u) /\ File(u)' = File(u)
    PROVE  /\ lk_tid # t
           /\ Contents' = Contents
           /\ \A u \in Threads : u # t => View(u)' = View(u)
<1>1. /\ \A u \in Threads : pc[u] \in Holding <=> lk_tid = u
      /\ lk_tid \in Threads \cup {NoThread}
  BY DEF DataInv, IInv, LockHeld, ControlTyped
<1>2. lk_tid # t BY <1>1 DEF Holding
<1>3. CASE lk_tid = NoThread
  <2>1. \A f \in Files : \A p \in 0 .. FileSize[f] - 1 : ~Unwritten(f, p) /\ ~Unwritten(f, p)'
    BY <1>3, NothingUnwritten
  <2>2. Contents' = Contents BY <2>1, SameContents
  <2>3. \A u \in Threads : u # t => View(u)' = View(u) BY <1>3, NothingUnwritten, Bystander
  <2> QED BY <1>2, <2>2, <2>3
<1>4. CASE lk_tid # NoThread
  <2>1. PICK h \in Threads : lk_tid = h BY <1>1, <1>4
  <2>2. pc[h] \in Holding /\ h # t BY <1>1, <1>2, <2>1
  <2>3. handle[h] # NoSlot BY <2>2, Holder, Parts
  <2>4. /\ op'[h] = op[h] /\ n'[h] = n[h] /\ handle'[h] = handle[h]
        /\ Pos(h)' = Pos(h) /\ File(h)' = File(h) /\ Moved(h)' = Moved(h) /\ got'[h] = got[h]
    BY <2>2, <2>3 DEF Moved
  <2>5. ASSUME NEW f \in Files, NEW p \in 0 .. FileSize[f] - 1
        PROVE  Unwritten(f, p)' <=> Unwritten(f, p)
    <3>1. Unwritten(f, p) <=>
            op[h] = "write" /\ File(h) = f /\ p \in Pos(h) + Moved(h) .. Pos(h) + n[h] - 1
      BY <2>2, <2>1, HolderWrites
    <3>2. Unwritten(f, p)' <=>
            op'[h] = "write" /\ File(h)' = f /\ p \in Pos(h)' + Moved(h)' .. Pos(h)' + n'[h] - 1
      BY <2>2, <2>1, HolderWillWrite
    <3> QED BY <2>4, <3>1, <3>2
  <2>6. Contents' = Contents BY <2>5, SameContents
  <2>7. View(h)' = View(h)
    <3>1. Calling(h)' = Calling(h) /\ (IsOpen(h)' <=> IsOpen(h)) BY <2>4 DEF Calling, IsOpen
    <3>2. Decided(h)' = Decided(h) BY <2>1, <3>1 DEF Decided
    <3>3. OpenFile(h)' = OpenFile(h) BY <2>4, <3>1 DEF OpenFile, File
    <3>4. Position(h)' = Position(h) /\ Asked(h)' = Asked(h)
      BY <2>4, <3>1, <3>2 DEF Position, Asked, Pos
    <3>5. ToRead(h)' = ToRead(h)
      <4>1. n'[h] - Moved(h)' = n[h] - Moved(h) BY <2>4
      <4> QED BY <2>4, <4>1 DEF ToRead, Pos, File
    <3>6. Result(h)' = Result(h)
      <4>1. Moving(h, "read")' <=> Moving(h, "read") BY <2>4, <2>1 DEF Moving
      <4> QED BY <2>4, <3>5, <4>1 DEF Result
    <3> QED BY <3>1, <3>2, <3>3, <3>4, <3>6 DEF View
  <2>8. ASSUME NEW u \in Threads, u # t PROVE View(u)' = View(u)
    <3>1. CASE u = h BY <2>7, <3>1
    <3>2. CASE u # h BY <2>1, <2>8, <3>2, Bystander
    <3> QED BY <3>1, <3>2
  <2> QED BY <1>2, <2>6, <2>8
<1> QED BY <1>3, <1>4

\* What a thread sees of its open file between its calls.
LEMMA SeenOutside ==
    ASSUME NEW t \in Threads, lk_tid # t
    PROVE  /\ Decided(t) = FALSE /\ Asked(t) = n[t] /\ Result(t) = <<>>
           /\ Position(t) = IF IsOpen(t) THEN Pos(t) + 0 ELSE 0
           /\ OpenFile(t) = IF IsOpen(t) THEN File(t) ELSE NoFile
<1>1. ~Decided(t) /\ Decided(t) = FALSE /\ ~Moving(t, "read") BY DEF Decided, Moving
<1> QED BY <1>1 DEF Asked, Result, Position, OpenFile, Pos, File

LEMMA SeenAfter ==
    ASSUME NEW t \in Threads, lk_tid' # t
    PROVE  /\ Decided(t)' = FALSE /\ Asked(t)' = n'[t] /\ Result(t)' = <<>>
           /\ Position(t)' = IF IsOpen(t)' THEN Pos(t)' + 0 ELSE 0
           /\ OpenFile(t)' = IF IsOpen(t)' THEN File(t)' ELSE NoFile
<1>1. ~Decided(t)' /\ Decided(t)' = FALSE /\ ~Moving(t, "read")' BY DEF Decided, Moving
<1> QED BY <1>1 DEF Asked, Result, Position, OpenFile, Pos, File


\* fs_open shows when it has read the length, not before.
LEMMA OpenMaps ==
    ASSUME DataInv, NEW t \in Threads, NEW f \in Files \cup {NoFile}, Open(t, f)
    PROVE  UNCHANGED Atomic!vars
<1> DEFINE s == Min({x \in Slots : ~flags[x]})
<1>1. /\ pc[t] = "user" /\ handle[t] = NoSlot
      /\ \E x \in Slots : ~flags[x]
      /\ file_pos' = [file_pos EXCEPT ![s] = 0]
      /\ inode_num' \in {inode_num, [inode_num EXCEPT ![s] = f]}
      /\ \/ UNCHANGED <<handle, op>>
         \/ /\ handle' = [handle EXCEPT ![t] = s]
            /\ op' = [op EXCEPT ![t] = "open"]
      /\ UNCHANGED <<disk, lk_tid, n, chunk, m, got>>
  BY DEF Open, Idle, devVars, lkVars
<1>2. s \in Slots /\ ~flags[s] BY <1>1, Parts, FreeSlot
<1> HIDE DEF s
<1>3. \A u \in Threads : handle[u] # NoSlot => handle[u] \in Slots /\ handle[u] # s
  BY <1>2, Parts DEF DataInv, IInv, SlotsKept
<1>4. /\ handle \in [Threads -> Slots \cup {NoSlot}]
      /\ op \in [Threads -> {"none", "open", "read", "write"}]
      /\ file_pos \in [Slots -> Nat] /\ inode_num \in [Slots -> Files]
  BY Parts DEF DataTyped
<1>5. \A u \in Threads : u # t => op'[u] = op[u] /\ n'[u] = n[u] /\ handle'[u] = handle[u]
  BY <1>1, <1>4
<1>6. \A u \in Threads : u # t /\ handle[u] # NoSlot => Pos(u)' = Pos(u) /\ File(u)' = File(u)
  BY <1>1, <1>3, <1>4, <1>5 DEF Pos, File
<1>7. lk_tid # t /\ Contents' = Contents /\ \A u \in Threads : u # t => View(u)' = View(u)
  BY <1>1, <1>5, <1>6, OthersSeen
<1>8. View(t)' = View(t)
  <2>1. op[t] = "none" /\ n[t] = 0 /\ n'[t] = n[t] BY <1>1, Parts DEF CallsOK
  <2>2. \/ op'[t] = "none" /\ handle'[t] = NoSlot
        \/ op'[t] = "open"
    BY <1>1, <1>4, <2>1
  <2>3. ~IsOpen(t) /\ ~IsOpen(t)' /\ Calling(t) = "none" /\ Calling(t)' = "none"
    BY <1>1, <2>1, <2>2 DEF IsOpen, Calling
  <2>4. lk_tid # t /\ lk_tid' # t BY <1>1, <1>7
  <2> QED BY <2>1, <2>3, <2>4, SeenOutside, SeenAfter DEF View
<1> QED BY <1>7, <1>8, Unseen

LEMMA NoFileIsNone == \A f \in Files : f # NoFile
<1>1. \A f \in Files : f >= 0 BY DiskAssumption, Sizes
<1> QED BY <1>1 DEF NoFile

LEMMA TransferMaps ==
    ASSUME DataInv, NEW t \in Threads, NEW call \in {"read", "write"}, NEW k \in Counts,
           Transfer(t, call, k)
    PROVE  \E f \in Files : \E c \in 0 .. FileSize[f] : Atomic!Call(t, call, c)
<1> DEFINE c == Clamped(handle[t], k)
<1>1. /\ pc[t] = "user" /\ handle[t] # NoSlot
      /\ op' = [op EXCEPT ![t] = call]
      /\ n' = [n EXCEPT ![t] = c]
      /\ UNCHANGED <<disk, lk_tid, file_pos, inode_num, handle, chunk, m, got>>
  BY DEF Transfer, Idle, devVars, lkVars, fdVars
<1>2. op[t] = "none" /\ n[t] = 0 BY <1>1, Parts DEF CallsOK
<1>3. c \in Nat /\ Pos(t) + c <= FileSize[File(t)] BY <1>1, <1>2, ClampedFits
<1>4. File(t) \in Files /\ Pos(t) \in Nat /\ FileSize[File(t)] \in Nat BY <1>1, OwnSlot
<1> HIDE DEF c
<1>5. op \in [Threads -> {"none", "open", "read", "write"}] /\ n \in [Threads -> Nat]
  BY Parts DEF DataTyped
<1>6. \A u \in Threads : Pos(u)' = Pos(u) /\ File(u)' = File(u) BY <1>1 DEF Pos, File
<1>7. lk_tid # t /\ Contents' = Contents /\ \A u \in Threads : u # t => View(u)' = View(u)
  <2>1. \A u \in Threads : u # t => op'[u] = op[u] /\ n'[u] = n[u] /\ handle'[u] = handle[u]
    BY <1>1, <1>5
  <2> QED BY <1>1, <1>6, <2>1, OthersSeen
<1>8. op'[t] = call /\ n'[t] = c /\ handle'[t] = handle[t] BY <1>1, <1>5
<1>9. /\ IsOpen(t) /\ IsOpen(t)' /\ Calling(t) = "none" /\ Calling(t)' = call
  BY <1>1, <1>2, <1>8 DEF IsOpen, Calling
<1>10. /\ OpenFile(t) = File(t) /\ OpenFile(t)' = OpenFile(t)
       /\ Position(t) = Pos(t) /\ Position(t)' = Position(t)
       /\ Asked(t)' = c
       /\ Decided(t)' = Decided(t) /\ Result(t)' = Result(t)
  <2>1. lk_tid # t /\ lk_tid' # t BY <1>1, <1>7
  <2>2. /\ Decided(t) = FALSE /\ Decided(t)' = FALSE /\ Result(t) = <<>> /\ Result(t)' = <<>>
        /\ OpenFile(t) = File(t) /\ OpenFile(t)' = File(t)' /\ Asked(t)' = n'[t]
        /\ Position(t) = Pos(t) + 0 /\ Position(t)' = Pos(t)' + 0
    BY <1>9, <2>1, SeenOutside, SeenAfter
  <2>3. Position(t) = Pos(t) /\ Position(t)' = Pos(t) BY <1>4, <1>6, <2>2
  <2> QED BY <1>6, <1>8, <2>2, <2>3
<1>11. File(t) # NoFile BY <1>4, NoFileIsNone
<1>12. Atomic!Call(t, call, c)
  <2>1. c \in 0 .. FileSize[File(t)] - Pos(t) BY <1>3, <1>4
  <2> QED BY <1>7, <1>9, <1>10, <1>11, <2>1, OneSeen DEF Atomic!Call
<1>13. c \in 0 .. FileSize[File(t)] BY <1>3, <1>4
<1> QED BY <1>4, <1>12, <1>13

LEMMA SetPosMaps ==
    ASSUME DataInv, NEW t \in Threads, NEW p \in Seeks, SetPos(t, p)
    PROVE  \E f \in Files : p \in 0 .. FileSize[f] /\ Atomic!Seek(t, p)
<1>1. /\ pc[t] = "user" /\ handle[t] # NoSlot
      /\ p <= file_size[handle[t]]
      /\ file_pos' = [file_pos EXCEPT ![handle[t]] = p]
      /\ UNCHANGED <<disk, lk_tid, inode_num, handle, op, n, chunk, m, got>>
  BY DEF SetPos, Idle, devVars, lkVars, callVars
<1>2. op[t] = "none" /\ n[t] = 0 BY <1>1, Parts DEF CallsOK
<1>3. handle[t] \in Slots /\ \A u \in Threads : u # t => handle[u] # handle[t] BY <1>1, OwnSlot
<1>4. File(t) \in Files /\ Pos(t) \in Nat /\ FileSize[File(t)] \in Nat BY <1>1, OwnSlot
<1>5. file_size[handle[t]] = FileSize[File(t)] BY <1>1, <1>2, Parts DEF WithinFile
<1>6. p \in Nat /\ p <= FileSize[File(t)] BY <1>1, <1>5, KfsAssumption
<1>7. file_pos \in [Slots -> Nat] /\ handle \in [Threads -> Slots \cup {NoSlot}]
  BY Parts DEF DataTyped
<1>8. \A u \in Threads : File(u)' = File(u) BY <1>1 DEF File
<1>9. \A u \in Threads : u # t /\ handle[u] # NoSlot => Pos(u)' = Pos(u)
  BY <1>1, <1>3, <1>7 DEF Pos
<1>10. Pos(t)' = p BY <1>1, <1>3, <1>7 DEF Pos
<1>11. lk_tid # t /\ Contents' = Contents /\ \A u \in Threads : u # t => View(u)' = View(u)
  BY <1>1, <1>8, <1>9, OthersSeen
<1>12. IsOpen(t) /\ IsOpen(t)' /\ Calling(t) = "none" /\ Calling(t)' = Calling(t)
  BY <1>1, <1>2 DEF IsOpen, Calling
<1>13. /\ OpenFile(t) = File(t) /\ OpenFile(t)' = OpenFile(t)
       /\ Position(t)' = p
       /\ Asked(t)' = Asked(t)
       /\ Decided(t)' = Decided(t) /\ Result(t)' = Result(t)
  <2>1. lk_tid # t /\ lk_tid' # t BY <1>1, <1>11
  <2>2. /\ Decided(t) = FALSE /\ Decided(t)' = FALSE /\ Result(t) = <<>> /\ Result(t)' = <<>>
        /\ OpenFile(t) = File(t) /\ OpenFile(t)' = File(t)'
        /\ Asked(t) = n[t] /\ Asked(t)' = n'[t] /\ Position(t)' = Pos(t)' + 0
    BY <1>12, <2>1, SeenOutside, SeenAfter
  <2>3. Position(t)' = p BY <1>6, <1>10, <2>2
  <2> QED BY <1>1, <1>8, <2>2, <2>3
<1>14. File(t) # NoFile BY <1>4, NoFileIsNone
<1>15. Atomic!Seek(t, p)
  BY <1>6, <1>11, <1>12, <1>13, <1>14, OneSeen DEF Atomic!Seek
<1> QED BY <1>4, <1>6, <1>15

LEMMA CloseMaps ==
    ASSUME DataInv, NEW t \in Threads, Close(t) \/ EnterUser(t) PROVE Atomic!Close(t)
<1>1. /\ pc[t] = "user" /\ handle[t] # NoSlot
      /\ handle' = [handle EXCEPT ![t] = NoSlot]
      /\ UNCHANGED <<disk, lk_tid, file_pos, inode_num, op, n, chunk, m, got>>
  BY DEF Close, EnterUser, Idle, devVars, lkVars, fdVars
<1>2. op[t] = "none" /\ n[t] = 0 BY <1>1, Parts DEF CallsOK
<1>3. handle \in [Threads -> Slots \cup {NoSlot}] BY Parts
<1>4. \A u \in Threads : u # t => handle'[u] = handle[u] /\ Pos(u)' = Pos(u) /\ File(u)' = File(u)
  BY <1>1, <1>3 DEF Pos, File
<1>5. lk_tid # t /\ Contents' = Contents /\ \A u \in Threads : u # t => View(u)' = View(u)
  BY <1>1, <1>4, OthersSeen
<1>6. IsOpen(t) /\ ~IsOpen(t)' /\ Calling(t) = "none" /\ Calling(t)' = Calling(t)
  BY <1>1, <1>2, <1>3 DEF IsOpen, Calling
<1>7. /\ OpenFile(t) = File(t) /\ OpenFile(t)' = NoFile
      /\ Position(t)' = 0
      /\ Asked(t)' = Asked(t)
      /\ Decided(t)' = Decided(t) /\ Result(t)' = Result(t)
  <2>1. lk_tid # t /\ lk_tid' # t BY <1>1, <1>5
  <2> QED BY <1>1, <1>6, <2>1, SeenOutside, SeenAfter
<1>8. File(t) # NoFile BY <1>1, OwnSlot, NoFileIsNone
<1> QED BY <1>5, <1>6, <1>7, <1>8, OneSeen DEF Atomic!Close


\* The bytes of f from q on.
BytesAt(f, q, l) == [i \in 1 .. l |-> disk[ByteAt(f, q + i - 1)]]

LEMMA BytesAtSeq ==
    ASSUME DataInv, NEW f \in Files, NEW q \in Nat, NEW l \in Nat, q + l <= FileSize[f]
    PROVE  /\ BytesAt(f, q, l) \in Seq(Nat) /\ Len(BytesAt(f, q, l)) = l
           /\ \A i \in 1 .. l : /\ BytesAt(f, q, l)[i] = disk[ByteAt(f, q + i - 1)]
                                /\ q + i - 1 \in 0 .. FileSize[f] - 1
<1>0. FileSize[f] \in Nat BY DiskAssumption
<1>1. ASSUME NEW i \in 1 .. l
      PROVE  disk[ByteAt(f, q + i - 1)] \in Nat /\ q + i - 1 \in 0 .. FileSize[f] - 1
  <2> DEFINE p == q + i - 1
  <2>1. p \in Nat /\ p < FileSize[f] /\ p \in 0 .. FileSize[f] - 1 BY <1>0
  <2> HIDE DEF p
  <2>2. ByteAt(f, p) \in 0 .. DiskEnd BY <2>1, BytePlace
  <2>3. disk[ByteAt(f, p)] \in Nat BY <2>2, Parts DEF DataTyped
  <2> QED BY <2>1, <2>3 DEF p
<1>2. BytesAt(f, q, l) \in [1 .. l -> Nat] BY <1>1 DEF BytesAt
<1>3. \A i \in 1 .. l : BytesAt(f, q, l)[i] = disk[ByteAt(f, q + i - 1)] BY DEF BytesAt
<1>4. BytesAt(f, q, l) \in Seq(Nat) /\ Len(BytesAt(f, q, l)) = l
  <2> DEFINE s == BytesAt(f, q, l)
  <2>1. s \in [1 .. l -> Nat] BY <1>2
  <2> HIDE DEF s
  <2>2. s \in Seq(Nat) BY <2>1
  <2>3. Len(s) = l BY <2>1, <2>2
  <2> QED BY <2>2, <2>3 DEF s
<1> QED BY <1>1, <1>3, <1>4

LEMMA BytesAtSplit ==
    ASSUME DataInv, NEW f \in Files, NEW q \in Nat, NEW k \in Nat, NEW l \in Nat,
           q + k + l <= FileSize[f]
    PROVE  BytesAt(f, q, k) \o BytesAt(f, q + k, l) = BytesAt(f, q, k + l)
<1> DEFINE a == BytesAt(f, q, k)
           b == BytesAt(f, q + k, l)
           c == BytesAt(f, q, k + l)
<1>1. FileSize[f] \in Nat BY DiskAssumption
<1>2. a \in Seq(Nat) /\ Len(a) = k /\ \A i \in 1 .. k : a[i] = disk[ByteAt(f, q + i - 1)]
  <2>1. q + k <= FileSize[f] BY <1>1
  <2> QED BY <2>1, BytesAtSeq
<1>3. b \in Seq(Nat) /\ Len(b) = l /\ \A i \in 1 .. l : b[i] = disk[ByteAt(f, (q + k) + i - 1)]
  <2>1. q + k \in Nat BY <1>1
  <2>2. (q + k) + l <= FileSize[f] OBVIOUS
  <2> QED BY <2>1, <2>2, BytesAtSeq
<1>4. c \in Seq(Nat) /\ Len(c) = k + l /\ \A i \in 1 .. k + l : c[i] = disk[ByteAt(f, q + i - 1)]
  <2>1. k + l \in Nat /\ q + (k + l) <= FileSize[f] BY <1>1
  <2> QED BY <2>1, BytesAtSeq
<1> DEFINE ab == a \o b
<1> HIDE DEF a, b, c
<1>5. /\ ab \in Seq(Nat) /\ Len(ab) = k + l
      /\ \A i \in 1 .. k + l : ab[i] = IF i <= k THEN a[i] ELSE b[i - k]
  <2>1. \A v, w \in Seq(Nat) :
          /\ v \o w \in Seq(Nat) /\ Len(v \o w) = Len(v) + Len(w)
          /\ \A i \in 1 .. Len(v) + Len(w) :
                (v \o w)[i] = IF i <= Len(v) THEN v[i] ELSE w[i - Len(v)]
    BY ONLY ConcatProperties
  <2>2. a \in Seq(Nat) /\ b \in Seq(Nat) /\ Len(a) = k /\ Len(b) = l BY <1>2, <1>3
  <2> QED BY ONLY <2>1, <2>2 DEF ab
<1> HIDE DEF ab
<1>6. ASSUME NEW i \in 1 .. k + l PROVE ab[i] = c[i]
  <2>1. CASE i <= k
    <3>1. i \in 1 .. k BY <2>1
    <3>2. ab[i] = a[i] BY <1>5, <2>1
    <3>3. a[i] = disk[ByteAt(f, q + i - 1)] BY <1>2, <3>1
    <3> QED BY <1>4, <3>2, <3>3
  <2>2. CASE i > k
    <3>1. i - k \in 1 .. l BY <2>2
    <3>2. (q + k) + (i - k) - 1 = q + i - 1 OBVIOUS
    <3>3. b[i - k] = disk[ByteAt(f, q + i - 1)] BY <1>3, <3>1, <3>2
    <3>4. ab[i] = b[i - k] BY ONLY <1>5, <2>2, i \in 1 .. k + l, k \in Nat, l \in Nat
    <3>5. c[i] = disk[ByteAt(f, q + i - 1)] BY <1>4
    <3> QED BY ONLY <3>3, <3>4, <3>5
  <2> QED BY <2>1, <2>2
<1>7. ab = c BY <1>4, <1>5, <1>6
<1> QED BY <1>7 DEF a, b, c, ab

\* The call happens when the lock is taken.
LEMMA DecideMaps ==
    ASSUME DataInv, NEW t \in Threads, Acquire(t), lk_tid' # lk_tid
    PROVE  Atomic!Decide(t) \/ UNCHANGED Atomic!vars
<1>1. /\ pc[t] = "acquire" /\ lk_tid = NoThread /\ lk_tid' = t
      /\ UNCHANGED <<disk, file_pos, inode_num, handle, op, n, chunk, m, got>>
  BY DEF Acquire, Runs, MayTake, devVars, drvVars, fdVars, callVars
<1>2. \A u \in Threads : Pos(u)' = Pos(u) /\ File(u)' = File(u) /\ Moved(u)' = Moved(u)
  BY <1>1 DEF Pos, File, Moved
<1>3. /\ op[t] \in {"open", "read", "write"} /\ handle[t] # NoSlot
      /\ Moved(t) = 0 /\ got[t] = <<>> /\ n[t] \in Nat
      /\ op[t] = "open" => n[t] = 0
  BY <1>1, Parts DEF CallsOK, DataTyped, Moved
<1>4. File(t) \in Files /\ Pos(t) \in Nat /\ FileSize[File(t)] \in Nat BY <1>3, OwnSlot
<1>5. \A u \in Threads : u # t => View(u)' = View(u)
  <2> SUFFICES ASSUME NEW u \in Threads, u # t PROVE View(u)' = View(u) OBVIOUS
  <2>1. lk_tid # u /\ lk_tid' # u BY <1>1, NothingUnwritten
  <2> QED BY <1>1, <1>2, <2>1, Bystander
<1>6. \A f, p : ~Unwritten(f, p) BY <1>1, NothingUnwritten
<1>7. \A f \in Files : \A p \in 0 .. FileSize[f] - 1 :
         Unwritten(f, p)' <=>
              op[t] = "write" /\ File(t) = f /\ p \in Pos(t) .. Pos(t) + n[t] - 1
  <2> SUFFICES ASSUME NEW f \in Files, NEW p \in 0 .. FileSize[f] - 1
               PROVE  Unwritten(f, p)' <=>
                         op[t] = "write" /\ File(t) = f /\ p \in Pos(t) .. Pos(t) + n[t] - 1
    OBVIOUS
  <2>1. Unwritten(f, p)' <=>
              op'[t] = "write" /\ File(t)' = f /\ p \in Pos(t)' + Moved(t)' .. Pos(t)' + n'[t] - 1
    BY <1>1, HolderWillWrite
  <2>2. Pos(t)' + Moved(t)' = Pos(t) /\ Pos(t)' + n'[t] - 1 = Pos(t) + n[t] - 1
    BY <1>1, <1>2, <1>3, <1>4
  <2> QED BY <1>1, <1>2, <2>1, <2>2
<1>8. op[t] # "write" => Contents' = Contents BY <1>1, <1>6, <1>7, SameContents
<1>9. lk_tid # t BY <1>1, NothingUnwritten
<1>10. CASE op[t] = "open"
  <2>1. Calling(t) = "none" /\ Calling(t)' = "none" /\ ~IsOpen(t) /\ ~IsOpen(t)'
    BY <1>1, <1>10 DEF Calling, IsOpen
  <2>2. ~Decided(t)' /\ Decided(t)' = FALSE /\ ~Moving(t, "read")'
    BY <1>1, <1>10, <2>1 DEF Decided, Moving
  <2>3. /\ OpenFile(t)' = NoFile /\ Position(t)' = 0 /\ Asked(t)' = n[t] /\ Result(t)' = <<>>
    BY <1>1, <2>1, <2>2 DEF OpenFile, Position, Asked, Result
  <2>4. View(t)' = View(t) BY <1>9, <2>1, <2>2, <2>3, SeenOutside DEF View
  <2> QED BY <1>5, <1>8, <1>10, <2>4, Unseen
<1>11. CASE op[t] # "open"
  <2>1. /\ Calling(t) = op[t] /\ Calling(t)' = Calling(t) /\ Calling(t) # "none"
        /\ IsOpen(t) /\ IsOpen(t)'
    BY <1>1, <1>3, <1>11 DEF Calling, IsOpen
  <2>2. Decided(t) = FALSE /\ Decided(t)' = TRUE BY <1>1, <1>9, <2>1 DEF Decided
  <2>3. /\ OpenFile(t) = File(t) /\ OpenFile(t)' = OpenFile(t)
        /\ Position(t) = Pos(t) + 0 /\ Position(t)' = Pos(t) + n[t]
        /\ Asked(t) = n[t] /\ Asked(t)' = 0 /\ Result(t) = <<>>
    BY <1>1, <1>2, <2>1, <2>2 DEF OpenFile, Position, Asked, Result, Decided, Moving, File, Pos
  <2>4. Position(t) = Pos(t) BY <1>4, <2>3
  <2>5. Pos(t) + n[t] <= FileSize[File(t)] BY <1>3, <1>11, Parts DEF WithinFile
  <2>6. CASE op[t] = "read"
    <3>1. Result(t)' = BytesAt(File(t), Pos(t), n[t])
      <4> DEFINE s == BytesAt(File(t), Pos(t), n[t])
      <4>1. ToRead(t)' = s
        <5>1. n'[t] - Moved(t)' = n[t] BY <1>1, <1>2, <1>3
        <5>2. \A i \in 1 .. n[t] : Pos(t)' + Moved(t)' + i - 1 = Pos(t) + i - 1
          BY <1>2, <1>3, <1>4
        <5>3. ToRead(t)' = [i \in 1 .. n[t] |-> disk[ByteAt(File(t)', Pos(t)' + Moved(t)' + i - 1)]]
          BY <1>1, <5>1 DEF ToRead, Pos, File
        <5> QED BY <1>2, <5>2, <5>3 DEF BytesAt
      <4>2. s \in Seq(Nat) BY <1>3, <1>4, <2>5, BytesAtSeq
      <4> HIDE DEF s
      <4>3. <<>> \o s = s BY <4>2, ConcatEmptySeq
      <4>4. Moving(t, "read")' /\ got'[t] = <<>> BY <1>1, <1>3, <2>6 DEF Moving
      <4>5. Result(t)' = s BY <4>1, <4>3, <4>4 DEF Result
      <4> QED BY <4>5 DEF s
    <3>2. Result(t)' = [i \in 1 .. n[t] |-> Contents[File(t)][Pos(t) + i - 1]]
      <4>1. ASSUME NEW i \in 1 .. n[t]
            PROVE  disk[ByteAt(File(t), Pos(t) + i - 1)] = Contents[File(t)][Pos(t) + i - 1]
        <5>1. Pos(t) + i - 1 \in 0 .. FileSize[File(t)] - 1 BY <1>3, <1>4, <2>5
        <5> QED BY <1>4, <1>6, <5>1 DEF Contents
      <4> QED BY <3>1, <4>1 DEF BytesAt
    <3> DEFINE F == [u \in Threads |-> OpenFile(u)]
               P == [u \in Threads |-> Position(u)]
               A == [u \in Threads |-> Asked(u)]
    <3>3. F[t] = File(t) /\ P[t] = Pos(t) /\ A[t] = n[t] BY <2>3, <2>4
    <3> HIDE DEF F, P, A
    <3>4. Result(t)' = [i \in 1 .. A[t] |-> Contents[F[t]][P[t] + i - 1]] BY <3>2, <3>3
    <3> USE DEF F, P, A
    <3>5. /\ [u \in Threads |-> Result(u)]' = [[u \in Threads |-> Result(u)] EXCEPT ![t] =
                  [i \in 1 .. A[t] |-> Contents[F[t]][P[t] + i - 1]]]
          /\ UNCHANGED Contents
      BY <1>5, <1>8, <2>6, <3>4, OneSeen
    <3>6. [u \in Threads |-> Position(u)]' = [P EXCEPT ![t] = P[t] + A[t]]
      BY <1>5, <2>3, <3>3, OneSeen
    <3>7. /\ A' = [A EXCEPT ![t] = 0]
          /\ [u \in Threads |-> Decided(u)]' = [[u \in Threads |-> Decided(u)] EXCEPT ![t] = TRUE]
          /\ F' = F /\ [u \in Threads |-> Calling(u)]' = [u \in Threads |-> Calling(u)]
      BY <1>5, <2>1, <2>2, <2>3, OneSeen
    <3>8. /\ [u \in Threads |-> Calling(u)][t] = "read" /\ ~[u \in Threads |-> Decided(u)][t]
      BY <2>1, <2>2, <2>6
    <3> QED BY <3>5, <3>6, <3>7, <3>8 DEF Atomic!Decide
  <2>7. CASE op[t] = "write"
    <3>1. Result(t)' = Result(t) BY <1>1, <2>3, <2>7 DEF Result, Moving
    <3>2. Contents' = [Contents EXCEPT ![File(t)] =
                          [p \in DOMAIN @ |-> IF p \in Pos(t) .. Pos(t) + n[t] - 1 THEN t ELSE @[p]]]
      <4> DEFINE span == Pos(t) .. Pos(t) + n[t] - 1
                 old(f) == [p \in 0 .. FileSize[f] - 1 |-> disk[ByteAt(f, p)]]
                 new(f) == [p \in 0 .. FileSize[f] - 1 |->
                               IF f = File(t) /\ p \in span THEN t ELSE disk[ByteAt(f, p)]]
      <4>1. Contents = [f \in Files |-> old(f)] BY <1>6 DEF Contents
      <4>2. Contents' = [f \in Files |-> new(f)] BY <1>1, <1>7, <2>7 DEF Contents
      <4>3. \A f \in Files : f # File(t) => new(f) = old(f) OBVIOUS
      <4>4. new(File(t)) = [p \in DOMAIN old(File(t)) |->
                               IF p \in span THEN t ELSE old(File(t))[p]]
        OBVIOUS
      <4> HIDE DEF old, new
      <4>5. [f \in Files |-> new(f)]
              = [[f \in Files |-> old(f)] EXCEPT ![File(t)] =
                    [p \in DOMAIN @ |-> IF p \in span THEN t ELSE @[p]]]
        BY <1>4, <4>3, <4>4
      <4> QED BY <4>1, <4>2, <4>5
    <3> QED BY <1>5, <2>1, <2>2, <2>3, <2>4, <2>7, <3>1, <3>2, OneSeen DEF Atomic!Decide
  <2> QED BY <1>3, <1>11, <2>6, <2>7
<1> QED BY <1>10, <1>11


\* A call returns.
LEMMA ReturnSeen ==
    ASSUME DataInv, NEW t \in Threads, pc[t] \in Holding, Release(t), Return(t),
           UNCHANGED <<disk, file_pos, inode_num, handle>>
    PROVE  /\ op'[t] = "none" /\ n'[t] = 0 /\ lk_tid = t /\ lk_tid' # t /\ lk_tid' = NoThread
           /\ handle'[t] = handle[t] /\ handle[t] # NoSlot
           /\ Pos(t)' = Pos(t) /\ File(t)' = File(t) /\ Pos(t) \in Nat /\ File(t) \in Files
           /\ \A u \in Threads : u # t => View(u)' = View(u)
<1>1. lk_tid = t /\ handle[t] \in Slots /\ handle[t] # NoSlot BY Holder, Parts
<1>2. /\ op' = [op EXCEPT ![t] = "none"] /\ n' = [n EXCEPT ![t] = 0] /\ lk_tid' = NoThread
  BY DEF Release, Return
<1>3. \A u \in Threads : NoThread # u BY NothingUnwritten
<1>4. \A u \in Threads : Pos(u)' = Pos(u) /\ File(u)' = File(u) BY DEF Pos, File
<1>5. op'[t] = "none" /\ n'[t] = 0 BY <1>2, Parts DEF DataTyped
<1>6. \A u \in Threads : u # t => op'[u] = op[u] /\ n'[u] = n[u] BY <1>2, Parts DEF DataTyped
<1>7. \A u \in Threads : u # t => View(u)' = View(u)
  <2> SUFFICES ASSUME NEW u \in Threads, u # t PROVE View(u)' = View(u) OBVIOUS
  <2>1. lk_tid # u /\ lk_tid' # u BY <1>1, <1>2, <1>3
  <2> QED BY <1>4, <1>6, <2>1, Bystander
<1> QED BY <1>1, <1>2, <1>3, <1>4, <1>5, <1>7, OwnSlot

\* fs_open has read the length.
LEMMA OpenedMaps ==
    ASSUME DataInv, NEW t \in Threads, EntryHit(t), op[t] = "open"
    PROVE  \E f \in Files : Atomic!Open(t, f)
<1>1. /\ pc[t] \in Holding /\ Release(t) /\ Return(t)
      /\ UNCHANGED <<disk, file_pos, inode_num, handle>>
  BY DEF EntryHit, Runs, Entry, devVars, Holding
<1>2. /\ op'[t] = "none" /\ n'[t] = 0 /\ lk_tid = t /\ lk_tid' # t /\ lk_tid' = NoThread
      /\ handle'[t] = handle[t] /\ handle[t] # NoSlot
      /\ Pos(t)' = Pos(t) /\ File(t)' = File(t) /\ File(t) \in Files
      /\ \A u \in Threads : u # t => View(u)' = View(u)
  BY <1>1, ReturnSeen
<1>3. n[t] = 0 /\ Pos(t) = 0 BY <1>2, Parts DEF CallsOK, WithinFile
<1>4. Contents' = Contents
  <2>1. \A f \in Files : \A p \in 0 .. FileSize[f] - 1 : ~Unwritten(f, p) /\ ~Unwritten(f, p)'
    BY <1>2, HolderWrites, NothingUnwritten
  <2> QED BY <1>1, <2>1, SameContents
<1>5. /\ ~IsOpen(t) /\ IsOpen(t)' /\ Calling(t) = "none" /\ Calling(t)' = "none"
  BY <1>2 DEF IsOpen, Calling
<1>6. /\ Decided(t) = FALSE /\ ~Decided(t) /\ Result(t) = <<>> BY <1>5 DEF Decided, Result, Moving
<1>7. OpenFile(t) = NoFile /\ Position(t) = 0 /\ Asked(t) = 0
  BY <1>3, <1>5, <1>6 DEF OpenFile, Position, Asked
<1>8. /\ OpenFile(t)' = File(t)
      /\ Decided(t)' = FALSE /\ Result(t)' = <<>> /\ Asked(t)' = 0 /\ Position(t)' = Pos(t)' + 0
  BY <1>2, <1>5, SeenAfter
<1>9. Position(t)' = 0 BY <1>2, <1>3, <1>8
<1>10. /\ OpenFile(t)' = File(t) /\ Position(t)' = Position(t) /\ Calling(t)' = Calling(t)
       /\ Asked(t)' = Asked(t) /\ Decided(t)' = Decided(t) /\ Result(t)' = Result(t)
  BY <1>5, <1>6, <1>7, <1>8, <1>9
<1>11. Atomic!Open(t, File(t)) BY <1>2, <1>4, <1>7, <1>10, OneSeen DEF Atomic!Open
<1> QED BY <1>2, <1>11

\* A call that has moved all its bytes returns.
LEMMA DoneMaps ==
    ASSUME DataInv, NEW t \in Threads, Done(t) PROVE Atomic!Return(t)
<1>1. /\ pc[t] = "loop" /\ pc[t] \in Holding /\ Release(t) /\ Return(t) /\ op[t] # "open" /\ n[t] = 0
      /\ UNCHANGED <<disk, file_pos, inode_num, handle>>
  BY DEF Done, Runs, devVars, fdVars, Holding
<1>2. /\ op'[t] = "none" /\ n'[t] = 0 /\ lk_tid = t /\ lk_tid' # t /\ lk_tid' = NoThread
      /\ handle'[t] = handle[t] /\ handle[t] # NoSlot
      /\ Pos(t)' = Pos(t) /\ File(t)' = File(t) /\ Pos(t) \in Nat /\ File(t) \in Files
      /\ \A u \in Threads : u # t => View(u)' = View(u)
  BY <1>1, ReturnSeen
<1>3. op[t] \in {"read", "write"} BY <1>1, Holder
<1>4. Contents' = Contents
  <2>1. Moved(t) = 0 BY <1>1, Parts DEF CallsOK, Moved
  <2>2. \A f \in Files : \A p \in 0 .. FileSize[f] - 1 : ~Unwritten(f, p)
    <3> SUFFICES ASSUME NEW f \in Files, NEW p \in 0 .. FileSize[f] - 1 PROVE ~Unwritten(f, p)
      OBVIOUS
    <3>1. ~(p \in Pos(t) + Moved(t) .. Pos(t) + n[t] - 1) BY <1>1, <1>2, <2>1
    <3> QED BY <1>2, <3>1, HolderWrites
  <2>3. \A f, p : ~Unwritten(f, p)' BY <1>2, NothingUnwritten
  <2> QED BY <1>1, <2>2, <2>3, SameContents
<1>5. /\ IsOpen(t) /\ IsOpen(t)' /\ Calling(t) # "none" /\ Calling(t)' = "none"
  BY <1>1, <1>2, <1>3 DEF IsOpen, Calling
<1>6. Decided(t) /\ OpenFile(t) = File(t) /\ Position(t) = Pos(t) + n[t] /\ Asked(t) = 0
  BY <1>2, <1>5 DEF Decided, OpenFile, Position, Asked, File, Pos
<1>7. /\ OpenFile(t)' = File(t)'
      /\ Decided(t)' = FALSE /\ Result(t)' = <<>> /\ Asked(t)' = n'[t] /\ Position(t)' = Pos(t)' + 0
  BY <1>2, <1>5, SeenAfter
<1>8. /\ OpenFile(t)' = OpenFile(t) /\ Position(t)' = Position(t)
      /\ Asked(t)' = Asked(t) /\ Calling(t)' = "none" /\ Decided(t)' = FALSE /\ Result(t)' = <<>>
  <2>1. Position(t)' = Position(t) BY <1>1, <1>2, <1>6, <1>7
  <2> QED BY <1>2, <1>5, <1>6, <1>7, <2>1
<1> QED BY <1>2, <1>4, <1>6, <1>8, OneSeen DEF Atomic!Return


\* A round moves the point that the holder of the lock has reached.
LEMMA RoundSeen ==
    ASSUME DataInv, NEW t \in Threads, pc[t] \in {"xfer", "xfer_ret"},
           NEW k \in 1 .. m[t], Advance(t, k),
           UNCHANGED <<disk, lk_tid, inode_num, handle, op>>
    PROVE  /\ lk_tid = t /\ op[t] \in {"read", "write"}
           /\ File(t) \in Files /\ File(t)' = File(t)
           /\ Pos(t) + Moved(t) \in Nat /\ Pos(t) + n[t] \in Nat /\ n[t] - Moved(t) - k \in Nat
           /\ Pos(t)' + Moved(t)' = Pos(t) + Moved(t) + k
           /\ n'[t] - Moved(t)' = n[t] - Moved(t) - k
           /\ Pos(t)' + n'[t] = Pos(t) + n[t]
           /\ Pos(t) + (n[t] - 1) = (Pos(t) + n[t]) - 1
           /\ Pos(t)' + (n'[t] - 1) = (Pos(t) + n[t]) - 1
           /\ \A u \in Threads : u # t => View(u)' = View(u)
           /\ OpenFile(t)' = OpenFile(t) /\ Position(t)' = Position(t)
           /\ Calling(t)' = Calling(t) /\ Asked(t)' = Asked(t) /\ Decided(t)' = Decided(t)
<1>1. pc[t] \in Holding BY DEF Holding
<1>2. /\ lk_tid = t /\ op[t] \in {"read", "write"} /\ handle[t] \in Slots /\ handle[t] # NoSlot
      /\ \A u \in Threads : u # t => handle[u] # handle[t]
  BY <1>1, AtData, Holder, OwnSlot, Parts
<1>3. /\ n[t] \in Nat /\ chunk[t] \in Nat /\ m[t] \in Nat /\ m[t] <= chunk[t] /\ chunk[t] <= n[t]
      /\ Moved(t) = chunk[t] - m[t]
  BY AtData DEF Moved
<1>4. File(t) \in Files /\ Pos(t) \in Nat BY <1>2, OwnSlot
<1>5. \A u \in Threads : File(u)' = File(u) BY DEF File
<1>6. /\ file_pos \in [Slots -> Nat] /\ n \in [Threads -> Nat] /\ chunk \in [Threads -> Nat]
      /\ m \in [Threads -> Nat] /\ handle \in [Threads -> Slots \cup {NoSlot}]
  BY Parts DEF DataTyped
<1>7. m' = [m EXCEPT ![t] = @ - k] BY DEF Advance
<1>8. m'[t] = m[t] - k BY <1>6, <1>7
<1>9. /\ \/ /\ m[t] = k
            /\ file_pos' = [file_pos EXCEPT ![handle[t]] = @ + chunk[t]]
            /\ n' = [n EXCEPT ![t] = @ - chunk[t]]
            /\ chunk' = [chunk EXCEPT ![t] = 0]
         \/ UNCHANGED <<file_pos, n, chunk>>
  BY DEF Advance
<1>10. /\ \A u \in Threads : u # t => n'[u] = n[u]
       /\ \A u \in Threads : u # t /\ handle[u] # NoSlot => Pos(u)' = Pos(u)
  BY <1>2, <1>6, <1>9 DEF Pos
<1>11. \/ /\ m[t] = k /\ Pos(t)' = Pos(t) + chunk[t] /\ n'[t] = n[t] - chunk[t] /\ chunk'[t] = 0
       \/ Pos(t)' = Pos(t) /\ n'[t] = n[t] /\ chunk'[t] = chunk[t]
  BY <1>2, <1>6, <1>9 DEF Pos
<1>12. Moved(t)' = chunk'[t] - m'[t] BY DEF Moved
<1>13. /\ Pos(t) + Moved(t) \in Nat /\ Pos(t) + n[t] \in Nat /\ n[t] - Moved(t) - k \in Nat
       /\ Pos(t)' + Moved(t)' = Pos(t) + Moved(t) + k
       /\ n'[t] - Moved(t)' = n[t] - Moved(t) - k
       /\ Pos(t)' + n'[t] = Pos(t) + n[t]
       /\ Pos(t) + (n[t] - 1) = (Pos(t) + n[t]) - 1
       /\ Pos(t)' + (n'[t] - 1) = (Pos(t) + n[t]) - 1
  BY <1>3, <1>4, <1>8, <1>11, <1>12
<1>14. \A u \in Threads : u # t => View(u)' = View(u)
  <2> SUFFICES ASSUME NEW u \in Threads, u # t PROVE View(u)' = View(u) OBVIOUS
  <2>1. lk_tid # u /\ lk_tid' # u BY <1>2
  <2> QED BY <1>5, <1>10, <2>1, Bystander
<1>15. Calling(t)' = Calling(t) /\ Calling(t) # "none" /\ IsOpen(t) /\ IsOpen(t)'
  BY <1>2 DEF Calling, IsOpen
<1>16. Decided(t) = TRUE /\ Decided(t)' = TRUE BY <1>2, <1>15 DEF Decided
<1>17. /\ OpenFile(t) = File(t) /\ OpenFile(t)' = File(t)'
       /\ Position(t) = Pos(t) + n[t] /\ Position(t)' = Pos(t)' + n'[t]
       /\ Asked(t) = 0 /\ Asked(t)' = 0
  BY <1>15, <1>16 DEF OpenFile, Position, Asked, File, Pos
<1> QED BY <1>2, <1>4, <1>5, <1>13, <1>14, <1>15, <1>16, <1>17

LEMMA ReadHitMaps == ASSUME DataInv, NEW t \in Threads, ReadHit(t) PROVE UNCHANGED Atomic!vars
<1> DEFINE k == Round(t)
           q == Pos(t) + Moved(t)
           l == n[t] - Moved(t) - k
           f == File(t)
           bytes == [i \in 1 .. k |-> blkbuf[(devpos % blksz) + i - 1]]
<1>1. /\ pc[t] = "xfer" /\ op[t] = "read"
      /\ got' = [got EXCEPT ![t] = @ \o bytes]
      /\ Advance(t, k)
      /\ UNCHANGED <<disk, lk_tid, inode_num, handle, op>>
  BY DEF ReadHit, Reading, Runs, devVars, lkVars
<1>2. k \in 1 .. m[t] /\ m[t] \in Nat BY <1>1, Rounds, AtData
<1>3. pc[t] \in {"xfer", "xfer_ret"} BY <1>1
<1>4. \A i \in 1 .. k : blkbuf[(devpos % blksz) + i - 1] = disk[ByteAt(f, q + i - 1)] BY RoundRead
<1>5. bytes = BytesAt(f, q, k) BY <1>4 DEF BytesAt
<1>6. /\ lk_tid = t /\ f \in Files /\ File(t)' = f
      /\ q \in Nat /\ Pos(t) + n[t] \in Nat /\ l \in Nat
      /\ Pos(t)' + Moved(t)' = q + k
      /\ n'[t] - Moved(t)' = l
      /\ \A u \in Threads : u # t => View(u)' = View(u)
      /\ OpenFile(t)' = OpenFile(t) /\ Position(t)' = Position(t)
      /\ Calling(t)' = Calling(t) /\ Asked(t)' = Asked(t) /\ Decided(t)' = Decided(t)
  BY <1>1, <1>2, <1>3, RoundSeen
<1>7. q + k + l <= FileSize[f] /\ n[t] - Moved(t) = k + l
  <2>1. Pos(t) + n[t] <= FileSize[f] /\ n[t] \in Nat /\ Moved(t) \in Nat BY <1>3, AtData
  <2>2. Pos(t) \in Nat /\ FileSize[f] \in Nat
    <3>1. pc[t] \in Holding BY <1>1 DEF Holding
    <3> QED BY <3>1, Holder, OwnSlot, Parts
  <2> QED BY <1>2, <2>1, <2>2
<1>8. ToRead(t) = BytesAt(f, q, k + l) BY <1>7 DEF ToRead, BytesAt, Pos, File
<1>9. ToRead(t)' = BytesAt(f, q + k, l)
  <2>1. ToRead(t)' = [i \in 1 .. n'[t] - Moved(t)' |->
                         disk'[ByteAt(File(t)', Pos(t)' + Moved(t)' + i - 1)]]
    BY DEF ToRead, Pos, File
  <2> HIDE DEF k, q, l, f
  <2> QED BY <1>1, <1>6, <2>1 DEF BytesAt
<1>10. got'[t] = got[t] \o bytes /\ got[t] \in Seq(Nat) BY <1>1, Parts DEF DataTyped
<1> HIDE DEF q, l, f, bytes
<1>11. k \in Nat BY <1>2
<1> HIDE DEF k
<1>12. BytesAt(f, q, k) \o BytesAt(f, q + k, l) = BytesAt(f, q, k + l)
  BY <1>6, <1>7, <1>11, BytesAtSplit
<1>13. BytesAt(f, q, k) \in Seq(Nat) /\ BytesAt(f, q + k, l) \in Seq(Nat)
  <2>1. FileSize[f] \in Nat BY <1>6, DiskAssumption
  <2>2. q + k <= FileSize[f] /\ q + k \in Nat /\ (q + k) + l <= FileSize[f] BY <1>6, <1>7, <1>11, <2>1
  <2> QED BY <1>6, <1>11, <2>2, BytesAtSeq
<1>14. got'[t] \o ToRead(t)' = got[t] \o ToRead(t)
  <2>1. (got[t] \o BytesAt(f, q, k)) \o BytesAt(f, q + k, l)
           = got[t] \o (BytesAt(f, q, k) \o BytesAt(f, q + k, l))
    <3>1. \A a, b, c \in Seq(Nat) : (a \o b) \o c = a \o (b \o c) BY SMTT(30), ConcatAssociative
    <3> QED BY ONLY <1>10, <1>13, <3>1, Zenon
  <2> QED BY <1>5, <1>8, <1>9, <1>10, <1>12, <2>1
<1>15. Result(t)' = Result(t)
  <2>1. Moving(t, "read") /\ Moving(t, "read")' BY <1>1, <1>6 DEF Moving
  <2> QED BY <1>14, <2>1 DEF Result
<1>16. \A u \in Threads : View(u)' = View(u) BY <1>6, <1>15 DEF View
<1>17. Contents' = Contents
  <2>1. \A g \in Files : \A p \in 0 .. FileSize[g] - 1 : ~Unwritten(g, p) /\ ~Unwritten(g, p)'
    BY <1>1, <1>6, HolderWrites, HolderWillWrite
  <2> QED BY <1>1, <2>1, SameContents
<1> QED BY <1>16, <1>17, Unseen

\* A byte is in the file when the call happens, and on the device when its block is
\* stored.
LEMMA WriteDoneMaps == ASSUME DataInv, NEW t \in Threads, WriteDone(t) PROVE UNCHANGED Atomic!vars
<1> DEFINE k == Round(t)
           q == Pos(t) + Moved(t)
           e == Pos(t) + n[t]
<1>1. /\ pc[t] = "xfer_ret" /\ op[t] = "write"
      /\ Advance(t, k)
      /\ UNCHANGED <<disk, lk_tid, inode_num, handle, op, got>>
  BY DEF WriteDone, Runs, devVars, lkVars
<1>2. k \in 1 .. m[t] /\ m[t] \in Nat BY <1>1, Rounds, AtData
<1>3. pc[t] \in {"xfer", "xfer_ret"} BY <1>1
<1>4. \A j \in 0 .. k - 1 : disk[ByteAt(File(t), q + j)] = t BY RoundWritten
<1>5. /\ lk_tid = t /\ File(t)' = File(t)
      /\ q \in Nat /\ e \in Nat
      /\ Pos(t)' + Moved(t)' = q + k
      /\ Pos(t) + (n[t] - 1) = e - 1 /\ Pos(t)' + (n'[t] - 1) = e - 1
      /\ \A u \in Threads : u # t => View(u)' = View(u)
      /\ OpenFile(t)' = OpenFile(t) /\ Position(t)' = Position(t)
      /\ Calling(t)' = Calling(t) /\ Asked(t)' = Asked(t) /\ Decided(t)' = Decided(t)
  BY <1>1, <1>2, <1>3, RoundSeen
<1>6. Result(t)' = Result(t) BY <1>1, <1>5 DEF Result, Moving
<1>7. \A u \in Threads : View(u)' = View(u) BY <1>5, <1>6 DEF View
<1>8. ASSUME NEW f \in Files, NEW p \in 0 .. FileSize[f] - 1
      PROVE  (IF Unwritten(f, p)' THEN lk_tid' ELSE disk'[ByteAt(f, p)])
                 = IF Unwritten(f, p) THEN lk_tid ELSE disk[ByteAt(f, p)]
  <2>1. Unwritten(f, p) <=> File(t) = f /\ p \in q .. e - 1
    <3>1. Unwritten(f, p) <=>
            op[t] = "write" /\ File(t) = f /\ p \in Pos(t) + Moved(t) .. Pos(t) + n[t] - 1
      BY <1>5, HolderWrites
    <3>2. q .. Pos(t) + (n[t] - 1) = q .. e - 1 BY <1>5
    <3> QED BY <1>1, <3>1, <3>2
  <2>2. Unwritten(f, p)' <=> File(t) = f /\ p \in q + k .. e - 1
    <3>1. Unwritten(f, p)' <=>
            op'[t] = "write" /\ File(t)' = f /\ p \in Pos(t)' + Moved(t)' .. Pos(t)' + n'[t] - 1
      BY <1>1, <1>5, HolderWillWrite
    <3>2. op'[t] = "write" BY <1>1
    <3> HIDE DEF k, q, e
    <3>3. Pos(t)' + Moved(t)' .. Pos(t)' + n'[t] - 1 = q + k .. e - 1 BY <1>5
    <3> QED BY <1>5, <3>1, <3>2, <3>3
  <2>3. k \in Nat BY <1>2
  <2>4. FileSize[f] \in Nat BY DiskAssumption
  <2> HIDE DEF k, q, e
  <2>5. CASE File(t) = f /\ p \in q .. q + k - 1
    <3>1. p - q \in 0 .. k - 1 /\ q + (p - q) = p BY <1>5, <2>3, <2>4, <2>5
    <3>2. disk[ByteAt(f, p)] = t BY <1>4, <2>5, <3>1
    <3>3. ~Unwritten(f, p)' BY <1>5, <2>2, <2>3, <2>4, <2>5
    <3> QED BY <1>1, <1>5, <3>2, <3>3
  <2>6. CASE ~(File(t) = f /\ p \in q .. q + k - 1)
    <3>1. Unwritten(f, p)' <=> Unwritten(f, p) BY <1>5, <2>1, <2>2, <2>3, <2>4, <2>6
    <3> QED BY <1>1, <3>1
  <2> QED BY <2>5, <2>6
<1>9. Contents' = Contents BY <1>8, SameContents
<1> QED BY <1>7, <1>9, Unseen


LEMMA StepMaps == DataInv /\ [Next]_vars => [Atomic!Next]_(Atomic!vars)
<1> SUFFICES ASSUME DataInv, [Next]_vars PROVE Atomic!Next \/ UNCHANGED Atomic!vars
  OBVIOUS
<1> DEFINE Shows(t) ==
      \/ \E f \in Files : Atomic!Open(t, f) \/ \E p \in 0 .. FileSize[f] : Atomic!Seek(t, p)
      \/ \E c \in {"read", "write"}, f \in Files : \E k \in 0 .. FileSize[f] : Atomic!Call(t, c, k)
      \/ Atomic!Close(t) \/ Atomic!Decide(t) \/ Atomic!Return(t)
<1>1. ASSUME NEW t \in Threads, Shows(t) PROVE Atomic!Next
  BY <1>1 DEF Atomic!Next, Atomic!Files, Files
<1>2. ASSUME NEW t \in Threads, Step(t) PROVE Shows(t) \/ UNCHANGED Atomic!vars
  <2>1. ~EntryFailed(t) /\ ~TransferFailed(t) /\ ~PreRead(t) BY NotTaken
  <2>2. CASE Acquire(t)
    <3>1. CASE lk_tid' = lk_tid BY <2>2, <3>1, SilentSteps
    <3>2. CASE lk_tid' # lk_tid BY <2>2, <3>2, DecideMaps
    <3> QED BY <3>1, <3>2
  <2>3. CASE EntryHit(t)
    <3>1. CASE op[t] = "open" BY <2>3, <3>1, OpenedMaps
    <3>2. CASE op[t] # "open" BY <2>3, <3>2, SilentSteps
    <3> QED BY <3>1, <3>2
  <2>4. CASE Done(t) BY <2>4, DoneMaps
  <2>5. CASE ReadHit(t) BY <2>5, ReadHitMaps
  <2>6. CASE WriteDone(t) BY <2>6, WriteDoneMaps
  <2>7. CASE Loop(t) \/ LoopOpen(t) \/ Fetch(t) \/ Fetched(t) \/ WriteBlock(t)
    BY <2>7, SilentSteps
  <2> QED BY <1>2, <2>1, <2>2, <2>3, <2>4, <2>5, <2>6, <2>7 DEF Step
<1>3. ASSUME NEW t \in Threads, Call(t) PROVE Shows(t) \/ UNCHANGED Atomic!vars
  <2>1. \A u \in Threads : ~Fork(t, u) BY NotTaken
  <2>2. CASE \E f \in Files \cup {NoFile} : Open(t, f) BY <2>2, OpenMaps
  <2>3. CASE OpenFull(t) BY <2>3, SilentSteps DEF OpenFull
  <2>4. CASE \E call \in {"read", "write"}, k \in Counts : Transfer(t, call, k)
    BY <2>4, TransferMaps
  <2>5. CASE \E p \in Seeks : SetPos(t, p) BY <2>5, SetPosMaps
  <2>6. CASE Close(t) \/ EnterUser(t) BY <2>6, CloseMaps
  <2> QED BY <1>3, <2>1, <2>2, <2>3, <2>4, <2>5, <2>6 DEF Call
<1>4. CASE Complete BY <1>4, CompleteMaps
<1>5. CASE Isr \/ UNCHANGED vars
  <2>1. UNCHANGED <<disk, lk_tid, file_pos, inode_num, handle, op, n, chunk, m, got>>
    BY <1>5 DEF Isr, vars, devVars, lkVars, fdVars, callVars
  <2> QED BY <2>1, QuietMaps DEF Moved
<1> HIDE DEF Shows
<1> QED BY <1>1, <1>2, <1>3, <1>4, <1>5 DEF Next

\* AtomicSpec: as long as processes do not share a file through fork, write whole
\* blocks of the device and the device does not fail, every fs_read and fs_write
\* happens at one moment between its call and its return.
THEOREM CallsAreAtomic == Plain /\ Spec => AtomicSpec
<1>1. Plain /\ Spec => []DataInv BY DataInvariant
<1>2. Spec => Init /\ [][Next]_vars BY DEF Spec
<1> QED BY <1>1, <1>2, InitMaps, StepMaps, PTL DEF AtomicSpec, Atomic!Spec


------------------------------------------------------------------------------
(* What the comments say of the data *)

\* A thread writes its own number, and nobody else writes.
LEMMA DiskSteps ==
    ASSUME DataInv, [Next]_vars
    PROVE  \A x \in 0 .. DiskEnd : disk'[x] = disk[x] \/ disk'[x] \in Threads
<1>1. ASSUME Complete PROVE \A x \in 0 .. DiskEnd : disk'[x] = disk[x] \/ disk'[x] \in Threads
  <2>1. inflight # NoReq BY <1>1 DEF Complete
  <2>2. PICK t \in Threads :
          \/ inflight = [type |-> "in", blk |-> devpos \div blksz]
          \/ Storing(t) /\ inflight = [type |-> "out", blk |-> bufblkno]
    BY <2>1, Requester
  <2>3. CASE inflight = [type |-> "in", blk |-> devpos \div blksz]
    BY <1>1, <2>3 DEF Complete
  <2>4. CASE Storing(t)
    <3>1. \A i \in 0 .. blksz - 1 : blkbuf[i] = t BY <2>4, Parts DEF BufferOK
    <3>2. DOMAIN disk = 0 .. DiskEnd BY Parts DEF DataTyped
    <3>3. \/ disk' = disk
          \/ disk' = [x \in DOMAIN disk |->
                         IF x \in Span(inflight.blk) THEN blkbuf[x % blksz] ELSE disk[x]]
      BY <1>1 DEF Complete
    <3>4. \A x \in 0 .. DiskEnd : x % blksz \in 0 .. blksz - 1 BY DiskEnds, Sizes, DivMod
    <3> QED BY <3>1, <3>2, <3>3, <3>4
  <2> QED BY <2>2, <2>3, <2>4
<1>2. CASE Isr \/ UNCHANGED vars BY <1>2 DEF Isr, vars, devVars
<1>3. ASSUME NEW t \in Threads, Step(t) PROVE disk' = disk
  BY <1>3 DEF Step, Acquire, Loop, LoopOpen, Done, Fetch, Fetched, EntryHit, EntryFailed,
              ReadHit, PreRead, WriteBlock, WriteDone, TransferFailed, Submit, devVars
<1>4. ASSUME NEW t \in Threads, Call(t) PROVE disk' = disk
  BY <1>4 DEF Call, Open, OpenFull, Transfer, SetPos, Close, EnterUser, Fork, vars, devVars
<1> QED BY <1>1, <1>2, <1>3, <1>4 DEF Next

LEMMA OtherBytesStep == ASSUME DataInv, OtherBytesKept, [Next]_vars PROVE OtherBytesKept'
<1> SUFFICES ASSUME NEW f \in Files, NEW p \in 0 .. FileSize[f] - 1
             PROVE  disk'[ByteAt(f, p)] \in {Fresh(f, p)} \cup Threads
  BY DEF OtherBytesKept
<1>1. FileSize[f] \in Nat /\ p \in Nat /\ p < FileSize[f] BY DiskAssumption
<1>2. ByteAt(f, p) \in 0 .. DiskEnd BY <1>1, BytePlace
<1>3. disk[ByteAt(f, p)] \in {Fresh(f, p)} \cup Threads BY DEF OtherBytesKept
<1> QED BY <1>2, <1>3, DiskSteps

\* A write under way disturbs no byte but those it is for: each byte of each file is the one
\* that mkfs put there or one a caller wrote, however the rounds of the calls interleave.
THEOREM OtherBytesAreKept == Plain /\ Spec => []OtherBytesKept
<1>1. Init => OtherBytesKept BY InitDiskOK DEF Init, OtherBytesKept
<1>2. OtherBytesKept /\ DataInv /\ [Next]_vars => OtherBytesKept' BY OtherBytesStep
<1>3. Plain /\ Spec => []DataInv BY DataInvariant
<1> QED BY <1>1, <1>2, <1>3, PTL DEF Spec


\* A position that changes, other than to 0, is that of a descriptor with a holder.
LEMMA UnheldSteps ==
    ASSUME DataInv, [Next]_vars, NEW s \in Slots, \A t \in Threads : handle'[t] # s, flags'[s]
    PROVE  /\ file_size'[s] = file_size[s]
           /\ file_pos'[s] = 0 \/ (flags[s] /\ file_pos'[s] = file_pos[s])
<1> USE Parts DEF DataTyped
<1>1. CASE Complete \/ Isr \/ UNCHANGED vars BY <1>1 DEF Complete, Isr, vars, fdVars
<1>2. ASSUME NEW t \in Threads, Step(t)
      PROVE  /\ flags' = flags /\ handle' = handle
             /\ file_size'[s] = file_size[s] /\ file_pos'[s] = file_pos[s]
  <2>1. handle' = handle /\ flags' = flags
    BY <1>2 DEF Step, Acquire, Loop, LoopOpen, Done, Fetch, Fetched, EntryHit, EntryFailed, Entry,
                ReadHit, PreRead, WriteBlock, WriteDone, TransferFailed, fdVars, callVars
  <2>2. handle[t] # s BY <2>1
  <2>3. file_size'[s] = file_size[s] /\ file_pos'[s] = file_pos[s]
    BY <1>2, <2>2
       DEF Step, Acquire, Loop, LoopOpen, Done, Fetch, Fetched, EntryHit, EntryFailed, Entry,
           ReadHit, PreRead, WriteBlock, WriteDone, TransferFailed, Advance, fdVars, callVars
  <2> QED BY <2>1, <2>3
<1>3. ASSUME NEW t \in Threads, NEW f \in Files \cup {NoFile}, Open(t, f)
      PROVE  /\ file_size'[s] = file_size[s]
             /\ file_pos'[s] = 0 \/ (flags[s] /\ file_pos'[s] = file_pos[s])
  <2> DEFINE x == Min({y \in Slots : ~flags[y]})
  <2>1. flags' = [flags EXCEPT ![x] = TRUE] /\ file_pos' = [file_pos EXCEPT ![x] = 0]
        /\ file_size' = file_size
    BY <1>3 DEF Open, Marked
  <2> HIDE DEF x
  <2>2. CASE x = s BY <2>1, <2>2
  <2>3. CASE x # s BY <2>1, <2>3, Parts
  <2> QED BY <2>2, <2>3
<1>4. ASSUME NEW t \in Threads, NEW p \in Seeks, SetPos(t, p)
      PROVE  /\ flags' = flags /\ file_size' = file_size /\ file_pos'[s] = file_pos[s]
  BY <1>4 DEF SetPos, callVars
<1>5. ASSUME NEW t \in Threads, Close(t) \/ EnterUser(t)
      PROVE  flags[s] /\ file_size' = file_size /\ file_pos' = file_pos
  <2>1. file_size' = file_size /\ file_pos' = file_pos BY <1>5 DEF Close, EnterUser, fdVars
  <2>2. flags' = flags \/ flags' = [flags EXCEPT ![handle[t]] = FALSE]
    BY <1>5 DEF Close, EnterUser, fdVars
  <2> QED BY <2>1, <2>2, Parts
<1>6. ASSUME NEW t \in Threads, Call(t)
      PROVE  /\ file_size'[s] = file_size[s]
             /\ file_pos'[s] = 0 \/ (flags[s] /\ file_pos'[s] = file_pos[s])
  <2>1. CASE OpenFull(t) BY <2>1 DEF OpenFull, vars, fdVars
  <2>2. CASE \E call \in {"read", "write"}, k \in Counts : Transfer(t, call, k)
    BY <2>2 DEF Transfer, fdVars
  <2>3. ASSUME NEW u \in Threads, Fork(t, u) PROVE FALSE BY <2>3, Parts DEF Fork, DataInv, Plain
  <2> QED BY <1>3, <1>4, <1>5, <1>6, <2>1, <2>2, <2>3 DEF Call
<1> QED BY <1>1, <1>2, <1>6 DEF Next

LEMMA PosStep == DataInv /\ PosWithinFile /\ [Next]_vars => PosWithinFile'
<1> SUFFICES ASSUME DataInv, PosWithinFile, [Next]_vars, NEW s \in Slots, flags'[s]
             PROVE  file_pos'[s] <= file_size'[s]
  BY DEF PosWithinFile
<1>1. DataInv' BY DataStep
<1>2. /\ file_pos'[s] \in Nat /\ file_size'[s] \in Nat /\ n' \in [Threads -> Nat]
      /\ WithinFile'
  BY <1>1 DEF DataInv, DataOK, DataTyped
<1>3. CASE \E t \in Threads : handle'[t] = s
  <2>1. PICK t \in Threads : handle'[t] = s BY <1>3
  <2>2. s # NoSlot BY Parts
  <2>3. CASE op'[t] = "open" BY <1>2, <2>1, <2>2, <2>3 DEF WithinFile, Pos
  <2>4. CASE op'[t] # "open"
    <3>1. file_size'[s] = FileSize[inode_num'[s]] /\ file_pos'[s] + n'[t] <= FileSize[inode_num'[s]]
      BY <1>2, <2>1, <2>2, <2>4 DEF WithinFile, Pos, File
    <3>2. n'[t] \in Nat BY <1>2
    <3> QED BY <1>2, <3>1, <3>2
  <2> QED BY <2>3, <2>4
<1>4. CASE \A t \in Threads : handle'[t] # s
  <2>1. file_pos'[s] = 0 \/ (flags[s] /\ file_pos'[s] = file_pos[s] /\ file_size'[s] = file_size[s])
    BY <1>4, UnheldSteps
  <2> QED BY <1>2, <2>1 DEF PosWithinFile
<1> QED BY <1>3, <1>4

\* "Check if the size read fits within max file size": no position passes the end of
\* its file, although the limit is computed before the lock.
THEOREM PositionsStayInside == Plain /\ Spec => []PosWithinFile
<1>1. Init => PosWithinFile BY DEF Init, PosWithinFile
<1>2. Plain /\ Spec => []DataInv BY DataInvariant
<1> QED BY <1>1, <1>2, PosStep, PTL DEF Spec


\* A call that has read something still reads the same file.
LEMMA SameFile ==
    ASSUME DataInv, [Next]_vars, NEW t \in Threads, op[t] = "read", pc[t] \in Holding
    PROVE  handle'[t] = handle[t] /\ File(t)' = File(t)
<1>1. handle[t] # NoSlot /\ handle[t] \in Slots /\ pc[t] # "user"
  BY OwnSlot, Parts DEF CallsOK, Holding
<1> USE Parts DEF DataTyped
<1>2. CASE Complete \/ Isr \/ UNCHANGED vars
  BY <1>2 DEF Complete, Isr, vars, fdVars, callVars, File
<1>3. ASSUME NEW u \in Threads, Step(u) PROVE handle' = handle /\ inode_num' = inode_num
  BY <1>3 DEF Step, Acquire, Loop, LoopOpen, Done, Fetch, Fetched, EntryHit, EntryFailed, Entry,
              ReadHit, PreRead, WriteBlock, WriteDone, TransferFailed, fdVars, callVars
<1>4. ASSUME NEW u \in Threads, NEW f \in Files \cup {NoFile}, Open(u, f)
      PROVE  handle'[t] = handle[t] /\ File(t)' = File(t)
  <2> DEFINE s == Min({x \in Slots : ~flags[x]})
  <2>1. /\ pc[u] = "user" /\ \E x \in Slots : ~flags[x]
        /\ inode_num' \in {inode_num, [inode_num EXCEPT ![s] = f]}
        /\ handle' \in {handle, [handle EXCEPT ![u] = s]}
    BY <1>4 DEF Open, Idle
  <2>2. s \in Slots /\ ~flags[s] BY <2>1, FreeSlot
  <2> HIDE DEF s
  <2>3. handle[t] # s BY <1>1, <2>2 DEF DataInv, IInv, SlotsKept
  <2>4. u # t BY <1>1, <2>1
  <2> QED BY <1>1, <2>1, <2>3, <2>4 DEF File
<1>5. ASSUME NEW u \in Threads, Call(u) PROVE handle'[t] = handle[t] /\ File(t)' = File(t)
  <2>1. CASE OpenFull(u) BY <2>1 DEF OpenFull, vars, fdVars, callVars, File
  <2>2. CASE \E call \in {"read", "write"}, k \in Counts : Transfer(u, call, k)
    BY <2>2 DEF Transfer, fdVars, File
  <2>3. CASE \E p \in Seeks : SetPos(u, p) BY <2>3 DEF SetPos, callVars, File
  <2>4. CASE Close(u) \/ EnterUser(u)
    <3>1. pc[u] = "user" /\ inode_num' = inode_num /\ handle' = [handle EXCEPT ![u] = NoSlot]
      BY <2>4 DEF Close, EnterUser, Idle, fdVars
    <3> QED BY <1>1, <3>1 DEF File
  <2>5. ASSUME NEW v \in Threads, Fork(u, v) PROVE FALSE BY <2>5, Parts DEF Fork, DataInv, Plain
  <2> QED BY <1>4, <1>5, <2>1, <2>2, <2>3, <2>4, <2>5 DEF Call
<1> QED BY <1>2, <1>3, <1>5 DEF Next, File

\* What a read has comes from the buffer.
LEMMA GotSteps ==
    ASSUME DataInv, [Next]_vars, NEW t \in Threads
    PROVE  \/ got'[t] \in {got[t], <<>>}
           \/ /\ ReadHit(t) /\ op[t] = "read" /\ pc[t] \in Holding
              /\ got'[t] = got[t] \o [i \in 1 .. Round(t) |-> blkbuf[(devpos % blksz) + i - 1]]
<1> USE Parts DEF DataTyped
<1>1. CASE Complete \/ Isr \/ UNCHANGED vars BY <1>1 DEF Complete, Isr, vars, callVars
<1>2. ASSUME NEW u \in Threads, Step(u), ~ReadHit(u) PROVE got'[t] \in {got[t], <<>>}
  <2>1. got' = got \/ Return(u)
    BY <1>2 DEF Step, Acquire, Loop, LoopOpen, Done, Fetch, Fetched, EntryHit, EntryFailed, Entry,
                PreRead, WriteBlock, WriteDone, TransferFailed, callVars
  <2> QED BY <2>1 DEF Return
<1>3. ASSUME NEW u \in Threads, ReadHit(u), u # t PROVE got'[t] = got[t]
  BY <1>3 DEF ReadHit
<1>4. ASSUME ReadHit(t)
      PROVE  /\ op[t] = "read" /\ pc[t] \in Holding
             /\ got'[t] = got[t] \o [i \in 1 .. Round(t) |-> blkbuf[(devpos % blksz) + i - 1]]
  BY <1>4 DEF ReadHit, Reading, Runs, Holding
<1>5. ASSUME NEW u \in Threads, Call(u) PROVE got' = got
  BY <1>5, Parts DEF Call, Open, OpenFull, Transfer, SetPos, Close, EnterUser, Fork, vars, callVars
<1> QED BY <1>1, <1>2, <1>3, <1>4, <1>5 DEF Next

LEMMA ErrorsStep ==
    ASSUME DataInv, OtherBytesKept, ErrorsReported, [Next]_vars PROVE ErrorsReported'
<1> SUFFICES ASSUME NEW t \in Threads, op'[t] = "read", NEW i \in DOMAIN got'[t]
             PROVE  got'[t][i] \in FileBytes(File(t)')
  BY DEF ErrorsReported, File, FileBytes, Fresh
<1>1. got \in [Threads -> Seq(Nat)] BY Parts DEF DataTyped
<1>2. got'[t] # <<>> OBVIOUS
<1>3. ASSUME NEW j \in DOMAIN got[t], op[t] = "read" PROVE got[t][j] \in FileBytes(File(t))
  BY <1>3 DEF ErrorsReported, File
<1>4. CASE got'[t] = got[t]
  <2>1. op[t] = "read" /\ pc[t] \in Holding BY <1>2, <1>4, Parts DEF CallsOK
  <2>2. File(t)' = File(t) BY <2>1, SameFile
  <2> QED BY <1>3, <1>4, <2>1, <2>2
<1>5. CASE ReadHit(t)
  <2> DEFINE bytes == [j \in 1 .. Round(t) |-> blkbuf[(devpos % blksz) + j - 1]]
             q == Pos(t) + Moved(t)
  <2>1. op[t] = "read" /\ pc[t] \in Holding /\ pc[t] = "xfer" BY <1>5 DEF ReadHit, Reading, Runs, Holding
  <2>2. got'[t] = got[t] \o bytes BY <1>1, <1>5 DEF ReadHit
  <2>3. File(t)' = File(t) BY <2>1, SameFile
  <2>4. Round(t) \in 1 .. m[t] /\ m[t] \in Nat BY <2>1, Rounds, AtData
  <2>5. ASSUME NEW j \in 1 .. Round(t) PROVE bytes[j] \in FileBytes(File(t)) /\ bytes[j] \in Nat
    <3> DEFINE p == q + j - 1
    <3>1. bytes[j] = disk[ByteAt(File(t), p)] /\ bytes[j] \in Nat BY <1>5, RoundRead
    <3>2. /\ Pos(t) + n[t] <= FileSize[File(t)] /\ n[t] \in Nat /\ Moved(t) \in Nat
          /\ Moved(t) + m[t] <= n[t]
      BY <2>1, AtData DEF Moved
    <3>3. Pos(t) \in Nat /\ FileSize[File(t)] \in Nat /\ File(t) \in Files
      BY <2>1, Holder, OwnSlot, Parts
    <3>4. p \in 0 .. FileSize[File(t)] - 1 BY <2>4, <3>2, <3>3
    <3> HIDE DEF p
    <3>5. disk[ByteAt(File(t), p)] \in {Fresh(File(t), p)} \cup Threads
      BY <3>3, <3>4 DEF OtherBytesKept
    <3> QED BY <3>1, <3>4, <3>5 DEF FileBytes
  <2>6. bytes \in Seq(Nat) /\ Len(bytes) = Round(t)
    <3> HIDE DEF bytes
    <3>1. \A j \in 1 .. Round(t) : bytes[j] \in Nat BY <2>5
    <3>2. bytes = [j \in 1 .. Round(t) |-> bytes[j]] BY DEF bytes
    <3>3. bytes \in [1 .. Round(t) -> Nat] BY <3>1, <3>2
    <3>4. bytes \in Seq(Nat) BY <2>4, <3>3
    <3> QED BY <2>4, <3>3, <3>4
  <2> HIDE DEF bytes
  <2>7. got[t] \in Seq(Nat) BY <1>1
  <2>8. i \in 1 .. Len(got[t]) + Len(bytes)
        /\ got'[t][i] = IF i <= Len(got[t]) THEN got[t][i] ELSE bytes[i - Len(got[t])]
    <3>1. got'[t] \in Seq(Nat) /\ Len(got'[t]) = Len(got[t]) + Len(bytes)
      BY <2>2, <2>6, <2>7, ConcatProperties
    <3>2. i \in 1 .. Len(got[t]) + Len(bytes) BY <3>1
    <3> QED BY <2>2, <2>6, <2>7, <3>2, ConcatProperties
  <2>9. CASE i <= Len(got[t])
    <3>1. i \in DOMAIN got[t] BY <2>7, <2>8, <2>9
    <3> QED BY <1>3, <2>1, <2>3, <2>8, <2>9, <3>1
  <2>10. CASE i > Len(got[t])
    <3>1. i - Len(got[t]) \in 1 .. Round(t) BY <2>6, <2>7, <2>8, <2>10
    <3>2. got'[t][i] = bytes[i - Len(got[t])] BY <2>7, <2>8, <2>10
    <3>3. bytes[i - Len(got[t])] \in FileBytes(File(t)) BY <2>5, <3>1
    <3> QED BY <2>3, <3>2, <3>3
  <2> QED BY <2>7, <2>8, <2>9, <2>10
<1> QED BY <1>2, <1>4, <1>5, GotSteps

\* "number of read bytes / error code": what a read has are bytes of its file, in every
\* interleaving; and nothing fails unnoticed, as nothing fails.
THEOREM ReadsGiveTheFile == Plain /\ Spec => []ErrorsReported
<1>1. Init => ErrorsReported BY DEF Init, ErrorsReported
<1>2. Plain /\ Spec => []DataInv BY DataInvariant
<1> QED BY <1>1, <1>2, OtherBytesAreKept, ErrorsStep, PTL DEF Spec


\* The disk has whole blocks of the device.
BlockThere == bufblkno * blksz + blksz - 1 <= DiskEnd

LEMMA WholeDisk ==
    ASSUME NEW x \in 0 .. DiskEnd
    PROVE  (x \div blksz) * blksz + blksz - 1 <= DiskEnd
<1> DEFINE d == DiskEnd + 1
           q == x \div blksz
           c == d \div blksz
<1>1. d \in Nat /\ d > 0 /\ d % blksz = 0
  <2> DEFINE top == NInodes + 1 + Max(UsedBlocks) + 1
  <2>1. Max(UsedBlocks) \in Nat BY LastBlock
  <2>2. top \in Int BY <2>1, Sizes
  <2> HIDE DEF top
  <2>3. DiskEnd = BLOCK_SIZE * top - 1 BY DiskEnds DEF top
  <2>4. d = BLOCK_SIZE * top BY <2>2, <2>3, Sizes
  <2>5. (BLOCK_SIZE * top) % blksz = 0 BY <2>2, BlockMultiple
  <2> QED BY <2>4, <2>5, DiskEnds
<1>2. x \in Nat /\ x < d BY DiskEnds
<1> HIDE DEF d
<1>3. q \in Int /\ x = blksz * q + (x % blksz) /\ x % blksz \in 0 .. blksz - 1 BY <1>2, Sizes, DivMod
<1>4. c \in Int /\ d = blksz * c + (d % blksz) BY <1>1, Sizes, DivMod
<1> HIDE DEF q, c
<1>5. d = blksz * c /\ blksz * q <= x BY <1>1, <1>3, <1>4, Sizes
<1>6. q < c
  <2> SUFFICES ASSUME c <= q PROVE FALSE BY <1>3, <1>4
  <2> DEFINE u == blksz * c
             v == blksz * q
  <2>1. u <= v /\ u \in Int /\ v \in Int BY <1>3, <1>4, Sizes
  <2>2. d = u /\ v <= x BY <1>5
  <2> HIDE DEF u, v
  <2> QED BY <1>1, <1>2, <2>1, <2>2
<1>7. blksz * (q + 1) <= blksz * c
  <2>1. q + 1 \in Int /\ q + 1 <= c BY <1>3, <1>4, <1>6
  <2> QED BY <1>4, <2>1, Sizes
<1>8. blksz * (q + 1) = q * blksz + blksz BY <1>3, Sizes
<1>9. q * blksz \in Int /\ q * blksz + blksz <= d BY <1>1, <1>3, <1>5, <1>7, <1>8, Sizes
<1>10. d = DiskEnd + 1 BY DEF d
<1>11. q * blksz + blksz - 1 <= DiskEnd BY <1>9, <1>10, DiskEnds, Sizes
<1> QED BY <1>11 DEF q

\* A table entry is on the disk.
LEMMA AtEntry ==
    ASSUME DataInv, NEW t \in Threads, pc[t] \in {"entry", "entry_ret"}
    PROVE  devpos \in 0 .. DiskEnd
<1>1. pc[t] \in Holding BY DEF Holding
<1>2. handle[t] # NoSlot BY <1>1, Holder, Parts
<1>3. File(t) \in Files /\ Pos(t) \in Nat /\ FileSize[File(t)] \in Nat BY <1>2, OwnSlot
<1>4. ASSUME NEW k \in 0 .. BLOCK_SIZE - 1, devpos = TableAt(File(t), k)
      PROVE  devpos \in 0 .. DiskEnd
  <2>1. TableAt(File(t), k) \in Nat /\ TableAt(File(t), k) < DataStart BY <1>3, TablePlace
  <2>2. DataStart \in Int BY Sizes DEF DataStart
  <2> QED BY <1>4, <2>1, <2>2, DiskEnds
<1>5. CASE op[t] = "open"
  <2>1. devpos = TableAt(File(t), 0) BY <1>5, Parts DEF DeviceAt
  <2> QED BY <1>4, <2>1, Sizes
<1>6. CASE op[t] # "open"
  <2> DEFINE k == Pos(t) \div BLOCK_SIZE + 1
  <2>1. devpos = TableAt(File(t), k) BY <1>6, Parts DEF DeviceAt
  <2>2. Pos(t) < FileSize[File(t)]
    <3>1. 0 < m[t] /\ m[t] <= chunk[t] /\ chunk[t] <= n[t] BY <1>6, Parts DEF WithinBlock
    <3>2. m[t] \in Nat /\ chunk[t] \in Nat /\ n[t] \in Nat BY Parts DEF DataTyped
    <3>3. Pos(t) + n[t] <= FileSize[File(t)] BY <1>2, <1>6, Parts DEF WithinFile
    <3> QED BY <1>3, <3>1, <3>2, <3>3
  <2>3. k \in 1 .. BLOCK_SIZE - 1 BY <1>3, <2>2, InFile
  <2> HIDE DEF k
  <2> QED BY <1>4, <2>1, <2>3, Sizes
<1> QED BY <1>5, <1>6

\* The buffer.
LEMMA BlockStep == ASSUME DataInv, BlockThere, [Next]_vars PROVE BlockThere'
<1>1. CASE bufblkno' = bufblkno BY <1>1 DEF BlockThere
<1>2. CASE bufblkno' # bufblkno
  <2>1. PICK t \in Threads : Fetched(t) \/ WriteBlock(t)
    <3>1. ~Complete /\ ~Isr /\ ~UNCHANGED vars BY <1>2 DEF Complete, Isr, vars, drvVars
    <3>2. ASSUME NEW t \in Threads, Step(t) PROVE Fetched(t) \/ WriteBlock(t)
      BY <1>2, <3>2 DEF Step, Acquire, Loop, LoopOpen, Done, Fetch, EntryHit, EntryFailed,
                        ReadHit, PreRead, WriteDone, TransferFailed, drvVars
    <3>3. ASSUME NEW t \in Threads, Call(t) PROVE FALSE
      BY <1>2, <3>3 DEF Call, Open, OpenFull, Transfer, SetPos, Close, EnterUser, Fork, vars, drvVars
    <3> QED BY <3>1, <3>2, <3>3 DEF Next
  <2>2. bufblkno' = devpos \div blksz BY <2>1 DEF Fetched, WriteBlock
  <2>3. pc[t] \in {"entry_ret", "xfer", "xfer_ret", "pre_ret"} BY <2>1 DEF Fetched, WriteBlock, Runs
  <2>4. pc[t] # "pre_ret" BY Parts DEF CallsOK
  <2>5. devpos \in 0 .. DiskEnd
    <3>1. CASE pc[t] = "entry_ret" BY <3>1, AtEntry
    <3>2. CASE pc[t] \in {"xfer", "xfer_ret"}
      <4>1. 0 \in 0 .. m[t] - 1 /\ devpos + 0 = devpos BY <3>2, AtData, Parts DEF DataTyped
      <4>2. devpos + 0 \in 0 .. DiskEnd BY <3>2, <4>1, AtData
      <4> QED BY <4>1, <4>2
    <3> QED BY <2>3, <2>4, <3>1, <3>2
  <2>6. (devpos \div blksz) * blksz + blksz - 1 <= DiskEnd BY <2>5, WholeDisk
  <2> QED BY <2>2, <2>6 DEF BlockThere
<1> QED BY <1>1, <1>2

LEMMA InitBlock == Init => BlockThere
<1> SUFFICES ASSUME Init PROVE BlockThere OBVIOUS
<1> DEFINE k == BLOCK_SIZE \div blksz
<1>1. k \in Int /\ BLOCK_SIZE = blksz * k + (BLOCK_SIZE % blksz) BY Sizes, DivMod
<1>2. bufblkno = k - 1 BY DEF Init
<1> HIDE DEF k
<1>3. BLOCK_SIZE = blksz * k BY <1>1, Sizes
<1>4. bufblkno * blksz + blksz = BLOCK_SIZE /\ bufblkno * blksz \in Int BY <1>1, <1>2, <1>3, Sizes
<1>5. BLOCK_SIZE - 1 <= DiskEnd
  <2> DEFINE top == NInodes + 1 + Max(UsedBlocks)
  <2>1. Max(UsedBlocks) \in Nat BY LastBlock
  <2>2. top \in Nat BY <2>1, Sizes
  <2> HIDE DEF top
  <2>3. DiskEnd = BLOCK_SIZE * (top + 1) - 1 BY DiskEnds DEF top
  <2>4. BLOCK_SIZE * (top + 1) = BLOCK_SIZE * top + BLOCK_SIZE /\ BLOCK_SIZE * top \in Nat
    BY <2>2, Sizes
  <2> QED BY <2>3, <2>4, Sizes
<1> QED BY <1>4, <1>5, DiskEnds, Sizes DEF BlockThere

\* "Block currently in block buffer": while nobody uses the device, what bufblkno says is in
\* the buffer is what the disk has there.
THEOREM BufferIsTheBlock == Plain /\ Spec => []BufferTrue
<1>1. DataInv /\ BlockThere => BufferTrue
  <2> SUFFICES ASSUME DataInv, BlockThere, lk_tid = NoThread, NEW i \in DOMAIN blkbuf
               PROVE  blkbuf[i] = disk[bufblkno * blksz + i]
    BY DEF BufferTrue
  <2>1. \A t \in Threads : lk_tid # t /\ pc[t] \notin Holding
    BY NothingUnwritten DEF DataInv, IInv, LockHeld
  <2>2. \A t \in Threads : ~Fetching(t) BY <2>1 DEF Fetching, Holding
  <2>3. inflight = NoReq BY <2>1, Requester
  <2>4. Buffered(bufblkno) BY <2>2, <2>3, Parts DEF BufferOK
  <2>5. i \in 0 .. blksz - 1 /\ bufblkno \in Nat BY Parts DEF DataTyped
  <2>6. bufblkno * blksz \in Int BY <2>5, Sizes
  <2>7. bufblkno * blksz + i <= DiskEnd BY <2>5, <2>6, DiskEnds, Sizes DEF BlockThere
  <2> QED BY <2>4, <2>5, <2>7 DEF Buffered
<1>2. Plain /\ Spec => []DataInv BY DataInvariant
<1>3. DataInv /\ BlockThere /\ [Next]_vars => BlockThere' BY BlockStep
<1> QED BY <1>1, <1>2, <1>3, InitBlock, PTL DEF Spec

==============================================================================
