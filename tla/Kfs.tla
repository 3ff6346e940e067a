--------------------------------- MODULE Kfs ----------------------------------
(***************************************************************************)
(* The file system (kfs.c) over the block driver (vioblk.c), with the       *)
(* driver's lock (lock.h), as threads call it.                             *)
(*                                                                         *)
(* The hart runs kernel code without preemption: `cpu' is the thread in     *)
(* kernel code, which keeps the hart until it sleeps or returns.  System    *)
(* calls run with interrupts disabled; main, which loads the first process   *)
(* and then is it, runs with them enabled.                                  *)
(*                                                                         *)
(* The disk is a function of positions, and a table entry of a file is one  *)
(* position wide.  The data a thread writes is its own number.              *)
(***************************************************************************)
EXTENDS Integers, Sequences, FiniteSets, FiniteSetsExt

CONSTANTS
    Threads, Kernel,    \* the callers; {main} to start at boot, or {}
    Slots,              \* indices of fileDescriptorsArray
    BLOCK_SIZE, blksz,  \* block of the file system, block of the device
    FileSize, Blocks,   \* per file: its length, its data block numbers
    Counts, Seeks,      \* bytes asked of a read or a write; positions sought
    Forks,              \* whether processes fork with a file open
    PartBlocks,         \* whether they write parts of device blocks
    Faults,             \* whether the device fails requests
    PosBound            \* no calls at positions past this (bound of the model)

ASSUME KfsAssumption ==
    /\ Threads \subseteq Nat \ {0} /\ Kernel \subseteq Threads /\ Cardinality(Kernel) < 2
    /\ Slots # {} /\ Slots \subseteq Nat
    /\ blksz \in Nat \ {0} /\ BLOCK_SIZE \in Nat \ {0}
    /\ BLOCK_SIZE % blksz = 0
    /\ Counts \subseteq Nat \ {0} /\ Seeks \subseteq Nat
    /\ PosBound \in Nat
    /\ {Forks, PartBlocks, Faults} \subseteq BOOLEAN

NoThread == 0
NoSlot == -1
NoFile == -1    \* the inode of a name that is not in the directory
NoBlock == -1   \* dev->bufblkno = (uint64_t)-1

VARIABLES
    disk,           \* what the device holds
    inflight,       \* the request the device works on
    failed, irq,    \* its req_status, its interrupt
    devpos, bufblkno, blkbuf,
    dev_wait,       \* asleep on used_updated
    lk_tid, lk_wait,
    flags, file_pos, file_size, inode_num,
    handle,         \* the open file a thread uses
    op, pc,         \* its call, and where the call is
    n, chunk, m,    \* bytes left of the call; of this round: all, left
    got,            \* bytes a read has copied out
    cpu,
    kernel          \* {main} while it runs with interrupts enabled

devVars == <<disk, inflight, failed, irq>>
drvVars == <<devpos, bufblkno, blkbuf, dev_wait>>
lkVars == <<lk_tid, lk_wait>>
fdVars == <<flags, file_pos, file_size, inode_num>>
callVars == <<handle, op, n, chunk, m, got>>
vars == <<devVars, drvVars, lkVars, fdVars, callVars, pc, cpu, kernel>>

Files == DOMAIN FileSize
NInodes == Cardinality(Files)

\* Block 0 describes the disk, block f + 1 is file f's table: its length and the
\* numbers of its data blocks, which follow the tables.
TableAt(f, k) == (f + 1) * BLOCK_SIZE + k
DataAt(b, off) == (NInodes + 1 + b) * BLOCK_SIZE + off
ByteAt(f, p) == DataAt(Blocks[f][p \div BLOCK_SIZE + 1], p % BLOCK_SIZE)
DiskEnd == DataAt(Max(UNION {{Blocks[f][i] : i \in DOMAIN Blocks[f]} : f \in Files}) + 1, 0) - 1

\* Every file has the blocks its length takes, and no other file has them; a
\* table holds the length and the block numbers.
ASSUME DiskAssumption ==
    /\ IsFiniteSet(Files) /\ Files = 0 .. NInodes - 1
    /\ \A f \in Files :
          /\ FileSize[f] \in Nat
          /\ Blocks[f] \in Seq(Nat)
          /\ Len(Blocks[f]) < BLOCK_SIZE
          /\ FileSize[f] <= Len(Blocks[f]) * BLOCK_SIZE
    /\ \E f \in Files : Blocks[f] # <<>>
    /\ \A f, g \in Files : \A i \in DOMAIN Blocks[f], j \in DOMAIN Blocks[g] :
          Blocks[f][i] = Blocks[g][j] => f = g /\ i = j

\* Every byte of a file starts with a value of its own.
Fresh(f, p) == 100 * (f + 1) + p

InitDisk ==
    [x \in 0 .. DiskEnd |->
        LET entry == {f \in Files : x = TableAt(f, 0)}
            table == {fk \in Files \X (1 .. BLOCK_SIZE - 1) :
                        fk[2] \in DOMAIN Blocks[fk[1]] /\ x = TableAt(fk[1], fk[2])}
            byte == {fp \in Files \X (0 .. DiskEnd) :
                        fp[2] < FileSize[fp[1]] /\ x = ByteAt(fp[1], fp[2])}
        IN IF entry # {} THEN FileSize[CHOOSE f \in entry : TRUE]
           ELSE IF table # {} THEN LET fk == CHOOSE v \in table : TRUE IN Blocks[fk[1]][fk[2]]
           ELSE IF byte # {} THEN LET fp == CHOOSE v \in byte : TRUE IN Fresh(fp[1], fp[2])
           ELSE 0]

NoReq == [type |-> "none", blk |-> NoBlock]

\* After fs_init, vioblk_open and fs_mount, which leaves block 0 in the buffer.
Init ==
    /\ disk = InitDisk
    /\ inflight = NoReq /\ failed = FALSE /\ irq = FALSE
    /\ devpos = BLOCK_SIZE
    /\ bufblkno = BLOCK_SIZE \div blksz - 1
    /\ blkbuf = [i \in 0 .. blksz - 1 |-> 0]
    /\ dev_wait = {}
    /\ lk_tid = NoThread /\ lk_wait = {}
    /\ flags = [s \in Slots |-> FALSE]
    /\ file_pos = [s \in Slots |-> 0]
    /\ file_size = [s \in Slots |-> 0]
    /\ inode_num = [s \in Slots |-> 0]
    /\ handle = [t \in Threads |-> NoSlot]
    /\ op = [t \in Threads |-> "none"]
    /\ pc = [t \in Threads |-> "user"]
    /\ n = [t \in Threads |-> 0]
    /\ chunk = [t \in Threads |-> 0]
    /\ m = [t \in Threads |-> 0]
    /\ got = [t \in Threads |-> <<>>]
    /\ cpu = NoThread
    /\ kernel = Kernel

\* t goes on: it has the hart, or is woken and takes it.
Runs(t, l) ==
    /\ pc[t] = l
    /\ cpu = t \/ (cpu = NoThread /\ t \notin dev_wait \cup lk_wait)
Idle(t) == pc[t] = "user" /\ cpu = NoThread /\ kernel \subseteq {t}

Goto(t, l) == pc' = [pc EXCEPT ![t] = l]
Keeps(t) == cpu' = t
Gives == cpu' = NoThread

------------------------------------------------------------------------------
(* The device and its interrupt *)

Span(b) == b * blksz .. (b + 1) * blksz - 1

\* The device carries out a request, or fails it, and interrupts.
Complete ==
    /\ inflight # NoReq
    /\ \E bad \in {FALSE, Faults} :
          /\ failed' = bad
          /\ disk' = IF bad \/ inflight.type = "in" THEN disk
                     ELSE [x \in DOMAIN disk |->
                            IF x \in Span(inflight.blk) THEN blkbuf[x % blksz] ELSE disk[x]]
          /\ blkbuf' = IF bad \/ inflight.type = "out" THEN blkbuf
                       ELSE [i \in 0 .. blksz - 1 |-> disk[inflight.blk * blksz + i]]
    /\ irq' = TRUE
    /\ inflight' = NoReq
    /\ UNCHANGED <<kernel, devpos, bufblkno, dev_wait, lkVars, fdVars, callVars, pc, cpu>>

\* vioblk_isr, as soon as interrupts are enabled.
Isr ==
    /\ irq
    /\ cpu \in kernel \cup {NoThread}
    /\ irq' = FALSE
    /\ dev_wait' = {}
    /\ UNCHANGED <<kernel, disk, inflight, failed, devpos, bufblkno, blkbuf, lkVars, fdVars, callVars, pc, cpu>>

\* Notify the device and sleep, in one step as interrupts are disabled; and a
\* read that left them enabled, so that the interrupt may come in between.
SubmitUnmasked(t, type, buf) ==
    /\ dev_wait' = dev_wait \cup {t}
    /\ irq' = FALSE
    /\ \/ inflight' = [type |-> type, blk |-> devpos \div blksz]
       \/ t \in kernel /\ inflight' = NoReq
    /\ blkbuf' = buf
    /\ Gives
    /\ UNCHANGED <<disk, failed>>
Submit(t, type, buf) ==
    /\ inflight' = [type |-> type, blk |-> devpos \div blksz]
    /\ dev_wait' = dev_wait \cup {t}
    /\ blkbuf' = buf
    /\ Gives
    /\ UNCHANGED <<disk, failed, irq>>

------------------------------------------------------------------------------
(* lock.h *)

\* The test of lock_acquire's loop; and an acquire that tests only once.
MayTakeOnce(t) == lk_tid = NoThread \/ cpu = NoThread
MayTake(t) == lk_tid = NoThread

Acquire(t) ==
    /\ Runs(t, "acquire")
    /\ IF MayTake(t)
       THEN lk_tid' = t /\ UNCHANGED lk_wait /\ Goto(t, "loop") /\ Keeps(t)
       ELSE lk_wait' = lk_wait \cup {t} /\ Gives /\ UNCHANGED <<lk_tid, pc>>
    /\ UNCHANGED <<kernel, devVars, drvVars, fdVars, callVars>>

\* lock_release.
Release(t) == lk_tid' = NoThread /\ lk_wait' = {}

Return(t) ==
    /\ Goto(t, "user")
    /\ Gives
    /\ op' = [op EXCEPT ![t] = "none"]
    /\ n' = [n EXCEPT ![t] = 0]
    /\ chunk' = [chunk EXCEPT ![t] = 0]
    /\ m' = [m EXCEPT ![t] = 0]
    /\ got' = [got EXCEPT ![t] = <<>>]

------------------------------------------------------------------------------
(* The calls of kfs.c, up to lock_acquire *)

\* The first unused descriptor is marked before the sleep; and one that is not yet.
NotYetMarked(s) == flags
Marked(s) == [flags EXCEPT ![s] = TRUE]

\* fs_open.  A name that is not found returns at once.
Open(t, f) ==
    /\ Idle(t) /\ handle[t] = NoSlot
    /\ t \in kernel => f # NoFile
    /\ \E s \in Slots : ~flags[s]
    /\ LET s == Min({x \in Slots : ~flags[x]})
       IN /\ flags' = Marked(s)
          /\ file_pos' = [file_pos EXCEPT ![s] = 0]
          /\ IF f = NoFile
             THEN UNCHANGED <<inode_num, handle, op, pc, cpu>>
             ELSE /\ inode_num' = [inode_num EXCEPT ![s] = f]
                  /\ handle' = [handle EXCEPT ![t] = s]
                  /\ op' = [op EXCEPT ![t] = "open"]
                  /\ Goto(t, "acquire")
                  /\ Keeps(t)
    /\ UNCHANGED <<kernel, devVars, drvVars, lkVars, file_size, n, chunk, m, got>>

\* Every descriptor is in use: -EINVAL.
OpenFull(t) ==
    /\ Idle(t) /\ handle[t] = NoSlot
    /\ \A s \in Slots : flags[s]
    /\ UNCHANGED vars

\* The bytes asked for are limited to the rest of the file.  n is unsigned:
\* compared with a negative limit it is not larger.
Clamped(s, k) ==
    LET limit == file_size[s] - file_pos[s]
    IN IF limit >= 0 /\ k > limit THEN limit ELSE k

\* Whether a write covers whole blocks of the device.
Aligned(s, k) == file_pos[s] % blksz = 0 /\ Clamped(s, k) % blksz = 0

\* fs_read and fs_write
Transfer(t, call, k) ==
    /\ Idle(t) /\ handle[t] # NoSlot
    /\ file_pos[handle[t]] <= PosBound
    /\ call = "write" => t \notin kernel /\ (PartBlocks \/ Aligned(handle[t], k))
    /\ op' = [op EXCEPT ![t] = call]
    /\ n' = [n EXCEPT ![t] = Clamped(handle[t], k)]
    /\ Goto(t, "acquire")
    /\ Keeps(t)
    /\ UNCHANGED <<kernel, devVars, drvVars, lkVars, fdVars, handle, chunk, m, got>>

\* fs_setpos
SetPos(t, p) ==
    /\ Idle(t) /\ handle[t] # NoSlot
    /\ p <= file_size[handle[t]]
    /\ file_pos' = [file_pos EXCEPT ![handle[t]] = p]
    /\ UNCHANGED <<kernel, devVars, drvVars, lkVars, flags, file_size, inode_num, callVars, pc, cpu>>

\* The last ioclose of a descriptor calls fs_close.
LastHolder(t) == \A u \in Threads \ {t} : handle[u] # handle[t]
Close(t) ==
    /\ Idle(t) /\ t \notin kernel /\ handle[t] # NoSlot
    /\ handle' = [handle EXCEPT ![t] = NoSlot]
    /\ flags' = IF LastHolder(t) THEN [flags EXCEPT ![handle[t]] = FALSE] ELSE flags
    /\ UNCHANGED <<kernel, devVars, drvVars, lkVars, file_pos, file_size, inode_num,
                   op, n, chunk, m, got, pc, cpu>>

\* main has loaded the first process and enters it.  It does not close the file.
EnterUser(t) ==
    /\ Idle(t) /\ t \in kernel /\ handle[t] # NoSlot
    /\ kernel' = {}
    /\ handle' = [handle EXCEPT ![t] = NoSlot]
    /\ UNCHANGED <<devVars, drvVars, lkVars, fdVars, op, n, chunk, m, got, pc, cpu>>

\* fork: the child has the parent's open files.
Fork(t, u) ==
    /\ Forks /\ Idle(t) /\ Idle(u)
    /\ handle[t] # NoSlot /\ handle[u] = NoSlot
    /\ handle' = [handle EXCEPT ![u] = handle[t]]
    /\ UNCHANGED <<kernel, devVars, drvVars, lkVars, fdVars, op, n, chunk, m, got, pc, cpu>>

------------------------------------------------------------------------------
(* Under the lock *)

\* The head of the loop over blocks: look up the block of the current position.
Loop(t) ==
    /\ Runs(t, "loop") /\ op[t] # "open" /\ n[t] > 0
    /\ LET s == handle[t]
           left == BLOCK_SIZE - (file_pos[s] % BLOCK_SIZE)
           k == IF n[t] > left THEN left ELSE n[t]
       IN /\ chunk' = [chunk EXCEPT ![t] = k]
          /\ m' = [m EXCEPT ![t] = k]
          /\ devpos' = TableAt(inode_num[s], file_pos[s] \div BLOCK_SIZE + 1)
    /\ Goto(t, "entry") /\ Keeps(t)
    /\ UNCHANGED <<kernel, devVars, bufblkno, blkbuf, dev_wait, lkVars, fdVars, handle, op, n, got>>

\* fs_open seeks the length of the file.
LoopOpen(t) ==
    /\ Runs(t, "loop") /\ op[t] = "open"
    /\ devpos' = TableAt(inode_num[handle[t]], 0)
    /\ Goto(t, "entry") /\ Keeps(t)
    /\ UNCHANGED <<kernel, devVars, bufblkno, blkbuf, dev_wait, lkVars, fdVars, callVars>>

Done(t) ==
    /\ Runs(t, "loop") /\ op[t] # "open" /\ n[t] = 0
    /\ Release(t) /\ Return(t)
    /\ UNCHANGED <<kernel, devVars, drvVars, fdVars, handle>>

\* vioblk_read, of a table entry or of data: the block is in the buffer, or has
\* to be fetched.
Reading(t) == Runs(t, "entry") \/ (Runs(t, "xfer") /\ op[t] = "read")

Fetch(t) ==
    /\ Reading(t) /\ bufblkno # devpos \div blksz
    /\ Submit(t, "in", blkbuf)
    /\ Goto(t, IF pc[t] = "entry" THEN "entry_ret" ELSE "xfer_ret")
    /\ UNCHANGED <<kernel, devpos, bufblkno, lkVars, fdVars, callVars>>

Fetched(t) ==
    /\ Runs(t, "entry_ret") \/ (Runs(t, "xfer_ret") /\ op[t] = "read")
    /\ ~failed
    /\ bufblkno' = devpos \div blksz
    /\ Goto(t, IF pc[t] = "entry_ret" THEN "entry" ELSE "xfer") /\ Keeps(t)
    /\ UNCHANGED <<kernel, devVars, devpos, blkbuf, dev_wait, lkVars, fdVars, callVars>>

\* What follows the ioread of an entry, whose result the code does not test.  A
\* failed one leaves fs_block_num at 0, and file_len uninitialised; w is how far the read came.
Entry(t, v, w) ==
    IF op[t] = "open"
    THEN /\ file_size' = [file_size EXCEPT ![handle[t]] = v]
         /\ Release(t) /\ Return(t)
         /\ devpos' = devpos + w
         /\ UNCHANGED <<flags, file_pos, inode_num, handle>>
    ELSE /\ devpos' = DataAt(v, file_pos[handle[t]] % BLOCK_SIZE)
         /\ Goto(t, "xfer") /\ Keeps(t)
         /\ UNCHANGED <<lkVars, fdVars, callVars>>

EntryHit(t) ==
    /\ Runs(t, "entry") /\ bufblkno = devpos \div blksz
    /\ Entry(t, blkbuf[devpos % blksz], 1)
    /\ UNCHANGED <<kernel, devVars, bufblkno, blkbuf, dev_wait>>

EntryFailed(t) ==
    /\ Runs(t, "entry_ret") /\ failed
    /\ \E v \in IF op[t] = "open" THEN {0, BLOCK_SIZE} ELSE {0} : Entry(t, v, 0)
    /\ UNCHANGED <<kernel, devVars, bufblkno, blkbuf, dev_wait>>

------------------------------------------------------------------------------
(* The rounds of vioblk_read and vioblk_write, one block of the device each *)

\* Up to the end of the block or of the transfer.
Round(t) == Min({blksz - (devpos % blksz), m[t]})

\* The last round is over: ioread or iowrite returns the chunk.
Advance(t, k) ==
    /\ devpos' = devpos + k
    /\ IF m[t] = k
       THEN /\ file_pos' = [file_pos EXCEPT ![handle[t]] = @ + chunk[t]]
            /\ n' = [n EXCEPT ![t] = @ - chunk[t]]
            /\ chunk' = [chunk EXCEPT ![t] = 0]
            /\ Goto(t, "loop")
       ELSE Goto(t, "xfer") /\ UNCHANGED <<file_pos, n, chunk>>
    /\ m' = [m EXCEPT ![t] = @ - k]
    /\ Keeps(t)

ReadHit(t) ==
    /\ Reading(t) /\ pc[t] = "xfer" /\ bufblkno = devpos \div blksz
    /\ got' = [got EXCEPT ![t] = @ \o [i \in 1 .. Round(t) |-> blkbuf[(devpos % blksz) + i - 1]]]
    /\ Advance(t, Round(t))
    /\ UNCHANGED <<kernel, devVars, bufblkno, blkbuf, dev_wait, lkVars, flags, file_size, inode_num, handle, op>>

Patched(t) ==
    [i \in 0 .. blksz - 1 |->
        IF i \in (devpos % blksz) .. (devpos % blksz) + Round(t) - 1 THEN t ELSE blkbuf[i]]

\* The request before a partial write of a block that is not in the buffer.  Its
\* type is VIRTIO_BLK_T_OUT: it writes the buffer over the block.
PreRead(t) ==
    /\ Runs(t, "xfer") /\ op[t] = "write"
    /\ Round(t) < blksz /\ bufblkno # devpos \div blksz
    /\ Submit(t, "out", blkbuf)
    /\ Goto(t, "pre_ret")
    /\ UNCHANGED <<kernel, devpos, bufblkno, lkVars, fdVars, callVars>>

WriteBlock(t) ==
    /\ op[t] = "write"
    /\ \/ Runs(t, "xfer") /\ (Round(t) = blksz \/ bufblkno = devpos \div blksz)
       \/ Runs(t, "pre_ret") /\ ~failed
    /\ bufblkno' = devpos \div blksz
    /\ Submit(t, "out", Patched(t))
    /\ Goto(t, "xfer_ret")
    /\ UNCHANGED <<kernel, devpos, lkVars, fdVars, callVars>>

WriteDone(t) ==
    /\ Runs(t, "xfer_ret") /\ op[t] = "write" /\ ~failed
    /\ Advance(t, Round(t))
    /\ UNCHANGED <<kernel, devVars, bufblkno, blkbuf, dev_wait, lkVars, flags, file_size, inode_num, handle, op, got>>

\* A loop that goes on when the driver has moved nothing.
TransferRetried(t) ==
    /\ Runs(t, "xfer_ret") \/ Runs(t, "pre_ret")
    /\ failed
    /\ Goto(t, "loop") /\ Keeps(t)
    /\ UNCHANGED <<kernel, devVars, drvVars, lkVars, fdVars, callVars>>

\* -EIO from the driver: release the lock and return -EINVAL.
TransferFailed(t) ==
    /\ Runs(t, "xfer_ret") \/ Runs(t, "pre_ret")
    /\ failed
    /\ Release(t) /\ Return(t)
    /\ UNCHANGED <<kernel, devVars, drvVars, fdVars, handle>>

------------------------------------------------------------------------------

Step(t) ==
    \/ Acquire(t) \/ Loop(t) \/ LoopOpen(t) \/ Done(t)
    \/ Fetch(t) \/ Fetched(t) \/ EntryHit(t) \/ EntryFailed(t) \/ ReadHit(t)
    \/ PreRead(t) \/ WriteBlock(t) \/ WriteDone(t) \/ TransferFailed(t)

Call(t) ==
    \/ \E f \in Files \cup {NoFile} : Open(t, f)
    \/ OpenFull(t)
    \/ \E call \in {"read", "write"}, k \in Counts : Transfer(t, call, k)
    \/ \E p \in Seeks : SetPos(t, p)
    \/ Close(t) \/ EnterUser(t)
    \/ \E u \in Threads \ {t} : Fork(t, u)

Next == Complete \/ Isr \/ \E t \in Threads : Step(t) \/ Call(t)

Spec == Init /\ [][Next]_vars

\* The device answers, the hart runs, interrupts are enabled again.
FairSpec ==
    /\ Spec
    /\ WF_vars(Complete) /\ WF_vars(Isr)
    /\ \A t \in Threads : WF_vars(Step(t))

------------------------------------------------------------------------------
(* Properties *)

Holding == {"loop", "entry", "entry_ret", "pre_ret", "xfer", "xfer_ret"}

TypeOK ==
    /\ DOMAIN disk = 0 .. DiskEnd
    /\ inflight \in {NoReq} \cup [type : {"in", "out"}, blk : 0 .. DiskEnd \div blksz]
    /\ {failed, irq} \subseteq BOOLEAN
    /\ devpos \in 0 .. DiskEnd + 1
    /\ bufblkno \in 0 .. DiskEnd \div blksz
    /\ DOMAIN blkbuf = 0 .. blksz - 1
    /\ dev_wait \subseteq Threads /\ lk_wait \subseteq Threads
    /\ {lk_tid, cpu} \subseteq Threads \cup {NoThread}
    /\ kernel \subseteq Kernel
    /\ flags \in [Slots -> BOOLEAN]
    /\ inode_num \in [Slots -> Files]
    /\ handle \in [Threads -> Slots \cup {NoSlot}]
    /\ op \in [Threads -> {"none", "open", "read", "write"}]
    /\ pc \in [Threads -> Holding \cup {"user", "acquire"}]
    /\ \A t \in Threads : m[t] \in 0 .. chunk[t] /\ chunk[t] \in 0 .. BLOCK_SIZE

\* vioblk_lock: whoever is between lock_acquire and lock_release holds it, so at
\* most one thread uses the device, its position, its buffer and its request,
\* although every call sleeps in the middle.
LockHeld == \A t \in Threads : pc[t] \in Holding <=> lk_tid = t

\* No thread sleeps without someone to wake it: a request in flight or its
\* interrupt for the device, a holder for the lock.
NoLostWakeup ==
    /\ dev_wait # {} => inflight # NoReq \/ irq
    /\ lk_wait # {} => lk_tid # NoThread

\* A descriptor in use is marked, also while its fs_open sleeps, and however many
\* processes share it, until the last of them has closed it.
SlotsMarked == \A t \in Threads : handle[t] # NoSlot => flags[handle[t]]

\* Two opens never get the same descriptor, although fs_open sleeps after it has
\* chosen one (fork is what shares one: this is of processes that do not).
SlotsDistinct == \A t, u \in Threads : t # u /\ handle[t] # NoSlot => handle[t] # handle[u]

\* Whoever takes the lock releases it, on the error paths as well.
LockReleased == \A t \in Threads : lk_tid = t ~> lk_tid # t

\* "Block currently in block buffer" (struct vioblk_device): what bufblkno says
\* is in the buffer is what the device has there.
BufferTrue ==
    lk_tid = NoThread =>
        \A i \in DOMAIN blkbuf : blkbuf[i] = disk[bufblkno * blksz + i]

\* "Check if the size read fits within max file size" (fs_read, fs_write): a
\* position never passes the end of its file.  It does not as long as processes
\* do not share a file: the limit is computed before the lock, and used after it.
PosWithinFile == \A s \in Slots : flags[s] => file_pos[s] <= file_size[s]

FileBytes(f) == {Fresh(f, p) : p \in 0 .. FileSize[f] - 1} \cup Threads

\* "handling block alignment and buffering" (vioblk_write): what is not written
\* to a file keeps its value.
OtherBytesKept ==
    \A f \in Files : \A p \in 0 .. FileSize[f] - 1 :
        disk[ByteAt(f, p)] \in {Fresh(f, p)} \cup Threads

\* "number of read bytes / error code" (fs_read): what a call has read without
\* reporting an error are bytes of its file.
ErrorsReported ==
    \A t \in Threads : op[t] = "read" =>
        \A i \in DOMAIN got[t] : got[t][i] \in FileBytes(inode_num[handle[t]])

\* "Marks the file descriptor of closed file as unused", "Check if file
\* descriptor in use": a descriptor that is in use belongs to an open file.
UsedSlotHasHolder == \A s \in Slots : flags[s] => \E t \in Threads : handle[t] = s

------------------------------------------------------------------------------
(* The calls are atomic *)

\* What the holder of the lock has still to move, and the files as they are when
\* it has.
Moved(t) == chunk[t] - m[t]
Rest(t) == LET p == file_pos[handle[t]] IN p + Moved(t) .. p + n[t] - 1
Moving(t, call) == lk_tid = t /\ op[t] = call

Unwritten(f, p) ==
    \E t \in Threads : Moving(t, "write") /\ inode_num[handle[t]] = f /\ p \in Rest(t)

Contents ==
    [f \in Files |-> [p \in 0 .. FileSize[f] - 1 |->
        IF Unwritten(f, p) THEN lk_tid ELSE disk[ByteAt(f, p)]]]

Calling(t) == IF op[t] = "open" THEN "none" ELSE op[t]
Decided(t) == lk_tid = t /\ Calling(t) # "none"
IsOpen(t) == handle[t] # NoSlot /\ op[t] # "open"

\* What a thread sees of its open file, and of its call.
OpenFile(t) == IF IsOpen(t) THEN inode_num[handle[t]] ELSE NoFile
Position(t) ==
    IF ~IsOpen(t) THEN 0 ELSE file_pos[handle[t]] + IF Decided(t) THEN n[t] ELSE 0
Asked(t) == IF Decided(t) THEN 0 ELSE n[t]
ToRead(t) ==
    [i \in 1 .. n[t] - Moved(t) |->
        disk[ByteAt(inode_num[handle[t]], file_pos[handle[t]] + Moved(t) + i - 1)]]
Result(t) == IF Moving(t, "read") THEN got[t] \o ToRead(t) ELSE <<>>

Atomic == INSTANCE AtomicFiles WITH
    content <- Contents,
    call <- [t \in Threads |-> Calling(t)],
    decided <- [t \in Threads |-> Decided(t)],
    file <- [t \in Threads |-> OpenFile(t)],
    pos <- [t \in Threads |-> Position(t)],
    count <- [t \in Threads |-> Asked(t)],
    result <- [t \in Threads |-> Result(t)]

\* Every fs_read and fs_write happens at one moment between its call and its
\* return, for all the bytes it moves, and moves the bytes of its file from its
\* position on: the locking, the sharing of one device position and one buffer,
\* and the split into blocks of two sizes do not show.
AtomicSpec == Atomic!Spec

==============================================================================
