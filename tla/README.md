# TLA+ models of the course kernel (src/src/kern)

The repository is a small teaching operating system for one RISC-V hart (QEMU
`virt`): kernel threads, conditions, a timer with alarms, UART and virtio block
drivers, a file system, Sv39 virtual memory, processes with system calls and
`fork`. This directory holds TLA+ modules of its parts, TLC configurations that
check them on small instances, and TLAPS proofs of theorems about them for all
values of the constants. Paths below are relative to `src/src/kern/`.

`PROJECT.json` lists, for every definition of a model, the source lines it
stands for, and the runs, hazards and theorems.

## 1. The system

One hart. Kernel code is not preempted: the hart changes threads only in
`suspend_self` (`thread.c`), which is reached by waiting on a condition, by
`thread_yield`, by `thread_exit`, and by a timer or device interrupt taken
while in user mode. Interrupts come in between any two kernel instructions
while `sstatus.SIE` is set; a handler may only broadcast conditions. System
calls start with SIE clear (the trap cleared it). The order of things between
two sleeps is therefore fixed, and everything hard happens at the sleeps, at
the interrupts, and at the boundary of SIE.

| component | state it keeps | operations | hard because | correct when | module |
|---|---|---|---|---|---|
| **Thread manager** `thread.c` | `thrtab`, `ready_list`, wait lists, `CURTHR` | spawn, fork, exit, join, yield, wait, broadcast, switch, idle | handlers broadcast in the middle of `condition_wait` and `suspend_self`; slots are reused; children handed over | every list holds what the states say; no exit is missed; nobody ready starves | `Threads`, `ThreadTree` |
| **Trap path** `trapasm.s`, `thrasm.s`, `excp.c` | trap frames, `sscratch`, `stvec`, stack anchors | entry and return in both modes, switch, jump and fork into user mode | stack and vector change in windows of a few instructions | a program goes on where it was, on its own kernel stack | `Traps` |
| **Interrupts** `intr.c`, `plic.c` | ISR table, PLIC registers | register, enable, disable, claim, complete | devices close while their interrupt is pending | no interrupt without the handler of an open device | `Devices`, `Plic` |
| **Timer and alarms** `timer.c` | `mtcmp`, `next_tick`, `sleep_list`, `al->twake` | reset, sleep, handler | tick and alarms share one comparator; unsigned arithmetic | sorted list, comparator in time, no sleep short or lost | `Alarms` |
| **Sleep locks** `lock.h`, **block driver** `vioblk.c`, **file system** `kfs.c` | owner; position and buffer; descriptor table | acquire and release; read, write, seek; open, close | every call sleeps several times and all share one position and one buffer | calls are atomic; the lock is released; descriptors are not shared | `Kfs`, `AtomicFiles` |
| **Image** `util/mkfs.c`, `kfs.c` | tables and blocks | build, mount, look up, read, write | two formulas count the same blocks; names without a terminator | what is stored is what is read; a name leads to its file | `Image` |
| **Processes, descriptors** `process.c`, `syscall.c`, `io.h` | `iotab`, reference counts | open, close, fork, exec, exit | counts across fork, exec and sleeps | a count equals the holders; what is held is open | `Descriptors`, `Handles` |
| **Virtual memory** `memory.c`, **ELF loader** `elf.c` | page pool, page tables | map, flags, clone, unmap, page fault, load | deep copies on fork, freed pages, unaligned ranges | every page in one place; memories apart | `Memory`, `AddressSpaces` |
| **UART** `uart.c` | two rings with 16-bit positions, IER | open, read, write, handler, close | the handler comes between any two accesses of a reader | two queues; no wake-up and no enable bit lost | `Uart`, `Channels` |
| **I/O objects** `io.c` | literals; line state | read and write loops, newline conversion, line editing | newlines cut by pieces; partial writes | what is typed is what is read | `Term`, `IoObjects` |
| **Device table, heap, boot** `device.c`, `virtio.c`, `ezheap.c`, `main.c` | `devtab`, what is left of a page | attach, open by name and number, `kmalloc` | numbering, negotiation, the end of a page | the instance asked for; no byte given twice | `Devices`, `Heap` |

## 2. The modules

Each module of the list is followed, as `MC…`, by the values TLC uses.

**`Threads`** – `state`, `parent`, `proc`, `waitCond` are fields of `struct thread`;
`readyList` and `waitList` the lists; `curthr` is `tp`; `sie`, `pending` the interrupts;
`space` the active memory space; `stacks`, `freePages` the stack pages. A thread's `pc`
says where it is inside `thread.c`, or outside (`"kern"`, `"user"`, the idle loop). Code
that runs with interrupts disabled, or touches nothing a handler touches, is one action;
`condition_wait`, `suspend_self` and the idle loop are cut where interrupts can come in.
Every `assert` and `panic` sets `status`. Kernel code outside `thread.c` is any sequence
of calls, which is more than the present callers do. **`ThreadTree`** is what it promises
about lives: created by a living parent, alive, zombie until reaped, children inherited.

**`Traps`** – the registers `pc`, `sp`, `tp`, `sscratch`, `stvec`, `sepc` and SIE, the
frames on each stack, the thread pointer in each stack anchor and what `_thread_swtch`
saves. A return to user mode, a jump and a fork are cut at every instruction after which an
interrupt finds something else. An interrupt of kernel code is one step: it changes
`sepc`, and it ends well or leaves the hart `"lost"`, according to where `stvec` leads and
what stack it finds. `sstatus.SPP` is left out, for it is clear outside such a step.

**`Devices`** over **`Plic`** and **`Heap`** – main goes through what the bus has, allocates,
registers and enables; then threads open, use and close the devices, which interrupt at any
time: the gateway notes an interrupt (`Note`), `Claim` takes it by priority, `Handle` calls
what `isrtab` has, `CloseIrq` completes it. `Plic` has the words and bits at the offsets
that `plic.c` computes; `Heap` has `kmalloc` with its cases at the end of a page.

**`Alarms`** – `mtime`, `mtcmp`, `mtie`, `stip` with the machine-mode relay, and an alarm for
each thread, as in `sysusleep`. `alarm_sleep` is cut where interrupts are enabled. Words have
the widths `INT_MAX` and `UMAX`, and conversions and sums follow C.

**`Kfs`** – file system, driver and lock are one module, because a call is one control path
through all of them: descriptors (`flags`, `file_pos`, ...), lock (`lk_tid`, `lk_wait`),
driver (`devpos`, `bufblkno`, `blkbuf`), device (`disk`, `inflight`, `irq`) and a call for
each thread. `cpu` is the thread that keeps the hart until it sleeps or returns.
**`AtomicFiles`** is the promise: contents, positions and calls that happen at one moment.
The mapping *rolls forward*: once a call has the lock, contents, position and result are
those it will have at its end; so the moment a call happens is when it takes the lock.

**`Image`** – `mkfs` writes tables and blocks, one loop after the other, and `kfs.c` mounts the
image, whole or cut short, from a memory literal, opens by name and reads and writes over
block boundaries. **`IoObjects`** has the literals and the loops over short transfers.

**`Descriptors`** – `iotab` of every process, the object and descriptor a call holds while it
sleeps, the counts, the slots of the file system and the ports. Calls that sleep (`fs_open`,
exec, transfers) are cut there. **`Handles`** is the promise: what is opened was not open, and
an object closes when the last that reaches it lets go.

**`Memory`** – frames with page tables of three levels (the last two with two entries
each) and words of data; `walk_pt`, mapping, flags, unmapping, `memory_space_clone` entry by
entry, page faults, and `elf_load` segment by segment, with a sleep between two. A program has any
headers, also ones at odds with themselves: sums of addresses wrap at `ADDR_MOD`, `ioread` writes what
is asked of it or what the file still has, `memset` clears the rest, of which the length wraps too. A write to
a page that is not mapped is a fault in the kernel; so is one that leaves the user range, which in the code
either faults or writes over the kernel. The page pool runs out. **`AddressSpaces`** is the promise: a memory for every process, zeroed pages,
copies at fork.

**`Uart`** – rings, registers and `ier`, with readers and writers cut between any two accesses
that `uart_isr` can come between: slot and position, load and store of `ier |= ...`.
**`Channels`** is the promise: two bounded queues, of which only opening loses anything.

**`Term`** – `ioterm`: newlines both ways, writes that end in the middle, and the line editor
with its echo. A terminal is always made over the UART (`termio_raw` in `main_shell.c`, `main_tests.c`,
`iolit_tests.c`), whose `uart_read` and `uart_write` return no errors, or here over a memory literal, whose
writes stop at its end. So `WriteChar` has what a full literal returns, while the branches for a negative
result of the echo's `ioputc` and of the raw `ioread` in `ioterm_getsn` and `ioterm_read`, which neither object
can take, are left out of `Edit` and `Receive`.

`Threads` models waiting and waking in full, and the others use what it shows
(`ListsExact`, `WakeOrder`, `ReadyRuns`): waiting is a label or membership in a set, a
broadcast empties it, a woken thread runs in the end. In the same way `Descriptors` uses
`Kfs` (a call is atomic) and `Devices` (an instance is found), `Memory` uses `Threads` (code runs
in its own space), and `Threads` uses `Traps` (a return to user mode is one step).

## 3. The runs

| run | instance | shows |
|---|---|---|
| `threads_lists` | main, idle and a thread; timer and one device; fairness | lists exact, no assertion fails, idle does not sleep on a ready thread, wake-ups in order, a ready thread runs in the end |
| `threads_family` | 4 slots, timer, 3 pages | no exit lost, family a tree, processes in their space, `ThreadTree` implemented |
| `traps` | 3 threads and idle | every stack keeps its frame and every program goes on where it was; the hart is lost in five places and no other (section 6) |
| `devices` | a console, a serial line and two disks, one of which may not offer what is needed | no byte of the heap given twice, no interrupt without handler or for a closed device, nobody woken before the device is done, instances numbered as found; every request answered |
| `alarms_sleep` | 3 sleepers; fairness | list exact and sorted, comparator in time, no sleep short, whose time comes is woken |
| `kfs_calls` | 2 processes, a file of two blocks | every call is atomic (`AtomicFiles`); no two open files share a descriptor |
| `kfs_shared` | from boot on, forks, partial blocks, a failing device; fairness | the lock excludes and is released, no completion slept through |
| `image` | up to 3 files, images whole or cut | contents and names survive mkfs, mount, reads and writes |
| `descriptors` | 3 processes, 3 slots, a port | counts exact, what is held is open, no two descriptors of a process share, `Handles` implemented |
| `memory` | 2 processes, 13 pages, any headers | every page in one place, dead spaces map nothing, a segment that fits is loaded and then in memory, `AddressSpaces` implemented |
| `uart` | 2 readers, one of which writes; fairness | nothing forgotten that is waited for, `Channels` implemented, waiters served, writes end, what is left is sent unless closed |
| `term` | texts over all kinds of newlines | newlines normal across cuts both ways, nothing written twice, line, room and screen agree |

### Bounds, and why they suffice

* `NTHR` 3 or 4 (16 in the code). Three: two waiters on one condition with idle on the ready
  list, and three threads in turn. Four: parent, child, a grandchild that main inherits, and a
  slot reused. `PagePool` 2 and 3: stack pages are never returned (section 6), so the pool
  bounds how often slots are reused. The theorems cover every `NTHR >= 2`.
* `traps`: main with two children, so that a fork can fork; two places in a program and on
  its stack, to tell one from another. A kernel stack has at most one frame of a program.
* `devices`: a page of 16 bytes rounded to 2, 12 sources in words of 4 bits (three words a
  context), the index of the ring modulo 4. `MaxEvents` 2 bounds what the serial line sends:
  a line that never stops and has the higher priority would starve the disk, as it would in
  the code. `MaxOpens` 1: see section 6 on opening twice. `MaxAllocs` 6 blocks fill several
  pages. The system stops when the bounds are reached: deadlock is not checked.
* `alarms_sleep`: `TICK_PERIOD` 3, `Horizon` 7: two ticks and what follows. `Delays` 1 and 15
  with 2 clock units per us: 1, counted from the last wake-up, is over at once, before a tick,
  on it or after it; 15 becomes the `int` -1 and saturates. `INT_MAX` 7 and `UMAX` 1023 keep
  the relation of 2^31-1 and 2^64-1.
* `kfs_*`: blocks of 4 (or 2) positions over device blocks of 2, so that a transfer takes
  several rounds; data blocks out of order. `kfs_calls` has `Forks`, `PartBlocks` and `Faults` off,
  which section 6 shows broken; `kfs_shared` has them on and checks what holds all the same.
* `image`: blocks of 11 words (a boot block for 3 entries), names of up to 2 characters, so
  that one fills its field; files of up to three blocks. Sizes are no multiples of a block but 0:
  see section 6. mkfs ends, so deadlock is not checked.
* `descriptors`: 2 descriptors and 3 slots make every table and the slots run full; the two
  children are symmetric (no liveness is checked here). `MaxLost` 2 bounds the references that
  exec drops.
* `memory`: 4 user pages of 2 words over two tables of two entries, so that a space has
  several tables; a pool of 13, so that it runs out in the middle of a fork; `MaxCalls` 3. There are 6 addresses below the user range
  and 16 in all (`USER_START`, `ADDR_MOD`), 2 above it, so that ends and lengths wrap. `Programs` are sound; `Misfits`
  miss their last page, have more data than memory, or an end that wraps, with data and without; `Lucky` has headers
  that are wrong and load all the same, for a page was mapped before or a length wraps to one word.
* `uart`: rings of 2 (64 in the code) with positions modulo 4 (2^16), so that they wrap at
  once while `RBUFSZ` still divides the modulus; a message longer than a ring; one writer and
  two readers, so that a woken reader may find its byte gone.
* `term`: a literal of 5 that ends in the middle of a "\r\n", five characters in all, reads of
  1 to 3. A text that ends or a line that is read is the end of a run: deadlock is not checked.

### Fairness

* `Threads`: the hart executes (`WF(Step)`); kernel code between calls in the end gives up the
  hart, as every path ends in a wait, a yield, an exit or a return to user mode (`WF(Leave)`);
  the timer ticks, since its handler rearms the comparator each time (`WF(Ticks)`), also while
  user code runs, and user code with an interrupt pending is trapped (two `SF`s: a thread may
  enter and leave user mode for ever). None of any call a thread may choose to make.
* `Alarms`: the clock runs, the pending interrupt is delivered, a thread on its way to sleep
  goes on.
* `Kfs`: the device answers, the interrupt is taken, a thread that can run does (`ReadyRuns`).
  The lock promises no order among waiters, and none is assumed.
* `Uart`: the line takes a byte, the interrupt is taken, and a thread goes on; strongly, since
  the hart goes to each thread again and again (`ReadyRuns`), while another may have it in
  between. A write ends only if nobody else writes: two writers may take the room in turn.
* `Devices`: a device answers and a handler ends. A pending interrupt is claimed as soon as no
  handler is under way, before a thread has another device interrupt: hence `SF(Claim)`.

## 4. The proofs

Every theorem is about all values of the constants. Assumed is what the modules assume of them:
`ThreadsAssumption`, `TrapsAssumption`, `PlicAssumption`, `HeapAssumption`, `DevicesAssumption`,
`AlarmsAssumption`, `KfsAssumption`, `DiskAssumption` (the disk is one that mkfs makes: the length and
the block numbers of a file fit its table, and no block is listed twice), `UartAssumption`,
`DescriptorsAssumption`, `ImagesAssumption` (what is in a header fits its field, and nothing more; programs
store within the user range), `TermAssumption` (characters have different codes, texts are strings) and
`NullAssumption`; TLC evaluates them in the runs. Each `...Proofs`
module has an inductive invariant `IInv`, a lemma for each action, and one that combines them.

**`ThreadsProofs`** – `TypeCorrect`, `ListsAreExact`, `SuccessorIsAhead`,
`NoAssertionFails`, `NoChildExitIsLost`, `FamilyStaysRooted`. None is inductive alone. `IInv`
conjoins to them
* `LabelsOK`: where a thread can be when it is not on the hart, and that only idle is in the
  idle loop; else a thread off the hart could resume anywhere;
* `HartOK`: who is `RUNNING`: the current thread, inside `suspend_self` the chosen one, nobody
  else; idle is `READY` or `RUNNING`, which is why the ready list of a thread in `suspend_self`
  is not empty; the caller is never its head, though a handler may already have made it `READY`;
* `JoinersOK`: what a thread in a join knows: asleep in `thread_join_any`, no child of it has
  exited; awake again, one has and nobody else can have reaped it; in `thread_join` its target
  is still its child, because only it could reap it;
* `FamilyRooted`, stated over sets of threads ("of any threads there are, one has its parent
  among the others"), so that no path and no induction is needed.

On top of it: `ImplementsTree` (`Spec => TreeSpec`): `Spawn` and `Fork` map to `Create`, `Exit` to
`Die`, the three places where a child is recycled to `Reap`, all else to a stutter.
`ProcessesRunInOwnSpace`: with the invariant that the space to be active is determined when the
successor has been switched to. `IdleSleepsWhenIdle`: from where idle has disabled interrupts
nothing can get on the ready list. `WokenInOrder`: the ready list only ever loses its head and
grows at its end, by the waiters of a broadcast in their order.

**`TrapsProofs`** – `StacksAreKept` and `ProgramsGoOn` (`Spec => GoesOn`), wherever interrupts come.
`IInv` has for each of the places where an exit from the kernel is cut (`RegistersFit`) what
`stvec`, `sscratch`, `sp` and `sepc` hold there: on the way out `sscratch` still has a user
address until the anchor is written, and `sepc` is the program's or, after an interrupt that came
once it was written, an address of the kernel, with which the return loses the hart. All other
living threads have a frame with the place of their program (`OthersKept`). The invariant
says nothing of a lost hart, and `GoesOn` says that it is lost at the places of `LetIn` only.

**`AlarmsProofs`** – `SleepersListed`, `ArmedInTime`, `NobodyWakesEarly` (`Spec => SleptLongEnough`).
`IInv` adds to the list and the comparator that an alarm that is not on the list is over
(`AwakeInTime`): the next sleep counts from it. That the handler stops at the first alarm that
is not due is no loss because the alarms that are due are a front of a sorted list
(`DueIsFront`), and where `alarm_sleep` stops is the place that keeps it sorted
(`EarlierIsFront`, `InsertedAt`). A sum of times saturates and is no less than its terms (`Saturates`).

**`KfsProofs`** – about the control, with forks, partial writes and failing requests:
`OneHolder`, `SomeoneWakes`, `DescriptorsMarked` and `AnsweredOnWaking`, and `DescriptorsDistinct` for
systems without forks, in which nothing is shared on purpose (`DescriptorsMarked`, that the descriptor of an open
file is in use, with forks too, is proved only). `OneRequest` makes them
inductive: a request is under way or its interrupt pending exactly while someone waits for it,
never both, and who waits is the holder of the lock.
`CallsAreAtomic` (`Plain /\ Spec => AtomicSpec`) is the refinement. `Plain` says that no file is shared by
fork, that writes cover whole blocks of the device and that requests do not fail: without each
of these the code breaks it (section 6). The proof:
* *Layout.* Tables and data blocks lie apart, and each byte of each file at a place of its own
  (`TablePlace`, `BytePlace`, `BytesApart`); blocks of the device divide blocks of the file system, so that a
  block of the device that is stored covers bytes of one file, and no table.
* *Invariant* (`DataInv`). A call stays within its file, a round within a block, a write on the
  boundaries of the device (`WithinFile`, `WithinBlock`, `WholeBlocks`); at each place of a call the
  device's position is that of the table entry or of the byte that comes next (`DeviceAt`); the
  buffer holds the block it is for, or the request that will fill it is under way (`BufferOK`); nobody
  writes over a table (`TablesOK`).
* *Mapping.* A call happens when it takes the lock (`DecideMaps`): the bytes it has still to write
  count as written (`Unwritten`), those it has still to read as read (`ToRead`). Every later step of the
  call only moves bytes from what is left to what is done (`RoundSeen`, `CompleteMaps`) and shows
  nothing; an open shows when the length has been read. `StepMaps` combines them.

From the same invariant and under the same `Plain`: `OtherBytesAreKept`, `PositionsStayInside`, `ReadsGiveTheFile` and
`BufferIsTheBlock`, which state what the comments of the code say of the data. They are not in a run,
as the code does not keep them beyond `Plain`.

**`UartProofs`** – `NothingIsForgotten` and `ImplementsQueues` (`Spec => Queues`), for rings of every size
that divides the range of their positions. `IInv` says what a thread relies on that has been cut in the
middle of a `get`, a `put` or a `|=` (`Midway`): the byte it has loaded is still the first, the slot
it has filled is still the next, since the handler moves the other end only; a bit that its
register lacks is one that nothing needs. It is alone there (`OneInside`). Positions less than a
lap apart are in different slots, across the wrap (`ModApart`, `ModWrap`); from this a ring is
a sequence (`TailMovedFacts`, `HeadMovedFacts`), and every step one of `Channels` or none.

The second half is about `Term`, which makes lines of what the driver brings (its specification is
called `TermSpec`, so that one module can extend both): `ReadsAreLines` (`TermSpec => []InputNormal`),
`LineIsKept` (`TermSpec => []LineKept`) and `WritesAreNormal` (`Unsplit /\ TermSpec => []OutputNormal`),
for all texts, keys, lengths and sizes of the file.
`Unsplit` says that no text goes on with the "\n" of a "\r" that ended the one before and with more
after it, and that the characters which `ioprintf` writes one by one have no "\r\n" among them.
The texts of the run `term` satisfy it; those of `MCSplit`, for which the code writes a character twice
(section 6), do not.
* *Folds.* The loops over characters are folds. Each is shown to take a text apart into its beginning and
  its last character (`FoldSteps`), and is followed by induction over the length of
  what it has gone through, which is again over a set of numbers.
* *Reading.* `cr_in` says that what has arrived ends in "\r"; going on from there gives what one
  would get for both pieces together.
* *Writing.* `NormalGrows`: the normal form of a text is the beginning of that of a longer one. The
  invariant relates what the file has to the normal form of what was asked for: it is all of it up to
  the writes that a call has still to make, or the file is full and it is the beginning. Within
  `ioterm_write` it holds after every character (`Going`, `CutOff`), also where the newline that was
  converted is flushed and the rest is not.
* *Editing.* Only what stands on the screen before the cursor counts: an erasure takes back one character
  of it and one of the line, and a bell leaves both alone.

**`DescriptorsProofs`** – `CountsAreExact`, `DescriptorsApart`, `ImplementsHandles`. The count of an object is a
sum of cardinalities: of the entries that name it, of the calls that hold it, and what was dropped.
`PlaceUsers`, `DropUsers` and `CopyUsers` say what one entry, the descriptors that a close or an exit
drops, and a table that fork copies add to it. `IInv` needs besides that what is being opened is nobody
else's and its place still free when the open returns (`OpeningIsNew`), that what was dropped
stays open, and that an open file is counted. For the refinement, `LiveIsReached`: open is what someone reaches.

**`DevicesProofs`**
* `EnablesOneSource`, `SetsOnePriority`: the word and the bit of a source are its own: the
  division and the remainder together determine the source (`DivMod`), the words of a context
  end before those of the next (`EnableBitsApart`), priorities before all of them.
* `HandlersAreReady` (`Spec => []HandlersReady`): with `TablesOK` (an entry of `devtab` that can be
  opened has a handler, and nothing else is enabled) and `OpenedOK` (a source is enabled at the
  controller exactly while its device is open) the invariant is inductive; a pending interrupt
  that outlives a close is not claimed, since its source is disabled.
* `WokenWhenDone`: the line of a disk is up only from the completion of its request to the handler
  (`RequestsOK`), so that a broadcast on any interrupt wakes nobody too early.
* `InstancesInOrder`: `devtab` has an entry for each device main has found and could attach, in their order
  (`InstancesOK`); main counts as `device_open` does.
* `KmallocGivesAnew`, `GivenOnce` (`Spec => []BlocksApart`): the heap ends on or before the next page to be
  given (`HeapOK`), every block is on pages that were given and apart from what is left
  (`Outside`), and any two are apart, in either order (`GivenApart`). The rounded size of a request of
  up to a page is at most a page, because `Grain` divides it (`RoundedFits`).

**`MemoryProofs`** – for every pool, every page size, every set of processes and programs:
`SpacesAreApart` (`Spec => []SpacesApart`), `MemoryIsOwn` (`Spec => OwnMemory`) and `FittingOnesLoad`
(`Spec => FittingSegmentsLoad`). None assumes anything of the programs: their headers are any that fit the
fields. The last is about the segments that fit (`Fits`): no more data than memory, an end that does not wrap, no start
so far into its page that the last one is missed. They load without a fault and are then in memory, whatever
was loaded before them. Of the others the code promises nothing (section 6), but `MemoryIsOwn` covers them: what they
change is the memory of the process that loads them.
* *Owners.* `PagesInOnePlace` is not inductive: it counts references, and says nothing of which
  table is of which space. `IInv` says that there are owners `o` with which the frames agree
  (`FramesAreOwned`): for every frame what it is (`kind`: free, stack, root, table of either level,
  page), the root of its space, and `up`, the one entry that refers to it. `Owned(m, o)` relates them
  to the free list and to every entry of every table, `RootsAre` to the roots in use, and
  `GoneMapNothing` to those of processes that exited. As it quantifies over all owners TLC cannot
  evaluate `IInv`; TLC checks what follows from it, `SpacesApart`.
* *Operations.* For each operation on frames a lemma gives owners that agree with its result and
  what it leaves of the memory of each space, `View(m, o, root)`: a page is mapped in one space
  (`MapPage` with new tables, or none when the pool is empty), filled, unmapped, cloned. Filling is
  followed word by word until it faults (`RunKeeps`); for a segment that fits the pages of the range have all
  its addresses (`FitsIs`, `RangeMaps`), so that it does not (`RunsFit`), and nothing writes over it again (`LoadHolds`). The loops over
  pages and entries are folds; they are followed by induction over their steps (`FoldSteps`, from
  `Induction`, which is over a set of numbers and so needs no operator as parameter).
* *Refinement.* A step for one process changes the view of no other (`Changes`), and its own as one
  of the steps of `AddressSpaces`: `StepMaps`, `StartMaps`. A fork that runs out of pages leaves the child
  what it copied so far out of reach: no view changes.
* *Counting.* With owners, the four sums of `PagesInOnePlace` are 1 for the kind of the frame and 0 for
  the others (`CountEdges`, `EachOnce`).

## 5. Model-checked only

* Liveness (`ReadyRuns`, `SleeperWakes`, `LockReleased`, `WaitersServed`, `SentOrClosed`,
  `RequestServed`): out of the prover's reach, as is everything with `ENABLED`.
* `Image` (`ContentsKept`, `OpensNamed`): what they say is computed by folds over blocks, several within
  each other. A proof is an induction for each, as in `MemoryProofs`, and is not done. `ContentsKept`
  would be about sizes that section 6 does not exclude.
* `OutputNormal` is proved of texts that satisfy `Unsplit` (section 4); of others the code does not keep it.
* `IInv` of `MemoryProofs` is proved only: it is too large for TLC, which checks its consequences.
* `AtomicSpec` with forks, partial writes or failing requests: the code does not keep it (section 6).

No module uses a `RECURSIVE` operator.

## 6. What the code does otherwise

Found while modelling. What the models exclude is named with the constant or the value that
brings it back: with the change in brackets the property named fails.

Losses of the hart (`traps`, `LetIn` names the places):

* Interrupts are enabled in the kernel when a system call has forked (nobody restores SIE for
  the caller of `_thread_finish_fork`) or has waited in `uart_read` or `uart_write` (`uart.c:216`,
  `245`). On the way back to the program one that comes between `csrw stvec` and `csrw sstatus`
  (`trapasm.s:183` to the end of `restore_sstatus_and_sepc`) enters `_trap_entry_from_umode` from the
  kernel, where `sscratch` has the stack pointer of the program, not the anchor that
  `trapasm.s:148` speaks of. [Take `return_vector` out of `LetIn`: `GoesOn` fails.]
* `thread_jump_to_user` and `thread_fork_to_user` set SIE before the last instructions. An interrupt
  after `csrw sepc` (`thrasm.s:127`, `183`) leaves its own return address there; one after
  `mv sp, a1` (`thrasm.s:124`) puts its frame on the stack of the program, of which no page is
  mapped yet after an exec. [Take `jump_pc`, `fork_pc` or `jump_stack` out.]

Threads and time:

* `_thread_swtch` returns the resumed thread, not the previous one (`thrasm.s:47`, though its
  comment says so), so `suspend_self` never frees the stack of an exited thread
  (`thread.c:597`). [`StackPagesConserved` as an invariant of `threads_family`]
* `next_tick` is 0 until the first tick, so that an earlier alarm waits for the tick
  (`timer.c:91`). [`HeadArmed` in `alarms_sleep` with `TICK_PERIOD` 4, `Horizon` 10, `Delays` {1}]
* `thread_join_any` counts idle as a child of main (`thread.c:355`): main without children sleeps
  for ever instead of panicking as `thread.c:363` says.
* `thread_spawn` and `thread_fork_to_user` panic when slots or pages run out (`thread.c:210`,
  `298`), where `thread.h:60` promises a negative value.
* The dispatcher passes the argument of `usleep` through an `int` (`syscall.c:64`): from 2^31 us on
  it sleeps for ever or too short.

Files and disk:

* The read before a write of part of a block is sent as a write (`vioblk.c:549`): what was in the
  buffer is written over the block. [`OtherBytesKept` in `kfs_calls` with `PartBlocks` TRUE]
* Processes that share a file through fork carry its position past the end: the limit is
  computed before the lock (`kfs.c:247`). [`PosWithinFile`, `Forks` TRUE]
* A failed read of a table entry goes unnoticed (`kfs.c:357`) [`ErrorsReported`, `Faults` TRUE]; after a
  failed write the buffer is taken for the block (`vioblk.c:573`) [`BufferTrue`]; a name that does not
  exist uses up a descriptor (`kfs.c:168`) [`UsedSlotHasHolder`]; failures of `ioseek` are ignored
  (`kfs.c:359`); `vioblk_write` notifies with interrupts enabled (`vioblk.c:562`), which is
  harmless only because writes come from system calls.
* A file whose size is a multiple of a block has one block more in the tables than mkfs writes,
  so that what follows is shifted (`mkfs.c:119`). [`image` with `FileLists <- MCMultiple`:
  `ContentsKept`]
* `fs_open("")` opens the first file of a directory with free entries; a name of `FS_NAMELEN` characters
  is not terminated and is found only where a zero happens to follow; a failed mount leaves
  `mountedIO` set.
* `vioblk_open` and `vioblk_close` set the index of the ring back, but never reset the queue, which
  the device goes on from (`vioblk.c:320`): a disk that is opened again answers no more. [`devices` with
  `MaxOpens` 2: `RequestServed`]
* The features that are wanted need not include those needed (`virtio.c:86`): `INDIRECT_DESC` is used
  and never enabled.

Memory, processes, terminal:

* A range that does not start on a page may miss its last page (`memory.c:314`), and the load
  faults in the kernel, although `memory.c:306` says "Equivalent to calling memory_alloc_and_map_page for every page in
  the range." [`RangesAreMapped` as a property of `memory`]
* `elf_load` does not compare `p_filesz` with `p_memsz` (`elf.c:129`): more data than memory is read past the pages
  that were mapped for it, and the length that `memset` then gets wraps to nearly all addresses (`elf.c:130`).
  `p_vaddr + p_memsz` is added in 64 bits (`elf.c:120`): a sum that wraps passes the check and no page is
  mapped. In both cases the kernel faults, or writes over itself where it runs from the user range into
  memory that is mapped; the models take either for a fault, which ends the run. [`Misfits` in `MCMemory`]
* `elf_load` reads the header from where the file stands (`elf.c:63`), not from its start: a file that was read or
  moved before exec fails and the kernel panics (`process.c:75`). `Descriptors` keeps no positions: `LoadFails` may
  come for every object, images too.
* `process_exec` gives up the old image before the new one is known to be good, and panics
  (`process.c:73`); sysexec drops the reference to the executable (`MaxLost`); `proctab` is never
  filled, so that fork always returns the same pid (`process.c:103`); roots, tables and stacks of
  processes that exit are not freed; a negative result of `ioread` passes for a header in `elf_load`;
  a page fault of the kernel itself panics.
* A "\n" that continues a "\r" of the write before is skipped but not counted (`io.c:494`): if there is more after
  it, `iowrite` asks for the last character again and it is written twice, which is not what `io.c:445-450` say.
  [`term` with `Texts <- MCSplit`: `OutputNormal`] A printf of "\r\n" alone returns an
  error; '[' is taken for an escape in `ioterm_getsn`; `ioterm_read` spins at the end of its file;
  `console_putchar` prints one "\n" too many after "\r\n".
* `uart_close` loses what is left to send (`uart.c:181`): `SentOrClosed` says no more than that.

## 7. What could be added

The safety properties of all modules but `Image` are proved. Next would be `Image`: the layout lemmas
of `KfsProofs`, stated for what `mkfs` writes.

## 8. Not modelled

* Devices themselves: the disk, the serial chip, the clock and the interrupt controller's choice
  are external and behave as the drivers assume (the disk answers, possibly with an error).
* `plic_source_pending`, `plic_disable_source_for_context`, `plic_set_context_threshold`,
  `memory_space_create`, `memory_space_reclaim`, `memory_set_range_flags` and
  `memory_validate_vptr_len`: never called. `sysmsgout` with `memory_validate_vstr`: prints, and changes
  no state.
* Formatted output (`string.c`, `console.c`), debugging output, error names: layout.
* Boot beyond the attachment of devices: sequential; the initial states are what it leaves.
* `main_tests.c`, `main_shell.c`, `iolit_tests.c` and the user programs: callers, which the models
  replace by any sequence of calls.
* `cp1_kern`, `cp2_kern` and `cp2_user`, more than half of the lines of the repository: earlier
  states of the same files, superseded by `kern` (most functions of `cp2_kern` are the same but for
  error numbers, locks and `fork`). The map has over two fifths of the rest, declarations,
  comments, tests and formatting included; a second copy of each module would say nothing new.
