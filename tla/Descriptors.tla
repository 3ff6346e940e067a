----------------------------- MODULE Descriptors -----------------------------
(***************************************************************************)
(* Processes and their open objects: process.c, syscall.c, the reference    *)
(* counts of io.h, over the slots of kfs.c, the ports of uart.c and the     *)
(* device table of device.c.                                                *)
(*                                                                         *)
(* Kernel code is not preempted, so a system call is one step, except where *)
(* it sleeps: fs_open between the choice of its slot and its return, exec   *)
(* in elf_load, and a transfer.  A call that is refused changes nothing and *)
(* is no step.  Each process has one thread.                                *)
(***************************************************************************)
EXTENDS Integers, Sequences, SequencesExt

CONSTANTS
    Procs, Main,    \* struct process, one per thread slot, and main_proc
    IOMAX,          \* PROCESS_IOMAX
    NPROC,
    Slots,          \* fileDescriptorsArray, MAX_FILES of them
    Files, Images,  \* the names in the directory, and those elf_load accepts
    NDEV, Attached, \* the devices in the order they are attached: name and openfn
    Null,
    MaxLost         \* references that nothing gives back (bound of the model)

ASSUME DescriptorsAssumption ==
    /\ Main \in Procs /\ IsFiniteSet(Procs)
    /\ IOMAX \in Nat \ {0} /\ NPROC \in Nat \ {0}
    /\ Slots \subseteq Nat \ {0} /\ Slots # {} /\ Images \subseteq Files
    /\ NDEV \in Nat /\ Len(Attached) <= NDEV
    /\ MaxLost \in Nat

FDs == 0 .. IOMAX - 1

VARIABLES
    status,     \* "running", "panic", or "halted" when main has exited
    pc,         \* "none": no process; where the others are
    pid, iotab,
    image,      \* the program in a process's memory, Null when there is none
    hand, fdi,  \* the object and the descriptor of the call in progress
    refcnt,
    flags,      \* the slots of the file system in use
    file,       \* what each slot has open
    lost        \* references that were dropped without ioclose

procVars == <<pc, pid, iotab, image, hand, fdi>>
objVars == <<refcnt, flags, file, lost>>
vars == <<status, procVars, objVars>>

------------------------------------------------------------------------------
(* device.c *)

\* A device is known by its place in devtab; the table holds its name and openfn.
device_register(tab, dev) == Append(tab, dev)
devtab == FoldLeft(device_register, <<>>, Attached)

\* The number a device is registered with: how many of its name came before.
InstanceOf(devno) == Cardinality({i \in 1 .. devno - 1 : devtab[i].name = devtab[devno].name})
device_open(name, instno) ==
    {devno \in DOMAIN devtab : devtab[devno].name = name /\ InstanceOf(devno) = instno}

\* uart_open; the console and the mounted disk are always busy.
MayOpenPort(devno) == devtab[devno].openfn = "uart_open" /\ refcnt[<<"dev", devno>>] = 0

------------------------------------------------------------------------------
(* io.h *)

Objects == {<<"file", s>> : s \in Slots} \cup {<<"dev", d>> : d \in DOMAIN devtab}

ASSUME NullAssumption == Null \notin Objects

Entries(p, o) == {fd \in FDs : iotab[p][fd] = o}

\* ioref and ioclose for each of the descriptors that name an object.
ioref(p) == refcnt' = [o \in Objects |-> refcnt[o] + Cardinality(Entries(p, o))]

\* When the close operation runs: at the last reference; and at any, and never.
AtAny(s, count) == TRUE
AtNone(s, count) == FALSE
AtLast(s, count) == count = 0
ioclose(p, gone) ==
    /\ refcnt' = [o \in Objects |-> refcnt[o] - Cardinality(Entries(p, o) \cap gone)]
    /\ flags' = [s \in Slots |->
          /\ flags[s]
          /\ ~(/\ Entries(p, <<"file", s>>) \cap gone # {}
               /\ AtLast(s, refcnt'[<<"file", s>>]))]

------------------------------------------------------------------------------
(* process.c and syscall.c *)

NoTable == [fd \in FDs |-> Null]

\* main_proc, after main has opened the first image and executed it.
Init ==
    /\ status = "running"
    /\ pc = [p \in Procs |-> IF p = Main THEN "user" ELSE "none"]
    /\ pid = [p \in Procs |-> 0]
    /\ iotab = [p \in Procs |-> NoTable]
    /\ \E f \in Images, s \in {Min(Slots)} :
          /\ image = [p \in Procs |-> IF p = Main THEN f ELSE Null]
          /\ refcnt = [o \in Objects |-> IF o = <<"file", s>> THEN 1 ELSE 0]
          /\ flags = [x \in Slots |-> x = s]
          /\ file = [x \in Slots |-> IF x = s THEN f ELSE Null]
          /\ lost = [o \in Objects |-> IF o = <<"file", s>> THEN 1 ELSE 0]
    /\ hand = [p \in Procs |-> Null]
    /\ fdi = [p \in Procs |-> 0]

Losses == MapThenSumSet(LAMBDA o : lost[o], Objects)

InUser(p) == status = "running" /\ pc[p] = "user"

\* Where the open calls install: at a free fd asked for, or the lowest; and one
\* that takes an fd asked for as it is.
AnyPlace(p, fd) == {i \in FDs : i = fd \/ (fd < 0 /\ iotab[p][i] = Null)}
Places(p, fd) ==
    IF fd < 0 THEN LET free == {i \in FDs : iotab[p][i] = Null}
                   IN IF free = {} THEN {} ELSE {Min(free)}
    ELSE {i \in FDs : i = fd /\ iotab[p][i] = Null}

sysdevopen(p, fd, name, instno) ==
    /\ InUser(p)
    /\ \E i \in Places(p, fd), d \in device_open(name, instno) :
          /\ MayOpenPort(d)
          /\ iotab' = [iotab EXCEPT ![p][i] = <<"dev", d>>]
          /\ refcnt' = [refcnt EXCEPT ![<<"dev", d>>] = 1]
    /\ UNCHANGED <<status, pc, pid, image, hand, fdi, flags, file, lost>>

\* fs_open takes the first slot not in use.
Unused == {s \in Slots : ~flags[s]}

\* sysfsopen, into fs_open.  A name that is not found leaves the slot taken.
sysfsopen(p, fd, f) ==
    /\ InUser(p)
    /\ Unused # {}
    /\ f \notin Files => Losses < MaxLost
    /\ \E i \in Places(p, fd), s \in {Min(Unused)} :
          /\ flags' = [flags EXCEPT ![s] = TRUE]
          /\ refcnt' = [refcnt EXCEPT ![<<"file", s>>] = 1]
          /\ IF f \in Files
             THEN /\ file' = [file EXCEPT ![s] = f]
                  /\ hand' = [hand EXCEPT ![p] = <<"file", s>>]
                  /\ fdi' = [fdi EXCEPT ![p] = i]
                  /\ pc' = [pc EXCEPT ![p] = "opening"]
                  /\ UNCHANGED lost
             ELSE /\ lost' = [lost EXCEPT ![<<"file", s>>] = @ + 1]
                  /\ UNCHANGED <<file, hand, fdi, pc>>
    /\ UNCHANGED <<status, pid, iotab, image>>

\* The call is over and the process holds nothing of it.
LeaveCall(p) ==
    /\ pc' = [pc EXCEPT ![p] = "user"]
    /\ hand' = [hand EXCEPT ![p] = Null]
    /\ fdi' = [fdi EXCEPT ![p] = 0]

OpenDone(p) ==
    /\ status = "running" /\ pc[p] = "opening"
    /\ iotab' = [iotab EXCEPT ![p][fdi[p]] = hand[p]]
    /\ LeaveCall(p)
    /\ UNCHANGED <<status, pid, image, objVars>>

sysclose(p, fd) ==
    /\ InUser(p) /\ iotab[p][fd] # Null
    /\ ioclose(p, {fd})
    /\ iotab' = [iotab EXCEPT ![p][fd] = Null]
    /\ UNCHANGED <<status, pc, pid, image, hand, fdi, file, lost>>

\* sysread, syswrite and sysioctl, which may sleep on what they use.
Transfer(p, fd) ==
    /\ InUser(p) /\ iotab[p][fd] # Null
    /\ pc' = [pc EXCEPT ![p] = "io"]
    /\ fdi' = [fdi EXCEPT ![p] = fd]
    /\ UNCHANGED <<status, pid, iotab, image, hand, objVars>>
TransferDone(p) ==
    /\ status = "running" /\ pc[p] = "io"
    /\ LeaveCall(p)
    /\ UNCHANGED <<status, pid, iotab, image, objVars>>

\* process_exit.  thread_exit of main halts the machine.
Exit(p) ==
    /\ InUser(p)
    /\ ioclose(p, FDs)
    /\ iotab' = [iotab EXCEPT ![p] = NoTable]
    /\ image' = [image EXCEPT ![p] = Null]
    /\ pc' = [pc EXCEPT ![p] = "none"]
    /\ status' = IF p = Main THEN "halted" ELSE status
    /\ UNCHANGED <<pid, hand, fdi, file, lost>>

\* sysexec of a descriptor that is not there is sysexit; of one that is, it
\* empties the entry and gives up the memory, then loads.
sysexec(p, fd) ==
    /\ Losses < MaxLost
    /\ InUser(p) /\ iotab[p][fd] # Null
    /\ hand' = [hand EXCEPT ![p] = iotab[p][fd]]
    /\ iotab' = [iotab EXCEPT ![p][fd] = Null]
    /\ image' = [image EXCEPT ![p] = Null]
    /\ pc' = [pc EXCEPT ![p] = "loading"]
    /\ UNCHANGED <<status, pid, fdi, objVars>>

\* What comes through a port may or may not be an image.
Program(o) == IF o[1] = "file" THEN {file[o[2]]} \cap Images ELSE Images
Loaded(p) ==
    /\ status = "running" /\ pc[p] = "loading"
    /\ \E f \in Program(hand[p]) : image' = [image EXCEPT ![p] = f]
    /\ lost' = [lost EXCEPT ![hand[p]] = @ + 1]
    /\ LeaveCall(p)
    /\ UNCHANGED <<status, pid, iotab, refcnt, flags, file>>

\* elf_load fails: panic.  It may for any object, a file that holds an image too:
\* elf_load reads on from the position, which earlier reads and seeks have moved.
Panics(p) == status' = "panic" /\ UNCHANGED <<pc, hand, fdi>>
LoadFails(p) ==
    /\ status = "running" /\ pc[p] = "loading"
    /\ Panics(p)
    /\ UNCHANGED <<pid, iotab, image, objVars>>

\* process_fork: the first entry of proctab that is NULL, where only main's is
\* not, and nothing is ever entered.
NewPid == Min({i \in 0 .. NPROC - 1 : i # 0})
sysfork(p, q) ==
    /\ InUser(p) /\ pc[q] = "none" /\ NPROC > 1
    /\ pc' = [pc EXCEPT ![q] = "user"]
    /\ pid' = [pid EXCEPT ![q] = NewPid]
    /\ iotab' = [iotab EXCEPT ![q] = iotab[p]]
    /\ ioref(p)
    /\ image' = [image EXCEPT ![q] = image[p]]
    /\ UNCHANGED <<status, hand, fdi, flags, file, lost>>

\* The machine has stopped.
Stopped == status # "running" /\ UNCHANGED vars

Next ==
    \/ Stopped
    \/ \E p \in Procs :
          \/ \E fd \in FDs \cup {-1} :
                \/ \E d \in DOMAIN devtab : sysdevopen(p, fd, devtab[d].name, InstanceOf(d))
                \/ \E f \in Files \cup {Null} : sysfsopen(p, fd, f)
          \/ \E fd \in FDs : sysclose(p, fd) \/ Transfer(p, fd) \/ sysexec(p, fd)
          \/ OpenDone(p) \/ TransferDone(p) \/ Loaded(p) \/ LoadFails(p)
          \/ Exit(p)
          \/ \E q \in Procs : sysfork(p, q)

Spec == Init /\ [][Next]_vars

------------------------------------------------------------------------------
(* Properties *)

TypeOK ==
    /\ status \in {"running", "panic", "halted"}
    /\ pc \in [Procs -> {"none", "user", "opening", "io", "loading"}]
    /\ pid \in [Procs -> 0 .. NPROC - 1]
    /\ iotab \in [Procs -> [FDs -> Objects \cup {Null}]]
    /\ image \in [Procs -> Images \cup {Null}]
    /\ hand \in [Procs -> Objects \cup {Null}]
    /\ fdi \in [Procs -> FDs]
    /\ refcnt \in [Objects -> Nat] /\ lost \in [Objects -> Nat]
    /\ flags \in [Slots -> BOOLEAN]
    /\ file \in [Slots -> Files \cup {Null}]

IsOpen(o) == IF o[1] = "file" THEN flags[o[2]] ELSE refcnt[o] # 0

\* The count of an object is the number of descriptors and calls that use it,
\* through any order of forks, closes, execs and exits, and the references that
\* exec and a failed open have dropped.
RefcountExact ==
    \A o \in Objects : IsOpen(o) =>
        refcnt[o] = lost[o] + Cardinality({p \in Procs : hand[p] = o})
                    + Cardinality({e \in Procs \X FDs : iotab[e[1]][e[2]] = o})

\* Whatever a descriptor names is open, also while its process sleeps in a call
\* and others close theirs: ioread would call through ops that fs_close cleared.
HeldIsOpen ==
    \A p \in Procs :
        /\ \A fd \in FDs : iotab[p][fd] # Null => IsOpen(iotab[p][fd])
        /\ hand[p] # Null => IsOpen(hand[p])
        /\ pc[p] = "io" => iotab[p][fdi[p]] # Null

\* Every count is exact and keeps open what is held.
HoldersCounted == TypeOK /\ RefcountExact /\ HeldIsOpen

\* Two descriptors of a process never share an object (and its position): only
\* fork shares, and it copies a table whole.
NoAlias ==
    \A p \in Procs : \A i, j \in FDs :
        i # j /\ iotab[p][i] = iotab[p][j] => iotab[p][i] = Null

\* Counting implements reachability: what is opened was not open, and an object
\* closes in the step that drops the last descriptor or call that reaches it.
H == INSTANCE Handles WITH
    table <- iotab,
    pinned <- {o \in Objects : lost[o] > 0},
    live <- {o \in Objects : IsOpen(o)}
ReachableOpen == H!Spec

==============================================================================
