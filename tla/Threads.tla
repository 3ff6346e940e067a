------------------------------- MODULE Threads -------------------------------
(***************************************************************************)
(* The thread manager of the kernel, src/src/kern/thread.c with thrasm.s,   *)
(* on its single hart.                                                     *)
(*                                                                         *)
(* A thread is its slot number in thrtab.  The kernel is not preemptive:   *)
(* only the thread in the tp register (curthr) executes, and between two   *)
(* labelled points (pc) only an interrupt can intervene, when sstatus.SIE  *)
(* is set or the hart is in user mode.  What runs with interrupts disabled,*)
(* or touches nothing an interrupt handler touches, is one step.  Code     *)
(* outside thread.c is the caller at label "kern" (or, for a process,      *)
(* "user"): it may make any thread.c call, and toggle SIE between calls.   *)
(***************************************************************************)
EXTENDS Integers, Sequences, FiniteSets, Functions

CONSTANTS
    NTHR,       \* size of thrtab
    Conds,      \* the conditions of drivers, locks and alarms
    Tick,       \* the timer interrupt that wakes nobody
    PagePool,   \* free physical pages that can become kernel stacks
    NoCond      \* wait_cond == NULL

Tids     == 0 .. NTHR - 1
MAIN_TID == 0
IDLE_TID == NTHR - 1
NoTid    == -1              \* a NULL struct thread *, a NULL struct process *

\* The child_exit condition of a thread is named by the thread's number.
Conditions == Tids \cup Conds
Irqs       == Conds \cup {Tick}

ASSUME ThreadsAssumption ==
    /\ NTHR \in Nat /\ NTHR >= 2
    /\ Conds \cap Tids = {}
    /\ NoCond \notin Conditions
    /\ Tick \notin Conds
    /\ PagePool \in Nat

States == {"FREE", "READY", "RUNNING", "WAITING", "EXITED"}
Labels == {"none", "kern", "user", "insert", "suspend", "switch", "resume",
           "joinany", "join", "idle", "idle_empty", "idle_off", "wfi"}
\* Where a call of suspend_self returns to.
Returns == {"kern", "user", "joinany", "join", "idle", "exit"}
Panics  == {"too_many_threads", "out_of_pages", "childless", "spurious",
            "exit_failed", "assert"}

VARIABLES
    state,      \* thr->state; "FREE" when thrtab[tid] is NULL
    parent,     \* thr->parent
    proc,       \* thr->proc, a process being named by the thread it began in
    users,      \* the threads that have entered user mode
    stacks,     \* the threads whose stack is an allocated page
    waitCond,   \* thr->wait_cond
    readyList,  \* ready_list
    waitList,   \* cond->wait_list of every condition
    curthr,     \* CURTHR, the tp register
    pc,         \* where a thread is (for one that is off the hart: its context)
    saved,      \* saved_intr_state of a suspended thread's suspend_self
    ret,        \* the caller suspend_self returns to
    target,     \* child of a pending thread_join
    nextThr,    \* next_thread of suspend_self
    sie,        \* sstatus.SIE, read in supervisor mode
    space,      \* the process whose memory space is active (satp)
    pending,    \* interrupts raised and not yet taken
    freePages,  \* pages left in the pool
    status      \* "run", "halted" or why the kernel panicked

thrVars  == <<parent, proc, users, stacks, freePages>>
ctxVars  == <<saved, ret, target, nextThr>>
listVars == <<state, waitCond, readyList, waitList>>
vars == <<thrVars, ctxVars, listVars, curthr, pc, sie, space, pending, status>>

Init ==
    /\ state = [t \in Tids |-> IF t = MAIN_TID THEN "RUNNING"
                               ELSE IF t = IDLE_TID THEN "READY" ELSE "FREE"]
    /\ parent = [t \in Tids |-> IF t = IDLE_TID THEN MAIN_TID ELSE NoTid]
    /\ proc = [t \in Tids |-> IF t = MAIN_TID THEN MAIN_TID ELSE NoTid]
    /\ users = {}
    /\ stacks = {}
    /\ waitCond = [t \in Tids |-> NoCond]
    /\ readyList = <<IDLE_TID>>
    /\ waitList = [c \in Conditions |-> <<>>]
    /\ curthr = MAIN_TID
    /\ pc = [t \in Tids |-> IF t = MAIN_TID THEN "kern"
                            ELSE IF t = IDLE_TID THEN "idle" ELSE "none"]
    /\ saved = [t \in Tids |-> FALSE]
    /\ ret = [t \in Tids |-> "kern"]
    /\ target = [t \in Tids |-> NoTid]
    /\ nextThr = NoTid
    /\ sie = FALSE
    /\ space = MAIN_TID
    /\ pending = {}
    /\ freePages = PagePool
    /\ status = "run"

------------------------------------------------------------------------------
(* Helpers *)

At(label) == status = "run" /\ pc[curthr] = label

Goto(label) == pc' = [pc EXCEPT ![curthr] = label]

\* panic() and a failed assert stop the machine where it stands.
Panic(why) ==
    /\ status' = why
    /\ UNCHANGED <<thrVars, ctxVars, listVars, curthr, pc, sie, space, pending>>

\* A slot search that took the slot of an exited thread for free.
FreeOrExitedSlots == {t \in Tids \ {MAIN_TID} : state[t] \in {"FREE", "EXITED"}}
FreeSlots == {t \in Tids \ {MAIN_TID} : state[t] = "FREE"}
Children(t) == {u \in Tids \ {MAIN_TID} : state[u] # "FREE" /\ parent[u] = t}
Zombies(t) == {u \in Children(t) : state[u] = "EXITED"}
Lowest(S) == {t \in S : \A u \in S : t <= u}

Woken(c) == Range(waitList[c])

\* tlappend(&ready_list, &cond->wait_list), and one that put them in front.
WokenFirst(c) == waitList[c] \o readyList
ReadyAfter(c) == readyList \o waitList[c]

\* condition_broadcast(c) on thread states st, and its two assertions.
BroadcastOk(st, c) ==
    \A t \in Woken(c) : st[t] = "WAITING" /\ waitCond[t] = c
Broadcast(st, c) ==
    /\ state' = [t \in Tids |-> IF t \in Woken(c) THEN "READY" ELSE st[t]]
    /\ waitCond' = [t \in Tids |-> IF t \in Woken(c) THEN NoCond ELSE waitCond[t]]
    /\ readyList' = ReadyAfter(c)
    /\ waitList' = [waitList EXCEPT ![c] = <<>>]

\* A condition_wait that forgot set_thread_state.
MarkCondOnly(c) ==
    /\ waitCond' = [waitCond EXCEPT ![curthr] = c]
    /\ UNCHANGED <<state, readyList, waitList>>

\* The first half of condition_wait(c): marked WAITING, not yet on the list.
MarkWaiting(c) ==
    /\ state' = [state EXCEPT ![curthr] = "WAITING"]
    /\ waitCond' = [waitCond EXCEPT ![curthr] = c]
    /\ UNCHANGED <<readyList, waitList>>

\* The children of a thread that recycle_thread removes, forgotten or adopted.
ParentKept(z) == [parent EXCEPT ![z] = NoTid]
Reparented(z) == [t \in Tids |-> IF t = z THEN NoTid
                               ELSE IF parent[t] = z THEN parent[z] ELSE parent[t]]

\* What recycle_thread(z) leaves: the slot is free, its children are the
\* grandparent's.  kfree of the struct loses stack_base with it.
Recycle(z) ==
    /\ parent' = Reparented(z)
    /\ state' = [state EXCEPT ![z] = "FREE"]
    /\ proc' = [proc EXCEPT ![z] = NoTid]
    /\ users' = users \ {z}
    /\ stacks' = stacks \ {z}
    /\ saved' = [saved EXCEPT ![z] = FALSE]
    /\ ret' = [ret EXCEPT ![z] = "kern"]
    /\ target' = [target EXCEPT ![z] = NoTid, ![curthr] = NoTid]
    /\ pc' = [pc EXCEPT ![z] = "none", ![curthr] = "kern"]
    /\ UNCHANGED <<waitCond, readyList, waitList, freePages, nextThr,
                   curthr, sie, space, pending, status>>

------------------------------------------------------------------------------
(* condition_wait and condition_broadcast, called by a driver or a lock *)

CondWait(c) ==
    /\ At("kern")
    /\ IF state[curthr] = "RUNNING"
       THEN /\ MarkWaiting(c)
            /\ Goto("insert")
            /\ UNCHANGED <<thrVars, ctxVars, curthr, sie, space, pending, status>>
       ELSE Panic("assert")

\* tlinsert with interrupts disabled, for every call of condition_wait.
CondInsert ==
    /\ At("insert")
    /\ waitList' = [waitList EXCEPT ![waitCond[curthr]] = Append(@, curthr)]
    /\ Goto("suspend")
    /\ UNCHANGED <<state, waitCond, readyList, thrVars, ctxVars, curthr, sie,
                   space, pending, status>>

CondBroadcast(c) ==
    /\ At("kern")
    /\ IF BroadcastOk(state, c)
       THEN /\ Broadcast(state, c)
            /\ UNCHANGED <<thrVars, ctxVars, curthr, pc, sie, space, pending, status>>
       ELSE Panic("assert")

------------------------------------------------------------------------------
(* suspend_self, in three steps: interrupts are enabled in between *)

Yield ==
    /\ At("kern")
    /\ IF state[curthr] = "RUNNING"
       THEN /\ Goto("suspend")
            /\ UNCHANGED <<thrVars, ctxVars, listVars, curthr, sie, space, pending,
                           status>>
       ELSE Panic("assert")

\* Which suspended thread goes back on the ready list: one that has not exited
\* (wrong), or the one still RUNNING.
RequeuesUnlessExited(st) == st[curthr] # "EXITED"
Requeues(st) == st[curthr] = "RUNNING"

\* tlinsert at the back, and at the front.
PushFront(list, t) == <<t>> \o list
Requeue(list, t) == Append(list, t)

\* Up to intr_enable(): pick the next thread, requeue a caller still RUNNING.
Suspend ==
    /\ At("suspend")
    /\ IF readyList # <<>> /\ state[Head(readyList)] = "READY"
       THEN LET next == Head(readyList)
                st == [state EXCEPT ![next] = "RUNNING"]
            IN /\ state' = IF Requeues(st) THEN [st EXCEPT ![curthr] = "READY"] ELSE st
               /\ readyList' = IF Requeues(st)
                               THEN Requeue(Tail(readyList), curthr)
                               ELSE Tail(readyList)
               /\ nextThr' = next
               /\ saved' = [saved EXCEPT ![curthr] = sie]
               /\ sie' = TRUE
               /\ Goto("switch")
               /\ UNCHANGED <<waitCond, waitList, thrVars, ret, target,
                              curthr, space, pending, status>>
       ELSE Panic("assert")

\* _thread_swtch loads tp from a0 and returns with a0 as it was, so in the
\* thread that resumes its return value is that thread itself.
SwtchReturn == curthr

\* The memory space a thread runs in: never switched, switched to that of a
\* thread without a process too, or (the code) only to that of a process.
SpaceKept(t) == space
SpaceFor(t) == IF proc[t] # NoTid THEN proc[t] ELSE space

\* memory_space_switch and _thread_swtch.  The resumed thread goes on at its
\* own label: inside suspend_self, or wherever its context was set up.
Switch ==
    /\ At("switch")
    /\ space' = SpaceFor(nextThr)
    /\ curthr' = nextThr
    /\ nextThr' = NoTid
    /\ Goto("resume")
    /\ UNCHANGED <<listVars, thrVars, saved, ret, target, sie, pending, status>>

\* The rest of suspend_self after _thread_swtch has returned in this thread.
Resume ==
    /\ At("resume")
    /\ IF ret[curthr] # "exit"
       THEN /\ IF state[SwtchReturn] = "EXITED"
               THEN stacks' = stacks \ {SwtchReturn} /\ freePages' = freePages + 1
               ELSE UNCHANGED <<stacks, freePages>>
            /\ sie' = saved[curthr]
            /\ Goto(ret[curthr])
            /\ ret' = [ret EXCEPT ![curthr] = "kern"]
            /\ saved' = [saved EXCEPT ![curthr] = FALSE]
            /\ UNCHANGED <<listVars, parent, proc, users, target, nextThr, curthr,
                           space, pending, status>>
       ELSE Panic("exit_failed")

------------------------------------------------------------------------------
(* Creating threads *)

\* The slot search and the page allocation of thread_spawn and
\* thread_fork_to_user, which both panic when they find nothing.
Allocating(Create(_)) ==
    IF FreeSlots = {} THEN Panic("too_many_threads")
    ELSE IF freePages = 0 THEN Panic("out_of_pages")
    ELSE \E t \in Lowest(FreeSlots) :
            /\ Create(t)
            /\ stacks' = stacks \cup {t}
            /\ freePages' = freePages - 1
            /\ parent' = [parent EXCEPT ![t] = curthr]
            /\ UNCHANGED <<waitCond, waitList, ctxVars, pending, status>>

\* thread_spawn, called by kernel code only.
SpawnChild(t) ==
    /\ proc' = [proc EXCEPT ![t] = proc[curthr]]
    /\ state' = [state EXCEPT ![t] = "READY"]
    /\ readyList' = Append(readyList, t)
    /\ pc' = [pc EXCEPT ![t] = "kern"]
    /\ UNCHANGED <<users, curthr, sie, space>>

Spawn == At("kern") /\ curthr \notin users /\ Allocating(SpawnChild)

\* thread_fork_to_user and _thread_finish_fork: the child takes the hart at
\* once, in user mode; the parent is ready, inside its system call.
ForkChild(t) ==
    /\ proc' = [proc EXCEPT ![t] = t]
    /\ users' = users \cup {t}
    /\ state' = [state EXCEPT ![t] = "RUNNING", ![curthr] = "READY"]
    /\ readyList' = Append(readyList, curthr)
    /\ curthr' = t
    /\ space' = t
    /\ pc' = [pc EXCEPT ![t] = "user", ![curthr] = "kern"]
    /\ sie' = FALSE

Fork == At("kern") /\ curthr \in users /\ Allocating(ForkChild)

------------------------------------------------------------------------------
(* Ending threads *)

\* thread_exit, up to its suspend_self.
Exit ==
    /\ At("kern")
    /\ IF curthr = MAIN_TID
       THEN /\ status' = "halted"
            /\ UNCHANGED <<thrVars, ctxVars, listVars, curthr, pc, sie, space, pending>>
       ELSE LET st == [state EXCEPT ![curthr] = "EXITED"]
            IN IF parent[curthr] # NoTid /\ BroadcastOk(st, parent[curthr])
               THEN /\ Broadcast(st, parent[curthr])
                    /\ Goto("suspend")
                    /\ ret' = [ret EXCEPT ![curthr] = "exit"]
                    /\ UNCHANGED <<thrVars, saved, target, nextThr, curthr, sie,
                                   space, pending, status>>
               ELSE Panic("assert")

\* condition_wait(&CURTHR->child_exit), to go on at label then.
WaitForChild(then, child) ==
    IF state[curthr] = "RUNNING"
    THEN /\ MarkWaiting(curthr)
         /\ Goto("insert")
         /\ ret' = [ret EXCEPT ![curthr] = then]
         /\ target' = [target EXCEPT ![curthr] = child]
         /\ UNCHANGED <<thrVars, saved, nextThr, curthr, sie, space, pending,
                        status>>
    ELSE Panic("assert")

\* A thread_join_any that did not look for children that have exited already.
JoinAnyUnchecked ==
    /\ At("kern")
    /\ IF Children(curthr) = {} THEN Panic("childless")
                                ELSE WaitForChild("joinany", NoTid)

\* thread_join_any, up to its condition_wait.
JoinAny ==
    /\ At("kern")
    /\ IF Zombies(curthr) # {} THEN \E z \in Lowest(Zombies(curthr)) : Recycle(z)
       ELSE IF Children(curthr) = {} THEN Panic("childless")
       ELSE WaitForChild("joinany", NoTid)

\* ... and after it.
JoinAnyScan ==
    /\ At("joinany")
    /\ IF Zombies(curthr) # {} THEN \E z \in Lowest(Zombies(curthr)) : Recycle(z)
                               ELSE Panic("spurious")

\* One evaluation of the loop condition of thread_join(t).
JoinTest(t) ==
    IF state[t] = "EXITED"
    THEN Recycle(t)
    ELSE WaitForChild("join", t)

\* thread_join of anyone but a child of the caller returns -EINVAL.
Join(t) == At("kern") /\ t \in Children(curthr) /\ JoinTest(t)
JoinAgain == At("join") /\ JoinTest(target[curthr])

------------------------------------------------------------------------------
(* The boundary with user mode, and interrupts *)

\* Kernel code disables or enables interrupts between calls of thread.c.
ToggleIntr ==
    /\ At("kern")
    /\ sie' = ~sie
    /\ UNCHANGED <<thrVars, ctxVars, listVars, curthr, pc, space, pending, status>>

\* thread_jump_to_user, or the return from a trap taken in user mode.
ToUser ==
    /\ At("kern")
    /\ proc[curthr] # NoTid
    /\ users' = users \cup {curthr}
    /\ Goto("user")
    /\ sie' = FALSE
    /\ UNCHANGED <<state, parent, proc, stacks, freePages, ctxVars, waitCond,
                   readyList, waitList, curthr, space, pending, status>>

Syscall ==
    /\ At("user")
    /\ Goto("kern")
    /\ UNCHANGED <<thrVars, ctxVars, listVars, curthr, sie, space, pending, status>>

RaiseIrq(i) ==
    /\ status = "run"
    /\ pending' = pending \cup {i}
    /\ UNCHANGED <<thrVars, ctxVars, listVars, curthr, pc, sie, space, status>>

\* A handler only broadcasts.  intr_handler then yields the thread if the
\* interrupt came from user mode.
Isr(i) ==
    /\ status = "run"
    /\ i \in pending
    /\ sie \/ pc[curthr] = "user"
    /\ LET preempt == pc[curthr] = "user"
       IN IF /\ i \in Conds => BroadcastOk(state, i)
             /\ preempt => state[curthr] = "RUNNING"
          THEN /\ IF i \in Conds THEN Broadcast(state, i) ELSE UNCHANGED listVars
               /\ pending' = pending \ {i}
               /\ pc' = IF preempt THEN [pc EXCEPT ![curthr] = "suspend"] ELSE pc
               /\ ret' = IF preempt THEN [ret EXCEPT ![curthr] = "user"] ELSE ret
               /\ UNCHANGED <<thrVars, saved, target, nextThr, curthr, sie,
                              space, status>>
          ELSE Panic("assert")

------------------------------------------------------------------------------
(* idle_thread_func *)

IdleYield ==
    /\ At("idle")
    /\ readyList # <<>>
    /\ IF state[curthr] = "RUNNING"
       THEN /\ Goto("suspend")
            /\ ret' = [ret EXCEPT ![curthr] = "idle"]
            /\ UNCHANGED <<thrVars, listVars, saved, target, nextThr, curthr,
                           sie, space, pending, status>>
       ELSE Panic("assert")

\* The while loop is left; an interrupt may still come before intr_disable.
IdleEmpty ==
    /\ At("idle")
    /\ readyList = <<>>
    /\ Goto("idle_empty")
    /\ UNCHANGED <<thrVars, ctxVars, listVars, curthr, sie, space, pending, status>>

IdleDisable ==
    /\ At("idle_empty")
    /\ sie' = FALSE
    /\ Goto("idle_off")
    /\ UNCHANGED <<thrVars, ctxVars, listVars, curthr, space, pending, status>>

\* An idle loop that slept without looking at the ready list again.
IdleCheckOnce ==
    /\ At("idle_off")
    /\ Goto("wfi")
    /\ UNCHANGED <<thrVars, ctxVars, listVars, curthr, sie, space, pending, status>>

\* The second tlempty, with interrupts off: go to sleep or start over.
IdleCheck ==
    /\ At("idle_off")
    /\ IF readyList = <<>>
       THEN Goto("wfi") /\ UNCHANGED sie
       ELSE Goto("idle") /\ sie' = TRUE
    /\ UNCHANGED <<thrVars, ctxVars, listVars, curthr, space, pending, status>>

\* wfi ends when an interrupt is pending, even while SIE is clear.
Wfi ==
    /\ At("wfi")
    /\ pending # {}
    /\ Goto("idle")
    /\ sie' = TRUE
    /\ UNCHANGED <<thrVars, ctxVars, listVars, curthr, space, pending, status>>

------------------------------------------------------------------------------
\* halt_success and panic do not return.
Stopped == status # "run" /\ UNCHANGED vars

\* What the current thread does next without a choice of its own.
Step ==
    \/ CondInsert \/ Suspend \/ Switch \/ Resume
    \/ JoinAnyScan \/ JoinAgain
    \/ IdleYield \/ IdleEmpty \/ IdleDisable \/ IdleCheck \/ Wfi

\* The calls through which kernel code gives up the hart.
Leave ==
    \/ \E c \in Conds : CondWait(c)
    \/ Yield \/ Exit \/ ToUser

Next ==
    \/ Step
    \/ Leave
    \/ \E c \in Conds : CondBroadcast(c)
    \/ Spawn \/ Fork
    \/ JoinAny \/ \E t \in Tids : Join(t)
    \/ ToggleIntr \/ Syscall
    \/ \E i \in Irqs : RaiseIrq(i) \/ Isr(i)
    \/ Stopped

Spec == Init /\ [][Next]_vars

------------------------------------------------------------------------------
(* Properties *)

TypeOK ==
    /\ state \in [Tids -> States]
    /\ parent \in [Tids -> Tids \cup {NoTid}]
    /\ proc \in [Tids -> Tids \cup {NoTid}]
    /\ users \in SUBSET Tids
    /\ stacks \in SUBSET Tids
    /\ waitCond \in [Tids -> Conditions \cup {NoCond}]
    /\ readyList \in Seq(Tids)
    /\ waitList \in [Conditions -> Seq(Tids)]
    /\ curthr \in Tids
    /\ pc \in [Tids -> Labels]
    /\ saved \in [Tids -> BOOLEAN]
    /\ ret \in [Tids -> Returns]
    /\ target \in [Tids -> Tids \cup {NoTid}]
    /\ nextThr \in Tids \cup {NoTid}
    /\ sie \in BOOLEAN
    /\ space \in Tids
    /\ pending \in SUBSET Irqs
    /\ freePages \in Nat
    /\ status \in {"run", "halted"} \cup Panics

\* The lists agree with the states the threads carry: a thread is on the ready
\* list exactly when it is READY, on the wait list of a condition exactly when
\* it is WAITING for it (past its tlinsert), once and nowhere else.  All lists
\* share the one list_next link, so a second membership would splice two lists.
ListsExact ==
    /\ IsInjective(readyList)
    /\ \A c \in Conditions : IsInjective(waitList[c])
    /\ \A t \in Tids : t \in Range(readyList) <=> state[t] = "READY"
    /\ \A t \in Tids, c \in Conditions :
          t \in Range(waitList[c]) <=>
              state[t] = "WAITING" /\ waitCond[t] = c /\ pc[t] # "insert"

\* A thread that gives up the hart finds another one to run: the list
\* suspend_self takes from is not empty and its head is not the caller, even
\* when an interrupt made the caller READY on its way into suspend_self.
SuccessorAhead ==
    At("suspend") => readyList # <<>> /\ Head(readyList) # curthr

\* No assertion of thread.c fails, no child_exit signal is spurious and no
\* exited thread comes back, whatever the callers and the interrupts do.
NoKernelAssert == status \notin {"assert", "spurious", "exit_failed"}

\* The idle thread is asleep in wfi only while no thread is ready: the wake-up
\* an interrupt brings just before wfi is not slept through.
NoSleepWhileReady == At("wfi") => readyList = <<>>

\* A parent that sleeps in thread_join_any has no exited child to collect, and
\* one that sleeps in thread_join waits for a child of its own that has not
\* exited: no exit goes unnoticed, also of a child inherited from another.
NoLostChildExit ==
    \A t \in Tids : state[t] = "WAITING" /\ waitCond[t] = t =>
        /\ ret[t] = "joinany" => Zombies(t) = {}
        /\ ret[t] = "join" => target[t] \in Children(t) \ Zombies(t)

\* The parent links form a tree rooted in main that never leads through a
\* recycled slot: of any threads there are, one has its parent among the others.
Live == {t \in Tids : state[t] # "FREE"}
FamilyRooted ==
    \A S \in SUBSET (Live \ {MAIN_TID}) :
        S # {} => \E t \in S : parent[t] \in Live \ S

\* A thread of a process executes, in user mode or in a system call that
\* follows user pointers, with its own process's memory space active.
UserInOwnSpace ==
    status = "run" /\ proc[curthr] # NoTid => space = proc[curthr]

\* A broadcast readies the waiting threads "in the order they were added to the
\* wait queue" (thread.h), behind all that were ready; nothing overtakes later.
Ahead(s, t, u) == \E i, j \in DOMAIN s : i < j /\ s[i] = t /\ s[j] = u
WakeOrder ==
    [][readyList' # readyList =>
         \A c \in Conditions, t, u \in Range(readyList') :
            Ahead(readyList \o waitList[c], t, u) => Ahead(readyList', t, u)]_vars

------------------------------------------------------------------------------
(* Fairness and liveness *)

\* The hart executes; kernel code between calls ends up giving the hart away;
\* the timer ticks, also while user code runs, and user code is then trapped.
\* (A tick taken inside a system call does not preempt.)
Ticks == RaiseIrq(Tick) /\ Tick \notin pending
Fairness ==
    /\ WF_vars(Step)
    /\ WF_vars(Leave)
    /\ WF_vars(Ticks)
    /\ SF_vars(At("user") /\ Ticks)
    /\ SF_vars(At("user") /\ Isr(Tick))

FairSpec == Spec /\ Fairness

\* A ready thread runs in the end, unless the machine stops: round robin starves
\* nobody, although a fork hands the hart to the child past the queue and user
\* code gives it up only when the timer interrupts.
ReadyRuns ==
    \A t \in Tids : state[t] = "READY" ~> state[t] = "RUNNING" \/ status # "run"

------------------------------------------------------------------------------
(* What the comments promise and the code does not keep *)

\* Each page taken for a stack is in the pool or the stack of a thread.
StackPagesConserved == freePages + Cardinality(stacks) = PagePool

------------------------------------------------------------------------------
(* The family tree the threads implement *)

Tree == INSTANCE ThreadTree WITH
    life <- [t \in Tids |-> IF state[t] = "FREE" THEN "free"
                            ELSE IF state[t] = "EXITED" THEN "zombie" ELSE "alive"],
    parent <- parent
TreeSpec == Tree!Spec

==============================================================================
