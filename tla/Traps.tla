---------------------------------- MODULE Traps ---------------------------------
(***************************************************************************)
(* How the hart gets into the kernel and out of it: trapasm.s, and the ends *)
(* of exec, fork and switch in thrasm.s.  The registers of the hart and the *)
(* trap frames on the kernel stacks; interrupts come between instructions.  *)
(*                                                                         *)
(* Which thread is next is any that can be: in what order is in Threads.    *)
(* Between a trap and its return, C code keeps to its part of the stack.    *)
(* sstatus.SPP is left out: it is clear whenever kernel code runs outside a *)
(* handler of an interrupt of the kernel, which is a step of its own.       *)
(***************************************************************************)
EXTENDS Naturals, Sequences

CONSTANTS
    Users,          \* the threads that run processes
    Main, Idle,
    NoThread,       \* of the stack of a program: no thread
    Places          \* 0 .. Places - 1: of code, and of the stack of a program

Threads == Users \cup {Idle}

ASSUME TrapsAssumption ==
    /\ Main \in Users /\ Idle \notin Users /\ NoThread \notin Threads
    /\ Places \in Nat \ {0}

\* Addresses: on the stack of a thread below as many trap frames, or of a program.
Anchor(t) == [stack |-> t, at |-> 0]
UserTop == [stack |-> NoThread, at |-> 0]
IsKernel(a) == a.stack # NoThread
Below(a) == [stack |-> a.stack, at |-> a.at + 1]

\* Places of code: of a program, or in the kernel.
Entry == 0
InKernel == Places
Next4(pc) == (pc + 1) % Places

VARIABLES
    at,             \* where the hart is: "user", "kernel", or between the
                    \* instructions of a switch, a return, a jump or a fork; "lost"
    pc, sp, tp,     \* pc: of a program, when it runs
    sscratch, stvec, sepc, sie,
    anchor,         \* the thread pointer at the base of each stack
    frames,         \* of each stack: [pc, sp, tp, call]
    context,        \* of each thread: what _thread_swtch has saved, [at, sie]
    taken,          \* history: where the program of each thread was, [pc, sp]
    live

regs == <<pc, sp, tp, sscratch, stvec, sepc, sie>>
mem == <<anchor, frames, context, live>>
vars == <<at, regs, mem, taken>>

\* main has no program yet, and idle has not begun.
Init ==
    /\ at = "kernel" /\ pc = Entry /\ sp = Anchor(Main) /\ tp = Main
    /\ sscratch = UserTop /\ stvec = "smode" /\ sepc = InKernel /\ sie = TRUE
    /\ anchor = [t \in Threads |-> t]
    /\ frames = [t \in Threads |-> <<>>]
    /\ context = [t \in Threads |-> [at |-> 0, sie |-> TRUE]]
    /\ taken = [t \in Threads |-> [pc |-> Entry, sp |-> UserTop]]
    /\ live = {Main, Idle}

------------------------------------------------------------------------------
(* The way in *)

\* A frame is pushed where sp is, over what was there.
Push(f, a, frame) == [f EXCEPT ![a.stack] = Append(SubSeq(@, 1, a.at), frame)]

UserStep ==
    /\ at = "user"
    /\ \E p, k \in 0 .. Places - 1 : pc' = p /\ sp' = [stack |-> NoThread, at |-> k]
    /\ UNCHANGED <<at, tp, sscratch, stvec, sepc, sie, mem, taken>>

\* stvec, when the program is left; and an entry that does not set it.
SameVector == stvec
EntryVector == "smode"

\* _trap_entry_from_umode: with an interrupt or a page fault, or with a call, when the
\* program goes on at the next instruction.
Trap(call) ==
    /\ at = "user"
    /\ IF stvec = "smode" \/ ~IsKernel(sscratch)
       THEN at' = "lost" /\ UNCHANGED <<regs, mem, taken>>
       ELSE LET back == IF call THEN Next4(pc) ELSE pc
            IN /\ at' = "kernel"
               /\ sepc' = pc /\ sie' = FALSE
               /\ sscratch' = sp
               /\ tp' = anchor[sscratch.stack]
               /\ frames' = Push(frames, sscratch,
                                 [pc |-> back, sp |-> sp, tp |-> tp', call |-> call])
               /\ sp' = Below(sscratch)
               /\ stvec' = EntryVector
               /\ taken' = [taken EXCEPT ![tp] = [pc |-> back, sp |-> sp]]
               /\ UNCHANGED <<pc, anchor, context, live>>

\* An interrupt of kernel code.  It comes back as if nothing had been, but for sepc.
Interrupted ==
    /\ at \notin {"user", "lost"} /\ sie
    /\ sepc' = InKernel
    /\ UNCHANGED <<pc, sp, sscratch, stvec, sie, anchor, context, live, taken>>

\* _trap_entry_from_smode, with its frame below sp for as long as it takes.
InterruptOnStack ==
    /\ stvec = "smode" /\ IsKernel(sp) /\ Interrupted
    /\ UNCHANGED <<at, tp, frames>>

\* Where stvec leads to _trap_entry_from_umode already, it takes the stack of sscratch.
InterruptOnBase ==
    /\ stvec = "umode" /\ IsKernel(sscratch) /\ Interrupted
    /\ tp' = anchor[sscratch.stack]
    /\ frames' = Push(frames, sscratch, [pc |-> InKernel, sp |-> sp, tp |-> tp', call |-> FALSE])
    /\ UNCHANGED at

\* The one has the stack of the program, or the other no stack of the kernel.
InterruptLost ==
    /\ \/ stvec = "smode" /\ ~IsKernel(sp)
       \/ stvec = "umode" /\ ~IsKernel(sscratch)
    /\ Interrupted
    /\ at' = "lost"
    /\ UNCHANGED <<tp, frames>>

------------------------------------------------------------------------------
(* In the kernel *)

\* The trap frame of the running thread; one of a call.
Frame == frames[sp.stack][sp.at]
InTrap == at = "kernel" /\ tp \in Users /\ sp.at > 0
InCall == InTrap /\ Frame.call

\* uart_read and uart_write return with interrupts enabled.
EnablesInterrupts ==
    /\ InCall /\ ~sie
    /\ sie' = TRUE
    /\ UNCHANGED <<at, pc, sp, tp, sscratch, stvec, sepc, mem, taken>>

\* suspend_self, of a thread that will go on, or of thread_exit; main's halts.
\* _thread_swtch takes the hart to another thread with interrupts enabled.
Swtch(t) ==
    /\ tp' = t /\ sp' = [stack |-> t, at |-> context[t].at]
    /\ sie' = TRUE
    /\ at' = "switched"
    /\ UNCHANGED <<pc, sscratch, stvec, sepc, anchor, frames, taken>>

Suspend ==
    /\ at = "kernel"
    /\ \E t \in live \ {tp} : Swtch(t)
    /\ context' = [context EXCEPT ![tp] = [at |-> sp.at, sie |-> sie]]
    /\ UNCHANGED live

Exit ==
    /\ InCall /\ tp # Main
    /\ \E t \in live \ {tp} : Swtch(t)
    /\ live' = live \ {tp}
    /\ UNCHANGED context

\* Its end, in the thread that goes on.
Resumed ==
    /\ at = "switched"
    /\ at' = "kernel" /\ sie' = context[tp].sie
    /\ UNCHANGED <<pc, sp, tp, sscratch, stvec, sepc, mem, taken>>

------------------------------------------------------------------------------
(* The way out *)

Step(from, to) == at = from /\ at' = to
SetVector == stvec' = "umode" /\ UNCHANGED <<pc, sp, tp, sscratch, sepc, sie, mem, taken>>
SetPc(p) == sepc' = p /\ UNCHANGED <<pc, sp, tp, sscratch, stvec, sie, mem, taken>>

\* sret, to where sepc says.  In the kernel no program can be.
sret ==
    /\ pc' = sepc
    /\ at' = IF sepc = InKernel THEN "lost" ELSE "user"

\* The end of _trap_entry_from_umode, for the frame f.  With sstatus interrupts are
\* disabled, and the rest is not interrupted.
ReturnVector == InTrap /\ Step("kernel", "return_vector") /\ SetVector
ReturnPc == Step("return_vector", "return_pc") /\ SetPc(Frame.pc)
Return ==
    LET base == [stack |-> sp.stack, at |-> sp.at - 1]
    IN /\ at = "return_pc" /\ sret
       /\ sp' = Frame.sp /\ tp' = Frame.tp
       /\ sscratch' = base
       /\ anchor' = [anchor EXCEPT ![base.stack] = Frame.tp]
       /\ sie' = FALSE
       /\ UNCHANGED <<stvec, sepc, frames, context, live, taken>>

\* thread_jump_to_user and _thread_finish_jump, for a program that begins.
Jump ==
    /\ at = "kernel" /\ tp \in Users /\ (sp.at > 0 => Frame.call)
    /\ at' = "jump" /\ sie' = TRUE
    /\ taken' = [taken EXCEPT ![tp] = [pc |-> Entry, sp |-> UserTop]]
    /\ UNCHANGED <<pc, sp, tp, sscratch, stvec, sepc, mem>>
JumpStack ==
    /\ Step("jump", "jump_stack")
    /\ sscratch' = Anchor(tp) /\ sp' = UserTop
    /\ UNCHANGED <<pc, tp, stvec, sepc, sie, mem, taken>>
JumpVector == Step("jump_stack", "jump_vector") /\ SetVector
JumpPc == Step("jump_vector", "jump_pc") /\ SetPc(Entry)
JumpReturn ==
    /\ at = "jump_pc" /\ sret
    /\ sie' = FALSE
    /\ UNCHANGED <<sp, tp, sscratch, stvec, sepc, mem, taken>>

\* thread_fork_to_user and _thread_finish_fork: the hart goes with the frame of the
\* caller, and the child.  The caller goes on with interrupts enabled.
CallersBase(caller, child) == Anchor(caller)
ChildBase(caller, child) == Anchor(child)

Fork ==
    /\ InCall
    /\ \E child \in Users \ live :
          /\ live' = live \cup {child}
          /\ anchor' = [anchor EXCEPT ![child] = child]
          /\ frames' = [frames EXCEPT ![child] = <<>>]
          /\ taken' = [taken EXCEPT ![child] = taken[tp]]
          /\ context' = [context EXCEPT ![tp] = [at |-> sp.at, sie |-> TRUE]]
          /\ sscratch' = ChildBase(tp, child)
          /\ tp' = child
    /\ at' = "fork" /\ sie' = TRUE
    /\ UNCHANGED <<pc, sp, stvec, sepc>>
ForkVector == Step("fork", "fork_vector") /\ SetVector
ForkPc == Step("fork_vector", "fork_pc") /\ SetPc(Frame.pc)
ForkReturn ==
    /\ at = "fork_pc" /\ sret
    /\ sp' = Frame.sp
    /\ sie' = FALSE
    /\ UNCHANGED <<tp, sscratch, stvec, sepc, mem, taken>>

\* The hart that is lost stays so.
Lost == at = "lost" /\ UNCHANGED vars

Next ==
    \/ UserStep \/ (\E call \in BOOLEAN : Trap(call))
    \/ InterruptOnStack \/ InterruptOnBase \/ InterruptLost
    \/ EnablesInterrupts \/ Suspend \/ Exit \/ Resumed
    \/ ReturnVector \/ ReturnPc \/ Return
    \/ Jump \/ JumpStack \/ JumpVector \/ JumpPc \/ JumpReturn
    \/ Fork \/ ForkVector \/ ForkPc \/ ForkReturn
    \/ Lost

Spec == Init /\ [][Next]_vars

------------------------------------------------------------------------------
(* Properties *)

\* The variables keep their types.
Address == [stack : Threads \cup {NoThread}, at : 0 .. Places]
TypeOK ==
    /\ pc \in 0 .. Places /\ sepc \in 0 .. Places /\ sie \in BOOLEAN
    /\ sp \in Address /\ sscratch \in Address /\ tp \in Threads
    /\ stvec \in {"smode", "umode"}
    /\ anchor \in [Threads -> Threads]
    /\ \A t \in Threads : \A i \in DOMAIN frames[t] :
          frames[t][i] \in [pc : 0 .. Places, sp : Address, tp : Threads, call : BOOLEAN]
    /\ context \in [Threads -> [at : Nat, sie : BOOLEAN]]
    /\ live \subseteq Threads

\* A program runs with the way in prepared for its thread; kernel code runs on the
\* stack of its thread and is interrupted by the entry for it; and every thread that is
\* not running has where it was on its stack.
WayIn == at = "user" =>
    /\ stvec = "umode" /\ tp \in live
    /\ sscratch = Anchor(tp) /\ anchor[tp] = tp
OwnStack == at \in {"kernel", "switched"} =>
    stvec = "smode" /\ tp \in live /\ sp.stack = tp
FrameKept(t, depth) ==
    depth > 0 => /\ depth = 1 /\ Len(frames[t]) = 1
                 /\ [pc |-> frames[t][1].pc, sp |-> frames[t][1].sp] = taken[t]
                 /\ frames[t][1].tp = t
StacksKept ==
    /\ TypeOK /\ WayIn /\ OwnStack
    /\ at # "lost" => \A t \in live \ {tp} : FrameKept(t, context[t].at)
    /\ at \in {"kernel", "switched"} => FrameKept(tp, sp.at)

\* A program goes on where it was, and nothing of its thread is lost, whatever ran
\* meanwhile.  But for an interrupt between two instructions that thrasm.s and trapasm.s
\* let in: with the stack of the program set, or the entry or the return address.
LetIn == {"return_vector", "jump_stack", "return_pc", "jump_pc", "fork_pc"}
GoesOn ==
    [][/\ (at # "user" /\ at' = "user") => pc' = taken[tp'].pc /\ sp' = taken[tp'].sp
       /\ at' = "lost" => at \in LetIn \cup {"lost"}]_vars

==============================================================================
