------------------------------ MODULE TrapsProofs ------------------------------
(***************************************************************************)
(* Theorems about Traps, for any number of threads, whenever interrupts     *)
(* come: no stack loses the frame of a program, and every program goes on   *)
(* where it was.                                                            *)
(***************************************************************************)
EXTENDS Traps, TLAPS

------------------------------------------------------------------------------
(* The inductive invariant *)

FrameType == [pc : 0 .. Places, sp : Address, tp : Threads, call : BOOLEAN]

Typed ==
    /\ pc \in 0 .. Places /\ sepc \in 0 .. Places /\ sie \in BOOLEAN
    /\ sp \in Address /\ sscratch \in Address /\ tp \in live
    /\ stvec \in {"smode", "umode"}
    /\ frames \in [Threads -> Seq(FrameType)]
    /\ context \in [Threads -> [at : {0, 1}, sie : BOOLEAN]]
    /\ live \subseteq Threads
    /\ at \in {"user", "kernel", "switched", "return_vector", "return_pc",
               "jump", "jump_stack", "jump_vector", "jump_pc",
               "fork", "fork_vector", "fork_pc", "lost"}

\* What is written at the base of a stack is always its thread.
Anchored == anchor = [t \in Threads |-> t]

\* Where a program was is a place in it, with its own stack.
UserAddress == {a \in Address : ~IsKernel(a) /\ a.at < Places}
TakenInUser == taken \in [Threads -> [pc : 0 .. Places - 1, sp : UserAddress]]

\* A stack that is one frame deep has the frame of its program.
Kept(t, depth) ==
    depth # 0 => /\ depth = 1 /\ Len(frames[t]) = 1
                 /\ frames[t][1].pc = taken[t].pc /\ frames[t][1].sp = taken[t].sp
                 /\ frames[t][1].tp = t
OthersKept == \A t \in live \ {tp} : Kept(t, context[t].at)

\* What the registers have to do with the current thread at every place.
OnOwnStack(vector) ==
    /\ stvec = vector /\ sp.stack = tp /\ ~IsKernel(sscratch)
    /\ Kept(tp, sp.at)
InUser ==
    /\ stvec = "umode" /\ sscratch = Anchor(tp) /\ tp \in Users
    /\ ~IsKernel(sp) /\ sp.at < Places /\ pc < Places
Returns ==
    /\ OnOwnStack("umode") /\ sp.at = 1 /\ tp \in Users
    /\ at = "return_pc" => sepc \in {taken[tp].pc, InKernel}
Begins ==
    /\ stvec = "smode" /\ sp.stack = tp /\ ~IsKernel(sscratch) /\ tp \in Users
    /\ taken[tp] = [pc |-> Entry, sp |-> UserTop]
Jumps ==
    /\ tp \in Users /\ taken[tp] = [pc |-> Entry, sp |-> UserTop]
    /\ sp = UserTop /\ sscratch = Anchor(tp)
    /\ stvec = IF at = "jump_stack" THEN "smode" ELSE "umode"
    /\ at = "jump_pc" => sepc \in {Entry, InKernel}
Forks ==
    /\ tp \in Users /\ sscratch = Anchor(tp)
    /\ IsKernel(sp) /\ sp.at = 1 /\ sp.stack \in live \ {tp}
    /\ context[sp.stack].at = 1 /\ taken[sp.stack] = taken[tp]
    /\ stvec = IF at = "fork" THEN "smode" ELSE "umode"
    /\ at = "fork_pc" => sepc \in {taken[tp].pc, InKernel}

RegistersFit ==
    /\ at \in {"kernel", "switched"} => OnOwnStack("smode")
    /\ at = "jump" => Begins
    /\ at = "user" => InUser
    /\ at \in {"return_vector", "return_pc"} => Returns
    /\ at \in {"jump_stack", "jump_vector", "jump_pc"} => Jumps
    /\ at \in {"fork", "fork_vector", "fork_pc"} => Forks

IInv == Typed /\ Anchored /\ TakenInUser
        /\ (at # "lost" => OthersKept /\ RegistersFit)

------------------------------------------------------------------------------
(* The steps *)

\* A frame that is pushed at the base of a stack is its only one.
LEMMA PushAtBase ==
    ASSUME NEW f \in [Threads -> Seq(FrameType)], NEW t \in Threads, NEW frame \in FrameType
    PROVE  /\ Push(f, Anchor(t), frame) \in [Threads -> Seq(FrameType)]
           /\ Push(f, Anchor(t), frame)[t] = <<frame>>
           /\ \A u \in Threads \ {t} : Push(f, Anchor(t), frame)[u] = f[u]
<1>1. SubSeq(f[t], 1, 0) = <<>>
  OBVIOUS
<1>2. Append(<<>>, frame) = <<frame>> /\ <<frame>> \in Seq(FrameType)
  OBVIOUS
<1>3. Push(f, Anchor(t), frame) = [f EXCEPT ![t] = Append(SubSeq(f[t], 1, 0), frame)]
  BY DEF Push, Anchor
<1>4. Push(f, Anchor(t), frame) = [f EXCEPT ![t] = <<frame>>]
  BY <1>1, <1>2, <1>3
<1> QED BY <1>2, <1>4

\* An address is that of a thread or of a program; the base of a stack is one.
LEMMA Addresses ==
    /\ \A t \in Threads : Anchor(t) \in Address /\ IsKernel(Anchor(t))
                          /\ Below(Anchor(t)) = [stack |-> t, at |-> 1]
                          /\ Below(Anchor(t)) \in Address
    /\ UserTop \in UserAddress /\ UserTop \in Address
    /\ \A x \in UserAddress : x \in Address /\ ~IsKernel(x)
    /\ InKernel \in 0 .. Places /\ Entry \in 0 .. Places - 1 /\ InKernel \notin 0 .. Places - 1
    /\ Main \in Users /\ Idle \in Threads /\ Users \subseteq Threads
BY TrapsAssumption DEF Anchor, Address, IsKernel, Below, UserTop, UserAddress, InKernel, Entry, Threads

LEMMA InitIInv == Init => IInv
<1> SUFFICES ASSUME Init PROVE IInv
  OBVIOUS
<1>1. Anchor(Main) = [stack |-> Main, at |-> 0] /\ {Main, Idle} \subseteq Threads
  BY Addresses DEF Anchor
<1>2. Typed
  <2>1. frames \in [Threads -> Seq(FrameType)]
    BY DEF Init
  <2>2. context \in [Threads -> [at : {0, 1}, sie : BOOLEAN]]
    BY DEF Init
  <2> QED BY <1>1, <2>1, <2>2, Addresses, TrapsAssumption DEF Init, Typed
<1>3. Anchored /\ TakenInUser
  BY Addresses DEF Init, Anchored, TakenInUser
<1>4. OthersKept
  BY <1>1 DEF Init, OthersKept, Kept
<1>5. RegistersFit
  BY <1>1, Addresses DEF Init, RegistersFit, OnOwnStack, Kept
<1> QED BY <1>2, <1>3, <1>4, <1>5 DEF IInv

\* The current thread is one, and so is each thread that lives.
LEMMA UserStepIInv == IInv /\ UserStep => IInv'
<1> SUFFICES ASSUME IInv, UserStep PROVE IInv'
  OBVIOUS
<1> USE DEF IInv, UserStep, mem
<1>1. PICK p, k \in 0 .. Places - 1 : pc' = p /\ sp' = [stack |-> NoThread, at |-> k]
  OBVIOUS
<1>2. sp' \in Address /\ ~IsKernel(sp') /\ sp'.at < Places
  BY <1>1, TrapsAssumption DEF Address, IsKernel
<1>3. Typed'
  BY <1>1, <1>2, TrapsAssumption DEF Typed
<1>4. Anchored' /\ TakenInUser' /\ OthersKept'
  BY DEF Anchored, TakenInUser, OthersKept, Kept
<1>5. RegistersFit'
  BY <1>1, <1>2, TrapsAssumption DEF RegistersFit, InUser
<1> QED BY <1>3, <1>4, <1>5

\* What a trap of the current thread finds: the way in that the last way out prepared.
LEMMA TrapIInv ==
    ASSUME NEW call \in BOOLEAN, IInv, Trap(call)
    PROVE  IInv'
<1> DEFINE back == IF call THEN Next4(pc) ELSE pc
           F == [pc |-> back, sp |-> sp, tp |-> tp, call |-> call]
<1>1. /\ at = "user" /\ InUser /\ Typed /\ Anchored /\ TakenInUser /\ OthersKept
      /\ tp \in Threads /\ tp \in live
  BY DEF IInv, Trap, RegistersFit, Typed
<1>2. sscratch = Anchor(tp) /\ IsKernel(sscratch) /\ stvec # "smode"
  BY <1>1, Addresses DEF InUser
<1>3. /\ at' = "kernel" /\ sepc' = pc /\ sie' = FALSE /\ sscratch' = sp
      /\ tp' = anchor[sscratch.stack]
      /\ frames' = Push(frames, sscratch, [pc |-> back, sp |-> sp, tp |-> tp', call |-> call])
      /\ sp' = Below(sscratch) /\ stvec' = "smode"
      /\ taken' = [taken EXCEPT ![tp] = [pc |-> back, sp |-> sp]]
      /\ UNCHANGED <<pc, anchor, context, live>>
  BY <1>2 DEF Trap, EntryVector
<1>4. tp' = tp /\ sp' = [stack |-> tp, at |-> 1] /\ sp' \in Address
  <2>1. sscratch.stack = tp
    BY <1>2 DEF Anchor
  <2> QED BY <1>1, <1>2, <1>3, <2>1, Addresses DEF Anchored
<1>5. frames' = Push(frames, Anchor(tp), F)
  BY <1>2, <1>3, <1>4
<1>6. back \in 0 .. Places - 1
  <2>1. pc \in 0 .. Places - 1
    BY <1>1, TrapsAssumption DEF InUser, Typed
  <2>2. Next4(pc) \in 0 .. Places - 1
    BY <2>1, TrapsAssumption DEF Next4
  <2> QED BY <2>1, <2>2
<1>7. sp \in UserAddress /\ sp \in Address /\ ~IsKernel(sp)
  BY <1>1 DEF InUser, Typed, UserAddress
<1> HIDE DEF back
<1>8. F \in FrameType
  BY <1>1, <1>6, <1>7, TrapsAssumption DEF FrameType
<1> HIDE DEF F
<1>9. /\ frames' \in [Threads -> Seq(FrameType)] /\ frames'[tp] = <<F>>
      /\ \A u \in Threads \ {tp} : frames'[u] = frames[u]
  BY <1>1, <1>5, <1>8, PushAtBase DEF Typed
<1>10. Typed'
  BY <1>1, <1>3, <1>4, <1>7, <1>9, TrapsAssumption DEF Typed
<1>11. Anchored' /\ TakenInUser'
  BY <1>1, <1>3, <1>6, <1>7 DEF Anchored, TakenInUser
<1>12. OthersKept'
  BY <1>1, <1>3, <1>4, <1>9 DEF OthersKept, Kept, Typed, TakenInUser
<1>13. RegistersFit'
  <2>1. Len(<<F>>) = 1 /\ <<F>>[1] = F
    OBVIOUS
  <2>2. F.pc = back /\ F.sp = sp /\ F.tp = tp
    BY DEF F
  <2>3. taken'[tp].pc = back /\ taken'[tp].sp = sp
    BY <1>1, <1>3 DEF TakenInUser
  <2>4. sp'.stack = tp /\ sp'.at = 1
    BY <1>4
  <2>5. Kept(tp, sp.at)'
    BY <1>4, <1>9, <2>1, <2>2, <2>3, <2>4 DEF Kept
  <2>6. OnOwnStack("smode")'
    BY <1>3, <1>4, <1>7, <2>4, <2>5 DEF OnOwnStack, IsKernel
  <2> QED BY <1>3, <2>6 DEF RegistersFit
<1> QED BY <1>10, <1>11, <1>12, <1>13 DEF IInv

\* An interrupt of the kernel on its own stack: nothing that counts has sepc there.
LEMMA InterruptOnStackIInv == IInv /\ InterruptOnStack => IInv'
<1> SUFFICES ASSUME IInv, InterruptOnStack PROVE IInv'
  OBVIOUS
<1> USE DEF IInv, InterruptOnStack, Interrupted
<1>1. Typed'
  BY Addresses DEF Typed
<1>2. Anchored' /\ TakenInUser' /\ OthersKept'
  BY DEF Anchored, TakenInUser, OthersKept, Kept
<1>3. RegistersFit'
  BY DEF RegistersFit, OnOwnStack, Kept, Begins, Returns, Jumps, Forks
<1> QED BY <1>1, <1>2, <1>3

\* An interrupt that takes the stack of sscratch finds no frame of a program there.
LEMMA InterruptOnBaseIInv == IInv /\ InterruptOnBase => IInv'
<1> SUFFICES ASSUME IInv, InterruptOnBase PROVE IInv'
  OBVIOUS
<1> DEFINE F == [pc |-> InKernel, sp |-> sp, tp |-> tp, call |-> FALSE]
<1>1. /\ at \notin {"user", "lost"} /\ stvec = "umode" /\ IsKernel(sscratch)
      /\ Typed /\ Anchored /\ TakenInUser /\ OthersKept /\ RegistersFit
      /\ tp \in Threads /\ tp \in live
      /\ sepc' = InKernel /\ UNCHANGED <<at, pc, sp, sscratch, stvec, sie, anchor, context, live, taken>>
  BY DEF IInv, InterruptOnBase, Interrupted, Typed
<1>2. at \in {"jump_vector", "jump_pc", "fork_vector", "fork_pc"}
  BY <1>1 DEF RegistersFit, OnOwnStack, Begins, Returns, Typed, Jumps, Forks
<1>3. sscratch = Anchor(tp) /\ sscratch.stack = tp
  BY <1>1, <1>2 DEF RegistersFit, Jumps, Forks, Anchor
<1>4. tp' = tp
  BY <1>1, <1>3 DEF InterruptOnBase, Anchored
<1>5. frames' = Push(frames, Anchor(tp), F)
  BY <1>3, <1>4 DEF InterruptOnBase
<1>6. F \in FrameType
  BY <1>1, Addresses DEF FrameType, Typed
<1> HIDE DEF F
<1>7. /\ frames' \in [Threads -> Seq(FrameType)]
      /\ \A u \in Threads \ {tp} : frames'[u] = frames[u]
  BY <1>1, <1>5, <1>6, PushAtBase DEF Typed
<1>8. Typed'
  BY <1>1, <1>4, <1>7, Addresses DEF Typed
<1>9. Anchored' /\ TakenInUser'
  BY <1>1 DEF Anchored, TakenInUser
<1>10. OthersKept'
  BY <1>1, <1>4, <1>7 DEF OthersKept, Kept, Typed
<1>11. RegistersFit'
  BY <1>1, <1>2, <1>4 DEF RegistersFit, Jumps, Forks
<1> QED BY <1>8, <1>9, <1>10, <1>11 DEF IInv

LEMMA InterruptLostIInv == IInv /\ InterruptLost => IInv'
<1> SUFFICES ASSUME IInv, InterruptLost PROVE IInv'
  OBVIOUS
<1> USE DEF IInv, InterruptLost, Interrupted
<1>1. Typed'
  BY Addresses DEF Typed
<1>2. Anchored' /\ TakenInUser'
  BY DEF Anchored, TakenInUser
<1> QED BY <1>1, <1>2

LEMMA EnablesInterruptsIInv == IInv /\ EnablesInterrupts => IInv'
<1> SUFFICES ASSUME IInv, EnablesInterrupts PROVE IInv'
  OBVIOUS
<1> USE DEF IInv, EnablesInterrupts, InCall, InTrap, mem
<1>1. Typed'
  BY DEF Typed
<1>2. Anchored' /\ TakenInUser' /\ OthersKept'
  BY DEF Anchored, TakenInUser, OthersKept, Kept
<1>3. RegistersFit'
  BY DEF RegistersFit, OnOwnStack, Kept
<1> QED BY <1>1, <1>2, <1>3

------------------------------------------------------------------------------
(* In the kernel *)

\* The thread that the hart leaves keeps its frame, and the one it goes to finds its own.
LEMMA SwtchIInv ==
    ASSUME IInv, at = "kernel", NEW t \in live \ {tp}, Swtch(t),
           live' \subseteq live, t \in live',
           \/ live' = live /\ \E s \in BOOLEAN : context' = [context EXCEPT ![tp] = [at |-> sp.at, sie |-> s]]
           \/ live' = live \ {tp} /\ context' = context
    PROVE  IInv'
<1>1. /\ Typed /\ Anchored /\ TakenInUser /\ OthersKept /\ OnOwnStack("smode")
      /\ tp \in Threads /\ t \in Threads /\ t # tp
      /\ tp' = t /\ sp' = [stack |-> t, at |-> context[t].at]
      /\ sie' = TRUE /\ at' = "switched"
      /\ UNCHANGED <<pc, sscratch, stvec, sepc, anchor, frames, taken>>
  BY DEF IInv, Swtch, RegistersFit, Typed
<1>2. context[t].at \in {0, 1} /\ sp.at \in {0, 1} /\ Kept(t, context[t].at)
  BY <1>1, TrapsAssumption DEF Typed, OnOwnStack, Kept, OthersKept, Address
<1>3. context'[t] = context[t] /\ context' \in [Threads -> [at : {0, 1}, sie : BOOLEAN]]
  <2>1. context \in [Threads -> [at : {0, 1}, sie : BOOLEAN]]
    BY <1>1 DEF Typed
  <2>2. \A s \in BOOLEAN : [at |-> sp.at, sie |-> s] \in [at : {0, 1}, sie : BOOLEAN]
    BY <1>2
  <2>3. CASE context' = context
    BY <2>1, <2>3
  <2>4. ASSUME NEW s \in BOOLEAN, context' = [context EXCEPT ![tp] = [at |-> sp.at, sie |-> s]]
        PROVE  <1>3
    <3> DEFINE c == [at |-> sp.at, sie |-> s]
    <3>1. c \in [at : {0, 1}, sie : BOOLEAN]
      BY <2>2
    <3> HIDE DEF c
    <3> QED BY <1>1, <2>1, <2>4, <3>1 DEF c
  <2> QED BY <2>3, <2>4
<1>4. Typed'
  <2>1. sp' \in Address
    BY <1>1, <1>2, TrapsAssumption DEF Address
  <2> QED BY <1>1, <1>3, <2>1 DEF Typed
<1>5. Anchored' /\ TakenInUser'
  BY <1>1 DEF Anchored, TakenInUser
<1>6. OthersKept'
  <2>1. SUFFICES ASSUME NEW u \in live', u # t PROVE Kept(u, context[u].at)'
    BY <1>1 DEF OthersKept
  <2>2. CASE u = tp
    <3>1. context'[tp].at = sp.at
      BY <1>1, <2>1, <2>2 DEF Typed
    <3> QED BY <1>1, <2>2, <3>1 DEF Kept, OnOwnStack
  <2>3. CASE u # tp
    <3>1. u \in live /\ u \in Threads
      BY <1>1, <2>1 DEF Typed
    <3>2. context'[u] = context[u]
      BY <1>1, <2>3, <3>1 DEF Typed
    <3> QED BY <1>1, <2>3, <3>1, <3>2 DEF Kept, OthersKept
  <2> QED BY <2>2, <2>3
<1>7. RegistersFit'
  BY <1>1, <1>2 DEF RegistersFit, OnOwnStack, Kept
<1> QED BY <1>4, <1>5, <1>6, <1>7 DEF IInv

LEMMA SuspendIInv == IInv /\ Suspend => IInv'
<1> SUFFICES ASSUME IInv, Suspend PROVE IInv'
  OBVIOUS
<1>1. PICK t \in live \ {tp} : Swtch(t)
  BY DEF Suspend
<1>2. sie \in BOOLEAN
  BY DEF IInv, Typed
<1> QED BY <1>1, <1>2, SwtchIInv DEF Suspend

LEMMA ExitIInv == IInv /\ Exit => IInv'
<1> SUFFICES ASSUME IInv, Exit PROVE IInv'
  OBVIOUS
<1>1. PICK t \in live \ {tp} : Swtch(t)
  BY DEF Exit
<1> QED BY <1>1, SwtchIInv DEF Exit, InCall, InTrap

LEMMA ResumedIInv == IInv /\ Resumed => IInv'
<1> SUFFICES ASSUME IInv, Resumed PROVE IInv'
  OBVIOUS
<1> USE DEF IInv, Resumed, mem
<1>1. Typed'
  BY DEF Typed
<1>2. Anchored' /\ TakenInUser' /\ OthersKept'
  BY DEF Anchored, TakenInUser, OthersKept, Kept
<1>3. RegistersFit'
  BY DEF RegistersFit, OnOwnStack, Kept
<1> QED BY <1>1, <1>2, <1>3

------------------------------------------------------------------------------
(* The way out *)

\* The frame that a return takes is that of the program of the current thread.
LEMMA ReturningFrame ==
    ASSUME IInv, at \notin {"user", "lost"}, sp.stack = tp, sp.at # 0, Kept(tp, sp.at)
    PROVE  /\ sp.at = 1 /\ Frame.pc = taken[tp].pc /\ Frame.sp = taken[tp].sp /\ Frame.tp = tp
           /\ Frame.pc \in 0 .. Places - 1 /\ Frame.pc \in 0 .. Places
           /\ Frame.sp \in UserAddress /\ tp \in Threads
<1>1. sp.at = 1 /\ Frame = frames[tp][1]
  BY DEF Kept, Frame
<1>2. tp \in Threads /\ TakenInUser
  BY DEF IInv, Typed
<1>3. taken[tp].pc \in 0 .. Places - 1 /\ taken[tp].sp \in UserAddress
  BY <1>2 DEF TakenInUser
<1> QED BY <1>1, <1>2, <1>3, TrapsAssumption DEF Kept

LEMMA ReturnVectorIInv == IInv /\ ReturnVector => IInv'
<1> SUFFICES ASSUME IInv, ReturnVector PROVE IInv'
  OBVIOUS
<1> USE DEF IInv, ReturnVector, InTrap, Step, SetVector, mem
<1>1. Typed'
  BY DEF Typed
<1>2. Anchored' /\ TakenInUser' /\ OthersKept'
  BY DEF Anchored, TakenInUser, OthersKept, Kept
<1>3. OnOwnStack("umode")' /\ sp'.at = 1
  BY DEF RegistersFit, OnOwnStack, Kept, Typed, Address
<1>4. RegistersFit'
  BY <1>3 DEF RegistersFit, Returns
<1> QED BY <1>1, <1>2, <1>4

LEMMA ReturnPcIInv == IInv /\ ReturnPc => IInv'
<1> SUFFICES ASSUME IInv, ReturnPc PROVE IInv'
  OBVIOUS
<1>1. Returns
  BY DEF IInv, ReturnPc, Step, RegistersFit
<1>2. Frame.pc = taken[tp].pc /\ Frame.pc \in 0 .. Places
  BY <1>1, ReturningFrame DEF ReturnPc, Step, Returns, OnOwnStack
<1> USE DEF IInv, ReturnPc, Step, SetPc, mem
<1>3. Typed'
  BY <1>2 DEF Typed
<1>4. Anchored' /\ TakenInUser' /\ OthersKept'
  BY DEF Anchored, TakenInUser, OthersKept, Kept
<1>5. RegistersFit'
  BY <1>1, <1>2 DEF RegistersFit, Returns, OnOwnStack, Kept
<1> QED BY <1>3, <1>4, <1>5

\* What Return does to the registers.
LEMMA ReturnEffect ==
    ASSUME IInv, Return
    PROVE  /\ pc' = sepc /\ at' = IF sepc = InKernel THEN "lost" ELSE "user"
           /\ sepc \in {taken[tp].pc, InKernel} /\ stvec = "umode"
           /\ sp' = taken[tp].sp /\ sp' \in UserAddress /\ sp' \in Address
           /\ tp' = tp /\ sscratch' = Anchor(tp) /\ anchor' = anchor /\ sie' = FALSE
           /\ UNCHANGED <<stvec, sepc, frames, context, live, taken>>
<1>1. Returns /\ Anchored
  BY DEF IInv, Return, RegistersFit
<1>2. /\ sp.at = 1 /\ Frame.sp = taken[tp].sp /\ Frame.tp = tp
      /\ Frame.sp \in UserAddress /\ tp \in Threads
  BY <1>1, ReturningFrame DEF Return, Returns, OnOwnStack
<1>3. sp.stack = tp
  BY <1>1 DEF Returns, OnOwnStack
<1>4. [stack |-> sp.stack, at |-> sp.at - 1] = Anchor(tp)
  BY <1>2, <1>3 DEF Anchor
<1>5. sscratch' = Anchor(tp) /\ anchor' = [anchor EXCEPT ![tp] = tp]
  BY <1>2, <1>3, <1>4 DEF Return
<1>6. anchor' = anchor
  BY <1>1, <1>2, <1>5 DEF Anchored
<1> QED BY <1>1, <1>2, <1>5, <1>6, Addresses DEF Return, sret, Returns, OnOwnStack

LEMMA ReturnIInv == IInv /\ Return => IInv'
<1> SUFFICES ASSUME IInv, Return PROVE IInv'
  OBVIOUS
<1> USE ReturnEffect DEF IInv
<1>1. tp \in Users /\ tp \in Threads
  BY DEF Return, RegistersFit, Returns, Typed
<1>2. Typed'
  BY <1>1, Addresses DEF Typed
<1>3. Anchored' /\ TakenInUser'
  BY DEF Anchored, TakenInUser
<1>4. at # "lost"
  BY DEF Return
<1>5. OthersKept'
  BY <1>4 DEF OthersKept, Kept
<1>6. at' # "lost" => RegistersFit'
  <2>1. ASSUME sepc # InKernel PROVE sepc < Places
    BY <2>1, TrapsAssumption DEF Typed, InKernel
  <2>2. ~IsKernel(sp') /\ sp'.at < Places
    BY DEF UserAddress
  <2> QED BY <1>1, <2>1, <2>2 DEF RegistersFit, InUser
<1> QED BY <1>2, <1>3, <1>5, <1>6

LEMMA JumpIInv == IInv /\ Jump => IInv'
<1> SUFFICES ASSUME IInv, Jump PROVE IInv'
  OBVIOUS
<1> USE DEF IInv, Jump, mem
<1>1. Typed'
  BY DEF Typed
<1>2. Anchored' /\ TakenInUser'
  BY Addresses DEF Anchored, TakenInUser
<1>3. OthersKept'
  BY DEF OthersKept, Kept, Typed, TakenInUser
<1>4. RegistersFit'
  BY Addresses DEF RegistersFit, OnOwnStack, Begins, TakenInUser
<1> QED BY <1>1, <1>2, <1>3, <1>4

LEMMA JumpStackIInv == IInv /\ JumpStack => IInv'
<1> SUFFICES ASSUME IInv, JumpStack PROVE IInv'
  OBVIOUS
<1> USE DEF IInv, JumpStack, Step, mem
<1>1. Typed'
  BY Addresses DEF Typed
<1>2. Anchored' /\ TakenInUser' /\ OthersKept'
  BY DEF Anchored, TakenInUser, OthersKept, Kept
<1>3. RegistersFit'
  BY DEF RegistersFit, Begins, Jumps
<1> QED BY <1>1, <1>2, <1>3

LEMMA JumpVectorIInv == IInv /\ JumpVector => IInv'
<1> SUFFICES ASSUME IInv, JumpVector PROVE IInv'
  OBVIOUS
<1> USE DEF IInv, JumpVector, Step, SetVector, mem
<1>1. Typed'
  BY DEF Typed
<1>2. Anchored' /\ TakenInUser' /\ OthersKept'
  BY DEF Anchored, TakenInUser, OthersKept, Kept
<1>3. RegistersFit'
  BY DEF RegistersFit, Jumps
<1> QED BY <1>1, <1>2, <1>3

LEMMA JumpPcIInv == IInv /\ JumpPc => IInv'
<1> SUFFICES ASSUME IInv, JumpPc PROVE IInv'
  OBVIOUS
<1> USE DEF IInv, JumpPc, Step, SetPc, mem
<1>1. Typed'
  BY Addresses, TrapsAssumption DEF Typed
<1>2. Anchored' /\ TakenInUser' /\ OthersKept'
  BY DEF Anchored, TakenInUser, OthersKept, Kept
<1>3. RegistersFit'
  BY DEF RegistersFit, Jumps
<1> QED BY <1>1, <1>2, <1>3

LEMMA JumpReturnIInv == IInv /\ JumpReturn => IInv'
<1> SUFFICES ASSUME IInv, JumpReturn PROVE IInv'
  OBVIOUS
<1> USE DEF IInv, JumpReturn, sret, mem
<1>1. Typed'
  BY DEF Typed
<1>2. Anchored' /\ TakenInUser' /\ OthersKept'
  BY DEF Anchored, TakenInUser, OthersKept, Kept
<1>3. at' # "lost" => RegistersFit'
  <2>1. Jumps
    BY DEF RegistersFit
  <2>2. sp.at < Places /\ ~IsKernel(sp)
    BY <2>1, TrapsAssumption DEF Jumps, UserTop, IsKernel
  <2>3. sepc # InKernel => sepc < Places
    BY TrapsAssumption DEF Typed, InKernel
  <2> QED BY <2>1, <2>2, <2>3 DEF RegistersFit, Jumps, InUser
<1> QED BY <1>1, <1>2, <1>3

------------------------------------------------------------------------------
(* fork *)

\* The child begins as the caller is, and the caller is kept as one that waits.
LEMMA ForkIInv == IInv /\ Fork => IInv'
<1> SUFFICES ASSUME IInv, Fork PROVE IInv'
  OBVIOUS
<1>1. PICK child \in Users \ live :
          /\ live' = live \cup {child}
          /\ anchor' = [anchor EXCEPT ![child] = child]
          /\ frames' = [frames EXCEPT ![child] = <<>>]
          /\ taken' = [taken EXCEPT ![child] = taken[tp]]
          /\ context' = [context EXCEPT ![tp] = [at |-> sp.at, sie |-> TRUE]]
          /\ sscratch' = ChildBase(tp, child)
          /\ tp' = child
  BY DEF Fork
<1>2. /\ at = "kernel" /\ tp \in Users /\ sp.at > 0 /\ at' = "fork" /\ sie' = TRUE
      /\ UNCHANGED <<pc, sp, stvec, sepc>>
  BY DEF Fork, InCall, InTrap
<1>3. /\ Typed /\ Anchored /\ TakenInUser /\ OthersKept /\ OnOwnStack("smode")
      /\ tp \in Threads /\ tp \in live /\ child \in Threads /\ child # tp
  BY <1>1, <1>2, Addresses DEF IInv, RegistersFit, Typed
<1>4. sp.at = 1 /\ sp.stack = tp /\ Kept(tp, 1) /\ IsKernel(sp) /\ stvec = "smode"
  BY <1>2, <1>3, TrapsAssumption DEF OnOwnStack, Kept, IsKernel
<1>5. sscratch' = Anchor(child)
  BY <1>1 DEF ChildBase
<1>6. Typed'
  <2>1. frames' \in [Threads -> Seq(FrameType)]
    <3>1. <<>> \in Seq(FrameType)
      OBVIOUS
    <3> QED BY <1>1, <1>3, <3>1 DEF Typed
  <2>2. context' \in [Threads -> [at : {0, 1}, sie : BOOLEAN]]
    BY <1>1, <1>3, <1>4 DEF Typed
  <2>3. sscratch' \in Address
    BY <1>3, <1>5, Addresses
  <2>4. live' \subseteq Threads /\ tp' \in live'
    BY <1>1, <1>3 DEF Typed
  <2> QED BY <1>2, <1>3, <2>1, <2>2, <2>3, <2>4 DEF Typed
<1>7. Anchored' /\ TakenInUser'
  BY <1>1, <1>3 DEF Anchored, TakenInUser
<1>8. /\ \A u \in live : frames'[u] = frames[u] /\ taken'[u] = taken[u]
      /\ \A u \in live \ {tp} : context'[u] = context[u]
      /\ context'[tp].at = 1 /\ taken'[child] = taken[tp]
  BY <1>1, <1>3, <1>4 DEF Typed, TakenInUser
<1>9. OthersKept'
  <2>1. SUFFICES ASSUME NEW u \in live PROVE Kept(u, context[u].at)'
    BY <1>1 DEF OthersKept
  <2>2. CASE u = tp
    BY <1>4, <1>8, <2>2 DEF Kept
  <2>3. CASE u # tp
    BY <1>3, <1>8, <2>3 DEF Kept, OthersKept
  <2> QED BY <2>2, <2>3
<1>10. RegistersFit'
  <2>1. sp'.stack \in live' \ {tp'} /\ sp'.at = 1 /\ IsKernel(sp)'
    BY <1>1, <1>2, <1>3, <1>4 DEF IsKernel
  <2>2. taken'[sp'.stack] = taken'[tp'] /\ context'[sp'.stack].at = 1
    BY <1>1, <1>2, <1>3, <1>4, <1>8
  <2>3. Forks'
    BY <1>1, <1>2, <1>4, <1>5, <2>1, <2>2 DEF Forks
  <2> QED BY <1>2, <2>3 DEF RegistersFit
<1> QED BY <1>6, <1>7, <1>9, <1>10 DEF IInv

LEMMA ForkVectorIInv == IInv /\ ForkVector => IInv'
<1> SUFFICES ASSUME IInv, ForkVector PROVE IInv'
  OBVIOUS
<1> USE DEF IInv, ForkVector, Step, SetVector, mem
<1>1. Typed'
  BY DEF Typed
<1>2. Anchored' /\ TakenInUser' /\ OthersKept'
  BY DEF Anchored, TakenInUser, OthersKept, Kept
<1>3. RegistersFit'
  BY DEF RegistersFit, Forks
<1> QED BY <1>1, <1>2, <1>3

\* The frame that the child goes on with is that of the caller.
LEMMA ForkingFrame ==
    ASSUME IInv, at \in {"fork_vector", "fork_pc"}
    PROVE  /\ Frame.pc = taken[tp].pc /\ Frame.sp = taken[tp].sp
           /\ Frame.pc \in 0 .. Places /\ Frame.sp \in UserAddress
<1>1. Forks /\ OthersKept /\ TakenInUser /\ tp \in Threads
  BY DEF IInv, RegistersFit, Typed
<1>2. Kept(sp.stack, 1) /\ sp.at = 1 /\ taken[sp.stack] = taken[tp]
  BY <1>1 DEF Forks, OthersKept
<1>3. taken[tp].pc \in 0 .. Places - 1 /\ taken[tp].sp \in UserAddress
  BY <1>1 DEF TakenInUser
<1> QED BY <1>2, <1>3, TrapsAssumption DEF Kept, Frame

LEMMA ForkPcIInv == IInv /\ ForkPc => IInv'
<1> SUFFICES ASSUME IInv, ForkPc PROVE IInv'
  OBVIOUS
<1>1. Frame.pc = taken[tp].pc /\ Frame.pc \in 0 .. Places
  BY ForkingFrame DEF ForkPc, Step
<1> USE DEF IInv, ForkPc, Step, SetPc, mem
<1>2. Typed'
  BY <1>1 DEF Typed
<1>3. Anchored' /\ TakenInUser' /\ OthersKept'
  BY DEF Anchored, TakenInUser, OthersKept, Kept
<1>4. RegistersFit'
  BY <1>1 DEF RegistersFit, Forks
<1> QED BY <1>2, <1>3, <1>4

LEMMA ForkReturnIInv == IInv /\ ForkReturn => IInv'
<1> SUFFICES ASSUME IInv, ForkReturn PROVE IInv'
  OBVIOUS
<1>1. Frame.sp \in UserAddress
  BY ForkingFrame DEF ForkReturn
<1> USE DEF IInv, ForkReturn, sret, mem
<1>2. Typed'
  BY <1>1, Addresses DEF Typed
<1>3. Anchored' /\ TakenInUser' /\ OthersKept'
  BY DEF Anchored, TakenInUser, OthersKept, Kept
<1>4. at' # "lost" => RegistersFit'
  <2>1. ~IsKernel(sp') /\ sp'.at < Places
    BY <1>1 DEF UserAddress
  <2>2. sepc # InKernel => sepc < Places
    BY TrapsAssumption DEF Typed, InKernel
  <2> QED BY <2>1, <2>2 DEF RegistersFit, Forks, InUser
<1> QED BY <1>2, <1>3, <1>4

------------------------------------------------------------------------------
(* The theorems *)

LEMMA NextIInv == IInv /\ [Next]_vars => IInv'
<1>1. IInv /\ UNCHANGED vars => IInv'
  BY DEF IInv, Typed, Anchored, TakenInUser, OthersKept, Kept, RegistersFit, OnOwnStack,
         InUser, Begins, Returns, Jumps, Forks, vars, regs, mem
<1>2. IInv /\ Lost => IInv'
  BY <1>1 DEF Lost
<1> QED BY <1>1, <1>2, UserStepIInv, TrapIInv, InterruptOnStackIInv, InterruptOnBaseIInv,
           InterruptLostIInv, EnablesInterruptsIInv, SuspendIInv, ExitIInv, ResumedIInv,
           ReturnVectorIInv, ReturnPcIInv, ReturnIInv,
           JumpIInv, JumpStackIInv, JumpVectorIInv, JumpPcIInv, JumpReturnIInv,
           ForkIInv, ForkVectorIInv, ForkPcIInv, ForkReturnIInv DEF Next

LEMMA InvariantHolds == Spec => []IInv
BY InitIInv, NextIInv, PTL DEF Spec

\* Wherever interrupts come, a program runs with the way in prepared for its thread,
\* kernel code runs on the stack of its thread, and every thread that waits has where its
\* program was on its stack (_trap_entry_from_umode, _thread_swtch, _thread_finish_fork).
THEOREM StacksAreKept == Spec => []StacksKept
<1>1. IInv => StacksKept
  <2> SUFFICES ASSUME IInv PROVE StacksKept
    OBVIOUS
  <2>1. TypeOK
    <3>1. \A t \in Threads : \A i \in DOMAIN frames[t] :
             frames[t][i] \in [pc : 0 .. Places, sp : Address, tp : Threads, call : BOOLEAN]
      <4>1. ASSUME NEW s \in Seq(FrameType), NEW i \in DOMAIN s PROVE s[i] \in FrameType
        BY <4>1
      <4>2. \A t \in Threads : frames[t] \in Seq(FrameType)
        BY DEF IInv, Typed
      <4> QED BY <4>1, <4>2 DEF FrameType
    <3>2. context \in [Threads -> [at : Nat, sie : BOOLEAN]]
      BY DEF IInv, Typed
    <3>3. anchor \in [Threads -> Threads]
      BY DEF IInv, Anchored
    <3> QED BY <3>1, <3>2, <3>3 DEF IInv, Typed, TypeOK
  <2>2. WayIn /\ OwnStack
    BY DEF IInv, Typed, Anchored, RegistersFit, InUser, OnOwnStack, WayIn, OwnStack
  <2>3. ASSUME NEW t \in Threads, NEW depth \in Nat, Kept(t, depth) PROVE FrameKept(t, depth)
    <3>1. taken[t] = [pc |-> taken[t].pc, sp |-> taken[t].sp]
      BY DEF IInv, TakenInUser
    <3> QED BY <2>3, <3>1 DEF Kept, FrameKept
  <2>4. at # "lost" => \A t \in live \ {tp} : FrameKept(t, context[t].at)
    BY <2>3 DEF IInv, OthersKept, Typed
  <2>5. at \in {"kernel", "switched"} => FrameKept(tp, sp.at)
    BY <2>3 DEF IInv, RegistersFit, OnOwnStack, Typed, Address
  <2> QED BY <2>1, <2>2, <2>4, <2>5 DEF StacksKept
<1> QED BY <1>1, InvariantHolds, PTL

\* The step that takes a thread back to its program takes it where it was; and an
\* interrupt that loses the hart came between two of the instructions that LetIn names.
LEMMA NextGoesOn ==
    ASSUME IInv, [Next]_vars
    PROVE  /\ at # "user" /\ at' = "user" => pc' = taken[tp'].pc /\ sp' = taken[tp'].sp
           /\ at' = "lost" => at \in LetIn \cup {"lost"}
<1>1. ASSUME NEW call \in BOOLEAN, Trap(call) PROVE at = "user" /\ at' = "kernel"
  <2>1. stvec # "smode" /\ IsKernel(sscratch)
    BY <1>1, Addresses DEF IInv, Trap, RegistersFit, InUser, Typed
  <2> QED BY <1>1, <2>1 DEF Trap
<1>2. ASSUME InterruptLost PROVE at' = "lost" /\ at \in LetIn
  BY <1>2, Addresses, TrapsAssumption DEF IInv, Typed, RegistersFit, OnOwnStack, Begins, Jumps, Forks,
     InterruptLost, Interrupted, LetIn, Returns, Address, IsKernel
<1>3. ASSUME Return PROVE at = "return_pc" /\ (at' = "user" => pc' = taken[tp'].pc /\ sp' = taken[tp'].sp)
  BY <1>3, ReturnEffect DEF Return
<1>4. ASSUME JumpReturn PROVE at = "jump_pc" /\ (at' = "user" => pc' = taken[tp'].pc /\ sp' = taken[tp'].sp)
  BY <1>4 DEF IInv, RegistersFit, Jumps, JumpReturn, sret
<1>5. ASSUME ForkReturn PROVE at = "fork_pc" /\ (at' = "user" => pc' = taken[tp'].pc /\ sp' = taken[tp'].sp)
  BY <1>5, ForkingFrame DEF IInv, RegistersFit, Forks, ForkReturn, sret, mem
<1>6. ASSUME \/ InterruptOnStack \/ InterruptOnBase \/ EnablesInterrupts \/ Suspend \/ Exit \/ Resumed
             \/ ReturnVector \/ ReturnPc \/ Jump \/ JumpStack \/ JumpVector \/ JumpPc
             \/ Fork \/ ForkVector \/ ForkPc
      PROVE  at' \notin {"user", "lost"}
  BY <1>6 DEF InterruptOnStack, InterruptOnBase, Interrupted, EnablesInterrupts, InCall, InTrap,
     Suspend, Exit, Swtch, Resumed, ReturnVector, ReturnPc, Step, Jump, JumpStack, JumpVector, JumpPc,
     Fork, ForkVector, ForkPc
<1>7. ASSUME UserStep \/ Lost \/ UNCHANGED vars PROVE at' = at
  BY <1>7 DEF UserStep, Lost, vars
<1> QED BY <1>1, <1>2, <1>3, <1>4, <1>5, <1>6, <1>7 DEF Next, LetIn

\* A program goes on where it was (restore_sstatus_and_sepc, _thread_finish_jump and
\* _thread_finish_fork against _trap_entry_from_umode), and there are no other places than
\* the five of LetIn where an interrupt loses the hart.
THEOREM ProgramsGoOn == Spec => GoesOn
<1>1. IInv /\ [Next]_vars =>
         [/\ (at # "user" /\ at' = "user") => pc' = taken[tp'].pc /\ sp' = taken[tp'].sp
          /\ at' = "lost" => at \in LetIn \cup {"lost"}]_vars
  BY NextGoesOn
<1> QED BY <1>1, InvariantHolds, PTL DEF Spec, GoesOn

==============================================================================
