---------------------------- MODULE ThreadsProofs ----------------------------
(***************************************************************************)
(* Theorems about Threads for every number of threads, every set of        *)
(* conditions and every page pool: the invariants, the idle loop, the      *)
(* order of the ready list, the memory spaces, and the family tree of      *)
(* ThreadTree that thread.c implements.                                    *)
(***************************************************************************)
EXTENDS Threads, SequenceTheorems, TLAPS

------------------------------------------------------------------------------
(* What tlinsert, tlremove and tlappend do to a list without duplicates *)

\* The members of a list are its elements by index.
LEMMA RangeByIndex ==
    ASSUME NEW S, NEW s \in Seq(S)
    PROVE  /\ \A x : x \in Range(s) <=> \E i \in 1 .. Len(s) : s[i] = x
           /\ Range(s) \subseteq S
<1>1. Len(s) \in Nat /\ DOMAIN s = 1 .. Len(s) /\ \A i \in 1 .. Len(s) : s[i] \in S
  BY LenProperties, ElementOfSeq
<1> QED BY <1>1 DEF Range

\* tlinsert of a thread that is on no list keeps a list free of duplicates.
LEMMA InsertProperties ==
    ASSUME NEW S, NEW s \in Seq(S), NEW x \in S
    PROVE  /\ Append(s, x) \in Seq(S)
           /\ Append(s, x) # <<>>
           /\ Range(Append(s, x)) = Range(s) \cup {x}
           /\ s # <<>> => Head(Append(s, x)) = Head(s)
           /\ IsInjective(s) /\ x \notin Range(s) => IsInjective(Append(s, x))
<1> DEFINE a == Append(s, x)
<1>1. /\ a \in Seq(S) /\ a # <<>> /\ Len(a) = Len(s) + 1
      /\ \A i \in 1 .. Len(s) : a[i] = s[i]
      /\ a[Len(s) + 1] = x
  BY AppendProperties
<1>2. Len(s) \in Nat BY LenProperties
<1>3. \A y : y \in Range(s) <=> \E i \in 1 .. Len(s) : s[i] = y BY RangeByIndex
<1>4. \A y : y \in Range(a) <=> \E i \in 1 .. Len(a) : a[i] = y BY <1>1, RangeByIndex
<1> HIDE DEF a
<1>5. Range(a) = Range(s) \cup {x}
  <2>1. ASSUME NEW y \in Range(a) PROVE y \in Range(s) \cup {x}
    <3>1. PICK i \in 1 .. Len(a) : a[i] = y BY <1>4, <2>1
    <3>2. i \in 1 .. Len(s) \/ i = Len(s) + 1 BY <1>1, <1>2
    <3> QED BY <1>1, <1>3, <3>1, <3>2
  <2>2. ASSUME NEW y \in Range(s) PROVE y \in Range(a)
    <3>1. PICK i \in 1 .. Len(s) : s[i] = y BY <1>3, <2>2
    <3>2. i \in 1 .. Len(a) BY <1>1, <1>2
    <3> QED BY <1>1, <1>4, <3>1, <3>2
  <2>3. x \in Range(a)
    <3>1. Len(s) + 1 \in 1 .. Len(a) BY <1>1, <1>2
    <3> QED BY <1>1, <1>4, <3>1
  <2> QED BY <2>1, <2>2, <2>3
<1>6. s # <<>> => Head(a) = Head(s)
  <2>1. s # <<>> => 1 \in 1 .. Len(s) BY <1>2, EmptySeq
  <2>2. Head(a) = a[1] /\ Head(s) = s[1] OBVIOUS
  <2> QED BY <1>1, <2>1, <2>2
<1>7. ASSUME IsInjective(s), x \notin Range(s) PROVE IsInjective(a)
  <2>1. \A i, j \in 1 .. Len(s) : s[i] = s[j] => i = j
    BY <1>7, LenProperties DEF IsInjective
  <2>2. DOMAIN a = 1 .. Len(a) BY <1>1, LenProperties
  <2>3. ASSUME NEW i \in 1 .. Len(a), NEW j \in 1 .. Len(a), a[i] = a[j] PROVE i = j
    <3>1. i \in 1 .. Len(s) \/ i = Len(s) + 1 BY <1>1, <1>2
    <3>2. j \in 1 .. Len(s) \/ j = Len(s) + 1 BY <1>1, <1>2
    <3>3. \A k \in 1 .. Len(s) : s[k] # x BY <1>3, <1>7
    <3> QED BY <1>1, <2>1, <2>3, <3>1, <3>2, <3>3
  <2> QED BY <2>2, <2>3 DEF IsInjective
<1> QED BY <1>1, <1>5, <1>6, <1>7 DEF a

\* tlremove takes the head out of the list and nothing else.
LEMMA RemoveProperties ==
    ASSUME NEW S, NEW s \in Seq(S), s # <<>>
    PROVE  /\ Head(s) \in S
           /\ Head(s) \in Range(s)
           /\ Tail(s) \in Seq(S)
           /\ IsInjective(s) =>
                 /\ Range(Tail(s)) = Range(s) \ {Head(s)}
                 /\ IsInjective(Tail(s))
<1> DEFINE u == Tail(s)
<1>1. /\ Head(s) \in S /\ u \in Seq(S) /\ Len(u) = Len(s) - 1
      /\ \A i \in 1 .. Len(u) : u[i] = s[i + 1]
  BY HeadTailProperties
<1>2. Len(s) \in Nat \ {0} BY EmptySeq
<1>3. Head(s) = s[1] OBVIOUS
<1>4. \A y : y \in Range(s) <=> \E i \in 1 .. Len(s) : s[i] = y BY RangeByIndex
<1>5. \A y : y \in Range(u) <=> \E i \in 1 .. Len(u) : u[i] = y BY <1>1, RangeByIndex
<1>6. DOMAIN s = 1 .. Len(s) /\ DOMAIN u = 1 .. Len(u) BY <1>1, LenProperties
<1> HIDE DEF u
<1>7. Head(s) \in Range(s) BY <1>2, <1>3, <1>4
<1>8. ASSUME IsInjective(s) PROVE Range(u) = Range(s) \ {Head(s)} /\ IsInjective(u)
  <2>1. \A i, j \in 1 .. Len(s) : s[i] = s[j] => i = j BY <1>6, <1>8 DEF IsInjective
  <2>2. \A i \in 1 .. Len(u) : i + 1 \in 1 .. Len(s) BY <1>1, <1>2
  <2>3. IsInjective(u) BY <1>1, <1>6, <2>1, <2>2 DEF IsInjective
  <2>4. ASSUME NEW y \in Range(u) PROVE y \in Range(s) \ {Head(s)}
    <3>1. PICK i \in 1 .. Len(u) : u[i] = y BY <1>5, <2>4
    <3>2. i + 1 \in 1 .. Len(s) /\ i + 1 # 1 /\ s[i + 1] = y BY <1>1, <2>2, <3>1
    <3> QED BY <1>2, <1>3, <1>4, <2>1, <3>2
  <2>5. ASSUME NEW y \in Range(s) \ {Head(s)} PROVE y \in Range(u)
    <3>1. PICK i \in 1 .. Len(s) : s[i] = y BY <1>4, <2>5
    <3>2. i - 1 \in 1 .. Len(u) BY <1>1, <1>2, <1>3, <2>5, <3>1
    <3>3. u[i - 1] = y BY <1>1, <3>1, <3>2
    <3> QED BY <1>5, <3>2, <3>3
  <2> QED BY <2>3, <2>4, <2>5
<1> QED BY <1>1, <1>7, <1>8 DEF u

\* tlappend joins two lists; disjoint ones stay free of duplicates.
LEMMA JoinProperties ==
    ASSUME NEW S, NEW s \in Seq(S), NEW w \in Seq(S)
    PROVE  /\ s \o w \in Seq(S)
           /\ Range(s \o w) = Range(s) \cup Range(w)
           /\ s # <<>> => s \o w # <<>> /\ Head(s \o w) = Head(s)
           /\ IsInjective(s) /\ IsInjective(w) /\ Range(s) \cap Range(w) = {}
                => IsInjective(s \o w)
<1> DEFINE j == s \o w
<1>1. /\ j \in Seq(S) /\ Len(j) = Len(s) + Len(w)
      /\ \A i \in 1 .. Len(s) + Len(w) : j[i] = IF i <= Len(s) THEN s[i] ELSE w[i - Len(s)]
  BY ConcatProperties
<1>2. Len(s) \in Nat /\ Len(w) \in Nat BY LenProperties
<1>3. DOMAIN s = 1 .. Len(s) /\ DOMAIN w = 1 .. Len(w) /\ DOMAIN j = 1 .. Len(j)
  BY <1>1, LenProperties
<1>4. Range(j) = Range(s) \cup Range(w) BY RangeConcatenation
<1>5. /\ \A y : y \in Range(s) <=> \E i \in 1 .. Len(s) : s[i] = y
      /\ \A y : y \in Range(w) <=> \E i \in 1 .. Len(w) : w[i] = y
  BY RangeByIndex
<1> HIDE DEF j
<1>6. ASSUME s # <<>> PROVE j # <<>> /\ Head(j) = Head(s)
  <2>1. Len(s) # 0 BY <1>6, EmptySeq
  <2>2. j # <<>> BY <1>1, <1>2, <2>1, EmptySeq
  <2>3. Head(j) = j[1] /\ Head(s) = s[1] OBVIOUS
  <2> QED BY <1>1, <1>2, <2>1, <2>2, <2>3
<1>7. ASSUME IsInjective(s), IsInjective(w), Range(s) \cap Range(w) = {}
      PROVE  IsInjective(j)
  <2>1. /\ \A a, b \in 1 .. Len(s) : s[a] = s[b] => a = b
        /\ \A a, b \in 1 .. Len(w) : w[a] = w[b] => a = b
    BY <1>3, <1>7 DEF IsInjective
  <2>2. ASSUME NEW a \in 1 .. Len(j), NEW b \in 1 .. Len(j), j[a] = j[b] PROVE a = b
    <3>1. CASE a <= Len(s) /\ b <= Len(s)
      BY <1>1, <1>2, <2>1, <2>2, <3>1
    <3>2. CASE a > Len(s) /\ b > Len(s)
      <4>1. a - Len(s) \in 1 .. Len(w) /\ b - Len(s) \in 1 .. Len(w)
        BY <1>1, <1>2, <3>2
      <4>2. w[a - Len(s)] = w[b - Len(s)] BY <1>1, <1>2, <2>2, <3>2
      <4>3. a - Len(s) = b - Len(s) BY <2>1, <4>1, <4>2
      <4> QED BY <1>2, <4>3
    <3>3. CASE a <= Len(s) /\ b > Len(s)
      <4>1. a \in 1 .. Len(s) /\ b - Len(s) \in 1 .. Len(w) BY <1>1, <1>2, <3>3
      <4>2. s[a] = w[b - Len(s)] BY <1>1, <1>2, <2>2, <3>3
      <4> QED BY <1>5, <1>7, <4>1, <4>2
    <3>4. CASE a > Len(s) /\ b <= Len(s)
      <4>1. b \in 1 .. Len(s) /\ a - Len(s) \in 1 .. Len(w) BY <1>1, <1>2, <3>4
      <4>2. s[b] = w[a - Len(s)] BY <1>1, <1>2, <2>2, <3>4
      <4> QED BY <1>5, <1>7, <4>1, <4>2
    <3> QED BY <1>1, <1>2, <3>1, <3>2, <3>3, <3>4
  <2> QED BY <1>3, <2>2 DEF IsInjective
<1> QED BY <1>1, <1>4, <1>6, <1>7 DEF j

\* The list tlclear leaves.
LEMMA EmptyProperties == Range(<<>>) = {} /\ IsInjective(<<>>)
BY DEF Range, IsInjective

------------------------------------------------------------------------------
(* The inductive invariant *)

InSuspend == {"insert", "suspend", "switch", "resume"}
OffHart   == {"none", "kern", "idle", "resume"}
IdleLabels == {"idle", "idle_empty", "idle_off", "wfi"}

\* Where threads can be: off the hart only at a label that a context can hold,
\* the idle thread only in its loop or suspended from it.
LabelsOK ==
    /\ \A t \in Tids \ {curthr} : pc[t] \in OffHart
    /\ \A t \in Tids : pc[t] = "none" <=> state[t] = "FREE"
    /\ \A t \in Tids : pc[t] \in IdleLabels \/ ret[t] = "idle" => t = IDLE_TID
    /\ pc[IDLE_TID] \in IdleLabels \cup (InSuspend \ {"insert"})
    /\ pc[IDLE_TID] \in InSuspend => ret[IDLE_TID] = "idle"
    /\ \A t \in Tids : pc[t] \notin InSuspend => ret[t] = "kern"

\* The states of the thread on the hart, of the one suspend_self has chosen,
\* and of no other: the rest are not RUNNING.
HartOK ==
    /\ pc[curthr] \notin InSuspend \/ pc[curthr] = "resume" => state[curthr] = "RUNNING"
    /\ pc[curthr] = "insert" => state[curthr] = "WAITING" /\ waitCond[curthr] \in Conditions
    /\ IF pc[curthr] = "switch"
       THEN /\ nextThr \in Tids \ {curthr}
            /\ state[nextThr] = "RUNNING"
            /\ state[curthr] # "RUNNING"
       ELSE nextThr = NoTid
    /\ \A t \in Tids \ {curthr, nextThr} : state[t] # "RUNNING"
    /\ state[IDLE_TID] \in {"READY", "RUNNING"}
    /\ state[MAIN_TID] \notin {"FREE", "EXITED"}
    /\ pc[curthr] \in {"insert", "suspend"} =>
          readyList # <<>> /\ Head(readyList) # curthr

IsChild(u, t) == u \in Tids \ {MAIN_TID} /\ state[u] # "FREE" /\ parent[u] = t
HasZombie(t) == \E u \in Tids \ {MAIN_TID} : state[u] = "EXITED" /\ parent[u] = t

\* What a thread in thread_join_any, in thread_join or past thread_exit knows.
JoinerOK(t) ==
    /\ ret[t] = "exit" => state[t] = "EXITED"
    /\ ret[t] = "joinany" => IF state[t] = "WAITING"
                             THEN waitCond[t] = t /\ ~HasZombie(t)
                             ELSE HasZombie(t)
    /\ pc[t] = "joinany" => HasZombie(t)
    /\ ret[t] = "join" \/ pc[t] = "join" => IsChild(target[t], t)
    /\ ret[t] = "join" /\ state[t] = "WAITING" =>
          waitCond[t] = t /\ state[target[t]] # "EXITED"
    /\ state[t] = "WAITING" /\ waitCond[t] = t => ret[t] \in {"joinany", "join"}
JoinersOK == \A t \in Tids : JoinerOK(t)

IInv == TypeOK /\ LabelsOK /\ HartOK /\ ListsExact /\ FamilyRooted /\ JoinersOK
             /\ NoKernelAssert

\* The slots and names the invariant talks about.
LEMMA ConstantFacts ==
    /\ MAIN_TID \in Tids /\ IDLE_TID \in Tids /\ MAIN_TID # IDLE_TID
    /\ NoTid \notin Tids
    /\ Tids \subseteq Int
    /\ Tids \subseteq Conditions /\ Conds \subseteq Conditions
    /\ Conds \cap Tids = {} /\ NoCond \notin Conditions
    /\ Conds \subseteq Irqs /\ Tick \in Irqs
BY ThreadsAssumption DEF Tids, MAIN_TID, IDLE_TID, NoTid, Conditions, Irqs

\* A thread but main has a parent, which is not itself and not recycled.
LEMMA ParentsOK ==
    ASSUME IInv, NEW t \in Tids \ {MAIN_TID}, state[t] # "FREE"
    PROVE  parent[t] \in Tids \ {t} /\ state[parent[t]] # "FREE"
<1>1. {t} \in SUBSET (Live \ {MAIN_TID}) BY DEF Live
<1>2. parent[t] \in Live \ {t} BY <1>1 DEF IInv, FamilyRooted
<1> QED BY <1>2 DEF Live

\* The family tree is the parent links of the slots that are taken ...
LEMMA FamilyKept ==
    ASSUME FamilyRooted, parent' = parent,
           \A t \in Tids : state'[t] = "FREE" <=> state[t] = "FREE"
    PROVE  FamilyRooted'
<1>1. Live' = Live BY DEF Live
<1> QED BY <1>1 DEF FamilyRooted

\* ... grows by leaves ...
LEMMA FamilyGrows ==
    ASSUME FamilyRooted, NEW t \in Tids \ {MAIN_TID}, NEW p \in Tids \ {t},
           state[t] = "FREE", state[p] # "FREE",
           \A u \in Tids : /\ state'[u] = "FREE" <=> state[u] = "FREE" /\ u # t
                           /\ parent'[u] = IF u = t THEN p ELSE parent[u]
    PROVE  FamilyRooted'
<1>1. Live' = Live \cup {t} /\ t \notin Live /\ p \in Live BY DEF Live
<1> SUFFICES ASSUME NEW S \in SUBSET (Live' \ {MAIN_TID}), S # {}
             PROVE  \E u \in S : parent'[u] \in Live' \ S
  BY DEF FamilyRooted
<1>2. S \subseteq Tids BY DEF Live
<1>3. CASE t \in S /\ p \notin S BY <1>1, <1>3
<1>4. CASE t \in S /\ p \in S
  <2>1. S \ {t} \in SUBSET (Live \ {MAIN_TID}) /\ S \ {t} # {} BY <1>1, <1>4
  <2>2. PICK u \in S \ {t} : parent[u] \in Live \ (S \ {t}) BY <2>1 DEF FamilyRooted
  <2> QED BY <1>1, <1>2, <2>2
<1>5. CASE t \notin S
  <2>1. S \in SUBSET (Live \ {MAIN_TID}) BY <1>1, <1>5
  <2>2. PICK u \in S : parent[u] \in Live \ S BY <2>1 DEF FamilyRooted
  <2> QED BY <1>1, <1>2, <1>5, <2>2
<1> QED BY <1>3, <1>4, <1>5

\* ... and loses a node to which its parent p succeeds.
LEMMA FamilyShrinks ==
    ASSUME FamilyRooted, NEW z \in Tids \ {MAIN_TID}, NEW p \in Tids \ {z},
           state[p] # "FREE", parent[z] = p,
           \A u \in Tids : /\ state'[u] = IF u = z THEN "FREE" ELSE state[u]
                           /\ parent'[u] = IF u = z THEN NoTid
                                           ELSE IF parent[u] = z THEN p ELSE parent[u]
    PROVE  FamilyRooted'
<1>1. Live' = Live \ {z} /\ p \in Live' BY DEF Live
<1> SUFFICES ASSUME NEW S \in SUBSET (Live' \ {MAIN_TID}), S # {}
             PROVE  \E u \in S : parent'[u] \in Live' \ S
  BY DEF FamilyRooted
<1>2. S \in SUBSET (Live \ {MAIN_TID}) /\ z \notin S /\ S \subseteq Tids
  BY <1>1 DEF Live
<1>3. PICK u \in S : parent[u] \in Live \ S BY <1>2 DEF FamilyRooted
<1>4. CASE parent[u] # z BY <1>1, <1>2, <1>3, <1>4
<1>5. CASE parent[u] = z /\ p \notin S BY <1>1, <1>2, <1>3, <1>5
<1>6. CASE parent[u] = z /\ p \in S
  <2>1. S \cup {z} \in SUBSET (Live \ {MAIN_TID}) BY <1>2, <1>3, <1>6
  <2>2. PICK v \in S \cup {z} : parent[v] \in Live \ (S \cup {z})
    BY <2>1 DEF FamilyRooted
  <2>3. v \in S /\ parent[v] # z BY <1>6, <2>2
  <2> QED BY <1>1, <1>2, <2>2, <2>3
<1> QED BY <1>4, <1>5, <1>6

LEMMA InitIInv == Init => IInv
<1> SUFFICES ASSUME Init PROVE IInv OBVIOUS
<1> USE ConstantFacts DEF Init
<1>1. TypeOK
  <2>1. readyList \in Seq(Tids) OBVIOUS
  <2>2. waitList \in [Conditions -> Seq(Tids)] BY EmptySeq
  <2>3. freePages \in Nat BY ThreadsAssumption
  <2> QED BY <2>1, <2>2, <2>3 DEF TypeOK, States, Labels, Returns
<1>2. LabelsOK
  BY DEF LabelsOK, InSuspend, OffHart, IdleLabels
<1>3. HartOK
  BY DEF HartOK, InSuspend
<1>4. ListsExact
  BY EmptyProperties DEF ListsExact, Range, IsInjective
<1>5. FamilyRooted
  BY DEF FamilyRooted, Live
<1>6. JoinersOK
  BY DEF JoinersOK, JoinerOK
<1>7. NoKernelAssert
  BY DEF NoKernelAssert
<1> QED BY <1>1, <1>2, <1>3, <1>4, <1>5, <1>6, <1>7 DEF IInv

\* A panic for a reason that is not a failed check keeps the invariant.
LEMMA PanicIInv ==
    ASSUME IInv, NEW why \in Panics, why \notin {"assert", "spurious", "exit_failed"},
           Panic(why)
    PROVE  IInv'
BY DEF IInv, Panic, TypeOK, LabelsOK, HartOK, ListsExact, FamilyRooted, Live, JoinersOK,
       JoinerOK, NoKernelAssert, thrVars, ctxVars, listVars, HasZombie, IsChild

------------------------------------------------------------------------------
(* Consequences of the invariant the steps share *)

\* The idle thread is ready whenever another one is about to suspend itself.
LEMMA IdleIsReady ==
    ASSUME IInv, curthr # IDLE_TID, pc[curthr] # "switch"
    PROVE  IDLE_TID \in Range(readyList) /\ readyList # <<>>
<1>1. state[IDLE_TID] = "READY"
  BY ConstantFacts DEF IInv, HartOK, TypeOK
<1> QED BY <1>1, ConstantFacts, EmptyProperties DEF IInv, ListsExact

\* A running thread is on no list, a waiting one only where it waits.
LEMMA RunningIsUnlisted ==
    ASSUME IInv, NEW t \in Tids, state[t] = "RUNNING"
    PROVE  t \notin Range(readyList) /\ \A c \in Conditions : t \notin Woken(c)
BY DEF IInv, ListsExact, Woken

LEMMA HeadIsReady ==
    ASSUME IInv, readyList # <<>>
    PROVE  Head(readyList) \in Tids /\ state[Head(readyList)] = "READY"
BY RemoveProperties DEF IInv, ListsExact, TypeOK

\* The assertions of condition_broadcast hold, also when the caller of
\* thread_exit has marked itself EXITED before.
LEMMA Broadcastable ==
    ASSUME IInv, NEW c \in Conditions
    PROVE  /\ BroadcastOk(state, c)
           /\ state[curthr] = "RUNNING" =>
                 BroadcastOk([state EXCEPT ![curthr] = "EXITED"], c)
<1>1. \A t \in Woken(c) : t \in Tids /\ state[t] = "WAITING" /\ waitCond[t] = c
  BY RangeByIndex DEF IInv, ListsExact, Woken, TypeOK
<1> QED BY <1>1 DEF BroadcastOk, IInv, TypeOK

\* The thread on the hart at a label of its own is RUNNING and on no list.
LEMMA OnHart ==
    ASSUME IInv, pc[curthr] \notin InSuspend
    PROVE  /\ curthr \in Tids
           /\ state[curthr] = "RUNNING"
           /\ ret[curthr] = "kern"
           /\ nextThr = NoTid
           /\ pc[curthr] \notin IdleLabels => curthr # IDLE_TID
           /\ curthr \notin Range(readyList)
           /\ \A c \in Conditions : curthr \notin Woken(c)
<1>1. curthr \in Tids BY DEF IInv, TypeOK
<1>2. state[curthr] = "RUNNING" /\ nextThr = NoTid
  BY DEF IInv, HartOK, InSuspend
<1>3. pc[curthr] \notin IdleLabels => curthr # IDLE_TID
  BY ConstantFacts DEF IInv, LabelsOK, InSuspend, IdleLabels
<1>4. ret[curthr] = "kern" BY <1>1 DEF IInv, LabelsOK
<1> QED BY <1>1, <1>2, <1>3, <1>4, RunningIsUnlisted

------------------------------------------------------------------------------
(* Steps that move the thread on the hart and leave states and lists alone *)

\* A step of the thread on the hart from one label of its own to another.
LEMMA StayIInv ==
    ASSUME IInv, pc[curthr] \notin InSuspend,
           NEW label \in {"kern", "user"} \cup IdleLabels,
           label \in IdleLabels <=> curthr = IDLE_TID,
           Goto(label),
           sie' \in BOOLEAN, users' \in SUBSET Tids,
           UNCHANGED <<parent, proc, stacks, freePages, ctxVars, listVars, curthr,
                       space, pending, status>>
    PROVE  IInv'
<1>1. /\ curthr \in Tids /\ state[curthr] = "RUNNING" /\ nextThr = NoTid
      /\ ret[curthr] = "kern"
  BY OnHart
<1>2. pc' = [pc EXCEPT ![curthr] = label] BY DEF Goto
<1> USE ConstantFacts DEF ctxVars, listVars, IInv
<1>3. TypeOK' BY <1>1, <1>2 DEF TypeOK, Labels, IdleLabels
<1>4. LabelsOK' BY <1>1, <1>2 DEF LabelsOK, InSuspend, OffHart, IdleLabels, TypeOK
<1>5. HartOK' BY <1>1, <1>2 DEF HartOK, InSuspend, IdleLabels, TypeOK
<1>6. ListsExact' BY <1>1, <1>2 DEF ListsExact, TypeOK, InSuspend, IdleLabels
<1>7. FamilyRooted' BY FamilyKept
<1>8. JoinersOK' BY <1>1, <1>2 DEF JoinersOK, JoinerOK, TypeOK, HasZombie, IsChild, IdleLabels
<1>9. NoKernelAssert' BY DEF NoKernelAssert
<1> QED BY <1>3, <1>4, <1>5, <1>6, <1>7, <1>8, <1>9

LEMMA ToggleIntrIInv == IInv /\ ToggleIntr => IInv'
<1> SUFFICES ASSUME IInv, ToggleIntr PROVE IInv' OBVIOUS
<1>1. pc[curthr] = "kern" /\ Goto("kern")
  BY DEF ToggleIntr, At, Goto, IInv, TypeOK
<1>2. curthr # IDLE_TID BY <1>1, OnHart DEF InSuspend, IdleLabels
<1>3. sie' \in BOOLEAN /\ users' \in SUBSET Tids
  BY DEF ToggleIntr, IInv, TypeOK, thrVars
<1> QED BY <1>1, <1>2, <1>3, StayIInv DEF ToggleIntr, thrVars, InSuspend, IdleLabels

LEMMA ToUserIInv == IInv /\ ToUser => IInv'
<1> SUFFICES ASSUME IInv, ToUser PROVE IInv' OBVIOUS
<1>1. pc[curthr] = "kern" BY DEF ToUser, At
<1>2. curthr \in Tids /\ curthr # IDLE_TID
  BY <1>1, OnHart DEF InSuspend, IdleLabels
<1>3. sie' \in BOOLEAN /\ users' \in SUBSET Tids
  BY <1>2 DEF ToUser, IInv, TypeOK
<1> QED BY <1>1, <1>2, <1>3, StayIInv DEF ToUser, listVars, InSuspend, IdleLabels

LEMMA SyscallIInv == IInv /\ Syscall => IInv'
<1> SUFFICES ASSUME IInv, Syscall PROVE IInv' OBVIOUS
<1>1. pc[curthr] = "user" BY DEF Syscall, At
<1>2. curthr # IDLE_TID BY <1>1, OnHart DEF InSuspend, IdleLabels
<1>3. sie' \in BOOLEAN /\ users' \in SUBSET Tids
  BY DEF Syscall, IInv, TypeOK, thrVars
<1> QED BY <1>1, <1>2, <1>3, StayIInv DEF Syscall, thrVars, InSuspend, IdleLabels

LEMMA RaiseIrqIInv == \A i \in Irqs : IInv /\ RaiseIrq(i) => IInv'
<1> SUFFICES ASSUME NEW i \in Irqs, IInv, RaiseIrq(i) PROVE IInv' OBVIOUS
<1>1. /\ pending' = pending \cup {i}
      /\ UNCHANGED <<thrVars, ctxVars, listVars, curthr, pc, sie, space, status>>
  BY DEF RaiseIrq
<1> USE <1>1 DEF IInv, thrVars, ctxVars, listVars
<1>2. TypeOK' BY DEF TypeOK
<1>3. LabelsOK' /\ HartOK' /\ ListsExact' BY DEF LabelsOK, HartOK, ListsExact
<1>4. FamilyRooted' BY FamilyKept
<1>5. JoinersOK' BY DEF JoinersOK, JoinerOK, HasZombie, IsChild
<1>6. NoKernelAssert' BY DEF NoKernelAssert
<1> QED BY <1>2, <1>3, <1>4, <1>5, <1>6

\* The steps of the idle loop that do not leave it.
LEMMA IdleStaysIInv == IInv /\ (IdleEmpty \/ IdleDisable \/ IdleCheck \/ Wfi) => IInv'
<1> SUFFICES ASSUME IInv, IdleEmpty \/ IdleDisable \/ IdleCheck \/ Wfi PROVE IInv' OBVIOUS
<1>1. pc[curthr] \in IdleLabels
  BY DEF IdleEmpty, IdleDisable, IdleCheck, Wfi, At, IdleLabels
<1>2. curthr = IDLE_TID BY <1>1 DEF IInv, LabelsOK, TypeOK
<1>3. sie' \in BOOLEAN /\ users' \in SUBSET Tids
  BY DEF IdleEmpty, IdleDisable, IdleCheck, Wfi, IInv, TypeOK, thrVars
<1>4. \E label \in IdleLabels : Goto(label)
  BY DEF IdleEmpty, IdleDisable, IdleCheck, Wfi, IdleLabels
<1>5. UNCHANGED <<parent, proc, stacks, freePages, ctxVars, listVars, curthr,
                  space, pending, status>>
  BY DEF IdleEmpty, IdleDisable, IdleCheck, Wfi, thrVars
<1> QED BY <1>1, <1>2, <1>3, <1>4, <1>5, StayIInv DEF InSuspend, IdleLabels

\* The thread on the hart turns to suspend_self of its own accord.
LEMMA GiveUpIInv ==
    ASSUME IInv, pc[curthr] \in {"kern", "idle"}, Goto("suspend"),
           readyList # <<>>,
           ret' = [ret EXCEPT ![curthr] = IF curthr = IDLE_TID THEN "idle" ELSE "kern"],
           UNCHANGED <<thrVars, saved, target, nextThr, listVars, curthr, sie, space,
                       pending, status>>
    PROVE  IInv'
<1>1. /\ curthr \in Tids /\ state[curthr] = "RUNNING" /\ nextThr = NoTid
      /\ ret[curthr] = "kern" /\ curthr \notin Range(readyList)
  BY OnHart DEF InSuspend
<1>2. pc' = [pc EXCEPT ![curthr] = "suspend"] BY DEF Goto
<1>3. Head(readyList) # curthr
  <2>1. Head(readyList) \in Range(readyList) BY RemoveProperties DEF IInv, TypeOK
  <2> QED BY <1>1, <2>1
<1> USE ConstantFacts DEF thrVars, listVars, IInv
<1>4. TypeOK' BY <1>1, <1>2 DEF TypeOK, Labels, Returns
<1>5. LabelsOK' BY <1>1, <1>2 DEF LabelsOK, InSuspend, OffHart, IdleLabels, TypeOK
<1>6. HartOK' BY <1>1, <1>2, <1>3 DEF HartOK, InSuspend, TypeOK
<1>7. ListsExact' BY <1>1, <1>2 DEF ListsExact, TypeOK
<1>8. FamilyRooted' BY FamilyKept
<1>9. JoinersOK' BY <1>1, <1>2 DEF JoinersOK, JoinerOK, TypeOK, HasZombie, IsChild
<1>10. NoKernelAssert' BY DEF NoKernelAssert
<1> QED BY <1>4, <1>5, <1>6, <1>7, <1>8, <1>9, <1>10

LEMMA YieldIInv == IInv /\ (Yield \/ IdleYield) => IInv'
<1> SUFFICES ASSUME IInv, Yield \/ IdleYield PROVE IInv' OBVIOUS
<1>1. pc[curthr] \in {"kern", "idle"} BY DEF Yield, IdleYield, At
<1>2. /\ curthr \in Tids /\ state[curthr] = "RUNNING" /\ ret[curthr] = "kern"
      /\ pc[curthr] = "kern" => curthr # IDLE_TID
  BY <1>1, OnHart DEF InSuspend, IdleLabels
<1>3. pc[curthr] = "idle" => curthr = IDLE_TID
  BY <1>2 DEF IInv, LabelsOK, IdleLabels
<1>4. readyList # <<>>
  BY <1>1, <1>2, <1>3, IdleIsReady DEF Yield, IdleYield, At
<1>5. Goto("suspend")
  BY <1>2 DEF Yield, IdleYield
<1>6. ret' = [ret EXCEPT ![curthr] = IF curthr = IDLE_TID THEN "idle" ELSE "kern"]
  BY <1>2, <1>3 DEF Yield, IdleYield, At, ctxVars, IInv, TypeOK
<1>7. UNCHANGED <<thrVars, saved, target, nextThr, listVars, curthr, sie, space,
                  pending, status>>
  BY <1>2 DEF Yield, IdleYield, ctxVars
<1> QED BY <1>1, <1>4, <1>5, <1>6, <1>7, GiveUpIInv

LEMMA SwitchIInv == IInv /\ Switch => IInv'
<1> SUFFICES ASSUME IInv, Switch PROVE IInv' OBVIOUS
<1>1. pc[curthr] = "switch" /\ curthr \in Tids BY DEF Switch, At, IInv, TypeOK
<1>2. /\ nextThr \in Tids /\ nextThr # curthr
      /\ state[nextThr] = "RUNNING" /\ state[curthr] # "RUNNING"
  BY <1>1 DEF IInv, HartOK
<1>3. pc[nextThr] \in {"kern", "idle", "resume"}
  BY <1>2 DEF IInv, LabelsOK, OffHart
<1>4. /\ pc' = [pc EXCEPT ![curthr] = "resume"] /\ curthr' = nextThr /\ nextThr' = NoTid
      /\ space' \in Tids
      /\ UNCHANGED <<listVars, thrVars, saved, ret, target, sie, pending, status>>
  BY <1>1, <1>2 DEF Switch, Goto, SpaceFor, IInv, TypeOK
<1> USE ConstantFacts DEF thrVars, listVars, IInv
<1>5. TypeOK' BY <1>1, <1>2, <1>4 DEF TypeOK, Labels
<1>6. LabelsOK'
  BY <1>1, <1>2, <1>3, <1>4 DEF LabelsOK, InSuspend, OffHart, IdleLabels, TypeOK
<1>7. HartOK' BY <1>1, <1>2, <1>3, <1>4 DEF HartOK, InSuspend, TypeOK
<1>8. ListsExact' BY SMTT(30), <1>1, <1>4 DEF ListsExact, TypeOK
<1>9. FamilyRooted' BY <1>4, FamilyKept
<1>10. JoinersOK' BY SMTT(30), <1>1, <1>4 DEF JoinersOK, JoinerOK, TypeOK, HasZombie, IsChild
<1>11. NoKernelAssert' BY <1>4 DEF NoKernelAssert
<1> QED BY <1>5, <1>6, <1>7, <1>8, <1>9, <1>10, <1>11

LEMMA ResumeIInv == IInv /\ Resume => IInv'
<1> SUFFICES ASSUME IInv, Resume PROVE IInv' OBVIOUS
<1>1. pc[curthr] = "resume" /\ curthr \in Tids BY DEF Resume, At, IInv, TypeOK
<1>2. state[curthr] = "RUNNING" BY <1>1 DEF IInv, HartOK
<1>3. ret[curthr] \in Returns \ {"exit"}
  BY <1>1, <1>2 DEF IInv, JoinersOK, JoinerOK, TypeOK
<1>4. nextThr = NoTid BY <1>1 DEF IInv, HartOK
<1>5. /\ pc' = [pc EXCEPT ![curthr] = ret[curthr]]
      /\ ret' = [ret EXCEPT ![curthr] = "kern"]
      /\ saved' = [saved EXCEPT ![curthr] = FALSE]
      /\ sie' = saved[curthr]
      /\ UNCHANGED <<stacks, freePages, listVars, parent, proc, users, target, nextThr,
                     curthr, space, pending, status>>
  BY <1>2, <1>3 DEF Resume, SwtchReturn, Goto
<1>6. ret[curthr] = "idle" <=> curthr = IDLE_TID
  BY <1>1 DEF IInv, LabelsOK, InSuspend
<1> USE ConstantFacts DEF listVars, IInv
<1>7. TypeOK' BY <1>1, <1>3, <1>5 DEF TypeOK, Labels, Returns
<1>8. LabelsOK'
  BY SMTT(30), <1>1, <1>2, <1>3, <1>5, <1>6
     DEF LabelsOK, InSuspend, OffHart, IdleLabels, Returns, TypeOK
<1>9. HartOK' BY <1>1, <1>2, <1>3, <1>4, <1>5 DEF HartOK, InSuspend, TypeOK, Returns
<1>10. ListsExact' BY SMTT(30), <1>1, <1>3, <1>5 DEF ListsExact, TypeOK, Returns
<1>11. FamilyRooted' BY <1>5, FamilyKept
<1>12. JoinersOK'
  BY SMTT(30), <1>1, <1>2, <1>3, <1>5 DEF JoinersOK, JoinerOK, TypeOK, HasZombie, IsChild, Returns
<1>13. NoKernelAssert' BY <1>5 DEF NoKernelAssert
<1> QED BY <1>7, <1>8, <1>9, <1>10, <1>11, <1>12, <1>13

------------------------------------------------------------------------------
(* condition_wait *)

\* The first half of condition_wait, called directly or by a join.
LEMMA MarkIInv ==
    ASSUME IInv, pc[curthr] \in {"kern", "join"},
           NEW c \in Conditions, NEW then \in {"kern", "joinany", "join"},
           NEW child \in Tids \cup {NoTid},
           MarkWaiting(c), Goto("insert"),
           ret' = [ret EXCEPT ![curthr] = then],
           target' = [target EXCEPT ![curthr] = child],
           c = curthr <=> then # "kern",
           then = "joinany" => ~HasZombie(curthr),
           then = "join" => IsChild(child, curthr) /\ state[child] # "EXITED",
           UNCHANGED <<thrVars, saved, nextThr, curthr, sie, space, pending, status>>
    PROVE  IInv'
<1>1. /\ curthr \in Tids /\ state[curthr] = "RUNNING" /\ nextThr = NoTid
      /\ ret[curthr] = "kern" /\ curthr # IDLE_TID /\ curthr \notin Range(readyList)
      /\ \A d \in Conditions : curthr \notin Range(waitList[d])
  BY OnHart DEF InSuspend, IdleLabels, Woken
<1>2. /\ state' = [state EXCEPT ![curthr] = "WAITING"]
      /\ waitCond' = [waitCond EXCEPT ![curthr] = c]
      /\ pc' = [pc EXCEPT ![curthr] = "insert"]
      /\ UNCHANGED <<readyList, waitList>>
  BY DEF MarkWaiting, Goto
<1>3. readyList # <<>> /\ Head(readyList) # curthr
  <2>1. readyList # <<>> BY <1>1, IdleIsReady
  <2>2. Head(readyList) \in Range(readyList) BY <2>1, RemoveProperties DEF IInv, TypeOK
  <2> QED BY <1>1, <2>1, <2>2
<1> USE ConstantFacts DEF thrVars, IInv
<1>5. TypeOK' BY <1>1, <1>2 DEF TypeOK, Labels, Returns, States
<1>6. LabelsOK' BY <1>1, <1>2 DEF LabelsOK, InSuspend, OffHart, IdleLabels, TypeOK
<1>7. HartOK' BY <1>1, <1>2, <1>3 DEF HartOK, InSuspend, TypeOK
<1>8. ListsExact' BY SMTT(30), <1>1, <1>2 DEF ListsExact, TypeOK
<1>9. FamilyRooted'
  <2>1. \A t \in Tids : state'[t] = "FREE" <=> state[t] = "FREE"
    BY <1>1, <1>2 DEF TypeOK
  <2> QED BY <2>1, FamilyKept
<1>10. JoinersOK'
  <2> SUFFICES ASSUME NEW t \in Tids PROVE JoinerOK(t)' BY DEF JoinersOK
  <2>1. JoinerOK(t) BY DEF JoinersOK
  <2>2. \A u \in Tids :
             /\ state'[u] = "EXITED" <=> state[u] = "EXITED"
             /\ state'[u] = "FREE" <=> state[u] = "FREE"
    BY <1>1, <1>2 DEF TypeOK
  <2>3. parent' = parent OBVIOUS
  <2>4. /\ HasZombie(t)' <=> HasZombie(t)
        /\ \A u : IsChild(u, t)' <=> IsChild(u, t)
    BY <2>2, <2>3 DEF HasZombie, IsChild
  <2>5. CASE t = curthr
    BY <1>1, <1>2, <2>2, <2>4, <2>5 DEF JoinerOK, TypeOK, IsChild
  <2>6. CASE t # curthr
    BY SMTT(30), <1>1, <1>2, <2>1, <2>2, <2>4, <2>6 DEF JoinerOK, TypeOK, IsChild
  <2> QED BY <2>5, <2>6
<1>11. NoKernelAssert' BY DEF NoKernelAssert
<1> QED BY <1>5, <1>6, <1>7, <1>8, <1>9, <1>10, <1>11

LEMMA CondWaitIInv == \A c \in Conds : IInv /\ CondWait(c) => IInv'
<1> SUFFICES ASSUME NEW c \in Conds, IInv, CondWait(c) PROVE IInv' OBVIOUS
<1>1. pc[curthr] = "kern" BY DEF CondWait, At
<1>2. curthr \in Tids /\ state[curthr] = "RUNNING" /\ ret[curthr] = "kern"
  BY <1>1, OnHart DEF InSuspend
<1>3. /\ MarkWaiting(c) /\ Goto("insert")
      /\ UNCHANGED <<thrVars, ctxVars, curthr, sie, space, pending, status>>
  BY <1>2 DEF CondWait
<1>4. /\ ret' = [ret EXCEPT ![curthr] = "kern"]
      /\ target' = [target EXCEPT ![curthr] = target[curthr]]
      /\ target[curthr] \in Tids \cup {NoTid}
  BY <1>2, <1>3 DEF ctxVars, IInv, TypeOK
<1>5. c \in Conditions /\ c # curthr BY <1>2, ConstantFacts
<1> QED BY <1>1, <1>3, <1>4, <1>5, MarkIInv DEF ctxVars

LEMMA CondInsertIInv == IInv /\ CondInsert => IInv'
<1> SUFFICES ASSUME IInv, CondInsert PROVE IInv' OBVIOUS
<1>1. pc[curthr] = "insert" /\ curthr \in Tids BY DEF CondInsert, At, IInv, TypeOK
<1>2. /\ state[curthr] = "WAITING" /\ waitCond[curthr] \in Conditions
      /\ readyList # <<>> /\ Head(readyList) # curthr /\ nextThr = NoTid
  BY <1>1 DEF IInv, HartOK
<1> DEFINE c == waitCond[curthr]
<1>3. /\ waitList' = [waitList EXCEPT ![c] = Append(waitList[c], curthr)]
      /\ pc' = [pc EXCEPT ![curthr] = "suspend"]
      /\ UNCHANGED <<state, waitCond, readyList, thrVars, ctxVars, curthr, sie,
                     space, pending, status>>
  BY DEF CondInsert, Goto
<1>4. waitList \in [Conditions -> Seq(Tids)] /\ waitList[c] \in Seq(Tids)
  BY <1>2 DEF IInv, TypeOK
<1>5. curthr \notin Range(waitList[c]) BY <1>1, <1>2 DEF IInv, ListsExact
<1>6. /\ Append(waitList[c], curthr) \in Seq(Tids)
      /\ Range(Append(waitList[c], curthr)) = Range(waitList[c]) \cup {curthr}
      /\ IsInjective(Append(waitList[c], curthr))
  BY <1>1, <1>2, <1>4, <1>5, InsertProperties DEF IInv, ListsExact
<1>7. \A d \in Conditions :
          waitList'[d] = IF d = c THEN Append(waitList[c], curthr) ELSE waitList[d]
  BY <1>3, <1>4
<1> USE ConstantFacts DEF thrVars, ctxVars, IInv
<1>8. TypeOK'
  <2>1. waitList' \in [Conditions -> Seq(Tids)] BY <1>3, <1>4, <1>6
  <2> QED BY <1>1, <1>3, <2>1 DEF TypeOK, Labels
<1>9. LabelsOK' BY <1>1, <1>3 DEF LabelsOK, InSuspend, OffHart, IdleLabels, TypeOK
<1>10. HartOK' BY <1>1, <1>2, <1>3 DEF HartOK, InSuspend, TypeOK
<1>11. ListsExact'
  <2>1. \A d \in Conditions : IsInjective(waitList'[d])
    BY <1>6, <1>7 DEF ListsExact
  <2>2. \A t \in Tids, d \in Conditions :
          t \in Range(waitList'[d]) <=>
              state[t] = "WAITING" /\ waitCond[t] = d /\ pc'[t] # "insert"
    <3> SUFFICES ASSUME NEW t \in Tids, NEW d \in Conditions
                 PROVE  t \in Range(waitList'[d]) <=>
                           state[t] = "WAITING" /\ waitCond[t] = d /\ pc'[t] # "insert"
      OBVIOUS
    <3>1. pc'[t] = IF t = curthr THEN "suspend" ELSE pc[t]
      BY <1>1, <1>3 DEF TypeOK
    <3>2. t \in Range(waitList'[d]) <=> t \in Range(waitList[d]) \/ (d = c /\ t = curthr)
      BY <1>6, <1>7
    <3>3. t \in Range(waitList[d]) <=>
             state[t] = "WAITING" /\ waitCond[t] = d /\ pc[t] # "insert"
      BY DEF ListsExact
    <3> QED BY <1>1, <1>2, <3>1, <3>2, <3>3
  <2> QED BY <1>3, <2>1, <2>2 DEF ListsExact
<1>12. FamilyRooted' BY <1>3, FamilyKept
<1>13. JoinersOK' BY <1>1, <1>3 DEF JoinersOK, JoinerOK, TypeOK, HasZombie, IsChild
<1>14. NoKernelAssert' BY <1>3 DEF NoKernelAssert
<1> QED BY <1>8, <1>9, <1>10, <1>11, <1>12, <1>13, <1>14

------------------------------------------------------------------------------
(* condition_broadcast, by kernel code, a handler or an exiting thread *)

\* What a broadcast does to states and lists; st is the state of the threads
\* when it is called, which an exiting caller has changed already.
LEMMA BroadcastProperties ==
    ASSUME IInv, NEW c \in Conditions, NEW st \in [Tids -> States],
           \A t \in Tids : st[t] # state[t] =>
               t = curthr /\ state[t] = "RUNNING" /\ st[t] = "EXITED",
           Broadcast(st, c),
           \A t \in Tids : pc'[t] = "insert" <=> pc[t] = "insert"
    PROVE  /\ state' \in [Tids -> States]
           /\ waitCond' \in [Tids -> Conditions \cup {NoCond}]
           /\ readyList' \in Seq(Tids)
           /\ waitList' \in [Conditions -> Seq(Tids)]
           /\ \A t \in Tids : /\ state'[t] = IF t \in Woken(c) THEN "READY" ELSE st[t]
                              /\ t \notin Woken(c) => waitCond'[t] = waitCond[t]
                              /\ t \in Woken(c) <=> /\ state[t] = "WAITING"
                                                    /\ waitCond[t] = c
                                                    /\ pc[t] # "insert"
           /\ readyList # <<>> => readyList' # <<>> /\ Head(readyList') = Head(readyList)
           /\ ListsExact'
<1>1. /\ readyList \in Seq(Tids) /\ waitList \in [Conditions -> Seq(Tids)]
      /\ waitList[c] \in Seq(Tids)
      /\ IsInjective(readyList) /\ IsInjective(waitList[c])
  BY DEF IInv, TypeOK, ListsExact
<1>2. \A t \in Tids : t \in Woken(c) <=> /\ state[t] = "WAITING" /\ waitCond[t] = c
                                         /\ pc[t] # "insert"
  BY DEF IInv, ListsExact, Woken
<1>3. Range(readyList) \cap Range(waitList[c]) = {}
  BY <1>1, RangeByIndex DEF IInv, ListsExact
<1>4. /\ readyList' \in Seq(Tids)
      /\ Range(readyList') = Range(readyList) \cup Woken(c)
      /\ readyList # <<>> => readyList' # <<>> /\ Head(readyList') = Head(readyList)
      /\ IsInjective(readyList')
  BY <1>1, <1>3, JoinProperties DEF Broadcast, ReadyAfter, Woken
<1>5. \A d \in Conditions : waitList'[d] = IF d = c THEN <<>> ELSE waitList[d]
  BY <1>1 DEF Broadcast
<1>6. \A t \in Tids : /\ state'[t] = IF t \in Woken(c) THEN "READY" ELSE st[t]
                      /\ waitCond'[t] = IF t \in Woken(c) THEN NoCond ELSE waitCond[t]
  BY DEF Broadcast
<1>7. waitList' \in [Conditions -> Seq(Tids)]
  BY <1>1, EmptySeq DEF Broadcast
<1>8. /\ state' \in [Tids -> States]
      /\ waitCond' \in [Tids -> Conditions \cup {NoCond}]
  BY DEF Broadcast, IInv, TypeOK, States
<1>9. ListsExact'
  <2>1. \A d \in Conditions : IsInjective(waitList'[d])
    BY <1>5, EmptyProperties DEF IInv, ListsExact
  <2>2. \A t \in Tids : t \in Range(readyList') <=> state'[t] = "READY"
    BY <1>2, <1>4, <1>6 DEF IInv, ListsExact
  <2>3. ASSUME NEW t \in Tids, NEW d \in Conditions
        PROVE  t \in Range(waitList'[d]) <=>
                  state'[t] = "WAITING" /\ waitCond'[t] = d /\ pc'[t] # "insert"
    <3>1. t \in Range(waitList[d]) <=>
             state[t] = "WAITING" /\ waitCond[t] = d /\ pc[t] # "insert"
      BY DEF IInv, ListsExact
    <3>2. d = c => t \notin Range(waitList'[d]) BY <1>5, EmptyProperties
    <3>3. d # c => waitList'[d] = waitList[d] BY <1>5
    <3>4. st[t] = "WAITING" <=> state[t] = "WAITING" OBVIOUS
    <3> QED BY <1>2, <1>6, <3>1, <3>2, <3>3, <3>4
  <2> QED BY <1>4, <2>1, <2>2, <2>3 DEF ListsExact
<1> QED BY <1>2, <1>4, <1>6, <1>7, <1>8, <1>9

\* A broadcast of a driver's condition, by kernel code or by the handler of an
\* interrupt that did not come from user mode, wakes no joining thread.
LEMMA DriverBroadcastIInv ==
    ASSUME IInv, NEW c \in Conds, Broadcast(state, c), pending' \in SUBSET Irqs,
           UNCHANGED <<thrVars, ctxVars, curthr, pc, sie, space, status>>
    PROVE  IInv'
<1> USE ConstantFacts
<1>1. state \in [Tids -> States] BY DEF IInv, TypeOK
<1>2. /\ state' \in [Tids -> States]
      /\ waitCond' \in [Tids -> Conditions \cup {NoCond}]
      /\ readyList' \in Seq(Tids)
      /\ waitList' \in [Conditions -> Seq(Tids)]
      /\ \A t \in Tids : /\ state'[t] = IF t \in Woken(c) THEN "READY" ELSE state[t]
                         /\ t \notin Woken(c) => waitCond'[t] = waitCond[t]
                         /\ t \in Woken(c) <=> /\ state[t] = "WAITING"
                                               /\ waitCond[t] = c
                                               /\ pc[t] # "insert"
      /\ readyList # <<>> => readyList' # <<>> /\ Head(readyList') = Head(readyList)
      /\ ListsExact'
  BY <1>1, BroadcastProperties
<1>3. \A t \in Tids : t \in Woken(c) => ret[t] \notin {"joinany", "join"}
  BY SMTT(30), <1>2 DEF IInv, JoinersOK, JoinerOK
<1> USE DEF thrVars, ctxVars, IInv
<1>4. TypeOK' BY <1>2 DEF TypeOK
<1>5. LabelsOK' BY <1>2 DEF LabelsOK, TypeOK
<1>6. HartOK' BY <1>2 DEF HartOK, TypeOK
<1>7. FamilyRooted' BY <1>2, FamilyKept
<1>8. JoinersOK'
  <2> SUFFICES ASSUME NEW t \in Tids PROVE JoinerOK(t)' BY DEF JoinersOK
  <2>1. JoinerOK(t) BY DEF JoinersOK
  <2>2. \A u \in Tids :
             /\ state'[u] = "EXITED" <=> state[u] = "EXITED"
             /\ state'[u] = "FREE" <=> state[u] = "FREE"
    BY <1>2
  <2>3. parent' = parent OBVIOUS
  <2>4. /\ HasZombie(t)' <=> HasZombie(t)
        /\ \A u : IsChild(u, t)' <=> IsChild(u, t)
    BY <2>2, <2>3 DEF HasZombie, IsChild
  <2> QED BY <1>2, <1>3, <2>1, <2>2, <2>4 DEF JoinerOK, IsChild
<1>9. NoKernelAssert' BY DEF NoKernelAssert
<1> QED BY <1>2, <1>4, <1>5, <1>6, <1>7, <1>8, <1>9

LEMMA CondBroadcastIInv == \A c \in Conds : IInv /\ CondBroadcast(c) => IInv'
<1> SUFFICES ASSUME NEW c \in Conds, IInv, CondBroadcast(c) PROVE IInv' OBVIOUS
<1>1. BroadcastOk(state, c) BY ConstantFacts, Broadcastable
<1>2. pending' \in SUBSET Irqs BY <1>1 DEF CondBroadcast, IInv, TypeOK
<1> QED BY <1>1, <1>2, DriverBroadcastIInv DEF CondBroadcast

\* The same for a handler that runs while user code executes, followed by the
\* yield of the interrupted thread.
LEMMA PreemptIInv ==
    ASSUME IInv, pc[curthr] = "user", NEW i \in Irqs,
           IF i \in Conds THEN Broadcast(state, i) ELSE UNCHANGED listVars,
           pending' \in SUBSET Irqs,
           pc' = [pc EXCEPT ![curthr] = "suspend"],
           ret' = [ret EXCEPT ![curthr] = "user"],
           UNCHANGED <<thrVars, saved, target, nextThr, curthr, sie, space, status>>
    PROVE  IInv'
<1> DEFINE W == IF i \in Conds THEN Woken(i) ELSE {}
<1>1. /\ curthr \in Tids /\ state[curthr] = "RUNNING" /\ nextThr = NoTid
      /\ ret[curthr] = "kern" /\ curthr # IDLE_TID /\ curthr \notin Range(readyList)
      /\ \A d \in Conditions : curthr \notin Woken(d)
  BY OnHart DEF InSuspend, IdleLabels
<1>2. readyList # <<>> /\ Head(readyList) # curthr
  <2>1. readyList # <<>> BY <1>1, IdleIsReady
  <2>2. Head(readyList) \in Range(readyList) BY <2>1, RemoveProperties DEF IInv, TypeOK
  <2> QED BY <1>1, <2>1, <2>2
<1>3. \A t \in Tids : pc'[t] = "insert" <=> pc[t] = "insert"
  BY <1>1 DEF IInv, TypeOK
<1>4. /\ state' \in [Tids -> States]
      /\ waitCond' \in [Tids -> Conditions \cup {NoCond}]
      /\ readyList' \in Seq(Tids)
      /\ waitList' \in [Conditions -> Seq(Tids)]
      /\ \A t \in Tids : /\ state'[t] = IF t \in W THEN "READY" ELSE state[t]
                         /\ t \notin W => waitCond'[t] = waitCond[t]
                         /\ t \in W => state[t] = "WAITING" /\ waitCond[t] \in Conds
      /\ readyList' # <<>> /\ Head(readyList') = Head(readyList)
      /\ ListsExact'
  <2>1. CASE i \in Conds
    <3>1. /\ i \in Conditions /\ state \in [Tids -> States] /\ Broadcast(state, i)
      BY <2>1, ConstantFacts DEF IInv, TypeOK
    <3>2. W = Woken(i) BY <2>1
    <3> HIDE DEF W
    <3> QED BY <1>2, <1>3, <2>1, <3>1, <3>2, BroadcastProperties
  <2>2. CASE i \notin Conds
    BY <1>2, <1>3, <2>2 DEF IInv, TypeOK, ListsExact, listVars
  <2> QED BY <2>1, <2>2
<1>5. curthr \notin W BY <1>1, <1>4
<1>6. \A t \in Tids : t \in W => ret[t] \notin {"joinany", "join"}
  BY <1>4, ConstantFacts DEF IInv, JoinersOK, JoinerOK
<1> HIDE DEF W
<1> USE ConstantFacts DEF thrVars, IInv
<1>7. TypeOK' BY <1>1, <1>4 DEF TypeOK, Labels, Returns
<1>8. LabelsOK' BY ZenonT(30), <1>1, <1>4 DEF LabelsOK, InSuspend, OffHart, IdleLabels, TypeOK
<1>9. HartOK' BY <1>1, <1>2, <1>4, <1>5 DEF HartOK, InSuspend, TypeOK
<1>10. FamilyRooted' BY <1>4, FamilyKept
<1>11. JoinersOK'
  <2> SUFFICES ASSUME NEW t \in Tids PROVE JoinerOK(t)' BY DEF JoinersOK
  <2>1. JoinerOK(t) BY DEF JoinersOK
  <2>2. \A u \in Tids :
             /\ state'[u] = "EXITED" <=> state[u] = "EXITED"
             /\ state'[u] = "FREE" <=> state[u] = "FREE"
    BY <1>4
  <2>3. parent' = parent OBVIOUS
  <2>4. /\ HasZombie(t)' <=> HasZombie(t)
        /\ \A u : IsChild(u, t)' <=> IsChild(u, t)
    BY <2>2, <2>3 DEF HasZombie, IsChild
  <2>5. CASE t = curthr
    BY <1>1, <1>4, <1>5, <2>5 DEF JoinerOK, TypeOK
  <2>6. CASE t # curthr
    <3>1. ret'[t] = ret[t] /\ pc'[t] = pc[t] /\ target'[t] = target[t]
      BY <1>1, <2>6 DEF TypeOK
    <3> QED BY ZenonT(30), <1>4, <1>6, <2>1, <2>2, <2>4, <3>1 DEF JoinerOK, IsChild
  <2> QED BY <2>5, <2>6
<1>12. NoKernelAssert' BY DEF NoKernelAssert
<1> QED BY <1>4, <1>7, <1>8, <1>9, <1>10, <1>11, <1>12

LEMMA IsrIInv == \A i \in Irqs : IInv /\ Isr(i) => IInv'
<1> SUFFICES ASSUME NEW i \in Irqs, IInv, Isr(i) PROVE IInv' OBVIOUS
<1>1. i \in Conds => BroadcastOk(state, i) BY ConstantFacts, Broadcastable
<1>2. pc[curthr] = "user" => state[curthr] = "RUNNING"
  BY OnHart DEF InSuspend
<1>3. /\ IF i \in Conds THEN Broadcast(state, i) ELSE UNCHANGED listVars
      /\ pending' = pending \ {i}
      /\ pc' = IF pc[curthr] = "user" THEN [pc EXCEPT ![curthr] = "suspend"] ELSE pc
      /\ ret' = IF pc[curthr] = "user" THEN [ret EXCEPT ![curthr] = "user"] ELSE ret
      /\ UNCHANGED <<thrVars, saved, target, nextThr, curthr, sie, space, status>>
  BY <1>1, <1>2 DEF Isr
<1>4. pending' \in SUBSET Irqs BY <1>3 DEF IInv, TypeOK
<1>5. CASE pc[curthr] = "user" BY <1>3, <1>4, <1>5, PreemptIInv
<1>6. CASE pc[curthr] # "user" /\ i \in Conds
  BY <1>3, <1>4, <1>6, DriverBroadcastIInv DEF ctxVars
<1>7. CASE pc[curthr] # "user" /\ i \notin Conds
  BY SMTT(30), <1>3, <1>4, <1>7
     DEF IInv, TypeOK, LabelsOK, HartOK, ListsExact, FamilyRooted, Live, JoinersOK, JoinerOK,
         NoKernelAssert, thrVars, listVars, HasZombie, IsChild
<1> QED BY <1>5, <1>6, <1>7

------------------------------------------------------------------------------
(* suspend_self *)

LEMMA SuspendIInv == IInv /\ Suspend => IInv'
<1> SUFFICES ASSUME IInv, Suspend PROVE IInv' OBVIOUS
<1> DEFINE next == Head(readyList)
           requeued == state[curthr] = "RUNNING"
<1>1. pc[curthr] = "suspend" /\ curthr \in Tids BY DEF Suspend, At, IInv, TypeOK
<1>2. readyList # <<>> /\ next # curthr /\ nextThr = NoTid BY <1>1 DEF IInv, HartOK
<1>3. next \in Tids /\ state[next] = "READY" BY <1>2, HeadIsReady
<1>4. /\ state' = IF requeued
                  THEN [state EXCEPT ![next] = "RUNNING", ![curthr] = "READY"]
                  ELSE [state EXCEPT ![next] = "RUNNING"]
      /\ readyList' = IF requeued THEN Append(Tail(readyList), curthr)
                                  ELSE Tail(readyList)
      /\ nextThr' = next
      /\ saved' = [saved EXCEPT ![curthr] = sie]
      /\ sie' = TRUE
      /\ pc' = [pc EXCEPT ![curthr] = "switch"]
      /\ UNCHANGED <<waitCond, waitList, thrVars, ret, target, curthr, space,
                     pending, status>>
  <2>1. [state EXCEPT ![next] = "RUNNING"][curthr] = state[curthr]
    BY <1>1, <1>2, <1>3 DEF IInv, TypeOK
  <2> QED BY <1>2, <1>3, <2>1 DEF Suspend, Requeues, Requeue, Goto
<1>5. \A t \in Tids : state'[t] = IF t = next THEN "RUNNING"
                                  ELSE IF t = curthr /\ requeued THEN "READY"
                                  ELSE state[t]
  BY <1>1, <1>2, <1>3, <1>4 DEF IInv, TypeOK
<1>6. /\ Tail(readyList) \in Seq(Tids)
      /\ Range(Tail(readyList)) = Range(readyList) \ {next}
      /\ IsInjective(Tail(readyList))
  BY <1>2, RemoveProperties DEF IInv, TypeOK, ListsExact
<1>7. requeued => curthr \notin Range(Tail(readyList))
  BY <1>1, <1>6 DEF IInv, ListsExact
<1>8. /\ readyList' \in Seq(Tids)
      /\ Range(readyList') = IF requeued THEN (Range(readyList) \ {next}) \cup {curthr}
                                         ELSE Range(readyList) \ {next}
      /\ IsInjective(readyList')
  <2>1. CASE requeued
    <3>1. readyList' = Append(Tail(readyList), curthr) BY <1>4, <2>1
    <3> DEFINE rest == Tail(readyList)
    <3>2. rest \in Seq(Tids) /\ curthr \in Tids /\ curthr \notin Range(rest)
          /\ IsInjective(rest) /\ Range(rest) = Range(readyList) \ {next}
      BY <1>1, <1>6, <1>7, <2>1
    <3> HIDE DEF rest, next, requeued
    <3>3. /\ Append(rest, curthr) \in Seq(Tids)
          /\ Range(Append(rest, curthr)) = Range(rest) \cup {curthr}
          /\ IsInjective(Append(rest, curthr))
      BY ONLY <3>2, InsertProperties
    <3>4. readyList' = Append(rest, curthr) BY <3>1 DEF rest
    <3> QED BY <2>1, <3>2, <3>3, <3>4
  <2>2. CASE ~requeued BY <1>4, <1>6, <2>2
  <2> QED BY <2>1, <2>2
<1> HIDE DEF next
<1> USE ConstantFacts DEF thrVars, IInv
<1>9. TypeOK'
  <2>1. state' \in [Tids -> States] BY <1>1, <1>3, <1>4 DEF TypeOK, States
  <2>2. pc' \in [Tids -> Labels] /\ saved' \in [Tids -> BOOLEAN]
    BY <1>1, <1>4 DEF TypeOK, Labels
  <2> QED BY <1>1, <1>3, <1>4, <1>8, <2>1, <2>2 DEF TypeOK
<1>10. LabelsOK'
  BY SMTT(30), <1>1, <1>3, <1>4, <1>5 DEF LabelsOK, InSuspend, OffHart, IdleLabels, TypeOK
<1>11. HartOK'
  BY <1>1, <1>2, <1>3, <1>4, <1>5 DEF HartOK, InSuspend, TypeOK
<1>12. ListsExact'
  <2>1. ASSUME NEW t \in Tids PROVE t \in Range(readyList') <=> state'[t] = "READY"
    <3>1. t \in Range(readyList) <=> state[t] = "READY" BY DEF ListsExact
    <3>2. state'[t] = IF t = next THEN "RUNNING"
                      ELSE IF t = curthr /\ requeued THEN "READY" ELSE state[t]
      BY ONLY <1>5, t \in Tids
    <3> HIDE DEF next, requeued
    <3>3. CASE t = next BY ONLY <1>2, <1>8, <3>2, <3>3
    <3>4. CASE t # next /\ t = curthr /\ requeued BY ONLY <1>8, <3>2, <3>4
    <3>5. CASE t # next /\ ~(t = curthr /\ requeued) BY ONLY <1>8, <3>1, <3>2, <3>5
    <3> QED BY <3>3, <3>4, <3>5
  <2>2. \A t \in Tids : /\ state'[t] = "WAITING" <=> state[t] = "WAITING"
                        /\ pc'[t] = "insert" <=> pc[t] = "insert"
    BY <1>1, <1>2, <1>3, <1>4, <1>5 DEF TypeOK
  <2> QED BY ZenonT(30), <1>4, <1>8, <2>1, <2>2 DEF ListsExact
<1>13. FamilyRooted'
  <2>1. \A t \in Tids : state'[t] = "FREE" <=> state[t] = "FREE" BY <1>3, <1>5
  <2> QED BY <1>4, <2>1, FamilyKept
<1>14. JoinersOK'
  <2> SUFFICES ASSUME NEW t \in Tids PROVE JoinerOK(t)' BY DEF JoinersOK
  <2>1. JoinerOK(t) BY DEF JoinersOK
  <2>2. \A u \in Tids :
             /\ state'[u] = "EXITED" <=> state[u] = "EXITED"
             /\ state'[u] = "FREE" <=> state[u] = "FREE"
             /\ state'[u] = "WAITING" <=> state[u] = "WAITING"
    BY <1>3, <1>5
  <2>3. parent' = parent BY <1>4
  <2>4. /\ HasZombie(t)' <=> HasZombie(t)
        /\ \A u : IsChild(u, t)' <=> IsChild(u, t)
    BY <2>2, <2>3 DEF HasZombie, IsChild
  <2>5. pc'[t] \in {"joinany", "join"} => pc[t] = pc'[t]
    BY <1>1, <1>4 DEF TypeOK
  <2> QED BY ZenonT(30), <1>4, <2>1, <2>2, <2>4, <2>5 DEF JoinerOK, IsChild
<1>15. NoKernelAssert' BY <1>4 DEF NoKernelAssert
<1> QED BY <1>9, <1>10, <1>11, <1>12, <1>13, <1>14, <1>15

------------------------------------------------------------------------------
(* thread_spawn and thread_fork_to_user *)

LEMMA FreeSlotFacts ==
    ASSUME IInv, NEW t \in FreeSlots
    PROVE  /\ t \in Tids \ {MAIN_TID, IDLE_TID} /\ state[t] = "FREE"
           /\ t # curthr /\ t # nextThr
           /\ pc[t] = "none" /\ ret[t] = "kern"
           /\ t \notin Range(readyList)
           /\ \A c \in Conditions : t \notin Range(waitList[c])
<1>1. t \in Tids \ {MAIN_TID} /\ state[t] = "FREE" BY DEF FreeSlots
<1>2. t # IDLE_TID BY <1>1 DEF IInv, HartOK
<1>3. pc[t] = "none" BY <1>1 DEF IInv, LabelsOK
<1>4. ret[t] = "kern" BY <1>1, <1>3 DEF IInv, LabelsOK, InSuspend
<1>5. t # curthr BY <1>1, <1>3 DEF IInv, HartOK, InSuspend
<1>6. t # nextThr BY <1>1, ConstantFacts DEF IInv, HartOK
<1>7. t \notin Range(readyList) /\ \A c \in Conditions : t \notin Range(waitList[c])
  BY <1>1 DEF IInv, ListsExact
<1> QED BY <1>1, <1>2, <1>3, <1>4, <1>5, <1>6, <1>7

LEMMA SpawnIInv == IInv /\ Spawn => IInv'
<1> SUFFICES ASSUME IInv, Spawn PROVE IInv' OBVIOUS
<1>1. pc[curthr] = "kern" BY DEF Spawn, At
<1>2. /\ curthr \in Tids /\ state[curthr] = "RUNNING" /\ nextThr = NoTid
      /\ ret[curthr] = "kern" /\ curthr # IDLE_TID
  BY <1>1, OnHart DEF InSuspend, IdleLabels
<1>3. CASE Panic("too_many_threads") \/ Panic("out_of_pages")
  BY <1>3, PanicIInv DEF Panics
<1>4. CASE ~(Panic("too_many_threads") \/ Panic("out_of_pages"))
  <2>1. PICK t \in FreeSlots :
           /\ SpawnChild(t)
           /\ stacks' = stacks \cup {t} /\ freePages # 0 /\ freePages' = freePages - 1
           /\ parent' = [parent EXCEPT ![t] = curthr]
           /\ UNCHANGED <<waitCond, waitList, ctxVars, pending, status>>
    BY <1>4 DEF Spawn, Allocating, Lowest
  <2>2. /\ proc' = [proc EXCEPT ![t] = proc[curthr]]
        /\ state' = [state EXCEPT ![t] = "READY"]
        /\ readyList' = Append(readyList, t)
        /\ pc' = [pc EXCEPT ![t] = "kern"]
        /\ UNCHANGED <<users, curthr, sie, space>>
    BY <2>1 DEF SpawnChild
  <2>3. /\ t \in Tids \ {MAIN_TID, IDLE_TID} /\ state[t] = "FREE"
        /\ t # curthr /\ t # nextThr /\ pc[t] = "none" /\ ret[t] = "kern"
        /\ t \notin Range(readyList)
        /\ \A c \in Conditions : t \notin Range(waitList[c])
    BY FreeSlotFacts
  <2>4. /\ readyList' \in Seq(Tids)
        /\ Range(readyList') = Range(readyList) \cup {t}
        /\ IsInjective(readyList')
    BY <2>2, <2>3, InsertProperties DEF IInv, TypeOK, ListsExact
  <2> USE ConstantFacts DEF IInv, ctxVars
  <2>5. TypeOK'
    <3>1. freePages' \in Nat BY <2>1 DEF TypeOK
    <3>2. state' \in [Tids -> States] /\ pc' \in [Tids -> Labels]
      BY <2>2, <2>3 DEF TypeOK, States, Labels
    <3>3. /\ parent' \in [Tids -> Tids \cup {NoTid}]
          /\ proc' \in [Tids -> Tids \cup {NoTid}]
          /\ stacks' \in SUBSET Tids
      BY <1>2, <2>1, <2>2, <2>3 DEF TypeOK
    <3> QED BY <2>1, <2>2, <2>4, <3>1, <3>2, <3>3 DEF TypeOK
  <2>6. LabelsOK'
    BY <1>1, <2>1, <2>2, <2>3 DEF LabelsOK, InSuspend, OffHart, IdleLabels, TypeOK
  <2>7. HartOK' BY <1>1, <1>2, <2>1, <2>2, <2>3 DEF HartOK, InSuspend, TypeOK
  <2>8. ListsExact'
    <3>1. \A u \in Tids : /\ state'[u] = IF u = t THEN "READY" ELSE state[u]
                          /\ pc'[u] = IF u = t THEN "kern" ELSE pc[u]
      BY <2>2, <2>3 DEF TypeOK
    <3>2. \A u \in Tids : u \in Range(readyList') <=> state'[u] = "READY"
      BY <2>4, <3>1 DEF ListsExact
    <3> QED BY <2>1, <2>3, <2>4, <3>1, <3>2 DEF ListsExact
  <2>9. FamilyRooted'
    <3>1. \A u \in Tids : /\ state'[u] = IF u = t THEN "READY" ELSE state[u]
                          /\ parent'[u] = IF u = t THEN curthr ELSE parent[u]
      BY <2>1, <2>2, <2>3 DEF TypeOK
    <3> QED BY <1>2, <2>3, <3>1, FamilyGrows
  <2>10. JoinersOK'
    <3> SUFFICES ASSUME NEW u \in Tids PROVE JoinerOK(u)' BY DEF JoinersOK
    <3>1. JoinerOK(u) BY DEF JoinersOK
    <3>2. \A v \in Tids : /\ state'[v] = IF v = t THEN "READY" ELSE state[v]
                          /\ pc'[v] = IF v = t THEN "kern" ELSE pc[v]
                          /\ parent'[v] = IF v = t THEN curthr ELSE parent[v]
      BY <2>1, <2>2, <2>3 DEF TypeOK
    <3>3. HasZombie(u)' <=> HasZombie(u) BY <2>3, <3>2 DEF HasZombie
    <3>4. \A v : IsChild(v, u) => IsChild(v, u)' BY <2>3, <3>2 DEF IsChild
    <3>5. ret[u] = "join" => target[u] \in Tids /\ target[u] # t
      BY <2>3, <3>1 DEF JoinerOK, IsChild
    <3> QED BY <2>1, <2>3, <3>1, <3>2, <3>3, <3>4, <3>5 DEF JoinerOK
  <2>11. NoKernelAssert' BY <2>1 DEF NoKernelAssert
  <2> QED BY <2>5, <2>6, <2>7, <2>8, <2>9, <2>10, <2>11
<1> QED BY <1>3, <1>4

LEMMA ForkIInv == IInv /\ Fork => IInv'
<1> SUFFICES ASSUME IInv, Fork PROVE IInv' OBVIOUS
<1>1. pc[curthr] = "kern" BY DEF Fork, At
<1>2. /\ curthr \in Tids /\ state[curthr] = "RUNNING" /\ nextThr = NoTid
      /\ ret[curthr] = "kern" /\ curthr # IDLE_TID
      /\ curthr \notin Range(readyList)
      /\ \A c \in Conditions : curthr \notin Range(waitList[c])
  BY <1>1, OnHart DEF InSuspend, IdleLabels, Woken
<1>3. CASE Panic("too_many_threads") \/ Panic("out_of_pages")
  BY <1>3, PanicIInv DEF Panics
<1>4. CASE ~(Panic("too_many_threads") \/ Panic("out_of_pages"))
  <2>1. PICK t \in FreeSlots :
           /\ ForkChild(t)
           /\ stacks' = stacks \cup {t} /\ freePages # 0 /\ freePages' = freePages - 1
           /\ parent' = [parent EXCEPT ![t] = curthr]
           /\ UNCHANGED <<waitCond, waitList, ctxVars, pending, status>>
    BY <1>4 DEF Fork, Allocating, Lowest
  <2>2. /\ proc' = [proc EXCEPT ![t] = t]
        /\ users' = users \cup {t}
        /\ state' = [state EXCEPT ![t] = "RUNNING", ![curthr] = "READY"]
        /\ readyList' = Append(readyList, curthr)
        /\ curthr' = t /\ space' = t /\ sie' = FALSE
        /\ pc' = [pc EXCEPT ![t] = "user", ![curthr] = "kern"]
    BY <2>1 DEF ForkChild
  <2>3. /\ t \in Tids \ {MAIN_TID, IDLE_TID} /\ state[t] = "FREE"
        /\ t # curthr /\ t # nextThr /\ pc[t] = "none" /\ ret[t] = "kern"
        /\ t \notin Range(readyList)
        /\ \A c \in Conditions : t \notin Range(waitList[c])
    BY FreeSlotFacts
  <2>4. /\ readyList' \in Seq(Tids)
        /\ Range(readyList') = Range(readyList) \cup {curthr}
        /\ IsInjective(readyList')
    BY <1>2, <2>2, InsertProperties DEF IInv, TypeOK, ListsExact
  <2>5. \A u \in Tids :
           /\ state'[u] = IF u = t THEN "RUNNING" ELSE IF u = curthr THEN "READY" ELSE state[u]
           /\ pc'[u] = IF u = t THEN "user" ELSE pc[u]
           /\ parent'[u] = IF u = t THEN curthr ELSE parent[u]
    BY <1>1, <1>2, <2>1, <2>2, <2>3 DEF IInv, TypeOK
  <2> USE ConstantFacts DEF IInv, ctxVars
  <2>6. TypeOK'
    <3>1. freePages' \in Nat BY <2>1 DEF TypeOK
    <3>2. state' \in [Tids -> States] /\ pc' \in [Tids -> Labels]
      BY <1>2, <2>2, <2>3 DEF TypeOK, States, Labels
    <3>3. /\ parent' \in [Tids -> Tids \cup {NoTid}]
          /\ proc' \in [Tids -> Tids \cup {NoTid}]
          /\ stacks' \in SUBSET Tids /\ users' \in SUBSET Tids
      BY <1>2, <2>1, <2>2, <2>3 DEF TypeOK
    <3> QED BY <2>1, <2>2, <2>3, <2>4, <3>1, <3>2, <3>3 DEF TypeOK
  <2>7. LabelsOK'
    <3>1. \A u \in Tids \ {t} : pc'[u] \in OffHart
      <4>1. \A u \in Tids \ {curthr} : pc[u] \in OffHart BY DEF LabelsOK
      <4>2. pc'[curthr] \in OffHart BY <1>1, <1>2, <2>3, <2>5 DEF OffHart
      <4> QED BY <2>5, <4>1, <4>2
    <3>2. \A u \in Tids : pc'[u] = "none" <=> state'[u] = "FREE"
      BY <1>1, <1>2, <2>3, <2>5 DEF LabelsOK
    <3>3. \A u \in Tids : pc'[u] \in IdleLabels \/ ret'[u] = "idle" => u = IDLE_TID
      BY <2>1, <2>3, <2>5 DEF LabelsOK, IdleLabels
    <3>4. pc'[IDLE_TID] = pc[IDLE_TID] BY <2>3, <2>5
    <3>5. \A u \in Tids : pc'[u] \notin InSuspend => ret'[u] = "kern"
      BY <2>1, <2>3, <2>5 DEF LabelsOK, InSuspend
    <3> QED BY <2>1, <2>2, <3>1, <3>2, <3>3, <3>4, <3>5 DEF LabelsOK
  <2>8. HartOK'
    <3>1. pc'[t] = "user" /\ state'[t] = "RUNNING" BY <2>3, <2>5
    <3>2. \A u \in Tids \ {t} : state'[u] # "RUNNING" BY <1>2, <2>5 DEF HartOK
    <3>3. state'[IDLE_TID] = state[IDLE_TID] BY <1>2, <2>3, <2>5
    <3>4. state'[MAIN_TID] \notin {"FREE", "EXITED"} BY <2>3, <2>5 DEF HartOK
    <3> QED BY <1>2, <2>1, <2>2, <3>1, <3>2, <3>3, <3>4 DEF HartOK, InSuspend
  <2>9. ListsExact'
    <3>1. \A u \in Tids : u \in Range(readyList') <=> state'[u] = "READY"
      BY <1>2, <2>3, <2>4, <2>5 DEF ListsExact
    <3> QED BY <1>2, <2>1, <2>3, <2>4, <2>5, <3>1 DEF ListsExact
  <2>10. FamilyRooted' BY <1>2, <2>3, <2>5, FamilyGrows
  <2>11. JoinersOK'
    <3> SUFFICES ASSUME NEW u \in Tids PROVE JoinerOK(u)' BY DEF JoinersOK
    <3>1. JoinerOK(u) BY DEF JoinersOK
    <3>2. HasZombie(u)' <=> HasZombie(u) BY <1>2, <2>3, <2>5 DEF HasZombie
    <3>3. \A v : IsChild(v, u) => IsChild(v, u)' BY <1>2, <2>3, <2>5 DEF IsChild
    <3>4. ret[u] = "join" => target[u] \in Tids /\ target[u] # t
      BY <2>3, <3>1 DEF JoinerOK, IsChild
    <3> QED BY <1>2, <2>1, <2>3, <2>5, <3>1, <3>2, <3>3, <3>4 DEF JoinerOK
  <2>12. NoKernelAssert' BY <2>1 DEF NoKernelAssert
  <2> QED BY <2>6, <2>7, <2>8, <2>9, <2>10, <2>11, <2>12
<1> QED BY <1>3, <1>4

------------------------------------------------------------------------------
(* thread_exit *)

LEMMA ExitIInv == IInv /\ Exit => IInv'
<1> SUFFICES ASSUME IInv, Exit PROVE IInv' OBVIOUS
<1> DEFINE p == parent[curthr]
           st == [state EXCEPT ![curthr] = "EXITED"]
<1>1. pc[curthr] = "kern" BY DEF Exit, At
<1>2. /\ curthr \in Tids /\ state[curthr] = "RUNNING" /\ nextThr = NoTid
      /\ ret[curthr] = "kern" /\ curthr # IDLE_TID
      /\ curthr \notin Range(readyList)
      /\ \A c \in Conditions : curthr \notin Woken(c)
  BY <1>1, OnHart DEF InSuspend, IdleLabels
<1>3. CASE curthr = MAIN_TID
  BY <1>3 DEF Exit, IInv, TypeOK, LabelsOK, HartOK, ListsExact, FamilyRooted, Live, JoinersOK,
              JoinerOK, NoKernelAssert, thrVars, ctxVars, listVars, HasZombie, IsChild
<1>4. CASE curthr # MAIN_TID
  <2>1. p \in Tids \ {curthr} /\ p \in Conditions
    BY <1>2, <1>4, ConstantFacts, ParentsOK
  <2>2. BroadcastOk(st, p) BY <1>2, <2>1, Broadcastable
  <2>3. /\ Broadcast(st, p)
        /\ pc' = [pc EXCEPT ![curthr] = "suspend"]
        /\ ret' = [ret EXCEPT ![curthr] = "exit"]
        /\ UNCHANGED <<thrVars, saved, target, nextThr, curthr, sie, space, pending,
                       status>>
    BY <1>4, <2>1, <2>2, ConstantFacts DEF Exit, Goto
  <2>4. /\ st \in [Tids -> States]
        /\ \A t \in Tids : st[t] = IF t = curthr THEN "EXITED" ELSE state[t]
    BY <1>2 DEF IInv, TypeOK, States
  <2>5. \A t \in Tids : pc'[t] = "insert" <=> pc[t] = "insert"
    BY <1>1, <1>2, <2>3 DEF IInv, TypeOK
  <2>6. /\ state' \in [Tids -> States]
        /\ waitCond' \in [Tids -> Conditions \cup {NoCond}]
        /\ readyList' \in Seq(Tids)
        /\ waitList' \in [Conditions -> Seq(Tids)]
        /\ \A t \in Tids : /\ state'[t] = IF t \in Woken(p) THEN "READY" ELSE st[t]
                           /\ t \notin Woken(p) => waitCond'[t] = waitCond[t]
                           /\ t \in Woken(p) <=> /\ state[t] = "WAITING"
                                                 /\ waitCond[t] = p
                                                 /\ pc[t] # "insert"
        /\ readyList # <<>> => readyList' # <<>> /\ Head(readyList') = Head(readyList)
        /\ ListsExact'
    <3> HIDE DEF p, st
    <3> QED BY <1>2, <2>1, <2>3, <2>4, <2>5, BroadcastProperties
  <2>7. \A t \in Tids : state'[t] = IF t \in Woken(p) THEN "READY"
                                    ELSE IF t = curthr THEN "EXITED" ELSE state[t]
    BY <2>4, <2>6
  <2>8. readyList # <<>> /\ Head(readyList) # curthr
    <3>1. readyList # <<>> BY <1>1, <1>2, IdleIsReady
    <3>2. Head(readyList) \in Range(readyList)
      BY <3>1, RemoveProperties DEF IInv, TypeOK
    <3> QED BY <1>2, <3>1, <3>2
  <2>9. curthr \notin Woken(p) BY <1>2, <2>1
  <2> HIDE DEF p, st
  <2> USE ConstantFacts DEF thrVars, IInv
  <2>10. TypeOK' BY <1>2, <2>3, <2>6 DEF TypeOK, Labels, Returns
  <2>11. LabelsOK'
    <3>1. \A t \in Tids : /\ state'[t] = "FREE" <=> state[t] = "FREE"
                          /\ pc'[t] = IF t = curthr THEN "suspend" ELSE pc[t]
                          /\ ret'[t] = IF t = curthr THEN "exit" ELSE ret[t]
      BY <1>2, <2>3, <2>6, <2>7 DEF TypeOK
    <3> QED BY <1>1, <1>2, <2>3, <3>1 DEF LabelsOK, InSuspend, OffHart, IdleLabels
  <2>12. HartOK'
    BY ZenonT(30), <1>2, <1>4, <2>3, <2>6, <2>7, <2>8 DEF HartOK, InSuspend, TypeOK
  <2>13. FamilyRooted'
    <3>1. \A t \in Tids : state'[t] = "FREE" <=> state[t] = "FREE" BY <1>2, <2>6, <2>7
    <3> QED BY <2>3, <3>1, FamilyKept
  <2>14. JoinersOK'
    <3> SUFFICES ASSUME NEW t \in Tids PROVE JoinerOK(t)' BY DEF JoinersOK
    <3>1. JoinerOK(t) BY DEF JoinersOK
    <3>2. parent' = parent /\ target' = target BY <2>3
    <3>3. \A u \in Tids :
             /\ state'[u] = "EXITED" <=> state[u] = "EXITED" \/ u = curthr
             /\ state'[u] = "FREE" <=> state[u] = "FREE"
      BY <1>2, <2>6, <2>7, <2>9
    <3>4. \A u : IsChild(u, t)' <=> IsChild(u, t) BY <3>2, <3>3 DEF IsChild
    <3>5. CASE t = curthr
      <4>1. state'[t] = "EXITED" /\ ret'[t] = "exit" /\ pc'[t] = "suspend"
        BY <1>2, <2>3, <2>7, <2>9, <3>5 DEF TypeOK
      <4> QED BY <4>1 DEF JoinerOK
    <3>6. CASE t # curthr
      <4>1. ret'[t] = ret[t] /\ pc'[t] = pc[t] /\ pc[t] # "insert"
        BY <1>2, <2>3, <3>6 DEF TypeOK, LabelsOK, OffHart
      <4>2. HasZombie(t)' <=> HasZombie(t) \/ t = p
        BY <1>2, <1>4, <3>2, <3>3 DEF HasZombie, p
      <4>3. t = p /\ state[t] = "WAITING" /\ waitCond[t] = t => state'[t] = "READY"
        BY <2>6, <4>1
      <4>4. state'[t] = "WAITING" => state[t] = "WAITING" /\ waitCond'[t] = waitCond[t]
        BY <2>6, <2>7, <3>6
      <4>5. state[t] = "WAITING" /\ state'[t] # "WAITING" =>
               state'[t] = "READY" /\ waitCond[t] = p
        BY <2>6, <2>7, <3>6
      <4>6. target[t] = curthr /\ IsChild(target[t], t) => t = p BY DEF IsChild, p
      <4>7. IsChild(target[t], t) => target[t] \in Tids BY DEF IsChild
      <4>8. ret[t] = "exit" => state'[t] = "EXITED"
        BY <2>6, <2>7, <3>1 DEF JoinerOK
      <4> QED BY <3>1, <3>2, <3>3, <3>4, <4>1, <4>2, <4>3, <4>4, <4>5, <4>6, <4>7, <4>8
              DEF JoinerOK
    <3> QED BY <3>5, <3>6
  <2>15. NoKernelAssert' BY <2>3 DEF NoKernelAssert
  <2> QED BY <2>6, <2>10, <2>11, <2>12, <2>13, <2>14, <2>15
<1> QED BY <1>3, <1>4

------------------------------------------------------------------------------
(* thread_join and thread_join_any *)

LEMMA ZombieFacts ==
    ASSUME IInv
    PROVE  /\ Zombies(curthr) # {} <=> HasZombie(curthr)
           /\ \A u : u \in Children(curthr) <=> IsChild(u, curthr)
           /\ \A u \in Zombies(curthr) : IsChild(u, curthr) /\ state[u] = "EXITED"
<1>1. \A u : u \in Zombies(curthr) <=>
           u \in Tids \ {MAIN_TID} /\ state[u] = "EXITED" /\ parent[u] = curthr
  BY DEF Zombies, Children
<1> QED BY <1>1 DEF HasZombie, IsChild, Children

\* recycle_thread of an exited child, after which the join returns.
LEMMA RecycleIInv ==
    ASSUME IInv, pc[curthr] \in {"kern", "join", "joinany"}, NEW z,
           IsChild(z, curthr), state[z] = "EXITED", Recycle(z)
    PROVE  IInv'
<1>1. /\ curthr \in Tids /\ state[curthr] = "RUNNING" /\ nextThr = NoTid
      /\ ret[curthr] = "kern" /\ curthr # IDLE_TID
  BY OnHart DEF InSuspend, IdleLabels
<1>2. z \in Tids \ {MAIN_TID, curthr} /\ parent[z] = curthr
  BY <1>1 DEF IsChild
<1>3. z # IDLE_TID BY DEF IInv, HartOK
<1>4. /\ parent' = [t \in Tids |-> IF t = z THEN NoTid
                                   ELSE IF parent[t] = z THEN parent[z] ELSE parent[t]]
      /\ state' = [state EXCEPT ![z] = "FREE"]
      /\ proc' = [proc EXCEPT ![z] = NoTid]
      /\ users' = users \ {z} /\ stacks' = stacks \ {z}
      /\ saved' = [saved EXCEPT ![z] = FALSE]
      /\ ret' = [ret EXCEPT ![z] = "kern"]
      /\ target' = [target EXCEPT ![z] = NoTid, ![curthr] = NoTid]
      /\ pc' = [pc EXCEPT ![z] = "none", ![curthr] = "kern"]
      /\ UNCHANGED <<waitCond, readyList, waitList, freePages, nextThr,
                     curthr, sie, space, pending, status>>
  BY DEF Recycle, Reparented
<1>5. \A t \in Tids :
         /\ state'[t] = IF t = z THEN "FREE" ELSE state[t]
         /\ parent'[t] = IF t = z THEN NoTid ELSE IF parent[t] = z THEN curthr ELSE parent[t]
         /\ ret'[t] = IF t = z THEN "kern" ELSE ret[t]
         /\ target'[t] = IF t = z \/ t = curthr THEN NoTid ELSE target[t]
         /\ pc'[t] = IF t = z THEN "none" ELSE IF t = curthr THEN "kern" ELSE pc[t]
  BY <1>1, <1>2, <1>4 DEF IInv, TypeOK
<1> USE ConstantFacts DEF IInv
<1>6. TypeOK'
  <2>1. state' \in [Tids -> States] /\ pc' \in [Tids -> Labels] /\ ret' \in [Tids -> Returns]
    BY <1>1, <1>2, <1>4 DEF TypeOK, States, Labels, Returns
  <2>2. parent' \in [Tids -> Tids \cup {NoTid}]
    BY <1>1, <1>2, <1>4 DEF TypeOK
  <2>3. /\ proc' \in [Tids -> Tids \cup {NoTid}]
        /\ target' \in [Tids -> Tids \cup {NoTid}]
        /\ saved' \in [Tids -> BOOLEAN]
    BY <1>1, <1>2, <1>4 DEF TypeOK
  <2>4. users' \in SUBSET Tids /\ stacks' \in SUBSET Tids BY <1>4 DEF TypeOK
  <2> QED BY <1>4, <2>1, <2>2, <2>3, <2>4 DEF TypeOK
<1>7. LabelsOK'
  <2>1. \A t \in Tids \ {curthr} : pc'[t] \in OffHart BY <1>5 DEF LabelsOK, OffHart
  <2>2. \A t \in Tids : pc'[t] = "none" <=> state'[t] = "FREE"
    BY <1>1, <1>2, <1>5 DEF LabelsOK
  <2>3. \A t \in Tids : pc'[t] \in IdleLabels \/ ret'[t] = "idle" => t = IDLE_TID
    BY <1>5 DEF LabelsOK, IdleLabels
  <2>4. pc'[IDLE_TID] = pc[IDLE_TID] /\ ret'[IDLE_TID] = ret[IDLE_TID]
    BY <1>1, <1>3, <1>5
  <2>5. \A t \in Tids : pc'[t] \notin InSuspend => ret'[t] = "kern"
    BY <1>1, <1>5 DEF LabelsOK
  <2> QED BY <1>4, <2>1, <2>2, <2>3, <2>4, <2>5 DEF LabelsOK
<1>8. HartOK'
  <2>1. pc'[curthr] = "kern" /\ state'[curthr] = "RUNNING" BY <1>1, <1>2, <1>5
  <2>2. \A t \in Tids \ {curthr, nextThr} : state'[t] # "RUNNING"
    BY <1>5 DEF HartOK
  <2>3. state'[IDLE_TID] = state[IDLE_TID] /\ state'[MAIN_TID] = state[MAIN_TID]
    BY <1>2, <1>3, <1>5
  <2> QED BY <1>1, <1>4, <2>1, <2>2, <2>3 DEF HartOK, InSuspend
<1>9. ListsExact'
  <2>1. \A t \in Tids : t \in Range(readyList) <=> state'[t] = "READY"
    BY <1>5 DEF ListsExact
  <2>2. \A t \in Tids : /\ state'[t] = "WAITING" <=> state[t] = "WAITING"
                        /\ state[t] = "WAITING" => (pc'[t] = "insert" <=> pc[t] = "insert")
    BY <1>1, <1>2, <1>5
  <2>3. \A t \in Tids, c \in Conditions :
           t \in Range(waitList[c]) <=>
              state'[t] = "WAITING" /\ waitCond[t] = c /\ pc'[t] # "insert"
    BY <2>2 DEF ListsExact
  <2>4. readyList' = readyList /\ waitList' = waitList /\ waitCond' = waitCond
    BY <1>4
  <2>5. IsInjective(readyList) /\ \A c \in Conditions : IsInjective(waitList[c])
    BY DEF ListsExact
  <2> HIDE DEF IInv
  <2> QED BY <2>1, <2>3, <2>4, <2>5 DEF ListsExact
<1>10. FamilyRooted'
  <2>1. state[curthr] # "FREE" BY <1>1
  <2> QED BY <1>1, <1>2, <1>5, <2>1, FamilyShrinks
<1>11. JoinersOK'
  <2> SUFFICES ASSUME NEW t \in Tids PROVE JoinerOK(t)' BY DEF JoinersOK
  <2>1. JoinerOK(t) BY DEF JoinersOK
  <2>2. CASE t = z \/ t = curthr
    <3>1. ret'[t] = "kern" /\ pc'[t] \in {"none", "kern"} /\ state'[t] # "WAITING"
      BY <1>1, <1>2, <1>5, <2>2
    <3> QED BY <3>1 DEF JoinerOK
  <2>3. CASE t # z /\ t # curthr
    <3>1. /\ ret'[t] = ret[t] /\ pc'[t] = pc[t] /\ target'[t] = target[t]
          /\ state'[t] = state[t] /\ waitCond'[t] = waitCond[t]
      BY <1>4, <1>5, <2>3
    <3>2. HasZombie(t)' <=> HasZombie(t)
      BY <1>2, <1>5, <2>3 DEF HasZombie
    <3>3. IsChild(target[t], t) =>
             IsChild(target[t], t)' /\ state'[target[t]] = state[target[t]]
      BY <1>2, <1>5, <2>3 DEF IsChild
    <3> QED BY <2>1, <3>1, <3>2, <3>3 DEF JoinerOK
  <2> QED BY <2>2, <2>3
<1>12. NoKernelAssert' BY <1>4 DEF NoKernelAssert
<1> QED BY <1>6, <1>7, <1>8, <1>9, <1>10, <1>11, <1>12

\* condition_wait on child_exit, as either join reaches it.
LEMMA WaitIInv ==
    ASSUME IInv, pc[curthr] \in {"kern", "join"},
           NEW then \in {"joinany", "join"}, NEW child \in Tids \cup {NoTid},
           WaitForChild(then, child),
           then = "joinany" => ~HasZombie(curthr),
           then = "join" => IsChild(child, curthr) /\ state[child] # "EXITED"
    PROVE  IInv'
<1>1. curthr \in Conditions /\ state[curthr] = "RUNNING"
  BY OnHart, ConstantFacts DEF InSuspend
<1>2. /\ MarkWaiting(curthr) /\ Goto("insert")
      /\ ret' = [ret EXCEPT ![curthr] = then]
      /\ target' = [target EXCEPT ![curthr] = child]
      /\ UNCHANGED <<thrVars, saved, nextThr, curthr, sie, space, pending, status>>
  BY <1>1 DEF WaitForChild
<1> DEFINE c == curthr
<1>3. c \in Conditions /\ (c = curthr <=> then # "kern") BY <1>1
<1>4. MarkWaiting(c) BY <1>2
<1> HIDE DEF c
<1> QED BY <1>2, <1>3, <1>4, MarkIInv

LEMMA JoinAnyIInv == IInv /\ (JoinAny \/ JoinAnyScan) => IInv'
<1> SUFFICES ASSUME IInv, JoinAny \/ JoinAnyScan PROVE IInv' OBVIOUS
<1>1. pc[curthr] \in {"kern", "joinany"} BY DEF JoinAny, JoinAnyScan, At
<1>2. curthr \in Tids BY DEF IInv, TypeOK
<1>3. pc[curthr] = "joinany" => HasZombie(curthr)
  BY <1>2 DEF IInv, JoinersOK, JoinerOK
<1>4. CASE HasZombie(curthr)
  <2>1. PICK z \in Zombies(curthr) : Recycle(z)
    BY <1>4, ZombieFacts DEF JoinAny, JoinAnyScan, Lowest
  <2>2. IsChild(z, curthr) /\ state[z] = "EXITED" BY ZombieFacts
  <2> QED BY <1>1, <2>1, <2>2, RecycleIInv
<1>5. CASE ~HasZombie(curthr)
  <2>1. Panic("childless") \/ WaitForChild("joinany", NoTid)
    BY <1>3, <1>5, ZombieFacts DEF JoinAny, JoinAnyScan, At
  <2>2. CASE Panic("childless") BY <2>2, PanicIInv DEF Panics
  <2>3. CASE WaitForChild("joinany", NoTid)
    <3>1. pc[curthr] = "kern" BY <1>1, <1>3, <1>5
    <3> QED BY <1>5, <2>3, <3>1, WaitIInv
  <2> QED BY <2>1, <2>2, <2>3
<1> QED BY <1>4, <1>5

LEMMA JoinTestIInv ==
    ASSUME IInv, pc[curthr] \in {"kern", "join"}, NEW t, IsChild(t, curthr), JoinTest(t)
    PROVE  IInv'
<1>1. CASE state[t] = "EXITED"
  BY <1>1, RecycleIInv DEF JoinTest
<1>2. CASE state[t] # "EXITED"
  BY <1>2, WaitIInv DEF JoinTest, IsChild
<1> QED BY <1>1, <1>2

LEMMA JoinIInv == IInv /\ (JoinAgain \/ \E t \in Tids : Join(t)) => IInv'
<1> SUFFICES ASSUME IInv, JoinAgain \/ \E t \in Tids : Join(t) PROVE IInv' OBVIOUS
<1>1. CASE JoinAgain
  <2>1. pc[curthr] = "join" /\ curthr \in Tids
    BY <1>1 DEF JoinAgain, At, IInv, TypeOK
  <2>2. IsChild(target[curthr], curthr)
    BY <2>1 DEF IInv, JoinersOK, JoinerOK
  <2> QED BY <1>1, <2>1, <2>2, JoinTestIInv DEF JoinAgain
<1>2. ASSUME NEW t \in Tids, Join(t) PROVE IInv'
  <2>1. pc[curthr] = "kern" /\ IsChild(t, curthr)
    BY <1>2, ZombieFacts DEF Join, At
  <2> QED BY <1>2, <2>1, JoinTestIInv DEF Join
<1> QED BY <1>1, <1>2

------------------------------------------------------------------------------
(* Every step *)

LEMMA StutterIInv == IInv /\ UNCHANGED vars => IInv'
<1> SUFFICES ASSUME IInv, UNCHANGED vars PROVE IInv' OBVIOUS
<1> USE DEF IInv, vars, thrVars, ctxVars, listVars
<1>1. TypeOK' BY DEF TypeOK
<1>2. LabelsOK' /\ HartOK' /\ ListsExact' BY DEF LabelsOK, HartOK, ListsExact
<1>3. FamilyRooted' BY FamilyKept
<1>4. JoinersOK' BY DEF JoinersOK, JoinerOK, HasZombie, IsChild
<1>5. NoKernelAssert' BY DEF NoKernelAssert
<1> QED BY <1>1, <1>2, <1>3, <1>4, <1>5

LEMMA NextIInv == IInv /\ [Next]_vars => IInv'
<1> SUFFICES ASSUME IInv, [Next]_vars PROVE IInv' OBVIOUS
<1>1. CASE Step
  BY <1>1, CondInsertIInv, SuspendIInv, SwitchIInv, ResumeIInv, JoinAnyIInv, JoinIInv,
     YieldIInv, IdleStaysIInv DEF Step
<1>2. CASE Leave
  BY <1>2, CondWaitIInv, YieldIInv, ExitIInv, ToUserIInv DEF Leave
<1>3. CASE Stopped \/ UNCHANGED vars
  BY <1>3, StutterIInv DEF Stopped
<1>4. CASE \E c \in Conds : CondBroadcast(c) BY <1>4, CondBroadcastIInv
<1>5. CASE Spawn \/ Fork BY <1>5, SpawnIInv, ForkIInv
<1>6. CASE JoinAny \/ \E t \in Tids : Join(t) BY <1>6, JoinAnyIInv, JoinIInv
<1>7. CASE ToggleIntr \/ Syscall BY <1>7, ToggleIntrIInv, SyscallIInv
<1>8. CASE \E i \in Irqs : RaiseIrq(i) \/ Isr(i) BY <1>8, RaiseIrqIInv, IsrIInv
<1> QED BY <1>1, <1>2, <1>3, <1>4, <1>5, <1>6, <1>7, <1>8 DEF Next

\* The invariant holds in every reachable state.
THEOREM Invariance == Spec => []IInv
BY InitIInv, NextIInv, PTL DEF Spec

\* Every variable keeps its type: no slot, list or register ever holds a value
\* the code could not have put there.
THEOREM TypeCorrect == Spec => []TypeOK
<1>1. IInv => TypeOK BY DEF IInv
<1> QED BY <1>1, Invariance, PTL

\* The ready list and the wait lists hold exactly the threads whose state says
\* so, each of them once (tlinsert, tlremove and tlappend under suspend_self,
\* condition_wait and condition_broadcast).
THEOREM ListsAreExact == Spec => []ListsExact
<1>1. IInv => ListsExact BY DEF IInv
<1> QED BY <1>1, Invariance, PTL

\* suspend_self always finds another thread at the head of the ready list.
THEOREM SuccessorIsAhead == Spec => []SuccessorAhead
<1>1. IInv => SuccessorAhead BY DEF IInv, HartOK, SuccessorAhead, At
<1> QED BY <1>1, Invariance, PTL

\* The assertions of thread.c, the panic on a spurious child_exit signal and
\* the one behind the suspend_self of thread_exit are never reached.
THEOREM NoAssertionFails == Spec => []NoKernelAssert
<1>1. IInv => NoKernelAssert BY DEF IInv
<1> QED BY <1>1, Invariance, PTL

\* No joining parent sleeps through the exit of a child it waits for.
THEOREM NoChildExitIsLost == Spec => []NoLostChildExit
<1>1. IInv => NoLostChildExit
  <2> SUFFICES ASSUME IInv, NEW t \in Tids, state[t] = "WAITING", waitCond[t] = t
               PROVE  /\ ret[t] = "joinany" => Zombies(t) = {}
                      /\ ret[t] = "join" => target[t] \in Children(t) \ Zombies(t)
    BY DEF NoLostChildExit
  <2>1. JoinerOK(t) BY DEF IInv, JoinersOK
  <2>2. ~HasZombie(t) => Zombies(t) = {} BY DEF HasZombie, Zombies, Children
  <2>3. IsChild(target[t], t) /\ state[target[t]] # "EXITED" =>
           target[t] \in Children(t) \ Zombies(t)
    BY DEF IsChild, Zombies, Children
  <2> QED BY <2>1, <2>2, <2>3 DEF JoinerOK
<1> QED BY <1>1, Invariance, PTL

\* The parent links stay a tree under main, across spawn, fork and recycling.
THEOREM FamilyStaysRooted == Spec => []FamilyRooted
<1>1. IInv => FamilyRooted BY DEF IInv
<1> QED BY <1>1, Invariance, PTL

------------------------------------------------------------------------------
(* The abstract life of a thread *)

LifeOf(st) == [t \in Tids |-> IF st[t] = "FREE" THEN "free"
                              ELSE IF st[t] = "EXITED" THEN "zombie" ELSE "alive"]

LEMMA LifeIsState ==
    /\ Tree!treeVars = <<LifeOf(state), parent>>
    /\ Tree!treeVars' = <<LifeOf(state'), parent'>>
BY DEF Tree!treeVars, LifeOf

\* A step that creates, ends and reaps nobody is a stutter of the tree.
LEMMA Stutters ==
    ASSUME parent' = parent,
           \A t \in Tids : /\ state'[t] = "FREE" <=> state[t] = "FREE"
                           /\ state'[t] = "EXITED" <=> state[t] = "EXITED"
    PROVE  UNCHANGED Tree!treeVars
<1>1. LifeOf(state') = LifeOf(state) BY DEF LifeOf
<1> QED BY <1>1, LifeIsState

LEMMA InitMaps == Init => Tree!Init
<1> SUFFICES ASSUME Init PROVE Tree!Init OBVIOUS
<1> USE ConstantFacts
<1>1. LifeOf(state) = [t \in Tids |-> IF t \in {MAIN_TID, IDLE_TID} THEN "alive" ELSE "free"]
  BY DEF Init, LifeOf
<1>2. parent = [t \in Tids |-> IF t = IDLE_TID THEN MAIN_TID ELSE NoTid]
  BY DEF Init
<1> QED BY <1>1, <1>2 DEF Tree!Init, Tree!Tids, Tree!MAIN_TID, Tree!IDLE_TID, Tree!NoTid,
                         LifeOf, Tids, MAIN_TID, IDLE_TID, NoTid

------------------------------------------------------------------------------
(* Steps that stutter *)

LEMMA BroadcastStutters ==
    ASSUME IInv, NEW c \in Conditions, Broadcast(state, c), parent' = parent
    PROVE  UNCHANGED Tree!treeVars
<1>1. \A t \in Woken(c) : state[t] = "WAITING" BY Broadcastable DEF BroadcastOk
<1>2. \A t \in Tids : state'[t] = IF t \in Woken(c) THEN "READY" ELSE state[t]
  BY DEF Broadcast
<1> QED BY <1>1, <1>2, Stutters

LEMMA MarkStutters ==
    ASSUME IInv, NEW c, MarkWaiting(c), state[curthr] = "RUNNING", parent' = parent
    PROVE  UNCHANGED Tree!treeVars
<1>1. \A t \in Tids : state'[t] = IF t = curthr THEN "WAITING" ELSE state[t]
  BY DEF MarkWaiting, IInv, TypeOK
<1> QED BY <1>1, Stutters

LEMMA SuspendStutters == IInv /\ Suspend => UNCHANGED Tree!treeVars
<1> SUFFICES ASSUME IInv, Suspend PROVE UNCHANGED Tree!treeVars OBVIOUS
<1>1. parent' = parent /\ curthr \in Tids
  BY DEF Suspend, Panic, thrVars, IInv, TypeOK
<1>2. CASE Panic("assert") BY <1>1, <1>2, Stutters DEF Panic, listVars
<1>3. CASE ~Panic("assert")
  <2> DEFINE next == Head(readyList)
             st == [state EXCEPT ![next] = "RUNNING"]
  <2>1. readyList # <<>> /\ state[next] = "READY" BY <1>3 DEF Suspend
  <2>2. next \in Tids BY <2>1, HeadIsReady
  <2>3. state' = IF st[curthr] = "RUNNING" THEN [st EXCEPT ![curthr] = "READY"] ELSE st
    BY <2>1, <1>3 DEF Suspend, Requeues
  <2>4. \A t \in Tids : st[t] = IF t = next THEN "RUNNING" ELSE state[t]
    BY <2>2 DEF IInv, TypeOK
  <2>5. \A t \in Tids : /\ state'[t] = "FREE" <=> state[t] = "FREE"
                        /\ state'[t] = "EXITED" <=> state[t] = "EXITED"
    <3>1. st \in [Tids -> States] BY <2>2 DEF IInv, TypeOK, States
    <3> HIDE DEF st
    <3> QED BY <1>1, <2>1, <2>3, <2>4, <3>1
  <2> QED BY <1>1, <2>5, Stutters
<1> QED BY <1>2, <1>3

LEMMA WaitStutters ==
    ASSUME IInv, NEW then, NEW child, WaitForChild(then, child)
    PROVE  UNCHANGED Tree!treeVars
<1>1. parent' = parent BY DEF WaitForChild, Panic, thrVars
<1>2. CASE state[curthr] = "RUNNING"
  <2> DEFINE c == curthr
  <2>1. MarkWaiting(c) BY <1>2 DEF WaitForChild
  <2> HIDE DEF c
  <2> QED BY <1>1, <1>2, <2>1, MarkStutters
<1>3. CASE state[curthr] # "RUNNING"
  BY <1>1, <1>3, Stutters DEF WaitForChild, Panic, listVars
<1> QED BY <1>2, <1>3

LEMMA CondStutters ==
    ASSUME IInv, NEW c \in Conds, CondWait(c) \/ CondBroadcast(c)
    PROVE  UNCHANGED Tree!treeVars
<1>1. parent' = parent BY DEF CondWait, CondBroadcast, Panic, thrVars
<1>2. CASE Panic("assert") BY <1>1, <1>2, Stutters DEF Panic, listVars
<1>3. CASE ~Panic("assert") /\ CondWait(c)
  BY <1>1, <1>3, MarkStutters DEF CondWait
<1>4. CASE ~Panic("assert") /\ CondBroadcast(c)
  BY <1>1, <1>4, BroadcastStutters, ConstantFacts DEF CondBroadcast
<1> QED BY <1>2, <1>3, <1>4

LEMMA IsrStutters ==
    ASSUME IInv, NEW i \in Irqs, Isr(i)
    PROVE  UNCHANGED Tree!treeVars
<1>1. parent' = parent BY DEF Isr, Panic, thrVars
<1>2. CASE Panic("assert") BY <1>1, <1>2, Stutters DEF Panic, listVars
<1>3. CASE ~Panic("assert") /\ i \in Conds
  BY <1>1, <1>3, BroadcastStutters, ConstantFacts DEF Isr
<1>4. CASE ~Panic("assert") /\ i \notin Conds
  BY <1>1, <1>4, Stutters DEF Isr, listVars
<1> QED BY <1>2, <1>3, <1>4

LEMMA QuietStutters ==
    ASSUME \/ CondInsert \/ Switch \/ Resume \/ IdleYield \/ IdleEmpty \/ IdleDisable \/ IdleCheck
           \/ Wfi \/ Yield \/ ToUser \/ ToggleIntr \/ Syscall \/ UNCHANGED vars
           \/ \E i \in Irqs : RaiseIrq(i)
    PROVE  UNCHANGED Tree!treeVars
<1>1. UNCHANGED <<state, parent>>
  BY DEF CondInsert, Switch, Resume, IdleYield, IdleEmpty, IdleDisable, IdleCheck, Wfi, Yield,
         ToUser, ToggleIntr, Syscall, RaiseIrq, Panic, vars, thrVars, listVars
<1> QED BY <1>1, Stutters

------------------------------------------------------------------------------
(* Steps of the tree *)

LEMMA SpawnCreates ==
    ASSUME IInv, Spawn \/ Fork
    PROVE  Tree!Next \/ UNCHANGED Tree!treeVars
<1> USE ConstantFacts
<1>1. CASE Panic("too_many_threads") \/ Panic("out_of_pages")
  BY <1>1, Stutters DEF Panic, listVars, thrVars
<1>2. CASE ~(Panic("too_many_threads") \/ Panic("out_of_pages"))
  <2>1. PICK t \in FreeSlots : /\ SpawnChild(t) \/ ForkChild(t)
                               /\ parent' = [parent EXCEPT ![t] = curthr]
    BY <1>2 DEF Spawn, Fork, Allocating, Lowest
  <2>2. t \in Tids /\ state[t] = "FREE" /\ t # curthr BY FreeSlotFacts
  <2>3. curthr \in Tids /\ state[curthr] = "RUNNING"
    BY OnHart DEF Spawn, Fork, At, InSuspend
  <2>4. \A u \in Tids : /\ state'[u] = "FREE" <=> state[u] = "FREE" /\ u # t
                        /\ state'[u] = "EXITED" <=> state[u] = "EXITED"
    BY SMTT(30), <2>1, <2>2, <2>3 DEF SpawnChild, ForkChild, IInv, TypeOK
  <2>5. LifeOf(state') = [LifeOf(state) EXCEPT ![t] = "alive"]
    BY <2>2, <2>4 DEF LifeOf
  <2>6. LifeOf(state)[curthr] = "alive" /\ LifeOf(state)[t] = "free"
    BY <2>2, <2>3 DEF LifeOf
  <2>7. Tree!Create(curthr, t)
    BY <2>1, <2>5, <2>6 DEF Tree!Create, LifeOf
  <2> QED BY <2>2, <2>3, <2>7 DEF Tree!Next, Tree!Tids, Tids
<1> QED BY <1>1, <1>2

LEMMA ExitDies ==
    ASSUME IInv, Exit
    PROVE  Tree!Next \/ UNCHANGED Tree!treeVars
<1> USE ConstantFacts
<1>1. parent' = parent BY DEF Exit, Panic, thrVars
<1>2. CASE Panic("assert") \/ curthr = MAIN_TID
  BY <1>1, <1>2, Stutters DEF Exit, Panic, listVars
<1>3. CASE ~Panic("assert") /\ curthr # MAIN_TID
  <2> DEFINE st == [state EXCEPT ![curthr] = "EXITED"]
             p == parent[curthr]
  <2>1. /\ curthr \in Tids /\ state[curthr] = "RUNNING" /\ curthr # IDLE_TID
        /\ \A c \in Conditions : curthr \notin Woken(c)
    BY OnHart DEF Exit, At, InSuspend, IdleLabels
  <2>2. p \in Conditions BY <1>3, <2>1, ParentsOK DEF IInv, HartOK
  <2>3. Broadcast(st, p) BY <1>3 DEF Exit
  <2>4. \A u \in Woken(p) : state[u] = "WAITING"
    BY <2>2, Broadcastable DEF BroadcastOk
  <2>5. \A u \in Tids : state'[u] = IF u \in Woken(p) THEN "READY" ELSE st[u]
    BY <2>3 DEF Broadcast
  <2>6. \A u \in Tids : st[u] = IF u = curthr THEN "EXITED" ELSE state[u]
    BY <2>1 DEF IInv, TypeOK
  <2> HIDE DEF st, p
  <2>7. \A u \in Tids : /\ state'[u] = "FREE" <=> state[u] = "FREE"
                        /\ state'[u] = "EXITED" <=> state[u] = "EXITED" \/ u = curthr
    BY <2>1, <2>2, <2>4, <2>5, <2>6
  <2>8. LifeOf(state') = [LifeOf(state) EXCEPT ![curthr] = "zombie"]
    BY <2>1, <2>7 DEF LifeOf
  <2>9. LifeOf(state)[curthr] = "alive" BY <2>1 DEF LifeOf
  <2>10. PICK t \in Tids : t = curthr BY <2>1
  <2>11. Tree!Die(t)
    BY <1>1, <1>3, <2>1, <2>8, <2>9, <2>10
       DEF Tree!Die, LifeOf, Tree!MAIN_TID, Tree!IDLE_TID, MAIN_TID, IDLE_TID
  <2> QED BY <2>11 DEF Tree!Next, Tree!Tids, Tids
<1> QED BY <1>2, <1>3

LEMMA RecycleReaps ==
    ASSUME IInv, state[curthr] = "RUNNING", NEW z,
           IsChild(z, curthr), state[z] = "EXITED", Recycle(z)
    PROVE  Tree!Next
<1> USE ConstantFacts
<1>1. z \in Tids /\ parent[z] = curthr /\ curthr \in Tids
  BY DEF IsChild, IInv, TypeOK
<1>2. parent' = [t \in Tids |-> IF t = z THEN NoTid
                                ELSE IF parent[t] = z THEN parent[z] ELSE parent[t]]
  BY DEF Recycle, Reparented
<1>3. \A u \in Tids : state'[u] = IF u = z THEN "FREE" ELSE state[u]
  BY <1>1 DEF Recycle, IInv, TypeOK
<1>4. LifeOf(state') = [LifeOf(state) EXCEPT ![z] = "free"]
  BY <1>1, <1>3 DEF LifeOf
<1>5. LifeOf(state)[z] = "zombie" /\ LifeOf(state)[curthr] = "alive"
  BY <1>1 DEF LifeOf
<1>6. Tree!Reap(z)
  BY <1>1, <1>2, <1>4, <1>5 DEF Tree!Reap, LifeOf, Tree!Tids, Tree!NoTid, Tids, NoTid
<1> QED BY <1>1, <1>6 DEF Tree!Next, Tree!Tids, Tids

LEMMA JoinReaps ==
    ASSUME IInv, JoinAny \/ JoinAnyScan \/ JoinAgain \/ \E t \in Tids : Join(t)
    PROVE  Tree!Next \/ UNCHANGED Tree!treeVars
<1>1. state[curthr] = "RUNNING" /\ curthr \in Tids
  BY OnHart DEF JoinAny, JoinAnyScan, JoinAgain, Join, At, InSuspend
<1>2. ASSUME NEW why, Panic(why) PROVE UNCHANGED Tree!treeVars
  BY <1>2, Stutters DEF Panic, listVars, thrVars
<1>3. ASSUME NEW t, IsChild(t, curthr), JoinTest(t)
      PROVE  Tree!Next \/ UNCHANGED Tree!treeVars
  <2>1. CASE state[t] = "EXITED"
    BY <1>1, <1>3, <2>1, RecycleReaps DEF JoinTest
  <2>2. CASE state[t] # "EXITED"
    BY <1>3, <2>2, WaitStutters DEF JoinTest
  <2> QED BY <2>1, <2>2
<1>4. CASE JoinAny \/ JoinAnyScan
  <2>1. CASE Zombies(curthr) # {}
    <3>1. PICK z \in Zombies(curthr) : Recycle(z)
      BY <1>4, <2>1 DEF JoinAny, JoinAnyScan, Lowest
    <3>2. IsChild(z, curthr) /\ state[z] = "EXITED" BY ZombieFacts
    <3> QED BY <1>1, <3>1, <3>2, RecycleReaps
  <2>2. CASE Zombies(curthr) = {}
    <3>1. Panic("childless") \/ Panic("spurious") \/ WaitForChild("joinany", NoTid)
      BY <1>4, <2>2 DEF JoinAny, JoinAnyScan
    <3> QED BY <1>2, <3>1, WaitStutters
  <2> QED BY <2>1, <2>2
<1>5. CASE JoinAgain
  <2>1. IsChild(target[curthr], curthr)
    BY <1>1, <1>5 DEF JoinAgain, At, IInv, JoinersOK, JoinerOK
  <2> QED BY <1>3, <1>5, <2>1 DEF JoinAgain
<1>6. CASE \E t \in Tids : Join(t)
  BY <1>3, <1>6, ZombieFacts DEF Join
<1> QED BY <1>4, <1>5, <1>6

------------------------------------------------------------------------------

LEMMA NextMaps == IInv /\ [Next]_vars => [Tree!Next]_Tree!treeVars
<1> SUFFICES ASSUME IInv, [Next]_vars PROVE Tree!Next \/ UNCHANGED Tree!treeVars
  OBVIOUS
<1>1. CASE Step
  BY <1>1, QuietStutters, SuspendStutters, JoinReaps DEF Step
<1>2. CASE Leave
  BY <1>2, CondStutters, QuietStutters, ExitDies DEF Leave
<1>3. CASE Stopped \/ UNCHANGED vars BY <1>3, QuietStutters DEF Stopped
<1>4. CASE \E c \in Conds : CondBroadcast(c) BY <1>4, CondStutters
<1>5. CASE Spawn \/ Fork BY <1>5, SpawnCreates
<1>6. CASE JoinAny \/ \E t \in Tids : Join(t) BY <1>6, JoinReaps
<1>7. CASE ToggleIntr \/ Syscall BY <1>7, QuietStutters
<1>8. CASE \E i \in Irqs : RaiseIrq(i) \/ Isr(i) BY <1>8, QuietStutters, IsrStutters
<1> QED BY <1>1, <1>2, <1>3, <1>4, <1>5, <1>6, <1>7, <1>8 DEF Next

\* The thread manager implements the family tree: a thread is created by a
\* living parent in a slot nobody holds, reaped once, by its living parent,
\* after it exited, and its children pass to that parent.
THEOREM ImplementsTree == Spec => TreeSpec
BY InitMaps, NextMaps, Invariance, PTL DEF Spec, TreeSpec, Tree!Spec

------------------------------------------------------------------------------
(* Memory spaces *)

OwnSpace == proc[curthr] # NoTid => space = proc[curthr]

LEMMA OwnSpaceStep == IInv /\ OwnSpace /\ [Next]_vars => OwnSpace'
<1> SUFFICES ASSUME IInv, OwnSpace, [Next]_vars PROVE OwnSpace' OBVIOUS
<1>1. CASE UNCHANGED <<proc, curthr, space>> BY <1>1 DEF OwnSpace
<1>2. CASE Switch
  BY <1>2 DEF Switch, SpaceFor, OwnSpace, thrVars
<1>3. CASE Spawn \/ Fork
  <2>1. CASE Panic("too_many_threads") \/ Panic("out_of_pages")
    BY <2>1 DEF Panic, OwnSpace, thrVars
  <2>2. CASE ~(Panic("too_many_threads") \/ Panic("out_of_pages"))
    <3>1. PICK t \in FreeSlots : SpawnChild(t) \/ ForkChild(t)
      BY <1>3, <2>2 DEF Spawn, Fork, Allocating, Lowest
    <3>2. t \in Tids /\ t # curthr BY FreeSlotFacts
    <3> QED BY <3>1, <3>2 DEF SpawnChild, ForkChild, OwnSpace, IInv, TypeOK
  <2> QED BY <2>1, <2>2
<1>4. ASSUME NEW z, z # curthr, Recycle(z) PROVE OwnSpace'
  BY <1>4 DEF Recycle, OwnSpace, IInv, TypeOK
<1>5. ASSUME NEW z \in Zombies(curthr) PROVE z # curthr
  BY ZombieFacts, ParentsOK DEF IsChild, IInv, TypeOK
<1>6. ASSUME NEW then, NEW child, WaitForChild(then, child)
      PROVE  UNCHANGED <<proc, curthr, space>>
  BY <1>6 DEF WaitForChild, Panic, thrVars
<1>7. CASE JoinAny \/ JoinAnyScan
  BY <1>1, <1>4, <1>5, <1>6, <1>7 DEF JoinAny, JoinAnyScan, Panic, thrVars, Lowest
<1>8. ASSUME NEW t, IsChild(t, curthr), JoinTest(t) PROVE OwnSpace'
  <2>1. t # curthr BY <1>8, ParentsOK DEF IsChild, IInv, TypeOK
  <2> QED BY <1>1, <1>4, <1>6, <1>8, <2>1 DEF JoinTest
<1>9. CASE JoinAgain
  <2>1. IsChild(target[curthr], curthr)
    BY <1>9 DEF JoinAgain, At, IInv, TypeOK, JoinersOK, JoinerOK
  <2> QED BY <1>8, <1>9, <2>1 DEF JoinAgain
<1>10. CASE \E t \in Tids : Join(t)
  BY <1>8, <1>10, ZombieFacts DEF Join
<1>11. CASE \/ CondInsert \/ Suspend \/ Resume \/ IdleYield \/ IdleEmpty \/ IdleDisable \/ IdleCheck
            \/ Wfi \/ Leave \/ ToggleIntr \/ Syscall \/ Stopped \/ UNCHANGED vars
            \/ \E c \in Conds : CondBroadcast(c)
            \/ \E i \in Irqs : RaiseIrq(i) \/ Isr(i)
  <2>1. UNCHANGED <<proc, curthr, space>>
    BY <1>11 DEF CondInsert, Suspend, Resume, IdleYield, IdleEmpty, IdleDisable, IdleCheck, Wfi,
                 Leave, CondWait, Yield, Exit, ToUser, ToggleIntr, Syscall, Stopped,
                 CondBroadcast, RaiseIrq, Isr, Panic, vars, thrVars
  <2> QED BY <1>1, <2>1
<1> QED BY <1>2, <1>3, <1>7, <1>9, <1>10, <1>11 DEF Next, Step

\* A process never executes in the memory space of another: suspend_self and
\* _thread_finish_fork have switched to its own before it runs.
THEOREM ProcessesRunInOwnSpace == Spec => []UserInOwnSpace
<1>1. Init => OwnSpace BY ConstantFacts DEF Init, OwnSpace
<1>2. OwnSpace => UserInOwnSpace BY DEF OwnSpace, UserInOwnSpace
<1> QED BY <1>1, <1>2, OwnSpaceStep, Invariance, PTL DEF Spec

------------------------------------------------------------------------------
(* The idle thread *)

\* With interrupts off nothing gets on the ready list behind the idle thread's back.
IdleOK ==
    /\ pc[curthr] \in {"idle_off", "wfi"} => ~sie
    /\ pc[curthr] = "wfi" => readyList = <<>>

\* A step after which the hart is not in the idle loop, or is back at its head.
LEMMA NotDozing == pc'[curthr'] \notin {"idle_off", "wfi"} => IdleOK'
BY DEF IdleOK

LEMMA IdleOKStep == IInv /\ IdleOK /\ [Next]_vars => IdleOK'
<1> SUFFICES ASSUME IInv, IdleOK, [Next]_vars PROVE IdleOK' OBVIOUS
<1>1. curthr \in Tids /\ pc \in [Tids -> Labels] BY DEF IInv, TypeOK
<1>2. CASE UNCHANGED <<pc, curthr, sie, readyList>> BY <1>2 DEF IdleOK
<1>3. CASE IdleEmpty \/ IdleDisable \/ IdleCheck \/ Wfi
  BY <1>1, <1>3 DEF IdleEmpty, IdleDisable, IdleCheck, Wfi, At, Goto, IdleOK, listVars
<1>4. CASE Syscall \/ ToUser \/ ToggleIntr
  BY <1>1, <1>4 DEF Syscall, ToUser, ToggleIntr, At, Goto, IdleOK
<1>5. ASSUME NEW i \in Irqs, Isr(i) PROVE IdleOK'
  <2>1. sie \/ pc[curthr] = "user" BY <1>5 DEF Isr
  <2>2. pc[curthr] \notin {"idle_off", "wfi"} BY <2>1 DEF IdleOK
  <2>3. curthr' = curthr /\ pc' \in {pc, [pc EXCEPT ![curthr] = "suspend"]}
    BY <1>5 DEF Isr, Panic
  <2> QED BY <1>1, <2>2, <2>3, NotDozing
<1>6. CASE Switch
  <2>1. curthr' = nextThr /\ pc' = [pc EXCEPT ![curthr] = "resume"] /\ nextThr \in Tids \ {curthr}
    BY <1>6 DEF Switch, Goto, At, IInv, HartOK
  <2>2. pc[nextThr] \in OffHart BY <2>1 DEF IInv, LabelsOK
  <2> QED BY <1>1, <2>1, <2>2, NotDozing DEF OffHart
<1>7. CASE CondInsert \/ Suspend \/ Resume \/ IdleYield \/ Yield \/ Exit
           \/ (\E c \in Conds : CondWait(c) \/ CondBroadcast(c))
           \/ JoinAny \/ JoinAnyScan \/ JoinAgain \/ \E t \in Tids : Join(t)
  <2>1. /\ curthr' = curthr
        /\ \/ UNCHANGED <<pc, curthr, sie, readyList>>
           \/ \E c \in Conds : CondBroadcast(c)
           \/ pc' = [pc EXCEPT ![curthr] = "suspend"]
           \/ pc' = [pc EXCEPT ![curthr] = "insert"]
           \/ pc' = [pc EXCEPT ![curthr] = "switch"]
           \/ Resume /\ pc' = [pc EXCEPT ![curthr] = ret[curthr]]
           \/ \E z : pc' = [pc EXCEPT ![z] = "none", ![curthr] = "kern"]
    BY <1>7 DEF CondInsert, Suspend, Resume, IdleYield, Yield, Exit, CondWait, CondBroadcast,
                JoinAny, JoinAnyScan, JoinAgain, Join, JoinTest, WaitForChild, Recycle, Goto,
                Panic, listVars
  <2>2. CASE \E c \in Conds : CondBroadcast(c)
    <3>1. pc[curthr] = "kern" /\ pc' = pc BY <2>2 DEF CondBroadcast, At, Panic
    <3> QED BY <2>1, <3>1, NotDozing
  <2>3. ret[curthr] \in Returns BY <1>1 DEF IInv, TypeOK
  <2> QED BY <1>1, <1>2, <2>1, <2>2, <2>3, NotDozing DEF Returns
<1>8. CASE Spawn \/ Fork
  <2>1. CASE Panic("too_many_threads") \/ Panic("out_of_pages")
    BY <1>2, <2>1 DEF Panic, listVars
  <2>2. CASE ~(Panic("too_many_threads") \/ Panic("out_of_pages"))
    <3>1. PICK t \in FreeSlots : SpawnChild(t) \/ ForkChild(t)
      BY <1>8, <2>2 DEF Spawn, Fork, Allocating, Lowest
    <3>2. t \in Tids /\ t # curthr BY FreeSlotFacts
    <3>3. pc[curthr] = "kern" BY <1>8 DEF Spawn, Fork, At
    <3> QED BY <1>1, <3>1, <3>2, <3>3, NotDozing DEF SpawnChild, ForkChild
  <2> QED BY <2>1, <2>2
<1>9. CASE Stopped \/ UNCHANGED vars \/ \E i \in Irqs : RaiseIrq(i)
  BY <1>2, <1>9 DEF Stopped, RaiseIrq, vars, listVars
<1> QED BY <1>3, <1>4, <1>5, <1>6, <1>7, <1>8, <1>9 DEF Next, Step, Leave

\* The idle thread sleeps in wfi only while no thread is ready: between the second look
\* at the ready list and the sleep no interrupt is taken.
THEOREM IdleSleepsWhenIdle == Spec => []NoSleepWhileReady
<1>1. Init => IdleOK BY ConstantFacts DEF Init, IdleOK
<1>2. IdleOK => NoSleepWhileReady BY DEF IdleOK, NoSleepWhileReady, At
<1> QED BY <1>1, <1>2, IdleOKStep, Invariance, PTL DEF Spec

------------------------------------------------------------------------------
(* The order of the ready list *)

LEMMA AheadByIndex ==
    ASSUME NEW s \in Seq(Tids), NEW t, NEW u
    PROVE  Ahead(s, t, u) <=> \E i, j \in 1 .. Len(s) : i < j /\ s[i] = t /\ s[j] = u
<1>1. DOMAIN s = 1 .. Len(s) BY LenProperties
<1> QED BY <1>1 DEF Ahead

\* tlappend and tlinsert leave the order of what is on the list.
LEMMA AheadInFront ==
    ASSUME NEW s \in Seq(Tids), NEW w \in Seq(Tids), NEW t, NEW u, Ahead(s, t, u)
    PROVE  Ahead(s \o w, t, u)
<1>1. PICK i, j \in 1 .. Len(s) : i < j /\ s[i] = t /\ s[j] = u BY AheadByIndex
<1> DEFINE a == s \o w
<1>2. /\ a \in Seq(Tids) /\ Len(a) = Len(s) + Len(w)
      /\ \A k \in 1 .. Len(s) + Len(w) : a[k] = IF k <= Len(s) THEN s[k] ELSE w[k - Len(s)]
  BY ConcatProperties
<1>3. Len(s) \in Nat /\ Len(w) \in Nat BY LenProperties
<1> HIDE DEF a
<1>4. i \in 1 .. Len(a) /\ j \in 1 .. Len(a) /\ a[i] = t /\ a[j] = u
  BY <1>1, <1>2, <1>3
<1>5. Ahead(a, t, u) BY <1>1, <1>2, <1>4, AheadByIndex
<1> QED BY <1>5 DEF a

LEMMA AheadAfterInsert ==
    ASSUME NEW s \in Seq(Tids), NEW x \in Tids, NEW t, NEW u, Ahead(s, t, u)
    PROVE  Ahead(Append(s, x), t, u)
<1>1. PICK i, j \in 1 .. Len(s) : i < j /\ s[i] = t /\ s[j] = u BY AheadByIndex
<1> DEFINE a == Append(s, x)
<1>2. a \in Seq(Tids) /\ Len(a) = Len(s) + 1 /\ \A k \in 1 .. Len(s) : a[k] = s[k]
  BY AppendProperties
<1>3. Len(s) \in Nat BY LenProperties
<1> HIDE DEF a
<1>4. i \in 1 .. Len(a) /\ j \in 1 .. Len(a) /\ a[i] = t /\ a[j] = u
  BY <1>1, <1>2, <1>3
<1>5. Ahead(a, t, u) BY <1>1, <1>2, <1>4, AheadByIndex
<1> QED BY <1>5 DEF a

\* tlremove leaves the order of the others.
LEMMA AheadAfterRemove ==
    ASSUME NEW s \in Seq(Tids), s # <<>>, NEW t, NEW u, Ahead(s, t, u), t # Head(s)
    PROVE  Ahead(Tail(s), t, u)
<1>1. PICK i, j \in 1 .. Len(s) : i < j /\ s[i] = t /\ s[j] = u BY AheadByIndex
<1> DEFINE a == Tail(s)
<1>2. a \in Seq(Tids) /\ Len(a) = Len(s) - 1 /\ \A k \in 1 .. Len(a) : a[k] = s[k + 1]
  BY HeadTailProperties
<1>3. Len(s) \in Nat BY LenProperties
<1>4. Head(s) = s[1] OBVIOUS
<1> HIDE DEF a
<1>5. i - 1 \in 1 .. Len(a) /\ j - 1 \in 1 .. Len(a) /\ i - 1 < j - 1
  BY <1>1, <1>2, <1>3, <1>4
<1>6. a[i - 1] = t /\ a[j - 1] = u BY <1>1, <1>2, <1>5
<1>7. Ahead(a, t, u) BY <1>2, <1>5, <1>6, AheadByIndex
<1> QED BY <1>7 DEF a

\* Of what is ready or waits for c, either both are ready, or the one behind waits.
LEMMA BehindWaits ==
    ASSUME IInv, NEW c \in Conditions, NEW t, NEW u, Ahead(readyList \o waitList[c], t, u)
    PROVE  \/ Ahead(readyList, t, u)
           \/ u \in Tids /\ state[u] = "WAITING" /\ waitCond[u] = c
<1> DEFINE s == readyList
           w == waitList[c]
           a == s \o w
<1>1. s \in Seq(Tids) /\ w \in Seq(Tids) BY DEF IInv, TypeOK
<1>2. \A x : x \in Range(w) => x \in Tids /\ state[x] = "WAITING" /\ waitCond[x] = c
  BY <1>1, RangeByIndex DEF IInv, ListsExact
<1> HIDE DEF s, w
<1>3. /\ a \in Seq(Tids) /\ Len(a) = Len(s) + Len(w)
      /\ \A k \in 1 .. Len(s) + Len(w) : a[k] = IF k <= Len(s) THEN s[k] ELSE w[k - Len(s)]
  BY <1>1, ConcatProperties
<1>4. Len(s) \in Nat /\ Len(w) \in Nat BY <1>1, LenProperties
<1>8. Ahead(a, t, u) BY DEF s, w
<1> HIDE DEF a
<1>5. PICK i, j \in 1 .. Len(a) : i < j /\ a[i] = t /\ a[j] = u BY <1>8, <1>3, AheadByIndex
<1>6. CASE j <= Len(s)
  <2>1. i \in 1 .. Len(s) /\ j \in 1 .. Len(s) /\ s[i] = t /\ s[j] = u
    BY <1>3, <1>4, <1>5, <1>6
  <2> QED BY <1>1, <1>5, <2>1, AheadByIndex DEF s
<1>7. CASE j > Len(s)
  <2>1. j - Len(s) \in 1 .. Len(w) /\ w[j - Len(s)] = u BY <1>3, <1>4, <1>5, <1>7
  <2>2. u \in Range(w) BY <1>1, <2>1, RangeByIndex
  <2> QED BY <1>2, <2>2
<1> QED BY <1>3, <1>4, <1>5, <1>6, <1>7

Orderly ==
    readyList' # readyList =>
        \A c \in Conditions, t, u \in Range(readyList') :
            Ahead(readyList \o waitList[c], t, u) => Ahead(readyList', t, u)

\* A broadcast of c0 puts its waiters behind, and nobody that waits for another.
LEMMA BroadcastOrderly ==
    ASSUME IInv, NEW c0 \in Conditions, readyList' = ReadyAfter(c0)
    PROVE  Orderly
<1> SUFFICES ASSUME NEW c \in Conditions, NEW t, NEW u \in Range(readyList'),
                    Ahead(readyList \o waitList[c], t, u)
             PROVE  Ahead(readyList', t, u)
  BY DEF Orderly
<1>1. readyList \in Seq(Tids) /\ waitList[c0] \in Seq(Tids) BY DEF IInv, TypeOK
<1>2. readyList' = readyList \o waitList[c0] BY DEF ReadyAfter
<1>3. CASE c = c0 BY <1>2, <1>3
<1>4. CASE Ahead(readyList, t, u) BY <1>1, <1>2, <1>4, AheadInFront
<1>5. CASE c # c0 /\ u \in Tids /\ state[u] = "WAITING" /\ waitCond[u] = c
  <2>1. u \in Range(readyList) \cup Range(waitList[c0]) BY <1>1, <1>2, JoinProperties
  <2> QED BY <1>5, <2>1 DEF IInv, ListsExact
<1> QED BY <1>3, <1>4, <1>5, BehindWaits

\* tlinsert of a thread that does not wait.
LEMMA InsertOrderly ==
    ASSUME IInv, NEW x \in Tids, state[x] # "WAITING", readyList' = Append(readyList, x)
    PROVE  Orderly
<1> SUFFICES ASSUME NEW c \in Conditions, NEW t, NEW u \in Range(readyList'),
                    Ahead(readyList \o waitList[c], t, u)
             PROVE  Ahead(readyList', t, u)
  BY DEF Orderly
<1>1. readyList \in Seq(Tids) BY DEF IInv, TypeOK
<1>2. u \in Range(readyList) \cup {x} BY <1>1, InsertProperties
<1>3. ~(u \in Tids /\ state[u] = "WAITING") BY <1>2 DEF IInv, ListsExact
<1> QED BY <1>1, <1>3, BehindWaits, AheadAfterInsert

\* suspend_self takes the head, and may put itself at the end.
LEMMA SuspendOrderly == IInv /\ Suspend => Orderly
<1> SUFFICES ASSUME IInv, Suspend, readyList' # readyList PROVE Orderly BY DEF Orderly
<1> DEFINE s == readyList
<1>1. s \in Seq(Tids) /\ IsInjective(s) /\ curthr \in Tids BY DEF IInv, TypeOK, ListsExact
<1>2. s # <<>> /\ Head(s) # curthr
  BY DEF Suspend, At, Panic, listVars, IInv, HartOK
<1>3. \/ readyList' = Tail(s)
      \/ readyList' = Append(Tail(s), curthr) /\ state[curthr] = "RUNNING"
  <2>1. /\ s # <<>> /\ state[Head(s)] = "READY" /\ Head(s) \in Tids
    BY <1>2, HeadIsReady
  <2> DEFINE st == [state EXCEPT ![Head(s)] = "RUNNING"]
  <2>2. readyList' = IF Requeues(st) THEN Append(Tail(s), curthr) ELSE Tail(s)
    BY <2>1 DEF Suspend, Requeue, Panic, listVars
  <2>3. st[curthr] = state[curthr] BY <1>1, <1>2 DEF IInv, TypeOK
  <2> QED BY <2>2, <2>3 DEF Requeues
<1>4. /\ Tail(s) \in Seq(Tids)
      /\ Range(Tail(s)) = Range(s) \ {Head(s)}
  BY <1>1, <1>2, RemoveProperties
<1>5. Range(Append(Tail(s), curthr)) = Range(Tail(s)) \cup {curthr}
  BY <1>1, <1>4, InsertProperties
<1> SUFFICES ASSUME NEW c \in Conditions, NEW t \in Range(readyList'), NEW u \in Range(readyList'),
                    Ahead(s \o waitList[c], t, u)
             PROVE  Ahead(readyList', t, u)
  BY DEF Orderly
<1>6. t # Head(s) BY <1>2, <1>3, <1>4, <1>5
<1>7. ~(u \in Tids /\ state[u] = "WAITING")
  <2>1. u \in Range(s) \/ (u = curthr /\ state[curthr] = "RUNNING") BY <1>3, <1>4, <1>5
  <2> QED BY <2>1 DEF IInv, ListsExact
<1>8. Ahead(s, t, u) BY <1>7, BehindWaits
<1>9. Ahead(Tail(s), t, u) BY <1>1, <1>2, <1>6, <1>8, AheadAfterRemove
<1>10. Ahead(Append(Tail(s), curthr), t, u) BY <1>1, <1>4, <1>9, AheadAfterInsert
<1> QED BY <1>3, <1>9, <1>10

LEMMA NextOrderly == IInv /\ Next => Orderly
<1> SUFFICES ASSUME IInv, Next PROVE Orderly OBVIOUS
<1>1. CASE readyList' = readyList BY <1>1 DEF Orderly
<1>2. CASE Suspend BY <1>2, SuspendOrderly
<1>3. CASE \E c \in Conds : CondBroadcast(c)
  BY <1>1, <1>3, BroadcastOrderly, ConstantFacts DEF CondBroadcast, Broadcast, Panic, listVars
<1>4. CASE \E i \in Irqs : Isr(i)
  BY <1>1, <1>4, BroadcastOrderly, ConstantFacts DEF Isr, Broadcast, Panic, listVars
<1>5. CASE Exit
  <2>1. CASE Panic("assert") \/ curthr = MAIN_TID
    BY <1>1, <1>5, <2>1 DEF Exit, Panic, listVars
  <2>2. CASE ~Panic("assert") /\ curthr # MAIN_TID
    <3> DEFINE p == parent[curthr]
    <3>1. curthr \in Tids /\ state[curthr] = "RUNNING"
      BY <1>5, OnHart DEF Exit, At, InSuspend
    <3>2. p \in Conditions BY <2>2, <3>1, ParentsOK, ConstantFacts
    <3>3. readyList' = ReadyAfter(p) BY <1>5, <2>2 DEF Exit, Broadcast
    <3> HIDE DEF p
    <3> QED BY <3>2, <3>3, BroadcastOrderly
  <2> QED BY <2>1, <2>2
<1>6. CASE Spawn \/ Fork
  <2>1. CASE Panic("too_many_threads") \/ Panic("out_of_pages")
    BY <1>1, <2>1 DEF Panic, listVars
  <2>2. CASE ~(Panic("too_many_threads") \/ Panic("out_of_pages"))
    <3>1. PICK t \in FreeSlots : SpawnChild(t) \/ ForkChild(t)
      BY <1>6, <2>2 DEF Spawn, Fork, Allocating, Lowest
    <3>2. t \in Tids /\ state[t] = "FREE" BY FreeSlotFacts
    <3>3. curthr \in Tids /\ state[curthr] = "RUNNING"
      BY <1>6, OnHart DEF Spawn, Fork, At, InSuspend
    <3>4. \E x \in {t, curthr} : readyList' = Append(readyList, x)
      BY <3>1 DEF SpawnChild, ForkChild
    <3> QED BY <3>2, <3>3, <3>4, InsertOrderly
  <2> QED BY <2>1, <2>2
<1>7. ASSUME NEW t, Recycle(t) PROVE readyList' = readyList BY <1>7 DEF Recycle
<1>8. ASSUME NEW then, NEW child, WaitForChild(then, child) PROVE readyList' = readyList
  BY <1>8 DEF WaitForChild, MarkWaiting, Panic, listVars
<1>9. CASE JoinAny \/ JoinAnyScan \/ JoinAgain \/ \E t \in Tids : Join(t)
  BY <1>1, <1>7, <1>8, <1>9
     DEF JoinAny, JoinAnyScan, JoinAgain, Join, JoinTest, Panic, listVars
<1>10. CASE \/ CondInsert \/ Switch \/ Resume \/ IdleYield \/ IdleEmpty \/ IdleDisable
            \/ IdleCheck \/ Wfi \/ Yield \/ ToUser \/ ToggleIntr \/ Syscall \/ Stopped
            \/ (\E c \in Conds : CondWait(c)) \/ (\E i \in Irqs : RaiseIrq(i))
  BY <1>1, <1>10 DEF CondInsert, Switch, Resume, IdleYield, IdleEmpty, IdleDisable, IdleCheck,
                     Wfi, Yield, ToUser, ToggleIntr, Syscall, Stopped, CondWait, MarkWaiting,
                     RaiseIrq, Panic, vars, listVars
<1> QED BY <1>2, <1>3, <1>4, <1>5, <1>6, <1>9, <1>10 DEF Next, Step, Leave

\* Threads run in the order they became ready: a broadcast puts its waiters behind all
\* that are ready, in the order they came to wait, and nobody overtakes later.
THEOREM WokenInOrder == Spec => WakeOrder
<1>1. IInv /\ [Next]_vars => [Orderly]_vars BY NextOrderly
<1> QED BY <1>1, Invariance, PTL DEF Spec, WakeOrder, Orderly


==============================================================================
