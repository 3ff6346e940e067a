-------------------------- MODULE DescriptorsProofs ---------------------------
(***************************************************************************)
(* Theorems about Descriptors.                                              *)
(***************************************************************************)
EXTENDS Descriptors, FiniteSetTheorems, WellFoundedInduction, TLAPS

------------------------------------------------------------------------------
(* Counting the users of an object *)

Tables == [Procs -> [FDs -> Objects \cup {Null}]]
Hands == [Procs -> Objects \cup {Null}]

HandUsers(h, o) == {p \in Procs : h[p] = o}
TableUsers(tab, o) == {e \in Procs \X FDs : tab[e[1]][e[2]] = o}
Row(p, S) == {p} \X S

LEMMA FinitePlaces ==
    /\ IsFiniteSet(Procs) /\ IsFiniteSet(FDs)
    /\ \A S \in SUBSET FDs : IsFiniteSet(S) /\ Cardinality(S) \in Nat
    /\ \A S \in SUBSET Procs : IsFiniteSet(S) /\ Cardinality(S) \in Nat
    /\ \A S \in SUBSET (Procs \X FDs) : IsFiniteSet(S) /\ Cardinality(S) \in Nat
<1>1. IsFiniteSet(Procs) BY DescriptorsAssumption
<1>2. IsFiniteSet(FDs)
  <2>1. IOMAX - 1 \in Int BY DescriptorsAssumption
  <2> QED BY <2>1, FS_Interval DEF FDs
<1>3. IsFiniteSet(Procs \X FDs) BY <1>1, <1>2, FS_Product
<1> QED BY <1>1, <1>2, <1>3, FS_Subset, FS_CardinalityType

\* A row of a table has as many places as descriptors.
LEMMA RowCount ==
    ASSUME NEW p \in Procs, NEW S \in SUBSET FDs
    PROVE  IsFiniteSet(Row(p, S)) /\ Cardinality(Row(p, S)) = Cardinality(S)
<1> DEFINE f == [x \in S |-> <<p, x>>]
<1>1. f \in Bijection(S, Row(p, S))
  <2>1. f \in [S -> Row(p, S)] BY DEF Row
  <2>2. \A x, y \in S : f[x] = f[y] => x = y OBVIOUS
  <2>3. \A e \in Row(p, S) : \E x \in S : f[x] = e BY DEF Row
  <2> QED BY <2>1, <2>2, <2>3 DEF Bijection, Injection, Surjection, IsInjective
<1>2. IsFiniteSet(S) BY FinitePlaces
<1> QED BY <1>1, <1>2, FS_Bijection DEF ExistsBijection

\* A table with more places that name an object.
LEMMA RowUsers ==
    ASSUME NEW tab \in Tables, NEW tab2 \in Tables, NEW o \in Objects,
           NEW p \in Procs, NEW S \in SUBSET FDs,
           \A fd \in S : tab[p][fd] # o,
           \A q \in Procs, fd \in FDs :
              tab2[q][fd] = o <=> tab[q][fd] = o \/ (q = p /\ fd \in S)
    PROVE  Cardinality(TableUsers(tab2, o))
             = Cardinality(TableUsers(tab, o)) + Cardinality(S)
<1> DEFINE A == TableUsers(tab, o)
           B == Row(p, S)
<1>1. TableUsers(tab2, o) = A \cup B BY DEF TableUsers, Row
<1>2. A \cap B = {} BY DEF TableUsers, Row
<1>3. IsFiniteSet(A) /\ Cardinality(A) \in Nat BY FinitePlaces DEF TableUsers
<1>4. IsFiniteSet(B) /\ Cardinality(B) = Cardinality(S) BY RowCount
<1>5. Cardinality(S) \in Nat BY FinitePlaces
<1> HIDE DEF A, B
<1>6. Cardinality(A \cup B) = Cardinality(A) + Cardinality(B) - Cardinality(A \cap B)
  BY <1>3, <1>4, FS_Union
<1>7. Cardinality(A \cap B) = 0 BY <1>2, FS_EmptySet
<1> QED BY <1>1, <1>3, <1>4, <1>5, <1>6, <1>7 DEF A

\* The entry of one place changes.
Counts(x, o) == IF x = o THEN 1 ELSE 0

LEMMA PlaceUsers ==
    ASSUME NEW tab \in Tables, NEW tab2 \in Tables, NEW o \in Objects,
           NEW p \in Procs, NEW i \in FDs, NEW x \in Objects \cup {Null},
           \A q \in Procs, fd \in FDs :
              tab2[q][fd] = IF q = p /\ fd = i THEN x ELSE tab[q][fd]
    PROVE  Cardinality(TableUsers(tab2, o)) + Counts(tab[p][i], o)
             = Cardinality(TableUsers(tab, o)) + Counts(x, o)
<1>1. tab2 \in Tables OBVIOUS
<1>2. \A q \in Procs, fd \in FDs :
         tab2[q][fd] = IF q = p /\ fd = i THEN x ELSE tab[q][fd]
  OBVIOUS
<1>3. /\ Cardinality(TableUsers(tab, o)) \in Nat
      /\ Cardinality(TableUsers(tab2, o)) \in Nat
  BY FinitePlaces DEF TableUsers
<1> DEFINE S == {i}
<1>4. Cardinality(S) = 1 /\ S \in SUBSET FDs /\ \A fd : fd \in S <=> fd = i
  BY FS_Singleton
<1> HIDE DEF S
<1>5. CASE x = o /\ tab[p][i] # o
  <2>1. \A fd \in S : tab[p][fd] # o BY <1>4, <1>5
  <2>2. \A q \in Procs, fd \in FDs :
           tab2[q][fd] = o <=> tab[q][fd] = o \/ (q = p /\ fd \in S)
    BY <1>2, <1>4, <1>5
  <2>3. Cardinality(TableUsers(tab2, o)) = Cardinality(TableUsers(tab, o)) + Cardinality(S)
    BY <1>1, <1>4, <2>1, <2>2, RowUsers
  <2> QED BY <1>1, <1>3, <1>4, <1>5, <2>3 DEF Counts
<1>6. CASE x # o /\ tab[p][i] = o
  <2>1. \A fd \in S : tab2[p][fd] # o BY <1>2, <1>4, <1>6
  <2>2. \A q \in Procs, fd \in FDs :
           tab[q][fd] = o <=> tab2[q][fd] = o \/ (q = p /\ fd \in S)
    BY <1>2, <1>4, <1>6
  <2>3. Cardinality(TableUsers(tab, o)) = Cardinality(TableUsers(tab2, o)) + Cardinality(S)
    BY <1>1, <1>4, <2>1, <2>2, RowUsers
  <2> QED BY <1>1, <1>3, <1>4, <1>6, <2>3 DEF Counts
<1>7. CASE x = o <=> tab[p][i] = o
  <2>1. TableUsers(tab2, o) = TableUsers(tab, o) BY <1>2, <1>7 DEF TableUsers
  <2> QED BY <1>1, <1>3, <1>7, <2>1 DEF Counts
<1> QED BY <1>5, <1>6, <1>7

\* The hand of one process changes.
LEMMA HandChanges ==
    ASSUME NEW h \in Hands, NEW h2 \in Hands, NEW o \in Objects,
           NEW p \in Procs, NEW x \in Objects \cup {Null},
           \A q \in Procs : h2[q] = IF q = p THEN x ELSE h[q]
    PROVE  Cardinality(HandUsers(h2, o)) + Counts(h[p], o)
             = Cardinality(HandUsers(h, o)) + Counts(x, o)
<1> DEFINE A == HandUsers(h, o)
           B == HandUsers(h2, o)
<1>1. \A q \in Procs : h2[q] = IF q = p THEN x ELSE h[q] OBVIOUS
<1>2. /\ IsFiniteSet(A) /\ Cardinality(A) \in Nat
      /\ IsFiniteSet(B) /\ Cardinality(B) \in Nat
  BY FinitePlaces DEF HandUsers
<1>3. /\ x = o => B = A \cup {p}
      /\ x # o => B = A \ {p}
      /\ p \in A <=> h[p] = o
  BY <1>1 DEF HandUsers
<1> HIDE DEF A, B
<1>4. /\ Cardinality(A \cup {p}) = IF p \in A THEN Cardinality(A) ELSE Cardinality(A) + 1
      /\ Cardinality(A \ {p}) = IF p \in A THEN Cardinality(A) - 1 ELSE Cardinality(A)
  BY <1>2, FS_AddElement, FS_RemoveElement
<1>5. Cardinality(B) + Counts(h[p], o) = Cardinality(A) + Counts(x, o)
  <2>1. CASE x = o
    <3>1. Cardinality(B) = IF h[p] = o THEN Cardinality(A) ELSE Cardinality(A) + 1
      BY <1>3, <1>4, <2>1
    <3> QED BY <1>2, <2>1, <3>1 DEF Counts
  <2>2. CASE x # o
    <3>1. Cardinality(B) = IF h[p] = o THEN Cardinality(A) - 1 ELSE Cardinality(A)
      BY <1>3, <1>4, <2>2
    <3> QED BY <1>2, <2>2, <3>1 DEF Counts
  <2> QED BY <2>1, <2>2
<1> QED BY <1>5 DEF A, B

\* ioclose of some of the descriptors of a process; fork, into an empty table.
LEMMA DropUsers ==
    ASSUME NEW tab \in Tables, NEW tab2 \in Tables, NEW o \in Objects,
           NEW p \in Procs, NEW gone \in SUBSET FDs,
           \A q \in Procs, fd \in FDs :
              tab2[q][fd] = IF q = p /\ fd \in gone THEN Null ELSE tab[q][fd]
    PROVE  Cardinality(TableUsers(tab, o))
             = Cardinality(TableUsers(tab2, o))
               + Cardinality({fd \in FDs : tab[p][fd] = o} \cap gone)
<1> DEFINE S == {fd \in FDs : tab[p][fd] = o} \cap gone
<1>1. S \in SUBSET FDs OBVIOUS
<1>2. o # Null BY NullAssumption
<1>3. \A fd \in S : tab2[p][fd] # o BY <1>2
<1>4. \A q \in Procs, fd \in FDs :
         tab[q][fd] = o <=> tab2[q][fd] = o \/ (q = p /\ fd \in S)
  BY <1>2
<1> HIDE DEF S
<1>5. Cardinality(TableUsers(tab, o)) = Cardinality(TableUsers(tab2, o)) + Cardinality(S)
  BY <1>1, <1>3, <1>4, RowUsers
<1> QED BY <1>5 DEF S

LEMMA CopyUsers ==
    ASSUME NEW tab \in Tables, NEW tab2 \in Tables, NEW o \in Objects,
           NEW p \in Procs, NEW q \in Procs, tab[q] = NoTable,
           \A r \in Procs : tab2[r] = IF r = q THEN tab[p] ELSE tab[r]
    PROVE  Cardinality(TableUsers(tab2, o))
             = Cardinality(TableUsers(tab, o)) + Cardinality({fd \in FDs : tab[p][fd] = o})
<1> DEFINE S == {fd \in FDs : tab[p][fd] = o}
<1>1. S \in SUBSET FDs OBVIOUS
<1>2. \A fd \in S : tab[q][fd] # o BY NullAssumption DEF NoTable
<1>3. \A r \in Procs, fd \in FDs :
         tab2[r][fd] = o <=> tab[r][fd] = o \/ (r = q /\ fd \in S)
  BY NullAssumption DEF NoTable
<1> HIDE DEF S
<1>4. Cardinality(TableUsers(tab2, o)) = Cardinality(TableUsers(tab, o)) + Cardinality(S)
  BY <1>1, <1>2, <1>3, RowUsers
<1> QED BY <1>4 DEF S

------------------------------------------------------------------------------
(* The inductive invariant *)

\* What was given up without ioclose stays open, and so has a count.
LostStaysOpen == \A o \in Objects : lost[o] > 0 => IsOpen(o)
OpenIsCounted == \A s \in Slots : flags[s] => refcnt[<<"file", s>>] > 0

\* A call holds an object while it sleeps; a process that is not there has none.
CallsHold ==
    \A p \in Procs :
       /\ hand[p] # Null <=> pc[p] \in {"opening", "loading"}
       /\ pc[p] = "none" => iotab[p] = NoTable

\* What is being opened is nobody else's yet, and its place is kept free.
OpeningIsNew ==
    \A p \in Procs : pc[p] = "opening" =>
       /\ iotab[p][fdi[p]] = Null
       /\ \A q \in Procs :
             /\ \A fd \in FDs : iotab[q][fd] # hand[p]
             /\ q # p => hand[q] # hand[p]

IInv ==
    /\ TypeOK /\ RefcountExact /\ HeldIsOpen /\ NoAlias
    /\ LostStaysOpen /\ OpenIsCounted /\ CallsHold /\ OpeningIsNew

LEMMA ObjectKinds ==
    ASSUME NEW o \in Objects
    PROVE  \/ \E s \in Slots : o = <<"file", s>> /\ o[1] = "file" /\ o[2] = s
           \/ \E d \in DOMAIN devtab : o = <<"dev", d>> /\ o[1] # "file"
BY DEF Objects

\* Who uses an object, in a state and in the next.
LEMMA UserCounts ==
    ASSUME TypeOK, NEW o \in Objects
    PROVE  LET a == Cardinality(HandUsers(hand, o))
               b == Cardinality(TableUsers(iotab, o))
           IN /\ a \in Nat /\ b \in Nat
              /\ a = 0 <=> \A p \in Procs : hand[p] # o
              /\ b = 0 <=> \A p \in Procs, fd \in FDs : iotab[p][fd] # o
              /\ hand \in Hands /\ iotab \in Tables
              /\ refcnt[o] \in Nat /\ lost[o] \in Nat
<1> DEFINE A == HandUsers(hand, o)
           B == TableUsers(iotab, o)
<1>1. /\ IsFiniteSet(A) /\ Cardinality(A) \in Nat
      /\ IsFiniteSet(B) /\ Cardinality(B) \in Nat
  BY FinitePlaces DEF HandUsers, TableUsers
<1>2. /\ A = {} <=> \A p \in Procs : hand[p] # o
      /\ B = {} <=> \A p \in Procs, fd \in FDs : iotab[p][fd] # o
  <2>1. A = {} <=> \A p \in Procs : hand[p] # o BY DEF HandUsers
  <2>2. ASSUME NEW p \in Procs, NEW fd \in FDs, iotab[p][fd] = o PROVE B # {}
    <3>1. <<p, fd>> \in B BY <2>2 DEF TableUsers
    <3> QED BY <3>1
  <2>3. ASSUME NEW e \in B PROVE \E p \in Procs, fd \in FDs : iotab[p][fd] = o
    BY <2>3 DEF TableUsers
  <2> QED BY <2>1, <2>2, <2>3
<1>3. (Cardinality(A) = 0 <=> A = {}) /\ (Cardinality(B) = 0 <=> B = {})
  BY <1>1, FS_EmptySet
<1>4. /\ hand \in Hands /\ iotab \in Tables
      /\ refcnt[o] \in Nat /\ lost[o] \in Nat
  BY DEF TypeOK, Hands, Tables
<1> QED BY <1>1, <1>2, <1>3, <1>4

Exact(o) ==
    refcnt[o] = lost[o] + Cardinality(HandUsers(hand, o)) + Cardinality(TableUsers(iotab, o))

LEMMA ExactByObject ==
    /\ RefcountExact <=> \A o \in Objects : IsOpen(o) => Exact(o)
    /\ RefcountExact' <=> \A o \in Objects : IsOpen(o)' => Exact(o)'
BY DEF RefcountExact, Exact, HandUsers, TableUsers

\* An object that a process holds or names.
Held(o) == \E p \in Procs : hand[p] = o \/ \E fd \in FDs : iotab[p][fd] = o
InUse == \A p \in Procs : pc[p] = "io" => iotab[p][fdi[p]] # Null

LEMMA HeldByObject ==
    /\ TypeOK =>
         (HeldIsOpen <=> InUse /\ \A o \in Objects : Held(o) => IsOpen(o))
    /\ TypeOK' =>
         (HeldIsOpen' <=> InUse' /\ \A o \in Objects : Held(o)' => IsOpen(o)')
<1>1. \A o \in Objects : o # Null BY NullAssumption
<1>2. ASSUME TypeOK
      PROVE  HeldIsOpen <=> InUse /\ \A o \in Objects : Held(o) => IsOpen(o)
  <2>1. /\ \A p \in Procs : hand[p] \in Objects \cup {Null}
        /\ \A p \in Procs, fd \in FDs : iotab[p][fd] \in Objects \cup {Null}
    BY <1>2 DEF TypeOK
  <2> QED BY <1>1, <2>1 DEF HeldIsOpen, InUse, Held
<1>3. ASSUME TypeOK'
      PROVE  HeldIsOpen' <=> InUse' /\ \A o \in Objects : Held(o)' => IsOpen(o)'
  <2>1. /\ \A p \in Procs : hand'[p] \in Objects \cup {Null}
        /\ \A p \in Procs, fd \in FDs : iotab'[p][fd] \in Objects \cup {Null}
    BY <1>3 DEF TypeOK
  <2>2. \A o : IsOpen(o)' <=> IF o[1] = "file" THEN flags'[o[2]] ELSE refcnt'[o] # 0
    BY DEF IsOpen
  <2>3. HeldIsOpen' <=>
          \A p \in Procs :
             /\ \A fd \in FDs : iotab'[p][fd] # Null =>
                   IF iotab'[p][fd][1] = "file" THEN flags'[iotab'[p][fd][2]]
                   ELSE refcnt'[iotab'[p][fd]] # 0
             /\ hand'[p] # Null =>
                   IF hand'[p][1] = "file" THEN flags'[hand'[p][2]]
                   ELSE refcnt'[hand'[p]] # 0
             /\ pc'[p] = "io" => iotab'[p][fdi'[p]] # Null
    BY DEF HeldIsOpen, IsOpen
  <2> QED BY <1>1, <2>1, <2>2, <2>3 DEF InUse, Held
<1> QED BY <1>2, <1>3

\* What is not open is in nobody's use.
LEMMA ClosedIsUnused ==
    ASSUME IInv, NEW o \in Objects, ~IsOpen(o)
    PROVE  /\ \A p \in Procs : hand[p] # o
           /\ \A p \in Procs, fd \in FDs : iotab[p][fd] # o
           /\ Cardinality(HandUsers(hand, o)) = 0
           /\ Cardinality(TableUsers(iotab, o)) = 0
           /\ lost[o] = 0
<1> USE DEF IInv
<1>1. o # Null BY NullAssumption
<1>2. \A p \in Procs : hand[p] # o BY <1>1 DEF HeldIsOpen
<1>3. \A p \in Procs, fd \in FDs : iotab[p][fd] # o BY <1>1 DEF HeldIsOpen
<1>4. lost[o] = 0
  <2>1. lost[o] \in Nat /\ ~(lost[o] > 0) BY UserCounts DEF LostStaysOpen
  <2> QED BY <2>1
<1> QED BY <1>2, <1>3, <1>4, UserCounts

\* Of a set of numbers Min is one, and the least.
LEMMA MinIsLeast ==
    ASSUME NEW S \in SUBSET Nat, S # {}
    PROVE  Min(S) \in S
<1> DEFINE R == OpToRel(<, Nat)
<1>1. \A x, y \in Nat : x < y => <<x, y>> \in R BY DEF OpToRel
<1>2. IsWellFoundedOn(R, Nat) BY NatLessThanWellFounded
<1> HIDE DEF R
<1>3. PICK x \in S : \A y \in S : <<y, x>> \notin R BY <1>2, WFMin
<1>4. \A y \in S : x <= y
  <2> TAKE y \in S
  <2>1. x \in Nat /\ y \in Nat OBVIOUS
  <2>2. ~(y < x) BY <1>1, <1>3, <2>1
  <2> QED BY <2>1, <2>2
<1> QED BY <1>4 DEF Min

LEMMA InitIInv == Init => IInv
<1> SUFFICES ASSUME Init PROVE IInv OBVIOUS
<1>1. PICK f \in Images, s \in {Min(Slots)} :
        /\ image = [p \in Procs |-> IF p = Main THEN f ELSE Null]
        /\ refcnt = [o \in Objects |-> IF o = <<"file", s>> THEN 1 ELSE 0]
        /\ flags = [x \in Slots |-> x = s]
        /\ file = [x \in Slots |-> IF x = s THEN f ELSE Null]
        /\ lost = [o \in Objects |-> IF o = <<"file", s>> THEN 1 ELSE 0]
  BY DEF Init
<1>2. /\ status = "running" /\ pc = [p \in Procs |-> IF p = Main THEN "user" ELSE "none"]
      /\ pid = [p \in Procs |-> 0] /\ iotab = [p \in Procs |-> NoTable]
      /\ hand = [p \in Procs |-> Null] /\ fdi = [p \in Procs |-> 0]
  BY DEF Init
<1>3. s \in Slots
  <2>1. Slots \in SUBSET Nat /\ Slots # {} BY DescriptorsAssumption
  <2> QED BY <2>1, MinIsLeast
<1>4. TypeOK
  <2>1. 0 \in FDs /\ 0 \in 0 .. NPROC - 1 BY DescriptorsAssumption DEF FDs
  <2>2. NoTable \in [FDs -> Objects \cup {Null}] BY DEF NoTable
  <2>3. Images \subseteq Files BY DescriptorsAssumption
  <2> QED BY <1>1, <1>2, <2>1, <2>2, <2>3 DEF TypeOK
<1>5. \A o \in Objects : IsOpen(o) <=> o = <<"file", s>>
  <2> TAKE o \in Objects
  <2>1. CASE \E x \in Slots : o = <<"file", x>> /\ o[1] = "file" /\ o[2] = x
    <3>1. PICK x \in Slots : o = <<"file", x>> /\ o[1] = "file" /\ o[2] = x BY <2>1
    <3>2. IsOpen(o) <=> x = s BY <1>1, <3>1 DEF IsOpen
    <3>3. <<"file", x>> = <<"file", s>> <=> x = s OBVIOUS
    <3> QED BY <3>1, <3>2, <3>3
  <2>2. CASE \E d \in DOMAIN devtab : o = <<"dev", d>> /\ o[1] # "file"
    <3>1. PICK d \in DOMAIN devtab : o = <<"dev", d>> /\ o[1] # "file" BY <2>2
    <3>2. <<"dev", d>> # <<"file", s>> OBVIOUS
    <3>3. refcnt[o] = 0 BY <1>1, <3>1, <3>2
    <3> QED BY <3>1, <3>2, <3>3 DEF IsOpen
  <2> QED BY <2>1, <2>2, ObjectKinds
<1>6. \A p \in Procs : hand[p] = Null /\ \A fd \in FDs : iotab[p][fd] = Null
  BY <1>2 DEF NoTable
<1>7. RefcountExact
  <2> SUFFICES ASSUME NEW o \in Objects, IsOpen(o) PROVE Exact(o)
    BY ExactByObject
  <2>1. refcnt[o] = 1 /\ lost[o] = 1 BY <1>1, <1>5
  <2>2. /\ Cardinality(HandUsers(hand, o)) = 0
        /\ Cardinality(TableUsers(iotab, o)) = 0
    BY <1>4, <1>6, UserCounts, NullAssumption
  <2> QED BY <2>1, <2>2 DEF Exact
<1>8. HeldIsOpen /\ NoAlias BY <1>2, <1>6 DEF HeldIsOpen, NoAlias
<1>9. LostStaysOpen BY <1>1, <1>5 DEF LostStaysOpen
<1>10. OpenIsCounted
  <2>1. <<"file", s>> \in Objects BY <1>3 DEF Objects
  <2>2. refcnt[<<"file", s>>] = 1 BY <1>1, <2>1
  <2>3. \A x \in Slots : flags[x] => x = s BY <1>1
  <2> QED BY <2>2, <2>3 DEF OpenIsCounted
<1>11. CallsHold /\ OpeningIsNew BY <1>2, <1>6 DEF CallsHold, OpeningIsNew
<1> QED BY <1>4, <1>7, <1>8, <1>9, <1>10, <1>11 DEF IInv
------------------------------------------------------------------------------
(* Opening *)

LEMMA PlacesAreFree ==
    ASSUME TypeOK, NEW p \in Procs, NEW fd \in FDs \cup {-1}, NEW i \in Places(p, fd)
    PROVE  i \in FDs /\ iotab[p][i] = Null
<1>1. CASE fd < 0
  <2> DEFINE free == {j \in FDs : iotab[p][j] = Null}
  <2>1. free # {} /\ i = Min(free) BY <1>1 DEF Places
  <2>2. free \in SUBSET Nat
    <3>1. FDs \subseteq Nat BY DescriptorsAssumption DEF FDs
    <3> QED BY <3>1
  <2> HIDE DEF free
  <2>3. i \in free BY <2>1, <2>2, MinIsLeast
  <2> QED BY <2>3 DEF free
<1>2. CASE ~(fd < 0) BY <1>2 DEF Places
<1> QED BY <1>1, <1>2

LEMMA DevOpenKeeps ==
    ASSUME IInv, NEW p \in Procs, NEW fd \in FDs \cup {-1}, NEW name, NEW instno,
           sysdevopen(p, fd, name, instno)
    PROVE  IInv'
<1> USE DEF IInv
<1>1. PICK i \in Places(p, fd), d \in device_open(name, instno) :
        /\ MayOpenPort(d)
        /\ iotab' = [iotab EXCEPT ![p][i] = <<"dev", d>>]
        /\ refcnt' = [refcnt EXCEPT ![<<"dev", d>>] = 1]
  BY DEF sysdevopen
<1>2. /\ pc[p] = "user"
      /\ UNCHANGED <<status, pc, pid, image, hand, fdi, flags, file, lost>>
  BY DEF sysdevopen, InUser
<1> DEFINE x == <<"dev", d>>
<1>3. i \in FDs /\ iotab[p][i] = Null BY <1>1, PlacesAreFree
<1>4. /\ x \in Objects /\ refcnt[x] = 0 /\ ~IsOpen(x) /\ x[1] # "file"
  <2>1. d \in DOMAIN devtab BY <1>1 DEF device_open
  <2>2. x \in Objects BY <2>1 DEF Objects
  <2>3. refcnt[x] = 0 BY <1>1 DEF MayOpenPort
  <2> QED BY <2>2, <2>3 DEF IsOpen
<1>5. /\ \A q \in Procs, j \in FDs :
            iotab'[q][j] = IF q = p /\ j = i THEN x ELSE iotab[q][j]
      /\ \A q \in Procs \ {p} : iotab'[q] = iotab[q]
      /\ iotab' \in [Procs -> [FDs -> Objects \cup {Null}]]
  BY <1>1, <1>3, <1>4 DEF TypeOK
<1>6. /\ refcnt' \in [Objects -> Nat] /\ refcnt'[x] = 1
      /\ \A o \in Objects : o # x => refcnt'[o] = refcnt[o]
  BY <1>1, <1>4 DEF TypeOK
<1> HIDE DEF x
<1>7. \A o \in Objects : IsOpen(o)' <=> IsOpen(o) \/ o = x
  BY <1>2, <1>4, <1>6 DEF IsOpen
<1>8. TypeOK' BY <1>2, <1>5, <1>6 DEF TypeOK
<1>9. RefcountExact'
  <2> SUFFICES ASSUME NEW o \in Objects, IsOpen(o)' PROVE Exact(o)'
    BY ExactByObject
  <2> DEFINE a == Cardinality(HandUsers(hand, o))
             b == Cardinality(TableUsers(iotab, o))
             b2 == Cardinality(TableUsers(iotab', o))
  <2>1. a \in Nat /\ b \in Nat /\ iotab \in Tables /\ lost[o] \in Nat
    BY UserCounts
  <2>2. b2 \in Nat BY <1>8, FinitePlaces DEF TableUsers
  <2>3. b2 + Counts(Null, o) = b + Counts(x, o)
    <3>1. iotab' \in Tables BY <1>5 DEF Tables
    <3>2. b2 + Counts(iotab[p][i], o) = b + Counts(x, o)
      BY <1>3, <1>4, <1>5, <2>1, <3>1, PlaceUsers
    <3> QED BY <1>3, <3>2
  <2>4. Counts(Null, o) = 0 BY NullAssumption DEF Counts
  <2>5. CASE o = x
    <3>1. a = 0 /\ b = 0 /\ lost[o] = 0 BY <1>4, <2>5, ClosedIsUnused
    <3>2. Counts(x, o) = 1 BY <2>5 DEF Counts
    <3>3. b2 = 1 BY <2>2, <2>3, <2>4, <3>1, <3>2
    <3> QED BY <1>2, <1>6, <2>5, <3>1, <3>3 DEF Exact
  <2>6. CASE o # x
    <3>1. Exact(o) BY <1>7, <2>6, ExactByObject
    <3>2. Counts(x, o) = 0 BY <2>6 DEF Counts
    <3>3. b2 = b BY <2>1, <2>2, <2>3, <2>4, <3>2
    <3> QED BY <1>2, <1>6, <2>6, <3>1, <3>3 DEF Exact
  <2> QED BY <2>5, <2>6
<1>10. \A q \in Procs : hand[q] # x /\ \A j \in FDs : iotab[q][j] # x
  BY <1>4, ClosedIsUnused
<1>11. x # Null BY <1>4, NullAssumption
<1>12. HeldIsOpen'
  <2>1. ASSUME NEW o \in Objects, Held(o)' PROVE IsOpen(o)'
    <3>1. Held(o) \/ o = x BY <1>2, <1>5, <2>1 DEF Held
    <3> QED BY <1>7, <3>1, HeldByObject
  <2>2. InUse' BY <1>2, <1>5, <1>11 DEF InUse, HeldIsOpen, TypeOK
  <2> QED BY <1>8, <2>1, <2>2, HeldByObject
<1>13. NoAlias' BY <1>5, <1>10 DEF NoAlias
<1>14. LostStaysOpen' BY <1>2, <1>7 DEF LostStaysOpen
<1>15. OpenIsCounted'
  <2>1. \A s \in Slots : <<"file", s>> \in Objects /\ <<"file", s>> # x
    BY <1>4 DEF Objects
  <2> QED BY <1>2, <1>6, <2>1 DEF OpenIsCounted
<1>16. CallsHold' BY <1>2, <1>5 DEF CallsHold
<1>17. OpeningIsNew'
  BY SMTT(30), <1>2, <1>5, <1>10 DEF OpeningIsNew, TypeOK
<1> QED BY <1>8, <1>9, <1>12, <1>13, <1>14, <1>15, <1>16, <1>17
\* A file that is opened, or a slot that a name that is not found leaves taken.
LEMMA FsOpenKeeps ==
    ASSUME IInv, NEW p \in Procs, NEW fd \in FDs \cup {-1},
           NEW f \in Files \cup {Null}, sysfsopen(p, fd, f)
    PROVE  IInv'
<1> USE DEF IInv
<1>1. PICK i \in Places(p, fd), s \in {Min(Unused)} :
        /\ flags' = [flags EXCEPT ![s] = TRUE]
        /\ refcnt' = [refcnt EXCEPT ![<<"file", s>>] = 1]
        /\ IF f \in Files
           THEN /\ file' = [file EXCEPT ![s] = f]
                /\ hand' = [hand EXCEPT ![p] = <<"file", s>>]
                /\ fdi' = [fdi EXCEPT ![p] = i]
                /\ pc' = [pc EXCEPT ![p] = "opening"]
                /\ UNCHANGED lost
           ELSE /\ lost' = [lost EXCEPT ![<<"file", s>>] = @ + 1]
                /\ UNCHANGED <<file, hand, fdi, pc>>
  BY DEF sysfsopen
<1>2. pc[p] = "user" /\ Unused # {} /\ UNCHANGED <<status, pid, iotab, image>>
  BY DEF sysfsopen, InUser
<1> DEFINE x == <<"file", s>>
<1>3. i \in FDs /\ iotab[p][i] = Null BY <1>1, PlacesAreFree
<1>4. s \in Slots /\ ~flags[s]
  <2>1. Unused \in SUBSET Nat BY DescriptorsAssumption DEF Unused
  <2>2. Min(Unused) \in Unused BY <1>2, <2>1, MinIsLeast
  <2> QED BY <1>1, <2>2 DEF Unused
<1>5. /\ x \in Objects /\ ~IsOpen(x) /\ x[1] = "file" /\ x[2] = s
      /\ \A r \in Slots : <<"file", r>> \in Objects /\ (<<"file", r>> = x <=> r = s)
  BY <1>4 DEF Objects, IsOpen
<1>6. /\ refcnt' \in [Objects -> Nat] /\ refcnt'[x] = 1
      /\ \A o \in Objects : o # x => refcnt'[o] = refcnt[o]
  BY <1>1, <1>5 DEF TypeOK
<1>7. /\ \A q \in Procs : hand[q] # x /\ \A j \in FDs : iotab[q][j] # x
      /\ Cardinality(HandUsers(hand, x)) = 0
      /\ Cardinality(TableUsers(iotab, x)) = 0
      /\ lost[x] = 0
  BY <1>5, ClosedIsUnused
<1>8. x # Null BY <1>5, NullAssumption
<1>9. hand[p] = Null BY <1>2 DEF CallsHold
<1>10. flags' \in [Slots -> BOOLEAN] /\ \A r \in Slots : flags'[r] <=> flags[r] \/ r = s
  BY <1>1, <1>4 DEF TypeOK
<1>11. \/ /\ f \in Files /\ pc' = [pc EXCEPT ![p] = "opening"]
          /\ file' = [file EXCEPT ![s] = f] /\ fdi' = [fdi EXCEPT ![p] = i]
          /\ hand' = [hand EXCEPT ![p] = x] /\ lost' = lost
       \/ /\ lost' = [lost EXCEPT ![x] = @ + 1]
          /\ UNCHANGED <<file, hand, fdi, pc>>
  BY <1>1
<1> HIDE DEF x
<1>12. \A o \in Objects : IsOpen(o)' <=> IsOpen(o) \/ o = x
  <2> TAKE o \in Objects
  <2>1. CASE \E r \in Slots : o = <<"file", r>> /\ o[1] = "file" /\ o[2] = r
    <3>1. PICK r \in Slots : o = <<"file", r>> /\ o[1] = "file" /\ o[2] = r BY <2>1
    <3> QED BY <1>5, <1>10, <3>1 DEF IsOpen
  <2>2. CASE \E d \in DOMAIN devtab : o = <<"dev", d>> /\ o[1] # "file"
    <3>1. o # x BY <1>5, <2>2
    <3> QED BY <1>6, <2>2, <3>1 DEF IsOpen
  <2> QED BY <2>1, <2>2, ObjectKinds
<1>13. /\ lost' \in [Objects -> Nat] /\ hand' \in Hands
       /\ pc' \in [Procs -> {"none", "user", "opening", "io", "loading"}]
       /\ fdi' \in [Procs -> FDs] /\ file' \in [Slots -> Files \cup {Null}]
       /\ \A o \in Objects : o # x => lost'[o] = lost[o]
       /\ \A q \in Procs \ {p} : hand'[q] = hand[q]
       /\ \/ lost'[x] = 0 /\ hand'[p] = x /\ pc'[p] = "opening" /\ fdi'[p] = i
          \/ lost'[x] = 1 /\ hand'[p] = Null /\ pc'[p] = "user"
  <2>1. /\ lost \in [Objects -> Nat] /\ hand \in Hands /\ fdi \in [Procs -> FDs]
        /\ file \in [Slots -> Files \cup {Null}]
        /\ pc \in [Procs -> {"none", "user", "opening", "io", "loading"}]
    BY DEF TypeOK, Hands
  <2>2. CASE /\ f \in Files /\ pc' = [pc EXCEPT ![p] = "opening"]
             /\ file' = [file EXCEPT ![s] = f] /\ fdi' = [fdi EXCEPT ![p] = i]
             /\ hand' = [hand EXCEPT ![p] = x] /\ lost' = lost
    <3>1. hand' \in Hands BY <1>5, <2>1, <2>2 DEF Hands
    <3>2. hand'[p] = x /\ \A q \in Procs \ {p} : hand'[q] = hand[q]
      BY <2>1, <2>2 DEF Hands
    <3>3. pc'[p] = "opening" /\ fdi'[p] = i BY <2>1, <2>2
    <3>4. pc' \in [Procs -> {"none", "user", "opening", "io", "loading"}]
      BY <2>1, <2>2
    <3>5. fdi' \in [Procs -> FDs] BY <1>3, <2>1, <2>2
    <3>6. file' \in [Slots -> Files \cup {Null}] BY <1>4, <2>1, <2>2
    <3> QED BY <1>7, <2>1, <2>2, <3>1, <3>2, <3>3, <3>4, <3>5, <3>6
  <2>3. CASE /\ lost' = [lost EXCEPT ![x] = @ + 1]
             /\ UNCHANGED <<file, hand, fdi, pc>>
    <3>1. lost' \in [Objects -> Nat] BY <1>5, <2>1, <2>3
    <3>2. lost'[x] = 1 BY <1>5, <1>7, <2>1, <2>3
    <3>3. \A o \in Objects : o # x => lost'[o] = lost[o] BY <2>1, <2>3
    <3> QED BY <1>2, <1>9, <2>1, <2>3, <3>1, <3>2, <3>3
  <2> QED BY <1>11, <2>2, <2>3
<1>14. TypeOK'
  <2>1. hand' \in [Procs -> Objects \cup {Null}] BY <1>13 DEF Hands
  <2> QED BY <1>2, <1>6, <1>10, <1>13, <2>1 DEF TypeOK
<1>15. RefcountExact'
  <2> SUFFICES ASSUME NEW o \in Objects, IsOpen(o)' PROVE Exact(o)'
    BY ExactByObject
  <2> DEFINE a == Cardinality(HandUsers(hand, o))
             b == Cardinality(TableUsers(iotab, o))
             a2 == Cardinality(HandUsers(hand', o))
             y == hand'[p]
  <2>1. a \in Nat /\ b \in Nat /\ hand \in Hands /\ lost[o] \in Nat
    BY UserCounts
  <2>2. a2 \in Nat BY FinitePlaces DEF HandUsers
  <2>3. a2 + Counts(Null, o) = a + Counts(y, o)
    <3>1. \A q \in Procs : hand'[q] = IF q = p THEN y ELSE hand[q] BY <1>13
    <3>2. y \in Objects \cup {Null} BY <1>13 DEF Hands
    <3> HIDE DEF y
    <3>3. a2 + Counts(hand[p], o) = a + Counts(y, o)
      BY <1>13, <2>1, <3>1, <3>2, HandChanges
    <3> QED BY <1>9, <3>3
  <2>4. Counts(Null, o) = 0 BY NullAssumption DEF Counts
  <2>5. CASE o = x
    <3>1. a = 0 /\ b = 0 BY <1>7, <2>5
    <3>2. lost'[o] + Counts(y, o) = 1 /\ lost'[o] \in Nat
      BY <1>8, <1>13, <2>5 DEF Counts
    <3>3. a2 = Counts(y, o) BY <2>2, <2>3, <2>4, <3>1 DEF Counts
    <3>4. lost'[o] + a2 + b = 1 BY <2>2, <3>1, <3>2, <3>3
    <3> QED BY <1>2, <1>6, <2>5, <3>4 DEF Exact
  <2>6. CASE o # x
    <3>1. Exact(o) BY <1>12, <2>6, ExactByObject
    <3>2. Counts(y, o) = 0 BY <1>13, <2>6, NullAssumption DEF Counts
    <3>3. a2 = a BY <2>1, <2>2, <2>3, <2>4, <3>2
    <3> QED BY <1>2, <1>6, <1>13, <2>6, <3>1, <3>3 DEF Exact
  <2> QED BY <2>5, <2>6
<1>16. HeldIsOpen'
  <2>1. ASSUME NEW o \in Objects, Held(o)' PROVE IsOpen(o)'
    <3>1. Held(o) \/ o = x BY <1>2, <1>13, <2>1, NullAssumption DEF Held
    <3> QED BY <1>12, <3>1, HeldByObject
  <2>2. InUse' BY <1>2, <1>11, <1>13 DEF InUse, HeldIsOpen, TypeOK
  <2> QED BY <1>14, <2>1, <2>2, HeldByObject
<1>17. NoAlias' BY <1>2 DEF NoAlias
<1>18. LostStaysOpen' BY <1>12, <1>13 DEF LostStaysOpen
<1>19. OpenIsCounted'
  <2>1. \A r \in Slots : flags'[r] => flags[r] \/ r = s BY <1>10
  <2>2. \A r \in Slots : r # s => refcnt'[<<"file", r>>] = refcnt[<<"file", r>>]
    BY <1>5, <1>6
  <2>3. refcnt'[<<"file", s>>] = 1 BY <1>4, <1>5, <1>6
  <2> QED BY <2>1, <2>2, <2>3 DEF OpenIsCounted
<1>20. \A q \in Procs \ {p} : pc'[q] = pc[q] /\ fdi'[q] = fdi[q]
  BY <1>11 DEF TypeOK
<1>21. CallsHold' BY <1>2, <1>8, <1>13, <1>20 DEF CallsHold
<1>22. OpeningIsNew'
  <2> SUFFICES ASSUME NEW q \in Procs, pc'[q] = "opening"
               PROVE  /\ iotab[q][fdi'[q]] = Null
                      /\ \A r \in Procs :
                            /\ \A j \in FDs : iotab[r][j] # hand'[q]
                            /\ r # q => hand'[r] # hand'[q]
    BY <1>2 DEF OpeningIsNew
  <2>1. CASE q = p BY <1>3, <1>7, <1>13, <2>1
  <2>2. CASE q # p
    <3>1. pc[q] = "opening" /\ hand'[q] = hand[q] /\ fdi'[q] = fdi[q] /\ hand[q] # Null
      BY <1>13, <1>20, <2>2 DEF CallsHold
    <3> QED BY <1>7, <1>13, <2>2, <3>1 DEF OpeningIsNew
  <2> QED BY <2>1, <2>2
<1> QED BY <1>14, <1>15, <1>16, <1>17, <1>18, <1>19, <1>21, <1>22

\* What LeaveCall does to the variables of calls.
LEMMA CallLeft ==
    ASSUME TypeOK, NEW p \in Procs, LeaveCall(p)
    PROVE  /\ pc' \in [Procs -> {"none", "user", "opening", "io", "loading"}]
           /\ hand' \in Hands /\ fdi' \in [Procs -> FDs]
           /\ pc'[p] = "user" /\ hand'[p] = Null
           /\ \A q \in Procs \ {p} : pc'[q] = pc[q] /\ hand'[q] = hand[q] /\ fdi'[q] = fdi[q]
<1>1. 0 \in FDs BY DescriptorsAssumption DEF FDs
<1>2. /\ hand \in Hands /\ fdi \in [Procs -> FDs]
      /\ pc \in [Procs -> {"none", "user", "opening", "io", "loading"}]
  BY DEF TypeOK, Hands
<1>3. /\ pc' = [pc EXCEPT ![p] = "user"] /\ hand' = [hand EXCEPT ![p] = Null]
      /\ fdi' = [fdi EXCEPT ![p] = 0]
  BY DEF LeaveCall
<1>4. hand' \in Hands /\ hand'[p] = Null /\ \A q \in Procs \ {p} : hand'[q] = hand[q]
  BY <1>2, <1>3 DEF Hands
<1>5. fdi' \in [Procs -> FDs] /\ \A q \in Procs \ {p} : fdi'[q] = fdi[q]
  BY <1>1, <1>2, <1>3
<1>6. /\ pc' \in [Procs -> {"none", "user", "opening", "io", "loading"}]
      /\ pc'[p] = "user" /\ \A q \in Procs \ {p} : pc'[q] = pc[q]
  BY <1>2, <1>3
<1> QED BY <1>4, <1>5, <1>6

\* fs_open returns: what was in the hand of the call is named by the descriptor.
LEMMA OpenDoneKeeps ==
    ASSUME IInv, NEW p \in Procs, OpenDone(p)
    PROVE  IInv'
<1> USE DEF IInv
<1> DEFINE i == fdi[p]
           x == hand[p]
<1>1. /\ pc[p] = "opening" /\ LeaveCall(p)
      /\ iotab' = [iotab EXCEPT ![p][i] = x]
      /\ UNCHANGED <<status, pid, image, refcnt, flags, file, lost>>
  BY DEF OpenDone, objVars
<1>2. /\ pc' \in [Procs -> {"none", "user", "opening", "io", "loading"}]
      /\ hand' \in Hands /\ fdi' \in [Procs -> FDs]
      /\ pc'[p] = "user" /\ hand'[p] = Null
      /\ \A q \in Procs \ {p} : pc'[q] = pc[q] /\ hand'[q] = hand[q] /\ fdi'[q] = fdi[q]
  BY <1>1, CallLeft
<1>3. /\ i \in FDs /\ x \in Objects /\ x # Null /\ iotab[p][i] = Null
      /\ \A q \in Procs :
            /\ \A fd \in FDs : iotab[q][fd] # x
            /\ q # p => hand[q] # x
  <2>1. x # Null BY <1>1 DEF CallsHold
  <2> QED BY <1>1, <2>1 DEF TypeOK, OpeningIsNew
<1> HIDE DEF i
<1>4. /\ \A q \in Procs, j \in FDs :
            iotab'[q][j] = IF q = p /\ j = i THEN x ELSE iotab[q][j]
      /\ \A q \in Procs \ {p} : iotab'[q] = iotab[q]
      /\ iotab' \in [Procs -> [FDs -> Objects \cup {Null}]]
  BY <1>1, <1>3 DEF TypeOK
<1>5. \A o \in Objects : IsOpen(o)' <=> IsOpen(o) BY <1>1 DEF IsOpen
<1>6. TypeOK'
  <2>1. hand' \in [Procs -> Objects \cup {Null}] BY <1>2 DEF Hands
  <2> QED BY <1>1, <1>2, <1>4, <2>1 DEF TypeOK
<1>7. RefcountExact'
  <2> SUFFICES ASSUME NEW o \in Objects, IsOpen(o)' PROVE Exact(o)'
    BY ExactByObject
  <2> DEFINE a == Cardinality(HandUsers(hand, o))
             b == Cardinality(TableUsers(iotab, o))
             a2 == Cardinality(HandUsers(hand', o))
             b2 == Cardinality(TableUsers(iotab', o))
  <2>1. a \in Nat /\ b \in Nat /\ hand \in Hands /\ iotab \in Tables /\ lost[o] \in Nat
    BY UserCounts
  <2>2. a2 \in Nat /\ b2 \in Nat BY FinitePlaces DEF HandUsers, TableUsers
  <2>3. a2 + Counts(x, o) = a + Counts(Null, o)
    <3>1. \A q \in Procs : hand'[q] = IF q = p THEN Null ELSE hand[q] BY <1>2
    <3> QED BY <1>2, <2>1, <3>1, HandChanges
  <2>4. b2 + Counts(Null, o) = b + Counts(x, o)
    <3>1. iotab' \in Tables BY <1>4 DEF Tables
    <3>2. b2 + Counts(iotab[p][i], o) = b + Counts(x, o)
      BY <1>3, <1>4, <2>1, <3>1, PlaceUsers
    <3> QED BY <1>3, <3>2
  <2>5. Counts(Null, o) = 0 /\ Counts(x, o) \in Nat BY NullAssumption DEF Counts
  <2>6. a2 + b2 = a + b BY <2>1, <2>2, <2>3, <2>4, <2>5
  <2>7. Exact(o) BY <1>5, ExactByObject
  <2>8. refcnt[o] \in Nat BY UserCounts
  <2> HIDE DEF a, b, a2, b2
  <2>9. refcnt[o] = lost[o] + a2 + b2
    <3>1. refcnt[o] = lost[o] + a + b BY <2>7 DEF Exact, a, b
    <3> QED BY <2>1, <2>2, <2>6, <2>8, <3>1
  <2> QED BY <1>1, <2>9 DEF Exact, a2, b2
<1>8. HeldIsOpen'
  <2>1. ASSUME NEW o \in Objects, Held(o)' PROVE IsOpen(o)'
    <3>1. o # Null BY NullAssumption
    <3>2. PICK q \in Procs : hand'[q] = o \/ \E fd \in FDs : iotab'[q][fd] = o
      BY <2>1 DEF Held
    <3>3. ASSUME hand'[q] = o PROVE Held(o)
      <4>1. q # p /\ hand[q] = o BY <1>2, <3>1, <3>3
      <4> QED BY <4>1 DEF Held
    <3>4. ASSUME \E fd \in FDs : iotab'[q][fd] = o PROVE Held(o)
      <4>1. hand[p] = o \/ \E fd \in FDs : iotab[q][fd] = o BY <1>4, <3>4
      <4> QED BY <4>1 DEF Held
    <3>5. Held(o) BY <3>2, <3>3, <3>4
    <3> QED BY <1>5, <3>5, HeldByObject
  <2>2. InUse' BY <1>2, <1>4 DEF InUse, HeldIsOpen, TypeOK
  <2> QED BY <1>6, <2>1, <2>2, HeldByObject
<1>9. NoAlias' BY <1>3, <1>4 DEF NoAlias
<1>10. LostStaysOpen' BY <1>1, <1>5 DEF LostStaysOpen
<1>11. OpenIsCounted' BY <1>1 DEF OpenIsCounted
<1>12. CallsHold' BY <1>1, <1>2, <1>4 DEF CallsHold
<1>13. OpeningIsNew'
  <2> SUFFICES ASSUME NEW q \in Procs, pc'[q] = "opening"
               PROVE  /\ iotab'[q][fdi'[q]] = Null
                      /\ \A r \in Procs :
                            /\ \A j \in FDs : iotab'[r][j] # hand'[q]
                            /\ r # q => hand'[r] # hand'[q]
    BY DEF OpeningIsNew
  <2>1. q # p /\ pc[q] = "opening" /\ hand'[q] = hand[q] /\ fdi'[q] = fdi[q] /\ hand[q] # Null
    BY <1>2 DEF CallsHold
  <2>2. hand[q] # x BY <1>3, <2>1
  <2> QED BY <1>2, <1>4, <2>1, <2>2 DEF OpeningIsNew
<1> QED BY <1>6, <1>7, <1>8, <1>9, <1>10, <1>11, <1>12, <1>13

\* A transfer, and the end of the machine: nothing changes hands.
LEMMA QuietKeeps ==
    ASSUME IInv, NEW p \in Procs,
           \/ \E fd \in FDs : Transfer(p, fd)
           \/ TransferDone(p) \/ LoadFails(p)
    PROVE  IInv'
<1> USE DEF IInv
<1>1. /\ hand' = hand /\ UNCHANGED <<pid, iotab, image, refcnt, flags, file, lost>>
      /\ status' \in {"running", "panic", "halted"}
      /\ \A q \in Procs \ {p} : pc'[q] = pc[q] /\ fdi'[q] = fdi[q]
      /\ pc' \in [Procs -> {"none", "user", "opening", "io", "loading"}]
      /\ fdi' \in [Procs -> FDs]
      /\ \/ pc'[p] = pc[p] /\ fdi'[p] = fdi[p]
         \/ pc[p] = "io" /\ pc'[p] = "user"
         \/ pc[p] = "user" /\ pc'[p] = "io" /\ iotab[p][fdi'[p]] # Null
  <2>1. /\ hand \in Hands /\ fdi \in [Procs -> FDs] /\ status \in {"running", "panic", "halted"}
        /\ pc \in [Procs -> {"none", "user", "opening", "io", "loading"}]
    BY DEF TypeOK, Hands
  <2>2. ASSUME NEW fd \in FDs, Transfer(p, fd) PROVE <1>1!1 /\ <1>1!2 /\ <1>1!3 /\ <1>1!4 /\ <1>1!5 /\ <1>1!6
    BY <2>1, <2>2 DEF Transfer, InUser, objVars
  <2>3. CASE TransferDone(p)
    <3>1. pc[p] = "io" /\ LeaveCall(p)
          /\ UNCHANGED <<status, pid, iotab, image, refcnt, flags, file, lost>>
      BY <2>3 DEF TransferDone, objVars
    <3>2. hand[p] = Null BY <3>1 DEF CallsHold
    <3>3. hand' = hand BY <2>1, <3>1, <3>2 DEF LeaveCall, Hands
    <3> QED BY <2>1, <3>1, <3>3, CallLeft
  <2>4. CASE LoadFails(p)
    BY <2>1, <2>4 DEF LoadFails, Panics, objVars
  <2> QED BY <2>2, <2>3, <2>4
<1>2. \A o \in Objects : IsOpen(o)' <=> IsOpen(o) BY <1>1 DEF IsOpen
<1>3. TypeOK' BY <1>1 DEF TypeOK
<1>4. RefcountExact'
  <2> SUFFICES ASSUME NEW o \in Objects, IsOpen(o)' PROVE Exact(o)'
    BY ExactByObject
  <2>1. Exact(o) BY <1>2, ExactByObject
  <2> QED BY <1>1, <2>1 DEF Exact
<1>5. HeldIsOpen'
  <2>1. ASSUME NEW o \in Objects, Held(o)' PROVE IsOpen(o)'
    <3>1. Held(o) BY <1>1, <2>1 DEF Held
    <3> QED BY <1>2, <3>1, HeldByObject
  <2>2. InUse' BY <1>1 DEF InUse, HeldIsOpen
  <2> QED BY <1>3, <2>1, <2>2, HeldByObject
<1>6. NoAlias' BY <1>1 DEF NoAlias
<1>7. LostStaysOpen' /\ OpenIsCounted' BY <1>1, <1>2 DEF LostStaysOpen, OpenIsCounted
<1>8. CallsHold' BY <1>1 DEF CallsHold
<1>9. OpeningIsNew' BY <1>1 DEF OpeningIsNew
<1> QED BY <1>3, <1>4, <1>5, <1>6, <1>7, <1>8, <1>9

------------------------------------------------------------------------------
(* Closing *)

\* The counts after ioclose of some descriptors of a process: an object stays
\* open exactly while its count is not zero, and the count is exact again.
LEMMA CountsAfterClose ==
    ASSUME IInv, NEW p \in Procs, NEW gone \in SUBSET FDs, ioclose(p, gone),
           iotab' \in Tables, hand' = hand, lost' = lost,
           \A q \in Procs, fd \in FDs :
              iotab'[q][fd] = IF q = p /\ fd \in gone THEN Null ELSE iotab[q][fd],
           NEW o \in Objects
    PROVE  /\ refcnt'[o] \in Nat
           /\ IsOpen(o)' <=> IsOpen(o) /\ refcnt'[o] # 0
           /\ IsOpen(o) => refcnt'[o] = lost[o] + Cardinality(HandUsers(hand, o))
                                          + Cardinality(TableUsers(iotab', o))
           /\ ~IsOpen(o) => refcnt'[o] = refcnt[o]
<1> USE DEF IInv
<1> DEFINE S == Entries(p, o) \cap gone
           k == Cardinality(S)
           a == Cardinality(HandUsers(hand, o))
           b == Cardinality(TableUsers(iotab, o))
           b2 == Cardinality(TableUsers(iotab', o))
<1>1. \A q \in Procs, fd \in FDs :
         iotab'[q][fd] = IF q = p /\ fd \in gone THEN Null ELSE iotab[q][fd]
  OBVIOUS
<1>2. /\ a \in Nat /\ b \in Nat /\ iotab \in Tables
      /\ refcnt[o] \in Nat /\ lost[o] \in Nat
  BY UserCounts
<1>3. b2 \in Nat BY FinitePlaces DEF TableUsers
<1>4. S \in SUBSET FDs /\ k \in Nat /\ (k = 0 <=> S = {})
  <2>1. S \in SUBSET FDs BY DEF Entries
  <2>2. IsFiniteSet(S) /\ k \in Nat BY <2>1, FinitePlaces
  <2> QED BY <2>1, <2>2, FS_EmptySet
<1>5. b = b2 + k
  <2>1. S = {fd \in FDs : iotab[p][fd] = o} \cap gone BY DEF Entries
  <2>2. iotab \in Tables /\ iotab' \in Tables BY <1>2
  <2>3. Cardinality(TableUsers(iotab, o))
          = Cardinality(TableUsers(iotab', o))
            + Cardinality({fd \in FDs : iotab[p][fd] = o} \cap gone)
    <3> HIDE DEF S, k, a, b, b2
    <3> QED BY ONLY <1>1, <2>2, DropUsers, p \in Procs, gone \in SUBSET FDs, o \in Objects
  <2> QED BY <2>1, <2>3
<1>6. refcnt'[o] = refcnt[o] - k BY DEF ioclose
<1>7. \A s \in Slots :
         flags'[s] <=> flags[s] /\ ~(/\ Entries(p, <<"file", s>>) \cap gone # {}
                                    /\ refcnt'[<<"file", s>>] = 0)
  BY DEF ioclose, AtLast
<1>8. S # {} => IsOpen(o)
  <2>1. ASSUME S # {} PROVE IsOpen(o)
    <3>1. PICK fd \in FDs : iotab[p][fd] = o BY <2>1 DEF Entries
    <3>2. o # Null BY NullAssumption
    <3> QED BY <3>1, <3>2 DEF HeldIsOpen
  <2> QED BY <2>1
<1>9. IsOpen(o) => refcnt[o] = lost[o] + a + b BY ExactByObject DEF Exact
<1>10. \A s \in Slots : o = <<"file", s>> => (flags[s] => refcnt[o] > 0)
  BY DEF OpenIsCounted
<1>11. \A s \in Slots : o = <<"file", s>> =>
          (flags'[s] <=> flags[s] /\ ~(S # {} /\ refcnt'[o] = 0))
  BY <1>7
<1> HIDE DEF S, k, a, b, b2
<1>12. IsOpen(o) => refcnt'[o] = lost[o] + a + b2
  <2> SUFFICES ASSUME IsOpen(o) PROVE refcnt'[o] = lost[o] + a + b2 OBVIOUS
  <2>1. refcnt[o] = lost[o] + a + b BY <1>9
  <2> QED BY <1>2, <1>3, <1>4, <1>5, <1>6, <2>1
<1>13. ~IsOpen(o) => refcnt'[o] = refcnt[o] BY <1>2, <1>4, <1>6, <1>8
<1>14. refcnt'[o] \in Nat BY <1>2, <1>3, <1>12, <1>13
<1>15. IsOpen(o)' <=> IsOpen(o) /\ refcnt'[o] # 0
  <2>1. CASE \E s \in Slots : o = <<"file", s>> /\ o[1] = "file" /\ o[2] = s
    <3>1. PICK s \in Slots : o = <<"file", s>> /\ o[1] = "file" /\ o[2] = s BY <2>1
    <3>2. (IsOpen(o) <=> flags[s]) /\ (IsOpen(o)' <=> flags'[s]) BY <3>1 DEF IsOpen
    <3>3. flags'[s] <=> flags[s] /\ ~(S # {} /\ refcnt'[o] = 0) BY <1>11, <3>1
    <3>4. flags[s] /\ S = {} => refcnt'[o] # 0
      <4> SUFFICES ASSUME flags[s], S = {} PROVE refcnt'[o] # 0 OBVIOUS
      <4>1. refcnt[o] > 0 /\ k = 0 BY <1>4, <1>10, <3>1
      <4> QED BY <1>2, <1>6, <4>1
    <3> QED BY <3>2, <3>3, <3>4
  <2>2. CASE \E d \in DOMAIN devtab : o = <<"dev", d>> /\ o[1] # "file"
    <3>1. (IsOpen(o) <=> refcnt[o] # 0) /\ (IsOpen(o)' <=> refcnt'[o] # 0)
      BY <2>2 DEF IsOpen
    <3> QED BY <1>13, <3>1
  <2> QED BY <2>1, <2>2, ObjectKinds
<1> QED BY <1>12, <1>13, <1>14, <1>15 DEF a, b2

\* close and exit: the process is in user mode and keeps the rest of its table.
LEMMA ClosingKeeps ==
    ASSUME IInv, NEW p \in Procs, NEW gone \in SUBSET FDs, ioclose(p, gone),
           pc[p] = "user", iotab' \in Tables,
           UNCHANGED <<pid, hand, fdi, file, lost>>,
           \A q \in Procs, fd \in FDs :
              iotab'[q][fd] = IF q = p /\ fd \in gone THEN Null ELSE iotab[q][fd],
           \A q \in Procs \ {p} : pc'[q] = pc[q] /\ iotab'[q] = iotab[q],
           pc'[p] = "user" \/ (pc'[p] = "none" /\ iotab'[p] = NoTable),
           pc' \in [Procs -> {"none", "user", "opening", "io", "loading"}],
           status' \in {"running", "panic", "halted"},
           image' \in [Procs -> Images \cup {Null}]
    PROVE  IInv'
<1> USE DEF IInv
<1>1. \A o \in Objects :
        /\ refcnt'[o] \in Nat
        /\ IsOpen(o)' <=> IsOpen(o) /\ refcnt'[o] # 0
        /\ IsOpen(o) => refcnt'[o] = lost[o] + Cardinality(HandUsers(hand, o))
                                       + Cardinality(TableUsers(iotab', o))
        /\ ~IsOpen(o) => refcnt'[o] = refcnt[o]
  BY CountsAfterClose
<1>2. \A q \in Procs, fd \in FDs :
         iotab'[q][fd] = IF q = p /\ fd \in gone THEN Null ELSE iotab[q][fd]
  OBVIOUS
<1>3. /\ \A q \in Procs \ {p} : pc'[q] = pc[q] /\ iotab'[q] = iotab[q]
      /\ pc'[p] = "user" \/ (pc'[p] = "none" /\ iotab'[p] = NoTable)
      /\ pc[p] = "user" /\ UNCHANGED <<pid, hand, fdi, file, lost>>
  OBVIOUS
<1>4. TypeOK'
  <2>1. refcnt' \in [Objects -> Nat]
    <3>1. refcnt' = [o \in Objects |-> refcnt[o] - Cardinality(Entries(p, o) \cap gone)]
      BY DEF ioclose
    <3> QED BY <1>1, <3>1
  <2>2. flags' \in [Slots -> BOOLEAN] BY DEF ioclose
  <2>3. iotab' \in [Procs -> [FDs -> Objects \cup {Null}]] BY DEF Tables
  <2> QED BY <1>3, <2>1, <2>2, <2>3 DEF TypeOK
<1>5. RefcountExact'
  <2> SUFFICES ASSUME NEW o \in Objects, IsOpen(o)' PROVE Exact(o)'
    BY ExactByObject
  <2>1. IsOpen(o) BY <1>1
  <2> QED BY <1>1, <1>3, <2>1 DEF Exact
<1>6. ASSUME NEW o \in Objects, Held(o)' \/ lost[o] > 0 PROVE IsOpen(o)'
  <2>1. Held(o)' => Held(o)
    <3> SUFFICES ASSUME Held(o)' PROVE Held(o) OBVIOUS
    <3>1. o # Null BY NullAssumption
    <3>2. PICK q \in Procs : hand'[q] = o \/ \E fd \in FDs : iotab'[q][fd] = o BY DEF Held
    <3>3. hand[q] = o \/ \E fd \in FDs : iotab[q][fd] = o BY <1>2, <1>3, <3>1, <3>2
    <3> QED BY <3>3 DEF Held
  <2>2. IsOpen(o) BY <1>6, <2>1, HeldByObject DEF LostStaysOpen
  <2> DEFINE a == Cardinality(HandUsers(hand, o))
             b2 == Cardinality(TableUsers(iotab', o))
  <2>3. /\ a \in Nat /\ lost[o] \in Nat
        /\ a = 0 => \A q \in Procs : hand[q] # o
    BY UserCounts
  <2>4. b2 \in Nat /\ (b2 = 0 => \A q \in Procs, fd \in FDs : iotab'[q][fd] # o)
    <3>1. TypeOK' BY <1>4
    <3>2. IsFiniteSet(TableUsers(iotab', o)) BY FinitePlaces DEF TableUsers
    <3>3. b2 \in Nat /\ (b2 = 0 => TableUsers(iotab', o) = {})
      BY <3>2, FS_EmptySet, FS_CardinalityType
    <3>4. ASSUME TableUsers(iotab', o) = {}, NEW q \in Procs, NEW fd \in FDs, iotab'[q][fd] = o
          PROVE  FALSE
      <4>1. <<q, fd>> \in TableUsers(iotab', o) BY <3>4 DEF TableUsers
      <4> QED BY <3>4, <4>1
    <3> QED BY <3>3, <3>4
  <2>5. refcnt'[o] = lost[o] + a + b2 BY <1>1, <2>2
  <2>6. lost[o] > 0 \/ a # 0 \/ b2 # 0
    <3> SUFFICES ASSUME Held(o)', a = 0, b2 = 0 PROVE FALSE BY <1>6
    <3> HIDE DEF a, b2
    <3> QED BY <1>3, <2>3, <2>4 DEF Held
  <2> HIDE DEF a, b2
  <2>7. refcnt'[o] # 0 BY <2>3, <2>4, <2>5, <2>6
  <2> QED BY <1>1, <2>2, <2>7
<1>7. HeldIsOpen'
  <2>1. \A o \in Objects : Held(o)' => IsOpen(o)' BY <1>6
  <2>2. InUse'
    <3> SUFFICES ASSUME NEW q \in Procs, pc'[q] = "io" PROVE iotab'[q][fdi'[q]] # Null
      BY DEF InUse
    <3>1. q # p /\ pc[q] = "io" /\ iotab'[q] = iotab[q] /\ fdi' = fdi BY <1>3
    <3> QED BY <3>1 DEF HeldIsOpen
  <2> QED BY <1>4, <2>1, <2>2, HeldByObject
<1>8. NoAlias' BY <1>2, <1>3 DEF NoAlias
<1>9. LostStaysOpen' BY <1>3, <1>6 DEF LostStaysOpen
<1>10. OpenIsCounted'
  <2> SUFFICES ASSUME NEW s \in Slots, flags'[s] PROVE refcnt'[<<"file", s>>] > 0
    BY DEF OpenIsCounted
  <2> DEFINE o == <<"file", s>>
  <2>1. o \in Objects /\ o[1] = "file" /\ o[2] = s BY DEF Objects
  <2>2. IsOpen(o)' BY <2>1 DEF IsOpen
  <2> HIDE DEF o
  <2>3. refcnt'[o] \in Nat /\ refcnt'[o] # 0 BY <1>1, <2>1, <2>2
  <2> QED BY <2>3 DEF o
<1>11. CallsHold' BY <1>3 DEF CallsHold
<1>12. OpeningIsNew'
  <2> SUFFICES ASSUME NEW q \in Procs, pc'[q] = "opening"
               PROVE  /\ iotab'[q][fdi[q]] = Null
                      /\ \A r \in Procs :
                            /\ \A j \in FDs : iotab'[r][j] # hand[q]
                            /\ r # q => hand[r] # hand[q]
    BY <1>3 DEF OpeningIsNew
  <2>1. q # p /\ pc[q] = "opening" /\ iotab'[q] = iotab[q] BY <1>3
  <2>2. hand[q] # Null BY <2>1 DEF CallsHold
  <2> QED BY <1>2, <2>1, <2>2 DEF OpeningIsNew
<1> QED BY <1>4, <1>5, <1>7, <1>8, <1>9, <1>10, <1>11, <1>12

LEMMA CloseKeeps ==
    ASSUME IInv, NEW p \in Procs, NEW fd \in FDs, sysclose(p, fd)
    PROVE  IInv'
<1>1. /\ pc[p] = "user" /\ ioclose(p, {fd}) /\ iotab' = [iotab EXCEPT ![p][fd] = Null]
      /\ UNCHANGED <<status, pc, pid, image, hand, fdi, file, lost>>
  BY DEF sysclose, InUser
<1>2. /\ iotab \in Tables /\ status \in {"running", "panic", "halted"}
      /\ pc \in [Procs -> {"none", "user", "opening", "io", "loading"}]
      /\ image \in [Procs -> Images \cup {Null}]
  BY DEF IInv, TypeOK, Tables
<1>3. /\ iotab' \in Tables
      /\ \A q \in Procs \ {p} : iotab'[q] = iotab[q]
      /\ \A q \in Procs, j \in FDs :
            iotab'[q][j] = IF q = p /\ j \in {fd} THEN Null ELSE iotab[q][j]
  BY <1>1, <1>2 DEF Tables
<1>4. pc'[p] = "user" /\ \A q \in Procs \ {p} : pc'[q] = pc[q] /\ iotab'[q] = iotab[q]
  BY <1>1, <1>3
<1>5. /\ UNCHANGED <<pid, hand, fdi, file, lost>> /\ {fd} \in SUBSET FDs
      /\ pc' \in [Procs -> {"none", "user", "opening", "io", "loading"}]
      /\ status' \in {"running", "panic", "halted"}
      /\ image' \in [Procs -> Images \cup {Null}]
  BY <1>1, <1>2
<1> QED BY <1>1, <1>3, <1>4, <1>5, ClosingKeeps

LEMMA ExitKeeps ==
    ASSUME IInv, NEW p \in Procs, Exit(p)
    PROVE  IInv'
<1>1. /\ pc[p] = "user" /\ ioclose(p, FDs) /\ iotab' = [iotab EXCEPT ![p] = NoTable]
      /\ pc' = [pc EXCEPT ![p] = "none"] /\ image' = [image EXCEPT ![p] = Null]
      /\ status' = IF p = Main THEN "halted" ELSE status
      /\ UNCHANGED <<pid, hand, fdi, file, lost>>
  BY DEF Exit, InUser
<1>2. /\ iotab \in Tables /\ status \in {"running", "panic", "halted"}
      /\ pc \in [Procs -> {"none", "user", "opening", "io", "loading"}]
      /\ image \in [Procs -> Images \cup {Null}]
  BY DEF IInv, TypeOK, Tables
<1>3. /\ iotab' \in Tables
      /\ \A q \in Procs \ {p} : iotab'[q] = iotab[q]
      /\ iotab'[p] = NoTable
      /\ \A q \in Procs, j \in FDs :
            iotab'[q][j] = IF q = p /\ j \in FDs THEN Null ELSE iotab[q][j]
  BY <1>1, <1>2 DEF Tables, NoTable
<1>4. /\ pc' \in [Procs -> {"none", "user", "opening", "io", "loading"}]
      /\ pc'[p] = "none" /\ \A q \in Procs \ {p} : pc'[q] = pc[q]
      /\ image' \in [Procs -> Images \cup {Null}]
      /\ status' \in {"running", "panic", "halted"}
  BY <1>1, <1>2
<1>5. /\ pc'[p] = "user" \/ (pc'[p] = "none" /\ iotab'[p] = NoTable)
      /\ \A q \in Procs \ {p} : pc'[q] = pc[q] /\ iotab'[q] = iotab[q]
      /\ FDs \in SUBSET FDs /\ UNCHANGED <<pid, hand, fdi, file, lost>>
      /\ pc[p] = "user" /\ ioclose(p, FDs)
  BY <1>1, <1>3, <1>4
<1> DEFINE gone == FDs
<1>6. \A q \in Procs, j \in FDs :
         iotab'[q][j] = IF q = p /\ j \in gone THEN Null ELSE iotab[q][j]
  BY <1>3
<1>7. gone \in SUBSET FDs /\ ioclose(p, gone) BY <1>5
<1> HIDE DEF gone
<1> QED BY <1>3, <1>4, <1>5, <1>6, <1>7, ClosingKeeps

------------------------------------------------------------------------------
(* exec and fork *)

\* exec empties its entry and works with the object it named.
LEMMA ExecKeeps ==
    ASSUME IInv, NEW p \in Procs, NEW fd \in FDs, sysexec(p, fd)
    PROVE  IInv'
<1> USE DEF IInv
<1> DEFINE x == iotab[p][fd]
<1>1. /\ pc[p] = "user" /\ x # Null
      /\ hand' = [hand EXCEPT ![p] = x] /\ iotab' = [iotab EXCEPT ![p][fd] = Null]
      /\ image' = [image EXCEPT ![p] = Null] /\ pc' = [pc EXCEPT ![p] = "loading"]
      /\ UNCHANGED <<status, pid, fdi, refcnt, flags, file, lost>>
  BY DEF sysexec, InUser, objVars
<1>2. x \in Objects BY <1>1 DEF TypeOK
<1>3. /\ hand \in Hands /\ iotab \in Tables /\ image \in [Procs -> Images \cup {Null}]
      /\ pc \in [Procs -> {"none", "user", "opening", "io", "loading"}]
  BY DEF TypeOK, Hands, Tables
<1>4. /\ \A q \in Procs, j \in FDs :
            iotab'[q][j] = IF q = p /\ j = fd THEN Null ELSE iotab[q][j]
      /\ \A q \in Procs \ {p} : iotab'[q] = iotab[q]
      /\ iotab' \in Tables
  BY <1>1, <1>3 DEF Tables
<1>5. /\ \A q \in Procs : hand'[q] = IF q = p THEN x ELSE hand[q]
      /\ hand' \in Hands
  BY <1>1, <1>2, <1>3 DEF Hands
<1>6. /\ pc' \in [Procs -> {"none", "user", "opening", "io", "loading"}]
      /\ pc'[p] = "loading" /\ \A q \in Procs \ {p} : pc'[q] = pc[q]
      /\ image' \in [Procs -> Images \cup {Null}]
  BY <1>1, <1>3
<1>7. \A o \in Objects : IsOpen(o)' <=> IsOpen(o) BY <1>1 DEF IsOpen
<1>8. hand[p] = Null BY <1>1 DEF CallsHold
<1> HIDE DEF x
<1>9. TypeOK'
  <2>1. hand' \in [Procs -> Objects \cup {Null}] BY <1>5 DEF Hands
  <2>2. iotab' \in [Procs -> [FDs -> Objects \cup {Null}]] BY <1>4 DEF Tables
  <2> QED BY <1>1, <1>6, <2>1, <2>2 DEF TypeOK
<1>10. RefcountExact'
  <2> SUFFICES ASSUME NEW o \in Objects, IsOpen(o)' PROVE Exact(o)'
    BY ExactByObject
  <2> DEFINE a == Cardinality(HandUsers(hand, o))
             b == Cardinality(TableUsers(iotab, o))
             a2 == Cardinality(HandUsers(hand', o))
             b2 == Cardinality(TableUsers(iotab', o))
  <2>1. a \in Nat /\ b \in Nat /\ lost[o] \in Nat /\ refcnt[o] \in Nat BY UserCounts
  <2>2. a2 \in Nat /\ b2 \in Nat BY FinitePlaces DEF HandUsers, TableUsers
  <2>3. a2 + Counts(Null, o) = a + Counts(x, o)
    <3>1. a2 + Counts(hand[p], o) = a + Counts(x, o)
      BY <1>2, <1>3, <1>5, HandChanges
    <3> QED BY <1>8, <3>1
  <2>4. b2 + Counts(x, o) = b + Counts(Null, o)
    BY <1>3, <1>4, PlaceUsers DEF x
  <2>5. Counts(Null, o) = 0 /\ Counts(x, o) \in Nat BY NullAssumption DEF Counts
  <2>6. a2 + b2 = a + b BY <2>1, <2>2, <2>3, <2>4, <2>5
  <2>7. refcnt[o] = lost[o] + a + b BY <1>7, ExactByObject DEF Exact
  <2> HIDE DEF a, b, a2, b2
  <2>8. refcnt[o] = lost[o] + a2 + b2 BY <2>1, <2>2, <2>6, <2>7
  <2> QED BY <1>1, <2>8 DEF Exact, a2, b2
<1>11. HeldIsOpen'
  <2>1. ASSUME NEW o \in Objects, Held(o)' PROVE IsOpen(o)'
    <3>1. o # Null BY NullAssumption
    <3>2. PICK q \in Procs : hand'[q] = o \/ \E j \in FDs : iotab'[q][j] = o
      BY <2>1 DEF Held
    <3>3. hand[q] = o \/ (\E j \in FDs : iotab[q][j] = o) \/ iotab[p][fd] = o
      BY <1>4, <1>5, <3>1, <3>2 DEF x
    <3>4. Held(o) BY <3>3 DEF Held
    <3> QED BY <1>7, <3>4, HeldByObject
  <2>2. InUse'
    <3> SUFFICES ASSUME NEW q \in Procs, pc'[q] = "io" PROVE iotab'[q][fdi'[q]] # Null
      BY DEF InUse
    <3>1. q # p /\ pc[q] = "io" /\ iotab'[q] = iotab[q] /\ fdi' = fdi
      BY <1>1, <1>4, <1>6
    <3> QED BY <3>1 DEF HeldIsOpen
  <2> QED BY <1>9, <2>1, <2>2, HeldByObject
<1>12. NoAlias' BY <1>4 DEF NoAlias
<1>13. LostStaysOpen' /\ OpenIsCounted' BY <1>1, <1>7 DEF LostStaysOpen, OpenIsCounted
<1>14. CallsHold'
  <2> SUFFICES ASSUME NEW q \in Procs
               PROVE  /\ hand'[q] # Null <=> pc'[q] \in {"opening", "loading"}
                      /\ pc'[q] = "none" => iotab'[q] = NoTable
    BY DEF CallsHold
  <2>1. CASE q = p BY <1>1, <1>5, <1>6, <2>1
  <2>2. CASE q # p BY <1>4, <1>5, <1>6, <2>2 DEF CallsHold
  <2> QED BY <2>1, <2>2
<1>15. OpeningIsNew'
  <2> SUFFICES ASSUME NEW q \in Procs, pc'[q] = "opening"
               PROVE  /\ iotab'[q][fdi'[q]] = Null
                      /\ \A r \in Procs :
                            /\ \A j \in FDs : iotab'[r][j] # hand'[q]
                            /\ r # q => hand'[r] # hand'[q]
    BY DEF OpeningIsNew
  <2>1. /\ q # p /\ pc[q] = "opening" /\ iotab'[q] = iotab[q] /\ fdi' = fdi
        /\ hand'[q] = hand[q]
    BY <1>1, <1>4, <1>5, <1>6
  <2>2. hand[q] # Null BY <2>1 DEF CallsHold
  <2>3. x # hand[q] BY <2>1 DEF OpeningIsNew, x
  <2> QED BY <1>4, <1>5, <2>1, <2>2, <2>3 DEF OpeningIsNew
<1> QED BY <1>9, <1>10, <1>11, <1>12, <1>13, <1>14, <1>15

\* An image is loaded; what exec held is never given back.
LEMMA LoadedKeeps ==
    ASSUME IInv, NEW p \in Procs, Loaded(p)
    PROVE  IInv'
<1> USE DEF IInv
<1> DEFINE x == hand[p]
<1>1. /\ pc[p] = "loading" /\ LeaveCall(p)
      /\ \E f \in Program(x) : image' = [image EXCEPT ![p] = f]
      /\ lost' = [lost EXCEPT ![x] = @ + 1]
      /\ UNCHANGED <<status, pid, iotab, refcnt, flags, file>>
  BY DEF Loaded
<1>2. /\ pc' \in [Procs -> {"none", "user", "opening", "io", "loading"}]
      /\ hand' \in Hands /\ fdi' \in [Procs -> FDs]
      /\ pc'[p] = "user" /\ hand'[p] = Null
      /\ \A q \in Procs \ {p} : pc'[q] = pc[q] /\ hand'[q] = hand[q] /\ fdi'[q] = fdi[q]
  BY <1>1, CallLeft
<1>3. x \in Objects /\ x # Null /\ hand \in Hands /\ lost \in [Objects -> Nat]
  BY <1>1 DEF TypeOK, CallsHold, Hands
<1>4. image' \in [Procs -> Images \cup {Null}]
  <2>1. Program(x) \subseteq Images BY DEF Program
  <2> QED BY <1>1, <2>1 DEF TypeOK
<1>5. /\ lost' \in [Objects -> Nat] /\ lost'[x] = lost[x] + 1
      /\ \A o \in Objects : o # x => lost'[o] = lost[o]
  BY <1>1, <1>3
<1>6. \A o \in Objects : IsOpen(o)' <=> IsOpen(o) BY <1>1 DEF IsOpen
<1>7. IsOpen(x) BY <1>3 DEF HeldIsOpen
<1> HIDE DEF x
<1>8. TypeOK'
  <2>1. hand' \in [Procs -> Objects \cup {Null}] BY <1>2 DEF Hands
  <2> QED BY <1>1, <1>2, <1>4, <1>5, <2>1 DEF TypeOK
<1>9. RefcountExact'
  <2> SUFFICES ASSUME NEW o \in Objects, IsOpen(o)' PROVE Exact(o)'
    BY ExactByObject
  <2> DEFINE a == Cardinality(HandUsers(hand, o))
             b == Cardinality(TableUsers(iotab, o))
             a2 == Cardinality(HandUsers(hand', o))
  <2>1. a \in Nat /\ b \in Nat /\ lost[o] \in Nat /\ refcnt[o] \in Nat BY UserCounts
  <2>2. a2 \in Nat BY FinitePlaces DEF HandUsers
  <2>3. a2 + Counts(x, o) = a + Counts(Null, o)
    <3>1. \A q \in Procs : hand'[q] = IF q = p THEN Null ELSE hand[q] BY <1>2
    <3> QED BY <1>2, <1>3, <3>1, HandChanges DEF x
  <2>4. Counts(Null, o) = 0 /\ Counts(x, o) \in Nat BY NullAssumption DEF Counts
  <2>5. lost'[o] = lost[o] + Counts(x, o) BY <1>5, <2>1 DEF Counts
  <2>6. refcnt[o] = lost[o] + a + b BY <1>6, ExactByObject DEF Exact
  <2> HIDE DEF a, b, a2
  <2>7. refcnt[o] = lost'[o] + a2 + b BY <2>1, <2>2, <2>3, <2>4, <2>5, <2>6
  <2> QED BY <1>1, <2>7 DEF Exact, a2, b
<1>10. HeldIsOpen'
  <2>1. ASSUME NEW o \in Objects, Held(o)' PROVE IsOpen(o)'
    <3>1. o # Null BY NullAssumption
    <3>2. PICK q \in Procs : hand'[q] = o \/ \E j \in FDs : iotab'[q][j] = o
      BY <2>1 DEF Held
    <3>3. hand[q] = o \/ (\E j \in FDs : iotab[q][j] = o)
      BY <1>1, <1>2, <3>1, <3>2
    <3>4. Held(o) BY <3>3 DEF Held
    <3> QED BY <1>6, <3>4, HeldByObject
  <2>2. InUse'
    <3> SUFFICES ASSUME NEW q \in Procs, pc'[q] = "io" PROVE iotab'[q][fdi'[q]] # Null
      BY DEF InUse
    <3>1. q # p /\ pc[q] = "io" /\ iotab' = iotab /\ fdi'[q] = fdi[q] BY <1>1, <1>2
    <3> QED BY <3>1 DEF HeldIsOpen
  <2> QED BY <1>8, <2>1, <2>2, HeldByObject
<1>11. NoAlias' BY <1>1 DEF NoAlias
<1>12. LostStaysOpen' BY <1>5, <1>6, <1>7 DEF LostStaysOpen
<1>13. OpenIsCounted' BY <1>1 DEF OpenIsCounted
<1>14. CallsHold' BY <1>1, <1>2 DEF CallsHold
<1>15. OpeningIsNew'
  <2> SUFFICES ASSUME NEW q \in Procs, pc'[q] = "opening"
               PROVE  /\ iotab[q][fdi'[q]] = Null
                      /\ \A r \in Procs :
                            /\ \A j \in FDs : iotab[r][j] # hand'[q]
                            /\ r # q => hand'[r] # hand'[q]
    BY <1>1 DEF OpeningIsNew
  <2>1. q # p /\ pc[q] = "opening" /\ fdi'[q] = fdi[q] /\ hand'[q] = hand[q] BY <1>2
  <2>2. hand[q] # Null BY <2>1 DEF CallsHold
  <2> QED BY <1>2, <2>1, <2>2 DEF OpeningIsNew
<1> QED BY <1>8, <1>9, <1>10, <1>11, <1>12, <1>13, <1>14, <1>15

\* fork gives the new process the whole table and counts each of its entries.
LEMMA ForkKeeps ==
    ASSUME IInv, NEW p \in Procs, NEW q \in Procs, sysfork(p, q)
    PROVE  IInv'
<1> USE DEF IInv
<1>1. /\ pc[p] = "user" /\ pc[q] = "none" /\ NPROC > 1
      /\ pc' = [pc EXCEPT ![q] = "user"] /\ pid' = [pid EXCEPT ![q] = NewPid]
      /\ iotab' = [iotab EXCEPT ![q] = iotab[p]] /\ ioref(p)
      /\ image' = [image EXCEPT ![q] = image[p]]
      /\ UNCHANGED <<status, hand, fdi, flags, file, lost>>
  BY DEF sysfork, InUser
<1>2. p # q /\ iotab[q] = NoTable /\ hand[q] = Null BY <1>1 DEF CallsHold
<1>3. /\ iotab \in Tables /\ image \in [Procs -> Images \cup {Null}]
      /\ pc \in [Procs -> {"none", "user", "opening", "io", "loading"}]
      /\ pid \in [Procs -> 0 .. NPROC - 1]
  BY DEF TypeOK, Tables
<1>4. iotab' \in Tables /\ \A r \in Procs : iotab'[r] = IF r = q THEN iotab[p] ELSE iotab[r]
  BY <1>1, <1>3 DEF Tables
<1>5. NewPid \in 0 .. NPROC - 1
  <2> DEFINE free == {i \in 0 .. NPROC - 1 : i # 0}
  <2>1. 1 \in free BY <1>1, DescriptorsAssumption
  <2>2. free \in SUBSET Nat OBVIOUS
  <2>3. NewPid = Min(free) BY DEF NewPid
  <2> HIDE DEF free
  <2>4. Min(free) \in free BY <2>1, <2>2, MinIsLeast
  <2> QED BY <2>3, <2>4 DEF free
<1>6. /\ pc' \in [Procs -> {"none", "user", "opening", "io", "loading"}]
      /\ pc'[q] = "user" /\ \A r \in Procs \ {q} : pc'[r] = pc[r]
      /\ image' \in [Procs -> Images \cup {Null}]
      /\ pid' \in [Procs -> 0 .. NPROC - 1]
  BY <1>1, <1>3, <1>5
<1>7. ASSUME NEW o \in Objects
      PROVE  /\ refcnt'[o] \in Nat
             /\ refcnt'[o] + Cardinality(TableUsers(iotab, o))
                  = refcnt[o] + Cardinality(TableUsers(iotab', o))
             /\ refcnt'[o] # refcnt[o] => IsOpen(o)
             /\ refcnt'[o] >= refcnt[o]
  <2> DEFINE S == {fd \in FDs : iotab[p][fd] = o}
             k == Cardinality(S)
             b == Cardinality(TableUsers(iotab, o))
             b2 == Cardinality(TableUsers(iotab', o))
  <2>1. b \in Nat /\ refcnt[o] \in Nat BY UserCounts
  <2>2. S \in SUBSET FDs /\ IsFiniteSet(S) /\ k \in Nat BY FinitePlaces
  <2>3. b2 = b + k
    <3> HIDE DEF S, k, b, b2
    <3>1. Cardinality(TableUsers(iotab', o))
            = Cardinality(TableUsers(iotab, o)) + Cardinality({fd \in FDs : iotab[p][fd] = o})
      BY ONLY <1>2, <1>3, <1>4, CopyUsers, p \in Procs, q \in Procs, o \in Objects
    <3> QED BY <3>1 DEF S, k, b, b2
  <2>4. refcnt'[o] = refcnt[o] + k BY <1>1 DEF ioref, Entries
  <2>5. k # 0 => IsOpen(o)
    <3> SUFFICES ASSUME k # 0 PROVE IsOpen(o) OBVIOUS
    <3>1. S # {} BY <2>2, FS_EmptySet
    <3>2. PICK fd \in FDs : iotab[p][fd] = o BY <3>1
    <3>3. o # Null BY NullAssumption
    <3> QED BY <3>2, <3>3 DEF HeldIsOpen
  <2> HIDE DEF S, k, b, b2
  <2>6. refcnt'[o] \in Nat /\ refcnt'[o] + b = refcnt[o] + b2
        /\ (refcnt'[o] # refcnt[o] => k # 0) /\ refcnt'[o] >= refcnt[o]
    BY <2>1, <2>2, <2>3, <2>4
  <2> QED BY <2>5, <2>6 DEF b, b2
<1>8. \A o \in Objects : IsOpen(o)' <=> IsOpen(o)
  <2> TAKE o \in Objects
  <2>1. refcnt[o] \in Nat BY UserCounts
  <2>2. refcnt[o] # 0 => refcnt'[o] # 0 BY <1>7, <2>1
  <2> QED BY <1>1, <1>7, <2>2 DEF IsOpen
<1>9. TypeOK'
  <2>1. refcnt' \in [Objects -> Nat]
    <3>1. refcnt' = [o \in Objects |-> refcnt[o] + Cardinality(Entries(p, o))]
      BY <1>1 DEF ioref
    <3> QED BY <1>7, <3>1
  <2>2. iotab' \in [Procs -> [FDs -> Objects \cup {Null}]] BY <1>4 DEF Tables
  <2> QED BY <1>1, <1>6, <2>1, <2>2 DEF TypeOK
<1>10. RefcountExact'
  <2> SUFFICES ASSUME NEW o \in Objects, IsOpen(o)' PROVE Exact(o)'
    BY ExactByObject
  <2> DEFINE a == Cardinality(HandUsers(hand, o))
             b == Cardinality(TableUsers(iotab, o))
             b2 == Cardinality(TableUsers(iotab', o))
  <2>1. a \in Nat /\ b \in Nat /\ lost[o] \in Nat /\ refcnt[o] \in Nat BY UserCounts
  <2>2. b2 \in Nat BY FinitePlaces DEF TableUsers
  <2>3. refcnt'[o] \in Nat /\ refcnt'[o] + b = refcnt[o] + b2 BY <1>7
  <2>4. refcnt[o] = lost[o] + a + b BY <1>8, ExactByObject DEF Exact
  <2> HIDE DEF a, b, b2
  <2>5. refcnt'[o] = lost[o] + a + b2 BY <2>1, <2>2, <2>3, <2>4
  <2> QED BY <1>1, <2>5 DEF Exact, a, b2
<1>11. HeldIsOpen'
  <2>1. ASSUME NEW o \in Objects, Held(o)' PROVE IsOpen(o)'
    <3>1. PICK r \in Procs : hand'[r] = o \/ \E j \in FDs : iotab'[r][j] = o
      BY <2>1 DEF Held
    <3>2. \E r2 \in Procs : hand[r2] = o \/ \E j \in FDs : iotab[r2][j] = o
      BY <1>1, <1>4, <3>1
    <3>3. Held(o) BY <3>2 DEF Held
    <3> QED BY <1>8, <3>3, HeldByObject
  <2>2. InUse'
    <3> SUFFICES ASSUME NEW r \in Procs, pc'[r] = "io" PROVE iotab'[r][fdi'[r]] # Null
      BY DEF InUse
    <3>1. r # q /\ pc[r] = "io" /\ iotab'[r] = iotab[r] /\ fdi' = fdi
      BY <1>1, <1>4, <1>6
    <3> QED BY <3>1 DEF HeldIsOpen
  <2> QED BY <1>9, <2>1, <2>2, HeldByObject
<1>12. NoAlias' BY <1>4 DEF NoAlias
<1>13. LostStaysOpen' BY <1>1, <1>8 DEF LostStaysOpen
<1>14. OpenIsCounted'
  <2> SUFFICES ASSUME NEW s \in Slots, flags[s] PROVE refcnt'[<<"file", s>>] > 0
    BY <1>1 DEF OpenIsCounted
  <2> DEFINE o == <<"file", s>>
  <2>1. o \in Objects /\ refcnt[o] > 0 BY DEF Objects, OpenIsCounted
  <2> HIDE DEF o
  <2>2. refcnt[o] \in Nat BY <2>1, UserCounts
  <2>3. refcnt'[o] \in Nat /\ refcnt'[o] >= refcnt[o] BY <1>7, <2>1
  <2>4. refcnt'[o] > 0 BY <2>1, <2>2, <2>3
  <2> QED BY <2>4 DEF o
<1>15. CallsHold'
  <2> SUFFICES ASSUME NEW r \in Procs
               PROVE  /\ hand[r] # Null <=> pc'[r] \in {"opening", "loading"}
                      /\ pc'[r] = "none" => iotab'[r] = NoTable
    BY <1>1 DEF CallsHold
  <2>1. CASE r = q BY <1>2, <1>6, <2>1
  <2>2. CASE r # q BY <1>4, <1>6, <2>2 DEF CallsHold
  <2> QED BY <2>1, <2>2
<1>16. OpeningIsNew'
  <2> SUFFICES ASSUME NEW r \in Procs, pc'[r] = "opening"
               PROVE  /\ iotab'[r][fdi[r]] = Null
                      /\ \A t \in Procs :
                            /\ \A j \in FDs : iotab'[t][j] # hand[r]
                            /\ t # r => hand[t] # hand[r]
    BY <1>1 DEF OpeningIsNew
  <2>1. r # q /\ pc[r] = "opening" /\ iotab'[r] = iotab[r] BY <1>4, <1>6
  <2> QED BY <1>4, <2>1 DEF OpeningIsNew
<1> QED BY <1>9, <1>10, <1>11, <1>12, <1>13, <1>14, <1>15, <1>16

LEMMA NextKeeps == IInv /\ [Next]_vars => IInv'
<1> SUFFICES ASSUME IInv, [Next]_vars PROVE IInv' OBVIOUS
<1>1. CASE UNCHANGED vars
  <2>1. /\ UNCHANGED <<status, pc, pid, iotab, image, hand, fdi>>
        /\ UNCHANGED <<refcnt, flags, file, lost>>
    BY <1>1 DEF vars, procVars, objVars
  <2> QED BY <2>1 DEF IInv, TypeOK, RefcountExact, HeldIsOpen, NoAlias, IsOpen,
        LostStaysOpen, OpenIsCounted, CallsHold, OpeningIsNew
<1>2. CASE Stopped BY <1>1, <1>2 DEF Stopped
<1>3. ASSUME NEW p \in Procs, NEW fd \in FDs \cup {-1},
             \/ \E d \in DOMAIN devtab : sysdevopen(p, fd, devtab[d].name, InstanceOf(d))
             \/ \E f \in Files \cup {Null} : sysfsopen(p, fd, f)
      PROVE  IInv'
  BY <1>3, DevOpenKeeps, FsOpenKeeps
<1>4. ASSUME NEW p \in Procs, NEW fd \in FDs,
             sysclose(p, fd) \/ Transfer(p, fd) \/ sysexec(p, fd)
      PROVE  IInv'
  BY <1>4, CloseKeeps, QuietKeeps, ExecKeeps
<1>5. ASSUME NEW p \in Procs,
             \/ OpenDone(p) \/ TransferDone(p) \/ Loaded(p) \/ LoadFails(p)
             \/ Exit(p)
      PROVE  IInv'
  BY <1>5, OpenDoneKeeps, QuietKeeps, LoadedKeeps, ExitKeeps
<1>6. ASSUME NEW p \in Procs, NEW q \in Procs, sysfork(p, q) PROVE IInv'
  BY <1>6, ForkKeeps
<1> QED BY <1>1, <1>2, <1>3, <1>4, <1>5, <1>6 DEF Next

LEMMA Invariance == Spec => []IInv
BY InitIInv, NextKeeps, PTL DEF Spec

------------------------------------------------------------------------------
(* Theorems *)

\* The count of every open object is the number of descriptors and calls that
\* use it and of references that were dropped for good, and whatever a
\* descriptor or a sleeping call uses is open: process_fork's references,
\* process_exit's and sysclose's ioclose, sysexec's hand-over.
THEOREM CountsAreExact == Spec => []HoldersCounted
<1>1. IInv => HoldersCounted BY DEF IInv, HoldersCounted
<1> QED BY <1>1, Invariance, PTL

\* Two descriptors of one process never name one object: what sysdevopen and
\* sysfsopen install is new, and process_fork copies a table whole.
THEOREM DescriptorsApart == Spec => []NoAlias
<1>1. IInv => NoAlias BY DEF IInv
<1> QED BY <1>1, Invariance, PTL

------------------------------------------------------------------------------
(* Counting implements reachability *)

Pinned == {o \in Objects : lost[o] > 0}
Live == {o \in Objects : IsOpen(o)}

\* An object is open when someone uses it or it was dropped for good.
LEMMA OpenIsReached ==
    ASSUME IInv, NEW o \in Objects
    PROVE  IsOpen(o) <=> o \in Pinned \/ Held(o)
<1> USE DEF IInv
<1> DEFINE a == Cardinality(HandUsers(hand, o))
           b == Cardinality(TableUsers(iotab, o))
<1>1. ASSUME o \in Pinned \/ Held(o) PROVE IsOpen(o)
  BY <1>1, HeldByObject DEF Pinned, LostStaysOpen
<1>2. ASSUME IsOpen(o) PROVE o \in Pinned \/ Held(o)
  <2>1. /\ a \in Nat /\ b \in Nat /\ refcnt[o] \in Nat /\ lost[o] \in Nat
        /\ a = 0 <=> \A p \in Procs : hand[p] # o
        /\ b = 0 <=> \A p \in Procs, fd \in FDs : iotab[p][fd] # o
    BY UserCounts
  <2>2. refcnt[o] # 0
    <3>1. CASE \E s \in Slots : o = <<"file", s>> /\ o[1] = "file" /\ o[2] = s
      <4>1. PICK s \in Slots : o = <<"file", s>> /\ o[1] = "file" /\ o[2] = s BY <3>1
      <4>2. refcnt[o] > 0 BY <1>2, <4>1 DEF IsOpen, OpenIsCounted
      <4> QED BY <2>1, <4>2
    <3>2. CASE \E d \in DOMAIN devtab : o = <<"dev", d>> /\ o[1] # "file"
      BY <1>2, <3>2 DEF IsOpen
    <3> QED BY <3>1, <3>2, ObjectKinds
  <2>3. refcnt[o] = lost[o] + a + b BY <1>2, ExactByObject DEF Exact
  <2> HIDE DEF a, b
  <2>4. lost[o] > 0 \/ a # 0 \/ b # 0 BY <2>1, <2>2, <2>3
  <2> QED BY <2>1, <2>4 DEF Pinned, Held
<1> QED BY <1>1, <1>2

LEMMA LiveIsReached ==
    /\ IInv => Live = H!Reached
    /\ IInv' => Live' = (H!Reached)'
<1>1. IInv => Live = H!Reached
  <2> SUFFICES ASSUME IInv PROVE Live = H!Reached OBVIOUS
  <2>1. \A o \in Objects : o \in Live <=> o \in Pinned \/ Held(o)
    BY OpenIsReached DEF Live
  <2>2. \A o \in Objects : o \in H!Reached <=> o \in Pinned \/ Held(o)
    BY DEF H!Reached, Pinned, Held
  <2>3. Live \subseteq Objects /\ H!Reached \subseteq Objects BY DEF Live, H!Reached
  <2> QED BY <2>1, <2>2, <2>3
<1>2. (IInv => Live = H!Reached)' BY <1>1, PTL
<1> QED BY <1>1, <1>2

LEMMA InitHandles == Init => H!Init
<1> SUFFICES ASSUME Init PROVE H!Init OBVIOUS
<1>1. IInv BY InitIInv
<1>2. iotab = [p \in Procs |-> [fd \in FDs |-> Null]] /\ hand = [p \in Procs |-> Null]
  BY DEF Init, NoTable
<1>3. \A o \in Objects : ~Held(o) BY <1>2, NullAssumption DEF Held
<1>4. Live = Pinned
  <2>1. \A o \in Objects : IsOpen(o) <=> o \in Pinned BY <1>1, <1>3, OpenIsReached
  <2> QED BY <2>1 DEF Live, Pinned
<1> QED BY <1>2, <1>4 DEF H!Init, Live, Pinned

LEMMA OpenSteps ==
    ASSUME IInv, NEW p \in Procs, NEW fd \in FDs \cup {-1}
    PROVE  /\ \A name, instno : sysdevopen(p, fd, name, instno) =>
                 \E i \in FDs, o \in Objects : H!NewInstalled(p, i, o)
           /\ \A f \in Files \cup {Null} : sysfsopen(p, fd, f) =>
                 \E o \in Objects : H!New(p, o) \/ H!NewPinned(o)
<1> USE DEF IInv
<1>1. ASSUME NEW name, NEW instno, sysdevopen(p, fd, name, instno)
      PROVE  \E i \in FDs, o \in Objects : H!NewInstalled(p, i, o)
  <2>1. PICK i \in Places(p, fd), d \in device_open(name, instno) :
          /\ MayOpenPort(d)
          /\ iotab' = [iotab EXCEPT ![p][i] = <<"dev", d>>]
    BY <1>1 DEF sysdevopen
  <2>2. UNCHANGED <<hand, lost>> BY <1>1 DEF sysdevopen
  <2> DEFINE x == <<"dev", d>>
  <2>3. i \in FDs /\ iotab[p][i] = Null BY <2>1, PlacesAreFree
  <2>4. x \in Objects /\ ~IsOpen(x)
    <3>1. d \in DOMAIN devtab BY <2>1 DEF device_open
    <3> QED BY <2>1, <3>1 DEF Objects, MayOpenPort, IsOpen
  <2>5. H!NewInstalled(p, i, x) BY <2>1, <2>2, <2>3, <2>4 DEF H!NewInstalled
  <2> QED BY <2>3, <2>4, <2>5
<1>2. ASSUME NEW f \in Files \cup {Null}, sysfsopen(p, fd, f)
      PROVE  \E o \in Objects : H!New(p, o) \/ H!NewPinned(o)
  <2>1. PICK s \in {Min(Unused)} :
          IF f \in Files
          THEN hand' = [hand EXCEPT ![p] = <<"file", s>>] /\ UNCHANGED lost
          ELSE lost' = [lost EXCEPT ![<<"file", s>>] = @ + 1] /\ UNCHANGED hand
    BY <1>2 DEF sysfsopen
  <2>2. pc[p] = "user" /\ Unused # {} /\ UNCHANGED iotab BY <1>2 DEF sysfsopen, InUser
  <2> DEFINE x == <<"file", s>>
  <2>3. s \in Slots /\ ~flags[s]
    <3>1. Unused \in SUBSET Nat BY DescriptorsAssumption DEF Unused
    <3>2. Min(Unused) \in Unused BY <2>2, <3>1, MinIsLeast
    <3> QED BY <2>1, <3>2 DEF Unused
  <2>4. x \in Objects /\ ~IsOpen(x) BY <2>3 DEF Objects, IsOpen
  <2>5. hand[p] = Null BY <2>2 DEF CallsHold
  <2>6. lost[x] = 0 /\ lost \in [Objects -> Nat] BY <2>4, ClosedIsUnused DEF TypeOK
  <2>7. CASE f \in Files
    <3>1. H!New(p, x) BY <2>1, <2>2, <2>4, <2>5, <2>7 DEF H!New
    <3> QED BY <2>4, <3>1
  <2>8. CASE f \notin Files
    <3>1. lost' = [lost EXCEPT ![x] = @ + 1] /\ UNCHANGED hand BY <2>1, <2>8
    <3> HIDE DEF x
    <3>2. lost'[x] > 0 /\ \A o \in Objects \ {x} : lost'[o] = lost[o]
      BY <2>4, <2>6, <3>1
    <3>3. {o \in Objects : lost'[o] > 0} = {o \in Objects : lost[o] > 0} \cup {x}
      BY <2>4, <3>2
    <3>4. H!NewPinned(x) BY <2>2, <2>4, <3>1, <3>3 DEF H!NewPinned
    <3> QED BY <2>4, <3>4
  <2> QED BY <2>7, <2>8
<1> QED BY <1>1, <1>2

LEMMA CallSteps ==
    ASSUME IInv, NEW p \in Procs
    PROVE  /\ OpenDone(p) => \E fd \in FDs : H!Install(p, fd)
           /\ Loaded(p) => H!Forget(p)
           /\ Exit(p) => \E gone \in SUBSET FDs : H!Drop(p, gone)
           /\ \A fd \in FDs : sysclose(p, fd) => \E gone \in SUBSET FDs : H!Drop(p, gone)
           /\ \A fd \in FDs : sysexec(p, fd) => H!Take(p, fd)
           /\ \A q \in Procs : sysfork(p, q) => H!Copy(p, q)
<1> USE DEF IInv
<1>1. /\ iotab \in [Procs -> [FDs -> Objects \cup {Null}]] /\ fdi[p] \in FDs
      /\ lost \in [Objects -> Nat] /\ hand[p] \in Objects \cup {Null}
  BY DEF TypeOK
<1>2. ASSUME OpenDone(p) PROVE H!Install(p, fdi[p])
  <2>1. /\ pc[p] = "opening" /\ hand' = [hand EXCEPT ![p] = Null]
        /\ iotab' = [iotab EXCEPT ![p][fdi[p]] = hand[p]] /\ UNCHANGED lost
    BY <1>2 DEF OpenDone, LeaveCall, objVars
  <2>2. hand[p] # Null /\ iotab[p][fdi[p]] = Null
    BY <2>1 DEF CallsHold, OpeningIsNew
  <2> QED BY <2>1, <2>2 DEF H!Install
<1>3. ASSUME Loaded(p) PROVE H!Forget(p)
  <2> DEFINE x == hand[p]
  <2>1. /\ pc[p] = "loading" /\ hand' = [hand EXCEPT ![p] = Null]
        /\ lost' = [lost EXCEPT ![x] = @ + 1] /\ UNCHANGED iotab
    BY <1>3 DEF Loaded, LeaveCall
  <2>2. x # Null BY <2>1 DEF CallsHold
  <2>3. x \in Objects BY <1>1, <2>2
  <2>4. lost'[x] > 0 /\ \A o \in Objects \ {x} : lost'[o] = lost[o]
    <3> HIDE DEF x
    <3> QED BY <1>1, <2>1, <2>3
  <2>5. {o \in Objects : lost'[o] > 0} = {o \in Objects : lost[o] > 0} \cup {x}
    <3> HIDE DEF x
    <3> QED BY <2>3, <2>4
  <2> QED BY <2>1, <2>2, <2>5 DEF H!Forget
<1>4. ASSUME Exit(p) PROVE H!Drop(p, FDs)
  <2>1. iotab' = [iotab EXCEPT ![p] = NoTable] /\ UNCHANGED <<hand, lost>>
    BY <1>4 DEF Exit
  <2>2. NoTable = [fd \in FDs |-> IF fd \in FDs THEN Null ELSE iotab[p][fd]]
    BY DEF NoTable
  <2> QED BY <1>1, <2>1, <2>2 DEF H!Drop
<1>5. ASSUME NEW fd \in FDs, sysclose(p, fd) PROVE H!Drop(p, {fd})
  <2>1. iotab' = [iotab EXCEPT ![p][fd] = Null] /\ UNCHANGED <<hand, lost>>
    BY <1>5 DEF sysclose
  <2>2. [iotab[p] EXCEPT ![fd] = Null]
          = [j \in FDs |-> IF j \in {fd} THEN Null ELSE iotab[p][j]]
    BY <1>1
  <2> QED BY <1>1, <2>1, <2>2 DEF H!Drop
<1>6. ASSUME NEW fd \in FDs, sysexec(p, fd) PROVE H!Take(p, fd)
  <2>1. /\ pc[p] = "user" /\ hand' = [hand EXCEPT ![p] = iotab[p][fd]]
        /\ iotab' = [iotab EXCEPT ![p][fd] = Null] /\ UNCHANGED lost
    BY <1>6 DEF sysexec, InUser, objVars
  <2>2. hand[p] = Null BY <2>1 DEF CallsHold
  <2> QED BY <2>1, <2>2 DEF H!Take
<1>7. ASSUME NEW q \in Procs, sysfork(p, q) PROVE H!Copy(p, q)
  <2>1. pc[q] = "none" /\ iotab' = [iotab EXCEPT ![q] = iotab[p]] /\ UNCHANGED <<hand, lost>>
    BY <1>7 DEF sysfork
  <2>2. \A fd \in FDs : iotab[q][fd] = Null BY <2>1 DEF CallsHold, NoTable
  <2> QED BY <2>1, <2>2 DEF H!Copy
<1> QED BY <1>1, <1>2, <1>3, <1>4, <1>5, <1>6, <1>7

LEMMA HandlesStep == IInv /\ IInv' /\ [Next]_vars => [H!Next]_(H!vars)
<1> SUFFICES ASSUME IInv, IInv', [Next]_vars
             PROVE  H!Next \/ UNCHANGED H!vars
  OBVIOUS
<1>1. Live' = (H!Reached)' BY LiveIsReached
<1>2. {o \in Objects : IsOpen(o)}' = (H!Reached)' BY <1>1 DEF Live
<1>3. ASSUME UNCHANGED <<iotab, hand, refcnt, flags, lost>> PROVE UNCHANGED H!vars
  BY <1>3 DEF H!vars, IsOpen
<1>4. CASE UNCHANGED vars BY <1>3, <1>4 DEF vars, procVars, objVars
<1>5. CASE Stopped BY <1>4, <1>5 DEF Stopped
<1>6. ASSUME NEW p \in Procs, NEW fd \in FDs \cup {-1},
             NEW d \in DOMAIN devtab, sysdevopen(p, fd, devtab[d].name, InstanceOf(d))
      PROVE  H!Next
  BY <1>2, <1>6, OpenSteps DEF H!Next
<1>7. ASSUME NEW p \in Procs, NEW fd \in FDs \cup {-1},
             NEW f \in Files \cup {Null}, sysfsopen(p, fd, f)
      PROVE  H!Next
  BY <1>2, <1>7, OpenSteps DEF H!Next
<1>8. ASSUME NEW p \in Procs,
             \/ OpenDone(p) \/ Loaded(p) \/ Exit(p)
             \/ \E fd \in FDs : sysclose(p, fd) \/ sysexec(p, fd)
             \/ \E q \in Procs : sysfork(p, q)
      PROVE  H!Next
  BY <1>2, <1>8, CallSteps DEF H!Next
<1>9. ASSUME NEW p \in Procs,
             \/ \E fd \in FDs : Transfer(p, fd)
             \/ TransferDone(p) \/ LoadFails(p)
      PROVE  UNCHANGED H!vars
  <2>1. TransferDone(p) => UNCHANGED hand
    <3>1. TransferDone(p) => pc[p] = "io" /\ hand' = [hand EXCEPT ![p] = Null]
      BY DEF TransferDone, LeaveCall
    <3>2. pc[p] = "io" => hand[p] = Null BY DEF IInv, CallsHold
    <3>3. hand \in Hands BY DEF IInv, TypeOK, Hands
    <3> QED BY <3>1, <3>2, <3>3 DEF Hands
  <2>2. UNCHANGED <<iotab, hand, refcnt, flags, lost>>
    BY <1>9, <2>1 DEF Transfer, TransferDone, LoadFails, Panics, objVars
  <2> QED BY <1>3, <2>2
<1> QED BY <1>4, <1>5, <1>6, <1>7, <1>8, <1>9 DEF Next

\* Counting implements reachability: an object opens when nobody reaches it and
\* closes in the step that drops the last descriptor, or call, that does.
THEOREM ImplementsHandles == Spec => ReachableOpen
<1>1. Spec => H!Init /\ [][H!Next]_(H!vars)
  BY InitHandles, Invariance, HandlesStep, PTL DEF Spec
<1> QED BY <1>1 DEF ReachableOpen, H!Spec

=============================================================================
