---------------------------- MODULE AlarmsProofs -----------------------------
(***************************************************************************)
(* Proofs about the timer and its alarms: the sleep list holds the alarms  *)
(* of the sleepers once each and in order, the comparator is armed for the *)
(* first of them, and no sleep is cut short, for every number of threads,  *)
(* every tick and every width of the clock.                                *)
(***************************************************************************)
EXTENDS Alarms, SequenceTheorems, FiniteSetTheorems, TLAPS

------------------------------------------------------------------------------
(* Lists without duplicates, taken apart and put together *)

\* The members of a list are its elements by index.
LEMMA RangeByIndex ==
    ASSUME NEW S, NEW s \in Seq(S)
    PROVE  /\ \A x : x \in Range(s) <=> \E i \in 1 .. Len(s) : s[i] = x
           /\ Range(s) \subseteq S
<1>1. Len(s) \in Nat /\ DOMAIN s = 1 .. Len(s) /\ \A i \in 1 .. Len(s) : s[i] \in S
  BY LenProperties, ElementOfSeq
<1> QED BY <1>1 DEF Range

\* tlremove takes the head out of the list and nothing else.
LEMMA RemoveProperties ==
    ASSUME NEW S, NEW s \in Seq(S), s # <<>>
    PROVE  /\ Head(s) \in S
           /\ Head(s) \in Range(s)
           /\ Tail(s) \in Seq(S)
           /\ IsInjective(s) =>
                 /\ Range(Tail(s)) = Range(s) \ {Head(s)}
                 /\ IsInjective(Tail(s))
<1> DEFINE u == Tail(s)
<1>1. /\ Head(s) \in S /\ u \in Seq(S) /\ Len(u) = Len(s) - 1
      /\ \A i \in 1 .. Len(u) : u[i] = s[i + 1]
  BY HeadTailProperties
<1>2. Len(s) \in Nat \ {0} BY EmptySeq
<1>3. Head(s) = s[1] OBVIOUS
<1>4. \A y : y \in Range(s) <=> \E i \in 1 .. Len(s) : s[i] = y BY RangeByIndex
<1>5. \A y : y \in Range(u) <=> \E i \in 1 .. Len(u) : u[i] = y BY <1>1, RangeByIndex
<1>6. DOMAIN s = 1 .. Len(s) /\ DOMAIN u = 1 .. Len(u) BY <1>1, LenProperties
<1> HIDE DEF u
<1>7. Head(s) \in Range(s) BY <1>2, <1>3, <1>4
<1>8. ASSUME IsInjective(s) PROVE Range(u) = Range(s) \ {Head(s)} /\ IsInjective(u)
  <2>1. \A i, j \in 1 .. Len(s) : s[i] = s[j] => i = j BY <1>6, <1>8 DEF IsInjective
  <2>2. \A i \in 1 .. Len(u) : i + 1 \in 1 .. Len(s) BY <1>1, <1>2
  <2>3. IsInjective(u) BY <1>1, <1>6, <2>1, <2>2 DEF IsInjective
  <2>4. ASSUME NEW y \in Range(u) PROVE y \in Range(s) \ {Head(s)}
    <3>1. PICK i \in 1 .. Len(u) : u[i] = y BY <1>5, <2>4
    <3>2. i + 1 \in 1 .. Len(s) /\ i + 1 # 1 /\ s[i + 1] = y BY <1>1, <2>2, <3>1
    <3> QED BY <1>2, <1>3, <1>4, <2>1, <3>2
  <2>5. ASSUME NEW y \in Range(s) \ {Head(s)} PROVE y \in Range(u)
    <3>1. PICK i \in 1 .. Len(s) : s[i] = y BY <1>4, <2>5
    <3>2. i - 1 \in 1 .. Len(u) BY <1>1, <1>2, <1>3, <2>5, <3>1
    <3>3. u[i - 1] = y BY <1>1, <3>1, <3>2
    <3> QED BY <1>5, <3>2, <3>3
  <2> QED BY <2>3, <2>4, <2>5
<1> QED BY <1>1, <1>7, <1>8 DEF u

\* tlappend joins two lists; disjoint ones stay free of duplicates.
LEMMA JoinProperties ==
    ASSUME NEW S, NEW s \in Seq(S), NEW w \in Seq(S)
    PROVE  /\ s \o w \in Seq(S)
           /\ Range(s \o w) = Range(s) \cup Range(w)
           /\ s # <<>> => s \o w # <<>> /\ Head(s \o w) = Head(s)
           /\ IsInjective(s) /\ IsInjective(w) /\ Range(s) \cap Range(w) = {}
                => IsInjective(s \o w)
<1> DEFINE j == s \o w
<1>1. /\ j \in Seq(S) /\ Len(j) = Len(s) + Len(w)
      /\ \A i \in 1 .. Len(s) + Len(w) : j[i] = IF i <= Len(s) THEN s[i] ELSE w[i - Len(s)]
  BY ConcatProperties
<1>2. Len(s) \in Nat /\ Len(w) \in Nat BY LenProperties
<1>3. DOMAIN s = 1 .. Len(s) /\ DOMAIN w = 1 .. Len(w) /\ DOMAIN j = 1 .. Len(j)
  BY <1>1, LenProperties
<1>4. Range(j) = Range(s) \cup Range(w) BY RangeConcatenation
<1>5. /\ \A y : y \in Range(s) <=> \E i \in 1 .. Len(s) : s[i] = y
      /\ \A y : y \in Range(w) <=> \E i \in 1 .. Len(w) : w[i] = y
  BY RangeByIndex
<1> HIDE DEF j
<1>6. ASSUME s # <<>> PROVE j # <<>> /\ Head(j) = Head(s)
  <2>1. Len(s) # 0 BY <1>6, EmptySeq
  <2>2. j # <<>> BY <1>1, <1>2, <2>1, EmptySeq
  <2>3. Head(j) = j[1] /\ Head(s) = s[1] OBVIOUS
  <2> QED BY <1>1, <1>2, <2>1, <2>2, <2>3
<1>7. ASSUME IsInjective(s), IsInjective(w), Range(s) \cap Range(w) = {}
      PROVE  IsInjective(j)
  <2>1. /\ \A a, b \in 1 .. Len(s) : s[a] = s[b] => a = b
        /\ \A a, b \in 1 .. Len(w) : w[a] = w[b] => a = b
    BY <1>3, <1>7 DEF IsInjective
  <2>2. ASSUME NEW a \in 1 .. Len(j), NEW b \in 1 .. Len(j), j[a] = j[b] PROVE a = b
    <3>1. CASE a <= Len(s) /\ b <= Len(s)
      BY <1>1, <1>2, <2>1, <2>2, <3>1
    <3>2. CASE a > Len(s) /\ b > Len(s)
      <4>1. a - Len(s) \in 1 .. Len(w) /\ b - Len(s) \in 1 .. Len(w)
        BY <1>1, <1>2, <3>2
      <4>2. w[a - Len(s)] = w[b - Len(s)] BY <1>1, <1>2, <2>2, <3>2
      <4>3. a - Len(s) = b - Len(s) BY <2>1, <4>1, <4>2
      <4> QED BY <1>2, <4>3
    <3>3. CASE a <= Len(s) /\ b > Len(s)
      <4>1. a \in 1 .. Len(s) /\ b - Len(s) \in 1 .. Len(w) BY <1>1, <1>2, <3>3
      <4>2. s[a] = w[b - Len(s)] BY <1>1, <1>2, <2>2, <3>3
      <4> QED BY <1>5, <1>7, <4>1, <4>2
    <3>4. CASE a > Len(s) /\ b <= Len(s)
      <4>1. b \in 1 .. Len(s) /\ a - Len(s) \in 1 .. Len(w) BY <1>1, <1>2, <3>4
      <4>2. s[b] = w[a - Len(s)] BY <1>1, <1>2, <2>2, <3>4
      <4> QED BY <1>5, <1>7, <4>1, <4>2
    <3> QED BY <1>1, <1>2, <3>1, <3>2, <3>3, <3>4
  <2> QED BY <1>3, <2>2 DEF IsInjective
<1> QED BY <1>1, <1>4, <1>6, <1>7 DEF j

\* A list cut in two: the parts share what they are of, and nothing more.
LEMMA SplitProperties ==
    ASSUME NEW S, NEW s \in Seq(S), NEW k \in 0 .. Len(s)
    PROVE  /\ SubSeq(s, 1, k) \in Seq(S)
           /\ SubSeq(s, k + 1, Len(s)) \in Seq(S)
           /\ Len(SubSeq(s, 1, k)) = k
           /\ Len(SubSeq(s, k + 1, Len(s))) = Len(s) - k
           /\ \A i \in 1 .. k : SubSeq(s, 1, k)[i] = s[i]
           /\ \A i \in 1 .. Len(s) - k : SubSeq(s, k + 1, Len(s))[i] = s[k + i]
           /\ Range(SubSeq(s, 1, k)) = {s[i] : i \in 1 .. k}
           /\ Range(SubSeq(s, 1, k)) \cup Range(SubSeq(s, k + 1, Len(s))) = Range(s)
           /\ IsInjective(s) =>
                 /\ IsInjective(SubSeq(s, 1, k))
                 /\ IsInjective(SubSeq(s, k + 1, Len(s)))
                 /\ Range(SubSeq(s, 1, k)) \cap Range(SubSeq(s, k + 1, Len(s))) = {}
<1> DEFINE n == Len(s)
           a == SubSeq(s, 1, k)
           b == SubSeq(s, k + 1, n)
<1>1. n \in Nat /\ DOMAIN s = 1 .. n /\ \A i \in 1 .. n : s[i] \in S
  BY LenProperties, ElementOfSeq
<1>2. k \in 0 .. n OBVIOUS
<1>3. \A y : y \in Range(s) <=> \E i \in 1 .. n : s[i] = y BY RangeByIndex
<1> HIDE DEF n
<1>4. a \in Seq(S) /\ Len(a) = k /\ \A i \in 1 .. k : a[i] = s[i]
  <2>1. \A i \in 1 .. k : s[i] \in S BY <1>1, <1>2
  <2>2. 1 \in Int /\ k \in Int BY <1>1, <1>2
  <2>3. /\ a \in Seq(S)
        /\ Len(a) = IF 1 <= k THEN k - 1 + 1 ELSE 0
        /\ \A i \in 1 .. k - 1 + 1 : a[i] = s[1 + i - 1]
    BY <2>1, <2>2, SubSeqProperties
  <2> HIDE DEF a
  <2>4. k - 1 + 1 = k /\ \A i \in 1 .. k : 1 + i - 1 = i BY <1>1, <1>2
  <2> QED BY <1>1, <1>2, <2>3, <2>4
<1>5. b \in Seq(S) /\ Len(b) = n - k /\ \A i \in 1 .. n - k : b[i] = s[k + i]
  <2>1. \A i \in k + 1 .. n : s[i] \in S BY <1>1, <1>2
  <2>2. k + 1 \in Int /\ n \in Int BY <1>1, <1>2
  <2>3. /\ b \in Seq(S)
        /\ Len(b) = IF k + 1 <= n THEN n - (k + 1) + 1 ELSE 0
        /\ \A i \in 1 .. n - (k + 1) + 1 : b[i] = s[(k + 1) + i - 1]
    BY <2>1, <2>2, SubSeqProperties
  <2> HIDE DEF b
  <2>4. n - (k + 1) + 1 = n - k /\ \A i \in 1 .. n - k : (k + 1) + i - 1 = k + i BY <1>1, <1>2
  <2> QED BY <1>1, <1>2, <2>3, <2>4
<1>6. /\ \A y : y \in Range(a) <=> \E i \in 1 .. k : a[i] = y
      /\ \A y : y \in Range(b) <=> \E i \in 1 .. n - k : b[i] = y
  <2>1. \A y : y \in Range(a) <=> \E i \in 1 .. Len(a) : a[i] = y BY <1>4, RangeByIndex
  <2>2. \A y : y \in Range(b) <=> \E i \in 1 .. Len(b) : b[i] = y BY ZenonT(30), <1>5, RangeByIndex
  <2> QED BY <1>4, <1>5, <2>1, <2>2
<1>7. DOMAIN a = 1 .. k /\ DOMAIN b = 1 .. n - k BY <1>4, <1>5, LenProperties
<1> HIDE DEF a, b
<1>8. Range(a) = {s[i] : i \in 1 .. k} BY <1>4, <1>6
<1>9. Range(a) \cup Range(b) = Range(s)
  <2>1. ASSUME NEW y \in Range(a) PROVE y \in Range(s)
    <3>1. PICK i \in 1 .. k : a[i] = y BY <1>6, <2>1
    <3>2. i \in 1 .. n BY <1>1, <1>2
    <3> QED BY <1>3, <1>4, <3>1, <3>2
  <2>2. ASSUME NEW y \in Range(b) PROVE y \in Range(s)
    <3>1. PICK i \in 1 .. n - k : b[i] = y BY <1>6, <2>2
    <3>2. k + i \in 1 .. n BY <1>1, <1>2
    <3>3. s[k + i] = y BY <1>5, <3>1
    <3> QED BY <1>3, <3>2, <3>3
  <2>3. ASSUME NEW y \in Range(s) PROVE y \in Range(a) \cup Range(b)
    <3>1. PICK i \in 1 .. n : s[i] = y BY <1>3, <2>3
    <3>2. CASE i <= k
      <4>1. i \in 1 .. k BY <1>1, <1>2, <3>2
      <4> QED BY <1>4, <1>6, <3>1, <4>1
    <3>3. CASE i > k
      <4>1. i - k \in 1 .. n - k /\ k + (i - k) = i BY <1>1, <1>2, <3>3
      <4>2. b[i - k] = y BY <1>5, <3>1, <4>1
      <4> QED BY <1>6, <4>1, <4>2
    <3> QED BY <1>1, <1>2, <3>2, <3>3
  <2> QED BY <2>1, <2>2, <2>3
<1>10. ASSUME IsInjective(s)
       PROVE  IsInjective(a) /\ IsInjective(b) /\ Range(a) \cap Range(b) = {}
  <2>1. \A i, j \in 1 .. n : s[i] = s[j] => i = j BY <1>1, <1>10 DEF IsInjective
  <2>2. ASSUME NEW i \in 1 .. k, NEW j \in 1 .. k, a[i] = a[j] PROVE i = j
    <3>1. i \in 1 .. n /\ j \in 1 .. n BY <1>1, <1>2
    <3> QED BY <1>4, <2>1, <2>2, <3>1
  <2>3. ASSUME NEW i \in 1 .. n - k, NEW j \in 1 .. n - k, b[i] = b[j] PROVE i = j
    <3>1. k + i \in 1 .. n /\ k + j \in 1 .. n BY <1>1, <1>2
    <3>2. k + i = k + j BY <1>5, <2>1, <2>3, <3>1
    <3> QED BY <1>1, <1>2, <3>2
  <2>4. ASSUME NEW y \in Range(a), y \in Range(b) PROVE FALSE
    <3>1. PICK i \in 1 .. k : a[i] = y BY <1>6, <2>4
    <3>2. PICK j \in 1 .. n - k : b[j] = y BY <1>6, <2>4
    <3>3. i \in 1 .. n /\ k + j \in 1 .. n /\ i # k + j BY <1>1, <1>2
    <3>4. s[i] = s[k + j] BY <1>4, <1>5, <3>1, <3>2
    <3> QED BY <2>1, <3>3, <3>4
  <2> QED BY <1>7, <2>2, <2>3, <2>4 DEF IsInjective
<1> QED BY <1>4, <1>5, <1>8, <1>9, <1>10 DEF a, b, n

\* An element put in between two parts.
LEMMA InBetweenProperties ==
    ASSUME NEW S, NEW s \in Seq(S), NEW w \in Seq(S), NEW x \in S
    PROVE  /\ s \o <<x>> \o w \in Seq(S)
           /\ Range(s \o <<x>> \o w) = Range(s) \cup {x} \cup Range(w)
           /\ /\ IsInjective(s) /\ IsInjective(w) /\ Range(s) \cap Range(w) = {}
              /\ x \notin Range(s) /\ x \notin Range(w)
              => IsInjective(s \o <<x>> \o w)
<1>1. <<x>> \in Seq(S) OBVIOUS
<1>2. Range(<<x>>) = {x} /\ IsInjective(<<x>>)
  <2>1. DOMAIN <<x>> = {1} /\ <<x>>[1] = x OBVIOUS
  <2> QED BY <2>1 DEF Range, IsInjective
<1> DEFINE c == s \o <<x>>
<1>3. /\ c \in Seq(S) /\ Range(c) = Range(s) \cup {x}
      /\ IsInjective(s) /\ x \notin Range(s) => IsInjective(c)
  <2>1. /\ c \in Seq(S) /\ Range(c) = Range(s) \cup Range(<<x>>)
        /\ IsInjective(s) /\ IsInjective(<<x>>) /\ Range(s) \cap Range(<<x>>) = {}
              => IsInjective(c)
    BY <1>1, JoinProperties
  <2> HIDE DEF c
  <2>2. x \notin Range(s) => Range(s) \cap Range(<<x>>) = {} BY <1>2
  <2> QED BY <1>2, <2>1, <2>2
<1> HIDE DEF c
<1>4. /\ c \o w \in Seq(S) /\ Range(c \o w) = Range(c) \cup Range(w)
      /\ IsInjective(c) /\ IsInjective(w) /\ Range(c) \cap Range(w) = {}
            => IsInjective(c \o w)
  BY <1>3, JoinProperties
<1> QED BY <1>3, <1>4 DEF c

\* The list tlclear leaves.
LEMMA EmptyProperties == Range(<<>>) = {} /\ IsInjective(<<>>)
BY DEF Range, IsInjective

------------------------------------------------------------------------------
(* The clock and its alarms *)

\* The clock stops at the bound.
InHorizon == mtime <= Horizon

\* The time of a thread that does not sleep is over: what a reset would set is no
\* earlier, and the next sleep counts from a time in the past.
AwakeInTime == \A t \in Threads : pc[t] \in {"run", "woken"} => twake[t] <= mtime

IInv == TypeOK /\ ListHoldsSleepers /\ ListSorted /\ InHorizon /\ AwakeInTime /\ TimerArmed

------------------------------------------------------------------------------
(* The operators *)

\* A set of positions that has every position before each of its own is the
\* positions up to its cardinality.
LEMMA Prefix ==
    ASSUME NEW n \in Nat, NEW S \in SUBSET (1 .. n),
           \A i \in S : \A j \in 1 .. i : j \in S
    PROVE  /\ Cardinality(S) \in 0 .. n
           /\ S = 1 .. Cardinality(S)
<1>1. IsFiniteSet(1 .. n) /\ Cardinality(1 .. n) = n
  BY FS_Interval
<1>2. IsFiniteSet(S) /\ Cardinality(S) <= n BY <1>1, FS_Subset
<1>3. Cardinality(S) \in Nat BY <1>2, FS_CardinalityType
<1> DEFINE k == Cardinality(S)
<1>4. \A i \in S : i \in 1 .. k
  <2> TAKE i \in S
  <2>1. i \in 1 .. n OBVIOUS
  <2>2. (1 .. i) \in SUBSET S OBVIOUS
  <2>3. Cardinality(1 .. i) <= k BY <1>2, <2>2, FS_Subset
  <2>4. Cardinality(1 .. i) = i BY <2>1, FS_Interval
  <2> QED BY <2>1, <2>3, <2>4, <1>3
<1>5. IsFiniteSet(1 .. k) /\ Cardinality(1 .. k) = k BY <1>3, FS_Interval
<1>6. S \in SUBSET (1 .. k) BY <1>4
<1>7. 1 .. k = S BY <1>5, <1>6, FS_Subset
<1> QED BY <1>2, <1>3, <1>7

\* The sum of alarm_sleep saturates: it stays a word and is no less than its terms.
LEMMA Saturates ==
    ASSUME NEW a \in 0 .. UMAX, NEW b \in 0 .. UMAX
    PROVE  SatSum(a, b) \in 0 .. UMAX /\ a <= SatSum(a, b)
BY AlarmsAssumption DEF SatSum

\* The length of a sleep is a word.
LEMMA TicksFit ==
    ASSUME NEW us \in Delays
    PROVE  UsleepTicks(us) \in 0 .. UMAX
<1>1. us \in Int /\ UMAX + 1 \in Nat \ {0} /\ 2 * INT_MAX + 2 \in Nat \ {0} /\ PER_US \in Int
  BY AlarmsAssumption
<1>2. us % (2 * INT_MAX + 2) \in Int BY <1>1
<1> DEFINE a == AsInt(us % (2 * INT_MAX + 2))
<1>3. a \in Int BY <1>2, AlarmsAssumption DEF AsInt
<1> HIDE DEF a
<1>4. a * PER_US \in Int BY <1>1, <1>3
<1>5. \A x \in Int : x % (UMAX + 1) \in 0 .. UMAX
  <2> TAKE x \in Int
  <2> DEFINE m == UMAX + 1
  <2>1. m \in Int /\ m > 0 /\ UMAX = m - 1 BY AlarmsAssumption
  <2> HIDE DEF m
  <2>2. x % m \in 0 .. m - 1 BY <2>1
  <2> QED BY <2>1, <2>2 DEF m
<1> QED BY <1>4, <1>5 DEF UsleepTicks, a

\* The loop of the handler ends where the first alarm is that is not due.
LEMMA DueIsFront ==
    ASSUME TypeOK, ListSorted
    PROVE  /\ DueCount \in 0 .. Len(sleep_list)
           /\ \A i \in 1 .. DueCount : twake[sleep_list[i]] <= mtime
           /\ DueCount < Len(sleep_list) => twake[sleep_list[DueCount + 1]] > mtime
<1> DEFINE n == Len(sleep_list)
           S == {i \in 1 .. n : twake[sleep_list[i]] <= mtime}
           k == Cardinality(S)
<1>1. n \in Nat /\ DOMAIN sleep_list = 1 .. n /\ \A i \in 1 .. n : sleep_list[i] \in Threads
  BY LenProperties, ElementOfSeq DEF TypeOK
<1>2. mtime \in Int /\ \A i \in 1 .. n : twake[sleep_list[i]] \in Int
  BY <1>1 DEF TypeOK
<1>3. \A i, j \in 1 .. n : i < j => twake[sleep_list[i]] <= twake[sleep_list[j]]
  BY <1>1 DEF ListSorted
<1> HIDE DEF n
<1>4. \A i \in S : \A j \in 1 .. i : j \in S
  <2> TAKE i \in S
  <2> TAKE j \in 1 .. i
  <2>1. j \in 1 .. n /\ (j = i \/ j < i) BY <1>1
  <2>2. twake[sleep_list[j]] <= twake[sleep_list[i]] BY <1>2, <1>3, <2>1
  <2> QED BY <1>2, <2>1, <2>2
<1>5. k \in 0 .. n /\ S = 1 .. k BY <1>1, <1>4, Prefix
<1> HIDE DEF k
<1>6. \A i \in 1 .. k : twake[sleep_list[i]] <= mtime BY <1>5
<1>7. k < n => twake[sleep_list[k + 1]] > mtime
  <2> HAVE k < n
  <2>1. k + 1 \in 1 .. n /\ k + 1 \notin 1 .. k BY <1>1, <1>5
  <2> QED BY <1>2, <1>5, <2>1
<1>8. \E m \in 0 .. n : /\ \A i \in 1 .. m : twake[sleep_list[i]] <= mtime
                        /\ m < n => twake[sleep_list[m + 1]] > mtime
  BY <1>5, <1>6, <1>7
<1> QED BY <1>8 DEF DueCount, n

\* Where alarm_sleep stops: what is before is due earlier, what is behind is not.
LEMMA EarlierIsFront ==
    ASSUME TypeOK, ListSorted, NEW t \in Threads
    PROVE  /\ EarlierCount(t) \in 0 .. Len(sleep_list)
           /\ \A i \in 1 .. Len(sleep_list) :
                 i <= EarlierCount(t) <=> twake[sleep_list[i]] < twake[t]
<1> DEFINE n == Len(sleep_list)
           S == {i \in 1 .. n : twake[sleep_list[i]] < twake[t]}
           k == Cardinality(S)
<1>1. n \in Nat /\ DOMAIN sleep_list = 1 .. n /\ \A i \in 1 .. n : sleep_list[i] \in Threads
  BY LenProperties, ElementOfSeq DEF TypeOK
<1>2. twake[t] \in Int /\ \A i \in 1 .. n : twake[sleep_list[i]] \in Int
  BY <1>1 DEF TypeOK
<1>3. \A i, j \in 1 .. n : i < j => twake[sleep_list[i]] <= twake[sleep_list[j]]
  BY <1>1 DEF ListSorted
<1>4. EarlierCount(t) = k BY <1>1 DEF EarlierCount
<1> HIDE DEF n
<1>5. \A i \in S : \A j \in 1 .. i : j \in S
  <2> TAKE i \in S
  <2> TAKE j \in 1 .. i
  <2>1. j \in 1 .. n /\ (j = i \/ j < i) BY <1>1
  <2>2. twake[sleep_list[j]] <= twake[sleep_list[i]] BY <1>2, <1>3, <2>1
  <2> QED BY <1>2, <2>1, <2>2
<1>6. k \in 0 .. n /\ S = 1 .. k BY <1>1, <1>5, Prefix
<1> HIDE DEF k
<1>7. \A i \in 1 .. n : i <= k <=> twake[sleep_list[i]] < twake[t]
  <2> TAKE i \in 1 .. n
  <2>1. i <= k <=> i \in 1 .. k BY <1>1, <1>6
  <2> QED BY <1>6, <2>1
<1> QED BY <1>4, <1>6, <1>7 DEF n

\* The list after an insertion, position by position.
LEMMA InsertedAt ==
    ASSUME TypeOK, ListSorted, NEW t \in Threads
    PROVE  /\ Inserted(t) \in Seq(Threads)
           /\ Len(Inserted(t)) = Len(sleep_list) + 1
           /\ \A i \in 1 .. Len(sleep_list) + 1 :
                 Inserted(t)[i] = IF i <= EarlierCount(t) THEN sleep_list[i]
                                  ELSE IF i = EarlierCount(t) + 1 THEN t
                                  ELSE sleep_list[i - 1]
<1> DEFINE n == Len(sleep_list)
           k == EarlierCount(t)
           a == SubSeq(sleep_list, 1, k)
           b == SubSeq(sleep_list, k + 1, n)
<1>1. n \in Nat /\ \A i \in 1 .. n : sleep_list[i] \in Threads
  BY LenProperties, ElementOfSeq DEF TypeOK
<1>2. k \in 0 .. n BY EarlierIsFront
<1>3. Inserted(t) = a \o <<t>> \o b BY DEF Inserted
<1> HIDE DEF n, k
<1>4. a \in Seq(Threads) /\ Len(a) = k /\ \A i \in 1 .. k : a[i] = sleep_list[i]
  BY <1>2, SplitProperties DEF TypeOK, n
<1>5. b \in Seq(Threads) /\ Len(b) = n - k /\ \A i \in 1 .. n - k : b[i] = sleep_list[k + i]
  BY <1>2, SplitProperties DEF TypeOK, n
<1> HIDE DEF a, b
<1> DEFINE c == a \o <<t>>
<1>6. <<t>> \in Seq(Threads) /\ Len(<<t>>) = 1 /\ <<t>>[1] = t OBVIOUS
<1>7. /\ c \in Seq(Threads) /\ Len(c) = k + 1
      /\ \A i \in 1 .. k + 1 : c[i] = IF i <= k THEN sleep_list[i] ELSE t
  <2>1. /\ c \in Seq(Threads) /\ Len(c) = Len(a) + Len(<<t>>)
        /\ \A i \in 1 .. Len(a) + Len(<<t>>) :
              c[i] = IF i <= Len(a) THEN a[i] ELSE <<t>>[i - Len(a)]
    BY <1>4, <1>6, ConcatProperties
  <2> HIDE DEF c
  <2>2. \A i \in 1 .. k + 1 : c[i] = IF i <= k THEN sleep_list[i] ELSE t
    <3> TAKE i \in 1 .. k + 1
    <3>1. CASE i <= k BY <1>1, <1>2, <1>4, <1>6, <2>1, <3>1
    <3>2. CASE i = k + 1
      <4>1. i - k = 1 /\ ~(i <= k) BY <1>1, <1>2, <3>2
      <4> QED BY <1>1, <1>2, <1>4, <1>6, <2>1, <4>1
    <3> QED BY <1>1, <1>2, <3>1, <3>2
  <2> QED BY <1>4, <1>6, <2>1, <2>2
<1> HIDE DEF c
<1> DEFINE I == c \o b
<1>8. /\ I \in Seq(Threads) /\ Len(I) = Len(c) + Len(b)
      /\ \A i \in 1 .. Len(c) + Len(b) : I[i] = IF i <= Len(c) THEN c[i] ELSE b[i - Len(c)]
  BY <1>5, <1>7, ConcatProperties
<1> HIDE DEF I
<1>9. Len(I) = n + 1 BY <1>1, <1>2, <1>5, <1>7, <1>8
<1>10. ASSUME NEW i \in 1 .. n + 1
       PROVE  I[i] = IF i <= k THEN sleep_list[i]
                     ELSE IF i = k + 1 THEN t ELSE sleep_list[i - 1]
  <2>1. CASE i <= k + 1 BY <1>1, <1>2, <1>5, <1>7, <1>8, <2>1
  <2>2. CASE i > k + 1
    <3>1. /\ i - (k + 1) \in 1 .. n - k /\ k + (i - (k + 1)) = i - 1
          /\ ~(i <= k + 1) /\ i \in 1 .. Len(c) + Len(b)
      BY <1>1, <1>2, <1>5, <1>7, <2>2
    <3>2. I[i] = b[i - (k + 1)] BY <1>7, <1>8, <3>1
    <3>3. b[i - (k + 1)] = sleep_list[i - 1] BY <1>5, <3>1
    <3> QED BY <1>1, <1>2, <2>2, <3>2, <3>3
  <2> QED BY <1>1, <1>2, <2>1, <2>2
<1>11. Inserted(t) = I BY <1>3 DEF I, c
<1> QED BY <1>8, <1>9, <1>10, <1>11 DEF n, k

------------------------------------------------------------------------------
(* The inductive invariant *)

LEMMA InitIInv == Init => IInv
<1> SUFFICES ASSUME Init PROVE IInv OBVIOUS
<1> USE AlarmsAssumption DEF Init
<1>1. <<>> \in Seq(Threads) /\ DOMAIN <<>> = {} OBVIOUS
<1>2. TypeOK
  <2>1. 0 \in 0 .. UMAX /\ TICK_PERIOD \in 0 .. UMAX OBVIOUS
  <2>2. sleep_list \in Seq(Threads) /\ twake \in [Threads -> 0 .. UMAX] BY <1>1, <2>1
  <2>3. pc \in [Threads -> {"run", "insert", "asleep", "woken"}] OBVIOUS
  <2> QED BY <2>1, <2>2, <2>3 DEF TypeOK
<1>3. ListHoldsSleepers BY EmptyProperties DEF ListHoldsSleepers, Asleep
<1>4. ListSorted BY <1>1 DEF ListSorted
<1>5. InHorizon /\ AwakeInTime BY DEF InHorizon, AwakeInTime
<1>6. TimerArmed BY DEF TimerArmed
<1> QED BY <1>2, <1>3, <1>4, <1>5, <1>6 DEF IInv

\* What an action says that leaves the list, the alarms on it and the state of the
\* sleepers alone.
LEMMA ListUndisturbed ==
    ASSUME IInv, UNCHANGED sleep_list,
           \A u \in Asleep : twake'[u] = twake[u],
           Asleep' = Asleep
    PROVE  ListHoldsSleepers' /\ ListSorted'
<1>1. DOMAIN sleep_list = 1 .. Len(sleep_list) /\ sleep_list \in Seq(Threads)
  BY LenProperties DEF IInv, TypeOK
<1>2. \A i \in DOMAIN sleep_list : sleep_list[i] \in Asleep
  BY DEF IInv, ListHoldsSleepers, Range
<1>3. ListHoldsSleepers' BY DEF IInv, ListHoldsSleepers
<1>4. ListSorted'
  <2> SUFFICES ASSUME NEW i \in DOMAIN sleep_list, NEW j \in DOMAIN sleep_list, i < j
               PROVE  twake'[sleep_list[i]] <= twake'[sleep_list[j]]
    BY DEF ListSorted
  <2> QED BY <1>2 DEF IInv, ListSorted
<1> QED BY <1>3, <1>4

\* The head of the list is a sleeper's alarm.
LEMMA HeadAsleep ==
    ASSUME IInv, sleep_list # <<>>
    PROVE  Head(sleep_list) \in Asleep /\ Head(sleep_list) = sleep_list[1]
           /\ 1 \in 1 .. Len(sleep_list)
<1>1. sleep_list \in Seq(Threads) BY DEF IInv, TypeOK
<1>2. Head(sleep_list) \in Range(sleep_list) BY <1>1, RemoveProperties
<1>3. Len(sleep_list) \in Nat /\ Len(sleep_list) # 0 BY <1>1, EmptySeq, LenProperties
<1> QED BY <1>2, <1>3 DEF IInv, ListHoldsSleepers

LEMMA AdvanceKeeps == IInv /\ Advance => IInv'
<1> SUFFICES ASSUME IInv, Advance PROVE IInv' OBVIOUS
<1> USE AlarmsAssumption DEF Advance
<1>1. TypeOK' BY DEF IInv, TypeOK
<1>2. ListHoldsSleepers' /\ ListSorted'
  <2>1. Asleep' = Asleep BY DEF Asleep
  <2> QED BY <2>1, ListUndisturbed
<1>3. InHorizon' BY DEF IInv, TypeOK, InHorizon
<1>4. AwakeInTime' BY DEF IInv, TypeOK, AwakeInTime
<1>5. TimerArmed' BY DEF IInv, TimerArmed
<1> QED BY <1>1, <1>2, <1>3, <1>4, <1>5 DEF IInv

LEMMA MachineTimerKeeps == IInv /\ MachineTimer => IInv'
<1> SUFFICES ASSUME IInv, MachineTimer PROVE IInv' OBVIOUS
<1> USE DEF MachineTimer
<1>1. TypeOK' BY DEF IInv, TypeOK
<1>2. ListHoldsSleepers' /\ ListSorted'
  <2>1. Asleep' = Asleep BY DEF Asleep
  <2> QED BY <2>1, ListUndisturbed
<1>3. InHorizon' /\ AwakeInTime' BY DEF IInv, InHorizon, AwakeInTime
<1>4. TimerArmed' BY DEF TimerArmed
<1> QED BY <1>1, <1>2, <1>3, <1>4 DEF IInv

LEMMA ResetKeeps == IInv /\ (\E t \in Threads : Reset(t)) => IInv'
<1> SUFFICES ASSUME IInv, NEW t \in Threads, Reset(t) PROVE IInv' OBVIOUS
<1> USE DEF Reset, clockVars
<1>1. TypeOK' BY DEF IInv, TypeOK
<1>2. t \notin Asleep /\ Asleep' = Asleep BY DEF Asleep
<1>3. \A u \in Asleep : twake'[u] = twake[u] BY <1>2 DEF IInv, TypeOK, Asleep
<1>4. ListHoldsSleepers' /\ ListSorted' BY <1>2, <1>3, ListUndisturbed
<1>5. InHorizon' BY DEF IInv, InHorizon
<1>6. AwakeInTime' BY DEF IInv, TypeOK, AwakeInTime
<1>7. TimerArmed' BY <1>3, HeadAsleep DEF IInv, TimerArmed
<1> QED BY <1>1, <1>4, <1>5, <1>6, <1>7 DEF IInv

LEMMA UsleepKeeps == IInv /\ (\E t \in Threads, us \in Delays : Usleep(t, us)) => IInv'
<1> SUFFICES ASSUME IInv, NEW t \in Threads, NEW us \in Delays, Usleep(t, us) PROVE IInv'
  OBVIOUS
<1> DEFINE w == SatSum(twake[t], UsleepTicks(us))
<1>1. /\ pc[t] = "run" /\ twake' = [twake EXCEPT ![t] = w]
      /\ pc' = IF w < mtime THEN pc ELSE [pc EXCEPT ![t] = "insert"]
      /\ UNCHANGED <<mtime, mtcmp, mtie, stip, next_tick, sleep_list>>
  BY DEF Usleep, clockVars
<1>2. w \in 0 .. UMAX BY TicksFit, Saturates DEF IInv, TypeOK
<1> HIDE DEF w
<1>3. TypeOK' BY <1>1, <1>2 DEF IInv, TypeOK
<1>4. t \notin Asleep /\ Asleep' = Asleep BY <1>1 DEF IInv, TypeOK, Asleep
<1>5. \A u \in Asleep : twake'[u] = twake[u] BY <1>1, <1>4 DEF IInv, TypeOK, Asleep
<1>6. ListHoldsSleepers' /\ ListSorted' BY <1>1, <1>4, <1>5, ListUndisturbed
<1>7. InHorizon' BY <1>1 DEF IInv, InHorizon
<1>8. AwakeInTime' BY <1>1, <1>2 DEF IInv, TypeOK, AwakeInTime
<1>9. TimerArmed' BY <1>1, <1>5, HeadAsleep DEF IInv, TimerArmed
<1> QED BY <1>3, <1>6, <1>7, <1>8, <1>9 DEF IInv

LEMMA ReturnKeeps == IInv /\ (\E t \in Threads : Return(t)) => IInv'
<1> SUFFICES ASSUME IInv, NEW t \in Threads, Return(t) PROVE IInv' OBVIOUS
<1> USE DEF Return, clockVars
<1>1. TypeOK' BY DEF IInv, TypeOK
<1>2. ListHoldsSleepers' /\ ListSorted'
  <2>1. Asleep' = Asleep BY DEF IInv, TypeOK, Asleep
  <2> QED BY <2>1, ListUndisturbed
<1>3. InHorizon' /\ TimerArmed' BY DEF IInv, InHorizon, TimerArmed
<1>4. AwakeInTime' BY DEF IInv, TypeOK, AwakeInTime
<1> QED BY <1>1, <1>2, <1>3, <1>4 DEF IInv

LEMMA InsertKeeps == IInv /\ (\E t \in Threads : Insert(t)) => IInv'
<1> SUFFICES ASSUME IInv, NEW t \in Threads, Insert(t) PROVE IInv' OBVIOUS
<1> DEFINE n == Len(sleep_list)
           k == EarlierCount(t)
           I == Inserted(t)
<1>1. /\ pc[t] = "insert" /\ sleep_list' = I /\ pc' = [pc EXCEPT ![t] = "asleep"]
      /\ UNCHANGED <<mtime, next_tick, twake>> /\ RearmFor(t)
  BY DEF Insert
<1>2. IInv /\ TypeOK /\ ListSorted /\ ListHoldsSleepers BY DEF IInv
<1>3. /\ n \in Nat /\ DOMAIN sleep_list = 1 .. n
      /\ \A i \in 1 .. n : sleep_list[i] \in Threads
  BY <1>2, LenProperties, ElementOfSeq DEF TypeOK
<1>4. k \in 0 .. n /\ \A i \in 1 .. n : i <= k <=> twake[sleep_list[i]] < twake[t]
  BY <1>2, EarlierIsFront
<1>5. /\ I \in Seq(Threads) /\ Len(I) = n + 1
      /\ \A i \in 1 .. n + 1 : I[i] = IF i <= k THEN sleep_list[i]
                                      ELSE IF i = k + 1 THEN t ELSE sleep_list[i - 1]
  BY <1>2, InsertedAt
<1>6. t \notin Asleep /\ Asleep' = Asleep \cup {t} BY <1>1, <1>2 DEF TypeOK, Asleep
<1>9. DOMAIN I = 1 .. n + 1 BY <1>5, LenProperties
<1>10. IF k = 0 /\ twake[t] < next_tick
       THEN mtcmp' = twake[t] /\ mtie' = TRUE /\ stip' = FALSE
       ELSE UNCHANGED <<mtcmp, mtie, stip>>
  BY <1>1 DEF RearmFor, Rearm
<1>11. /\ twake[t] \in Int /\ next_tick \in Int /\ mtcmp \in Int
       /\ \A i \in 1 .. n : twake[sleep_list[i]] \in Int
  BY <1>2, <1>3 DEF TypeOK
<1> HIDE DEF n, k, I
<1>12. TypeOK'
  <2>1. {mtime, mtcmp, next_tick}' \subseteq 0 .. UMAX /\ {mtie, stip}' \subseteq BOOLEAN
    BY <1>1, <1>2, <1>10 DEF TypeOK
  <2>2. sleep_list' \in Seq(Threads) BY <1>1, <1>5
  <2>3. twake' \in [Threads -> 0 .. UMAX] BY <1>1, <1>2 DEF TypeOK
  <2>4. pc' \in [Threads -> {"run", "insert", "asleep", "woken"}] BY <1>1, <1>2 DEF TypeOK
  <2> QED BY <2>1, <2>2, <2>3, <2>4 DEF TypeOK
<1>13. ListHoldsSleepers'
  <2> DEFINE a == SubSeq(sleep_list, 1, k)
             b == SubSeq(sleep_list, k + 1, n)
  <2>1. /\ a \in Seq(Threads) /\ b \in Seq(Threads)
        /\ Range(a) \cup Range(b) = Range(sleep_list)
        /\ IsInjective(sleep_list) =>
              IsInjective(a) /\ IsInjective(b) /\ Range(a) \cap Range(b) = {}
    BY <1>2, <1>4, SplitProperties DEF TypeOK, n
  <2>2. I = a \o <<t>> \o b BY DEF I, Inserted, k, n
  <2> HIDE DEF a, b
  <2>3. Range(sleep_list) = Asleep /\ IsInjective(sleep_list) BY <1>2 DEF ListHoldsSleepers
  <2>4. /\ Range(a \o <<t>> \o b) = Range(a) \cup {t} \cup Range(b)
        /\ /\ IsInjective(a) /\ IsInjective(b) /\ Range(a) \cap Range(b) = {}
           /\ t \notin Range(a) /\ t \notin Range(b)
           => IsInjective(a \o <<t>> \o b)
    BY <2>1, InBetweenProperties
  <2>5. t \notin Range(a) /\ t \notin Range(b) BY <1>6, <2>1, <2>3
  <2>6. Range(I) = Asleep' /\ IsInjective(I) BY <1>6, <2>1, <2>2, <2>3, <2>4, <2>5
  <2> QED BY <1>1, <2>6 DEF ListHoldsSleepers
<1>14. ListSorted'
  <2> SUFFICES ASSUME NEW i \in 1 .. n + 1, NEW j \in 1 .. n + 1, i < j
               PROVE  twake[I[i]] <= twake[I[j]]
    BY <1>1, <1>9 DEF ListSorted
  <2>1. \A a, b \in 1 .. n : a < b => twake[sleep_list[a]] <= twake[sleep_list[b]]
    BY <1>2, <1>3 DEF ListSorted
  <2>2. k \in Int /\ n \in Int /\ i \in Int /\ j \in Int BY <1>3, <1>4
  <2>3. CASE j <= k
    <3>1. i \in 1 .. n /\ j \in 1 .. n /\ i <= k BY <1>4, <2>2, <2>3
    <3> QED BY <1>5, <2>1, <2>3, <3>1
  <2>4. CASE i <= k /\ j = k + 1
    <3>1. i \in 1 .. n /\ ~(j <= k) BY <1>4, <2>2, <2>4
    <3> QED BY <1>4, <1>5, <1>11, <2>4, <3>1
  <2>5. CASE i <= k /\ j > k + 1
    <3>1. i \in 1 .. n /\ j - 1 \in 1 .. n /\ i < j - 1 /\ ~(j <= k) /\ j # k + 1
      BY <1>4, <2>2, <2>5
    <3> QED BY <1>5, <2>1, <2>5, <3>1
  <2>6. CASE i = k + 1
    <3>1. j - 1 \in 1 .. n /\ ~(j - 1 <= k) /\ ~(j <= k) /\ j # k + 1 /\ ~(i <= k)
      BY <1>4, <2>2, <2>6
    <3> QED BY <1>4, <1>5, <1>11, <2>6, <3>1
  <2>7. CASE i > k + 1
    <3>1. /\ i - 1 \in 1 .. n /\ j - 1 \in 1 .. n /\ i - 1 < j - 1
          /\ ~(i <= k) /\ i # k + 1 /\ ~(j <= k) /\ j # k + 1
      BY <1>4, <2>2, <2>7
    <3> QED BY <1>5, <2>1, <3>1
  <2> QED BY <2>2, <2>3, <2>4, <2>5, <2>6, <2>7
<1>15. InHorizon' BY <1>1 DEF IInv, InHorizon
<1>16. AwakeInTime' BY <1>1, <1>2 DEF IInv, TypeOK, AwakeInTime
<1>17. TimerArmed'
  <2>1. Head(sleep_list') = IF k = 0 THEN t ELSE Head(sleep_list)
    <3>1. Head(I) = I[1] OBVIOUS
    <3>2. 1 \in 1 .. n + 1 /\ (k = 0 => ~(1 <= k) /\ 1 = k + 1) /\ (k # 0 => 1 <= k)
      BY <1>3, <1>4
    <3>3. I[1] = IF k = 0 THEN t ELSE sleep_list[1] BY <1>5, <3>2
    <3>4. Head(sleep_list) = sleep_list[1] OBVIOUS
    <3> QED BY <1>1, <3>1, <3>3, <3>4
  <2>2. k # 0 => sleep_list # <<>> BY <1>3, <1>4, EmptySeq DEF n
  <2> QED BY <1>1, <1>2, <1>10, <1>11, <2>1, <2>2, HeadAsleep DEF IInv, TimerArmed
<1> QED BY <1>12, <1>13, <1>14, <1>15, <1>16, <1>17 DEF IInv

\* The handler takes the alarms that are due off the front of the list, and arms the
\* comparator for the first that stays.
LEMMA HandlerKeeps == IInv /\ Handler => IInv'
<1> SUFFICES ASSUME IInv, Handler PROVE IInv' OBVIOUS
<1> DEFINE n == Len(sleep_list)
           k == DueCount
           a == SubSeq(sleep_list, 1, k)
           b == SubSeq(sleep_list, k + 1, n)
           tick == IF next_tick < mtime THEN next_tick + TICK_PERIOD ELSE next_tick
           cmp == IF b # <<>> /\ twake[Head(b)] < tick THEN twake[Head(b)] ELSE tick
<1>1. /\ pc' = [t \in Threads |-> IF t \in Due THEN "woken" ELSE pc[t]]
      /\ sleep_list' = b
      /\ next_tick' = tick
      /\ mtcmp' = cmp /\ mtie' = TRUE /\ stip' = FALSE
      /\ UNCHANGED <<mtime, twake>>
  BY DEF Handler, Remaining, Rearm
<1>2. IInv /\ TypeOK /\ ListSorted /\ ListHoldsSleepers BY DEF IInv
<1>3. /\ n \in Nat /\ DOMAIN sleep_list = 1 .. n
      /\ \A i \in 1 .. n : sleep_list[i] \in Threads
  BY <1>2, LenProperties, ElementOfSeq DEF TypeOK
<1>4. k \in 0 .. n /\ \A i \in 1 .. k : twake[sleep_list[i]] <= mtime
  BY <1>2, DueIsFront
<1>5. /\ b \in Seq(Threads) /\ Len(b) = n - k
      /\ \A i \in 1 .. n - k : b[i] = sleep_list[k + i]
      /\ Range(a) = {sleep_list[i] : i \in 1 .. k}
      /\ Range(a) \cup Range(b) = Range(sleep_list)
      /\ IsInjective(sleep_list) =>
            IsInjective(b) /\ Range(a) \cap Range(b) = {}
  BY <1>2, <1>4, SplitProperties DEF TypeOK
<1>6. Due = Range(a) BY <1>5 DEF Due
<1> HIDE DEF n, k, a, b
<1>7. DOMAIN b = 1 .. n - k BY <1>5, LenProperties
<1>8. Range(sleep_list) = Asleep /\ IsInjective(sleep_list) BY <1>2 DEF ListHoldsSleepers
<1>9. b # <<>> => Head(b) \in Threads BY <1>5, RemoveProperties
<1>10. tick \in 0 .. UMAX BY AlarmsAssumption DEF IInv, InHorizon, TypeOK
<1>11. cmp \in 0 .. UMAX /\ cmp <= tick /\ (b # <<>> => cmp <= twake[Head(b)])
  <2>1. b # <<>> => twake[Head(b)] \in 0 .. UMAX BY <1>2, <1>9 DEF TypeOK
  <2> HIDE DEF tick
  <2> QED BY <1>10, <2>1
<1> HIDE DEF tick, cmp
<1>12. TypeOK'
  <2>1. {mtime, mtcmp, next_tick}' \subseteq 0 .. UMAX /\ {mtie, stip}' \subseteq BOOLEAN
    BY <1>1, <1>2, <1>10, <1>11 DEF TypeOK
  <2>2. sleep_list' \in Seq(Threads) BY <1>1, <1>5
  <2>3. twake' \in [Threads -> 0 .. UMAX] BY <1>1, <1>2 DEF TypeOK
  <2>4. pc' \in [Threads -> {"run", "insert", "asleep", "woken"}] BY <1>1, <1>2 DEF TypeOK
  <2> QED BY <2>1, <2>2, <2>3, <2>4 DEF TypeOK
<1>13. ListHoldsSleepers'
  <2>1. Asleep' = Asleep \ Due BY <1>1 DEF Asleep
  <2>2. Range(b) = Asleep' /\ IsInjective(b) BY <1>5, <1>6, <1>8, <2>1
  <2> QED BY <1>1, <2>2 DEF ListHoldsSleepers
<1>14. ListSorted'
  <2> SUFFICES ASSUME NEW i \in 1 .. n - k, NEW j \in 1 .. n - k, i < j
               PROVE  twake[b[i]] <= twake[b[j]]
    BY <1>1, <1>7 DEF ListSorted
  <2>1. k + i \in 1 .. n /\ k + j \in 1 .. n /\ k + i < k + j BY <1>3, <1>4
  <2>2. twake[sleep_list[k + i]] <= twake[sleep_list[k + j]]
    BY <1>2, <1>3, <2>1 DEF ListSorted
  <2> QED BY <1>5, <2>2
<1>15. InHorizon' BY <1>1 DEF IInv, InHorizon
<1>16. AwakeInTime'
  <2>1. \A t \in Due : twake[t] <= mtime BY <1>4, <1>5, <1>6
  <2>2. \A t \in Threads : pc'[t] \in {"run", "woken"} => t \in Due \/ pc[t] \in {"run", "woken"}
    BY <1>1
  <2> QED BY <1>1, <2>1, <2>2 DEF IInv, AwakeInTime
<1>17. TimerArmed' BY <1>1, <1>11 DEF TimerArmed
<1> QED BY <1>12, <1>13, <1>14, <1>15, <1>16, <1>17 DEF IInv

LEMMA StutterKeeps == IInv /\ UNCHANGED vars => IInv'
BY DEF IInv, vars, clockVars, TypeOK, ListHoldsSleepers, Asleep, ListSorted, InHorizon,
       AwakeInTime, TimerArmed

LEMMA StepKeeps == IInv /\ [Next]_vars => IInv'
BY AdvanceKeeps, MachineTimerKeeps, HandlerKeeps, UsleepKeeps, ResetKeeps, InsertKeeps,
   ReturnKeeps, StutterKeeps DEF Next, TimeOver

LEMMA Invariant == Spec => []IInv
BY InitIInv, StepKeeps, PTL DEF Spec

------------------------------------------------------------------------------
(* The theorems *)

\* However threads, the clock and the handler take turns, the sleep list holds the
\* alarm of every sleeping thread once and no other, in order of wake-up time: the
\* handler may stop at the first that is not due, and no alarm on it is dangling.
THEOREM SleepersListed == Spec => []SleepListExact
<1>1. IInv => SleepListExact BY DEF IInv, SleepListExact
<1> QED BY <1>1, Invariant, PTL

\* From the first tick on the comparator, which alarm_sleep and the handler both move,
\* is armed no later than the first alarm and the next tick, or its interrupt pending.
THEOREM ArmedInTime == Spec => []TimerArmed
<1>1. IInv => TimerArmed BY DEF IInv
<1> QED BY <1>1, Invariant, PTL

\* No thread is woken before the time in its alarm, and that time never moves back:
\* not by a sum that would wrap, an early return or a reset.
THEOREM NobodyWakesEarly == Spec => SleptLongEnough
<1> DEFINE Step == \A t \in Threads : /\ pc[t] = "asleep" /\ pc'[t] # "asleep" => twake[t] <= mtime
                                      /\ twake[t] <= twake'[t]
<1>1. IInv /\ [Next]_vars => [Step]_vars
  <2> SUFFICES ASSUME IInv, Next, NEW t \in Threads
               PROVE  /\ pc[t] = "asleep" /\ pc'[t] # "asleep" => twake[t] <= mtime
                      /\ twake[t] <= twake'[t]
    OBVIOUS
  <2>1. twake[t] \in Int /\ mtime \in Int /\ pc \in [Threads -> {"run", "insert", "asleep", "woken"}]
        /\ twake \in [Threads -> 0 .. UMAX]
    BY DEF IInv, TypeOK
  <2>2. CASE UNCHANGED <<pc, twake>> BY <2>1, <2>2
  <2>3. CASE Handler
    <3>1. twake' = twake /\ pc'[t] = IF t \in Due THEN "woken" ELSE pc[t] BY <2>3 DEF Handler
    <3>2. \A u \in Due : twake[u] <= mtime BY DueIsFront DEF IInv, Due
    <3> QED BY <2>1, <3>1, <3>2
  <2>4. CASE \E u \in Threads : Reset(u)
    BY <2>1, <2>4 DEF Reset, IInv, AwakeInTime
  <2>5. CASE \E u \in Threads, us \in Delays : Usleep(u, us)
    <3>1. PICK u \in Threads, us \in Delays : Usleep(u, us) BY <2>5
    <3> DEFINE w == SatSum(twake[u], UsleepTicks(us))
    <3>2. /\ pc[u] = "run" /\ twake' = [twake EXCEPT ![u] = w]
          /\ pc' = IF w < mtime THEN pc ELSE [pc EXCEPT ![u] = "insert"]
      BY <3>1 DEF Usleep
    <3>3. w \in 0 .. UMAX /\ twake[u] <= w BY <2>1, TicksFit, Saturates
    <3> HIDE DEF w
    <3> QED BY <2>1, <3>2, <3>3
  <2>6. CASE \E u \in Threads : Insert(u) BY <2>1, <2>6 DEF Insert
  <2>7. CASE \E u \in Threads : Return(u) BY <2>1, <2>7 DEF Return
  <2> QED BY <2>2, <2>3, <2>4, <2>5, <2>6, <2>7
          DEF Next, Advance, MachineTimer, TimeOver, vars
<1> QED BY <1>1, Invariant, PTL DEF Spec, SleptLongEnough

==============================================================================
