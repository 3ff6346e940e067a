----------------------------- MODULE UartProofs ------------------------------
(***************************************************************************)
(* Proofs about the uart driver: the two rings with positions that run on  *)
(* and wrap, the wait and the wakeup on each side, and the queues of bytes  *)
(* that the driver and its callers implement, for every size of the rings;  *)
(* and about the terminal object, which makes lines of such bytes: newlines *)
(* both ways and line editing, for all texts and all keys.                  *)
(***************************************************************************)
EXTENDS Uart, Term, SequenceTheorems, WellFoundedInduction, TLAPS

------------------------------------------------------------------------------
(* Quotients and remainders *)

\* A number is so many times another and a remainder.
LEMMA DivMod ==
    ASSUME NEW m \in Nat, m > 0, NEW x \in Int
    PROVE  /\ x \div m \in Int
           /\ x % m \in 0 .. m - 1
           /\ x = m * (x \div m) + (x % m)
OBVIOUS

\* There is one quotient and one remainder.
LEMMA DivUnique ==
    ASSUME NEW m \in Nat, m > 0,
           NEW q \in Int, NEW r \in 0 .. m - 1,
           NEW p \in Int, NEW s \in 0 .. m - 1,
           m * q + r = m * p + s
    PROVE  q = p /\ r = s
<1>1. m * (q - p) = s - r OBVIOUS
<1>2. ASSUME q - p >= 1 PROVE m * (q - p) >= m BY <1>2
<1>3. ASSUME q - p <= 0 - 1 PROVE m * (q - p) <= 0 - m BY <1>3
<1> QED BY <1>1, <1>2, <1>3

------------------------------------------------------------------------------
(* Positions that run on and wrap *)

\* The remainder of a difference of two positions.
LEMMA ModDiff ==
    ASSUME NEW m \in Nat, m > 0, NEW x \in (1 - m) .. m
    PROVE  x % m = IF x = m THEN 0 ELSE IF x >= 0 THEN x ELSE x + m
OBVIOUS

\* Going round a number of times leaves the remainder alone.
LEMMA ModRound ==
    ASSUME NEW m \in Nat, m > 0, NEW k \in Int, NEW x \in Int
    PROVE  (x + m * k) % m = x % m
<1> DEFINE y == x + m * k
           q == x \div m
           p == y \div m
<1>1. y \in Int OBVIOUS
<1>2. /\ q \in Int /\ x % m \in 0 .. m - 1
      /\ x = m * q + (x % m)
  BY DivMod
<1>3. /\ p \in Int /\ y % m \in 0 .. m - 1
      /\ y = m * p + (y % m)
  BY <1>1, DivMod
<1> DEFINE r == x % m
           s == y % m
<1>4. m * (q + k) = m * q + m * k BY <1>2
<1>5. m * (q + k) + r = m * p + s BY <1>2, <1>3, <1>4
<1> HIDE DEF q, p, r, s
<1>6. q + k \in Int BY <1>2 DEF q
<1>7. p \in Int /\ r \in 0 .. m - 1 /\ s \in 0 .. m - 1
  BY <1>2, <1>3 DEF r, s, p
<1>8. r = s BY <1>5, <1>6, <1>7, DivUnique
<1> QED BY <1>8 DEF r, s

\* The positions wrap at a multiple of the number of slots.
LEMMA ModWrap ==
    ASSUME NEW x \in Int
    PROVE  (x + POSMOD) % RBUFSZ = x % RBUFSZ
<1> DEFINE k == POSMOD \div RBUFSZ
<1>1. /\ RBUFSZ \in Nat /\ RBUFSZ > 0 /\ POSMOD \in Int
      /\ POSMOD % RBUFSZ = 0
  BY UartAssumption
<1>2. k \in Int /\ POSMOD = RBUFSZ * k + (POSMOD % RBUFSZ) BY <1>1, DivMod
<1> HIDE DEF k
<1>3. POSMOD = RBUFSZ * k BY <1>1, <1>2
<1> QED BY <1>1, <1>2, <1>3, ModRound

\* Positions less than a lap apart are in different slots.
LEMMA ModApart ==
    ASSUME NEW m \in Nat, m > 0, NEW x \in Int, NEW y \in Int,
           x < y, y - x < m
    PROVE  x % m # y % m
<1> DEFINE q == x \div m
           p == y \div m
           r == x % m
<1>1. /\ q \in Int /\ r \in 0 .. m - 1
      /\ x = m * q + r
  BY DivMod
<1>2. p \in Int /\ y = m * p + (y % m) /\ y % m \in 0 .. m - 1 BY DivMod
<1> HIDE DEF q, p, r
<1> SUFFICES ASSUME y % m = r PROVE FALSE BY DEF r
<1>3. y - x = m * (p - q) BY <1>1, <1>2
<1>4. m * 0 + (y - x) = m * (p - q) + 0 BY <1>1, <1>2, <1>3
<1>5. y - x \in 0 .. m - 1 /\ p - q \in Int BY <1>1, <1>2
<1>6. y - x = 0 BY <1>4, <1>5, DivUnique
<1> QED BY <1>6

------------------------------------------------------------------------------
(* Rings *)

Positions == 0 .. POSMOD - 1
Bytes == Chars \cup {None}

LEMMA Sizing ==
    /\ RBUFSZ \in Nat /\ RBUFSZ > 0
    /\ POSMOD \in Nat /\ POSMOD > 0 /\ RBUFSZ < POSMOD
BY UartAssumption

LEMMA FillIs ==
    ASSUME NEW h \in Positions, NEW t \in Positions
    PROVE  (t - h) % POSMOD = IF t >= h THEN t - h ELSE t - h + POSMOD
<1>1. t - h \in (1 - POSMOD) .. POSMOD /\ t - h # POSMOD
  BY Sizing DEF Positions
<1>2. (t - h) % POSMOD
        = IF t - h = POSMOD THEN 0 ELSE IF t - h >= 0 THEN t - h ELSE t - h + POSMOD
  BY <1>1, Sizing, ModDiff
<1> QED BY <1>1, <1>2, Sizing DEF Positions

LEMMA NextPosition ==
    ASSUME NEW h \in Positions
    PROVE  /\ (h + 1) % POSMOD \in Positions
           /\ (h + 1) % POSMOD = IF h + 1 = POSMOD THEN 0 ELSE h + 1
<1>1. h + 1 \in (1 - POSMOD) .. POSMOD /\ h + 1 >= 0
  BY Sizing DEF Positions
<1>2. (h + 1) % POSMOD
        = IF h + 1 = POSMOD THEN 0 ELSE IF h + 1 >= 0 THEN h + 1 ELSE h + 1 + POSMOD
  BY <1>1, Sizing, ModDiff
<1> QED BY <1>1, <1>2, Sizing DEF Positions

LEMMA SlotIn ==
    ASSUME NEW x \in Int PROVE x % RBUFSZ \in 0 .. RBUFSZ - 1
BY Sizing, DivMod

\* The slot of the byte at distance i from a position, across the wrap.
LEMMA NextSlot ==
    ASSUME NEW h \in Positions, NEW i \in Int
    PROVE  (((h + 1) % POSMOD) + i) % RBUFSZ = (h + 1 + i) % RBUFSZ
<1>1. CASE h + 1 = POSMOD
  <2>1. ((h + 1) % POSMOD) + i = i BY <1>1, NextPosition
  <2>2. h + 1 + i = i + POSMOD BY <1>1, Sizing DEF Positions
  <2> QED BY <2>1, <2>2, ModWrap
<1>2. CASE h + 1 # POSMOD
  BY <1>2, NextPosition
<1> QED BY <1>1, <1>2

\* The slot that the next byte goes into.
LEMMA EndSlot ==
    ASSUME NEW h \in Positions, NEW t \in Positions
    PROVE  (h + ((t - h) % POSMOD)) % RBUFSZ = t % RBUFSZ
<1>1. CASE t >= h
  <2>1. h + ((t - h) % POSMOD) = t BY <1>1, FillIs, Sizing DEF Positions
  <2> QED BY <2>1
<1>2. CASE ~(t >= h)
  <2> DEFINE f == (t - h) % POSMOD
  <2>1. f = t - h + POSMOD BY <1>2, FillIs
  <2> HIDE DEF f
  <2>2. h + f = t + POSMOD BY <2>1, Sizing DEF Positions
  <2>3. (t + POSMOD) % RBUFSZ = t % RBUFSZ BY ModWrap DEF Positions
  <2> QED BY <2>2, <2>3 DEF f
<1> QED BY <1>1, <1>2

LEMMA RingFacts ==
    ASSUME NEW rb, RingOK(rb)
    PROVE  /\ rb.hpos \in Positions /\ rb.tpos \in Positions
           /\ rb.data \in [0 .. RBUFSZ - 1 -> Bytes]
           /\ Fill(rb) \in 0 .. RBUFSZ
           /\ rbuf_full(rb) <=> Fill(rb) = RBUFSZ
           /\ rbuf_empty(rb) <=> Fill(rb) = 0
           /\ Contents(rb) \in Seq(Bytes)
           /\ Len(Contents(rb)) = Fill(rb)
           /\ rb.data[rb.tpos % RBUFSZ] \in Bytes
<1>1. /\ rb.hpos \in Positions /\ rb.tpos \in Positions
      /\ rb.data \in [0 .. RBUFSZ - 1 -> Bytes]
  BY DEF RingOK, Positions, Bytes
<1>2. Fill(rb) \in 0 .. RBUFSZ /\ (rbuf_empty(rb) <=> Fill(rb) = 0)
  <2> DEFINE h == rb.hpos
             t == rb.tpos
             n == Fill(rb)
  <2>1. n = IF t >= h THEN t - h ELSE t - h + POSMOD BY <1>1, FillIs DEF Fill
  <2>2. h \in Positions /\ t \in Positions /\ n <= RBUFSZ BY <1>1 DEF RingOK
  <2>3. rbuf_empty(rb) <=> h = t BY DEF rbuf_empty
  <2> HIDE DEF h, t, n
  <2>4. n \in 0 .. RBUFSZ /\ (h = t <=> n = 0)
    BY <2>1, <2>2, Sizing DEF Positions
  <2> QED BY <2>3, <2>4 DEF n
<1>3. rbuf_full(rb) <=> Fill(rb) = RBUFSZ BY DEF rbuf_full, Fill
<1>4. \A i \in 1 .. Fill(rb) : rb.data[(rb.hpos + i - 1) % RBUFSZ] \in Bytes
  <2> TAKE i \in 1 .. Fill(rb)
  <2>1. rb.hpos + i - 1 \in Int BY <1>1, <1>2, Sizing DEF Positions
  <2>2. (rb.hpos + i - 1) % RBUFSZ \in 0 .. RBUFSZ - 1 BY <2>1, SlotIn
  <2> QED BY <1>1, <2>2
<1> DEFINE n == Fill(rb)
           s(i) == rb.data[(rb.hpos + i - 1) % RBUFSZ]
<1>5. n \in Nat /\ \A i \in 1 .. n : s(i) \in Bytes BY <1>2, <1>4, Sizing
<1>6. Contents(rb) = [i \in 1 .. n |-> s(i)] BY DEF Contents
<1> HIDE DEF n, s
<1>7. Contents(rb) \in Seq(Bytes) /\ Len(Contents(rb)) = n BY <1>5, <1>6
<1>8. rb.data[rb.tpos % RBUFSZ] \in Bytes
  <2>1. rb.tpos % RBUFSZ \in 0 .. RBUFSZ - 1 BY <1>1, SlotIn DEF Positions
  <2> QED BY <1>1, <2>1
<1> QED BY <1>1, <1>2, <1>3, <1>7, <1>8 DEF n

\* A byte moved in at the end of a ring that is not full.
LEMMA TailMovedFacts ==
    ASSUME NEW rb, RingOK(rb), Fill(rb) < RBUFSZ
    PROVE  /\ RingOK(TailMoved(rb))
           /\ Fill(TailMoved(rb)) = Fill(rb) + 1
           /\ Contents(TailMoved(rb))
                = Append(Contents(rb), rb.data[rb.tpos % RBUFSZ])
<1> DEFINE h == rb.hpos
           t == rb.tpos
           u == (t + 1) % POSMOD
           n == Fill(rb)
           m == Fill(TailMoved(rb))
           s(i) == rb.data[(h + i - 1) % RBUFSZ]
           q == Contents(rb)
           p == Contents(TailMoved(rb))
           c == rb.data[t % RBUFSZ]
<1>1. /\ h \in Positions /\ t \in Positions
      /\ n \in 0 .. RBUFSZ /\ c \in Bytes
      /\ q \in Seq(Bytes) /\ Len(q) = n
  BY RingFacts
<1>2. u \in Positions /\ u = IF t + 1 = POSMOD THEN 0 ELSE t + 1
  BY <1>1, NextPosition
<1>3. n = IF t >= h THEN t - h ELSE t - h + POSMOD BY <1>1, FillIs DEF Fill
<1>4. m = IF u >= h THEN u - h ELSE u - h + POSMOD
  <2>1. m = (u - h) % POSMOD BY DEF Fill, TailMoved
  <2> QED BY <1>1, <1>2, <2>1, FillIs
<1>5. q = [i \in 1 .. n |-> s(i)] /\ p = [i \in 1 .. m |-> s(i)]
  BY DEF Contents, TailMoved
<1>6. s(n + 1) = c
  <2>1. (h + ((t - h) % POSMOD)) % RBUFSZ = t % RBUFSZ BY <1>1, EndSlot
  <2>2. (h + n) % RBUFSZ = t % RBUFSZ BY <2>1 DEF Fill
  <2>3. h + (n + 1) - 1 = h + n BY <1>1 DEF Positions
  <2> QED BY <2>2, <2>3
<1>7. n < RBUFSZ OBVIOUS
<1>8. RingOK(TailMoved(rb)) <=> (u \in Positions /\ m <= RBUFSZ)
  BY <1>1, RingFacts DEF RingOK, TailMoved, Positions, Bytes
<1> HIDE DEF h, t, u, n, m, s, q, p, c
<1>9. m = n + 1
  BY <1>1, <1>2, <1>3, <1>4, <1>7, Sizing DEF Positions
<1>10. p = Append(q, c)
  <2>1. n \in Nat BY <1>1, Sizing
  <2>2. \A i \in 1 .. n : q[i] = s(i) BY <1>5
  <2>3. Append(q, c) \in Seq(Bytes) /\ Len(Append(q, c)) = n + 1 BY <1>1
  <2>4. \A i \in 1 .. n + 1 : Append(q, c)[i] = s(i)
    BY <1>1, <1>6, <2>1, <2>2
  <2> DEFINE z == Append(q, c)
  <2>5. /\ z \in Seq(Bytes) /\ Len(z) = n + 1
        /\ \A i \in 1 .. n + 1 : z[i] = s(i)
    BY <2>3, <2>4
  <2> HIDE DEF z
  <2>6. z = [i \in 1 .. n + 1 |-> s(i)] BY <2>1, <2>5
  <2> QED BY <1>5, <1>9, <2>6 DEF z
<1>11. m <= RBUFSZ BY <1>1, <1>7, <1>9, Sizing
<1>12. RingOK(TailMoved(rb)) BY <1>2, <1>8, <1>11
<1> QED BY <1>9, <1>10, <1>12 DEF m, n, q, p, c, t

\* The first byte moved out of a ring.
LEMMA HeadMovedFacts ==
    ASSUME NEW rb, RingOK(rb), Fill(rb) # 0
    PROVE  /\ RingOK(HeadMoved(rb))
           /\ Fill(HeadMoved(rb)) = Fill(rb) - 1
           /\ Contents(rb) # <<>> /\ Slot(rb) = Head(Contents(rb))
           /\ Slot(rb) \in Bytes
           /\ Contents(HeadMoved(rb)) = Tail(Contents(rb))
<1> DEFINE h == rb.hpos
           t == rb.tpos
           g == (h + 1) % POSMOD
           n == Fill(rb)
           m == Fill(HeadMoved(rb))
           s(i) == rb.data[(h + i - 1) % RBUFSZ]
           r(i) == rb.data[(g + i - 1) % RBUFSZ]
           q == Contents(rb)
           p == Contents(HeadMoved(rb))
<1>1. /\ h \in Positions /\ t \in Positions
      /\ n \in 0 .. RBUFSZ
      /\ q \in Seq(Bytes) /\ Len(q) = n
  BY RingFacts
<1>2. g \in Positions /\ g = IF h + 1 = POSMOD THEN 0 ELSE h + 1
  BY <1>1, NextPosition
<1>3. n = IF t >= h THEN t - h ELSE t - h + POSMOD BY <1>1, FillIs DEF Fill
<1>4. m = IF t >= g THEN t - g ELSE t - g + POSMOD
  <2>1. m = (t - g) % POSMOD BY DEF Fill, HeadMoved
  <2> QED BY <1>1, <1>2, <2>1, FillIs
<1>5. q = [i \in 1 .. n |-> s(i)] /\ p = [i \in 1 .. m |-> r(i)]
  BY DEF Contents, HeadMoved
<1>6. \A i \in Int : r(i) = s(i + 1)
  <2> TAKE i \in Int
  <2> DEFINE j == i - 1
  <2>1. j \in Int OBVIOUS
  <2>2. (g + j) % RBUFSZ = (h + 1 + j) % RBUFSZ BY <1>1, <2>1, NextSlot
  <2>3. g + j = g + i - 1 /\ h + 1 + j = h + (i + 1) - 1
    BY <1>1, <1>2 DEF Positions
  <2> QED BY <2>2, <2>3
<1>7. n # 0 OBVIOUS
<1>8. RingOK(HeadMoved(rb)) <=> (g \in Positions /\ m <= RBUFSZ)
  BY <1>1, RingFacts DEF RingOK, HeadMoved, Positions, Bytes
<1>9. Slot(rb) = s(1)
  <2>1. h + 1 - 1 = h BY <1>1 DEF Positions
  <2> QED BY <2>1 DEF Slot
<1> HIDE DEF h, t, g, n, m, s, r, q, p
<1>10. m = n - 1
  BY <1>1, <1>2, <1>3, <1>4, <1>7, Sizing DEF Positions
<1>11. n \in Nat /\ n > 0 BY <1>1, <1>7, Sizing
<1>12. q # <<>> /\ Slot(rb) = Head(q) /\ Slot(rb) \in Bytes
  BY <1>1, <1>5, <1>9, <1>11
<1>13. p = Tail(q)
  <2>1. Tail(q) \in Seq(Bytes) /\ Len(Tail(q)) = n - 1 BY <1>1, <1>11, <1>12
  <2>2. \A i \in 1 .. n - 1 : Tail(q)[i] = r(i)
    <3> TAKE i \in 1 .. n - 1
    <3>1. Tail(q)[i] = q[i + 1] BY <1>1, <1>11, <1>12
    <3>2. i \in Int /\ i + 1 \in 1 .. n BY <1>11
    <3> QED BY <1>5, <1>6, <3>1, <3>2
  <2> DEFINE z == Tail(q)
  <2>3. z \in Seq(Bytes) /\ Len(z) = n - 1 /\ \A i \in 1 .. n - 1 : z[i] = r(i)
    BY <2>1, <2>2
  <2> HIDE DEF z
  <2>4. z = [i \in 1 .. n - 1 |-> r(i)] BY <1>11, <2>3
  <2> QED BY <1>5, <1>10, <2>4 DEF z
<1>14. m <= RBUFSZ BY <1>1, <1>10, <1>11, Sizing
<1>15. RingOK(HeadMoved(rb)) BY <1>2, <1>8, <1>14
<1> QED BY <1>10, <1>12, <1>13, <1>15 DEF m, n, q, p

\* A byte stored behind the last one, which no position counts yet.
LEMMA StoreFacts ==
    ASSUME NEW rb, RingOK(rb), Fill(rb) < RBUFSZ, NEW c \in Bytes
    PROVE  /\ RingOK(Store(rb, c))
           /\ Fill(Store(rb, c)) = Fill(rb)
           /\ Contents(Store(rb, c)) = Contents(rb)
           /\ Store(rb, c).data[Store(rb, c).tpos % RBUFSZ] = c
<1> DEFINE h == rb.hpos
           t == rb.tpos
           n == Fill(rb)
           k == t % RBUFSZ
           d == [rb.data EXCEPT ![k] = c]
<1>1. /\ h \in Positions /\ t \in Positions
      /\ n \in 0 .. RBUFSZ
      /\ rb.data \in [0 .. RBUFSZ - 1 -> Bytes]
  BY RingFacts
<1>2. k \in 0 .. RBUFSZ - 1 BY <1>1, SlotIn DEF Positions
<1>3. /\ Store(rb, c).hpos = h /\ Store(rb, c).tpos = t /\ Store(rb, c).data = d
      /\ Fill(Store(rb, c)) = n
  BY DEF Store, Fill
<1>4. RingOK(Store(rb, c)) <=> (d \in [0 .. RBUFSZ - 1 -> Bytes])
  BY <1>1, <1>3 DEF RingOK, Bytes, Positions
<1>5. d \in [0 .. RBUFSZ - 1 -> Bytes] /\ d[k] = c BY <1>1, <1>2
<1>6. (h + n) % RBUFSZ = k
  <2>1. (h + ((t - h) % POSMOD)) % RBUFSZ = t % RBUFSZ BY <1>1, EndSlot
  <2> QED BY <2>1 DEF Fill
<1>7. \A i \in 1 .. n : d[(h + i - 1) % RBUFSZ] = rb.data[(h + i - 1) % RBUFSZ]
  <2> TAKE i \in 1 .. n
  <2> DEFINE x == h + i - 1
             y == h + n
  <2>1. n < RBUFSZ OBVIOUS
  <2> HIDE DEF n
  <2>2. x \in Int /\ y \in Int /\ x < y /\ y - x < RBUFSZ
    BY <1>1, <2>1, Sizing DEF Positions
  <2>3. x % RBUFSZ # y % RBUFSZ BY <2>2, Sizing, ModApart
  <2>4. x % RBUFSZ \in 0 .. RBUFSZ - 1 BY <2>2, SlotIn
  <2>5. x % RBUFSZ # k BY <1>6, <2>3
  <2> QED BY <1>1, <2>4, <2>5
<1>8. Contents(Store(rb, c)) = Contents(rb)
  BY <1>3, <1>7 DEF Contents
<1> QED BY <1>3, <1>4, <1>5, <1>8
------------------------------------------------------------------------------
(* The inductive invariant *)

InDriver == Reads \cup Writes
Reading == Reads \cup {"rxwait", "rxready"}
Writing == Writes \cup {"txwait", "txready"}

CallsTyped ==
    /\ taken \in [Threads -> Seq(Bytes)]
    /\ todo \in [Threads -> Seq(Chars)]

\* Calls are made on an open port; only a read has bytes taken, and only a write
\* has bytes to put.
CallsOpen ==
    \A t \in Threads :
       /\ pc[t] # "user" => open
       /\ pc[t] \in Reading \/ taken[t] = <<>>
       /\ pc[t] \in Writing \/ todo[t] = <<>>

\* The kernel is not preemptive.
OneInside ==
    \A t, u \in Threads : pc[t] \in InDriver /\ pc[u] \in InDriver => t = u

\* What a thread in the middle of a put, a get or a |= relies on, whatever the
\* handler does to the other end and to the bits.
Midway ==
    \A t \in Threads :
       /\ pc[t] = "got" =>
             /\ Fill(rxbuf) # 0 /\ reg = Head(Contents(rxbuf))
             /\ Len(taken[t]) < want[t]
       /\ pc[t] = "put" =>
             /\ Fill(txbuf) < RBUFSZ /\ todo[t] # <<>>
             /\ txbuf.data[txbuf.tpos % RBUFSZ] = Head(todo[t])
       /\ pc[t] \in {"rstore", "wstore"} => reg \subseteq {DREIE, THREIE}
       /\ pc[t] = "rstore" /\ THREIE \notin reg => rbuf_empty(txbuf)
       /\ pc[t] = "wstore" /\ DREIE \notin reg => rbuf_full(rxbuf)

IInv ==
    /\ TypeOK /\ CallsTyped /\ CallsOpen /\ OneInside /\ Midway
    /\ NoLostWakeup /\ ReceiveEnabled /\ TransmitEnabled

LEMMA Labels ==
    /\ InDriver \cap Outside = {}
    /\ \A l \in {"user", "rxwait", "rxready", "txwait", "txready"} : l \in Outside
    /\ \A l \in {"drain", "got", "rload", "rstore"} : l \in Reads /\ l \notin Writes
    /\ \A l \in {"fill", "put", "wload", "wstore"} : l \in Writes /\ l \notin Reads
    /\ "user" \notin Reading \cup Writing
    /\ Reading \cap Writing = {} /\ Reads \subseteq Reading /\ Writes \subseteq Writing
    /\ {"rxwait", "rxready"} \subseteq Reading
    /\ {"txwait", "txready"} \subseteq Writing
BY DEF InDriver, Outside, Reads, Writes, Reading, Writing

LEMMA InvInit == Init => IInv
<1> SUFFICES ASSUME Init PROVE IInv OBVIOUS
<1> USE DEF Init
<1>1. RingOK(EmptyRing) /\ rbuf_empty(EmptyRing)
  <2>1. 0 \in Positions BY Sizing DEF Positions
  <2>2. EmptyRing.hpos = 0 /\ EmptyRing.tpos = 0
        /\ EmptyRing.data = [i \in 0 .. RBUFSZ - 1 |-> None]
    BY DEF EmptyRing
  <2>3. (0 - 0) % POSMOD = 0 BY <2>1, FillIs
  <2> QED BY <2>1, <2>2, <2>3, Sizing DEF RingOK, Fill, rbuf_empty, Positions
<1>2. TypeOK
  <2>1. RingOK(rxbuf) /\ RingOK(txbuf) BY <1>1
  <2>2. \A t \in Threads : Len(taken[t]) <= want[t] /\ todo[t] \in Seq(Chars)
    OBVIOUS
  <2> QED BY <2>1, <2>2, Labels DEF TypeOK
<1>3. CallsTyped /\ CallsOpen BY Labels DEF CallsTyped, CallsOpen
<1>4. OneInside BY Labels DEF OneInside
<1>5. Midway BY DEF Midway
<1>6. NoLostWakeup /\ ReceiveEnabled /\ TransmitEnabled
  BY DEF NoLostWakeup, ReceiveEnabled, TransmitEnabled
<1> QED BY <1>2, <1>3, <1>4, <1>5, <1>6 DEF IInv

------------------------------------------------------------------------------
(* Opening and closing, and the line *)

LEMMA OpenInv == IInv /\ Open => IInv'
<1> SUFFICES ASSUME IInv, Open PROVE IInv' OBVIOUS
<1> USE DEF IInv, Open
<1>1. \A rb : RingOK(rb) => RingOK(rbuf_init(rb)) /\ rbuf_empty(rbuf_init(rb))
  <2> TAKE rb
  <2> HAVE RingOK(rb)
  <2>1. 0 \in Positions /\ (0 - 0) % POSMOD = 0 BY Sizing, FillIs DEF Positions
  <2> QED
    BY <2>1, Sizing DEF RingOK, rbuf_init, rbuf_empty, Fill, Positions
<1>2. /\ RingOK(rxbuf') /\ RingOK(txbuf')
      /\ rbuf_empty(rxbuf') /\ rbuf_empty(txbuf')
  BY <1>1 DEF TypeOK
<1>3. TypeOK' BY <1>2 DEF TypeOK, callVars
<1>4. CallsTyped' /\ CallsOpen' BY DEF CallsTyped, CallsOpen, callVars
<1>5. OneInside' BY DEF OneInside
<1>6. Midway' BY DEF Midway
<1>7. NoLostWakeup' /\ ReceiveEnabled' /\ TransmitEnabled'
  BY <1>2 DEF NoLostWakeup, ReceiveEnabled, TransmitEnabled
<1> QED BY <1>3, <1>4, <1>5, <1>6, <1>7

LEMMA CloseInv == IInv /\ Close => IInv'
<1> SUFFICES ASSUME IInv, Close PROVE IInv' OBVIOUS
<1> USE DEF IInv, Close
<1>1. TypeOK' BY DEF TypeOK, callVars
<1>2. CallsTyped' /\ CallsOpen' BY DEF CallsTyped, CallsOpen, callVars
<1>3. OneInside' /\ Midway' BY DEF OneInside, Midway
<1>4. NoLostWakeup' /\ ReceiveEnabled' /\ TransmitEnabled'
  BY DEF NoLostWakeup, ReceiveEnabled, TransmitEnabled
<1> QED BY <1>1, <1>2, <1>3, <1>4

LEMMA LineInv ==
    ASSUME IInv, Transmit \/ \E c \in Arrivals : Arrive(c) PROVE IInv'
<1> USE DEF IInv, Transmit, Arrive
<1>1. /\ {rbr', thr'} \subseteq Bytes
      /\ UNCHANGED <<open, ier, rxbuf, txbuf, pc, reg, taken, want, todo>>
  BY UartAssumption DEF TypeOK, Bytes, callVars
<1>2. TypeOK' BY <1>1 DEF TypeOK, Bytes
<1>3. CallsTyped' /\ CallsOpen' /\ OneInside' /\ Midway'
  BY <1>1 DEF CallsTyped, CallsOpen, OneInside, Midway
<1>4. NoLostWakeup' /\ ReceiveEnabled' /\ TransmitEnabled'
  BY <1>1 DEF NoLostWakeup, ReceiveEnabled, TransmitEnabled
<1> QED BY <1>2, <1>3, <1>4

------------------------------------------------------------------------------
(* The handler *)

\* What the handler does to the rings and to the data registers.
Accepted ==
    /\ rbr # None /\ Fill(rxbuf) < RBUFSZ
    /\ Fill(rxbuf') = Fill(rxbuf) + 1
    /\ Contents(rxbuf') = Append(Contents(rxbuf), rbr)
    /\ rbr' = None
Sent ==
    /\ thr = None /\ Fill(txbuf) # 0
    /\ Fill(txbuf') = Fill(txbuf) - 1
    /\ thr' = Head(Contents(txbuf)) /\ thr' \in Bytes
    /\ Contents(txbuf) # <<>>
    /\ Contents(txbuf') = Tail(Contents(txbuf))
    /\ txbuf'.tpos = txbuf.tpos /\ txbuf'.data = txbuf.data

LEMMA IsrFacts ==
    ASSUME TypeOK, Isr
    PROVE  /\ RingOK(rxbuf') /\ RingOK(txbuf')
           /\ \/ rbr # None /\ ~rbuf_full(rxbuf) /\ Accepted
              \/ (rbr = None \/ rbuf_full(rxbuf)) /\ UNCHANGED <<rxbuf, rbr>>
           /\ \/ thr = None /\ ~rbuf_empty(txbuf) /\ Sent
              \/ (thr # None \/ rbuf_empty(txbuf)) /\ UNCHANGED <<txbuf, thr>>
<1> USE DEF TypeOK
<1>1. RingOK(rxbuf')
      /\ \/ rbr # None /\ ~rbuf_full(rxbuf) /\ Accepted
         \/ (rbr = None \/ rbuf_full(rxbuf)) /\ UNCHANGED <<rxbuf, rbr>>
  <2>1. CASE rbr # None /\ ~rbuf_full(rxbuf)
    <3>1. Fill(rxbuf) < RBUFSZ /\ rbr \in Bytes
      BY <2>1, RingFacts, Sizing DEF Bytes
    <3> DEFINE rb == Store(rxbuf, rbr)
    <3>2. /\ RingOK(rb) /\ Fill(rb) = Fill(rxbuf)
          /\ Contents(rb) = Contents(rxbuf) /\ rb.data[rb.tpos % RBUFSZ] = rbr
      BY <3>1, StoreFacts
    <3>3. rxbuf' = TailMoved(rb) /\ rbr' = None BY <2>1 DEF Isr
    <3> HIDE DEF rb
    <3>4. /\ RingOK(TailMoved(rb)) /\ Fill(TailMoved(rb)) = Fill(rb) + 1
          /\ Contents(TailMoved(rb))
               = Append(Contents(rb), rb.data[rb.tpos % RBUFSZ])
      BY <3>1, <3>2, TailMovedFacts
    <3> QED BY <2>1, <3>1, <3>2, <3>3, <3>4 DEF Accepted
  <2>2. CASE ~(rbr # None /\ ~rbuf_full(rxbuf))
    BY <2>2 DEF Isr
  <2> QED BY <2>1, <2>2
<1>2. RingOK(txbuf')
      /\ \/ thr = None /\ ~rbuf_empty(txbuf) /\ Sent
         \/ (thr # None \/ rbuf_empty(txbuf)) /\ UNCHANGED <<txbuf, thr>>
  <2>1. CASE thr = None /\ ~rbuf_empty(txbuf)
    <3>1. Fill(txbuf) # 0 BY <2>1, RingFacts
    <3>2. txbuf' = HeadMoved(txbuf) /\ thr' = Slot(txbuf) BY <2>1 DEF Isr
    <3>3. /\ RingOK(HeadMoved(txbuf)) /\ Fill(HeadMoved(txbuf)) = Fill(txbuf) - 1
          /\ Contents(txbuf) # <<>> /\ Slot(txbuf) = Head(Contents(txbuf))
          /\ Slot(txbuf) \in Bytes
          /\ Contents(HeadMoved(txbuf)) = Tail(Contents(txbuf))
      BY <3>1, HeadMovedFacts
    <3>4. txbuf'.tpos = txbuf.tpos /\ txbuf'.data = txbuf.data
      BY <3>2 DEF HeadMoved
    <3> QED BY <2>1, <3>1, <3>2, <3>3, <3>4 DEF Sent
  <2>2. CASE ~(thr = None /\ ~rbuf_empty(txbuf))
    BY <2>2 DEF Isr
  <2> QED BY <2>1, <2>2
<1> QED BY <1>1, <1>2
\* The handler only moves threads that wait.
LEMMA IsrMoves ==
    ASSUME TypeOK, Isr
    PROVE  /\ pc' \in [Threads -> Outside \cup Reads \cup Writes]
           /\ \A t \in Threads :
                 /\ \A l \in InDriver \cup {"user"} : pc'[t] = l <=> pc[t] = l
                 /\ pc'[t] \in Reads <=> pc[t] \in Reads
                 /\ pc'[t] \in Writes <=> pc[t] \in Writes
                 /\ pc'[t] \in Reading <=> pc[t] \in Reading
                 /\ pc'[t] \in Writing <=> pc[t] \in Writing
                 /\ pc'[t] = "rxwait" => pc[t] = "rxwait" /\ ~WakesReaders
                 /\ pc'[t] = "txwait" => pc[t] = "txwait" /\ ~WakesWriters
<1>1. pc \in [Threads -> Outside \cup Reads \cup Writes]
      /\ pc' = [t \in Threads |-> Woken(pc[t])]
  BY DEF TypeOK, Isr
<1>2. \A l \in Outside \cup Reads \cup Writes :
         /\ Woken(l) \in Outside \cup Reads \cup Writes
         /\ \A k \in InDriver \cup {"user"} : Woken(l) = k <=> l = k
         /\ Woken(l) \in Reading <=> l \in Reading
         /\ Woken(l) \in Writing <=> l \in Writing
         /\ Woken(l) = "rxwait" => l = "rxwait" /\ ~WakesReaders
         /\ Woken(l) = "txwait" => l = "txwait" /\ ~WakesWriters
  BY DEF Woken, InDriver, Outside, Reads, Writes, Reading, Writing
<1>3. \A t \in Threads : pc[t] \in Outside \cup Reads \cup Writes /\ pc'[t] = Woken(pc[t])
  BY <1>1
<1> QED BY <1>1, <1>2, <1>3 DEF InDriver

LEMMA IsrInv == IInv /\ Isr => IInv'
<1> SUFFICES ASSUME IInv, Isr PROVE IInv' OBVIOUS
<1> USE DEF IInv
<1>1. /\ RingOK(rxbuf') /\ RingOK(txbuf')
      /\ \/ rbr # None /\ ~rbuf_full(rxbuf) /\ Accepted
         \/ (rbr = None \/ rbuf_full(rxbuf)) /\ UNCHANGED <<rxbuf, rbr>>
      /\ \/ thr = None /\ ~rbuf_empty(txbuf) /\ Sent
         \/ (thr # None \/ rbuf_empty(txbuf)) /\ UNCHANGED <<txbuf, thr>>
  BY IsrFacts
<1>2. /\ pc' \in [Threads -> Outside \cup Reads \cup Writes]
      /\ \A t \in Threads :
            /\ \A l \in InDriver \cup {"user"} : pc'[t] = l <=> pc[t] = l
            /\ pc'[t] \in Reads <=> pc[t] \in Reads
            /\ pc'[t] \in Writes <=> pc[t] \in Writes
            /\ pc'[t] \in Reading <=> pc[t] \in Reading
            /\ pc'[t] \in Writing <=> pc[t] \in Writing
            /\ pc'[t] = "rxwait" => pc[t] = "rxwait" /\ ~WakesReaders
            /\ pc'[t] = "txwait" => pc[t] = "txwait" /\ ~WakesWriters
  BY IsrMoves
<1>3. UNCHANGED <<open, reg, taken, want, todo>> /\ open BY DEF Isr, callVars
<1>4. RingOK(rxbuf) /\ RingOK(txbuf) BY DEF TypeOK
<1>5. /\ rbuf_full(rxbuf) <=> Fill(rxbuf) = RBUFSZ
      /\ rbuf_empty(rxbuf) <=> Fill(rxbuf) = 0
      /\ Contents(rxbuf) \in Seq(Bytes) /\ Len(Contents(rxbuf)) = Fill(rxbuf)
      /\ Fill(rxbuf) \in Nat
  BY <1>4, RingFacts, Sizing
<1>6. /\ rbuf_full(txbuf) <=> Fill(txbuf) = RBUFSZ
      /\ rbuf_empty(txbuf) <=> Fill(txbuf) = 0
      /\ Fill(txbuf) \in Nat /\ Fill(txbuf) <= RBUFSZ
  BY <1>4, RingFacts, Sizing
<1>7. /\ ier' \subseteq ier
      /\ DREIE \in ier /\ DREIE \notin ier' => rbuf_full(rxbuf)
      /\ THREIE \in ier /\ THREIE \notin ier' => rbuf_empty(txbuf)
  BY DEF Isr, DREIE, THREIE
<1>8. TypeOK'
  <2>1. rbr' \in Bytes /\ thr' \in Bytes
    BY <1>1 DEF TypeOK, Accepted, Sent, Bytes
  <2> QED BY <1>1, <1>2, <1>3, <1>7, <2>1 DEF TypeOK, Bytes
<1>9. CallsTyped' BY <1>3 DEF CallsTyped
<1>10. CallsOpen' BY <1>2, <1>3 DEF CallsOpen
<1>11. OneInside' BY <1>2 DEF OneInside, InDriver
<1>12. Midway'
  <2> SUFFICES ASSUME NEW t \in Threads
               PROVE  /\ pc'[t] = "got" =>
                            /\ Fill(rxbuf') # 0 /\ reg = Head(Contents(rxbuf'))
                            /\ Len(taken[t]) < want[t]
                      /\ pc'[t] = "put" =>
                            /\ Fill(txbuf') < RBUFSZ /\ todo[t] # <<>>
                            /\ txbuf'.data[txbuf'.tpos % RBUFSZ] = Head(todo[t])
                      /\ pc'[t] \in {"rstore", "wstore"} => reg \subseteq {DREIE, THREIE}
                      /\ pc'[t] = "rstore" /\ THREIE \notin reg => rbuf_empty(txbuf')
                      /\ pc'[t] = "wstore" /\ DREIE \notin reg => rbuf_full(rxbuf')
    BY <1>3 DEF Midway
  <2>1. \A l \in {"got", "put", "rstore", "wstore"} : pc'[t] = l => pc[t] = l
    BY <1>2 DEF InDriver, Reads, Writes
  <2>2. ASSUME pc'[t] = "got"
        PROVE  /\ Fill(rxbuf') # 0 /\ reg = Head(Contents(rxbuf'))
               /\ Len(taken[t]) < want[t]
    <3>1. /\ Fill(rxbuf) # 0 /\ reg = Head(Contents(rxbuf))
          /\ Len(taken[t]) < want[t]
      BY <2>1, <2>2 DEF Midway
    <3>2. CASE Accepted
      <4>1. rbr \in Bytes BY DEF TypeOK, Bytes
      <4> QED BY <1>5, <3>1, <3>2, <4>1 DEF Accepted
    <3>3. CASE rxbuf' = rxbuf BY <3>1, <3>3
    <3> QED BY <1>1, <3>2, <3>3
  <2>3. ASSUME pc'[t] = "put"
        PROVE  /\ Fill(txbuf') < RBUFSZ /\ todo[t] # <<>>
               /\ txbuf'.data[txbuf'.tpos % RBUFSZ] = Head(todo[t])
    <3>1. /\ Fill(txbuf) < RBUFSZ /\ todo[t] # <<>>
          /\ txbuf.data[txbuf.tpos % RBUFSZ] = Head(todo[t])
      BY <2>1, <2>3 DEF Midway
    <3>2. CASE Sent BY <1>6, <3>1, <3>2, Sizing DEF Sent
    <3>3. CASE txbuf' = txbuf BY <3>1, <3>3
    <3> QED BY <1>1, <3>2, <3>3
  <2>4. pc'[t] \in {"rstore", "wstore"} => reg \subseteq {DREIE, THREIE}
    BY <2>1 DEF Midway
  <2>5. pc'[t] = "rstore" /\ THREIE \notin reg => rbuf_empty(txbuf')
    BY <1>1, <2>1 DEF Midway
  <2>6. pc'[t] = "wstore" /\ DREIE \notin reg => rbuf_full(rxbuf')
    BY <1>1, <2>1 DEF Midway
  <2> QED BY <2>2, <2>3, <2>4, <2>5, <2>6
<1>13. NoLostWakeup'
  <2> SUFFICES ASSUME NEW t \in Threads
               PROVE  /\ pc'[t] = "rxwait" => rbuf_empty(rxbuf')
                      /\ pc'[t] = "txwait" => rbuf_full(txbuf')
    BY DEF NoLostWakeup
  <2>1. ASSUME pc'[t] = "rxwait" PROVE rbuf_empty(rxbuf')
    <3>1. rbuf_empty(rxbuf) /\ ~WakesReaders
      BY <1>2, <2>1 DEF NoLostWakeup
    <3>2. rbr = None BY <1>5, <3>1, Sizing DEF WakesReaders
    <3> QED BY <1>1, <3>1, <3>2
  <2>2. ASSUME pc'[t] = "txwait" PROVE rbuf_full(txbuf')
    <3>1. rbuf_full(txbuf) /\ ~WakesWriters
      BY <1>2, <2>2 DEF NoLostWakeup
    <3>2. thr # None BY <1>6, <3>1, Sizing DEF WakesWriters
    <3> QED BY <1>1, <3>1, <3>2
  <2> QED BY <2>1, <2>2
<1>14. ReceiveEnabled'
  BY <1>1, <1>2, <1>3, <1>7 DEF ReceiveEnabled
<1>15. TransmitEnabled'
  BY <1>1, <1>2, <1>3, <1>7 DEF TransmitEnabled
<1> QED BY <1>8, <1>9, <1>10, <1>11, <1>12, <1>13, <1>14, <1>15
------------------------------------------------------------------------------
(* The thread that is inside the driver *)

LEMMA InsideIsAlone ==
    ASSUME TypeOK, OneInside, NEW t \in Threads, pc[t] \in InDriver
    PROVE  OnHart(t)
BY DEF OnHart, TypeOK, OneInside, InDriver

\* It moves alone, while every other waits or is in user code.
LEMMA Moves ==
    ASSUME TypeOK, NEW t \in Threads, NEW l \in Outside \cup Reads \cup Writes,
           OnHart(t), Goto(t, l)
    PROVE  /\ pc' \in [Threads -> Outside \cup Reads \cup Writes]
           /\ pc'[t] = l
           /\ \A u \in Threads \ {t} :
                 pc'[u] = pc[u] /\ pc[u] \in Outside /\ pc[u] \notin InDriver
           /\ OneInside'
<1>1. /\ pc' \in [Threads -> Outside \cup Reads \cup Writes]
      /\ pc'[t] = l
      /\ \A u \in Threads \ {t} : pc'[u] = pc[u]
  BY DEF TypeOK, Goto
<1>2. \A u \in Threads \ {t} : pc[u] \in Outside /\ pc[u] \notin InDriver
  BY Labels DEF OnHart
<1>3. OneInside' BY <1>1, <1>2 DEF OneInside
<1> QED BY <1>1, <1>2, <1>3

\* A thread outside is not in the middle of anything.
MidwayOf(t) ==
    /\ pc[t] = "got" =>
          /\ Fill(rxbuf) # 0 /\ reg = Head(Contents(rxbuf))
          /\ Len(taken[t]) < want[t]
    /\ pc[t] = "put" =>
          /\ Fill(txbuf) < RBUFSZ /\ todo[t] # <<>>
          /\ txbuf.data[txbuf.tpos % RBUFSZ] = Head(todo[t])
    /\ pc[t] \in {"rstore", "wstore"} => reg \subseteq {DREIE, THREIE}
    /\ pc[t] = "rstore" /\ THREIE \notin reg => rbuf_empty(txbuf)
    /\ pc[t] = "wstore" /\ DREIE \notin reg => rbuf_full(rxbuf)

LEMMA MidwayAlone ==
    ASSUME NEW t \in Threads, MidwayOf(t)',
           \A u \in Threads \ {t} : pc'[u] \in Outside
    PROVE  Midway'
<1>1. \A l \in {"got", "put", "rstore", "wstore"} : l \notin Outside
  BY DEF Outside
<1>2. \A u \in Threads \ {t} : MidwayOf(u)' BY <1>1 DEF MidwayOf
<1> QED BY <1>2 DEF Midway, MidwayOf

\* Beginning a read, or going on with one after a wait.
LEMMA TryReadInv ==
    ASSUME IInv, NEW t \in Threads, OnHart(t), TryRead(t), open,
           pc[t] \in {"user", "rxready"}, pc[t] = "user" => taken[t] = <<>>,
           want' \in [Threads -> Sizes \cup {0}],
           Len(taken[t]) <= want'[t],
           \A u \in Threads \ {t} : want'[u] = want[u]
    PROVE  IInv'
<1> USE DEF IInv
<1> DEFINE l == IF rbuf_empty(rxbuf) THEN "rxwait" ELSE "drain"
<1>1. /\ Goto(t, l) /\ l \in {"rxwait", "drain"}
      /\ UNCHANGED <<open, ier, rbr, thr, rxbuf, txbuf, reg, taken, todo>>
  BY DEF TryRead, hwVars
<1>2. l = "rxwait" => rbuf_empty(rxbuf) OBVIOUS
<1> HIDE DEF l
<1>3. l \in Outside \cup Reads \cup Writes /\ l # "user" BY <1>1, Labels
<1>4. /\ pc' \in [Threads -> Outside \cup Reads \cup Writes]
      /\ pc'[t] = l
      /\ \A u \in Threads \ {t} :
            pc'[u] = pc[u] /\ pc[u] \in Outside /\ pc[u] \notin InDriver
      /\ OneInside'
  BY <1>1, <1>3, Moves
<1>5. TypeOK' BY <1>1, <1>4 DEF TypeOK
<1>6. CallsTyped' /\ CallsOpen' BY <1>1, <1>3, <1>4, Labels DEF CallsTyped, CallsOpen
<1>7. Midway'
  <2>1. MidwayOf(t)' BY <1>1, <1>4 DEF MidwayOf
  <2> QED BY <1>4, <2>1, MidwayAlone
<1>8. NoLostWakeup' BY <1>1, <1>2, <1>4 DEF NoLostWakeup
<1>9. pc[t] \notin InDriver BY Labels
<1>10. ReceiveEnabled'
  <2>1. ~\E u \in Threads : pc[u] \in Reads BY <1>4, <1>9 DEF InDriver
  <2> QED BY <1>1, <2>1 DEF ReceiveEnabled
<1>11. TransmitEnabled'
  <2>1. ~\E u \in Threads : pc[u] \in Writes BY <1>4, <1>9 DEF InDriver
  <2> QED BY <1>1, <2>1 DEF TransmitEnabled
<1> QED BY <1>4, <1>5, <1>6, <1>7, <1>8, <1>10, <1>11

LEMMA ReadInv ==
    ASSUME IInv, NEW t \in Threads, \/ \E n \in Sizes : Read(t, n)
                                    \/ ReadAgain(t)
    PROVE  IInv'
<1> USE DEF IInv
<1>1. TypeOK OBVIOUS
<1>2. ASSUME NEW n \in Sizes, Read(t, n) PROVE IInv'
  <2>1. /\ want' \in [Threads -> Sizes \cup {0}] /\ want'[t] = n
        /\ \A u \in Threads \ {t} : want'[u] = want[u]
    BY <1>2 DEF Read, TypeOK
  <2>2. /\ open /\ pc[t] = "user" /\ OnHart(t) /\ TryRead(t)
        /\ taken[t] = <<>>
    BY <1>2, Labels DEF Read, CallsOpen
  <2>3. Len(taken[t]) <= want'[t]
    BY <2>1, <2>2, UartAssumption
  <2> QED BY <2>1, <2>2, <2>3, TryReadInv
<1>3. ASSUME ReadAgain(t) PROVE IInv'
  <2>1. pc[t] = "rxready" /\ OnHart(t) /\ TryRead(t) /\ want' = want
    BY <1>3 DEF ReadAgain
  <2>2. open /\ Len(taken[t]) <= want[t] /\ want \in [Threads -> Sizes \cup {0}]
    BY <2>1 DEF CallsOpen, TypeOK
  <2>3. pc[t] # "user" /\ pc[t] \in {"user", "rxready"} BY <2>1
  <2> QED BY <2>1, <2>2, <2>3, TryReadInv
<1> QED BY <1>2, <1>3

LEMMA DrainInv ==
    ASSUME IInv, NEW t \in Threads, Drain(t) PROVE IInv'
<1> USE DEF IInv
<1> DEFINE more == ~rbuf_empty(rxbuf) /\ Len(taken[t]) < want[t]
           l == IF more THEN "got" ELSE "rload"
<1>1. /\ pc[t] = "drain" /\ Goto(t, l) /\ l \in {"got", "rload"}
      /\ more => reg' = Slot(rxbuf)
      /\ UNCHANGED <<open, ier, rbr, thr, rxbuf, txbuf, taken, want, todo>>
  BY DEF Drain, hwVars, callVars
<1>2. l = "got" => more OBVIOUS
<1> HIDE DEF l
<1>3. /\ l \in Outside \cup Reads \cup Writes /\ l # "user" /\ l \in Reads
      /\ OnHart(t)
  BY <1>1, Labels, InsideIsAlone DEF InDriver
<1>4. /\ pc' \in [Threads -> Outside \cup Reads \cup Writes]
      /\ pc'[t] = l
      /\ \A u \in Threads \ {t} :
            pc'[u] = pc[u] /\ pc[u] \in Outside /\ pc[u] \notin InDriver
      /\ OneInside'
  BY <1>1, <1>3, Moves
<1>5. TypeOK' BY <1>1, <1>4 DEF TypeOK
<1>6. CallsTyped' /\ CallsOpen' BY <1>1, <1>3, <1>4, Labels DEF CallsTyped, CallsOpen
<1>7. Midway'
  <2>1. ASSUME l = "got"
        PROVE  Fill(rxbuf) # 0 /\ reg' = Head(Contents(rxbuf))
    <3>1. RingOK(rxbuf) /\ Fill(rxbuf) # 0
      BY <1>2, <2>1, RingFacts DEF TypeOK
    <3> QED BY <1>1, <1>2, <2>1, <3>1, HeadMovedFacts
  <2>2. MidwayOf(t)' BY <1>1, <1>2, <1>4, <2>1 DEF MidwayOf
  <2> QED BY <1>4, <2>2, MidwayAlone
<1>8. NoLostWakeup' BY <1>1, <1>4 DEF NoLostWakeup
<1>9. ReceiveEnabled' BY <1>1, <1>3, <1>4 DEF ReceiveEnabled
<1>10. TransmitEnabled'
  <2>1. ~\E u \in Threads : pc[u] \in Writes BY <1>1, <1>4 DEF InDriver, Writes
  <2> QED BY <1>1, <2>1 DEF TransmitEnabled
<1> QED BY <1>4, <1>5, <1>6, <1>7, <1>8, <1>9, <1>10
LEMMA GotInv ==
    ASSUME IInv, NEW t \in Threads, Got(t) PROVE IInv'
<1> USE DEF IInv
<1>1. /\ pc[t] = "got" /\ Goto(t, "drain")
      /\ rxbuf' = HeadMoved(rxbuf)
      /\ taken' = [taken EXCEPT ![t] = Append(@, reg)]
      /\ UNCHANGED <<open, ier, rbr, thr, txbuf, want, todo>>
  BY DEF Got, hwVars
<1>2. /\ Fill(rxbuf) # 0 /\ reg = Head(Contents(rxbuf))
      /\ Len(taken[t]) < want[t] /\ RingOK(rxbuf)
  BY <1>1 DEF Midway, TypeOK
<1>3. /\ RingOK(rxbuf') /\ Fill(rxbuf') = Fill(rxbuf) - 1 /\ reg \in Bytes
      /\ ~rbuf_empty(rxbuf)
  BY <1>1, <1>2, HeadMovedFacts, RingFacts
<1>4. "drain" \in Outside \cup Reads \cup Writes /\ OnHart(t)
  BY <1>1, Labels, InsideIsAlone DEF InDriver
<1>5. /\ pc' \in [Threads -> Outside \cup Reads \cup Writes]
      /\ pc'[t] = "drain"
      /\ \A u \in Threads \ {t} :
            pc'[u] = pc[u] /\ pc[u] \in Outside /\ pc[u] \notin InDriver
      /\ OneInside'
  BY <1>1, <1>4, Moves
<1>6. /\ taken' \in [Threads -> Seq(Bytes)]
      /\ Len(taken'[t]) = Len(taken[t]) + 1
      /\ \A u \in Threads \ {t} : taken'[u] = taken[u]
  <2>1. taken \in [Threads -> Seq(Bytes)] /\ taken[t] \in Seq(Bytes)
    BY DEF CallsTyped
  <2>2. Append(taken[t], reg) \in Seq(Bytes)
        /\ Len(Append(taken[t], reg)) = Len(taken[t]) + 1
    BY <1>3, <2>1
  <2> QED BY <1>1, <2>1, <2>2
<1>7. TypeOK'
  <2>1. want[t] \in Nat
    <3>1. want[t] \in Sizes \cup {0} BY DEF TypeOK
    <3>2. Sizes \subseteq Nat /\ 0 \in Nat BY UartAssumption
    <3> QED BY <3>1, <3>2, Zenon
  <2>2. Len(taken[t]) \in Nat BY DEF CallsTyped
  <2>3. Len(taken'[t]) <= want[t] BY <1>2, <1>6, <2>1, <2>2
  <2>4. \A u \in Threads : Len(taken'[u]) <= want[u] BY <1>6, <2>3 DEF TypeOK
  <2> QED BY <1>1, <1>3, <1>5, <2>4 DEF TypeOK
<1>8. CallsTyped' BY <1>1, <1>6 DEF CallsTyped
<1>9. CallsOpen' BY <1>1, <1>5, <1>6, Labels DEF CallsOpen
<1>10. Midway'
  <2>1. MidwayOf(t)' BY <1>5 DEF MidwayOf
  <2> QED BY <1>5, <2>1, MidwayAlone
<1>11. NoLostWakeup' BY <1>1, <1>3, <1>5 DEF NoLostWakeup
<1>12. ReceiveEnabled' BY <1>5, Labels DEF ReceiveEnabled
<1>13. TransmitEnabled'
  <2>1. ~\E u \in Threads : pc[u] \in Writes BY <1>1, <1>5 DEF InDriver, Writes
  <2> QED BY <1>1, <2>1 DEF TransmitEnabled
<1> QED BY <1>5, <1>7, <1>8, <1>9, <1>10, <1>11, <1>12, <1>13

LEMMA ReadLoadInv ==
    ASSUME IInv, NEW t \in Threads, ReadLoad(t) PROVE IInv'
<1> USE DEF IInv
<1>1. /\ pc[t] = "rload" /\ Goto(t, "rstore") /\ reg' = ier
      /\ UNCHANGED <<open, ier, rbr, thr, rxbuf, txbuf, taken, want, todo>>
  BY DEF ReadLoad, hwVars, callVars
<1>2. "rstore" \in Outside \cup Reads \cup Writes /\ OnHart(t)
  BY <1>1, Labels, InsideIsAlone DEF InDriver
<1>3. /\ pc' \in [Threads -> Outside \cup Reads \cup Writes]
      /\ pc'[t] = "rstore"
      /\ \A u \in Threads \ {t} :
            pc'[u] = pc[u] /\ pc[u] \in Outside /\ pc[u] \notin InDriver
      /\ OneInside'
  BY <1>1, <1>2, Moves
<1>4. TypeOK' BY <1>1, <1>3 DEF TypeOK
<1>5. CallsTyped' /\ CallsOpen' BY <1>1, <1>3, Labels DEF CallsTyped, CallsOpen
<1>6. ~\E u \in Threads : pc[u] \in Writes BY <1>1, <1>3 DEF InDriver, Writes
<1>7. Midway'
  <2>1. open BY <1>1 DEF CallsOpen
  <2>2. THREIE \notin ier => rbuf_empty(txbuf) BY <1>6, <2>1 DEF TransmitEnabled
  <2>3. ier \subseteq {DREIE, THREIE} BY DEF TypeOK
  <2>4. MidwayOf(t)' BY <1>1, <1>3, <2>2, <2>3 DEF MidwayOf
  <2> QED BY <1>3, <2>4, MidwayAlone
<1>8. NoLostWakeup' BY <1>1, <1>3 DEF NoLostWakeup
<1>9. ReceiveEnabled' BY <1>3, Labels DEF ReceiveEnabled
<1>10. TransmitEnabled' BY <1>1, <1>6 DEF TransmitEnabled
<1> QED BY <1>3, <1>4, <1>5, <1>7, <1>8, <1>9, <1>10

LEMMA ReadStoreInv ==
    ASSUME IInv, NEW t \in Threads, ReadStore(t) PROVE IInv'
<1> USE DEF IInv
<1>1. /\ pc[t] = "rstore" /\ Goto(t, "user") /\ ier' = reg \cup {DREIE}
      /\ taken' = [taken EXCEPT ![t] = <<>>] /\ want' = [want EXCEPT ![t] = 0]
      /\ UNCHANGED <<open, rbr, thr, rxbuf, txbuf, todo>>
  BY DEF ReadStore, DreieSet
<1>2. "user" \in Outside \cup Reads \cup Writes /\ OnHart(t)
  BY <1>1, Labels, InsideIsAlone DEF InDriver
<1>3. /\ pc' \in [Threads -> Outside \cup Reads \cup Writes]
      /\ pc'[t] = "user"
      /\ \A u \in Threads \ {t} :
            pc'[u] = pc[u] /\ pc[u] \in Outside /\ pc[u] \notin InDriver
      /\ OneInside'
  BY <1>1, <1>2, Moves
<1>4. /\ reg \subseteq {DREIE, THREIE}
      /\ THREIE \notin reg => rbuf_empty(txbuf)
  BY <1>1 DEF Midway
<1>5. /\ taken' \in [Threads -> Seq(Bytes)] /\ taken'[t] = <<>>
      /\ want' \in [Threads -> Sizes \cup {0}] /\ want'[t] = 0
      /\ \A u \in Threads \ {t} : taken'[u] = taken[u] /\ want'[u] = want[u]
  BY <1>1 DEF CallsTyped, TypeOK
<1>6. TypeOK'
  <2>1. Len(taken'[t]) <= want'[t] BY <1>5
  <2>2. \A u \in Threads : Len(taken'[u]) <= want'[u] BY <1>5, <2>1 DEF TypeOK
  <2> QED BY <1>1, <1>3, <1>4, <1>5, <2>2 DEF TypeOK
<1>7. CallsTyped' BY <1>1, <1>5 DEF CallsTyped
<1>8. CallsOpen'
  <2>1. todo[t] = <<>> BY <1>1, Labels DEF CallsOpen
  <2> QED BY <1>1, <1>3, <1>5, <2>1, Labels DEF CallsOpen
<1>9. Midway'
  <2>1. MidwayOf(t)' BY <1>3 DEF MidwayOf
  <2> QED BY <1>3, <2>1, MidwayAlone
<1>10. NoLostWakeup' BY <1>1, <1>3 DEF NoLostWakeup
<1>11. ReceiveEnabled' BY <1>1 DEF ReceiveEnabled
<1>12. TransmitEnabled' BY <1>1, <1>4 DEF TransmitEnabled
<1> QED BY <1>3, <1>6, <1>7, <1>8, <1>9, <1>10, <1>11, <1>12
\* Beginning a write, or going on with one after a wait.
LEMMA TryWriteInv ==
    ASSUME IInv, NEW t \in Threads, OnHart(t), TryWrite(t), open,
           UNCHANGED reg,
           pc[t] \in {"user", "txready"}, taken[t] = <<>>,
           todo' \in [Threads -> Seq(Chars)],
           \A u \in Threads \ {t} : todo'[u] = todo[u]
    PROVE  IInv'
<1> USE DEF IInv
<1> DEFINE l == IF rbuf_full(txbuf) THEN "txwait" ELSE "fill"
<1>1. /\ Goto(t, l) /\ l \in {"txwait", "fill"}
      /\ UNCHANGED <<open, ier, rbr, thr, rxbuf, txbuf, reg, taken, want>>
  BY DEF TryWrite, hwVars
<1>2. l = "txwait" => rbuf_full(txbuf) OBVIOUS
<1> HIDE DEF l
<1>3. l \in Outside \cup Reads \cup Writes /\ l # "user" BY <1>1, Labels
<1>4. /\ pc' \in [Threads -> Outside \cup Reads \cup Writes]
      /\ pc'[t] = l
      /\ \A u \in Threads \ {t} :
            pc'[u] = pc[u] /\ pc[u] \in Outside /\ pc[u] \notin InDriver
      /\ OneInside'
  BY <1>1, <1>3, Moves
<1>5. TypeOK' BY <1>1, <1>4 DEF TypeOK
<1>6. CallsTyped' /\ CallsOpen' BY <1>1, <1>3, <1>4, Labels DEF CallsTyped, CallsOpen
<1>7. Midway'
  <2>1. MidwayOf(t)' BY <1>1, <1>4 DEF MidwayOf
  <2> QED BY <1>4, <2>1, MidwayAlone
<1>8. NoLostWakeup' BY <1>1, <1>2, <1>4 DEF NoLostWakeup
<1>9. pc[t] \notin InDriver BY Labels
<1>10. ReceiveEnabled'
  <2>1. ~\E u \in Threads : pc[u] \in Reads BY <1>4, <1>9 DEF InDriver
  <2> QED BY <1>1, <2>1 DEF ReceiveEnabled
<1>11. TransmitEnabled'
  <2>1. ~\E u \in Threads : pc[u] \in Writes BY <1>4, <1>9 DEF InDriver
  <2> QED BY <1>1, <2>1 DEF TransmitEnabled
<1> QED BY <1>4, <1>5, <1>6, <1>7, <1>8, <1>10, <1>11

LEMMA WriteInv ==
    ASSUME IInv, NEW t \in Threads, \/ \E s \in Messages : Write(t, s)
                                    \/ WriteAgain(t)
    PROVE  IInv'
<1> USE DEF IInv
<1>1. ASSUME NEW s \in Messages, Write(t, s) PROVE IInv'
  <2>1. s \in Seq(Chars) BY UartAssumption
  <2>2. /\ todo' \in [Threads -> Seq(Chars)]
        /\ \A u \in Threads \ {t} : todo'[u] = todo[u]
    BY <1>1, <2>1 DEF Write, CallsTyped
  <2>3. /\ open /\ pc[t] = "user" /\ OnHart(t) /\ TryWrite(t) /\ reg' = reg
        /\ taken[t] = <<>>
    BY <1>1, Labels DEF Write, CallsOpen
  <2> QED BY <2>2, <2>3, TryWriteInv
<1>2. ASSUME WriteAgain(t) PROVE IInv'
  <2>1. pc[t] = "txready" /\ OnHart(t) /\ TryWrite(t) /\ reg' = reg /\ todo' = todo
    BY <1>2 DEF WriteAgain
  <2>2. "txready" \in Writing /\ "txready" \notin Reading BY Labels
  <2>3. open /\ taken[t] = <<>> /\ todo \in [Threads -> Seq(Chars)]
    BY <2>1, <2>2 DEF CallsOpen, CallsTyped
  <2> QED BY <2>1, <2>3, TryWriteInv
<1> QED BY <1>1, <1>2

LEMMA FillSlotInv ==
    ASSUME IInv, NEW t \in Threads, FillSlot(t) PROVE IInv'
<1> USE DEF IInv
<1> DEFINE more == ~rbuf_full(txbuf) /\ todo[t] # <<>>
           l == IF more THEN "put" ELSE "wload"
<1>1. /\ pc[t] = "fill" /\ Goto(t, l) /\ l \in {"put", "wload"}
      /\ more => txbuf' = Store(txbuf, Head(todo[t]))
      /\ ~more => txbuf' = txbuf
      /\ UNCHANGED <<open, ier, rbr, thr, rxbuf, reg, taken, want, todo>>
  BY DEF FillSlot, hwVars, callVars
<1>2. l = "put" => more OBVIOUS
<1>3. RingOK(txbuf) /\ todo[t] \in Seq(Chars) BY DEF TypeOK, CallsTyped
<1>4. ASSUME more
      PROVE  /\ RingOK(txbuf') /\ Fill(txbuf') = Fill(txbuf) /\ Fill(txbuf) < RBUFSZ
             /\ txbuf'.data[txbuf'.tpos % RBUFSZ] = Head(todo[t])
  <2>1. Head(todo[t]) \in Bytes BY <1>3, <1>4 DEF Bytes
  <2>2. Fill(txbuf) < RBUFSZ BY <1>3, <1>4, RingFacts, Sizing
  <2> QED BY <1>1, <1>3, <1>4, <2>1, <2>2, StoreFacts
<1>5. /\ RingOK(txbuf') /\ Fill(txbuf') = Fill(txbuf)
      /\ rbuf_full(txbuf') <=> rbuf_full(txbuf)
  <2>1. RingOK(txbuf') /\ Fill(txbuf') = Fill(txbuf) BY <1>1, <1>3, <1>4
  <2> QED BY <1>3, <2>1, RingFacts
<1> HIDE DEF l
<1>6. /\ l \in Outside \cup Reads \cup Writes /\ l # "user" /\ l \in Writes
      /\ OnHart(t)
  BY <1>1, Labels, InsideIsAlone DEF InDriver
<1>7. /\ pc' \in [Threads -> Outside \cup Reads \cup Writes]
      /\ pc'[t] = l
      /\ \A u \in Threads \ {t} :
            pc'[u] = pc[u] /\ pc[u] \in Outside /\ pc[u] \notin InDriver
      /\ OneInside'
  BY <1>1, <1>6, Moves
<1>8. TypeOK' BY <1>1, <1>5, <1>7 DEF TypeOK
<1>9. CallsTyped' /\ CallsOpen' BY <1>1, <1>6, <1>7, Labels DEF CallsTyped, CallsOpen
<1>10. Midway'
  <2>1. MidwayOf(t)' BY <1>1, <1>2, <1>4, <1>5, <1>7 DEF MidwayOf
  <2> QED BY <1>7, <2>1, MidwayAlone
<1>11. NoLostWakeup' BY <1>1, <1>5, <1>7 DEF NoLostWakeup
<1>12. ReceiveEnabled'
  <2>1. ~\E u \in Threads : pc[u] \in Reads BY <1>1, <1>7 DEF InDriver, Reads
  <2> QED BY <1>1, <2>1 DEF ReceiveEnabled
<1>13. TransmitEnabled' BY <1>6, <1>7 DEF TransmitEnabled
<1> QED BY <1>7, <1>8, <1>9, <1>10, <1>11, <1>12, <1>13

LEMMA PutInv ==
    ASSUME IInv, NEW t \in Threads, Put(t) PROVE IInv'
<1> USE DEF IInv
<1>1. /\ pc[t] = "put" /\ Goto(t, "fill")
      /\ txbuf' = TailMoved(txbuf)
      /\ todo' = [todo EXCEPT ![t] = Tail(@)]
      /\ UNCHANGED <<open, ier, rbr, thr, rxbuf, reg, taken, want>>
  BY DEF Put, hwVars
<1>2. /\ Fill(txbuf) < RBUFSZ /\ todo[t] # <<>> /\ RingOK(txbuf)
  BY <1>1 DEF Midway, TypeOK
<1>3. RingOK(txbuf') /\ ~rbuf_full(txbuf)
  BY <1>1, <1>2, TailMovedFacts, RingFacts
<1>4. "fill" \in Outside \cup Reads \cup Writes /\ OnHart(t)
  BY <1>1, Labels, InsideIsAlone DEF InDriver
<1>5. /\ pc' \in [Threads -> Outside \cup Reads \cup Writes]
      /\ pc'[t] = "fill"
      /\ \A u \in Threads \ {t} :
            pc'[u] = pc[u] /\ pc[u] \in Outside /\ pc[u] \notin InDriver
      /\ OneInside'
  BY <1>1, <1>4, Moves
<1>6. todo' \in [Threads -> Seq(Chars)] /\ \A u \in Threads \ {t} : todo'[u] = todo[u]
  <2>1. todo \in [Threads -> Seq(Chars)] /\ Tail(todo[t]) \in Seq(Chars)
    BY <1>2 DEF CallsTyped
  <2> QED BY <1>1, <2>1
<1>7. TypeOK' BY <1>1, <1>3, <1>5, <1>6 DEF TypeOK
<1>8. CallsTyped' BY <1>1, <1>6 DEF CallsTyped
<1>9. CallsOpen' BY <1>1, <1>5, <1>6, Labels DEF CallsOpen
<1>10. Midway'
  <2>1. MidwayOf(t)' BY <1>5 DEF MidwayOf
  <2> QED BY <1>5, <2>1, MidwayAlone
<1>11. NoLostWakeup' BY <1>1, <1>3, <1>5 DEF NoLostWakeup
<1>12. ReceiveEnabled'
  <2>1. ~\E u \in Threads : pc[u] \in Reads BY <1>1, <1>5 DEF InDriver, Reads
  <2> QED BY <1>1, <2>1 DEF ReceiveEnabled
<1>13. TransmitEnabled' BY <1>5, Labels DEF TransmitEnabled
<1> QED BY <1>5, <1>7, <1>8, <1>9, <1>10, <1>11, <1>12, <1>13

LEMMA WriteLoadInv ==
    ASSUME IInv, NEW t \in Threads, WriteLoad(t) PROVE IInv'
<1> USE DEF IInv
<1>1. /\ pc[t] = "wload" /\ Goto(t, "wstore") /\ reg' = ier
      /\ UNCHANGED <<open, ier, rbr, thr, rxbuf, txbuf, taken, want, todo>>
  BY DEF WriteLoad, hwVars, callVars
<1>2. "wstore" \in Outside \cup Reads \cup Writes /\ OnHart(t)
  BY <1>1, Labels, InsideIsAlone DEF InDriver
<1>3. /\ pc' \in [Threads -> Outside \cup Reads \cup Writes]
      /\ pc'[t] = "wstore"
      /\ \A u \in Threads \ {t} :
            pc'[u] = pc[u] /\ pc[u] \in Outside /\ pc[u] \notin InDriver
      /\ OneInside'
  BY <1>1, <1>2, Moves
<1>4. TypeOK' BY <1>1, <1>3 DEF TypeOK
<1>5. CallsTyped' /\ CallsOpen' BY <1>1, <1>3, Labels DEF CallsTyped, CallsOpen
<1>6. ~\E u \in Threads : pc[u] \in Reads BY <1>1, <1>3 DEF InDriver, Reads
<1>7. Midway'
  <2>1. open BY <1>1 DEF CallsOpen
  <2>2. DREIE \notin ier => rbuf_full(rxbuf) BY <1>6, <2>1 DEF ReceiveEnabled
  <2>3. ier \subseteq {DREIE, THREIE} BY DEF TypeOK
  <2>4. MidwayOf(t)' BY <1>1, <1>3, <2>2, <2>3 DEF MidwayOf
  <2> QED BY <1>3, <2>4, MidwayAlone
<1>8. NoLostWakeup' BY <1>1, <1>3 DEF NoLostWakeup
<1>9. ReceiveEnabled' BY <1>1, <1>6 DEF ReceiveEnabled
<1>10. TransmitEnabled' BY <1>3, Labels DEF TransmitEnabled
<1> QED BY <1>3, <1>4, <1>5, <1>7, <1>8, <1>9, <1>10

LEMMA WriteStoreInv ==
    ASSUME IInv, NEW t \in Threads, WriteStore(t) PROVE IInv'
<1> USE DEF IInv
<1> DEFINE l == IF todo[t] = <<>> THEN "user"
                ELSE IF rbuf_full(txbuf) THEN "txwait" ELSE "fill"
<1>1. /\ pc[t] = "wstore" /\ Goto(t, l) /\ l \in {"user", "txwait", "fill"}
      /\ ier' = reg \cup {THREIE}
      /\ UNCHANGED <<open, rbr, thr, rxbuf, txbuf, taken, want, todo>>
  BY DEF WriteStore, ThreieSet, callVars
<1>2. (l = "txwait" => rbuf_full(txbuf)) /\ (l = "user" <=> todo[t] = <<>>)
  OBVIOUS
<1> HIDE DEF l
<1>3. l \in Outside \cup Reads \cup Writes /\ OnHart(t)
  BY <1>1, Labels, InsideIsAlone DEF InDriver
<1>4. /\ pc' \in [Threads -> Outside \cup Reads \cup Writes]
      /\ pc'[t] = l
      /\ \A u \in Threads \ {t} :
            pc'[u] = pc[u] /\ pc[u] \in Outside /\ pc[u] \notin InDriver
      /\ OneInside'
  BY <1>1, <1>3, Moves
<1>5. /\ reg \subseteq {DREIE, THREIE}
      /\ DREIE \notin reg => rbuf_full(rxbuf)
  BY <1>1 DEF Midway
<1>6. TypeOK' BY <1>1, <1>4, <1>5 DEF TypeOK
<1>7. CallsTyped' BY <1>1 DEF CallsTyped
<1>8. CallsOpen' BY <1>1, <1>2, <1>4, Labels DEF CallsOpen
<1>9. Midway'
  <2>1. MidwayOf(t)' BY <1>1, <1>4 DEF MidwayOf
  <2> QED BY <1>4, <2>1, MidwayAlone
<1>10. NoLostWakeup' BY <1>1, <1>2, <1>4 DEF NoLostWakeup
<1>11. ReceiveEnabled' BY <1>1, <1>5 DEF ReceiveEnabled
<1>12. TransmitEnabled' BY <1>1 DEF TransmitEnabled
<1> QED BY <1>4, <1>6, <1>7, <1>8, <1>9, <1>10, <1>11, <1>12

------------------------------------------------------------------------------

LEMMA InvNext == IInv /\ [Next]_vars => IInv'
<1> SUFFICES ASSUME IInv, [Next]_vars PROVE IInv' OBVIOUS
<1>1. ASSUME NEW t \in Threads, Step(t) PROVE IInv'
  BY <1>1, ReadInv, DrainInv, GotInv, ReadLoadInv, ReadStoreInv, WriteInv,
     FillSlotInv, PutInv, WriteLoadInv, WriteStoreInv DEF Step
<1>2. CASE UNCHANGED vars
  BY <1>2 DEF vars, hwVars, callVars, IInv, TypeOK, CallsTyped, CallsOpen,
     OneInside, Midway, NoLostWakeup, ReceiveEnabled, TransmitEnabled
<1> QED
  BY <1>1, <1>2, OpenInv, CloseInv, LineInv, IsrInv, ReadInv, WriteInv DEF Next

LEMMA Invariant == Spec => []IInv
BY InvInit, InvNext, PTL DEF Spec

\* uart_isr never leaves a thread asleep that it should have woken, and never
\* leaves bytes, or room for them, with the interrupt off that would serve them,
\* although it runs between any two accesses of uart_read and uart_write.
THEOREM NothingIsForgotten == Spec => []NothingForgotten
<1>1. IInv => NothingForgotten BY DEF IInv, NothingForgotten
<1> QED BY <1>1, Invariant, PTL
------------------------------------------------------------------------------
(* The two queues *)

portVars == <<open, rbr, thr, Contents(rxbuf), Contents(txbuf), taken, todo>>

LEMMA EmptyContents ==
    ASSUME NEW rb, RingOK(rb), rbuf_empty(rb) PROVE Contents(rb) = <<>>
<1>1. Contents(rb) \in Seq(Bytes) /\ Len(Contents(rb)) = 0 BY RingFacts
<1> QED BY <1>1

LEMMA PortsInit == Init => Ports!Init
<1> SUFFICES ASSUME Init PROVE Ports!Init OBVIOUS
<1>1. IInv BY InvInit
<1>2. rbuf_empty(rxbuf) /\ rbuf_empty(txbuf) BY DEF Init, EmptyRing, rbuf_empty
<1>3. Contents(rxbuf) = <<>> /\ Contents(txbuf) = <<>>
  BY <1>1, <1>2, EmptyContents DEF IInv, TypeOK
<1> QED BY <1>3 DEF Init, Ports!Init

\* The steps that the queues do not notice.
LEMMA PortsStutter ==
    ASSUME NEW t \in Threads,
           \/ \E n \in Sizes : Read(t, n)
           \/ ReadAgain(t) \/ Drain(t) \/ ReadLoad(t)
           \/ WriteAgain(t) \/ WriteLoad(t) \/ WriteStore(t)
    PROVE  UNCHANGED portVars
BY DEF Read, ReadAgain, TryRead, Drain, ReadLoad, WriteAgain, TryWrite,
   WriteLoad, WriteStore, hwVars, callVars, portVars

LEMMA PortsOpenClose ==
    ASSUME IInv
    PROVE  (Open => Ports!Open) /\ (Close => Ports!Close)
<1> USE DEF IInv
<1>1. ASSUME Open PROVE Ports!Open
  <2>1. /\ RingOK(rxbuf') /\ RingOK(txbuf')
        /\ rbuf_empty(rxbuf') /\ rbuf_empty(txbuf')
    <3>1. IInv' BY <1>1, OpenInv
    <3>2. RingOK(rxbuf') /\ RingOK(txbuf') BY <3>1 DEF TypeOK
    <3> QED BY <1>1, <3>2 DEF Open, rbuf_init, rbuf_empty
  <2>2. Contents(rxbuf') = <<>> /\ Contents(txbuf') = <<>>
    BY <2>1, EmptyContents
  <2> QED BY <1>1, <2>2 DEF Open, Ports!Open, callVars
<1>2. ASSUME Close PROVE Ports!Close
  <2>1. \A t \in Threads : taken[t] = <<>> /\ todo[t] = <<>>
    BY <1>2, Labels DEF Close, CallsOpen
  <2> QED BY <1>2, <2>1 DEF Close, Ports!Close, callVars
<1> QED BY <1>1, <1>2

LEMMA PortsServe ==
    ASSUME IInv, Isr PROVE Ports!Serve \/ UNCHANGED portVars
<1> USE DEF IInv
<1>1. /\ Accepted \/ UNCHANGED <<rxbuf, rbr>>
      /\ Sent \/ UNCHANGED <<txbuf, thr>>
  BY IsrFacts
<1>2. open /\ UNCHANGED <<open, taken, todo>> BY DEF Isr, callVars
<1>3. Len(Contents(rxbuf)) = Fill(rxbuf) BY RingFacts DEF TypeOK
<1>4. Accepted => Ports!Accepts BY <1>3 DEF Accepted, Ports!Accepts
<1>5. Sent => Ports!Sends BY DEF Sent, Ports!Sends
<1>6. UNCHANGED <<rxbuf, rbr>> => UNCHANGED <<rbr, Contents(rxbuf)>> OBVIOUS
<1>7. UNCHANGED <<txbuf, thr>> => UNCHANGED <<thr, Contents(txbuf)>> OBVIOUS
<1> QED
  BY <1>1, <1>2, <1>4, <1>5, <1>6, <1>7 DEF Ports!Serve, portVars

LEMMA PortsTake ==
    ASSUME IInv, NEW t \in Threads, Got(t) PROVE Ports!Take(t)
<1> USE DEF IInv
<1>1. /\ pc[t] = "got" /\ rxbuf' = HeadMoved(rxbuf)
      /\ taken' = [taken EXCEPT ![t] = Append(@, reg)]
      /\ UNCHANGED <<open, rbr, thr, txbuf, todo>>
  BY DEF Got, hwVars
<1>2. open /\ Fill(rxbuf) # 0 /\ reg = Head(Contents(rxbuf)) /\ RingOK(rxbuf)
  BY <1>1, Labels DEF CallsOpen, Midway, TypeOK
<1>3. Contents(rxbuf) # <<>> /\ Contents(rxbuf') = Tail(Contents(rxbuf))
  BY <1>1, <1>2, HeadMovedFacts
<1> QED BY <1>1, <1>2, <1>3 DEF Ports!Take

LEMMA PortsReturn ==
    ASSUME IInv, NEW t \in Threads, ReadStore(t)
    PROVE  Ports!ReturnRead(t) \/ UNCHANGED portVars
<1> USE DEF IInv
<1>1. /\ taken' = [taken EXCEPT ![t] = <<>>]
      /\ UNCHANGED <<open, rbr, thr, rxbuf, txbuf, todo>>
  BY DEF ReadStore
<1>2. CASE taken[t] = <<>>
  <2>1. taken' = taken BY <1>1, <1>2 DEF CallsTyped
  <2> QED BY <1>1, <2>1 DEF portVars
<1>3. CASE taken[t] # <<>> BY <1>1, <1>3 DEF Ports!ReturnRead
<1> QED BY <1>2, <1>3

LEMMA PortsPut ==
    ASSUME IInv, NEW t \in Threads
    PROVE  /\ \A s \in Messages : Write(t, s) => Ports!BeginWrite(t, s)
           /\ FillSlot(t) => UNCHANGED portVars
           /\ Put(t) => Ports!Put(t)
<1> USE DEF IInv
<1>1. ASSUME NEW s \in Messages, Write(t, s) PROVE Ports!BeginWrite(t, s)
  <2>1. open /\ todo[t] = <<>> BY <1>1, Labels DEF Write, CallsOpen
  <2> QED BY <1>1, <2>1 DEF Write, TryWrite, hwVars, Ports!BeginWrite
<1>2. ASSUME FillSlot(t) PROVE UNCHANGED portVars
  <2> DEFINE more == ~rbuf_full(txbuf) /\ todo[t] # <<>>
  <2>1. /\ more => txbuf' = Store(txbuf, Head(todo[t]))
        /\ ~more => txbuf' = txbuf
        /\ UNCHANGED <<open, rbr, thr, rxbuf, taken, todo>>
    BY <1>2 DEF FillSlot, hwVars, callVars
  <2>2. RingOK(txbuf) /\ todo[t] \in Seq(Chars) BY DEF TypeOK, CallsTyped
  <2>3. ASSUME more PROVE Contents(txbuf') = Contents(txbuf)
    <3>1. Head(todo[t]) \in Bytes BY <2>2, <2>3 DEF Bytes
    <3>2. Fill(txbuf) < RBUFSZ BY <2>2, <2>3, RingFacts, Sizing
    <3> QED BY <2>1, <2>2, <2>3, <3>1, <3>2, StoreFacts
  <2>4. Contents(txbuf') = Contents(txbuf) BY <2>1, <2>3
  <2> QED BY <2>1, <2>4 DEF portVars
<1>3. ASSUME Put(t) PROVE Ports!Put(t)
  <2>1. /\ pc[t] = "put" /\ txbuf' = TailMoved(txbuf)
        /\ todo' = [todo EXCEPT ![t] = Tail(@)]
        /\ UNCHANGED <<open, rbr, thr, rxbuf, taken>>
    BY <1>3 DEF Put, hwVars
  <2>2. /\ open /\ Fill(txbuf) < RBUFSZ /\ todo[t] # <<>> /\ RingOK(txbuf)
        /\ txbuf.data[txbuf.tpos % RBUFSZ] = Head(todo[t])
    BY <2>1, Labels DEF CallsOpen, Midway, TypeOK
  <2>3. /\ Contents(txbuf')
             = Append(Contents(txbuf), txbuf.data[txbuf.tpos % RBUFSZ])
        /\ Len(Contents(txbuf)) = Fill(txbuf)
    BY <2>1, <2>2, TailMovedFacts, RingFacts
  <2> QED BY <2>1, <2>2, <2>3 DEF Ports!Put
<1> QED BY <1>1, <1>2, <1>3

LEMMA PortsNext == IInv /\ [Next]_vars => [Ports!Next]_portVars
<1> SUFFICES ASSUME IInv, [Next]_vars PROVE Ports!Next \/ UNCHANGED portVars
  OBVIOUS
<1>1. ASSUME NEW t \in Threads, Step(t) PROVE Ports!Next \/ UNCHANGED portVars
  BY <1>1, PortsStutter, PortsTake, PortsReturn, PortsPut DEF Step, Ports!Next
<1>2. ASSUME NEW t \in Threads, NEW n \in Sizes, Read(t, n)
      PROVE  UNCHANGED portVars
  BY <1>2, PortsStutter
<1>3. ASSUME NEW t \in Threads, NEW s \in Messages, Write(t, s) PROVE Ports!Next
  BY <1>3, PortsPut DEF Ports!Next
<1>4. Transmit => Ports!Next
  BY DEF Transmit, Ports!Transmit, Ports!Next, callVars
<1>5. ASSUME NEW c \in Arrivals, Arrive(c) PROVE Ports!Next
  BY <1>5, UartAssumption DEF Arrive, Ports!Arrive, Ports!Next, callVars
<1>6. CASE UNCHANGED vars BY <1>6 DEF vars, hwVars, callVars, portVars
<1>7. (Open => Ports!Next) /\ (Close => Ports!Next)
      /\ (Isr => Ports!Next \/ UNCHANGED portVars)
  BY PortsOpenClose, PortsServe DEF Ports!Next
<1> QED BY <1>1, <1>2, <1>3, <1>4, <1>5, <1>6, <1>7 DEF Next

\* The driver is two bounded queues of bytes, for rings of any size whose
\* positions wrap at a multiple of it: no byte is lost, repeated or reordered.
THEOREM ImplementsQueues == Spec => Queues
<1>1. Ports!vars = portVars /\ Ports!vars' = portVars'
  BY DEF Ports!vars, portVars
<1>2. IInv /\ [Next]_vars => [Ports!Next]_(Ports!vars)
  BY <1>1, PortsNext
<1> QED BY <1>2, PortsInit, Invariant, PTL DEF Spec, Queues, Ports!Spec

------------------------------------------------------------------------------
(* The terminal object: folds *)

\* Induction: a set of numbers with 0 and the successor of each of its members
\* has them all.
LEMMA Induction ==
    ASSUME NEW P, 0 \in P, \A k \in Nat : k \in P => k + 1 \in P
    PROVE  Nat \subseteq P
<1> DEFINE R == OpToRel(<, Nat)
           Bad == Nat \ P
<1>1. \A x, y \in Nat : x < y => <<x, y>> \in R BY DEF OpToRel
<1>2. IsWellFoundedOn(R, Nat) BY NatLessThanWellFounded
<1> HIDE DEF R
<1> SUFFICES ASSUME Bad # {} PROVE FALSE OBVIOUS
<1>3. Bad \subseteq Nat OBVIOUS
<1> HIDE DEF Bad
<1>4. PICK k \in Bad : \A j \in Bad : <<j, k>> \notin R BY <1>2, <1>3, WFMin
<1> USE DEF Bad
<1>5. k \in Nat \ {0} BY <1>4
<1>6. k - 1 \in Nat /\ k - 1 < k /\ k - 1 + 1 = k BY <1>5
<1>7. k - 1 \in Bad BY <1>4, <1>6
<1> QED BY <1>1, <1>4, <1>5, <1>6, <1>7

\* The greatest element of a set of indices.
LEMMA MaxIndex ==
    ASSUME NEW len \in Nat, NEW s \in SUBSET (1 .. len), s # {}
    PROVE  Max(s) \in s /\ \A x \in s : x <= Max(s)
<1> DEFINE P == {k \in Nat : \A t \in SUBSET (1 .. k) :
                   t # {} => \E x \in t : \A y \in t : x >= y}
<1>1. 0 \in P
  <2>1. \A t \in SUBSET (1 .. 0) : t = {} OBVIOUS
  <2> QED BY <2>1
<1>2. ASSUME NEW k \in Nat, k \in P PROVE k + 1 \in P
  <2> SUFFICES ASSUME NEW t \in SUBSET (1 .. k + 1), t # {}
               PROVE  \E x \in t : \A y \in t : x >= y
    OBVIOUS
  <2>1. CASE k + 1 \in t BY <2>1
  <2>2. CASE k + 1 \notin t
    <3>1. t \in SUBSET (1 .. k) BY <2>2
    <3> QED BY <1>2, <3>1
  <2> QED BY <2>1, <2>2
<1> HIDE DEF P
<1>3. Nat \subseteq P BY <1>1, <1>2, Induction
<1>4. \E x \in s : \A y \in s : x >= y BY <1>3 DEF P
<1> QED BY <1>4 DEF Max

LEMMA MaxOfPrefix ==
    ASSUME NEW k \in Nat \ {0}
    PROVE  Max(1 .. k) = k /\ (1 .. k) \ {k} = 1 .. k - 1
<1>1. Max(1 .. k) \in 1 .. k /\ k <= Max(1 .. k) BY MaxIndex, 1 .. k \in SUBSET (1 .. k), k \in 1 .. k
<1> QED BY <1>1

\* The steps of a fold on a set St, and its values before and after each step.
Steps(len, St) == [1 .. len -> [St -> St]]
Values(g, b, len, step, St, r) ==
    /\ g \in [0 .. len -> St] /\ g[0] = b /\ g[len] = r
    /\ \A k \in 1 .. len : g[k] = step[k][g[k - 1]]
Solves(f, b, len, step, St) ==
    /\ f \in [SUBSET (1 .. len) -> St]
    /\ \A s \in SUBSET (1 .. len) :
          f[s] = IF s = {} THEN b ELSE step[Max(s)][f[s \ {Max(s)}]]
\* Of a solution it only the steps from a value in St are known.
StepsSolve(it, b, len, step, St) ==
    /\ it[{}] = b
    /\ \A s \in SUBSET (1 .. len) :
          s # {} /\ it[s \ {Max(s)}] \in St => it[s] = step[Max(s)][it[s \ {Max(s)}]]

\* The equation of a fold has a solution, whatever the step on a set St.
LEMMA FoldExists ==
    ASSUME NEW St, NEW b \in St, NEW len \in Nat, NEW step \in Steps(len, St)
    PROVE  \E f : Solves(f, b, len, step, St)
<1> USE DEF Steps
<1> DEFINE Fits(k, f) == \A s \in SUBSET (1 .. k) :
                 f[s] = IF s = {} THEN b ELSE step[Max(s)][f[s \ {Max(s)}]]
           Solved(k) == k <= len => \E f \in [SUBSET (1 .. k) -> St] : Fits(k, f)
           P == {k \in Nat : Solved(k)}
<1>1. Solved(0)
  <2> DEFINE f == [s \in SUBSET (1 .. 0) |-> b]
  <2>1. \A s \in SUBSET (1 .. 0) : s = {} OBVIOUS
  <2>2. f \in [SUBSET (1 .. 0) -> St] OBVIOUS
  <2>3. Fits(0, f) BY <2>1
  <2> QED BY <2>2, <2>3
<1>2. ASSUME NEW k \in Nat, Solved(k) PROVE Solved(k + 1)
  <2> SUFFICES ASSUME k + 1 <= len
               PROVE  \E f \in [SUBSET (1 .. k + 1) -> St] : Fits(k + 1, f)
    OBVIOUS
  <2>0. k <= len OBVIOUS
  <2>1. PICK f \in [SUBSET (1 .. k) -> St] : Fits(k, f) BY <1>2, <2>0
  <2> DEFINE g == [s \in SUBSET (1 .. k + 1) |->
                     IF k + 1 \in s THEN step[k + 1][f[s \ {k + 1}]] ELSE f[s]]
  <2>2. \A s \in SUBSET (1 .. k + 1) : s \ {k + 1} \in SUBSET (1 .. k)
    <3>1. \A x \in 1 .. k + 1 : x # k + 1 => x \in 1 .. k OBVIOUS
    <3> QED BY <3>1
  <2>3. \A s \in SUBSET (1 .. k + 1) : k + 1 \notin s => s \in SUBSET (1 .. k) BY <2>2
  <2>4. k + 1 \in 1 .. len OBVIOUS
  <2>5. g \in [SUBSET (1 .. k + 1) -> St] BY <2>2, <2>3, <2>4
  <2>6. ASSUME NEW s \in SUBSET (1 .. k + 1)
        PROVE  g[s] = IF s = {} THEN b ELSE step[Max(s)][g[s \ {Max(s)}]]
    <3>1. CASE k + 1 \in s
      <4>1. Max(s) = k + 1 
        <5>1. Max(s) \in s /\ k + 1 <= Max(s) BY <3>1, MaxIndex, k + 1 \in Nat
        <5>2. Max(s) \in 1 .. k + 1 BY <5>1
        <5> QED BY ONLY <5>1, <5>2, k \in Nat
      <4>2. g[s \ {k + 1}] = f[s \ {k + 1}] BY <2>2
      <4> QED BY <3>1, <4>1, <4>2
    <3>2. CASE k + 1 \notin s
      <4>1. s \in SUBSET (1 .. k) /\ g[s] = f[s] BY <2>3, <3>2
      <4>2. s # {} => Max(s) \in s BY <4>1, MaxIndex
      <4>3. s # {} => g[s \ {Max(s)}] = f[s \ {Max(s)}] BY <3>2, <4>1
      <4> QED BY <2>1, <4>1, <4>2, <4>3
    <3> QED BY <3>1, <3>2
  <2> HIDE DEF g
  <2>7. Fits(k + 1, g) BY <2>6
  <2> QED BY <2>5, <2>7
<1> HIDE DEF Solved
<1>3. 0 \in P /\ \A k \in Nat : k \in P => k + 1 \in P BY <1>1, <1>2
<1> HIDE DEF P
<1>4. len \in P BY <1>3, Induction
<1>5. Solved(len) BY <1>4 DEF P
<1>6. len <= len OBVIOUS
<1> QED BY <1>5, <1>6 DEF Solved, Solves

\* And from what is known of a solution follow the values at each index.
LEMMA FoldSteps ==
    ASSUME NEW St, NEW b \in St, NEW len \in Nat, NEW step \in Steps(len, St),
           NEW it, StepsSolve(it, b, len, step, St)
    PROVE  \E g : Values(g, b, len, step, St, it[1 .. len])
<1> USE DEF Steps, StepsSolve
<1> DEFINE g == [k \in 0 .. len |-> it[1 .. k]]
<1>1. g[0] = b
  <2>1. 1 .. 0 = {} OBVIOUS
  <2>2. g[0] = it[1 .. 0] OBVIOUS
  <2> QED BY <2>1, <2>2
<1>2. ASSUME NEW k \in 1 .. len, g[k - 1] \in St PROVE g[k] = step[k][g[k - 1]]
  <2>1. 1 .. k \in SUBSET (1 .. len) OBVIOUS
  <2>2. 1 .. k # {}
    <3>1. k \in 1 .. k OBVIOUS
    <3> QED BY ONLY <3>1
  <2>3. Max(1 .. k) = k /\ (1 .. k) \ {k} = 1 .. k - 1 BY MaxOfPrefix
  <2>4. g[k - 1] = it[1 .. k - 1] /\ g[k] = it[1 .. k] OBVIOUS
  <2> HIDE DEF g
  <2> QED BY <1>2, <2>1, <2>2, <2>3, <2>4
<1>3. g[len] = it[1 .. len] OBVIOUS
<1>4. g = [k \in 0 .. len |-> g[k]] OBVIOUS
<1> HIDE DEF g
<1>5. \A k \in 0 .. len : g[k] \in St
  <2> DEFINE P == {k \in Nat : k <= len => g[k] \in St}
  <2>1. 0 \in P BY <1>1
  <2>2. ASSUME NEW k \in Nat, k \in P PROVE k + 1 \in P
    <3> SUFFICES ASSUME k + 1 <= len PROVE g[k + 1] \in St OBVIOUS
    <3>1. k + 1 \in 1 .. len /\ k + 1 - 1 = k OBVIOUS
    <3>2. g[k] \in St BY <2>2
    <3>3. g[k + 1] = step[k + 1][g[k]] BY <1>2, <3>1, <3>2
    <3> QED BY <3>1, <3>2, <3>3
  <2> HIDE DEF P
  <2>3. Nat \subseteq P BY <2>1, <2>2, Induction
  <2> QED BY <2>3 DEF P
<1>6. g \in [0 .. len -> St] BY <1>4, <1>5
<1>7. \A k \in 1 .. len : g[k] = step[k][g[k - 1]]
  <2> TAKE k \in 1 .. len
  <2>1. k - 1 \in 0 .. len OBVIOUS
  <2> QED BY <1>2, <1>5, <2>1
<1> QED BY <1>1, <1>3, <1>6, <1>7 DEF Values------------------------------------------------------------------------------
(* What a read makes of the characters *)

ScanStates == [out : Seq(Keys), cr : BOOLEAN]

LEMMA ScannedTyped ==
    ASSUME TermConstants, NEW st \in ScanStates, NEW ch \in Keys
    PROVE  Scanned(st, ch) \in ScanStates
<1>1. LF \in Keys BY DEF Keys
<1>2. st.out \in Seq(Keys) /\ st = [out |-> st.out, cr |-> st.cr] BY DEF ScanStates
<1>3. CASE st.cr /\ ch = LF
  <2>1. Scanned(st, ch) = [out |-> st.out, cr |-> FALSE] BY <1>2, <1>3 DEF Scanned
  <2> QED BY <1>2, <2>1 DEF ScanStates
<1>4. CASE ~(st.cr /\ ch = LF)
  <2> DEFINE c == IF ch = CR THEN LF ELSE ch
  <2>1. Append(st.out, c) \in Seq(Keys) BY <1>1, <1>2
  <2>2. Scanned(st, ch) = [out |-> Append(st.out, c), cr |-> ch = CR] BY <1>4 DEF Scanned
  <2>3. (ch = CR) \in BOOLEAN OBVIOUS
  <2> HIDE DEF c
  <2> QED BY <2>1, <2>2, <2>3 DEF ScanStates
<1> QED BY <1>3, <1>4

ScanRun(g, s) ==
    /\ g \in [0 .. Len(s) -> ScanStates] /\ g[0] = [out |-> <<>>, cr |-> cr_in]
    /\ \A k \in 1 .. Len(s) : g[k] = Scanned(g[k - 1], s[k])

LEMMA ScanFold ==
    ASSUME TermConstants, cr_in \in BOOLEAN, NEW s \in Seq(Keys)
    PROVE  \E g : ScanRun(g, s) /\ g[Len(s)] = Scan(s)
<1> DEFINE len == Len(s)
           b == [out |-> <<>>, cr |-> cr_in]
           Op(x, ch) == Scanned(x, ch)
           r == FoldLeft(LAMBDA x, ch : Op(x, ch), b, s)
           step == [k \in 1 .. len |-> [x \in ScanStates |-> Op(x, s[k])]]
           Eq(it) == it = [t \in SUBSET (1 .. len) |->
              IF t = {} THEN b ELSE Op(it[t \ {Max(t)}], s[Max(t)])]
<1>0. b \in ScanStates /\ len \in Nat BY DEF ScanStates
<1>1. step \in Steps(len, ScanStates) BY ScannedTyped DEF Steps
<1> HIDE DEF Op, b
<1>2. PICK f : Solves(f, b, len, step, ScanStates)
  <2> HIDE DEF step, len
  <2> QED BY ONLY <1>0, <1>1, FoldExists
<1>3. ASSUME NEW t \in SUBSET (1 .. len), t # {}
      PROVE  Max(t) \in 1 .. len /\ \A x \in ScanStates : step[Max(t)][x] = Op(x, s[Max(t)])
  <2>1. Max(t) \in 1 .. len BY <1>0, <1>3, MaxIndex
  <2> QED BY <2>1
<1>4. Eq(f) BY <1>2, <1>3 DEF Solves
<1>5. Eq(CHOOSE it : Eq(it)) BY <1>4
<1>6. PICK it : Eq(it) /\ r = it[1 .. len]
  <2>1. DOMAIN s = 1 .. len OBVIOUS
  <2>2. r = (CHOOSE it : Eq(it))[1 .. len] BY <2>1 DEF FoldLeft, MapThenFoldSet, Max, Max
  <2> QED BY <1>5, <2>2
<1>7. StepsSolve(it, b, len, step, ScanStates) BY <1>3, <1>6 DEF StepsSolve
<1>8. PICK g : Values(g, b, len, step, ScanStates, it[1 .. len])
  <2> HIDE DEF step, len
  <2> QED BY ONLY <1>0, <1>1, <1>7, FoldSteps
<1>9. g \in [0 .. len -> ScanStates] /\ g[0] = b /\ g[len] = r BY <1>6, <1>8 DEF Values
<1>10. \A k \in 1 .. len : g[k] = Op(g[k - 1], s[k])
  <2> TAKE k \in 1 .. len
  <2>0. k - 1 \in 0 .. len OBVIOUS
  <2>1. g[k - 1] \in ScanStates BY <1>9, <2>0
  <2>2. g[k] = step[k][g[k - 1]] BY <1>8 DEF Values
  <2> QED BY <2>1, <2>2
<1>11. r = Scan(s) BY DEF Scan, Op, b, FoldLeft, MapThenFoldSet
<1> QED BY <1>9, <1>10, <1>11 DEF Op, ScanRun, b

------------------------------------------------------------------------------
(* Pieces put together *)

Joined(f, q, i) == IF i = 1 THEN q[i] ELSE f[i - 1] \o q[i]
FlatRun(f, q) == \A i \in 1 .. Len(q) : f[i] = Joined(f, q, i)

LEMMA FlatExists ==
    ASSUME NEW X, NEW q \in Seq(Seq(X))
    PROVE  \E f \in [1 .. Len(q) -> Seq(X)] : FlatRun(f, q)
<1> DEFINE Fits(k, f) == \A i \in 1 .. k : f[i] = Joined(f, q, i)
           Solved(k) == k <= Len(q) => \E f \in [1 .. k -> Seq(X)] : Fits(k, f)
           P == {k \in Nat : Solved(k)}
<1>1. Solved(0)
  <2> DEFINE f == [i \in 1 .. 0 |-> <<>>]
  <2>1. f \in [1 .. 0 -> Seq(X)] /\ Fits(0, f) OBVIOUS
  <2> QED BY <2>1
<1>2. ASSUME NEW k \in Nat, Solved(k) PROVE Solved(k + 1)
  <2> SUFFICES ASSUME k + 1 <= Len(q)
               PROVE  \E f \in [1 .. k + 1 -> Seq(X)] : Fits(k + 1, f)
    OBVIOUS
  <2>0. k <= Len(q) OBVIOUS
  <2>1. PICK f \in [1 .. k -> Seq(X)] : Fits(k, f) BY <1>2, <2>0
  <2> DEFINE last == IF k = 0 THEN q[k + 1] ELSE f[k] \o q[k + 1]
             g == [i \in 1 .. k + 1 |-> IF i = k + 1 THEN last ELSE f[i]]
  <2>2. last \in Seq(X)
    <3>1. q[k + 1] \in Seq(X) BY k + 1 \in 1 .. Len(q)
    <3>2. k # 0 => f[k] \in Seq(X) OBVIOUS
    <3> QED BY <3>1, <3>2
  <2> HIDE DEF last
  <2>3. g \in [1 .. k + 1 -> Seq(X)] BY <2>2
  <2>4. ASSUME NEW i \in 1 .. k + 1
        PROVE  g[i] = Joined(g, q, i)
    <3>1. CASE i = k + 1
      <4>1. g[i] = last BY <3>1
      <4>2. k # 0 => g[i - 1] = f[k] BY <3>1
      <4> QED BY <3>1, <4>1, <4>2 DEF last, Joined
    <3>2. CASE i # k + 1
      <4>1. i \in 1 .. k BY <3>2
      <4>2. g[i] = f[i] BY <4>1
      <4>3. i # 1 => g[i - 1] = f[i - 1] BY <4>1
      <4>4. f[i] = Joined(f, q, i) BY <2>1, <4>1
      <4>5. Joined(f, q, i) = Joined(g, q, i) BY <4>3 DEF Joined
      <4> QED BY <4>2, <4>4, <4>5
    <3> QED BY <3>1, <3>2
  <2> HIDE DEF g
  <2> QED BY <2>3, <2>4
<1> HIDE DEF Solved
<1>3. 0 \in P /\ \A k \in Nat : k \in P => k + 1 \in P BY <1>1, <1>2
<1> HIDE DEF P
<1>4. Len(q) \in P BY <1>3, Induction
<1>5. Solved(Len(q)) BY <1>4 DEF P
<1>6. Len(q) <= Len(q) OBVIOUS
<1> QED BY <1>5, <1>6 DEF Solved, FlatRun

LEMMA FlatIs ==
    ASSUME NEW X, NEW q \in Seq(Seq(X)), Len(q) # 0
    PROVE  \E f \in [1 .. Len(q) -> Seq(X)] : FlatRun(f, q) /\ FlattenSeq(q) = f[Len(q)]
<1> DEFINE Eq(f) == f = [i \in 1 .. Len(q) |-> Joined(f, q, i)]
           h == CHOOSE f : Eq(f)
<1>1. PICK f \in [1 .. Len(q) -> Seq(X)] : FlatRun(f, q) BY FlatExists
<1>2. Eq(f) BY <1>1 DEF FlatRun
<1>3. Eq(h) BY <1>2
<1>4. FlattenSeq(q) = h[Len(q)] BY DEF FlattenSeq, Joined
<1> HIDE DEF h
<1>5. h = f
  <2> DEFINE P == {k \in Nat : k \in 1 .. Len(q) => h[k] = f[k]}
  <2>1. 0 \in P OBVIOUS
  <2>2. ASSUME NEW k \in Nat, k \in P PROVE k + 1 \in P
    <3> SUFFICES ASSUME k + 1 \in 1 .. Len(q) PROVE h[k + 1] = f[k + 1] OBVIOUS
    <3>1. h[k + 1] = Joined(h, q, k + 1) BY <1>3
    <3>2. f[k + 1] = Joined(f, q, k + 1) BY <1>1 DEF FlatRun
    <3>3. k + 1 - 1 = k /\ (k + 1 # 1 => k \in 1 .. Len(q)) OBVIOUS
    <3>4. Joined(h, q, k + 1) = Joined(f, q, k + 1) BY <2>2, <3>3 DEF Joined
    <3> QED BY <3>1, <3>2, <3>4
  <2> HIDE DEF P
  <2>3. Nat \subseteq P BY <2>1, <2>2, Induction
  <2>4. \A k \in 1 .. Len(q) : h[k] = f[k] BY <2>3 DEF P
  <2>5. h = [i \in 1 .. Len(q) |-> h[i]] BY <1>3
  <2> QED BY <2>4, <2>5
<1> QED BY <1>1, <1>4, <1>5

LEMMA FlatEmpty == FlattenSeq(<<>>) = <<>>
BY DEF FlattenSeq

\* One more piece comes last.
LEMMA FlatAppend ==
    ASSUME NEW X, NEW q \in Seq(Seq(X)), NEW e \in Seq(X)
    PROVE  /\ FlattenSeq(q) \in Seq(X)
           /\ FlattenSeq(Append(q, e)) = FlattenSeq(q) \o e
<1> DEFINE r == Append(q, e)
           n == Len(q)
<1>1. r \in Seq(Seq(X)) /\ Len(r) = n + 1 /\ r[n + 1] = e /\ \A i \in 1 .. n : r[i] = q[i] OBVIOUS
<1>2. PICK g \in [1 .. n + 1 -> Seq(X)] : FlatRun(g, r) /\ FlattenSeq(r) = g[n + 1]
  <2> HIDE DEF r, n
  <2>1. Len(r) # 0 BY <1>1 DEF n
  <2> QED BY <1>1, <2>1, FlatIs
<1> HIDE DEF r
<1>3. CASE n = 0
  <2>1. q = <<>> BY <1>3
  <2>2. FlattenSeq(q) = <<>> BY <2>1, FlatEmpty
  <2>3. g[1] = e BY <1>1, <1>2, <1>3 DEF FlatRun, Joined
  <2> QED BY <1>2, <1>3, <2>2, <2>3 DEF r
<1>4. CASE n # 0
  <2>1. PICK f \in [1 .. n -> Seq(X)] : FlatRun(f, q) /\ FlattenSeq(q) = f[n] BY <1>4, FlatIs
  <2>2. \A k \in 1 .. n : g[k] = f[k]
    <3> DEFINE P == {k \in Nat : k \in 1 .. n => g[k] = f[k]}
    <3>1. 0 \in P OBVIOUS
    <3>2. ASSUME NEW k \in Nat, k \in P PROVE k + 1 \in P
      <4> SUFFICES ASSUME k + 1 \in 1 .. n PROVE g[k + 1] = f[k + 1] OBVIOUS
      <4>1. g[k + 1] = Joined(g, r, k + 1)
        BY <1>1, <1>2 DEF FlatRun
      <4>2. f[k + 1] = Joined(f, q, k + 1) BY <2>1 DEF FlatRun
      <4>3. k + 1 - 1 = k /\ (k + 1 # 1 => k \in 1 .. n) /\ r[k + 1] = q[k + 1] BY <1>1
      <4>4. Joined(g, r, k + 1) = Joined(f, q, k + 1) BY <3>2, <4>3 DEF Joined
      <4> QED BY <4>1, <4>2, <4>4
    <3> HIDE DEF P
    <3>3. Nat \subseteq P BY <3>1, <3>2, Induction
    <3> QED BY <3>3 DEF P
  <2>3. n \in 1 .. n /\ n + 1 \in 1 .. n + 1 /\ n + 1 # 1 /\ n + 1 - 1 = n BY <1>4
  <2>4. g[n + 1] = g[n] \o e
    <3>1. g[n + 1] = Joined(g, r, n + 1) BY <1>1, <1>2, <2>3 DEF FlatRun
    <3> QED BY <1>1, <2>3, <3>1 DEF Joined
  <2>5. g[n] = f[n] /\ f[n] \in Seq(X) BY <2>2, <2>3
  <2> QED BY <1>2, <2>1, <2>4, <2>5 DEF r
<1> QED BY <1>3, <1>4

LEMMA ConcatAppend ==
    ASSUME NEW X, NEW s \in Seq(X), NEW t \in Seq(X), NEW x \in X
    PROVE  s \o Append(t, x) = Append(s \o t, x)
<1>1. Append(t, x) = t \o <<x>> /\ <<x>> \in Seq(X) OBVIOUS
<1>2. s \o t \in Seq(X) OBVIOUS
<1>3. Append(s \o t, x) = (s \o t) \o <<x>> BY <1>2
<1> QED BY <1>1, <1>3, ConcatAssociative

\* The first characters of a text, and one more.
LEMMA OneMore ==
    ASSUME NEW X, NEW s \in Seq(X), NEW k \in 1 .. Len(s)
    PROVE  /\ SubSeq(s, 1, k) = Append(SubSeq(s, 1, k - 1), s[k])
           /\ SubSeq(s, 1, k - 1) \in Seq(X)
<1> DEFINE a == SubSeq(s, 1, k)
           b == SubSeq(s, 1, k - 1)
<1>1. a \in Seq(X) /\ Len(a) = k /\ \A i \in 1 .. k : a[i] = s[i] OBVIOUS
<1>2. b \in Seq(X) /\ Len(b) = k - 1 /\ \A i \in 1 .. k - 1 : b[i] = s[i] OBVIOUS
<1>3. s[k] \in X OBVIOUS
<1> HIDE DEF a, b
<1> DEFINE c == Append(b, s[k])
<1>4. c \in Seq(X) /\ Len(c) = k /\ \A i \in 1 .. k : c[i] = s[i] BY <1>2, <1>3
<1> HIDE DEF c
<1>5. a = c BY <1>1, <1>4, SeqEqual
<1> QED BY <1>2, <1>5 DEF a, b, c

------------------------------------------------------------------------------
(* What is typed is what is read *)

EndsCR(s) == s # <<>> /\ s[Len(s)] = CR

LinePiece(s, i) ==
    IF s[i] = LF /\ i > 1 /\ s[i - 1] = CR THEN <<>>
    ELSE IF s[i] = CR THEN <<LF>> ELSE <<s[i]>>
LinePieces(s) == [i \in DOMAIN s |-> LinePiece(s, i)]

LEMMA CodesAre ==
    ASSUME TermConstants
    PROVE  /\ {CR, LF, BS, Bracket} \cup Glyphs = Keys
           /\ CR # LF /\ CR # BS /\ CR # BEL /\ CR # SP /\ CR # Bracket
           /\ LF # BS /\ LF # BEL /\ LF # SP /\ LF # Bracket
           /\ BS # BEL /\ BS # SP /\ BS # Bracket /\ BEL # SP /\ BEL # Bracket /\ SP # Bracket
           /\ {CR, LF, BS, BEL, SP, Bracket} \cap Glyphs = {}
<1>1. DOMAIN Codes = 1 .. 6 BY DEF Codes
<1>2. /\ Codes[1] = CR /\ Codes[2] = LF /\ Codes[3] = BS
      /\ Codes[4] = BEL /\ Codes[5] = SP /\ Codes[6] = Bracket
  BY DEF Codes
<1>3. \A i, j \in 1 .. 6 : Codes[i] = Codes[j] => i = j BY <1>1 DEF TermConstants
<1>4. {1, 2, 3, 4, 5, 6} \subseteq 1 .. 6 OBVIOUS
<1>5. /\ CR # LF /\ CR # BS /\ CR # BEL /\ CR # SP /\ CR # Bracket
      /\ LF # BS /\ LF # BEL /\ LF # SP /\ LF # Bracket
      /\ BS # BEL /\ BS # SP /\ BS # Bracket /\ BEL # SP /\ BEL # Bracket /\ SP # Bracket
  BY ONLY <1>2, <1>3, <1>4
<1> QED BY <1>5 DEF Keys, TermConstants

LEMMA LinesAppend ==
    ASSUME TermConstants, NEW s \in Seq(Keys), NEW c \in Keys
    PROVE  /\ Lines(s) \in Seq(Keys)
           /\ Lines(Append(s, c)) =
                 IF c = LF /\ EndsCR(s) THEN Lines(s)
                 ELSE Append(Lines(s), IF c = CR THEN LF ELSE c)
<1> DEFINE r == Append(s, c)
           n == Len(s)
           e == LinePiece(r, n + 1)
<1>0. LF \in Keys BY CodesAre
<1>1. n \in Nat /\ r \in Seq(Keys) /\ Len(r) = n + 1 /\ r[n + 1] = c /\ \A i \in 1 .. n : r[i] = s[i]
  OBVIOUS
<1>2. \A t \in Seq(Keys) : \A i \in 1 .. Len(t) : LinePiece(t, i) \in Seq(Keys)
  <2> SUFFICES ASSUME NEW t \in Seq(Keys), NEW i \in 1 .. Len(t) PROVE LinePiece(t, i) \in Seq(Keys)
    OBVIOUS
  <2>1. t[i] \in Keys OBVIOUS
  <2>2. <<>> \in Seq(Keys) /\ <<LF>> \in Seq(Keys) /\ <<t[i]>> \in Seq(Keys) BY <1>0, <2>1
  <2> QED BY <2>2 DEF LinePiece
<1>3. \A t \in Seq(Keys) : LinePieces(t) \in Seq(Seq(Keys)) /\ Len(LinePieces(t)) = Len(t)
  <2> SUFFICES ASSUME NEW t \in Seq(Keys)
               PROVE  LinePieces(t) \in Seq(Seq(Keys)) /\ Len(LinePieces(t)) = Len(t)
    OBVIOUS
  <2> DEFINE l == Len(t)
  <2>1. DOMAIN t = 1 .. l /\ l \in Nat OBVIOUS
  <2>2. LinePieces(t) \in [1 .. l -> Seq(Keys)] BY <1>2, <2>1 DEF LinePieces
  <2> HIDE DEF l
  <2> QED BY <2>1, <2>2 DEF l
<1>4. \A t \in Seq(Keys) : Lines(t) = FlattenSeq(LinePieces(t))
  BY DEF Lines, LinePieces, LinePiece
<1>5. e \in Seq(Keys)
  <2>1. n + 1 \in 1 .. Len(r) BY <1>1
  <2> HIDE DEF r, n
  <2> QED BY <1>1, <1>2, <2>1
<1>6. LinePieces(r) = Append(LinePieces(s), e)
  <2> DEFINE p == LinePieces(r)
             q == Append(LinePieces(s), e)
  <2>1. \A i \in 1 .. n : LinePiece(r, i) = LinePiece(s, i) BY <1>1 DEF LinePiece
  <2>2. DOMAIN r = 1 .. n + 1 /\ DOMAIN s = 1 .. n BY <1>1
  <2>3. p \in Seq(Seq(Keys)) /\ Len(p) = n + 1 /\ \A i \in 1 .. n + 1 : p[i] = LinePiece(r, i)
    BY <1>1, <1>3, <2>2 DEF LinePieces
  <2>4. LinePieces(s) \in Seq(Seq(Keys)) /\ Len(LinePieces(s)) = n
        /\ \A i \in 1 .. n : LinePieces(s)[i] = LinePiece(s, i)
    BY <1>3, <2>2 DEF LinePieces
  <2> HIDE DEF e, p
  <2>5. q \in Seq(Seq(Keys)) /\ Len(q) = n + 1 /\ q[n + 1] = e
        /\ \A i \in 1 .. n : q[i] = LinePiece(s, i)
    BY <1>5, <2>4
  <2> HIDE DEF q
  <2>6. \A i \in 1 .. n + 1 : i \in 1 .. n \/ i = n + 1 BY <1>1
  <2>7. \A i \in 1 .. n + 1 : p[i] = q[i] BY <2>1, <2>3, <2>5, <2>6 DEF e
  <2>8. p = q BY <2>3, <2>5, <2>7, SeqEqual
  <2> QED BY <2>8 DEF p, q
<1> HIDE DEF e
<1>7. FlattenSeq(LinePieces(s)) \in Seq(Keys)
      /\ FlattenSeq(LinePieces(r)) = FlattenSeq(LinePieces(s)) \o e
  BY <1>3, <1>5, <1>6, FlatAppend
<1>8. Lines(s) \in Seq(Keys) /\ Lines(r) = Lines(s) \o e BY <1>1, <1>4, <1>7
<1>9. e = IF c = LF /\ EndsCR(s) THEN <<>> ELSE IF c = CR THEN <<LF>> ELSE <<c>>
  <2>1. n + 1 > 1 <=> s # <<>> OBVIOUS
  <2>2. s # <<>> => r[n + 1 - 1] = s[n] BY <1>1, <2>1
  <2> HIDE DEF r
  <2> QED BY <1>1, <2>1, <2>2 DEF e, LinePiece, EndsCR
<1> DEFINE d == IF c = CR THEN LF ELSE c
<1>10. d \in Keys BY <1>0
<1> HIDE DEF d, r
<1>11. Lines(s) \o <<d>> = Append(Lines(s), d) /\ Lines(s) \o <<>> = Lines(s)
  BY <1>8, <1>10
<1> QED BY <1>8, <1>9, <1>11 DEF d, r

LEMMA EndsAppend ==
    ASSUME NEW X, NEW s \in Seq(X), NEW c \in X
    PROVE  EndsCR(Append(s, c)) <=> c = CR
<1> DEFINE r == Append(s, c)
<1>1. r # <<>> /\ r[Len(r)] = c OBVIOUS
<1> HIDE DEF r
<1>2. EndsCR(r) <=> c = CR BY <1>1 DEF EndsCR
<1> QED BY <1>2 DEF r

ReadSoFar ==
    /\ cr_in \in BOOLEAN /\ typed \in Seq(Keys)
    /\ delivered = Lines(typed) /\ (cr_in <=> EndsCR(typed))

LEMMA ScanGives ==
    ASSUME TermConstants, ReadSoFar, NEW s \in Seq(Keys)
    PROVE  /\ Scan(s) \in ScanStates /\ Len(Scan(s).out) <= Len(s)
           /\ delivered \o Scan(s).out = Lines(typed \o s)
           /\ Scan(s).cr <=> EndsCR(typed \o s)
<1>1. PICK g : ScanRun(g, s) /\ g[Len(s)] = Scan(s) BY ScanFold DEF ReadSoFar
<1> DEFINE t(k) == typed \o SubSeq(s, 1, k)
           Seen(k) == /\ Len(g[k].out) <= k /\ delivered \o g[k].out = Lines(t(k))
                      /\ (g[k].cr <=> EndsCR(t(k))) /\ t(k) \in Seq(Keys)
           P == {k \in Nat : k <= Len(s) => Seen(k)}
<1>2. typed \in Seq(Keys) BY DEF ReadSoFar
<1>3. delivered \in Seq(Keys) BY <1>2, LinesAppend, CodesAre DEF ReadSoFar
<1>4. Seen(0)
  <2>1. SubSeq(s, 1, 0) = <<>> OBVIOUS
  <2>2. t(0) = typed BY <1>2, <2>1
  <2>3. g[0].out = <<>> /\ g[0].cr = cr_in BY <1>1 DEF ScanRun
  <2>4. delivered \o <<>> = delivered BY <1>3
  <2>5. Len(g[0].out) <= 0 BY <2>3
  <2>6. delivered \o g[0].out = Lines(t(0)) BY <2>2, <2>3, <2>4 DEF ReadSoFar
  <2>7. g[0].cr <=> EndsCR(t(0)) BY <2>2, <2>3 DEF ReadSoFar
  <2> HIDE DEF t
  <2> QED BY <1>2, <2>2, <2>5, <2>6, <2>7
<1>5. ASSUME NEW k \in Nat, k \in P PROVE k + 1 \in P
  <2> SUFFICES ASSUME k + 1 <= Len(s) PROVE Seen(k + 1) OBVIOUS
  <2> DEFINE c == s[k + 1]
             d == IF c = CR THEN LF ELSE c
  <2>1. k + 1 \in 1 .. Len(s) /\ k \in 0 .. Len(s) /\ k + 1 - 1 = k /\ c \in Keys OBVIOUS
  <2>2. Seen(k) BY <1>5, <2>1
  <2>3. g[k + 1] = Scanned(g[k], c) /\ g[k] \in ScanStates BY <1>1, <2>1 DEF ScanRun
  <2>4. t(k + 1) = Append(t(k), c)
    <3>1. SubSeq(s, 1, k + 1) = Append(SubSeq(s, 1, k), c) /\ SubSeq(s, 1, k) \in Seq(Keys)
      BY <2>1, OneMore
    <3> HIDE DEF c
    <3> QED BY <1>2, <2>1, <3>1, ConcatAppend
  <2> DEFINE u == t(k)
             v == t(k + 1)
  <2>a. v = Append(u, c) BY <2>4
  <2>b. u \in Seq(Keys) /\ (g[k].cr <=> EndsCR(u)) /\ delivered \o g[k].out = Lines(u)
    BY <2>2
  <2> HIDE DEF t, c, u, v
  <2>5. EndsCR(v) <=> c = CR BY <2>1, <2>a, <2>b, EndsAppend
  <2>6. Lines(u) \in Seq(Keys)
        /\ Lines(v) = IF c = LF /\ EndsCR(u) THEN Lines(u)
                               ELSE Append(Lines(u), d)
    BY <2>1, <2>a, <2>b, LinesAppend
  <2>7. v \in Seq(Keys) BY <2>1, <2>a, <2>b
  <2>8. g[k].out \in Seq(Keys) /\ g[k] = [out |-> g[k].out, cr |-> g[k].cr] BY <2>3 DEF ScanStates
  <2>9. CASE c = LF /\ EndsCR(u)
    <3>1. g[k + 1] = [out |-> g[k].out, cr |-> FALSE] BY <2>b, <2>3, <2>8, <2>9 DEF Scanned
    <3>2. c # CR BY <2>9, CodesAre
    <3>3. Len(g[k + 1].out) <= k + 1
      <4>1. Len(g[k].out) \in Nat /\ g[k + 1].out = g[k].out BY <2>8, <3>1
      <4> QED BY <2>2, <4>1
    <3>4. delivered \o g[k + 1].out = Lines(v) BY <2>b, <2>6, <2>9, <3>1
    <3>5. g[k + 1].cr <=> EndsCR(v) BY <2>5, <3>1, <3>2
    <3> QED BY <2>7, <3>3, <3>4, <3>5 DEF v
  <2>10. CASE ~(c = LF /\ EndsCR(u))
    <3>1. g[k + 1] = [out |-> Append(g[k].out, d), cr |-> c = CR]
      BY <2>b, <2>3, <2>10 DEF Scanned
    <3>2. d \in Keys BY <2>1, CodesAre
    <3> HIDE DEF d
    <3>3. delivered \o Append(g[k].out, d) = Append(delivered \o g[k].out, d)
      BY <1>3, <2>8, <3>2, ConcatAppend
    <3>4. Len(Append(g[k].out, d)) = Len(g[k].out) + 1 BY <2>8, <3>2
    <3>5. Len(g[k].out) \in Nat BY <2>8
    <3>6. Len(g[k + 1].out) <= k + 1
      <4>1. g[k + 1].out = Append(g[k].out, d) BY <3>1
      <4> QED BY <2>2, <3>4, <3>5, <4>1
    <3>7. delivered \o g[k + 1].out = Lines(v)
      <4>1. g[k + 1].out = Append(g[k].out, d) BY <3>1
      <4>2. delivered \o g[k].out = Lines(u) BY <2>b
      <4>3. Lines(v) = Append(Lines(u), d) BY <2>6, <2>10
      <4> QED BY <3>3, <4>1, <4>2, <4>3
    <3>8. g[k + 1].cr <=> EndsCR(v)
      <4>1. g[k + 1].cr = (c = CR) BY <3>1
      <4>2. CASE c = CR BY <2>5, <4>1, <4>2
      <4>3. CASE c # CR BY <2>5, <4>1, <4>3
      <4> QED BY <4>2, <4>3
    <3> QED BY <2>7, <3>6, <3>7, <3>8 DEF v
  <2> QED BY <2>9, <2>10
<1> HIDE DEF Seen
<1>6. 0 \in P BY <1>4
<1> HIDE DEF P
<1>7. Nat \subseteq P BY <1>5, <1>6, Induction
<1>8. Len(s) \in Nat OBVIOUS
<1>9. Seen(Len(s)) BY <1>7, <1>8 DEF P
<1>10. t(Len(s)) = typed \o s
  <2>1. SubSeq(s, 1, Len(s)) = s OBVIOUS
  <2> QED BY <2>1
<1>11. g[Len(s)] \in ScanStates BY <1>1, <1>8 DEF ScanRun
<1> QED BY <1>1, <1>9, <1>10, <1>11 DEF Seen

------------------------------------------------------------------------------
(* Newlines of output *)

NormalPiece(s, i) ==
    IF s[i] = LF /\ i > 1 /\ s[i - 1] = CR THEN <<>>
    ELSE IF s[i] \in {CR, LF} THEN <<CR, LF>> ELSE <<s[i]>>
NormalPieces(s) == [i \in DOMAIN s |-> NormalPiece(s, i)]

\* What c adds to the normal form of a text s.
Adds(s, c) ==
    IF c = LF /\ EndsCR(s) THEN <<>> ELSE IF c \in {CR, LF} THEN <<CR, LF>> ELSE <<c>>

LEMMA AddsTyped ==
    ASSUME TermConstants, NEW s, NEW c \in Keys
    PROVE  Adds(s, c) \in Seq(Keys)
<1>1. CR \in Keys /\ LF \in Keys BY CodesAre
<1>2. <<>> \in Seq(Keys) /\ <<CR, LF>> \in Seq(Keys) /\ <<c>> \in Seq(Keys) BY <1>1
<1> QED BY <1>2 DEF Adds

LEMMA NormalAppend ==
    ASSUME TermConstants, NEW s \in Seq(Keys), NEW c \in Keys
    PROVE  /\ Normal(s) \in Seq(Keys)
           /\ Normal(Append(s, c)) = Normal(s) \o Adds(s, c)
<1> DEFINE r == Append(s, c)
           n == Len(s)
           e == NormalPiece(r, n + 1)
<1>0. CR \in Keys /\ LF \in Keys BY CodesAre
<1>1. n \in Nat /\ r \in Seq(Keys) /\ Len(r) = n + 1 /\ r[n + 1] = c /\ \A i \in 1 .. n : r[i] = s[i]
  OBVIOUS
<1>2. \A t \in Seq(Keys) : \A i \in 1 .. Len(t) : NormalPiece(t, i) \in Seq(Keys)
  <2> SUFFICES ASSUME NEW t \in Seq(Keys), NEW i \in 1 .. Len(t) PROVE NormalPiece(t, i) \in Seq(Keys)
    OBVIOUS
  <2>1. t[i] \in Keys OBVIOUS
  <2>2. <<>> \in Seq(Keys) /\ <<CR, LF>> \in Seq(Keys) /\ <<t[i]>> \in Seq(Keys) BY <1>0, <2>1
  <2> QED BY <2>2 DEF NormalPiece
<1>3. \A t \in Seq(Keys) : NormalPieces(t) \in Seq(Seq(Keys)) /\ Len(NormalPieces(t)) = Len(t)
  <2> SUFFICES ASSUME NEW t \in Seq(Keys)
               PROVE  NormalPieces(t) \in Seq(Seq(Keys)) /\ Len(NormalPieces(t)) = Len(t)
    OBVIOUS
  <2> DEFINE l == Len(t)
  <2>1. DOMAIN t = 1 .. l /\ l \in Nat OBVIOUS
  <2>2. NormalPieces(t) \in [1 .. l -> Seq(Keys)] BY <1>2, <2>1 DEF NormalPieces
  <2> HIDE DEF l
  <2> QED BY <2>1, <2>2 DEF l
<1>4. \A t \in Seq(Keys) : Normal(t) = FlattenSeq(NormalPieces(t))
  BY DEF Normal, NormalPieces, NormalPiece
<1>5. e \in Seq(Keys)
  <2>1. n + 1 \in 1 .. Len(r) BY <1>1
  <2> HIDE DEF r, n
  <2> QED BY <1>1, <1>2, <2>1
<1>6. NormalPieces(r) = Append(NormalPieces(s), e)
  <2> DEFINE p == NormalPieces(r)
             q == Append(NormalPieces(s), e)
  <2>1. \A i \in 1 .. n : NormalPiece(r, i) = NormalPiece(s, i) BY <1>1 DEF NormalPiece
  <2>2. DOMAIN r = 1 .. n + 1 /\ DOMAIN s = 1 .. n BY <1>1
  <2>3. p \in Seq(Seq(Keys)) /\ Len(p) = n + 1 /\ \A i \in 1 .. n + 1 : p[i] = NormalPiece(r, i)
    BY <1>1, <1>3, <2>2 DEF NormalPieces
  <2>4. NormalPieces(s) \in Seq(Seq(Keys)) /\ Len(NormalPieces(s)) = n
        /\ \A i \in 1 .. n : NormalPieces(s)[i] = NormalPiece(s, i)
    BY <1>3, <2>2 DEF NormalPieces
  <2> HIDE DEF e, p
  <2>5. q \in Seq(Seq(Keys)) /\ Len(q) = n + 1 /\ q[n + 1] = e
        /\ \A i \in 1 .. n : q[i] = NormalPiece(s, i)
    BY <1>5, <2>4
  <2> HIDE DEF q
  <2>6. \A i \in 1 .. n + 1 : i \in 1 .. n \/ i = n + 1 BY <1>1
  <2>7. \A i \in 1 .. n + 1 : p[i] = q[i] BY <2>1, <2>3, <2>5, <2>6 DEF e
  <2>8. p = q BY <2>3, <2>5, <2>7, SeqEqual
  <2> QED BY <2>8 DEF p, q
<1> HIDE DEF e
<1>7. FlattenSeq(NormalPieces(s)) \in Seq(Keys)
      /\ FlattenSeq(NormalPieces(r)) = FlattenSeq(NormalPieces(s)) \o e
  BY <1>3, <1>5, <1>6, FlatAppend
<1>8. Normal(s) \in Seq(Keys) /\ Normal(r) = Normal(s) \o e BY <1>1, <1>4, <1>7
<1>9. e = Adds(s, c)
  <2>1. n + 1 > 1 <=> s # <<>> OBVIOUS
  <2>2. s # <<>> => r[n + 1 - 1] = s[n] BY <1>1, <2>1
  <2> HIDE DEF r
  <2> QED BY <1>1, <2>1, <2>2 DEF e, NormalPiece, EndsCR, Adds
<1> QED BY <1>8, <1>9

LEMMA NormalEmpty == Normal(<<>>) = <<>>
<1>1. DOMAIN <<>> = {} OBVIOUS
<1>2. NormalPieces(<<>>) = <<>> BY <1>1 DEF NormalPieces
<1>3. Normal(<<>>) = FlattenSeq(NormalPieces(<<>>)) BY DEF Normal, NormalPieces, NormalPiece
<1> QED BY <1>2, <1>3, FlatEmpty

\* Three texts one after another, however they are grouped.
LEMMA JoinOfThree ==
  ASSUME NEW X, NEW a \in Seq(X), NEW b \in Seq(X), NEW c \in Seq(X)
  PROVE  (a \o b) \o c = a \o (b \o c)
<1> QED BY ConcatAssociative

\* The normal form of a text is the beginning of that of a longer one.
LEMMA NormalGrows ==
    ASSUME TermConstants, NEW s \in Seq(Keys), NEW t \in Seq(Keys)
    PROVE  \E z \in Seq(Keys) : Normal(s \o t) = Normal(s) \o z
<1> DEFINE u(k) == s \o SubSeq(t, 1, k)
           Grows(k) == u(k) \in Seq(Keys) /\ \E z \in Seq(Keys) : Normal(u(k)) = Normal(s) \o z
           P == {k \in Nat : k <= Len(t) => Grows(k)}
<1>1. 0 \in P
  <2>1. SubSeq(t, 1, 0) = <<>> OBVIOUS
  <2>2. u(0) = s BY <2>1
  <2>3. Normal(s) \in Seq(Keys) BY NormalAppend, CodesAre
  <2>4. Normal(s) = Normal(s) \o <<>> /\ <<>> \in Seq(Keys) BY <2>3
  <2> QED BY <2>2, <2>4
<1>2. ASSUME NEW k \in Nat, k \in P PROVE k + 1 \in P
  <2> SUFFICES ASSUME k + 1 <= Len(t) PROVE Grows(k + 1) OBVIOUS
  <2> DEFINE c == t[k + 1]
             a == u(k)
             b == u(k + 1)
  <2>1. k + 1 \in 1 .. Len(t) /\ k + 1 - 1 = k /\ c \in Keys OBVIOUS
  <2>2. a \in Seq(Keys) /\ \E z \in Seq(Keys) : Normal(a) = Normal(s) \o z
    <3>1. k <= Len(t) OBVIOUS
    <3>2. Grows(k) BY <1>2, <3>1
    <3> QED BY <3>2
  <2>3. PICK z \in Seq(Keys) : Normal(a) = Normal(s) \o z BY <2>2
  <2>4. b = Append(a, c)
    <3>1. SubSeq(t, 1, k + 1) = Append(SubSeq(t, 1, k), c) /\ SubSeq(t, 1, k) \in Seq(Keys)
      BY <2>1, OneMore
    <3> HIDE DEF c
    <3> QED BY <2>1, <3>1, ConcatAppend
  <2> HIDE DEF a, b, c, u
  <2>5. Normal(b) = Normal(a) \o Adds(a, c) BY <2>1, <2>2, <2>4, NormalAppend
  <2>6. Adds(a, c) \in Seq(Keys) /\ Normal(s) \in Seq(Keys) BY <2>1, AddsTyped, NormalAppend
  <2>7. Normal(b) = Normal(s) \o (z \o Adds(a, c))
    <3> DEFINE m == Normal(s)
               d == Adds(a, c)
    <3>1. m \in Seq(Keys) /\ d \in Seq(Keys) BY <2>6
    <3>2. Normal(b) = (m \o z) \o d BY <2>3, <2>5
    <3> HIDE DEF m, d, u, Grows, P
    <3>3. (m \o z) \o d = m \o (z \o d) BY <3>1, JoinOfThree
    <3> QED BY <3>2, <3>3 DEF m, d
  <2>8. z \o Adds(a, c) \in Seq(Keys) BY <2>6
  <2>9. b \in Seq(Keys) BY <2>1, <2>2, <2>4
  <2> QED BY <2>7, <2>8, <2>9 DEF b
<1> HIDE DEF Grows
<1> HIDE DEF P
<1>3. Nat \subseteq P BY <1>1, <1>2, Induction
<1>4. Len(t) \in Nat /\ SubSeq(t, 1, Len(t)) = t OBVIOUS
<1>5. Grows(Len(t)) BY <1>3, <1>4 DEF P
<1> QED BY <1>4, <1>5 DEF Grows

------------------------------------------------------------------------------
(* What the literal takes *)

OutChars == Keys \cup {SP}
Sinks == [buf : [1 .. SinkSize -> OutChars], size : {SinkSize}, pos : 0 .. SinkSize]
Out(io) == SubSeq(io.buf, 1, io.pos)
Full(io) == io.pos = SinkSize

\* As much of a text as the literal can hold.
Cut(x) == SubSeq(x, 1, Least(Len(x), SinkSize))

LEMMA OutTyped ==
    ASSUME TermConstants, NEW io \in Sinks
    PROVE  Out(io) \in Seq(OutChars) /\ Len(Out(io)) = io.pos
           /\ \A i \in 1 .. io.pos : Out(io)[i] = io.buf[i]
<1>1. io.buf \in [1 .. SinkSize -> OutChars] /\ io.pos \in 0 .. SinkSize BY DEF Sinks
<1>2. SinkSize \in Nat BY DEF TermConstants
<1>3. \A i \in 1 .. io.pos : io.buf[i] \in OutChars BY <1>1, <1>2
<1> QED BY <1>1, <1>2, <1>3, SubSeqProperties DEF Out

LEMMA CutIs ==
    ASSUME TermConstants, NEW X, NEW x \in Seq(X)
    PROVE  /\ Cut(x) \in Seq(X)
           /\ Len(x) <= SinkSize => Cut(x) = x
           /\ Len(x) >= SinkSize => Len(Cut(x)) = SinkSize
           /\ \A i \in 1 .. Len(Cut(x)) : Cut(x)[i] = x[i]
           /\ Len(Cut(x)) = Least(Len(x), SinkSize)
<1> DEFINE k == Least(Len(x), SinkSize)
<1>1. SinkSize \in Nat BY DEF TermConstants
<1>2. k \in Nat /\ k <= Len(x) /\ k <= SinkSize /\ (Len(x) <= SinkSize => k = Len(x))
      /\ (Len(x) >= SinkSize => k = SinkSize)
  BY <1>1 DEF Least
<1> HIDE DEF k
<1>3. /\ SubSeq(x, 1, k) \in Seq(X) /\ Len(SubSeq(x, 1, k)) = k
      /\ \A i \in 1 .. k : SubSeq(x, 1, k)[i] = x[i]
  BY <1>2
<1>4. k = Len(x) => SubSeq(x, 1, k) = x OBVIOUS
<1>5. Cut(x) = SubSeq(x, 1, k) BY DEF Cut, k
<1> QED BY <1>2, <1>3, <1>4, <1>5 DEF k

\* What is longer than the literal may be anything there.
LEMMA CutLonger ==
    ASSUME TermConstants, NEW X, NEW x \in Seq(X), NEW y \in Seq(X), Len(x) >= SinkSize
    PROVE  Cut(x \o y) = Cut(x)
<1> DEFINE z == x \o y
           a == Cut(z)
           b == Cut(x)
<1>1. z \in Seq(X) /\ Len(z) >= SinkSize /\ \A i \in 1 .. Len(x) : z[i] = x[i]
  <2>1. SinkSize \in Nat BY DEF TermConstants
  <2>2. z \in Seq(X) /\ Len(z) = Len(x) + Len(y) /\ Len(x) \in Nat /\ Len(y) \in Nat OBVIOUS
  <2>3. \A i \in 1 .. Len(x) : z[i] = x[i] OBVIOUS
  <2> HIDE DEF z
  <2> QED BY <2>1, <2>2, <2>3
<1> HIDE DEF z
<1>2. a \in Seq(X) /\ Len(a) = SinkSize /\ \A i \in 1 .. SinkSize : a[i] = z[i] BY <1>1, CutIs
<1>3. b \in Seq(X) /\ Len(b) = SinkSize /\ \A i \in 1 .. SinkSize : b[i] = x[i] BY CutIs
<1> HIDE DEF a, b
<1>4. \A i \in 1 .. SinkSize : i \in 1 .. Len(x)
  <2>1. SinkSize \in Nat /\ Len(x) \in Nat BY DEF TermConstants
  <2> QED BY <2>1
<1>5. a = b BY <1>1, <1>2, <1>3, <1>4, SeqEqual
<1> QED BY <1>5 DEF a, b, z

\* Writing to the literal adds as much as fits.
LEMMA SinkTakes ==
    ASSUME TermConstants, NEW io \in Sinks, NEW x \in Seq(Keys)
    PROVE  LET r == iowrite(io, x)
           IN /\ r.io \in Sinks /\ r.cnt \in 0 .. Len(x)
              /\ r.cnt = 0 => r.io = io
              /\ Out(r.io) = Cut(Out(io) \o x)
              /\ Len(Out(io) \o x) <= SinkSize => r.cnt = Len(x)
              /\ Len(Out(io) \o x) > SinkSize => r.cnt < Len(x) /\ Full(r.io)
<1> DEFINE r == iowrite(io, x)
           k == Served(io, Len(x))
           w == Out(io) \o x
           l == Len(x)
           p == io.pos
           out == Out(r.io)
<1>1. /\ io.buf \in [1 .. SinkSize -> OutChars] /\ io.size = SinkSize /\ p \in 0 .. SinkSize
      /\ io = [buf |-> io.buf, size |-> io.size, pos |-> p]
  BY DEF Sinks
<1>2. SinkSize \in Nat /\ l \in Nat /\ p \in Nat BY <1>1 DEF TermConstants
<1>3. k = IF l < SinkSize - p THEN l ELSE SinkSize - p BY <1>1 DEF Served, Least
<1>4. k \in Nat /\ k <= l /\ p + k <= SinkSize /\ (p + l <= SinkSize => k = l)
      /\ (p + l > SinkSize => k < l /\ p + k = SinkSize)
  <2> HIDE DEF k, l, p
  <2> QED BY <1>1, <1>2, <1>3
<1> DEFINE buf2 == [i \in 1 .. SinkSize |-> IF i \in p + 1 .. p + k THEN x[i - p] ELSE io.buf[i]]
<1>5. r.cnt = k /\ r.io = [buf |-> buf2, size |-> SinkSize, pos |-> p + k]
  <2>1. DOMAIN io.buf = 1 .. SinkSize BY <1>1
  <2>2. iolit_write(io, x).cnt = k BY DEF iolit_write
  <2>3. iolit_write(io, x).io =
           [[io EXCEPT !.pos = @ + k] EXCEPT
              !.buf = [i \in DOMAIN @ |-> IF i \in p + 1 .. p + k THEN x[i - p] ELSE @[i]]]
    BY Zenon DEF iolit_write
  <2> DEFINE moved == [io EXCEPT !.pos = @ + k]
  <2> HIDE DEF k, l, out, w
  <2>4. moved = [buf |-> io.buf, size |-> SinkSize, pos |-> p + k] BY <1>1
  <2>5. [i \in DOMAIN moved.buf |-> IF i \in p + 1 .. p + k THEN x[i - p] ELSE moved.buf[i]] = buf2
    BY <2>1, <2>4
  <2>6. iolit_write(io, x).io
          = [moved EXCEPT !.buf = [i \in DOMAIN moved.buf |-> IF i \in p + 1 .. p + k THEN x[i - p] ELSE moved.buf[i]]]
    BY <2>3
  <2>7. iolit_write(io, x).io = [moved EXCEPT !.buf = buf2] BY <2>5, <2>6
  <2> HIDE DEF buf2, moved, p
  <2>8. iolit_write(io, x).io = [buf |-> buf2, size |-> SinkSize, pos |-> p + k] BY <2>4, <2>7
  <2> QED BY <2>2, <2>8 DEF iowrite
<1> HIDE DEF k, l, p, r
<1>6. \A i \in p + 1 .. p + k : i - p \in 1 .. Len(x) /\ x[i - p] \in Keys
  <2> TAKE i \in p + 1 .. p + k
  <2>1. i - p \in 1 .. Len(x) BY <1>2, <1>4 DEF l
  <2> QED BY <2>1
<1>7. buf2 \in [1 .. SinkSize -> OutChars] BY <1>1, <1>6 DEF OutChars
<1>8. p + k \in 0 .. SinkSize BY <1>2, <1>4
<1> DEFINE b2 == buf2
<1> HIDE DEF b2
<1>9. r.io \in Sinks /\ r.io.pos = p + k /\ r.io.buf = b2
  <2>1. b2 \in [1 .. SinkSize -> OutChars] BY <1>7 DEF b2
  <2>2. r.io = [buf |-> b2, size |-> SinkSize, pos |-> p + k] BY <1>5 DEF b2
  <2> QED BY <1>8, <2>1, <2>2 DEF Sinks
<1>10. out \in Seq(OutChars) /\ Len(out) = p + k /\ \A i \in 1 .. p + k : out[i] = b2[i]
  BY <1>9, OutTyped
<1>11. Out(io) \in Seq(OutChars) /\ Len(Out(io)) = p /\ \A i \in 1 .. p : Out(io)[i] = io.buf[i]
  BY OutTyped DEF p
<1>12. x \in Seq(OutChars)
  <2>1. Keys \subseteq OutChars BY DEF OutChars
  <2> QED BY <2>1
<1>13. w \in Seq(OutChars) /\ Len(w) = p + l
       /\ \A i \in 1 .. p + l : w[i] = IF i <= p THEN Out(io)[i] ELSE x[i - p]
  BY <1>11, <1>12, ConcatProperties DEF l
<1> HIDE DEF w, out
<1>14. Cut(w) \in Seq(OutChars) /\ Len(Cut(w)) = p + k /\ \A i \in 1 .. p + k : Cut(w)[i] = w[i]
  <2>1. /\ Cut(w) \in Seq(OutChars) /\ Len(Cut(w)) = Least(p + l, SinkSize)
        /\ \A i \in 1 .. Len(Cut(w)) : Cut(w)[i] = w[i]
    BY <1>13, CutIs
  <2>2. Least(p + l, SinkSize) = p + k BY <1>2, <1>4 DEF Least
  <2> QED BY <2>1, <2>2
<1>15. \A i \in 1 .. p + k : b2[i] = w[i]
  <2> TAKE i \in 1 .. p + k
  <2>1. i \in 1 .. SinkSize /\ i \in 1 .. p + l BY <1>2, <1>4
  <2>2. b2[i] = IF i \in p + 1 .. p + k THEN x[i - p] ELSE io.buf[i] BY <2>1 DEF b2
  <2>3. CASE i <= p
    <3>1. i \in 1 .. p /\ i \notin p + 1 .. p + k BY <1>2, <2>3
    <3> QED BY <1>11, <1>13, <2>1, <2>2, <2>3, <3>1
  <2>4. CASE ~(i <= p)
    <3>1. i \in p + 1 .. p + k BY <1>2, <1>4, <2>4
    <3> QED BY <1>13, <2>1, <2>2, <2>4, <3>1
  <2> QED BY <2>3, <2>4
<1>16. out = Cut(w) BY <1>10, <1>14, <1>15, SeqEqual
<1>17. k \in 0 .. l BY <1>2, <1>4
<1>18. r.cnt = k BY <1>5
<1>19. Len(w) > SinkSize => r.cnt < l /\ Full(r.io) BY <1>4, <1>9, <1>13, <1>18 DEF Full
<1>20. Len(w) <= SinkSize => r.cnt = l BY <1>4, <1>13, <1>18
<1>21. r.cnt = 0 => r.io = io
  <2> SUFFICES ASSUME k = 0 PROVE r.io = io BY <1>18
  <2>1. p + k = p BY <1>2
  <2>2. 1 .. SinkSize \cap (p + 1 .. p + k) = {} BY <1>2, <2>1
  <2>3. b2 = [i \in 1 .. SinkSize |-> io.buf[i]] BY <2>2 DEF b2
  <2>4. b2 = io.buf BY <1>1, <2>3
  <2> QED BY <1>1, <1>5, <2>1, <2>4 DEF b2
<1> QED BY <1>9, <1>16, <1>17, <1>18, <1>19, <1>20, <1>21 DEF r, l, w, out

LEMMA CutCut ==
    ASSUME TermConstants, NEW X, NEW x \in Seq(X), NEW y \in Seq(X)
    PROVE  Cut(Cut(x) \o y) = Cut(x \o y)
<1>1. SinkSize \in Nat /\ Len(x) \in Nat BY DEF TermConstants
<1>2. CASE Len(x) <= SinkSize BY <1>2, CutIs
<1>3. CASE ~(Len(x) <= SinkSize)
  <2> DEFINE c == Cut(x)
  <2>1. Len(x) >= SinkSize BY <1>1, <1>3
  <2>2. c \in Seq(X) /\ Len(c) = SinkSize BY <2>1, CutIs
  <2>3. Cut(x \o y) = c BY <2>1, CutLonger
  <2> HIDE DEF c
  <2>4. Len(c) >= SinkSize /\ Len(c) <= SinkSize BY <1>1, <2>2
  <2>5. Cut(c \o y) = Cut(c) BY <2>2, <2>4, CutLonger
  <2>6. Cut(c) = c BY <2>2, <2>4, CutIs
  <2> QED BY <2>3, <2>5, <2>6 DEF c
<1> QED BY <1>2, <1>3

------------------------------------------------------------------------------
(* One write of the terminal *)

WriteStates ==
    [wp : Nat \ {0}, acc : Nat, cr : BOOLEAN, io : Sinks,
     skip : BOOLEAN, done : BOOLEAN, cnt : Int]

LEMMA WriteFields ==
    ASSUME NEW st \in WriteStates
    PROVE  /\ st = [wp |-> st.wp, acc |-> st.acc, cr |-> st.cr, io |-> st.io,
                    skip |-> st.skip, done |-> st.done, cnt |-> st.cnt]
           /\ st.wp \in Nat \ {0} /\ st.acc \in Nat /\ st.cr \in BOOLEAN /\ st.io \in Sinks
           /\ st.skip \in BOOLEAN /\ st.done \in BOOLEAN /\ st.cnt \in Int
BY DEF WriteStates

LEMMA KeysOut == ASSUME NEW x \in Seq(Keys) PROVE x \in Seq(OutChars)
<1>1. Keys \subseteq OutChars BY DEF OutChars
<1> QED BY <1>1

LEMMA PieceTyped ==
    ASSUME NEW s \in Seq(Keys), NEW from \in Nat \ {0}, NEW to \in 0 .. Len(s)
    PROVE  /\ SubSeq(s, from, to) \in Seq(Keys)
           /\ Len(SubSeq(s, from, to)) = IF from <= to THEN to - from + 1 ELSE 0
<1>1. \A i \in from .. to : s[i] \in Keys
  <2> TAKE i \in from .. to
  <2>1. i \in 1 .. Len(s) OBVIOUS
  <2> QED BY <2>1
<1> QED BY <1>1, SubSeqProperties

\* What is written of the text: all of it, or as much as fits.
LEMMA FlushGives ==
    ASSUME TermConstants, NEW st \in WriteStates, NEW s \in Seq(Keys), NEW to \in 0 .. Len(s)
    PROVE  LET f == Flush(st, s, to)
               x == SubSeq(s, st.wp, to)
           IN /\ f \in WriteStates /\ f.cr = st.cr /\ f.skip = st.skip
              /\ Out(f.io) = Cut(Out(st.io) \o x)
              /\ ~st.done /\ f.done => f.cnt = st.acc /\ f.wp = st.wp /\ f.acc = st.acc
                                       /\ (x # <<>> => Full(f.io))
              /\ ~f.done => \E c \in 1 .. Len(x) :
                    /\ ~st.done /\ f.wp = st.wp + c /\ f.acc = st.acc + c
                    /\ c # Len(x) => Full(f.io)
                    /\ c = Len(x) => Out(f.io) = Out(st.io) \o x
<1> DEFINE f == Flush(st, s, to)
           x == SubSeq(s, st.wp, to)
           r == iowrite(st.io, x)
<1>0. st.wp \in Nat \ {0} /\ st.acc \in Nat /\ st.io \in Sinks /\ st.done \in BOOLEAN BY WriteFields
<1>1. x \in Seq(Keys) BY <1>0, PieceTyped
<1> HIDE DEF x
<1>2. /\ r.io \in Sinks /\ r.cnt \in 0 .. Len(x) /\ (r.cnt = 0 => r.io = st.io)
      /\ Out(r.io) = Cut(Out(st.io) \o x)
      /\ Len(Out(st.io) \o x) <= SinkSize => r.cnt = Len(x)
      /\ Len(Out(st.io) \o x) > SinkSize => r.cnt < Len(x) /\ Full(r.io)
  BY <1>0, <1>1, SinkTakes
<1>3. Len(x) \in Nat /\ Out(st.io) \in Seq(OutChars) /\ SinkSize \in Nat
      /\ Out(st.io) \o x \in Seq(OutChars) /\ Len(Out(st.io) \o x) \in Nat
  <2>1. Out(st.io) \in Seq(OutChars) /\ x \in Seq(OutChars) BY <1>0, <1>1, OutTyped, KeysOut
  <2> QED BY <1>1, <2>1 DEF TermConstants
<1>4. CASE r.cnt = 0
  <2>1. f = [st EXCEPT !.done = TRUE, !.cnt = st.acc] BY <1>4 DEF Flush, Stops, r, x
  <2>2. f = [wp |-> st.wp, acc |-> st.acc, cr |-> st.cr, io |-> st.io,
             skip |-> st.skip, done |-> TRUE, cnt |-> st.acc]
    BY <2>1, WriteFields
  <2> HIDE DEF f, r
  <2>3. f \in WriteStates BY <1>0, <2>2, WriteFields DEF WriteStates
  <2>4. x # <<>> => Full(r.io)
    <3>1. x # <<>> => Len(x) # 0 BY <1>1
    <3> QED BY <1>2, <1>3, <1>4, <3>1
  <2>5. r.io = st.io BY <1>2, <1>4
  <2>6. f.io = st.io /\ f.cr = st.cr /\ f.skip = st.skip /\ f.done /\ f.cnt = st.acc /\ f.wp = st.wp
        /\ f.acc = st.acc
    BY <2>2
  <2> QED BY <1>2, <2>3, <2>4, <2>5, <2>6 DEF f, x
<1>5. CASE r.cnt # 0
  <2>1. f = [st EXCEPT !.io = r.io, !.acc = @ + r.cnt, !.wp = @ + r.cnt] BY <1>5 DEF Flush, r, x
  <2>2. f = [wp |-> st.wp + r.cnt, acc |-> st.acc + r.cnt, cr |-> st.cr, io |-> r.io,
             skip |-> st.skip, done |-> st.done, cnt |-> st.cnt]
    BY <2>1, WriteFields
  <2> HIDE DEF f, r
  <2>3. r.cnt \in 1 .. Len(x) BY <1>2, <1>3, <1>5
  <2>4. f \in WriteStates
    <3>1. st.wp + r.cnt \in Nat \ {0} /\ st.acc + r.cnt \in Nat BY <1>0, <1>3, <2>3
    <3> QED BY <1>2, <2>2, <3>1, WriteFields DEF WriteStates
  <2>5. f.io = r.io /\ f.cr = st.cr /\ f.skip = st.skip /\ f.done = st.done
        /\ f.wp = st.wp + r.cnt /\ f.acc = st.acc + r.cnt
    BY <2>2
  <2>6. r.cnt # Len(x) => Full(r.io) BY <1>2, <1>3
  <2>7. r.cnt = Len(x) => Out(r.io) = Out(st.io) \o x
    <3>1. r.cnt = Len(x) => Len(Out(st.io) \o x) <= SinkSize BY <1>2, <1>3
    <3> QED BY <1>2, <1>3, <3>1, CutIs
  <2> QED BY <1>2, <2>3, <2>4, <2>5, <2>6, <2>7 DEF f, x
<1> QED BY <1>4, <1>5

LEMMA PutGives ==
    ASSUME TermConstants, NEW st \in WriteStates, NEW c \in Keys
    PROVE  LET p == PutChar(st, c)
           IN /\ p \in WriteStates /\ p.cr = st.cr /\ p.skip = st.skip
              /\ p.wp = st.wp /\ p.acc = st.acc
              /\ Out(p.io) = Cut(Out(st.io) \o <<c>>)
              /\ ~st.done /\ p.done => Full(p.io) /\ p.cnt = -5
              /\ ~p.done => ~st.done /\ Out(p.io) = Out(st.io) \o <<c>>
<1> DEFINE p == PutChar(st, c)
           x == <<c>>
           r == iowrite(st.io, x)
<1>0. st.wp \in Nat \ {0} /\ st.acc \in Nat /\ st.io \in Sinks /\ st.done \in BOOLEAN BY WriteFields
<1>1. x \in Seq(Keys) /\ Len(x) = 1 OBVIOUS
<1> HIDE DEF x
<1>2. /\ r.io \in Sinks /\ r.cnt \in 0 .. Len(x) /\ (r.cnt = 0 => r.io = st.io)
      /\ Out(r.io) = Cut(Out(st.io) \o x)
      /\ Len(Out(st.io) \o x) <= SinkSize => r.cnt = Len(x)
      /\ Len(Out(st.io) \o x) > SinkSize => r.cnt < Len(x) /\ Full(r.io)
  BY <1>0, <1>1, SinkTakes
<1>3. Out(st.io) \in Seq(OutChars) /\ SinkSize \in Nat
      /\ Out(st.io) \o x \in Seq(OutChars) /\ Len(Out(st.io) \o x) \in Nat
  <2>1. Out(st.io) \in Seq(OutChars) /\ x \in Seq(OutChars) BY <1>0, <1>1, OutTyped, KeysOut
  <2> QED BY <1>1, <2>1 DEF TermConstants
<1>4. CASE r.cnt = 0
  <2>0. ioputc(st.io, c).cnt = -5
    <3>1. ioputc(st.io, c) = [r EXCEPT !.cnt = -5] BY <1>4 DEF ioputc, EIO, r, x
    <3>2. "cnt" \in DOMAIN r BY DEF r, iowrite, iolit_write
    <3> QED BY <3>1, <3>2
  <2>1. p = [st EXCEPT !.done = TRUE, !.cnt = -5] BY <2>0 DEF PutChar, Stops
  <2>2. p = [wp |-> st.wp, acc |-> st.acc, cr |-> st.cr, io |-> st.io,
             skip |-> st.skip, done |-> TRUE, cnt |-> -5]
    BY <2>1, WriteFields
  <2> HIDE DEF p, r
  <2>3. p \in WriteStates BY <1>0, <2>2, WriteFields DEF WriteStates
  <2>4. Full(r.io) BY <1>1, <1>2, <1>3, <1>4
  <2>5. r.io = st.io BY <1>2, <1>4
  <2>6. p.io = st.io /\ p.cr = st.cr /\ p.skip = st.skip /\ p.done /\ p.cnt = -5 /\ p.wp = st.wp
        /\ p.acc = st.acc
    BY <2>2
  <2> QED BY <1>2, <2>3, <2>4, <2>5, <2>6 DEF p, x
<1>5. CASE r.cnt # 0
  <2>0. ioputc(st.io, c) = r BY <1>5 DEF ioputc, r, x
  <2>a. ~(r.cnt < 0) BY <1>1, <1>2
  <2>1. p = [st EXCEPT !.io = r.io] BY <2>0, <2>a DEF PutChar
  <2>2. p = [wp |-> st.wp, acc |-> st.acc, cr |-> st.cr, io |-> r.io,
             skip |-> st.skip, done |-> st.done, cnt |-> st.cnt]
    BY <2>1, WriteFields
  <2> HIDE DEF p, r
  <2>3. p \in WriteStates BY <1>2, <2>2, WriteFields DEF WriteStates
  <2>4. p.io = r.io /\ p.cr = st.cr /\ p.skip = st.skip /\ p.done = st.done
        /\ p.wp = st.wp /\ p.acc = st.acc
    BY <2>2
  <2>5. Out(r.io) = Out(st.io) \o x
    <3>1. Len(Out(st.io) \o x) <= SinkSize BY <1>1, <1>2, <1>3, <1>5
    <3> QED BY <1>2, <1>3, <3>1, CutIs
  <2> QED BY <1>2, <2>3, <2>4, <2>5 DEF p, x
<1> QED BY <1>4, <1>5

LEMMA FullLong ==
    ASSUME TermConstants, NEW io \in Sinks, Full(io), NEW y \in Seq(OutChars), Out(io) = Cut(y)
    PROVE  Len(y) >= SinkSize
<1>1. Len(Out(io)) = SinkSize BY OutTyped DEF Full
<1>2. Len(Cut(y)) = Least(Len(y), SinkSize) BY CutIs
<1>3. SinkSize \in Nat /\ Len(y) \in Nat BY DEF TermConstants
<1> QED BY <1>1, <1>2, <1>3 DEF Least

\* n is st after a piece x of the text and a character c were written, or as
\* much of them as fits; the write goes on with b for cr.
Puts(st, n, x, c, b) ==
    /\ n \in WriteStates /\ n.skip = st.skip
    /\ Out(n.io) = Cut((Out(st.io) \o x) \o <<c>>)
    /\ n.done => Full(n.io) /\ n.cnt <= st.acc
    /\ ~n.done => /\ Out(n.io) = (Out(st.io) \o x) \o <<c>>
                  /\ n.wp = st.wp + Len(x) /\ n.acc = st.acc + Len(x)
                  /\ n.cr = b

FlushPut(st, s, to, c) == Then(Flush(st, s, to), PutChar(Flush(st, s, to), c))

LEMMA BothGive ==
    ASSUME TermConstants, NEW st \in WriteStates, ~st.done, NEW s \in Seq(Keys), NEW to \in 1 .. Len(s),
           st.wp <= to, NEW c \in Keys
    PROVE  Puts(st, FlushPut(st, s, to, c), SubSeq(s, st.wp, to), c, st.cr)
<1> DEFINE f == Flush(st, s, to)
           x == SubSeq(s, st.wp, to)
           y == Out(st.io) \o x
           p == PutChar(f, c)
           n == FlushPut(st, s, to, c)
<1>0. st.wp \in Nat \ {0} /\ st.acc \in Nat /\ st.io \in Sinks /\ to \in 0 .. Len(s) BY WriteFields
<1>1. x \in Seq(Keys) /\ x # <<>> /\ Len(x) \in Nat
  <2>1. x \in Seq(Keys) /\ Len(x) = to - st.wp + 1 BY <1>0, PieceTyped
  <2> HIDE DEF x
  <2> QED BY <1>0, <2>1
<1>2. /\ f \in WriteStates /\ f.cr = st.cr /\ f.skip = st.skip
      /\ Out(f.io) = Cut(y)
      /\ f.done => f.cnt = st.acc /\ Full(f.io)
      /\ ~f.done => \E k \in 1 .. Len(x) :
            /\ f.wp = st.wp + k /\ f.acc = st.acc + k
            /\ k # Len(x) => Full(f.io)
            /\ k = Len(x) => Out(f.io) = y
  <2>1. /\ f \in WriteStates /\ f.cr = st.cr /\ f.skip = st.skip
        /\ Out(f.io) = Cut(y)
        /\ ~st.done /\ f.done => f.cnt = st.acc /\ f.wp = st.wp /\ f.acc = st.acc
                                 /\ (x # <<>> => Full(f.io))
        /\ ~f.done => \E k \in 1 .. Len(x) :
              /\ ~st.done /\ f.wp = st.wp + k /\ f.acc = st.acc + k
              /\ k # Len(x) => Full(f.io)
              /\ k = Len(x) => Out(f.io) = y
    BY <1>0, FlushGives
  <2> HIDE DEF f, x, y
  <2> QED BY <1>1, <2>1
<1>3. y \in Seq(OutChars) /\ <<c>> \in Seq(OutChars)
  <2>1. Out(st.io) \in Seq(OutChars) /\ x \in Seq(OutChars) BY <1>0, <1>1, OutTyped, KeysOut
  <2>2. <<c>> \in Seq(Keys) OBVIOUS
  <2>3. <<c>> \in Seq(OutChars) BY <2>2, KeysOut
  <2> HIDE DEF x
  <2> QED BY <2>1, <2>3
<1>4. n = IF f.done THEN f ELSE p BY DEF FlushPut, Then
<1> HIDE DEF f, n, y, x
<1>5. CASE f.done
  <2>1. f.io \in Sinks BY <1>2, WriteFields
  <2>2. Len(y) >= SinkSize BY <1>2, <1>3, <1>5, <2>1, FullLong
  <2>3. Cut(y \o <<c>>) = Cut(y) BY <1>3, <2>2, CutLonger
  <2>4. f.cnt <= st.acc BY <1>0, <1>2, <1>5
  <2> QED BY <1>2, <1>4, <1>5, <2>3, <2>4 DEF Puts, n, y, x
<1>6. CASE ~f.done
  <2>1. /\ p \in WriteStates /\ p.cr = f.cr /\ p.skip = f.skip
        /\ p.wp = f.wp /\ p.acc = f.acc
        /\ Out(p.io) = Cut(Out(f.io) \o <<c>>)
        /\ p.done => Full(p.io) /\ p.cnt = -5
        /\ ~p.done => Out(p.io) = Out(f.io) \o <<c>>
    BY <1>2, <1>6, PutGives
  <2> HIDE DEF p
  <2>2. Out(p.io) = Cut(y \o <<c>>) BY <1>2, <1>3, <2>1, CutCut
  <2>3. p.done => p.cnt <= st.acc BY <1>0, <2>1
  <2>4. ASSUME ~p.done
        PROVE  Out(p.io) = y \o <<c>> /\ p.wp = st.wp + Len(x) /\ p.acc = st.acc + Len(x)
    <3>1. PICK k \in 1 .. Len(x) :
             /\ f.wp = st.wp + k /\ f.acc = st.acc + k
             /\ k # Len(x) => Full(f.io)
             /\ k = Len(x) => Out(f.io) = y
      BY <1>2, <1>6
    <3>2. f.io \in Sinks /\ p.io \in Sinks BY <1>2, <2>1, WriteFields
    <3>3. ~Full(f.io)
      <4> SUFFICES ASSUME Full(f.io) PROVE FALSE OBVIOUS
      <4>1. Out(f.io) \in Seq(OutChars) /\ Len(Out(f.io)) = SinkSize BY <3>2, OutTyped DEF Full
      <4>2. Len(Out(f.io) \o <<c>>) = SinkSize + 1 BY <1>3, <4>1
      <4>3. Len(Out(p.io)) = p.io.pos BY <3>2, OutTyped
      <4>4. p.io.pos \in 0 .. SinkSize /\ SinkSize \in Nat BY <3>2 DEF Sinks, TermConstants
      <4> QED BY <2>1, <2>4, <4>2, <4>3, <4>4
    <3> QED BY <2>1, <2>4, <3>1, <3>3
  <2>5. n = p BY <1>4, <1>6
  <2> QED BY <1>2, <2>1, <2>2, <2>3, <2>4, <2>5 DEF Puts, n, y, x
<1> QED BY <1>5, <1>6

\* One character of the scan.
NextChar(st, s, i) ==
    IF st.done THEN st
    ELSE IF st.skip THEN [st EXCEPT !.skip = FALSE]
    ELSE WriteChar(st, s, i)

LEMMA NextTyped ==
    ASSUME TermConstants, NEW st \in WriteStates, NEW s \in Seq(Keys), NEW i \in 1 .. Len(s)
    PROVE  NextChar(st, s, i) \in WriteStates
<1> DEFINE w == WriteChar(st, s, i)
<1>0. CR \in Keys /\ LF \in Keys BY CodesAre
<1>1. \A t \in WriteStates : /\ [t EXCEPT !.skip = FALSE] \in WriteStates
                             /\ [t EXCEPT !.cr = FALSE] \in WriteStates
                             /\ [t EXCEPT !.cr = TRUE] \in WriteStates
                             /\ [t EXCEPT !.cr = FALSE, !.skip = TRUE] \in WriteStates
  BY DEF WriteStates
<1>2. [st EXCEPT !.cr = FALSE, !.wp = @ + 1] \in WriteStates
  <2>1. st.wp \in Nat \ {0} /\ st.wp + 1 \in Nat \ {0} BY WriteFields
  <2>2. \A k \in Nat \ {0} : [st EXCEPT !.cr = FALSE, !.wp = k] \in WriteStates BY DEF WriteStates
  <2>3. [st EXCEPT !.cr = FALSE, !.wp = @ + 1] = [st EXCEPT !.cr = FALSE, !.wp = st.wp + 1]
    BY DEF WriteStates
  <2> QED BY <2>1, <2>2, <2>3
<1>3. \A to \in 0 .. Len(s) : Flush(st, s, to) \in WriteStates BY FlushGives
<1>4. \A t \in WriteStates : PutChar(t, LF) \in WriteStates /\ PutChar(t, CR) \in WriteStates
  BY <1>0, PutGives
<1>5. i \in 0 .. Len(s) /\ i - 1 \in 0 .. Len(s) OBVIOUS
<1>6. w \in WriteStates
  <2>1. CASE s[i] = CR /\ Pair(s, i) BY <1>1, <2>1 DEF WriteChar
  <2>2. CASE s[i] = CR /\ ~Pair(s, i)
    <3> DEFINE f == Flush(st, s, i)
               p == Then(f, PutChar(f, LF))
    <3>1. w = Then(p, [p EXCEPT !.cr = TRUE]) BY <2>2 DEF WriteChar
    <3>2. f \in WriteStates BY <1>3, <1>5
    <3> HIDE DEF f
    <3>3. p \in WriteStates BY <1>4, <3>2 DEF Then
    <3> HIDE DEF p, w
    <3> QED BY <1>1, <3>1, <3>3 DEF Then
  <2>3. CASE s[i] = LF /\ s[i] # CR
    <3>1. CASE st.cr BY <1>2, <2>3, <3>1 DEF WriteChar, Skipped
    <3>2. CASE ~st.cr
      <4> DEFINE f == IF st.wp # i THEN Flush(st, s, i - 1) ELSE st
                 p == Then(f, PutChar(f, CR))
      <4>1. w = Then(p, [p EXCEPT !.cr = FALSE]) BY <2>3, <3>2 DEF WriteChar
      <4>2. f \in WriteStates BY <1>3, <1>5
      <4> HIDE DEF f
      <4>3. p \in WriteStates BY <1>4, <4>2 DEF Then
      <4> HIDE DEF p, w
      <4> QED BY <1>1, <4>1, <4>3 DEF Then
    <3> QED BY <3>1, <3>2
  <2>4. CASE s[i] # LF /\ s[i] # CR BY <1>1, <2>4 DEF WriteChar
  <2> QED BY <2>1, <2>2, <2>3, <2>4
<1> HIDE DEF w
<1> QED BY <1>1, <1>6 DEF NextChar, w

\* n is st with another position, and other marks.
Marks(st, n, wp, cr, skip) ==
    /\ n \in WriteStates /\ n.io = st.io /\ n.acc = st.acc /\ ~n.done
    /\ n.wp = wp /\ n.cr = cr /\ n.skip = skip

LEMMA CharCases ==
    ASSUME TermConstants, NEW st \in WriteStates, NEW s \in Seq(Keys), NEW i \in 1 .. Len(s),
           ~st.done, st.wp <= i
    PROVE  LET n == NextChar(st, s, i)
           IN /\ st.skip => Marks(st, n, st.wp, st.cr, FALSE)
              /\ ~st.skip /\ s[i] = CR /\ Pair(s, i) => Marks(st, n, st.wp, FALSE, TRUE)
              /\ ~st.skip /\ s[i] = CR /\ ~Pair(s, i) =>
                    Puts(st, n, SubSeq(s, st.wp, i), LF, TRUE)
              /\ ~st.skip /\ s[i] = LF /\ st.cr => Marks(st, n, st.wp + 1, FALSE, FALSE)
              /\ ~st.skip /\ s[i] = LF /\ ~st.cr =>
                    Puts(st, n, SubSeq(s, st.wp, i - 1), CR, FALSE)
              /\ ~st.skip /\ s[i] \notin {CR, LF} => Marks(st, n, st.wp, FALSE, FALSE)
<1> DEFINE n == NextChar(st, s, i)
           w == WriteChar(st, s, i)
<1>0. CR \in Keys /\ LF \in Keys /\ CR # LF BY CodesAre
<1>1. n \in WriteStates BY NextTyped
<1>2. st.wp \in Nat \ {0} BY WriteFields
<1>3. st.skip => n = [st EXCEPT !.skip = FALSE] BY DEF NextChar
<1>4. ~st.skip => n = w BY DEF NextChar
<1> HIDE DEF n
<1>5. st.skip => Marks(st, n, st.wp, st.cr, FALSE) BY <1>1, <1>3 DEF Marks, WriteStates
<1>6. ASSUME ~st.skip, s[i] = CR, Pair(s, i) PROVE Marks(st, n, st.wp, FALSE, TRUE)
  <2>1. n = [st EXCEPT !.cr = FALSE, !.skip = TRUE] BY <1>4, <1>6 DEF WriteChar
  <2> QED BY <1>1, <2>1 DEF Marks, WriteStates
<1>7. ASSUME NEW p \in WriteStates, NEW x, NEW c, NEW b \in BOOLEAN, Puts(st, p, x, c, st.cr),
             n = Then(p, [p EXCEPT !.cr = b])
      PROVE  Puts(st, n, x, c, b)
  <2>1. CASE p.done
    <3>1. n = p BY <1>7, <2>1 DEF Then
    <3> QED BY <1>7, <2>1, <3>1 DEF Puts
  <2>2. CASE ~p.done
    <3>1. n = [p EXCEPT !.cr = b] BY <1>7, <2>2 DEF Then
    <3>2. n.skip = p.skip /\ n.io = p.io /\ n.done = p.done /\ n.cnt = p.cnt /\ n.wp = p.wp
          /\ n.acc = p.acc /\ n.cr = b
      BY <3>1 DEF WriteStates
    <3> QED BY <1>1, <1>7, <2>2, <3>2 DEF Puts
  <2> QED BY <2>1, <2>2
<1>8. ASSUME ~st.skip, s[i] = CR, ~Pair(s, i) PROVE Puts(st, n, SubSeq(s, st.wp, i), LF, TRUE)
  <2> DEFINE p == FlushPut(st, s, i, LF)
  <2>1. n = Then(p, [p EXCEPT !.cr = TRUE]) BY <1>4, <1>8 DEF WriteChar, FlushPut
  <2>2. Puts(st, p, SubSeq(s, st.wp, i), LF, st.cr) BY <1>0, BothGive
  <2>3. p \in WriteStates BY <2>2 DEF Puts
  <2> HIDE DEF p
  <2> QED BY <1>7, <2>1, <2>2, <2>3
<1>9. ASSUME ~st.skip, s[i] = LF, st.cr PROVE Marks(st, n, st.wp + 1, FALSE, FALSE)
  <2>1. n = [st EXCEPT !.cr = FALSE, !.wp = @ + 1]
    BY <1>0, <1>4, <1>9 DEF WriteChar, Skipped
  <2>2. st.skip = FALSE BY <1>9, WriteFields
  <2> QED BY <1>1, <2>1, <2>2 DEF Marks, WriteStates
<1>10. ASSUME ~st.skip, s[i] = LF, ~st.cr
       PROVE  Puts(st, n, SubSeq(s, st.wp, i - 1), CR, FALSE)
  <2> DEFINE f == IF st.wp # i THEN Flush(st, s, i - 1) ELSE st
             p == Then(f, PutChar(f, CR))
  <2>1. n = Then(p, [p EXCEPT !.cr = FALSE]) BY <1>0, <1>4, <1>10 DEF WriteChar
  <2>2. Puts(st, p, SubSeq(s, st.wp, i - 1), CR, st.cr)
    <3>1. CASE st.wp # i
      <4>1. p = FlushPut(st, s, i - 1, CR) BY <3>1 DEF FlushPut
      <4>2. i - 1 \in 1 .. Len(s) /\ st.wp <= i - 1 BY <1>2, <3>1
      <4> HIDE DEF p
      <4> QED BY <1>0, <4>1, <4>2, BothGive
    <3>2. CASE st.wp = i
      <4> DEFINE q == PutChar(st, CR)
                 x == SubSeq(s, st.wp, i - 1)
      <4>1. p = q BY <3>2 DEF Then
      <4>2. /\ q \in WriteStates /\ q.cr = st.cr /\ q.skip = st.skip
            /\ q.wp = st.wp /\ q.acc = st.acc
            /\ Out(q.io) = Cut(Out(st.io) \o <<CR>>)
            /\ q.done => Full(q.io) /\ q.cnt = -5
            /\ ~q.done => Out(q.io) = Out(st.io) \o <<CR>>
        BY <1>0, PutGives
      <4>3. x = <<>>
        <5>1. st.wp \in Int /\ i - 1 \in Int /\ i - 1 < st.wp BY <1>2, <3>2
        <5> QED BY <5>1, SubSeqEmpty
      <4> HIDE DEF x
      <4>4. Len(x) = 0 BY <4>3
      <4>5. Out(st.io) \o x = Out(st.io)
        <5>1. st.io \in Sinks BY WriteFields
        <5>2. Out(st.io) \in Seq(OutChars) BY <5>1, OutTyped
        <5> QED BY <4>3, <5>2
      <4>6. st.wp \in Nat /\ st.acc \in Nat BY WriteFields
      <4> HIDE DEF p, q, x
      <4>7. Puts(st, q, x, CR, st.cr) BY <4>2, <4>4, <4>5, <4>6 DEF Puts
      <4> QED BY <4>1, <4>7 DEF x
    <3> QED BY <3>1, <3>2
  <2>3. p \in WriteStates BY <2>2 DEF Puts
  <2> HIDE DEF p
  <2> QED BY <1>7, <2>1, <2>2, <2>3
<1>11. ASSUME ~st.skip, s[i] \notin {CR, LF} PROVE Marks(st, n, st.wp, FALSE, FALSE)
  <2>1. n = [st EXCEPT !.cr = FALSE] BY <1>4, <1>11 DEF WriteChar
  <2>2. st.skip = FALSE BY <1>11, WriteFields
  <2> QED BY <1>1, <2>1, <2>2 DEF Marks, WriteStates
<1> QED BY <1>5, <1>6, <1>8, <1>9, <1>10, <1>11 DEF n

Start(cr, io) ==
    [wp |-> 1, acc |-> 0, cr |-> cr, io |-> io, skip |-> FALSE, done |-> FALSE, cnt |-> 0]
Ending(st, s) == IF ~st.done /\ st.wp <= Len(s) THEN Flush(st, s, Len(s)) ELSE st
WriteRun(g, s, cr, io) ==
    /\ g \in [0 .. Len(s) -> WriteStates] /\ g[0] = Start(cr, io)
    /\ \A k \in 1 .. Len(s) : g[k] = NextChar(g[k - 1], s, k)

LEMMA WriteFold ==
    ASSUME TermConstants, NEW cr \in BOOLEAN, NEW io \in Sinks, NEW s \in Seq(Keys)
    PROVE  \E g : /\ WriteRun(g, s, cr, io)
                  /\ LET e == Ending(g[Len(s)], s)
                     IN ioterm_write(s, cr, io) =
                          [io |-> e.io, cr |-> e.cr, cnt |-> IF e.done THEN e.cnt ELSE e.acc]
<1> DEFINE len == Len(s)
           idx == [i \in 1 .. len |-> i]
           b == Start(cr, io)
           Op(x, i) == NextChar(x, s, i)
           r == FoldLeft(LAMBDA x, i : Op(x, i), b, idx)
           step == [k \in 1 .. len |-> [x \in WriteStates |-> Op(x, k)]]
           Eq(it) == it = [t \in SUBSET (1 .. len) |->
              IF t = {} THEN b ELSE Op(it[t \ {Max(t)}], idx[Max(t)])]
           e == Ending(r, s)
<1>0. b \in WriteStates /\ len \in Nat BY DEF WriteStates, Start
<1>1. step \in Steps(len, WriteStates) BY NextTyped DEF Steps
<1> HIDE DEF b
<1>2. ioterm_write(s, cr, io) =
         [io |-> e.io, cr |-> e.cr, cnt |-> IF e.done THEN e.cnt ELSE e.acc]
  BY DEF ioterm_write, FoldLeft, MapThenFoldSet, Ending, NextChar, b, Start
<1> HIDE DEF Op, e
<1>3. PICK f : Solves(f, b, len, step, WriteStates)
  <2> HIDE DEF step, len
  <2> QED BY ONLY <1>0, <1>1, FoldExists
<1>4. ASSUME NEW t \in SUBSET (1 .. len), t # {}
      PROVE  Max(t) \in 1 .. len /\ idx[Max(t)] = Max(t)
             /\ \A x \in WriteStates : step[Max(t)][x] = Op(x, Max(t))
  <2>1. Max(t) \in 1 .. len BY <1>0, <1>4, MaxIndex
  <2> QED BY <2>1
<1>5. Eq(f) BY <1>3, <1>4 DEF Solves
<1>6. Eq(CHOOSE it : Eq(it)) BY <1>5
<1>7. PICK it : Eq(it) /\ r = it[1 .. len]
  <2>1. DOMAIN idx = 1 .. len OBVIOUS
  <2>2. r = (CHOOSE it : Eq(it))[1 .. len] BY <2>1 DEF FoldLeft, MapThenFoldSet, Max, Max
  <2> QED BY <1>6, <2>2
<1>8. StepsSolve(it, b, len, step, WriteStates) BY <1>4, <1>7 DEF StepsSolve
<1>9. PICK g : Values(g, b, len, step, WriteStates, it[1 .. len])
  <2> HIDE DEF step, len
  <2> QED BY ONLY <1>0, <1>1, <1>8, FoldSteps
<1>10. g \in [0 .. len -> WriteStates] /\ g[0] = b /\ g[len] = r BY <1>7, <1>9 DEF Values
<1>11. \A k \in 1 .. len : g[k] = Op(g[k - 1], k)
  <2> TAKE k \in 1 .. len
  <2>0. k - 1 \in 0 .. len OBVIOUS
  <2>1. g[k - 1] \in WriteStates BY <1>10, <2>0
  <2>2. g[k] = step[k][g[k - 1]] BY <1>9 DEF Values
  <2> QED BY <2>1, <2>2
<1>12. WriteRun(g, s, cr, io) BY <1>10, <1>11 DEF WriteRun, Op, b
<1> QED BY <1>2, <1>10, <1>12 DEF e

\* Wherever a write stops, it counts no more than it was given, and a literal
\* that is full stays as it is.
Sound(io, s, st, k) ==
    /\ ~st.done => st.wp <= k + 1 /\ st.acc <= st.wp - 1
    /\ st.done => st.cnt <= Len(s)
    /\ Full(io) => Full(st.io) /\ Out(st.io) = Out(io)

LEMMA FullKeeps ==
    ASSUME TermConstants, NEW io \in Sinks, Full(io), NEW io2 \in Sinks, NEW y \in Seq(OutChars),
           Out(io2) = Cut(Out(io) \o y)
    PROVE  Full(io2) /\ Out(io2) = Out(io)
<1>1. Out(io) \in Seq(OutChars) /\ Len(Out(io)) = SinkSize /\ Len(Out(io2)) = io2.pos
  BY OutTyped DEF Full
<1>2. SinkSize \in Nat BY DEF TermConstants
<1>3. Cut(Out(io) \o y) = Cut(Out(io)) BY <1>1, <1>2, CutLonger
<1>4. Cut(Out(io)) = Out(io) BY <1>1, <1>2, CutIs
<1> QED BY <1>1, <1>3, <1>4 DEF Full

LEMMA SoundStep ==
    ASSUME TermConstants, NEW io \in Sinks, NEW s \in Seq(Keys), NEW st \in WriteStates,
           NEW k \in Nat, k + 1 <= Len(s), Sound(io, s, st, k)
    PROVE  Sound(io, s, NextChar(st, s, k + 1), k + 1)
<1> DEFINE i == k + 1
           n == NextChar(st, s, i)
<1>0. i \in 1 .. Len(s) /\ Len(s) \in Nat OBVIOUS
<1>1. st.wp \in Nat \ {0} /\ st.acc \in Nat /\ st.io \in Sinks BY WriteFields
<1>2. CASE st.done
  <2>1. n = st BY <1>2 DEF NextChar
  <2> HIDE DEF n
  <2> QED BY <1>2, <2>1 DEF Sound, n
<1>3. CASE ~st.done
  <2>1. st.wp <= i /\ st.acc <= st.wp - 1 BY <1>3 DEF Sound
  <2>2. /\ st.skip => Marks(st, n, st.wp, st.cr, FALSE)
        /\ ~st.skip /\ s[i] = CR /\ Pair(s, i) => Marks(st, n, st.wp, FALSE, TRUE)
        /\ ~st.skip /\ s[i] = CR /\ ~Pair(s, i) =>
              Puts(st, n, SubSeq(s, st.wp, i), LF, TRUE)
        /\ ~st.skip /\ s[i] = LF /\ st.cr => Marks(st, n, st.wp + 1, FALSE, FALSE)
        /\ ~st.skip /\ s[i] = LF /\ ~st.cr =>
              Puts(st, n, SubSeq(s, st.wp, i - 1), CR, FALSE)
        /\ ~st.skip /\ s[i] \notin {CR, LF} => Marks(st, n, st.wp, FALSE, FALSE)
    BY <1>0, <1>3, <2>1, CharCases
  <2> SUFFICES Sound(io, s, n, i) OBVIOUS
  <2> HIDE DEF n
  <2>3. ASSUME NEW wp \in {st.wp, st.wp + 1}, NEW cr, NEW skip, Marks(st, n, wp, cr, skip)
        PROVE  Sound(io, s, n, i)
    <3>1. n.io = st.io /\ n.acc = st.acc /\ ~n.done /\ n.wp = wp BY <2>3 DEF Marks
    <3>2. n.wp <= i + 1 /\ n.acc <= n.wp - 1 BY <1>1, <2>1, <3>1
    <3> QED BY <3>1, <3>2 DEF Sound
  <2>4. ASSUME NEW to \in {i, i - 1}, NEW c \in Keys, NEW cr,
               Puts(st, n, SubSeq(s, st.wp, to), c, cr)
        PROVE  Sound(io, s, n, i)
    <3> DEFINE x == SubSeq(s, st.wp, to)
    <3>1. x \in Seq(Keys) /\ Len(x) \in Nat /\ st.wp + Len(x) <= i + 1
      <4>1. to \in 0 .. Len(s) /\ to <= i BY <1>0
      <4>2. x \in Seq(Keys) /\ Len(x) = IF st.wp <= to THEN to - st.wp + 1 ELSE 0
        BY <1>1, <4>1, PieceTyped
      <4> HIDE DEF x
      <4> QED BY <1>0, <1>1, <2>1, <4>1, <4>2
    <3> HIDE DEF x
    <3>2. /\ n.io \in Sinks
          /\ Out(n.io) = Cut((Out(st.io) \o x) \o <<c>>)
          /\ n.done => n.cnt <= st.acc
          /\ ~n.done => n.wp = st.wp + Len(x) /\ n.acc = st.acc + Len(x)
      <4>1. Puts(st, n, x, c, cr) BY <2>4 DEF x
      <4> QED BY <4>1, WriteFields DEF Puts
    <3>3. ~n.done => n.wp <= i + 1 /\ n.acc <= n.wp - 1 BY <1>0, <1>1, <2>1, <3>1, <3>2
    <3>4. n.done => n.cnt <= Len(s)
      <4>1. n.cnt \in Int
        <5>1. n \in WriteStates BY <2>4 DEF Puts
        <5> QED BY <5>1, WriteFields
      <4>2. st.acc <= Len(s) BY <1>0, <1>1, <2>1
      <4> QED BY <1>0, <1>1, <3>2, <4>1, <4>2
    <3>5. ASSUME Full(io) PROVE Full(n.io) /\ Out(n.io) = Out(io)
      <4>1. Full(st.io) /\ Out(st.io) = Out(io) BY <3>5 DEF Sound
      <4> DEFINE y == x \o <<c>>
      <4>2. y \in Seq(OutChars)
        <5>1. x \o <<c>> \in Seq(Keys) BY <3>1
        <5> QED BY <5>1, KeysOut
      <4>3. (Out(st.io) \o x) \o <<c>> = Out(st.io) \o y
        <5>1. Out(st.io) \in Seq(OutChars) BY <1>1, OutTyped
        <5>2. x \in Seq(OutChars) BY <3>1, KeysOut
        <5>3. <<c>> \in Seq(Keys) OBVIOUS
        <5>4. <<c>> \in Seq(OutChars) BY <5>3, KeysOut
        <5> QED BY <5>1, <5>2, <5>4, ConcatAssociative
      <4> HIDE DEF y
      <4> QED BY <1>1, <3>2, <4>1, <4>2, <4>3, FullKeeps
    <3> QED BY <3>3, <3>4, <3>5 DEF Sound
  <2>5. CR \in Keys /\ LF \in Keys BY CodesAre
  <2>6. \/ st.skip
        \/ ~st.skip /\ s[i] = CR /\ Pair(s, i)
        \/ ~st.skip /\ s[i] = CR /\ ~Pair(s, i)
        \/ ~st.skip /\ s[i] = LF /\ st.cr
        \/ ~st.skip /\ s[i] = LF /\ ~st.cr
        \/ ~st.skip /\ s[i] \notin {CR, LF}
    OBVIOUS
  <2>7. CASE st.skip BY <2>2, <2>3, <2>7
  <2>8. CASE ~st.skip /\ s[i] = CR /\ Pair(s, i) BY <2>2, <2>3, <2>8
  <2>9. CASE ~st.skip /\ s[i] = CR /\ ~Pair(s, i) BY <2>2, <2>4, <2>5, <2>9
  <2>10. CASE ~st.skip /\ s[i] = LF /\ st.cr BY <2>2, <2>3, <2>10
  <2>11. CASE ~st.skip /\ s[i] = LF /\ ~st.cr BY <2>2, <2>4, <2>5, <2>11
  <2>12. CASE ~st.skip /\ s[i] \notin {CR, LF} BY <2>2, <2>3, <2>12
  <2> QED BY <2>6, <2>7, <2>8, <2>9, <2>10, <2>11, <2>12
<1> QED BY <1>2, <1>3

LEMMA WriteSound ==
    ASSUME TermConstants, NEW cr \in BOOLEAN, NEW io \in Sinks, NEW s \in Seq(Keys)
    PROVE  LET r == ioterm_write(s, cr, io)
           IN /\ r.io \in Sinks /\ r.cr \in BOOLEAN /\ r.cnt \in Int /\ r.cnt <= Len(s)
              /\ Full(io) => Full(r.io) /\ Out(r.io) = Out(io)
<1> DEFINE len == Len(s)
           r == ioterm_write(s, cr, io)
<1>0. len \in Nat OBVIOUS
<1>1. PICK g : /\ WriteRun(g, s, cr, io)
               /\ r = [io |-> Ending(g[len], s).io, cr |-> Ending(g[len], s).cr,
                       cnt |-> IF Ending(g[len], s).done THEN Ending(g[len], s).cnt
                               ELSE Ending(g[len], s).acc]
  BY WriteFold
<1> HIDE DEF r
<1>2. ASSUME NEW k \in Nat, k <= len PROVE g[k] \in WriteStates BY <1>1, <1>2 DEF WriteRun
<1> DEFINE P == {k \in Nat : k <= len => Sound(io, s, g[k], k)}
<1>3. 0 \in P
  <2>1. g[0] = Start(cr, io) BY <1>1 DEF WriteRun
  <2>2. Sound(io, s, Start(cr, io), 0) BY DEF Sound, Start
  <2> QED BY <2>1, <2>2
<1>4. ASSUME NEW k \in Nat, k \in P PROVE k + 1 \in P
  <2> SUFFICES ASSUME k + 1 <= len PROVE Sound(io, s, g[k + 1], k + 1) OBVIOUS
  <2>1. k <= len /\ k + 1 \in 1 .. len /\ k + 1 - 1 = k BY <1>0
  <2>2. Sound(io, s, g[k], k) /\ g[k] \in WriteStates BY <1>2, <1>4, <2>1
  <2>3. g[k + 1] = NextChar(g[k], s, k + 1) BY <1>1, <2>1 DEF WriteRun
  <2> QED BY <2>2, <2>3, SoundStep
<1> HIDE DEF P
<1>5. Nat \subseteq P BY <1>3, <1>4, Induction
<1> DEFINE st == g[len]
           e == Ending(st, s)
<1>6. Sound(io, s, st, len) /\ st \in WriteStates BY <1>0, <1>2, <1>5 DEF P
<1>7. r = [io |-> e.io, cr |-> e.cr, cnt |-> IF e.done THEN e.cnt ELSE e.acc] BY <1>1
<1> HIDE DEF st
<1>8. /\ e \in WriteStates
      /\ (IF e.done THEN e.cnt ELSE e.acc) <= len
      /\ Full(io) => Full(e.io) /\ Out(e.io) = Out(io)
  <2>0. st.wp \in Nat \ {0} /\ st.acc \in Nat /\ st.io \in Sinks /\ st.cnt \in Int BY <1>6, WriteFields
  <2>1. CASE ~st.done /\ st.wp <= len
    <3> DEFINE f == Flush(st, s, len)
               x == SubSeq(s, st.wp, len)
    <3>1. e = f BY <2>1 DEF Ending
    <3>0. len \in 0 .. Len(s) BY <1>0
    <3> HIDE DEF e
    <3>2. /\ f \in WriteStates
          /\ Out(f.io) = Cut(Out(st.io) \o x)
          /\ f.done => f.cnt = st.acc
          /\ ~f.done => \E c \in 1 .. Len(x) : f.acc = st.acc + c
      <4>1. /\ f \in WriteStates
            /\ Out(f.io) = Cut(Out(st.io) \o x)
            /\ ~st.done /\ f.done => f.cnt = st.acc /\ f.wp = st.wp /\ f.acc = st.acc
                                     /\ (x # <<>> => Full(f.io))
            /\ ~f.done => \E c \in 1 .. Len(x) :
                  /\ ~st.done /\ f.wp = st.wp + c /\ f.acc = st.acc + c
                  /\ c # Len(x) => Full(f.io)
                  /\ c = Len(x) => Out(f.io) = Out(st.io) \o x
        BY <1>6, <3>0, FlushGives
      <4> HIDE DEF f, x
      <4> QED BY <2>1, <4>1
    <3>3. x \in Seq(Keys) /\ Len(x) = len - st.wp + 1 BY <1>0, <2>0, <2>1, PieceTyped
    <3> HIDE DEF f, x, e
    <3>4. st.acc <= st.wp - 1 BY <1>6, <2>1 DEF Sound
    <3>5. ~f.done => f.acc <= len
      <4> SUFFICES ASSUME ~f.done PROVE f.acc <= len OBVIOUS
      <4>1. PICK c \in 1 .. Len(x) : f.acc = st.acc + c BY <3>2
      <4> QED BY <1>0, <2>0, <3>3, <3>4, <4>1
    <3>6. f.done => f.cnt <= len BY <1>0, <2>0, <2>1, <3>2, <3>4
    <3>7. f.io \in Sinks BY <3>2, WriteFields
    <3>8. x \in Seq(OutChars) BY <3>3, KeysOut
    <3>9. ASSUME Full(io) PROVE Full(f.io) /\ Out(f.io) = Out(io)
      <4>1. Full(st.io) /\ Out(st.io) = Out(io) BY <1>6, <3>9 DEF Sound
      <4> QED BY <2>0, <3>2, <3>7, <3>8, <4>1, FullKeeps
    <3> QED BY <3>1, <3>2, <3>5, <3>6, <3>9
  <2>2. CASE ~(~st.done /\ st.wp <= len)
    <3>1. e = st BY <2>2 DEF Ending
    <3>2. ~st.done => st.acc <= len
      <4>1. ~st.done => st.wp <= len + 1 /\ st.acc <= st.wp - 1 BY <1>6 DEF Sound
      <4> QED BY <1>0, <2>0, <4>1
    <3>3. st.done => st.cnt <= len BY <1>6 DEF Sound
    <3>4. Full(io) => Full(st.io) /\ Out(st.io) = Out(io) BY <1>6 DEF Sound
    <3> HIDE DEF e
    <3> QED BY <1>6, <3>1, <3>2, <3>3, <3>4
  <2> QED BY <2>1, <2>2
<1> HIDE DEF e
<1>9. e.io \in Sinks /\ e.cr \in BOOLEAN /\ e.cnt \in Int /\ e.acc \in Int BY <1>8, WriteFields
<1>10. r.io = e.io /\ r.cr = e.cr /\ r.cnt = IF e.done THEN e.cnt ELSE e.acc BY <1>7
<1> QED BY <1>8, <1>9, <1>10 DEF r

------------------------------------------------------------------------------
(* What a write makes of its text *)

LEMMA Glue ==
    ASSUME NEW X, NEW w \in Seq(X), NEW x \in Seq(X), NEW c \in X
    PROVE  /\ w \o Append(x, c) = (w \o x) \o <<c>>
           /\ w \o <<>> = w
           /\ w \o x \in Seq(X)
<1>1. w \o x \in Seq(X) OBVIOUS
<1>2. w \o Append(x, c) = Append(w \o x, c) BY ConcatAppend
<1>3. Append(w \o x, c) = (w \o x) \o <<c>> BY <1>1
<1> QED BY <1>1, <1>2, <1>3

LEMMA TwoMore ==
    ASSUME NEW X, NEW w \in Seq(X), NEW c \in X, NEW d \in X
    PROVE  w \o <<c, d>> = (w \o <<c>>) \o <<d>>
<1>1. <<c>> \in Seq(X) /\ <<c, d>> = Append(<<c>>, d) OBVIOUS
<1>2. w \o Append(<<c>>, d) = Append(w \o <<c>>, d) BY <1>1, ConcatAppend
<1>3. w \o <<c>> \in Seq(X) BY <1>1
<1>4. Append(w \o <<c>>, d) = (w \o <<c>>) \o <<d>> BY <1>3
<1> QED BY <1>1, <1>2, <1>4

\* A piece of a text, and one character more.
LEMMA PieceMore ==
    ASSUME NEW s \in Seq(Keys), NEW i \in 1 .. Len(s), NEW from \in 1 .. i
    PROVE  SubSeq(s, from, i) = Append(SubSeq(s, from, i - 1), s[i])
<1> DEFINE a == SubSeq(s, from, i)
           b == SubSeq(s, from, i - 1)
           c == Append(b, s[i])
<1>1. s[i] \in Keys OBVIOUS
<1>2. a \in Seq(Keys) /\ Len(a) = i - from + 1 /\ \A j \in 1 .. i - from + 1 : a[j] = s[from + j - 1]
  <2>1. \A j \in from .. i : s[j] \in Keys
    <3> TAKE j \in from .. i
    <3>1. j \in 1 .. Len(s) OBVIOUS
    <3> QED BY <3>1
  <2> QED BY <2>1, SubSeqProperties
<1>3. b \in Seq(Keys) /\ Len(b) = i - from /\ \A j \in 1 .. i - from : b[j] = s[from + j - 1]
  <2>1. \A j \in from .. i - 1 : s[j] \in Keys
    <3> TAKE j \in from .. i - 1
    <3>1. j \in 1 .. Len(s) OBVIOUS
    <3> QED BY <3>1
  <2> QED BY <2>1, SubSeqProperties
<1> HIDE DEF a, b
<1>4. c \in Seq(Keys) /\ Len(c) = i - from + 1 /\ \A j \in 1 .. i - from + 1 : c[j] = s[from + j - 1]
  <2>0. c \in Seq(Keys) /\ Len(c) = Len(b) + 1 BY <1>1, <1>3, AppendProperties
  <2> HIDE DEF c
  <2>1. c \in Seq(Keys) /\ Len(c) = i - from + 1 BY <1>3, <2>0
  <2> USE DEF c
  <2>2. ASSUME NEW j \in 1 .. i - from + 1 PROVE c[j] = s[from + j - 1]
    <3>1. CASE j = i - from + 1
      <4>1. c[j] = s[i] /\ from + j - 1 = i BY <1>1, <1>3, <3>1
      <4> QED BY <4>1
    <3>2. CASE j # i - from + 1
      <4>1. j \in 1 .. i - from BY <3>2
      <4>2. c[j] = b[j] BY <1>1, <1>3, <4>1
      <4> QED BY <1>3, <4>1, <4>2
    <3> QED BY <3>1, <3>2
  <2> QED BY <2>1, <2>2
<1> HIDE DEF c
<1>5. a = c BY <1>2, <1>4, SeqEqual
<1> QED BY <1>5 DEF a, b, c

\* The texts of which A is what was written before and s what is being written.
Base(A, s, k) == A \o SubSeq(s, 1, k)

\* Before character k + 1: what is in the literal and what is pending of s make
\* the normal form, and cr says whether it ends with "\r".
Going(A, s, st, k) ==
    /\ ~st.done /\ st.wp <= k + 1
    /\ st.skip => /\ k < Len(s) /\ s[k + 1] = LF /\ EndsCR(Base(A, s, k)) /\ ~st.cr
    /\ ~st.skip => (st.cr <=> EndsCR(Base(A, s, k)))
    /\ st.cr => st.wp = k + 1 /\ (k = 0 \/ k = Len(s) \/ s[k + 1] # LF)
    /\ Normal(Base(A, s, k)) =
          (Out(st.io) \o SubSeq(s, st.wp, k)) \o (IF st.skip THEN <<LF>> ELSE <<>>)
    /\ st.acc = st.wp - 1 \/ (st.acc = st.wp - 2 /\ s[1] = LF /\ EndsCR(A))
CutOff(A, s, st, k) ==
    st.done /\ Full(st.io) /\ Out(st.io) = Cut(Normal(Base(A, s, k)))

LEMMA GoingStep ==
    ASSUME TermConstants, NEW A \in Seq(Keys), NEW s \in Seq(Keys), NEW st \in WriteStates,
           NEW k \in Nat, k + 1 <= Len(s), Going(A, s, st, k) \/ CutOff(A, s, st, k)
    PROVE  LET n == NextChar(st, s, k + 1)
           IN Going(A, s, n, k + 1) \/ CutOff(A, s, n, k + 1)
<1> DEFINE i == k + 1
           n == NextChar(st, s, i)
           a == Base(A, s, k)
           b == Base(A, s, i)
           c == s[i]
           w == Out(st.io)
           x == SubSeq(s, st.wp, k)
           x1 == SubSeq(s, st.wp, i)
<1>0. i \in 1 .. Len(s) /\ i - 1 = k /\ Len(s) \in Nat /\ c \in Keys OBVIOUS
<1>1. st.wp \in Nat \ {0} /\ st.acc \in Nat /\ st.io \in Sinks /\ st.cr \in BOOLEAN /\ st.skip \in BOOLEAN
  BY WriteFields
<1>2. CR \in Keys /\ LF \in Keys /\ CR # LF BY CodesAre
<1>3. a \in Seq(Keys) /\ b = Append(a, c) /\ b \in Seq(Keys)
  <2>1. SubSeq(s, 1, i) = Append(SubSeq(s, 1, k), c) /\ SubSeq(s, 1, k) \in Seq(Keys)
    BY <1>0, OneMore
  <2>2. a \in Seq(Keys) BY <2>1 DEF Base
  <2> HIDE DEF c
  <2>3. b = Append(a, c) BY <1>0, <2>1, ConcatAppend DEF Base
  <2> HIDE DEF a, b
  <2> QED BY <1>0, <2>2, <2>3
<1> HIDE DEF a, b, c
<1>4. Normal(a) \in Seq(Keys) /\ Normal(b) = Normal(a) \o Adds(a, c)
  BY <1>0, <1>3, NormalAppend
<1>5. EndsCR(b) <=> c = CR BY <1>0, <1>3, EndsAppend
<1>6. w \in Seq(OutChars) /\ x \in Seq(OutChars) /\ c \in OutChars /\ CR \in OutChars /\ LF \in OutChars
  <2>1. k \in 0 .. Len(s) BY <1>0
  <2>2. x \in Seq(Keys) BY <1>1, <2>1, PieceTyped
  <2> HIDE DEF x
  <2> QED BY <1>0, <1>1, <1>2, <2>2, OutTyped, KeysOut DEF OutChars
<1>7. CASE CutOff(A, s, st, k)
  <2>1. n = st BY <1>7 DEF NextChar, CutOff
  <2> DEFINE m == Normal(a)
             d == Adds(a, c)
  <2>2. m \in Seq(OutChars) /\ d \in Seq(OutChars) BY <1>0, <1>4, AddsTyped, KeysOut
  <2>3. Full(st.io) /\ Out(st.io) = Cut(m) BY <1>7 DEF CutOff, a
  <2>4. Normal(b) = m \o d BY <1>4
  <2> HIDE DEF m, d, n
  <2>5. Len(m) >= SinkSize BY <1>1, <2>2, <2>3, FullLong
  <2>6. Cut(Normal(b)) = Cut(m) BY <2>2, <2>4, <2>5, CutLonger
  <2> QED BY <1>7, <2>1, <2>3, <2>6 DEF CutOff, b, n
<1>8. CASE Going(A, s, st, k)
  <2> SUFFICES Going(A, s, n, i) \/ CutOff(A, s, n, i) OBVIOUS
  <2>1. /\ ~st.done /\ st.wp <= i
        /\ st.skip => k < Len(s) /\ c = LF /\ EndsCR(a) /\ ~st.cr
        /\ ~st.skip => (st.cr <=> EndsCR(a))
        /\ st.cr => st.wp = i /\ (k = 0 \/ k = Len(s) \/ c # LF)
        /\ Normal(a) = (w \o x) \o (IF st.skip THEN <<LF>> ELSE <<>>)
        /\ st.acc = st.wp - 1 \/ (st.acc = st.wp - 2 /\ s[1] = LF /\ EndsCR(A))
    BY <1>8 DEF Going, a, c
  <2>2. /\ st.skip => Marks(st, n, st.wp, st.cr, FALSE)
        /\ ~st.skip /\ c = CR /\ Pair(s, i) => Marks(st, n, st.wp, FALSE, TRUE)
        /\ ~st.skip /\ c = CR /\ ~Pair(s, i) => Puts(st, n, x1, LF, TRUE)
        /\ ~st.skip /\ c = LF /\ st.cr => Marks(st, n, st.wp + 1, FALSE, FALSE)
        /\ ~st.skip /\ c = LF /\ ~st.cr => Puts(st, n, x, CR, FALSE)
        /\ ~st.skip /\ c \notin {CR, LF} => Marks(st, n, st.wp, FALSE, FALSE)
    BY <1>0, <2>1, CharCases DEF c
  <2> HIDE DEF n
  <2>3. x1 = Append(x, c) /\ Len(x1) = i - st.wp + 1 /\ Len(x) = i - st.wp
    <3>1. st.wp \in 1 .. i BY <1>0, <1>1, <2>1
    <3>2. x1 = Append(x, c) BY <1>0, <3>1, PieceMore DEF c
    <3>3. k \in 0 .. Len(s) /\ i \in 0 .. Len(s) BY <1>0
    <3>4. Len(x1) = i - st.wp + 1 BY <1>1, <3>1, <3>3, PieceTyped
    <3>5. Len(x) = IF st.wp <= k THEN k - st.wp + 1 ELSE 0 BY <1>1, <3>3, PieceTyped
    <3> HIDE DEF x, x1
    <3>6. Len(x) = i - st.wp BY <1>0, <3>1, <3>5
    <3> QED BY <3>2, <3>4, <3>6
  <2>4. \A d, e \in OutChars :
           /\ w \o x1 = (w \o x) \o <<c>>
           /\ (w \o x) \o <<d, e>> = ((w \o x) \o <<d>>) \o <<e>>
           /\ (w \o x) \o <<>> = w \o x /\ (w \o x1) \o <<>> = w \o x1
           /\ w \o x \in Seq(OutChars) /\ x1 \in Seq(OutChars)
    <3> HIDE DEF w, x, x1
    <3>1. x1 \in Seq(OutChars) BY <1>6, <2>3
    <3>2. w \o x \in Seq(OutChars) /\ w \o x1 \in Seq(OutChars) BY <1>6, <3>1
    <3> DEFINE v == w \o x
               v1 == w \o x1
    <3>3. v1 = v \o <<c>> BY <1>6, <2>3, Glue
    <3> HIDE DEF v, v1
    <3>4. v \in Seq(OutChars) /\ v1 \in Seq(OutChars) BY <3>2 DEF v, v1
    <3>5. \A d, e \in OutChars : v \o <<d, e>> = (v \o <<d>>) \o <<e>>
      <4> TAKE d \in OutChars, e \in OutChars
      <4> QED BY <3>4, TwoMore
    <3>6. v \o <<>> = v /\ v1 \o <<>> = v1 BY <3>4
    <3> QED BY <3>1, <3>2, <3>3, <3>5, <3>6 DEF v, v1
  <2>5. \A m : n.wp = m => SubSeq(s, n.wp, i) = SubSeq(s, m, i) OBVIOUS
  <2>6. CASE st.skip
    <3>1. Adds(a, c) = <<>> BY <2>1, <2>6 DEF Adds
    <3>2. Normal(b) = Normal(a) BY <1>4, <3>1
    <3>3. Normal(b) = w \o x1 BY <1>6, <2>1, <2>4, <2>6, <3>2
    <3>4. n.io = st.io /\ n.acc = st.acc /\ ~n.done /\ n.wp = st.wp /\ n.cr = st.cr /\ n.skip = FALSE
      BY <2>2, <2>6 DEF Marks
    <3>5. Normal(b) = (Out(n.io) \o SubSeq(s, n.wp, i)) \o (IF n.skip THEN <<LF>> ELSE <<>>)
      BY <1>6, <2>4, <3>3, <3>4
    <3>6. ~n.cr /\ ~EndsCR(b) BY <1>2, <1>5, <2>1, <2>6, <3>4
    <3>7. n.wp <= i + 1 BY <1>0, <1>1, <2>1, <3>4
    <3> QED BY <2>1, <3>4, <3>5, <3>6, <3>7 DEF Going, b
  <2>7. CASE ~st.skip /\ c = CR /\ Pair(s, i)
    <3>1. Adds(a, c) = <<CR, LF>> BY <1>2, <2>7 DEF Adds
    <3>2. Normal(b) = (w \o x1) \o <<LF>>
      <4>1. Normal(a) = w \o x BY <1>6, <2>1, <2>4, <2>7
      <4>2. Normal(b) = (w \o x) \o <<CR, LF>> BY <1>4, <3>1, <4>1
      <4>3. (w \o x) \o <<CR, LF>> = ((w \o x) \o <<CR>>) \o <<LF>> BY <1>6, <2>4
      <4>4. w \o x1 = (w \o x) \o <<CR>> BY <1>6, <2>4, <2>7
      <4> QED BY <4>2, <4>3, <4>4
    <3>3. n.io = st.io /\ n.acc = st.acc /\ ~n.done /\ n.wp = st.wp /\ n.cr = FALSE /\ n.skip = TRUE
      BY <2>2, <2>7 DEF Marks
    <3>4. Normal(b) = (Out(n.io) \o SubSeq(s, n.wp, i)) \o (IF n.skip THEN <<LF>> ELSE <<>>)
      BY <3>2, <3>3
    <3>5. i < Len(s) /\ s[i + 1] = LF BY <2>7 DEF Pair
    <3>6. ~n.cr /\ EndsCR(b) BY <1>5, <2>7, <3>3
    <3>7. n.wp <= i + 1 BY <1>0, <1>1, <2>1, <3>3
    <3> QED BY <2>1, <3>3, <3>4, <3>5, <3>6, <3>7 DEF Going, b
  <2>8. CASE ~st.skip /\ c = CR /\ ~Pair(s, i)
    <3>1. Adds(a, c) = <<CR, LF>> BY <1>2, <2>8 DEF Adds
    <3>2. Normal(b) = (w \o x1) \o <<LF>>
      <4>1. Normal(a) = w \o x BY <1>6, <2>1, <2>4, <2>8
      <4>2. Normal(b) = (w \o x) \o <<CR, LF>> BY <1>4, <3>1, <4>1
      <4>3. (w \o x) \o <<CR, LF>> = ((w \o x) \o <<CR>>) \o <<LF>> BY <1>6, <2>4
      <4>4. w \o x1 = (w \o x) \o <<CR>> BY <1>6, <2>4, <2>8
      <4> QED BY <4>2, <4>3, <4>4
    <3>3. Puts(st, n, x1, LF, TRUE) BY <2>2, <2>8
    <3> HIDE DEF x1
    <3>4. CASE n.done
      <4>1. Full(n.io) /\ Out(n.io) = Cut(Normal(b)) BY <3>2, <3>3, <3>4 DEF Puts
      <4> QED BY <3>4, <4>1 DEF CutOff, b
    <3>5. CASE ~n.done
      <4>1. Out(n.io) = Normal(b) /\ n.wp = st.wp + Len(x1) /\ n.acc = st.acc + Len(x1)
            /\ n.cr = TRUE /\ n.skip = st.skip
        BY <3>2, <3>3, <3>5 DEF Puts
      <4>2. n.wp = i + 1 BY <1>0, <1>1, <2>3, <4>1
      <4>3. SubSeq(s, n.wp, i) = <<>>
        <5>1. i \in Int /\ i + 1 \in Int /\ i < i + 1 BY <1>0
        <5> QED BY <4>2, <5>1, SubSeqEmpty
      <4>4. Normal(b) = (Out(n.io) \o SubSeq(s, n.wp, i)) \o (IF n.skip THEN <<LF>> ELSE <<>>)
        <5>1. Out(n.io) \in Seq(OutChars)
          <6>1. n.io \in Sinks BY <3>3, WriteFields DEF Puts
          <6> QED BY <6>1, OutTyped
        <5>2. Out(n.io) \o <<>> = Out(n.io) BY <5>1
        <5>3. (Out(n.io) \o <<>>) \o <<>> = Out(n.io) BY <5>2
        <5> QED BY <2>8, <4>1, <4>3, <5>3
      <4>5. i = Len(s) \/ s[i + 1] # LF BY <1>0, <2>8 DEF Pair
      <4>6. n.cr /\ EndsCR(b) /\ ~n.skip BY <1>5, <2>8, <4>1
      <4>7. n.acc = n.wp - 1 \/ (n.acc = n.wp - 2 /\ s[1] = LF /\ EndsCR(A))
        <5>1. Len(x1) \in Nat BY <1>0, <1>1, <2>1, <2>3
        <5> QED BY <1>1, <2>1, <4>1, <5>1
      <4>8. n.wp <= i + 1 BY <1>0, <4>2
      <4> QED BY <3>5, <4>2, <4>4, <4>5, <4>6, <4>7, <4>8 DEF Going, b
    <3> QED BY <3>4, <3>5
  <2>9. CASE ~st.skip /\ c = LF /\ st.cr
    <3>1. EndsCR(a) /\ st.wp = i BY <2>1, <2>9
    <3>2. k = 0 BY <1>0, <2>1, <2>9
    <3>3. Adds(a, c) = <<>> BY <2>9, <3>1 DEF Adds
    <3>4. Normal(b) = Normal(a) BY <1>4, <3>3
    <3>5. x = <<>>
      <4>1. k \in Int /\ i \in Int /\ k < i BY <1>0
      <4> QED BY <3>1, <4>1, SubSeqEmpty
    <3>6. n.io = st.io /\ n.acc = st.acc /\ ~n.done /\ n.wp = st.wp + 1 /\ n.cr = FALSE /\ n.skip = FALSE
      BY <2>2, <2>9 DEF Marks
    <3>7. SubSeq(s, n.wp, i) = <<>>
      <4>1. i \in Int /\ i + 1 \in Int /\ i < i + 1 BY <1>0
      <4> QED BY <3>1, <3>6, <4>1, SubSeqEmpty
    <3>8. Normal(b) = (Out(n.io) \o SubSeq(s, n.wp, i)) \o (IF n.skip THEN <<LF>> ELSE <<>>)
      BY <2>1, <2>9, <3>4, <3>5, <3>6, <3>7
    <3>9. ~n.cr /\ ~EndsCR(b) BY <1>2, <1>5, <2>9, <3>6
    <3>10. EndsCR(A) /\ s[1] = LF
      <4>1. SubSeq(s, 1, 0) = <<>> OBVIOUS
      <4>2. a = A BY <3>2, <4>1 DEF Base, a
      <4> QED BY <2>9, <3>1, <3>2, <4>2 DEF c
    <3>11. n.acc = n.wp - 2 BY <1>1, <2>1, <3>1, <3>2, <3>6
    <3>12. n.wp <= i + 1 BY <1>0, <3>1, <3>6
    <3> QED BY <3>6, <3>8, <3>9, <3>10, <3>11, <3>12 DEF Going, b
  <2>10. CASE ~st.skip /\ c = LF /\ ~st.cr
    <3>1. Adds(a, c) = <<CR, LF>> BY <2>1, <2>10 DEF Adds
    <3>2. Normal(b) = ((w \o x) \o <<CR>>) \o <<LF>>
      <4>1. Normal(a) = w \o x BY <1>6, <2>1, <2>4, <2>10
      <4>2. Normal(b) = (w \o x) \o <<CR, LF>> BY <1>4, <3>1, <4>1
      <4> QED BY <1>6, <2>4, <4>2
    <3>3. Puts(st, n, x, CR, FALSE) BY <2>2, <2>10
    <3> DEFINE y == (w \o x) \o <<CR>>
    <3>4. y \in Seq(OutChars) /\ <<LF>> \in Seq(OutChars)
      <4>1. w \o x \in Seq(OutChars) BY <1>6, <2>4
      <4> HIDE DEF w, x
      <4> QED BY <1>6, <4>1
    <3>5. CASE n.done
      <4>1. Full(n.io) /\ Out(n.io) = Cut(y) /\ n.io \in Sinks
        BY <3>3, <3>5, WriteFields DEF Puts
      <4> HIDE DEF y
      <4>2. Len(y) >= SinkSize BY <3>4, <4>1, FullLong
      <4>3. Cut(y \o <<LF>>) = Cut(y) BY <3>4, <4>2, CutLonger
      <4>4. Cut(Normal(b)) = Cut(y) BY <3>2, <4>3 DEF y
      <4> QED BY <3>5, <4>1, <4>4 DEF CutOff, b
    <3>6. CASE ~n.done
      <4>1. Out(n.io) = y /\ n.wp = st.wp + Len(x) /\ n.acc = st.acc + Len(x)
            /\ n.cr = FALSE /\ n.skip = st.skip
        BY <3>3, <3>6 DEF Puts
      <4>2. n.wp = i BY <1>0, <1>1, <2>3, <4>1
      <4>3. SubSeq(s, n.wp, i) = <<LF>>
        <5>1. SubSeq(s, i, i) = <<c>>
          <6>1. SubSeq(s, i, i) = Append(SubSeq(s, i, k), c)
            <7>1. i \in 1 .. i BY <1>0
            <7> QED BY <1>0, <7>1, PieceMore DEF c
          <6>2. SubSeq(s, i, k) = <<>>
            <7>1. k \in Int /\ i \in Int /\ k < i BY <1>0
            <7> QED BY <7>1, SubSeqEmpty
          <6>3. Append(<<>>, c) = <<c>> OBVIOUS
          <6> QED BY <6>1, <6>2, <6>3, Zenon
        <5> QED BY <2>10, <4>2, <5>1
      <4>4. Normal(b) = (Out(n.io) \o SubSeq(s, n.wp, i)) \o (IF n.skip THEN <<LF>> ELSE <<>>)
        <5> DEFINE z == y \o <<LF>>
        <5>1. z \in Seq(OutChars)
          <6> HIDE DEF y
          <6> QED BY <3>4
        <5>2. Normal(b) = z BY <3>2
        <5>3. z = Out(n.io) \o SubSeq(s, n.wp, i) BY <4>1, <4>3
        <5> HIDE DEF z, y
        <5>4. z = z \o <<>> BY <5>1
        <5> QED BY <2>10, <4>1, <5>2, <5>3, <5>4
      <4>5. ~n.cr /\ ~EndsCR(b) /\ ~n.skip BY <1>2, <1>5, <2>10, <4>1
      <4>6. n.acc = n.wp - 1 \/ (n.acc = n.wp - 2 /\ s[1] = LF /\ EndsCR(A))
        <5>1. Len(x) \in Nat BY <1>6
        <5> HIDE DEF x
        <5> QED BY <1>1, <2>1, <4>1, <5>1
      <4>7. n.wp <= i + 1 BY <1>0, <4>2
      <4> QED BY <3>6, <4>4, <4>5, <4>6, <4>7 DEF Going, b
    <3> QED BY <3>5, <3>6
  <2>11. CASE ~st.skip /\ c \notin {CR, LF}
    <3>1. Adds(a, c) = <<c>> BY <2>11 DEF Adds
    <3>2. Normal(b) = w \o x1 BY <1>4, <1>6, <2>1, <2>4, <2>11, <3>1
    <3>3. n.io = st.io /\ n.acc = st.acc /\ ~n.done /\ n.wp = st.wp /\ n.cr = FALSE /\ n.skip = FALSE
      BY <2>2, <2>11 DEF Marks
    <3>4. Normal(b) = (Out(n.io) \o SubSeq(s, n.wp, i)) \o (IF n.skip THEN <<LF>> ELSE <<>>)
      BY <1>6, <2>4, <3>2, <3>3
    <3>5. ~n.cr /\ ~EndsCR(b) BY <1>5, <2>11, <3>3
    <3>6. n.wp <= i + 1 BY <1>0, <1>1, <2>1, <3>3
    <3> QED BY <2>1, <3>3, <3>4, <3>5, <3>6 DEF Going, b
  <2> QED BY <2>6, <2>7, <2>8, <2>9, <2>10, <2>11
<1> QED BY <1>7, <1>8

LEMMA EndCut ==
    ASSUME TermConstants, NEW y \in Seq(OutChars), NEW io \in Sinks, Out(io) = y
    PROVE  Cut(y) = y
<1>1. Len(y) = io.pos BY OutTyped
<1>2. io.pos <= SinkSize
  <2>1. io.pos \in 0 .. SinkSize /\ SinkSize \in Nat BY DEF Sinks, TermConstants
  <2> QED BY <2>1
<1> QED BY <1>1, <1>2, CutIs

LEMMA StartsGoing ==
    ASSUME TermConstants, NEW A \in Seq(Keys), NEW s \in Seq(Keys), NEW cr \in BOOLEAN,
           NEW io \in Sinks, Out(io) = Normal(A), cr <=> EndsCR(A)
    PROVE  Going(A, s, Start(cr, io), 0)
<1> DEFINE st == Start(cr, io)
           m == Normal(A)
<1>1. /\ st.wp = 1 /\ st.acc = 0 /\ st.cr = cr /\ st.io = io /\ st.skip = FALSE /\ st.done = FALSE
  BY DEF Start
<1>2. SubSeq(s, 1, 0) = <<>> OBVIOUS
<1>3. Base(A, s, 0) = A BY <1>2 DEF Base
<1>4. m \in Seq(Keys) BY NormalAppend, CodesAre
<1> HIDE DEF st, m
<1>5. (m \o <<>>) \o <<>> = m BY <1>4
<1>6. Normal(Base(A, s, 0)) =
         (Out(st.io) \o SubSeq(s, st.wp, 0)) \o (IF st.skip THEN <<LF>> ELSE <<>>)
  BY <1>1, <1>2, <1>3, <1>5 DEF m
<1>7. 1 <= 0 + 1 /\ 0 = 1 - 1 /\ 1 = 0 + 1 OBVIOUS
<1>8. Going(A, s, st, 0) BY <1>1, <1>3, <1>6, <1>7 DEF Going
<1> QED BY <1>8 DEF st

\* A write of a text after A leaves the literal with the normal form of both,
\* as far as it fits, unless the text begins with the "\n" of a pair.
LEMMA WriteGives ==
    ASSUME TermConstants, NEW A \in Seq(Keys), NEW s \in Seq(Keys), s # <<>>, NEW cr \in BOOLEAN,
           NEW io \in Sinks, Out(io) = Normal(A), cr <=> EndsCR(A),
           s[1] = LF /\ cr => s = <<LF>>
    PROVE  LET r == ioterm_write(s, cr, io)
           IN /\ Out(r.io) = Cut(Normal(A \o s))
              /\ ~Full(r.io) => /\ r.cr <=> EndsCR(A \o s)
                                /\ r.cnt = Len(s) \/ (r.cnt = 0 /\ s = <<LF>> /\ cr)
<1> DEFINE len == Len(s)
           r == ioterm_write(s, cr, io)
<1>0. len \in Nat /\ len # 0 OBVIOUS
<1>1. PICK g : /\ WriteRun(g, s, cr, io)
               /\ r = [io |-> Ending(g[len], s).io, cr |-> Ending(g[len], s).cr,
                       cnt |-> IF Ending(g[len], s).done THEN Ending(g[len], s).cnt
                               ELSE Ending(g[len], s).acc]
  BY WriteFold
<1> HIDE DEF r
<1>2. ASSUME NEW k \in Nat, k <= len PROVE g[k] \in WriteStates BY <1>1, <1>2 DEF WriteRun
<1> DEFINE Either(k) == Going(A, s, g[k], k) \/ CutOff(A, s, g[k], k)
           P == {k \in Nat : k <= len => Either(k)}
<1>3. 0 \in P
  <2>1. g[0] = Start(cr, io) BY <1>1 DEF WriteRun
  <2>2. Going(A, s, Start(cr, io), 0) BY StartsGoing
  <2> QED BY <2>1, <2>2
<1>4. ASSUME NEW k \in Nat, k \in P PROVE k + 1 \in P
  <2> SUFFICES ASSUME k + 1 <= len PROVE Either(k + 1) OBVIOUS
  <2>1. k <= len /\ k + 1 \in 1 .. len /\ k + 1 - 1 = k BY <1>0
  <2>2. Either(k) /\ g[k] \in WriteStates BY <1>2, <1>4, <2>1
  <2>3. g[k + 1] = NextChar(g[k], s, k + 1) BY <1>1, <2>1 DEF WriteRun
  <2> QED BY <2>2, <2>3, GoingStep
<1> HIDE DEF P
<1>5. Nat \subseteq P BY <1>3, <1>4, Induction
<1> DEFINE st == g[len]
           e == Ending(st, s)
           all == Normal(A \o s)
<1>6. (Going(A, s, st, len) \/ CutOff(A, s, st, len)) /\ st \in WriteStates
  BY <1>0, <1>2, <1>5 DEF P
<1>7. r = [io |-> e.io, cr |-> e.cr, cnt |-> IF e.done THEN e.cnt ELSE e.acc] BY <1>1
<1> HIDE DEF st
<1>8. Base(A, s, len) = A \o s
  <2>1. SubSeq(s, 1, Len(s)) = s OBVIOUS
  <2> QED BY <2>1 DEF Base
<1>9. all \in Seq(OutChars)
  <2>1. A \o s \in Seq(Keys) OBVIOUS
  <2>2. all \in Seq(Keys) BY <2>1, NormalAppend, CodesAre
  <2> QED BY <2>2, KeysOut
<1> HIDE DEF all
<1>10. st.wp \in Nat \ {0} /\ st.acc \in Nat /\ st.io \in Sinks BY <1>6, WriteFields
<1> SUFFICES /\ Out(e.io) = Cut(all)
             /\ ~Full(e.io) => /\ e.cr <=> EndsCR(A \o s)
                               /\ ~e.done /\ (e.acc = len \/ (e.acc = 0 /\ s = <<LF>> /\ cr))
  <2> HIDE DEF e
  <2>1. r.io = e.io /\ r.cr = e.cr /\ (~e.done => r.cnt = e.acc) BY <1>7
  <2> QED BY <2>1 DEF r, all
<1>11. CASE CutOff(A, s, st, len)
  <2>1. st.done /\ Full(st.io) /\ Out(st.io) = Cut(all) BY <1>8, <1>11 DEF CutOff, all
  <2>2. e = st BY <2>1 DEF Ending
  <2> QED BY <2>1, <2>2
<1>12. CASE Going(A, s, st, len)
  <2> DEFINE x == SubSeq(s, st.wp, len)
             w == Out(st.io)
  <2>1. /\ ~st.done /\ st.wp <= len + 1 /\ ~st.skip
        /\ st.cr <=> EndsCR(A \o s)
        /\ all = (w \o x) \o <<>>
        /\ st.acc = st.wp - 1 \/ (st.acc = st.wp - 2 /\ s[1] = LF /\ EndsCR(A))
    <3>1. ~(len < Len(s)) OBVIOUS
    <3>2. ~st.skip BY <1>12, <3>1 DEF Going
    <3> QED BY <1>8, <1>12, <3>2 DEF Going, all
  <2>2. x \in Seq(Keys) /\ Len(x) = IF st.wp <= len THEN len - st.wp + 1 ELSE 0
    <3>1. len \in 0 .. Len(s) BY <1>0
    <3> QED BY <1>10, <3>1, PieceTyped
  <2>3. w \in Seq(OutChars) /\ x \in Seq(OutChars) BY <1>10, <2>2, OutTyped, KeysOut
  <2>4. all = w \o x
    <3> HIDE DEF w, x
    <3>1. w \o x \in Seq(OutChars) BY <2>3
    <3> QED BY <2>1, <3>1
  <2>5. s[1] = LF /\ EndsCR(A) => len = 1 /\ s = <<LF>> /\ cr
    <3>1. s = <<LF>> => len = 1 OBVIOUS
    <3> QED BY <3>1
  <2>6. \A acc \in Nat, wp \in Nat :
           /\ wp = len + 1
           /\ acc = wp - 1 \/ (acc = wp - 2 /\ s[1] = LF /\ EndsCR(A))
           => acc = len \/ (acc = 0 /\ s = <<LF>> /\ cr)
    <3> TAKE acc \in Nat, wp \in Nat
    <3> HAVE wp = len + 1 /\ (acc = wp - 1 \/ (acc = wp - 2 /\ s[1] = LF /\ EndsCR(A)))
    <3>1. CASE acc = wp - 1 BY <1>0, <3>1
    <3>2. CASE acc = wp - 2 /\ s[1] = LF /\ EndsCR(A)
      <4>1. acc = 0 BY <2>5, <3>2
      <4> QED BY <2>5, <3>2, <4>1
    <3> QED BY <3>1, <3>2
  <2> HIDE DEF x, w
  <2>7. CASE st.wp <= len
    <3> DEFINE f == Flush(st, s, len)
    <3>0. len \in 0 .. Len(s) BY <1>0
    <3>1. e = f BY <2>1, <2>7 DEF Ending
    <3>2. /\ f \in WriteStates /\ f.cr = st.cr
          /\ Out(f.io) = Cut(w \o x)
          /\ ~st.done /\ f.done => f.cnt = st.acc /\ f.wp = st.wp /\ f.acc = st.acc
                                   /\ (x # <<>> => Full(f.io))
          /\ ~f.done => \E c \in 1 .. Len(x) :
                /\ ~st.done /\ f.wp = st.wp + c /\ f.acc = st.acc + c
                /\ c # Len(x) => Full(f.io)
                /\ c = Len(x) => Out(f.io) = w \o x
      BY <1>6, <3>0, FlushGives DEF w, x
    <3> HIDE DEF f, e
    <3>3. x # <<>>
      <4>1. Len(x) # 0 BY <1>0, <1>10, <2>2, <2>7
      <4> QED BY <4>1
    <3>4. ASSUME ~Full(f.io) PROVE ~f.done /\ (f.acc = len \/ (f.acc = 0 /\ s = <<LF>> /\ cr))
      <4>1. ~f.done BY <2>1, <3>2, <3>3, <3>4
      <4>2. f.wp = st.wp + Len(x) /\ f.acc = st.acc + Len(x) BY <3>2, <3>4, <4>1
      <4>3. Len(x) = len - st.wp + 1 BY <2>2, <2>7
      <4>4. f.wp = len + 1 BY <1>0, <1>10, <4>2, <4>3
      <4>5. f.acc \in Nat /\ f.wp \in Nat BY <3>2, WriteFields
      <4>6. f.acc = f.wp - 1 \/ (f.acc = f.wp - 2 /\ s[1] = LF /\ EndsCR(A))
        <5>1. Len(x) \in Nat BY <2>2
        <5> QED BY <1>10, <2>1, <4>2, <5>1
      <4> QED BY <2>6, <4>1, <4>4, <4>5, <4>6
    <3> QED BY <2>1, <2>4, <3>1, <3>2, <3>4
  <2>8. CASE ~(st.wp <= len)
    <3>1. e = st BY <2>8 DEF Ending
    <3>2. st.wp = len + 1 BY <1>0, <1>10, <2>1, <2>8
    <3>3. x = <<>>
      <4>1. Len(x) = 0 BY <2>2, <2>8
      <4> QED BY <2>2, <4>1
    <3>4. all = w BY <2>3, <2>4, <3>3
    <3>5. w = Cut(all)
      <4>1. Out(st.io) = all BY <3>4 DEF w
      <4>2. Cut(all) = all BY <1>9, <1>10, <4>1, EndCut
      <4> QED BY <3>4, <4>2
    <3>6. st.acc = len \/ (st.acc = 0 /\ s = <<LF>> /\ cr) BY <1>10, <2>1, <2>6, <3>2
    <3> HIDE DEF e
    <3> QED BY <2>1, <3>1, <3>5, <3>6 DEF w
  <2> QED BY <2>7, <2>8
<1> QED BY <1>6, <1>11, <1>12

------------------------------------------------------------------------------
(* Output, write by write *)

Strings == Seq(Keys) \ {<<>>}
Calls == {"write", "puts", "printf"}
Singles(u) == [i \in DOMAIN u |-> <<u[i]>>]
NoPair(u) == \A i \in 1 .. Len(u) - 1 : u[i] = CR => u[i + 1] # LF

\* No call goes on with the "\n" of a "\r" that ended the call before, and with
\* more after it; the characters that ioprintf writes one by one have no pair.
Unsplit ==
    /\ \A t, u \in Texts :
          EndsCR(t[2]) /\ u[2][1] = LF => u[2] = <<LF>> /\ u[1] # "printf"
    /\ \A t \in Texts : t[1] = "printf" => NoPair(t[2])

\* The writes q that the call p has still to make are of the text u, after B.
Left(p, q, B, u) ==
    /\ u \in Strings /\ q \in Seq(Strings) /\ q # <<>>
    /\ \/ p = "write" /\ q = <<u>>
       \/ p = "puts" /\ \/ \E s \in Strings : u = s \o <<LF>> /\ q = <<s, <<LF>>>>
                        \/ u = <<LF>> /\ q = <<<<LF>>>>
       \/ p = "printf" /\ q = Singles(u) /\ NoPair(u)
    /\ EndsCR(B) /\ q[1][1] = LF => q[1] = <<LF>> /\ p # "printf"

LEMMA TailOfOne ==
    ASSUME NEW X, NEW e \in X
    PROVE  <<e>> # <<>> /\ Head(<<e>>) = e /\ Tail(<<e>>) = <<>> /\ Len(<<e>>) = 1
OBVIOUS

LEMMA SinglesTail ==
    ASSUME NEW u \in Strings
    PROVE  /\ Singles(u) \in Seq(Strings) /\ Len(Singles(u)) = Len(u)
           /\ Head(Singles(u)) = <<u[1]>> /\ Tail(Singles(u)) = Singles(Tail(u))
           /\ u = <<u[1]>> \o Tail(u) /\ u[1] \in Keys
<1> DEFINE n == Len(u)
           q == Singles(u)
           v == Tail(u)
           p == Singles(v)
           w == Tail(q)
<1>0. u \in Seq(Keys) /\ u # <<>> BY DEF Strings
<1>1. n \in Nat \ {0} /\ DOMAIN u = 1 .. n /\ \A i \in 1 .. n : u[i] \in Keys BY <1>0
<1>2. \A c \in Keys : <<c>> \in Strings BY DEF Strings
<1>3. v \in Seq(Keys) /\ Len(v) = n - 1 /\ \A i \in 1 .. n - 1 : v[i] = u[i + 1]
  BY <1>0, HeadTailProperties
<1> HIDE DEF n, v
<1>4. DOMAIN v = 1 .. n - 1 /\ \A i \in 1 .. n - 1 : v[i] \in Keys BY <1>1, <1>3
<1>5. q \in [1 .. n -> Strings] /\ \A i \in 1 .. n : q[i] = <<u[i]>> BY <1>1, <1>2 DEF Singles
<1>6. p \in [1 .. n - 1 -> Strings] /\ \A i \in 1 .. n - 1 : p[i] = <<v[i]>>
  BY <1>2, <1>4 DEF Singles
<1> HIDE DEF q, p
<1>7. q \in Seq(Strings) /\ Len(q) = n /\ q # <<>> BY <1>1, <1>5
<1>8. p \in Seq(Strings) /\ Len(p) = n - 1 BY <1>1, <1>6
<1>9. w \in Seq(Strings) /\ Len(w) = n - 1 /\ \A i \in 1 .. n - 1 : w[i] = q[i + 1]
  BY <1>7, HeadTailProperties
<1> HIDE DEF w
<1>10. \A i \in 1 .. n - 1 : w[i] = p[i]
  <2> TAKE i \in 1 .. n - 1
  <2>1. i + 1 \in 1 .. n BY <1>1
  <2> QED BY <1>3, <1>5, <1>6, <1>9, <2>1
<1>11. w = p BY <1>8, <1>9, <1>10, SeqEqual
<1>12. 1 \in 1 .. n BY <1>1
<1>13. Head(q) = <<u[1]>>
  <2>1. Head(q) = q[1] BY <1>7
  <2> QED BY <1>5, <1>12, <2>1
<1>14. u = <<u[1]>> \o v
  <2> DEFINE c == u[1]
             z == <<c>> \o v
  <2>1. c \in Keys BY <1>1, <1>12
  <2> HIDE DEF c
  <2>2. <<c>> \in Seq(Keys) /\ Len(<<c>>) = 1 /\ <<c>>[1] = c BY <2>1
  <2>3. z \in Seq(Keys) /\ Len(z) = 1 + (n - 1)
        /\ \A i \in 1 .. 1 + (n - 1) : z[i] = IF i <= 1 THEN <<c>>[i] ELSE v[i - 1]
    BY <1>3, <2>2, ConcatProperties
  <2> HIDE DEF z
  <2>4. \A i \in 1 .. n : z[i] = u[i]
    <3> TAKE i \in 1 .. n
    <3>0. i \in 1 .. 1 + (n - 1) BY <1>1
    <3>1. CASE i = 1 BY <2>2, <2>3, <3>0, <3>1 DEF c
    <3>2. CASE i # 1
      <4>1. ~(i <= 1) /\ i - 1 \in 1 .. n - 1 /\ i - 1 + 1 = i BY <1>1, <3>2
      <4> QED BY <1>3, <2>3, <3>0, <4>1
    <3> QED BY <3>1, <3>2
  <2>5. Len(z) = n BY <1>1, <2>3
  <2>6. u \in Seq(Keys) /\ Len(u) = n BY <1>0 DEF n
  <2>7. u = z BY <2>3, <2>4, <2>5, <2>6, SeqEqual
  <2> QED BY <2>7 DEF z, c
<1> QED BY <1>1, <1>7, <1>11, <1>12, <1>13, <1>14 DEF n, v, q, p, w

\* After the first write the rest is left, or nothing.
OneWritten(p, q, B, u) ==
    LET C == B \o Head(q)
    IN /\ Head(q) \in Strings /\ C \in Seq(Keys)
       /\ Tail(q) = <<>> => B \o u = C
       /\ Tail(q) # <<>> => \E v : Left(p, Tail(q), C, v) /\ B \o u = C \o v

LEMMA LeftAfter ==
    ASSUME TermConstants, NEW p, NEW q, NEW B \in Seq(Keys), NEW u, Left(p, q, B, u)
    PROVE  OneWritten(p, q, B, u)
<1> DEFINE h == Head(q)
           C == B \o h
           r == Tail(q)
<1>0. u \in Strings /\ q \in Seq(Strings) /\ q # <<>> BY DEF Left
<1>1. h \in Strings /\ r \in Seq(Strings) BY <1>0, HeadTailProperties
<1>2. C \in Seq(Keys)
  <2>1. h \in Seq(Keys) BY <1>1 DEF Strings
  <2> HIDE DEF h
  <2> QED BY <2>1
<1>3. LF \in Keys /\ CR # LF BY CodesAre
<1>4. <<LF>> \in Strings /\ <<LF>>[1] = LF BY <1>3 DEF Strings
<1> SUFFICES (r = <<>> => B \o u = C) /\ (r # <<>> => \E v : Left(p, r, C, v) /\ B \o u = C \o v)
  BY <1>1, <1>2 DEF OneWritten
<1>5. CASE q = <<u>>
  <2>1. h = u /\ r = <<>> BY <1>0, <1>5, TailOfOne
  <2> QED BY <2>1
<1>6. ASSUME p = "puts", NEW s \in Strings, u = s \o <<LF>>, q = <<s, <<LF>>>>
      PROVE  Left(p, r, C, <<LF>>) /\ B \o u = C \o <<LF>> /\ r # <<>>
  <2> DEFINE l == <<LF>>
  <2>1. l \in Strings BY <1>4
  <2>2. s \in Seq(Keys) /\ l \in Seq(Keys) BY <2>1 DEF Strings
  <2>3. B \o u = (B \o s) \o l
    <3>1. u = s \o l BY <1>6
    <3> HIDE DEF l
    <3> QED BY <2>2, <3>1, ConcatAssociative
  <2> HIDE DEF l
  <2>4. h = s /\ r = <<l>>
    <3>1. q = <<s, l>> BY <1>6 DEF l
    <3> QED BY <3>1
  <2> HIDE DEF h, r
  <2>5. r \in Seq(Strings) /\ r # <<>> /\ r[1] = l BY <2>1, <2>4
  <2>6. Left(p, r, C, l) BY <1>6, <2>1, <2>4, <2>5 DEF Left, l
  <2> QED BY <2>3, <2>4, <2>5, <2>6 DEF l
<1>7. CASE p = "printf" /\ q = Singles(u) /\ NoPair(u)
  <2> DEFINE v == Tail(u)
             c == u[1]
  <2>1. h = <<c>> /\ r = Singles(v) /\ u = <<c>> \o v /\ c \in Keys BY <1>0, <1>7, SinglesTail
  <2>2. u \in Seq(Keys) /\ u # <<>> BY <1>0 DEF Strings
  <2>3. v \in Seq(Keys) /\ Len(v) = Len(u) - 1 /\ \A i \in 1 .. Len(u) - 1 : v[i] = u[i + 1]
    BY <2>2, HeadTailProperties
  <2> HIDE DEF v, c
  <2>4. <<c>> \in Seq(Keys) BY <2>1
  <2>5. B \o u = C \o v
    <3>1. B \o (<<c>> \o v) = (B \o <<c>>) \o v BY <2>3, <2>4, ConcatAssociative
    <3> QED BY <2>1, <3>1
  <2>6. CASE v = <<>>
    <3>1. DOMAIN <<>> = {} OBVIOUS
    <3>2. r = <<>> BY <2>1, <2>6, <3>1 DEF Singles
    <3>3. C \o v = C BY <1>2, <2>6
    <3> QED BY <2>5, <3>2, <3>3
  <2>7. CASE v # <<>>
    <3>1. v \in Strings BY <2>3, <2>7 DEF Strings
    <3>2. Len(u) \in Nat /\ Len(v) \in Nat \ {0} BY <2>2, <2>3, <2>7
    <3>3. NoPair(v)
      <4> SUFFICES ASSUME NEW i \in 1 .. Len(v) - 1, v[i] = CR PROVE v[i + 1] # LF BY DEF NoPair
      <4>1. i + 1 \in 1 .. Len(u) - 1 /\ i \in 1 .. Len(u) - 1 BY <2>3, <3>2
      <4>2. v[i] = u[i + 1] /\ v[i + 1] = u[i + 1 + 1] BY <2>3, <4>1
      <4> QED BY <1>7, <4>1, <4>2 DEF NoPair
    <3>4. r \in Seq(Strings) /\ Len(r) = Len(v) /\ Head(r) = <<v[1]>> BY <2>1, <3>1, SinglesTail
    <3>5. r # <<>> /\ r[1] = <<v[1]>>
      <4> HIDE DEF r
      <4>1. Len(r) # 0 BY <3>2, <3>4
      <4>2. r # <<>> BY <4>1
      <4>3. Head(r) = r[1] BY <3>4, <4>2
      <4> QED BY <3>4, <4>2, <4>3
    <3>6. ~(EndsCR(C) /\ r[1][1] = LF)
      <4> SUFFICES ASSUME EndsCR(C), r[1][1] = LF PROVE FALSE OBVIOUS
      <4>0. EndsCR(C) OBVIOUS
      <4>1. C = Append(B, c)
        <5>1. Append(B, c) = B \o <<c>> BY <2>1, AppendIsConcat
        <5> HIDE DEF h
        <5> QED BY <2>1, <5>1
      <4>2. c = CR
        <5> HIDE DEF C
        <5>1. EndsCR(Append(B, c)) BY <4>0, <4>1
        <5> QED BY <2>1, <5>1, EndsAppend
      <4>3. <<v[1]>>[1] = v[1] OBVIOUS
      <4>4. v[1] = u[2] /\ 1 \in 1 .. Len(u) - 1
        <5>1. 1 \in 1 .. Len(u) - 1 /\ 1 + 1 = 2 BY <2>3, <3>2
        <5> QED BY <2>3, <5>1
      <4>5. u[1] = CR BY <4>2 DEF c
      <4>6. u[1 + 1] = LF BY <3>5, <4>3, <4>4
      <4> QED BY <1>7, <4>4, <4>5, <4>6 DEF NoPair
    <3> HIDE DEF r, C
    <3>7. Left(p, r, C, v) BY <1>7, <2>1, <3>1, <3>3, <3>4, <3>5, <3>6 DEF Left
    <3> QED BY <2>5, <3>5, <3>7 DEF C
  <2> QED BY <2>6, <2>7
<1>8. \/ q = <<u>>
      \/ p = "puts" /\ \E s \in Strings : u = s \o <<LF>> /\ q = <<s, <<LF>>>>
      \/ p = "printf" /\ q = Singles(u) /\ NoPair(u)
  BY DEF Left
<1> HIDE DEF C, r
<1> QED BY <1>5, <1>6, <1>7, <1>8

OutTypes ==
    /\ cr_out \in BOOLEAN /\ sink \in Sinks
    /\ at \in Calls \cup {"idle", "read", "full", "line"}
    /\ queue \in Seq(Strings) /\ (queue = <<>> <=> at \notin Calls)

\* A literal that is not full has the normal form of what was asked for, but for
\* the writes left; a full one the beginning of it.
AskedSoFar ==
    /\ asked \in Seq(Keys)
    /\ EndsCR(asked) => \E t \in Texts : EndsCR(t[2])
    /\ Full(sink) => Out(sink) = Cut(Normal(asked))
    /\ ~Full(sink) => \E B \in Seq(Keys) :
          /\ Out(sink) = Normal(B) /\ (cr_out <=> EndsCR(B))
          /\ IF queue = <<>> THEN asked = B
             ELSE \E u : asked = B \o u /\ Left(at, queue, B, u)

LEMMA TextsAre ==
    ASSUME TermConstants, NEW t \in Texts
    PROVE  t[1] \in Calls /\ t[2] \in Strings /\ t = <<t[1], t[2]>>
BY DEF TermConstants, Calls, Strings

LEMMA EndsConcat ==
    ASSUME NEW X, NEW A \in Seq(X), NEW s \in Seq(X), s # <<>>
    PROVE  EndsCR(A \o s) <=> EndsCR(s)
<1> DEFINE y == A \o s
<1>1. Len(s) \in Nat \ {0} /\ Len(A) \in Nat OBVIOUS
<1>2. y \in Seq(X) /\ Len(y) = Len(A) + Len(s)
      /\ \A i \in 1 .. Len(A) + Len(s) : y[i] = IF i <= Len(A) THEN A[i] ELSE s[i - Len(A)]
  BY ConcatProperties
<1> HIDE DEF y
<1>3. Len(y) \in 1 .. Len(A) + Len(s) /\ ~(Len(y) <= Len(A)) /\ Len(y) - Len(A) = Len(s)
  BY <1>1, <1>2
<1>4. y[Len(y)] = s[Len(s)] BY <1>2, <1>3
<1>5. y # <<>>
  <2>1. Len(y) # 0 BY <1>1, <1>2
  <2> QED BY <2>1
<1>6. EndsCR(y) <=> EndsCR(s) BY <1>4, <1>5 DEF EndsCR
<1> QED BY <1>6 DEF y

LEMMA NotFullAll ==
    ASSUME TermConstants, NEW y \in Seq(OutChars), NEW io \in Sinks, Out(io) = Cut(y), ~Full(io)
    PROVE  Out(io) = y
<1>1. Len(Out(io)) = io.pos /\ io.pos \in 0 .. SinkSize /\ SinkSize \in Nat /\ io.pos # SinkSize
  BY OutTyped DEF Sinks, TermConstants, Full
<1>2. Len(y) \in Nat OBVIOUS
<1>3. Len(y) >= SinkSize => Len(Cut(y)) = SinkSize BY CutIs
<1>4. Len(y) <= SinkSize BY <1>1, <1>2, <1>3
<1> QED BY <1>4, CutIs

\* A full literal has the beginning of the longer text too.
LEMMA FullMore ==
    ASSUME TermConstants, NEW io \in Sinks, Full(io), NEW A \in Seq(Keys), NEW u \in Seq(Keys),
           Out(io) = Cut(Normal(A))
    PROVE  Out(io) = Cut(Normal(A \o u))
<1> DEFINE m == Normal(A)
<1>1. m \in Seq(Keys) BY NormalAppend, CodesAre
<1>2. PICK z \in Seq(Keys) : Normal(A \o u) = m \o z BY NormalGrows
<1> HIDE DEF m
<1>3. m \in Seq(OutChars) /\ z \in Seq(OutChars) BY <1>1, KeysOut
<1>4. Out(io) = Cut(m) BY DEF m
<1>5. Len(m) >= SinkSize BY <1>3, <1>4, FullLong
<1>6. Cut(m \o z) = Cut(m) BY <1>3, <1>5, CutLonger
<1> QED BY <1>2, <1>4, <1>6

LEMMA RemainingTyped ==
    ASSUME queue \in Seq(Strings), queue # <<>>, NEW cnt \in Int, cnt <= Len(Head(queue))
    PROVE  Remaining(cnt) \in Seq(Strings)
<1> DEFINE h == Head(queue)
           r == Tail(queue)
<1>1. h \in Strings /\ r \in Seq(Strings) BY HeadTailProperties
<1>2. h \in Seq(Keys) BY <1>1 DEF Strings
<1>3. <<>> \in Seq(Strings) OBVIOUS
<1>4. CASE cnt = Len(h) BY <1>1, <1>4 DEF Remaining
<1>5. CASE cnt # Len(h) /\ cnt > 0
  <2> DEFINE x == SubSeq(h, cnt + 1, Len(h))
  <2>1. Remaining(cnt) = <<x>> \o r BY <1>5 DEF Remaining
  <2>2. cnt + 1 \in Nat \ {0} /\ Len(h) \in 0 .. Len(h) /\ cnt + 1 <= Len(h)
    <3> HIDE DEF h
    <3>1. Len(h) \in Nat BY <1>2
    <3>2. cnt <= Len(h) BY DEF h
    <3> QED BY <1>5, <3>1, <3>2
  <2> HIDE DEF h, r
  <2>3. x \in Seq(Keys) /\ Len(x) = Len(h) - (cnt + 1) + 1 BY <1>2, <2>2, PieceTyped
  <2> HIDE DEF x
  <2>4. Len(x) # 0 BY <1>2, <2>2, <2>3
  <2>5. x \in Strings
    <3>1. x # <<>> BY <2>4
    <3> QED BY <2>3, <3>1, Zenon DEF Strings
  <2>6. <<x>> \in Seq(Strings) BY <2>5
  <2>7. <<x>> \o r \in Seq(Strings) BY <1>1, <2>6
  <2> QED BY <2>1, <2>7
<1>6. CASE ~(cnt = Len(h)) /\ ~(cnt > 0)
  <2>1. Remaining(cnt) = r \/ Remaining(cnt) = <<>> BY <1>6 DEF Remaining
  <2> QED BY <1>1, <1>3, <2>1
<1> QED BY <1>4, <1>5, <1>6

LEMMA MoreTypes ==
    ASSUME TermConstants, OutTypes, WriteMore
    PROVE  OutTypes'
<1> DEFINE h == Head(queue)
           r == ioterm_write(h, cr_out, sink)
<1>1. queue \in Seq(Strings) /\ queue # <<>> /\ cr_out \in BOOLEAN /\ sink \in Sinks
      /\ at \in Calls
  BY DEF OutTypes, WriteMore
<1>2. h \in Seq(Keys) BY <1>1, HeadTailProperties DEF Strings
<1>3. r.io \in Sinks /\ r.cr \in BOOLEAN /\ r.cnt \in Int /\ r.cnt <= Len(h)
  <2> HIDE DEF h
  <2> QED BY <1>1, <1>2, WriteSound
<1>4. sink' = r.io /\ cr_out' = r.cr /\ queue' = Remaining(r.cnt)
      /\ at' = IF queue' = <<>> THEN "idle" ELSE at
  BY DEF WriteMore
<1> HIDE DEF r
<1>5. queue' \in Seq(Strings) BY <1>1, <1>3, <1>4, RemainingTyped
<1>6. "idle" \notin Calls BY DEF Calls
<1> QED BY <1>1, <1>3, <1>4, <1>5, <1>6 DEF OutTypes

LEMMA MoreAsked ==
    ASSUME TermConstants, OutTypes, AskedSoFar, WriteMore
    PROVE  AskedSoFar'
<1> DEFINE h == Head(queue)
           r == ioterm_write(h, cr_out, sink)
<1>1. queue \in Seq(Strings) /\ queue # <<>> /\ cr_out \in BOOLEAN /\ sink \in Sinks
  BY DEF OutTypes, WriteMore
<1>2. h \in Strings /\ h \in Seq(Keys) /\ h # <<>>
  BY <1>1, HeadTailProperties DEF Strings
<1>3. sink' = r.io /\ cr_out' = r.cr /\ queue' = Remaining(r.cnt) /\ asked' = asked
      /\ at' = IF queue' = <<>> THEN "idle" ELSE at
  BY DEF WriteMore
<1>4. r.io \in Sinks /\ (Full(sink) => Full(r.io) /\ Out(r.io) = Out(sink))
  <2> HIDE DEF h
  <2> QED BY <1>1, <1>2, WriteSound
<1>5. CASE Full(sink)
  <2> HIDE DEF r
  <2>1. Full(sink') /\ Out(sink') = Out(sink) BY <1>3, <1>4, <1>5
  <2>2. (EndsCR(asked))' = EndsCR(asked) BY <1>3 DEF EndsCR
  <2>3. (Full(sink))' /\ (Out(sink))' = Out(sink) BY <2>1 DEF Full, Out
  <2>4. (Cut(Normal(asked)))' = Cut(Normal(asked)) BY <1>3
  <2>5. (Out(sink) = Cut(Normal(asked)))' BY <1>5, <2>3, <2>4 DEF AskedSoFar
  <2> QED BY <1>3, <2>2, <2>3, <2>5 DEF AskedSoFar
<1>6. CASE ~Full(sink)
  <2>0. PICK B \in Seq(Keys) :
           /\ Out(sink) = Normal(B) /\ (cr_out <=> EndsCR(B))
           /\ \E u : asked = B \o u /\ Left(at, queue, B, u)
    BY <1>1, <1>6 DEF AskedSoFar
  <2>u. PICK u : asked = B \o u /\ Left(at, queue, B, u) BY <2>0
  <2>1. /\ Out(sink) = Normal(B) /\ (cr_out <=> EndsCR(B))
        /\ asked = B \o u /\ Left(at, queue, B, u)
    BY <2>0, <2>u
  <2> DEFINE C == B \o h
             t == Tail(queue)
             m == Normal(C)
  <2>2. /\ C \in Seq(Keys)
        /\ t = <<>> => asked = C
        /\ t # <<>> => \E v : Left(at, t, C, v) /\ asked = C \o v
    <3>1. /\ C \in Seq(Keys)
          /\ t = <<>> => B \o u = C
          /\ t # <<>> => \E v : Left(at, t, C, v) /\ B \o u = C \o v
      <4>1. Left(at, queue, B, u) BY <2>1
      <4>2. OneWritten(at, queue, B, u) BY <4>1, LeftAfter
      <4> QED BY <4>2 DEF OneWritten
    <3>2. asked = B \o u BY <2>1
    <3> HIDE DEF C, t, h, r, m
    <3> QED BY <3>1, <3>2, Zenon
  <2>3. EndsCR(B) /\ h[1] = LF => h = <<LF>> /\ at # "printf"
    <3>1. h = queue[1] BY <1>1
    <3> HIDE DEF h
    <3> QED BY <2>1, <3>1 DEF Left
  <2>4. /\ Out(r.io) = Cut(m)
        /\ ~Full(r.io) => /\ r.cr <=> EndsCR(C)
                          /\ r.cnt = Len(h) \/ (r.cnt = 0 /\ h = <<LF>> /\ cr_out)
    <3> HIDE DEF h
    <3> QED BY <1>1, <1>2, <2>1, <2>3, WriteGives
  <2> HIDE DEF r, C
  <2>5. m \in Seq(Keys) BY <2>2, NormalAppend, CodesAre
  <2>6. m \in Seq(OutChars) BY <2>5, KeysOut
  <2>7. CASE Full(r.io)
    <3>1. Out(r.io) = Cut(Normal(asked))
      <4>1. CASE t = <<>> BY <2>2, <2>4, <4>1
      <4>2. CASE t # <<>>
        <5>1. PICK v : Left(at, t, C, v) /\ asked = C \o v BY <2>2, <4>2
        <5>2. v \in Seq(Keys) BY <5>1 DEF Left, Strings
        <5>3. Out(r.io) = Cut(Normal(C \o v)) BY <1>4, <2>2, <2>4, <2>7, <5>2, FullMore
        <5> QED BY <5>1, <5>3
      <4> QED BY <4>1, <4>2
    <3>2. (EndsCR(asked))' = EndsCR(asked) BY <1>3 DEF EndsCR
    <3>3. (Full(sink))' /\ (Out(sink))' = Out(r.io) BY <1>3, <2>7 DEF Full, Out
    <3>4. (Cut(Normal(asked)))' = Cut(Normal(asked)) BY <1>3
    <3>5. (Out(sink) = Cut(Normal(asked)))' BY <3>1, <3>3, <3>4
    <3> QED BY <1>3, <3>2, <3>3, <3>5 DEF AskedSoFar
  <2>8. CASE ~Full(r.io)
    <3>1. Out(r.io) = m BY <1>4, <2>4, <2>6, <2>8, NotFullAll
    <3>2. r.cr <=> EndsCR(C) BY <2>4, <2>8
    <3>3. queue' = t
      <4>1. CASE r.cnt = Len(h) BY <1>3, <4>1 DEF Remaining
      <4>2. CASE r.cnt = 0 /\ h = <<LF>> /\ cr_out
        <5>1. Len(h) = 1 /\ h[1] = LF
          <6>1. Len(<<LF>>) = 1 /\ <<LF>>[1] = LF OBVIOUS
          <6> HIDE DEF h
          <6> QED BY <4>2, <6>1
        <5>2. at # "printf" BY <2>1, <2>3, <4>2, <5>1
        <5>3. r.cnt # Len(h) /\ ~(r.cnt > 0) BY <4>2, <5>1
        <5> QED BY <1>3, <4>2, <5>2, <5>3 DEF Remaining
      <4> QED BY <2>4, <2>8, <4>1, <4>2
    <3>4. (EndsCR(asked))' = EndsCR(asked) BY <1>3 DEF EndsCR
    <3>5. ~(Full(sink))' /\ (Out(sink))' = m BY <1>3, <2>8, <3>1 DEF Full, Out
    <3>6. CASE t = <<>>
      <4>1. queue' = <<>> /\ asked' = C BY <1>3, <2>2, <3>3, <3>6
      <4>2. \E D \in Seq(Keys) :
               /\ (Out(sink))' = Normal(D) /\ (cr_out' <=> EndsCR(D))
               /\ IF queue' = <<>> THEN asked' = D
                  ELSE \E v : asked' = D \o v /\ Left(at', queue', D, v)
        BY <1>3, <2>2, <3>2, <3>5, <4>1
      <4> QED BY <1>3, <3>4, <3>5, <4>2 DEF AskedSoFar
    <3>7. CASE t # <<>>
      <4>0. PICK v : Left(at, t, C, v) /\ asked = C \o v BY <2>2, <3>7
      <4>1. at' = at /\ queue' # <<>> BY <1>3, <3>3, <3>7
      <4>2. Left(at', queue', C, v) BY <3>3, <4>0, <4>1
      <4>3. \E D \in Seq(Keys) :
               /\ (Out(sink))' = Normal(D) /\ (cr_out' <=> EndsCR(D))
               /\ IF queue' = <<>> THEN asked' = D
                  ELSE \E w : asked' = D \o w /\ Left(at', queue', D, w)
        BY <1>3, <2>2, <3>2, <3>5, <4>0, <4>1, <4>2
      <4> QED BY <1>3, <3>4, <3>5, <4>3 DEF AskedSoFar
    <3> QED BY <3>6, <3>7
  <2> QED BY <2>7, <2>8
<1> QED BY <1>5, <1>6

LEMMA WriteTypes ==
    ASSUME TermConstants, OutTypes, NEW t \in Texts, StartWrite(t[1], t[2])
    PROVE  OutTypes'
<1> DEFINE call == t[1]
           s == t[2]
<1>1. call \in Calls /\ s \in Strings BY TextsAre
<1>2. LF \in Keys BY CodesAre
<1>3. <<LF>> \in Strings BY <1>2 DEF Strings
<1> HIDE DEF call, s
<1>4. at' = call /\ sink' = sink /\ cr_out' = cr_out
      /\ queue' = CASE call = "write" -> <<s>>
                    [] call = "puts" -> <<s, <<LF>>>>
                    [] call = "printf" -> [i \in DOMAIN s |-> <<s[i]>>]
  BY DEF StartWrite, ioVars, call, s
<1>5. queue' \in Seq(Strings) /\ queue' # <<>>
  <2>1. CASE call = "write"
    <3>1. queue' = <<s>> BY <1>4, <2>1
    <3> QED BY <1>1, <3>1
  <2>2. CASE call = "puts"
    <3>1. queue' = <<s, <<LF>>>> BY <1>4, <2>2
    <3> QED BY <1>1, <1>3, <3>1
  <2>3. CASE call = "printf"
    <3>1. queue' = Singles(s) BY <1>4, <2>3 DEF Singles
    <3>2. Singles(s) \in Seq(Strings) /\ Len(Singles(s)) = Len(s) BY <1>1, SinglesTail
    <3>3. Len(s) # 0 BY <1>1 DEF Strings
    <3>4. Len(queue') # 0 BY <3>1, <3>2, <3>3
    <3> QED BY <3>1, <3>2, <3>4
  <2> QED BY <1>1, <2>1, <2>2, <2>3 DEF Calls
<1> QED BY <1>1, <1>4, <1>5 DEF OutTypes

LEMMA WriteAsked ==
    ASSUME TermConstants, Unsplit, OutTypes, AskedSoFar, NEW t \in Texts, StartWrite(t[1], t[2])
    PROVE  AskedSoFar'
<1> DEFINE call == t[1]
           s == t[2]
           e == IF call = "puts" THEN <<LF>> ELSE <<>>
           u == s \o e
<1>1. call \in Calls /\ s \in Strings BY TextsAre
<1>2. LF \in Keys /\ CR # LF BY CodesAre
<1>3. <<LF>> \in Strings BY <1>2 DEF Strings
<1>4. s \in Seq(Keys) /\ s # <<>> /\ asked \in Seq(Keys) BY <1>1 DEF Strings, AskedSoFar
<1>5. e \in Seq(Keys) BY <1>2
<1>6. asked' = (asked \o s) \o e BY DEF StartWrite
<1>7. at' = call /\ sink' = sink /\ cr_out' = cr_out /\ queue = <<>>
      /\ queue' = CASE call = "write" -> <<s>>
                    [] call = "puts" -> <<s, <<LF>>>>
                    [] call = "printf" -> [i \in DOMAIN s |-> <<s[i]>>]
  <2>1. "idle" \notin Calls BY DEF Calls
  <2> QED BY <2>1 DEF StartWrite, ioVars, OutTypes
<1>8. EndsCR(asked) /\ s[1] = LF => s = <<LF>> /\ call # "printf"
  BY DEF AskedSoFar, Unsplit
<1>9. call = "printf" => NoPair(s) BY DEF Unsplit
<1>10. EndsCR(s) => \E w \in Texts : EndsCR(w[2]) OBVIOUS
<1> HIDE DEF call, s, e
<1>11. asked' = asked \o u /\ u \in Strings
  <2>1. u \in Seq(Keys) BY <1>4, <1>5
  <2>2. Len(s) \in Nat /\ Len(e) \in Nat /\ Len(s) # 0 BY <1>4, <1>5
  <2>3. Len(u) = Len(s) + Len(e) BY <1>4, <1>5, ConcatProperties
  <2>4. u # <<>>
    <3> HIDE DEF u
    <3>1. Len(u) # 0 BY <2>2, <2>3
    <3> QED BY <3>1
  <2>5. asked' = asked \o u BY <1>4, <1>5, <1>6, ConcatAssociative
  <2> HIDE DEF u
  <2> QED BY <2>1, <2>4, <2>5 DEF Strings
<1>12. queue' \in Seq(Strings) /\ queue' # <<>> BY WriteTypes, <1>1, <1>7 DEF OutTypes
<1>13. queue'[1][1] = s[1] /\ (queue'[1] = s \/ call = "printf")
  <2>1. CASE call = "write"
    <3>1. queue' = <<s>> BY <1>7, <2>1
    <3> QED BY <3>1
  <2>2. CASE call = "puts"
    <3>1. queue' = <<s, <<LF>>>> BY <1>7, <2>2
    <3> QED BY <3>1
  <2>3. CASE call = "printf"
    <3>1. queue' = [i \in DOMAIN s |-> <<s[i]>>] BY <1>7, <2>3
    <3>2. 1 \in DOMAIN s BY <1>4
    <3> QED BY <2>3, <3>1, <3>2
  <2> QED BY <1>1, <2>1, <2>2, <2>3 DEF Calls
<1>14. Left(at', queue', asked, u)
  <2>1. \/ call = "write" /\ queue' = <<u>>
        \/ call = "puts" /\ u = s \o <<LF>> /\ queue' = <<s, <<LF>>>>
        \/ call = "printf" /\ queue' = Singles(u) /\ NoPair(u)
    <3>1. CASE call = "puts" BY <1>7, <3>1 DEF e
    <3>2. CASE call # "puts"
      <4>1. u = s
        <5>1. e = <<>> BY <3>2 DEF e
        <5> QED BY <1>4, <5>1
      <4> QED BY <1>1, <1>7, <1>9, <3>2, <4>1 DEF Calls, Singles
    <3> QED BY <3>1, <3>2
  <2>2. EndsCR(asked) /\ queue'[1][1] = LF => queue'[1] = <<LF>> /\ call # "printf"
    BY <1>8, <1>13
  <2> HIDE DEF u
  <2> QED BY <1>1, <1>7, <1>11, <1>12, <2>1, <2>2 DEF Left
<1>15. EndsCR(asked \o u) => \E w \in Texts : EndsCR(w[2])
  <2>1. EndsCR(asked \o u) <=> EndsCR(u)
    <3>1. u \in Seq(Keys) /\ u # <<>> BY <1>11 DEF Strings
    <3> HIDE DEF u
    <3> QED BY <1>4, <3>1, EndsConcat
  <2>2. CASE call = "puts"
    <3>1. <<LF>> \in Seq(Keys) /\ <<LF>> # <<>> /\ ~EndsCR(<<LF>>) BY <1>2 DEF EndsCR
    <3>2. u = s \o <<LF>> BY <2>2 DEF e
    <3>3. ~EndsCR(s \o <<LF>>) BY <1>4, <3>1, EndsConcat
    <3> QED BY <2>1, <3>2, <3>3
  <2>3. CASE call # "puts"
    <3>1. u = s
      <4>1. e = <<>> BY <2>3 DEF e
      <4> QED BY <1>4, <4>1
    <3> QED BY <1>10, <2>1, <3>1
  <2> QED BY <2>2, <2>3
<1> HIDE DEF u
<1>16. asked' \in Seq(Keys)
  <2>1. u \in Seq(Keys) BY <1>11 DEF Strings
  <2> QED BY <1>4, <1>11, <2>1
<1>17. (EndsCR(asked))' = EndsCR(asked \o u) BY <1>11 DEF EndsCR
<1>18. (Full(sink))' = Full(sink) /\ (Out(sink))' = Out(sink) BY <1>7 DEF Full, Out
<1>19. CASE Full(sink)
  <2>1. Out(sink) = Cut(Normal(asked \o u))
    <3>1. u \in Seq(Keys) /\ sink \in Sinks BY <1>11 DEF Strings, OutTypes
    <3>2. Out(sink) = Cut(Normal(asked)) BY <1>19 DEF AskedSoFar
    <3> QED BY <1>4, <1>19, <3>1, <3>2, FullMore
  <2>2. (Cut(Normal(asked)))' = Cut(Normal(asked \o u)) BY <1>11
  <2>3. (Out(sink) = Cut(Normal(asked)))' BY <1>18, <2>1, <2>2
  <2> QED BY <1>15, <1>16, <1>17, <1>18, <1>19, <2>3 DEF AskedSoFar
<1>20. CASE ~Full(sink)
  <2>1. Out(sink) = Normal(asked) /\ (cr_out <=> EndsCR(asked)) BY <1>7, <1>20 DEF AskedSoFar
  <2>2. \E B \in Seq(Keys) :
           /\ (Out(sink))' = Normal(B) /\ (cr_out' <=> EndsCR(B))
           /\ IF queue' = <<>> THEN asked' = B
              ELSE \E v : asked' = B \o v /\ Left(at', queue', B, v)
    BY <1>4, <1>7, <1>11, <1>12, <1>14, <1>18, <2>1
  <2> QED BY <1>15, <1>16, <1>17, <1>18, <1>20, <2>2 DEF AskedSoFar
<1> QED BY <1>19, <1>20

------------------------------------------------------------------------------
(* What the echo shows *)

EchoChars == Keys \cup {BEL, SP}
Rows == [cells : Seq(EchoChars), cur : Int]
RowStep(row, ch) ==
    IF ch = BS THEN [row EXCEPT !.cur = @ - 1]
    ELSE IF ch \in {BEL, CR, LF} THEN row
    ELSE [cells |-> IF row.cur < Len(row.cells)
                    THEN [row.cells EXCEPT ![row.cur + 1] = ch]
                    ELSE Append(row.cells, ch),
          cur |-> row.cur + 1]
NoRow == [cells |-> <<>>, cur |-> 0]
RowOf(e) == FoldLeft(LAMBDA row, ch : RowStep(row, ch), NoRow, e)

LEMMA RowTyped ==
    ASSUME NEW row \in Rows, NEW ch \in EchoChars
    PROVE  RowStep(row, ch) \in Rows
<1>1. row = [cells |-> row.cells, cur |-> row.cur] /\ row.cells \in Seq(EchoChars) /\ row.cur \in Int
  BY DEF Rows
<1>2. CASE ch = BS
  <2>1. RowStep(row, ch) = [cells |-> row.cells, cur |-> row.cur - 1] BY <1>1, <1>2 DEF RowStep
  <2>2. row.cur - 1 \in Int BY <1>1
  <2> QED BY <1>1, <2>1, <2>2 DEF Rows
<1>3. CASE ch # BS /\ ch \in {BEL, CR, LF} BY <1>3 DEF RowStep
<1>4. CASE ch # BS /\ ch \notin {BEL, CR, LF}
  <2> DEFINE c == IF row.cur < Len(row.cells) THEN [row.cells EXCEPT ![row.cur + 1] = ch]
                  ELSE Append(row.cells, ch)
  <2>1. RowStep(row, ch) = [cells |-> c, cur |-> row.cur + 1] BY <1>4 DEF RowStep
  <2>2. c \in Seq(EchoChars)
    <3>1. [row.cells EXCEPT ![row.cur + 1] = ch] \in Seq(EchoChars)
      <4> DEFINE s == row.cells
                 n == Len(s)
                 k == row.cur + 1
      <4>1. s \in [1 .. n -> EchoChars] /\ n \in Nat BY <1>1
      <4> HIDE DEF s, n, k
      <4>2. [s EXCEPT ![k] = ch] \in [1 .. n -> EchoChars] BY <4>1
      <4>3. [s EXCEPT ![k] = ch] \in Seq(EchoChars) BY <4>1, <4>2
      <4> QED BY <4>3 DEF s, k
    <3>2. Append(row.cells, ch) \in Seq(EchoChars) BY <1>1
    <3> QED BY <3>1, <3>2
  <2>3. row.cur + 1 \in Int BY <1>1
  <2> HIDE DEF c
  <2> QED BY <2>1, <2>2, <2>3 DEF Rows
<1> QED BY <1>2, <1>3, <1>4

RowRun(g, e) ==
    /\ g \in [0 .. Len(e) -> Rows] /\ g[0] = NoRow
    /\ \A k \in 1 .. Len(e) : g[k] = RowStep(g[k - 1], e[k])

LEMMA RowFold ==
    ASSUME NEW e \in Seq(EchoChars)
    PROVE  \E g : RowRun(g, e) /\ g[Len(e)] = RowOf(e)
<1> DEFINE len == Len(e)
           b == NoRow
           Op(x, ch) == RowStep(x, ch)
           r == FoldLeft(LAMBDA x, ch : Op(x, ch), b, e)
           step == [k \in 1 .. len |-> [x \in Rows |-> Op(x, e[k])]]
           Eq(it) == it = [t \in SUBSET (1 .. len) |->
              IF t = {} THEN b ELSE Op(it[t \ {Max(t)}], e[Max(t)])]
<1>0. b \in Rows /\ len \in Nat BY DEF Rows, NoRow
<1>1. step \in Steps(len, Rows) BY RowTyped DEF Steps
<1> HIDE DEF Op, b
<1>2. PICK f : Solves(f, b, len, step, Rows)
  <2> HIDE DEF step, len
  <2> QED BY ONLY <1>0, <1>1, FoldExists
<1>3. ASSUME NEW t \in SUBSET (1 .. len), t # {}
      PROVE  Max(t) \in 1 .. len /\ \A x \in Rows : step[Max(t)][x] = Op(x, e[Max(t)])
  <2>1. Max(t) \in 1 .. len BY <1>0, <1>3, MaxIndex
  <2> QED BY <2>1
<1>4. Eq(f) BY <1>2, <1>3 DEF Solves
<1>5. Eq(CHOOSE it : Eq(it)) BY <1>4
<1>6. PICK it : Eq(it) /\ r = it[1 .. len]
  <2>1. DOMAIN e = 1 .. len OBVIOUS
  <2>2. r = (CHOOSE it : Eq(it))[1 .. len] BY <2>1 DEF FoldLeft, MapThenFoldSet, Max, Max
  <2> QED BY <1>5, <2>2
<1>7. StepsSolve(it, b, len, step, Rows) BY <1>3, <1>6 DEF StepsSolve
<1>8. PICK g : Values(g, b, len, step, Rows, it[1 .. len])
  <2> HIDE DEF step, len
  <2> QED BY ONLY <1>0, <1>1, <1>7, FoldSteps
<1>9. g \in [0 .. len -> Rows] /\ g[0] = b /\ g[len] = r BY <1>6, <1>8 DEF Values
<1>10. \A k \in 1 .. len : g[k] = Op(g[k - 1], e[k])
  <2> TAKE k \in 1 .. len
  <2>0. k - 1 \in 0 .. len OBVIOUS
  <2>1. g[k - 1] \in Rows BY <1>9, <2>0
  <2>2. g[k] = step[k][g[k - 1]] BY <1>8 DEF Values
  <2> QED BY <2>1, <2>2
<1>11. r = RowOf(e) BY DEF RowOf, Op, b, FoldLeft, MapThenFoldSet
<1> QED BY <1>9, <1>10, <1>11 DEF Op, RowRun, b

LEMMA RowAppend ==
    ASSUME NEW e \in Seq(EchoChars), NEW c \in EchoChars
    PROVE  RowOf(e) \in Rows /\ RowOf(Append(e, c)) = RowStep(RowOf(e), c)
<1> DEFINE n == Len(e)
           r == Append(e, c)
<1>1. PICK g : RowRun(g, e) /\ g[n] = RowOf(e) BY RowFold
<1>2. n \in Nat /\ r \in Seq(EchoChars) /\ Len(r) = n + 1 /\ r[n + 1] = c /\ \A i \in 1 .. n : r[i] = e[i]
  BY AppendProperties
<1> HIDE DEF r
<1>3. PICK h : RowRun(h, r) /\ h[n + 1] = RowOf(r) BY <1>2, RowFold
<1> DEFINE P == {k \in Nat : k <= n => h[k] = g[k]}
<1>4. 0 \in P BY <1>1, <1>3 DEF RowRun
<1>5. ASSUME NEW k \in Nat, k \in P PROVE k + 1 \in P
  <2> SUFFICES ASSUME k + 1 <= n PROVE h[k + 1] = g[k + 1] OBVIOUS
  <2>1. k + 1 \in 1 .. n /\ k + 1 \in 1 .. n + 1 /\ k + 1 - 1 = k /\ k <= n BY <1>2
  <2>2. h[k] = g[k] BY <1>5, <2>1
  <2>3. h[k + 1] = RowStep(h[k], r[k + 1]) BY <1>2, <1>3, <2>1 DEF RowRun
  <2>4. g[k + 1] = RowStep(g[k], e[k + 1]) BY <1>1, <2>1 DEF RowRun
  <2> QED BY <1>2, <2>1, <2>2, <2>3, <2>4
<1> HIDE DEF P
<1>6. Nat \subseteq P BY <1>4, <1>5, Induction
<1>7. h[n] = g[n] BY <1>2, <1>6 DEF P
<1>8. n + 1 \in 1 .. n + 1 /\ n + 1 - 1 = n /\ n \in 0 .. n BY <1>2
<1>9. h[n + 1] = RowStep(h[n], c) BY <1>2, <1>3, <1>8 DEF RowRun
<1>10. g[n] \in Rows BY <1>1, <1>8 DEF RowRun
<1> QED BY <1>1, <1>3, <1>7, <1>9, <1>10 DEF r

LEMMA RowEmpty == RowOf(<<>>) = NoRow
<1>1. <<>> \in Seq(EchoChars) /\ Len(<<>>) = 0 OBVIOUS
<1>2. PICK g : RowRun(g, <<>>) /\ g[0] = RowOf(<<>>) BY <1>1, RowFold
<1> QED BY <1>2 DEF RowRun

\* The row has the line, blanks after it, and the cursor between them.
Shows(row, ln) ==
    /\ row.cur = Len(ln) /\ Len(ln) <= Len(row.cells)
    /\ \A i \in 1 .. Len(ln) : row.cells[i] = ln[i]
    /\ \A i \in Len(ln) + 1 .. Len(row.cells) : row.cells[i] = SP

LEMMA RowFields ==
    ASSUME NEW row \in Rows
    PROVE  row = [cells |-> row.cells, cur |-> row.cur] /\ row.cells \in Seq(EchoChars)
           /\ row.cur \in Int /\ Len(row.cells) \in Nat
BY DEF Rows

LEMMA ShowsStill ==
    ASSUME TermConstants, NEW row, NEW ch \in {BEL, CR, LF}
    PROVE  RowStep(row, ch) = row
BY CodesAre DEF RowStep

\* A character put at the cursor.
LEMMA CharPut ==
    ASSUME TermConstants, NEW row \in Rows, NEW k \in Nat, row.cur = k, k <= Len(row.cells),
           NEW ch \in EchoChars, ch \notin {BS, BEL, CR, LF}
    PROVE  LET r == RowStep(row, ch)
           IN /\ r \in Rows /\ r.cur = k + 1 /\ k + 1 <= Len(r.cells)
              /\ r.cells[k + 1] = ch
              /\ k < Len(row.cells) => Len(r.cells) = Len(row.cells)
              /\ k = Len(row.cells) => Len(r.cells) = k + 1
              /\ \A i \in 1 .. Len(row.cells) : i # k + 1 => r.cells[i] = row.cells[i]
<1> DEFINE s == row.cells
           n == Len(s)
           c == IF k < n THEN [s EXCEPT ![k + 1] = ch] ELSE Append(s, ch)
           r == RowStep(row, ch)
<1>1. s \in Seq(EchoChars) /\ n \in Nat BY RowFields
<1>2. r = [cells |-> c, cur |-> k + 1] BY DEF RowStep
<1>3. r \in Rows BY RowTyped
<1> HIDE DEF s, r
<1>4. CASE k < n
  <2> DEFINE d == [s EXCEPT ![k + 1] = ch]
  <2>1. k + 1 \in 1 .. n BY <1>1, <1>4
  <2>2. d \in Seq(EchoChars) /\ Len(d) = n /\ d[k + 1] = ch /\ \A i \in 1 .. n : i # k + 1 => d[i] = s[i]
    <3>1. s \in [1 .. n -> EchoChars] BY <1>1
    <3> HIDE DEF n
    <3>2. d \in [1 .. n -> EchoChars] BY <3>1
    <3>3. d \in Seq(EchoChars) /\ Len(d) = n BY <1>1, <3>2
    <3> QED BY <2>1, <3>1, <3>3
  <2>3. r.cells = d /\ r.cur = k + 1 BY <1>2, <1>4
  <2> HIDE DEF d, n
  <2>4. k + 1 <= n BY <2>1
  <2>5. k # n BY <1>1, <1>4
  <2> QED BY <1>3, <2>2, <2>3, <2>4, <2>5 DEF r, s, n
<1>5. CASE ~(k < n)
  <2> DEFINE d == Append(s, ch)
  <2>1. k = n BY <1>1, <1>5 DEF s
  <2>2. d \in Seq(EchoChars) /\ Len(d) = n + 1 /\ d[n + 1] = ch /\ \A i \in 1 .. n : d[i] = s[i]
    BY <1>1, AppendProperties
  <2>3. r.cells = d /\ r.cur = k + 1 BY <1>2, <1>5
  <2> HIDE DEF d, n
  <2>4. k + 1 <= Len(d) /\ Len(d) = k + 1 BY <1>1, <2>1, <2>2
  <2> QED BY <1>3, <1>5, <2>1, <2>2, <2>3, <2>4 DEF r, s, n
<1> QED BY <1>4, <1>5

LEMMA ShowsChar ==
    ASSUME TermConstants, NEW row \in Rows, NEW ln \in Seq(Glyphs), Shows(row, ln), NEW ch \in Glyphs
    PROVE  RowStep(row, ch) \in Rows /\ Shows(RowStep(row, ch), Append(ln, ch))
<1> DEFINE k == Len(ln)
           r == RowStep(row, ch)
           m == Append(ln, ch)
           n == Len(row.cells)
<1>1. k \in Nat /\ row.cur = k /\ k <= n /\ n \in Nat BY RowFields DEF Shows
<1>2. ch \in EchoChars /\ ch \notin {BS, BEL, CR, LF} BY CodesAre DEF EchoChars
<1>3. /\ r \in Rows /\ r.cur = k + 1 /\ k + 1 <= Len(r.cells)
      /\ r.cells[k + 1] = ch
      /\ k < n => Len(r.cells) = n
      /\ k = n => Len(r.cells) = k + 1
      /\ \A i \in 1 .. n : i # k + 1 => r.cells[i] = row.cells[i]
  BY <1>1, <1>2, CharPut
<1>4. Len(m) = k + 1 /\ m[k + 1] = ch /\ \A i \in 1 .. k : m[i] = ln[i] BY AppendProperties
<1>5. (\A i \in 1 .. k : row.cells[i] = ln[i]) /\ \A i \in k + 1 .. n : row.cells[i] = SP
  BY DEF Shows
<1> HIDE DEF r, m, k, n
<1>6. ASSUME NEW i \in 1 .. k + 1 PROVE r.cells[i] = m[i]
  <2>1. CASE i = k + 1 BY <1>3, <1>4, <2>1
  <2>2. CASE i # k + 1
    <3>1. i \in 1 .. k /\ i \in 1 .. n BY <1>1, <2>2
    <3> QED BY <1>3, <1>4, <1>5, <2>2, <3>1
  <2> QED BY <2>1, <2>2
<1>7. ASSUME NEW i \in k + 2 .. Len(r.cells) PROVE r.cells[i] = SP
  <2>1. k < n /\ Len(r.cells) = n BY <1>1, <1>3, <1>7
  <2>2. i \in k + 1 .. n /\ i \in 1 .. n /\ i # k + 1 BY <1>1, <2>1
  <2> QED BY <1>3, <1>5, <2>2
<1>8. k + 1 + 1 = k + 2 BY <1>1
<1>9. Shows(r, m) BY <1>3, <1>4, <1>6, <1>7, <1>8 DEF Shows
<1> QED BY <1>3, <1>9 DEF r, m

LEMMA StepBackShows ==
    ASSUME NEW row \in Rows
    PROVE  RowStep(row, BS) = [cells |-> row.cells, cur |-> row.cur - 1]
           /\ RowStep(row, BS) \in Rows
<1>1. row = [cells |-> row.cells, cur |-> row.cur] /\ row.cur - 1 \in Int /\ row.cells \in Seq(EchoChars)
  BY RowFields
<1>2. RowStep(row, BS) = [cells |-> row.cells, cur |-> row.cur - 1] BY <1>1 DEF RowStep
<1> QED BY <1>1, <1>2 DEF Rows

LEMMA ShowsErase ==
    ASSUME TermConstants, NEW row \in Rows, NEW ln \in Seq(Glyphs), ln # <<>>, Shows(row, ln)
    PROVE  LET r == RowStep(RowStep(RowStep(row, BS), SP), BS)
           IN r \in Rows /\ Shows(r, Front(ln)) /\ Front(ln) \in Seq(Glyphs)
              /\ Len(Front(ln)) = Len(ln) - 1
<1> DEFINE k == Len(ln) - 1
           r1 == RowStep(row, BS)
           r2 == RowStep(r1, SP)
           r3 == RowStep(r2, BS)
           m == Front(ln)
           n == Len(row.cells)
<1>1. k \in Nat /\ row.cur = k + 1 /\ k + 1 <= n /\ n \in Nat /\ Len(ln) = k + 1
  <2>1. Len(ln) \in Nat \ {0} OBVIOUS
  <2> QED BY <2>1, RowFields DEF Shows
<1>2. m \in Seq(Glyphs) /\ Len(m) = k /\ \A i \in 1 .. k : m[i] = ln[i]
  <2>1. m = SubSeq(ln, 1, k) BY DEF Front
  <2>2. \A i \in 1 .. k : ln[i] \in Glyphs
    <3> TAKE i \in 1 .. k
    <3>1. i \in 1 .. Len(ln) BY <1>1
    <3> QED BY <3>1
  <2> HIDE DEF k, m
  <2>3. 1 \in Int /\ k \in Int BY <1>1
  <2>4. /\ SubSeq(ln, 1, k) \in Seq(Glyphs)
        /\ Len(SubSeq(ln, 1, k)) = IF 1 <= k THEN k - 1 + 1 ELSE 0
        /\ \A i \in 1 .. k - 1 + 1 : SubSeq(ln, 1, k)[i] = ln[1 + i - 1]
    BY <2>2, <2>3, SubSeqProperties
  <2>5. k - 1 + 1 = k /\ \A i \in 1 .. k : 1 + i - 1 = i BY <1>1
  <2>6. Len(m) = k BY <1>1, <2>1, <2>4
  <2> QED BY <2>1, <2>4, <2>5, <2>6
<1>3. (\A i \in 1 .. k + 1 : row.cells[i] = ln[i]) /\ \A i \in k + 2 .. n : row.cells[i] = SP
  <2>1. k + 1 + 1 = k + 2 BY <1>1
  <2> HIDE DEF k
  <2> QED BY <1>1, <2>1 DEF Shows
<1> HIDE DEF k, m
<1>4. r1 \in Rows /\ r1.cells = row.cells /\ r1.cur = k
  <2>1. r1 = [cells |-> row.cells, cur |-> row.cur - 1] /\ r1 \in Rows BY StepBackShows
  <2>2. row.cur - 1 = k BY <1>1
  <2> HIDE DEF r1
  <2> QED BY <2>1, <2>2
<1>5. SP \in EchoChars /\ SP \notin {BS, BEL, CR, LF} BY CodesAre DEF EchoChars
<1> HIDE DEF r1
<1>6. /\ r2 \in Rows /\ r2.cur = k + 1
      /\ r2.cells[k + 1] = SP /\ Len(r2.cells) = n
      /\ \A i \in 1 .. n : i # k + 1 => r2.cells[i] = row.cells[i]
  <2>1. k < n /\ k <= n BY <1>1
  <2>2. /\ r2 \in Rows /\ r2.cur = k + 1
        /\ r2.cells[k + 1] = SP
        /\ k < Len(r1.cells) => Len(r2.cells) = Len(r1.cells)
        /\ \A i \in 1 .. Len(r1.cells) : i # k + 1 => r2.cells[i] = r1.cells[i]
    <3>1. k <= Len(r1.cells) BY <1>4, <2>1
    <3> QED BY <1>1, <1>4, <1>5, <3>1, CharPut
  <2> HIDE DEF r2
  <2> QED BY <1>4, <2>1, <2>2
<1> HIDE DEF r2
<1>7. r3 \in Rows /\ r3.cells = r2.cells /\ r3.cur = k
  <2>1. r3 = [cells |-> r2.cells, cur |-> r2.cur - 1] /\ r3 \in Rows BY <1>6, StepBackShows
  <2>2. r2.cur - 1 = k BY <1>1, <1>6
  <2> HIDE DEF r3
  <2> QED BY <2>1, <2>2
<1> HIDE DEF r3, n
<1>8. \A i \in 1 .. k : r3.cells[i] = m[i]
  <2> TAKE i \in 1 .. k
  <2>1. i \in 1 .. n /\ i # k + 1 /\ i \in 1 .. k + 1 BY <1>1
  <2> QED BY <1>2, <1>3, <1>6, <1>7, <2>1
<1>9. \A i \in k + 1 .. n : r3.cells[i] = SP
  <2> TAKE i \in k + 1 .. n
  <2>1. CASE i = k + 1 BY <1>6, <1>7, <2>1
  <2>2. CASE i # k + 1
    <3>1. i \in 1 .. n /\ i \in k + 2 .. n BY <1>1, <2>2
    <3> QED BY <1>3, <1>6, <1>7, <2>2, <3>1
  <2> QED BY <2>1, <2>2
<1>10. Len(r3.cells) = n /\ k <= n BY <1>1, <1>6, <1>7
<1>11. Shows(r3, m) BY <1>2, <1>7, <1>8, <1>9, <1>10 DEF Shows
<1>12. Len(m) = Len(ln) - 1 BY <1>2 DEF k
<1> QED BY <1>2, <1>7, <1>11, <1>12 DEF r3, r2, r1, m

------------------------------------------------------------------------------
(* The terminal *)

LineSoFar ==
    /\ need \in Nat /\ room \in Nat
    /\ line \in Seq(Glyphs) /\ echo \in Seq(EchoChars) /\ Shows(RowOf(echo), line)
    /\ at = "line" => room >= 1 /\ room + Len(line) \in Lengths

TermInv == OutTypes /\ ReadSoFar /\ LineSoFar

LEMMA InitHolds ==
    ASSUME TermConstants, TermInit
    PROVE  TermInv /\ AskedSoFar
<1> DEFINE buf == [i \in 1 .. SinkSize |-> SP]
<1>0. SinkSize \in Nat BY DEF TermConstants
<1>1. <<>> \in Seq(Keys) /\ <<>> \in Seq(EchoChars) /\ <<>> \in Seq(Glyphs) /\ <<>> \in Seq(Strings)
      /\ ~EndsCR(<<>>)
  BY DEF EndsCR
<1>2. /\ cr_in = FALSE /\ cr_out = FALSE /\ sink = iolit_init(buf)
      /\ at = "idle" /\ queue = <<>> /\ need = 0 /\ line = <<>> /\ room = 0 /\ echo = <<>>
      /\ typed = <<>> /\ delivered = <<>> /\ asked = <<>>
  BY DEF TermInit
<1>3. sink = [buf |-> buf, size |-> SinkSize, pos |-> 0]
  <2>1. buf \in [1 .. SinkSize -> {SP}] OBVIOUS
  <2>2. Len(buf) = SinkSize BY <1>0
  <2> HIDE DEF buf
  <2> QED BY <1>2, <2>2 DEF iolit_init
<1>4. buf \in [1 .. SinkSize -> OutChars] BY DEF OutChars
<1> HIDE DEF buf
<1>5. sink \in Sinks /\ sink.pos = 0 /\ sink.buf = buf
  <2>1. 0 \in 0 .. SinkSize BY <1>0
  <2> QED BY <1>3, <1>4, <2>1 DEF Sinks
<1>6. Out(sink) = <<>>
  <2>1. SubSeq(buf, 1, 0) = <<>> OBVIOUS
  <2> QED BY <1>5, <2>1 DEF Out
<1>7. OutTypes BY <1>1, <1>2, <1>5 DEF OutTypes, Calls
<1>8. ReadSoFar
  <2>1. DOMAIN <<>> = {} OBVIOUS
  <2>2. LinePieces(<<>>) = <<>> BY <2>1 DEF LinePieces
  <2>3. Lines(<<>>) = FlattenSeq(LinePieces(<<>>)) BY DEF Lines, LinePieces, LinePiece
  <2>4. Lines(<<>>) = <<>> BY <2>2, <2>3, FlatEmpty
  <2> QED BY <1>1, <1>2, <2>4 DEF ReadSoFar
<1>9. LineSoFar
  <2>1. Shows(NoRow, <<>>) BY DEF Shows, NoRow
  <2>2. 0 \in Nat /\ at # "line" BY <1>2
  <2> QED BY <1>1, <1>2, <2>1, <2>2, RowEmpty DEF LineSoFar
<1>10. AskedSoFar
  <2>1. Cut(<<>>) = <<>>
    <3>1. <<>> \in Seq(OutChars) OBVIOUS
    <3> QED BY <1>5, <1>6, <3>1, EndCut
  <2>2. Out(sink) = Normal(asked) /\ (cr_out <=> EndsCR(asked)) /\ ~EndsCR(asked)
    BY <1>1, <1>2, <1>6, NormalEmpty
  <2>3. Out(sink) = Cut(Normal(asked)) BY <1>2, <1>6, <2>1, NormalEmpty
  <2> QED BY <1>1, <1>2, <2>2, <2>3 DEF AskedSoFar
<1> QED BY <1>7, <1>8, <1>9, <1>10 DEF TermInv

\* What a step does not touch stays true.
LEMMA OutStays ==
    ASSUME OutTypes, UNCHANGED <<cr_out, sink, queue>>,
           at \notin Calls, at' \in {"idle", "read", "full", "line"}
    PROVE  OutTypes'
BY DEF OutTypes, Calls

LEMMA AskedStays ==
    ASSUME OutTypes, AskedSoFar, UNCHANGED <<cr_out, sink, queue, asked>>, at \notin Calls
    PROVE  AskedSoFar'
<1>1. queue = <<>> BY DEF OutTypes
<1>2. (EndsCR(asked))' = EndsCR(asked) BY DEF EndsCR
<1>3. (Full(sink))' = Full(sink) /\ (Out(sink))' = Out(sink) BY DEF Full, Out
<1>4. (Cut(Normal(asked)))' = Cut(Normal(asked)) OBVIOUS
<1>5. asked' \in Seq(Keys) /\ (EndsCR(asked) => \E t \in Texts : EndsCR(t[2])) BY DEF AskedSoFar
<1>6. CASE Full(sink)
  <2>1. (Out(sink) = Cut(Normal(asked)))' BY <1>3, <1>4, <1>6 DEF AskedSoFar
  <2> QED BY <1>2, <1>3, <1>5, <1>6, <2>1 DEF AskedSoFar
<1>7. CASE ~Full(sink)
  <2>1. Out(sink) = Normal(asked) /\ (cr_out <=> EndsCR(asked)) BY <1>1, <1>7 DEF AskedSoFar
  <2>2. \E B \in Seq(Keys) :
           /\ (Out(sink))' = Normal(B) /\ (cr_out' <=> EndsCR(B))
           /\ IF queue' = <<>> THEN asked' = B
              ELSE \E v : asked' = B \o v /\ Left(at', queue', B, v)
    BY <1>1, <1>3, <1>5, <2>1
  <2> QED BY <1>2, <1>3, <1>5, <1>7, <2>2 DEF AskedSoFar
<1> QED BY <1>6, <1>7

LEMMA ReadStays ==
    ASSUME ReadSoFar, UNCHANGED <<cr_in, typed, delivered>>
    PROVE  ReadSoFar'
BY DEF ReadSoFar, EndsCR

LEMMA LineStays ==
    ASSUME LineSoFar, UNCHANGED <<need, line, room, echo>>, at' = "line" => at = "line"
    PROVE  LineSoFar'
<1>1. (Shows(RowOf(echo), line))' = Shows(RowOf(echo), line) OBVIOUS
<1> QED BY <1>1 DEF LineSoFar

LEMMA ReadsMore ==
    ASSUME TermConstants, ReadSoFar, NEW s \in Seq(Keys),
           cr_in' = Scan(s).cr, delivered' = delivered \o Scan(s).out, typed' = typed \o s
    PROVE  ReadSoFar'
<1>1. /\ Scan(s) \in ScanStates
      /\ delivered \o Scan(s).out = Lines(typed \o s)
      /\ Scan(s).cr <=> EndsCR(typed \o s)
  BY ScanGives
<1>2. Scan(s).cr \in BOOLEAN BY <1>1 DEF ScanStates
<1>3. typed \o s \in Seq(Keys) BY DEF ReadSoFar
<1>4. (EndsCR(typed))' = EndsCR(typed \o s) BY DEF EndsCR
<1>5. (Lines(typed))' = Lines(typed \o s) OBVIOUS
<1> QED BY <1>1, <1>2, <1>3, <1>4, <1>5 DEF ReadSoFar

LEMMA WriteStep ==
    ASSUME TermConstants, TermInv, NEW t \in Texts, StartWrite(t[1], t[2])
    PROVE  TermInv'
<1>1. OutTypes' BY WriteTypes DEF TermInv
<1>2. UNCHANGED <<cr_in, typed, delivered, need, line, room, echo>> BY DEF StartWrite, ioVars
<1>3. at' # "line" BY TextsAre DEF StartWrite, Calls
<1> QED BY <1>1, <1>2, <1>3, ReadStays, LineStays DEF TermInv

LEMMA MoreStep ==
    ASSUME TermConstants, TermInv, WriteMore
    PROVE  TermInv'
<1>1. OutTypes' BY MoreTypes DEF TermInv
<1>2. UNCHANGED <<cr_in, typed, delivered, need, line, room, echo>> BY DEF WriteMore
<1>3. at' = "line" => at = "line" BY DEF WriteMore
<1> QED BY <1>1, <1>2, <1>3, ReadStays, LineStays DEF TermInv

LEMMA AskStep ==
    ASSUME TermConstants, TermInv, NEW len \in Lengths, NEW call \in {"read", "full"}, StartRead(call, len)
    PROVE  TermInv' /\ (AskedSoFar => AskedSoFar')
<1>1. at \notin Calls BY DEF StartRead, Calls
<1>2. at' \in {"read", "full"} /\ need' = len /\ UNCHANGED <<cr_out, sink, queue, asked>>
      /\ UNCHANGED <<cr_in, typed, delivered>> /\ UNCHANGED <<line, room, echo>>
  BY DEF StartRead, ioVars
<1>3. OutTypes' /\ ReadSoFar' BY <1>1, <1>2, OutStays, ReadStays DEF TermInv
<1>4. LineSoFar'
  <2>1. (Shows(RowOf(echo), line))' = Shows(RowOf(echo), line) BY <1>2
  <2>2. len \in Nat BY DEF TermConstants
  <2>3. at' # "line" BY <1>2
  <2> QED BY <1>2, <2>1, <2>2, <2>3 DEF LineSoFar, TermInv
<1>5. AskedSoFar => AskedSoFar' BY <1>1, <1>2, AskedStays DEF TermInv
<1> QED BY <1>3, <1>4, <1>5 DEF TermInv

LEMMA LineStarts ==
    ASSUME TermConstants, TermInv, NEW len \in Lengths, ioterm_getsn(len)
    PROVE  TermInv' /\ (AskedSoFar => AskedSoFar')
<1>1. at \notin Calls BY DEF ioterm_getsn, Calls
<1>2. at' = "line" /\ room' = len /\ line' = <<>> /\ echo' = <<>>
      /\ UNCHANGED <<cr_out, sink, queue, asked>> /\ UNCHANGED <<cr_in, typed, delivered>>
      /\ need' = need
  BY DEF ioterm_getsn, ioVars
<1>3. OutTypes' /\ ReadSoFar' BY <1>1, <1>2, OutStays, ReadStays DEF TermInv
<1>4. LineSoFar'
  <2>1. Shows(NoRow, <<>>) BY DEF Shows, NoRow
  <2>2. Shows(RowOf(<<>>), <<>>) BY <2>1, RowEmpty
  <2>3. (Shows(RowOf(echo), line))' BY <1>2, <2>2
  <2>4. len \in Nat /\ len >= 1 BY DEF TermConstants
  <2>5. len + Len(<<>>) = len BY <2>4
  <2>6. need \in Nat BY DEF TermInv, LineSoFar
  <2>7. <<>> \in Seq(Glyphs) /\ <<>> \in Seq(EchoChars) OBVIOUS
  <2> QED BY <1>2, <2>3, <2>4, <2>5, <2>6, <2>7 DEF LineSoFar
<1>5. AskedSoFar => AskedSoFar' BY <1>1, <1>2, AskedStays DEF TermInv
<1> QED BY <1>3, <1>4, <1>5 DEF TermInv

LEMMA ReceiveStep ==
    ASSUME TermConstants, TermInv, NEW s \in Seq(Keys), Receive(s)
    PROVE  TermInv' /\ (AskedSoFar => AskedSoFar')
<1> DEFINE r == Scan(s)
           k == Len(r.out)
<1>1. at \in {"read", "full"} /\ at \notin Calls /\ Len(s) <= need BY DEF Receive, Calls
<1>2. /\ cr_in' = r.cr /\ delivered' = delivered \o r.out /\ typed' = typed \o s
      /\ need' = IF at = "read" /\ r.out # <<>> THEN 0 ELSE need - k
      /\ at' \in {"idle", at}
      /\ UNCHANGED <<cr_out, sink, queue, asked>> /\ UNCHANGED <<line, room, echo>>
  BY DEF Receive
<1>3. r \in ScanStates /\ k <= Len(s) BY ScanGives DEF TermInv
<1>4. k \in Nat
  <2>1. r.out \in Seq(Keys) BY <1>3 DEF ScanStates
  <2> HIDE DEF r
  <2> QED BY <2>1
<1>5. ReadSoFar' BY <1>2, ReadsMore DEF TermInv
<1> HIDE DEF r, k
<1>6. OutTypes'
  <2>1. at' \in {"idle", "read", "full", "line"} BY <1>1, <1>2
  <2> QED BY <1>1, <1>2, <2>1, OutStays DEF TermInv
<1>7. LineSoFar'
  <2>1. (Shows(RowOf(echo), line))' = Shows(RowOf(echo), line) BY <1>2
  <2>2. need' \in Nat
    <3>1. need \in Nat BY DEF TermInv, LineSoFar
    <3>2. Len(s) \in Nat OBVIOUS
    <3> QED BY <1>1, <1>2, <1>3, <1>4, <3>1, <3>2
  <2>3. at' # "line" BY <1>1, <1>2
  <2> QED BY <1>2, <2>1, <2>2, <2>3 DEF LineSoFar, TermInv
<1>8. AskedSoFar => AskedSoFar' BY <1>1, <1>2, AskedStays DEF TermInv
<1> QED BY <1>5, <1>6, <1>7, <1>8 DEF TermInv

\* One key of the line: what it does to the line, the room and the screen.
LEMMA EditKeeps ==
    ASSUME TermConstants, LineSoFar, at = "line", NEW ch, Edit(ch), need' = need
    PROVE  LineSoFar' /\ at' \in {"idle", "line"}
<1>0. /\ need \in Nat /\ room \in Nat /\ line \in Seq(Glyphs) /\ echo \in Seq(EchoChars)
      /\ Shows(RowOf(echo), line) /\ room >= 1 /\ room + Len(line) \in Lengths
  BY DEF LineSoFar
<1>1. RowOf(echo) \in Rows
  <2>1. SP \in EchoChars BY DEF EchoChars
  <2> QED BY <1>0, <2>1, RowAppend
<1>2. {CR, LF, BS, BEL, SP} \cup Glyphs \subseteq EchoChars BY CodesAre DEF EchoChars
<1>3. ASSUME at' \in {"idle", "line"}, line' \in Seq(Glyphs), echo' \in Seq(EchoChars),
             room' \in Nat, room' >= 1, room' + Len(line') = room + Len(line),
             Shows(RowOf(echo'), line')
      PROVE  LineSoFar'
  BY <1>0, <1>3 DEF LineSoFar
<1>4. ASSUME NEW c \in {BEL, CR, LF}, NEW e \in Seq(EchoChars), Shows(RowOf(e), line)
      PROVE  Append(e, c) \in Seq(EchoChars) /\ Shows(RowOf(Append(e, c)), line)
  <2>1. c \in EchoChars BY <1>2
  <2>2. RowOf(Append(e, c)) = RowStep(RowOf(e), c) BY <2>1, RowAppend
  <2>3. RowStep(RowOf(e), c) = RowOf(e) BY ShowsStill
  <2>4. Append(e, c) \in Seq(EchoChars) BY <2>1
  <2> QED BY <1>4, <2>2, <2>3, <2>4
<1>5. CASE ch = Bracket /\ UNCHANGED <<line, room, echo, at>> BY <1>0, <1>3, <1>5
<1>6. CASE ch = LF /\ echo' = echo \o <<CR, LF>> /\ at' = "idle" /\ UNCHANGED <<line, room>>
  <2> DEFINE e == Append(echo, CR)
  <2>1. e \in Seq(EchoChars) /\ Shows(RowOf(e), line) BY <1>0, <1>4
  <2>2. echo' = Append(e, LF)
    <3>1. CR \in EchoChars /\ LF \in EchoChars BY <1>2
    <3>2. <<CR>> \in Seq(EchoChars) /\ <<CR, LF>> = Append(<<CR>>, LF) BY <3>1
    <3>3. echo \o Append(<<CR>>, LF) = Append(echo \o <<CR>>, LF) BY <1>0, <3>1, <3>2, ConcatAppend
    <3>4. echo \o <<CR>> = e BY <1>0, <3>1, AppendIsConcat
    <3> HIDE DEF e
    <3> QED BY <1>6, <3>2, <3>3, <3>4
  <2> HIDE DEF e
  <2>3. Append(e, LF) \in Seq(EchoChars) /\ Shows(RowOf(Append(e, LF)), line) BY <1>4, <2>1
  <2> QED BY <1>0, <1>3, <1>6, <2>2, <2>3
<1>7. CASE Beep /\ at' = at
  <2>1. echo' = Append(echo, BEL) /\ UNCHANGED <<line, room>> BY <1>7 DEF Beep
  <2>2. Append(echo, BEL) \in Seq(EchoChars) /\ Shows(RowOf(Append(echo, BEL)), line) BY <1>0, <1>4
  <2> QED BY <1>0, <1>3, <1>7, <2>1, <2>2
<1>8. CASE line # <<>> /\ Erase /\ at' = at
  <2> DEFINE m == Front(line)
             e1 == Append(echo, BS)
             e2 == Append(e1, SP)
             e3 == Append(e2, BS)
             r == RowStep(RowStep(RowStep(RowOf(echo), BS), SP), BS)
  <2>1. line' = m /\ room' = room + 1 /\ echo' = echo \o <<BS, SP, BS>> BY <1>8 DEF Erase
  <2>2. Shows(r, m) /\ m \in Seq(Glyphs) /\ Len(m) = Len(line) - 1 BY <1>0, <1>1, <1>8, ShowsErase
  <2>3. BS \in EchoChars /\ SP \in EchoChars BY <1>2
  <2>4. e1 \in Seq(EchoChars) /\ RowOf(e1) = RowStep(RowOf(echo), BS) BY <1>0, <2>3, RowAppend
  <2>5. echo' = e3
    <3>1. <<BS>> \in Seq(EchoChars) /\ <<BS, SP>> \in Seq(EchoChars)
          /\ <<BS, SP>> = Append(<<BS>>, SP) /\ <<BS, SP, BS>> = Append(<<BS, SP>>, BS)
      BY <2>3
    <3>2. echo \o Append(<<BS, SP>>, BS) = Append(echo \o <<BS, SP>>, BS)
      BY <1>0, <2>3, <3>1, ConcatAppend
    <3>3. echo \o Append(<<BS>>, SP) = Append(echo \o <<BS>>, SP) BY <1>0, <2>3, <3>1, ConcatAppend
    <3>4. echo \o <<BS>> = e1 BY <1>0, <2>3, AppendIsConcat
    <3> HIDE DEF e1
    <3> QED BY <2>1, <3>1, <3>2, <3>3, <3>4
  <2> HIDE DEF e1
  <2>6. e2 \in Seq(EchoChars) /\ RowOf(e2) = RowStep(RowOf(e1), SP) BY <2>3, <2>4, RowAppend
  <2> HIDE DEF e2
  <2>7. e3 \in Seq(EchoChars) /\ RowOf(e3) = RowStep(RowOf(e2), BS) BY <2>3, <2>6, RowAppend
  <2> HIDE DEF e3, m
  <2>8. Shows(RowOf(e3), m) BY <2>2, <2>4, <2>6, <2>7
  <2>9. room + 1 \in Nat /\ room + 1 >= 1 /\ room + 1 + Len(m) = room + Len(line)
    <3>1. Len(line) \in Nat BY <1>0
    <3> QED BY <1>0, <2>2, <3>1
  <2> QED BY <1>3, <1>8, <2>1, <2>2, <2>5, <2>7, <2>8, <2>9
<1>9. CASE /\ ch \in Glyphs /\ HasRoom
           /\ line' = Append(line, ch) /\ room' = room - 1 /\ echo' = Append(echo, ch) /\ at' = at
  <2>1. ch \in EchoChars BY <1>2, <1>9
  <2>2. Append(echo, ch) \in Seq(EchoChars) /\ RowOf(Append(echo, ch)) = RowStep(RowOf(echo), ch)
    BY <1>0, <2>1, RowAppend
  <2>3. Shows(RowStep(RowOf(echo), ch), Append(line, ch)) BY <1>0, <1>1, <1>9, ShowsChar
  <2>4. Append(line, ch) \in Seq(Glyphs) /\ Len(Append(line, ch)) = Len(line) + 1
    BY <1>0, <1>9, AppendProperties
  <2>5. room - 1 \in Nat /\ room - 1 >= 1 /\ room - 1 + (Len(line) + 1) = room + Len(line)
    <3>1. room > 1 BY <1>9 DEF HasRoom
    <3>2. Len(line) \in Nat BY <1>0
    <3> QED BY <1>0, <3>1, <3>2
  <2>6. room' + Len(line') = room + Len(line) BY <1>9, <2>4, <2>5
  <2> QED BY <1>3, <1>9, <2>2, <2>3, <2>4, <2>5, <2>6
<1> QED BY <1>5, <1>6, <1>7, <1>8, <1>9 DEF Edit

LEMMA KeyStep ==
    ASSUME TermConstants, TermInv, NEW ch \in Keys, Key(ch)
    PROVE  TermInv' /\ (AskedSoFar => AskedSoFar')
<1> DEFINE s == <<ch>>
           r == Scan(s)
<1>1. at = "line" /\ at \notin Calls BY DEF Key, Calls
<1>2. /\ cr_in' = r.cr /\ delivered' = delivered \o r.out /\ typed' = Append(typed, ch)
      /\ UNCHANGED <<line, room, echo, at>> \/ Edit(r.out[1])
      /\ UNCHANGED <<cr_out, sink, queue, asked>> /\ need' = need
  BY DEF Key
<1>3. s \in Seq(Keys) OBVIOUS
<1>4. typed' = typed \o s BY <1>2, AppendIsConcat DEF TermInv, ReadSoFar
<1> HIDE DEF s
<1>5. ReadSoFar' BY <1>2, <1>3, <1>4, ReadsMore DEF TermInv
<1> HIDE DEF r
<1>6. LineSoFar' /\ at' \in {"idle", "line"}
  <2>1. CASE UNCHANGED <<line, room, echo, at>> BY <1>1, <1>2, <2>1, LineStays DEF TermInv
  <2>2. CASE Edit(r.out[1]) BY <1>1, <1>2, <2>2, EditKeeps DEF TermInv
  <2> QED BY <1>2, <2>1, <2>2
<1>7. OutTypes' BY <1>1, <1>2, <1>6, OutStays DEF TermInv
<1>8. AskedSoFar => AskedSoFar' BY <1>1, <1>2, AskedStays DEF TermInv
<1> QED BY <1>5, <1>6, <1>7, <1>8 DEF TermInv

LEMMA StepHolds ==
    ASSUME TermConstants, TermInv, [TermNext]_termVars
    PROVE  TermInv' /\ (Unsplit /\ AskedSoFar => AskedSoFar')
<1>1. CASE \E t \in Texts : StartWrite(t[1], t[2])
  <2>1. PICK t \in Texts : StartWrite(t[1], t[2]) BY <1>1
  <2>2. Unsplit /\ AskedSoFar => AskedSoFar' BY <2>1, WriteAsked DEF TermInv
  <2> QED BY <2>1, <2>2, WriteStep
<1>2. CASE WriteMore
  <2>1. AskedSoFar => AskedSoFar' BY <1>2, MoreAsked DEF TermInv
  <2> QED BY <1>2, <2>1, MoreStep
<1>3. CASE \E len \in Lengths : StartRead("read", len) \/ StartRead("full", len) \/ ioterm_getsn(len)
  BY <1>3, AskStep, LineStarts
<1>4. CASE \E s \in UNION {[1 .. k -> Keys] : k \in Lengths} : Receive(s)
  <2>0. PICK s \in UNION {[1 .. k -> Keys] : k \in Lengths} : Receive(s) BY <1>4
  <2>1. PICK k \in Lengths : s \in [1 .. k -> Keys] BY <2>0
  <2>2. s \in Seq(Keys)
    <3>1. k \in Nat BY DEF TermConstants
    <3> QED BY <2>1, <3>1
  <2> QED BY <2>0, <2>2, ReceiveStep
<1>5. CASE \E ch \in Keys : Key(ch) BY <1>5, KeyStep
<1>6. CASE UNCHANGED termVars
  <2>1. /\ UNCHANGED <<cr_out, sink, queue, asked, at>> /\ UNCHANGED <<cr_in, typed, delivered>>
        /\ UNCHANGED <<need, line, room, echo>>
    BY <1>6 DEF termVars, ioVars
  <2>2. OutTypes' BY <2>1 DEF TermInv, OutTypes
  <2>3. ReadSoFar' /\ LineSoFar' BY <2>1, ReadStays, LineStays DEF TermInv
  <2>4. AskedSoFar => AskedSoFar' BY <2>1 DEF AskedSoFar, EndsCR, Full, Out
  <2> QED BY <2>2, <2>3, <2>4 DEF TermInv
<1> QED BY <1>1, <1>2, <1>3, <1>4, <1>5, <1>6 DEF TermNext

\* "\r\n", "\r" and "\n" each arrive as one "\n", however the line cuts what it
\* brings and whatever reads it: ioread, ioread_full or ioterm_getsn.
THEOREM ReadsAreLines == TermSpec => []InputNormal
<1>1. TermConstants BY TermAssumption
<1>2. TermInit => TermInv BY <1>1, InitHolds
<1>3. TermInv /\ [TermNext]_termVars => TermInv' BY <1>1, StepHolds
<1>4. TermInv => InputNormal BY DEF TermInv, ReadSoFar, InputNormal
<1> QED BY <1>2, <1>3, <1>4, PTL DEF TermSpec

LEMMA ScreenShows ==
    ASSUME TermConstants, TermInv
    PROVE  LineKept
<1> DEFINE row == RowOf(echo)
           l == Len(line)
           c == SubSeq(row.cells, 1, row.cur)
<1>1. /\ line \in Seq(Glyphs) /\ echo \in Seq(EchoChars) /\ Shows(row, line)
      /\ need \in Nat /\ room \in Nat
  BY DEF TermInv, LineSoFar
<1>2. row \in Rows
  <2>1. SP \in EchoChars BY DEF EchoChars
  <2> QED BY <1>1, <2>1, RowAppend
<1>3. Shown = row BY DEF Shown, RowOf, RowStep, NoRow, FoldLeft, MapThenFoldSet
<1> HIDE DEF row
<1>4. /\ row.cur = l /\ l <= Len(row.cells) /\ l \in Nat /\ row.cells \in Seq(EchoChars)
      /\ \A i \in 1 .. l : row.cells[i] = line[i]
      /\ \A i \in l + 1 .. Len(row.cells) : row.cells[i] = SP
  BY <1>1, <1>2, RowFields DEF Shows
<1>5. c = line
  <2>1. c \in Seq(EchoChars) /\ Len(c) = l /\ \A i \in 1 .. l : c[i] = row.cells[i] BY <1>4
  <2> HIDE DEF c
  <2>2. \A i \in 1 .. l : c[i] = line[i] BY <1>4, <2>1
  <2> QED BY <1>1, <2>1, <2>2, SeqEqual
<1>6. ScreenShowsLine BY <1>3, <1>4, <1>5 DEF ScreenShowsLine
<1>7. LineFits BY DEF LineFits, TermInv, LineSoFar
<1>8. TermTypeOK
  <2>1. \A i \in DOMAIN queue : queue[i] \in Seq(Keys) \ {<<>>} BY DEF TermInv, OutTypes, Strings
  <2>2. sink.size = SinkSize /\ sink.pos \in 0 .. SinkSize /\ Len(sink.buf) = SinkSize
    <3>1. sink.buf \in [1 .. SinkSize -> OutChars] /\ SinkSize \in Nat /\ sink.size = SinkSize
          /\ sink.pos \in 0 .. SinkSize
      BY DEF TermInv, OutTypes, Sinks, TermConstants
    <3> QED BY <3>1
  <2>3. at \in {"idle", "write", "puts", "printf", "read", "full", "line"}
    BY DEF TermInv, OutTypes, Calls
  <2>4. {cr_in, cr_out} \subseteq BOOLEAN BY DEF TermInv, OutTypes, ReadSoFar
  <2> QED BY <1>1, <2>1, <2>2, <2>3, <2>4 DEF TermTypeOK
<1> QED BY <1>6, <1>7, <1>8 DEF LineKept

\* In ioterm_getsn the characters kept and the room counted always make up the
\* buffer, and the screen shows the line, whatever keys are hit.
THEOREM LineIsKept == TermSpec => []LineKept
<1>1. TermConstants BY TermAssumption
<1>2. TermInit => TermInv BY <1>1, InitHolds
<1>3. TermInv /\ [TermNext]_termVars => TermInv' BY <1>1, StepHolds
<1>4. TermInv => LineKept BY <1>1, ScreenShows
<1> QED BY <1>2, <1>3, <1>4, PTL DEF TermSpec

LEMMA OutputIs ==
    ASSUME TermConstants, TermInv, AskedSoFar
    PROVE  OutputNormal
<1> SUFFICES ASSUME at \notin Calls PROVE Out(sink) = Cut(Normal(asked))
  BY DEF OutputNormal, Written, Calls, Out, Cut
<1>1. sink \in Sinks /\ queue = <<>> /\ asked \in Seq(Keys)
  BY DEF TermInv, OutTypes, AskedSoFar
<1>2. CASE Full(sink) BY <1>2 DEF AskedSoFar
<1>3. CASE ~Full(sink)
  <2>1. Out(sink) = Normal(asked) BY <1>1, <1>3 DEF AskedSoFar
  <2>2. Normal(asked) \in Seq(Keys) BY <1>1, NormalAppend, CodesAre
  <2>3. Normal(asked) \in Seq(OutChars) BY <2>2, KeysOut
  <2> QED BY <1>1, <2>1, <2>3, EndCut
<1> QED BY <1>2, <1>3

\* "\r\n", "\r" and "\n" each are written as "\r\n", wherever the texts are cut,
\* as far as the file reaches, and nothing is written twice: if no text goes on
\* with the "\n" of a "\r" before it and with more.
THEOREM WritesAreNormal == Unsplit /\ TermSpec => []OutputNormal
<1>1. CASE Unsplit
  <2>0. TermConstants BY TermAssumption
  <2>1. TermInit => TermInv /\ AskedSoFar BY <2>0, InitHolds
  <2>2. TermInv /\ AskedSoFar /\ [TermNext]_termVars => TermInv' /\ AskedSoFar' BY <1>1, <2>0, StepHolds
  <2>3. TermInv /\ AskedSoFar => OutputNormal BY <1>1, <2>0, OutputIs
  <2> QED BY <2>1, <2>2, <2>3, PTL DEF TermSpec
<1>2. CASE ~Unsplit BY <1>2
<1> QED BY <1>1, <1>2
=============================================================================
