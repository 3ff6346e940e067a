-------------------------------- MODULE Uart ---------------------------------
(***************************************************************************)
(* The serial port driver, src/src/kern/uart.c.                             *)
(*                                                                         *)
(* The kernel is not preemptive: one thread at a time is inside uart_read   *)
(* or uart_write, until it waits or returns, but they run with interrupts   *)
(* enabled, so that uart_isr comes between any two of their steps: between  *)
(* the access to a slot of a ring and the move of its position, and between *)
(* the load and the store of `ier |= ...`.  The tests of `while             *)
(* (rbuf_empty) condition_wait` run with interrupts disabled and are one    *)
(* step with the wait.  rxovrcnt, which nothing reads, is left out.         *)
(***************************************************************************)
EXTENDS Integers, Sequences, FiniteSets

CONSTANTS
    Threads,
    Writers,    \* the threads that write (the bound of the model); all read
    Chars,
    None,       \* no byte in a register or in a slot never written
    RBUFSZ,     \* SERIAL_RBUFSZ
    POSMOD,     \* 2^16: hpos and tpos are uint16_t
    Arrivals,   \* the bytes the line brings (the bound of the model)
    Sizes,      \* bufsz of the reads (the bound of the model)
    Messages    \* what is written (the bound of the model)

ASSUME UartAssumption ==
    /\ Writers \subseteq Threads
    /\ None \notin Chars /\ Arrivals \subseteq Chars
    /\ RBUFSZ \in Nat \ {0} /\ POSMOD \in Nat
    /\ POSMOD % RBUFSZ = 0 /\ RBUFSZ < POSMOD
    /\ Sizes \subseteq Nat \ {0} /\ Messages \subseteq Seq(Chars) \ {<<>>}

VARIABLES
    open,       \* io_intf.refcnt # 0, and the interrupt enabled at the PLIC
    ier,        \* the device's interrupt enable register
    rbr, thr,   \* its data registers
    rxbuf, txbuf,
    pc,         \* where each thread is in the driver
    reg,        \* what the thread inside the driver loaded last
    taken,      \* what a read has taken so far
    want,       \* bufsz of a read
    todo        \* the bytes p .. buf + n of a write

hwVars == <<ier, rbr, thr>>
callVars == <<taken, want, todo>>
vars == <<open, hwVars, rxbuf, txbuf, pc, reg, callVars>>

DREIE == "DREIE"
THREIE == "THREIE"

Outside == {"user", "rxwait", "rxready", "txwait", "txready"}
Reads == {"drain", "got", "rload", "rstore"}
Writes == {"fill", "put", "wload", "wstore"}

\* The thread that may run driver code: it is inside already or no other is.
OnHart(t) == \A u \in Threads \ {t} : pc[u] \in Outside

------------------------------------------------------------------------------
(* Ring buffers *)

rbuf_init(rb) == [hpos |-> 0, tpos |-> 0, data |-> rb.data]
rbuf_empty(rb) == rb.hpos = rb.tpos

\* Full without the cast to uint16_t, and as it is.
PromotedFull(rb) == rb.tpos - rb.hpos = RBUFSZ
rbuf_full(rb) == (rb.tpos - rb.hpos) % POSMOD = RBUFSZ

\* rbuf_put and rbuf_get: the slot, then the position.
Slot(rb) == rb.data[rb.hpos % RBUFSZ]
Store(rb, c) ==
    [hpos |-> rb.hpos, tpos |-> rb.tpos,
     data |-> [rb.data EXCEPT ![rb.tpos % RBUFSZ] = c]]
TailMoved(rb) ==
    [hpos |-> rb.hpos, tpos |-> (rb.tpos + 1) % POSMOD, data |-> rb.data]
HeadMoved(rb) ==
    [hpos |-> (rb.hpos + 1) % POSMOD, tpos |-> rb.tpos, data |-> rb.data]

Fill(rb) == (rb.tpos - rb.hpos) % POSMOD
Contents(rb) == [i \in 1 .. Fill(rb) |-> rb.data[(rb.hpos + i - 1) % RBUFSZ]]

------------------------------------------------------------------------------
(* Attach, open and close *)

EmptyRing == [hpos |-> 0, tpos |-> 0, data |-> [i \in 0 .. RBUFSZ - 1 |-> None]]

\* uart_attach.
Init ==
    /\ open = FALSE
    /\ ier = {} /\ rbr = None /\ thr = None
    /\ rxbuf = EmptyRing /\ txbuf = EmptyRing
    /\ pc = [t \in Threads |-> "user"]
    /\ reg = None
    /\ taken = [t \in Threads |-> <<>>]
    /\ want = [t \in Threads |-> 0]
    /\ todo = [t \in Threads |-> <<>>]

\* A second open finds refcnt # 0 and returns -EBUSY.
Open ==
    /\ ~open
    /\ \A t \in Threads : pc[t] = "user"
    /\ open' = TRUE
    /\ rxbuf' = rbuf_init(rxbuf) /\ txbuf' = rbuf_init(txbuf)
    /\ rbr' = None
    /\ ier' = {DREIE}
    /\ UNCHANGED <<thr, pc, reg, callVars>>

\* ioclose drops the last reference, so nobody is in a call.
Close ==
    /\ open
    /\ \A t \in Threads : pc[t] = "user"
    /\ open' = FALSE
    /\ ier' = {}
    /\ UNCHANGED <<rbr, thr, rxbuf, txbuf, pc, reg, callVars>>

------------------------------------------------------------------------------
(* uart_read *)

Goto(t, label) == pc' = [pc EXCEPT ![t] = label]

\* intr_disable() up to intr_enable(): wait while the buffer is empty.
TryRead(t) ==
    /\ IF rbuf_empty(rxbuf) THEN Goto(t, "rxwait") ELSE Goto(t, "drain")
    /\ UNCHANGED <<open, hwVars, rxbuf, txbuf, reg, taken, todo>>

Read(t, n) ==
    /\ open /\ pc[t] = "user" /\ OnHart(t)
    /\ want' = [want EXCEPT ![t] = n]
    /\ TryRead(t)

ReadAgain(t) ==
    /\ pc[t] = "rxready" /\ OnHart(t)
    /\ TryRead(t)
    /\ UNCHANGED want

\* The loop test, with the load of the slot.
Drain(t) ==
    /\ pc[t] = "drain"
    /\ IF ~rbuf_empty(rxbuf) /\ Len(taken[t]) < want[t]
       THEN reg' = Slot(rxbuf) /\ Goto(t, "got")
       ELSE reg' = reg /\ Goto(t, "rload")
    /\ UNCHANGED <<open, hwVars, rxbuf, txbuf, callVars>>

Got(t) ==
    /\ pc[t] = "got"
    /\ rxbuf' = HeadMoved(rxbuf)
    /\ taken' = [taken EXCEPT ![t] = Append(@, reg)]
    /\ reg' = None
    /\ Goto(t, "drain")
    /\ UNCHANGED <<open, hwVars, txbuf, want, todo>>

\* A store that enabled the interrupt only when the buffer had been emptied.
DreieIfEmpty(r) == IF rbuf_empty(rxbuf) THEN r \cup {DREIE} ELSE r
DreieSet(r) == r \cup {DREIE}

ReadLoad(t) ==
    /\ pc[t] = "rload"
    /\ reg' = ier
    /\ Goto(t, "rstore")
    /\ UNCHANGED <<open, hwVars, rxbuf, txbuf, callVars>>

ReadStore(t) ==
    /\ pc[t] = "rstore"
    /\ ier' = DreieSet(reg)
    /\ reg' = None
    /\ taken' = [taken EXCEPT ![t] = <<>>]
    /\ want' = [want EXCEPT ![t] = 0]
    /\ Goto(t, "user")
    /\ UNCHANGED <<open, rbr, thr, rxbuf, txbuf, todo>>

------------------------------------------------------------------------------
(* uart_write *)

TryWrite(t) ==
    /\ IF rbuf_full(txbuf) THEN Goto(t, "txwait") ELSE Goto(t, "fill")
    /\ UNCHANGED <<open, hwVars, rxbuf, txbuf, taken, want>>

Write(t, s) ==
    /\ open /\ pc[t] = "user" /\ OnHart(t)
    /\ todo' = [todo EXCEPT ![t] = s]
    /\ TryWrite(t)
    /\ UNCHANGED reg

WriteAgain(t) ==
    /\ pc[t] = "txready" /\ OnHart(t)
    /\ TryWrite(t)
    /\ UNCHANGED <<reg, todo>>

FillSlot(t) ==
    /\ pc[t] = "fill"
    /\ IF ~rbuf_full(txbuf) /\ todo[t] # <<>>
       THEN txbuf' = Store(txbuf, Head(todo[t])) /\ Goto(t, "put")
       ELSE txbuf' = txbuf /\ Goto(t, "wload")
    /\ UNCHANGED <<open, hwVars, rxbuf, reg, callVars>>

Put(t) ==
    /\ pc[t] = "put"
    /\ txbuf' = TailMoved(txbuf)
    /\ todo' = [todo EXCEPT ![t] = Tail(@)]
    /\ Goto(t, "fill")
    /\ UNCHANGED <<open, hwVars, rxbuf, reg, taken, want>>

WriteLoad(t) ==
    /\ pc[t] = "wload"
    /\ reg' = ier
    /\ Goto(t, "wstore")
    /\ UNCHANGED <<open, hwVars, rxbuf, txbuf, callVars>>

\* A store that enabled the interrupt only when the buffer was full.
ThreieIfFull(r) == IF rbuf_full(txbuf) THEN r \cup {THREIE} ELSE r
ThreieSet(r) == r \cup {THREIE}

\* With the next turn of the outer loop, whose test runs on the same thread.
WriteStore(t) ==
    /\ pc[t] = "wstore"
    /\ ier' = ThreieSet(reg)
    /\ reg' = None
    /\ Goto(t, IF todo[t] = <<>> THEN "user"
               ELSE IF rbuf_full(txbuf) THEN "txwait" ELSE "fill")
    /\ UNCHANGED <<open, rbr, thr, rxbuf, txbuf, callVars>>

------------------------------------------------------------------------------
(* The device and uart_isr *)

Raised == (DREIE \in ier /\ rbr # None) \/ (THREIE \in ier /\ thr = None)

\* A byte from the line; one that was not yet read is overrun.
Arrive(c) ==
    /\ rbr' = c
    /\ UNCHANGED <<open, ier, thr, rxbuf, txbuf, pc, reg, callVars>>

Transmit ==
    /\ thr # None
    /\ thr' = None
    /\ UNCHANGED <<open, ier, rbr, rxbuf, txbuf, pc, reg, callVars>>

\* When the handler wakes readers: when it fills an empty buffer, and one that
\* tested for that after the put.
WakesAfterPut == rbr # None /\ ~rbuf_full(rxbuf) /\ Fill(rxbuf) = 1
WakesReaders == rbr # None /\ ~rbuf_full(rxbuf) /\ rbuf_empty(rxbuf)

\* When it wakes writers: when it takes from a full buffer.
WakesWriters == thr = None /\ ~rbuf_empty(txbuf) /\ rbuf_full(txbuf)

Woken(label) ==
    IF label = "rxwait" /\ WakesReaders THEN "rxready"
    ELSE IF label = "txwait" /\ WakesWriters THEN "txready"
    ELSE label

\* Both halves run whichever of the two interrupts came.
Isr ==
    /\ open /\ Raised
    /\ LET rx == rbr # None
           tx == thr = None
           off == (IF rx /\ rbuf_full(rxbuf) THEN {DREIE} ELSE {})
                  \cup (IF tx /\ rbuf_empty(txbuf) THEN {THREIE} ELSE {})
       IN /\ ier' = ier \ off
          /\ IF rx /\ ~rbuf_full(rxbuf)
             THEN rxbuf' = TailMoved(Store(rxbuf, rbr)) /\ rbr' = None
             ELSE UNCHANGED <<rxbuf, rbr>>
          /\ IF tx /\ ~rbuf_empty(txbuf)
             THEN thr' = Slot(txbuf) /\ txbuf' = HeadMoved(txbuf)
             ELSE UNCHANGED <<thr, txbuf>>
    /\ pc' = [t \in Threads |-> Woken(pc[t])]
    /\ UNCHANGED <<open, reg, callVars>>

------------------------------------------------------------------------------

\* A thread goes on with the call it is in.
Step(t) ==
    \/ ReadAgain(t) \/ Drain(t) \/ Got(t) \/ ReadLoad(t) \/ ReadStore(t)
    \/ WriteAgain(t) \/ FillSlot(t) \/ Put(t) \/ WriteLoad(t) \/ WriteStore(t)

Next ==
    \/ Open \/ Close \/ Transmit \/ Isr
    \/ \E c \in Arrivals : Arrive(c)
    \/ \E t \in Threads :
          \/ \E n \in Sizes : Read(t, n)
          \/ t \in Writers /\ \E s \in Messages : Write(t, s)
          \/ Step(t)

\* The device sends what it is given and its interrupt is taken; the ready list
\* is first come, first served, so that a thread in a call gets the hart again
\* and again.
Fairness ==
    /\ WF_vars(Transmit) /\ WF_vars(Isr)
    /\ \A t \in Threads : SF_vars(Step(t))

Spec == Init /\ [][Next]_vars
FairSpec == Spec /\ Fairness

------------------------------------------------------------------------------
(* Properties *)

RingOK(rb) ==
    /\ {rb.hpos, rb.tpos} \subseteq 0 .. POSMOD - 1
    /\ rb.data \in [0 .. RBUFSZ - 1 -> Chars \cup {None}]
    /\ Fill(rb) <= RBUFSZ

TypeOK ==
    /\ open \in BOOLEAN
    /\ ier \subseteq {DREIE, THREIE}
    /\ {rbr, thr} \subseteq Chars \cup {None}
    /\ RingOK(rxbuf) /\ RingOK(txbuf)
    /\ pc \in [Threads -> Outside \cup Reads \cup Writes]
    /\ want \in [Threads -> Sizes \cup {0}]
    /\ \A t \in Threads : Len(taken[t]) <= want[t] /\ todo[t] \in Seq(Chars)

\* Who waits for bytes waits on an empty buffer, and who waits for room on a
\* full one: uart_isr broadcasts only when it changes that, so a thread that
\* slept on would not be woken by any later interrupt.
NoLostWakeup ==
    \A t \in Threads :
       /\ pc[t] = "rxwait" => rbuf_empty(rxbuf)
       /\ pc[t] = "txwait" => rbuf_full(txbuf)

\* While the port is open its receive interrupt is off only if the buffer is
\* full or a read that will turn it on has not finished, although uart_isr turns
\* it off between the load and the store of the reader's and the writer's |=.
ReceiveEnabled ==
    open /\ DREIE \notin ier =>
       rbuf_full(rxbuf) \/ \E t \in Threads : pc[t] \in Reads

\* Bytes to send are never left behind with the transmit interrupt off.
TransmitEnabled ==
    open /\ THREIE \notin ier =>
       rbuf_empty(txbuf) \/ \E t \in Threads : pc[t] \in Writes

\* What a thread sleeps on or leaves in a buffer is never forgotten: neither its
\* wake-up nor the interrupt that would serve it.
NothingForgotten == TypeOK /\ NoLostWakeup /\ ReceiveEnabled /\ TransmitEnabled

\* The driver is two bounded first-in first-out queues: no byte is lost,
\* repeated or reordered by the wrap of the positions or by the interrupts that
\* come in the middle of a put or a get.
Ports == INSTANCE Channels WITH
    Capacity <- RBUFSZ, rxq <- Contents(rxbuf), txq <- Contents(txbuf)
Queues == Ports!Spec

\* A byte that arrives while a thread waits for one gets the thread going.
ReaderServed ==
    \A t \in Threads : (pc[t] = "rxwait" /\ rbr # None) ~> pc[t] # "rxwait"

\* A write ends, however long the message, unless another thread writes too:
\* the broadcast wakes both, and the other may take the room each time.
WriteEnds ==
    \A t \in Threads :
       todo[t] # <<>> ~> (todo[t] = <<>> \/ \E u \in Threads \ {t} : todo[u] # <<>>)

\* Whoever waits is served, and whoever writes comes to an end.
WaitersServed == ReaderServed /\ WriteEnds

\* The byte that is next in the transmit buffer is sent, unless the port is
\* closed first, which loses it.
SentOrClosed ==
    \A h \in 0 .. POSMOD - 1 :
       (open /\ ~rbuf_empty(txbuf) /\ txbuf.hpos = h) ~> (~open \/ txbuf.hpos # h)

==============================================================================
