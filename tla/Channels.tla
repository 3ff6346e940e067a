------------------------------ MODULE Channels -------------------------------
(***************************************************************************)
(* What an open serial port promises its callers: two queues of bounded     *)
(* length.  A byte from the line goes to the end of the receive queue and   *)
(* readers take bytes from its front; writers add to the transmit queue,    *)
(* whose bytes reach the line in order.  Only opening empties the queues,   *)
(* and only a byte that the line brings before the last one was accepted    *)
(* replaces another.                                                        *)
(***************************************************************************)
EXTENDS Naturals, Sequences

CONSTANTS
    Threads,
    Chars,
    Messages,   \* what is written
    None,       \* no byte in a register of the device
    Capacity    \* bytes a queue holds

VARIABLES
    open,
    rbr, thr,   \* the receive and the transmit register
    rxq, txq,   \* the queues
    taken,      \* what the current read of a thread has
    todo        \* what the current write of a thread still has to put

vars == <<open, rbr, thr, rxq, txq, taken, todo>>

Init ==
    /\ open = FALSE
    /\ rbr = None /\ thr = None
    /\ rxq = <<>> /\ txq = <<>>
    /\ taken = [t \in Threads |-> <<>>]
    /\ todo = [t \in Threads |-> <<>>]

Open ==
    /\ ~open
    /\ open' = TRUE /\ rxq' = <<>> /\ txq' = <<>> /\ rbr' = None
    /\ UNCHANGED <<thr, taken, todo>>

Close ==
    /\ open
    /\ open' = FALSE
    /\ \A t \in Threads : taken[t] = <<>> /\ todo[t] = <<>>
    /\ UNCHANGED <<rbr, thr, rxq, txq, taken, todo>>

\* The line.
Arrive(c) == rbr' = c /\ UNCHANGED <<open, thr, rxq, txq, taken, todo>>
Transmit == thr # None /\ thr' = None /\ UNCHANGED <<open, rbr, rxq, txq, taken, todo>>

\* The port accepts the byte that has arrived, sends the next one, or both.
Accepts ==
    /\ rbr # None /\ Len(rxq) < Capacity
    /\ rxq' = Append(rxq, rbr) /\ rbr' = None
Sends ==
    /\ thr = None /\ txq # <<>>
    /\ thr' = Head(txq) /\ txq' = Tail(txq)
Serve ==
    /\ open
    /\ \/ Accepts /\ UNCHANGED <<thr, txq>>
       \/ Sends /\ UNCHANGED <<rbr, rxq>>
       \/ Accepts /\ Sends
    /\ UNCHANGED <<open, taken, todo>>

Take(t) ==
    /\ open /\ rxq # <<>>
    /\ taken' = [taken EXCEPT ![t] = Append(@, Head(rxq))]
    /\ rxq' = Tail(rxq)
    /\ UNCHANGED <<open, rbr, thr, txq, todo>>
ReturnRead(t) ==
    /\ taken[t] # <<>>
    /\ taken' = [taken EXCEPT ![t] = <<>>]
    /\ UNCHANGED <<open, rbr, thr, rxq, txq, todo>>

BeginWrite(t, s) ==
    /\ open /\ todo[t] = <<>>
    /\ todo' = [todo EXCEPT ![t] = s]
    /\ UNCHANGED <<open, rbr, thr, rxq, txq, taken>>
Put(t) ==
    /\ open /\ todo[t] # <<>> /\ Len(txq) < Capacity
    /\ txq' = Append(txq, Head(todo[t]))
    /\ todo' = [todo EXCEPT ![t] = Tail(@)]
    /\ UNCHANGED <<open, rbr, thr, rxq, taken>>

Next ==
    \/ Open \/ Close \/ Transmit \/ Serve
    \/ \E c \in Chars : Arrive(c)
    \/ \E t \in Threads : Take(t) \/ ReturnRead(t) \/ Put(t)
    \/ \E t \in Threads, s \in Messages : BeginWrite(t, s)

Spec == Init /\ [][Next]_vars

==============================================================================
