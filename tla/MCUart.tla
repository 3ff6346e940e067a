------------------------------- MODULE MCUart --------------------------------
(* Uart with model values for threads and bytes. *)
EXTENDS Uart

CONSTANTS t1, t2, a, b

\* One message is longer than the ring.
MCMessages == {<<a, b, a>>}

==============================================================================
