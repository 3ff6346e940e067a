------------------------------ MODULE MCAlarms -------------------------------
(* Alarms with model values for the threads. *)
EXTENDS Alarms

CONSTANTS t1, t2, t3

==============================================================================
