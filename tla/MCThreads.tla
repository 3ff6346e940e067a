----------------------------- MODULE MCThreads -------------------------------
(* Threads with model values for the conditions and the null condition. *)
EXTENDS Threads

CONSTANTS disk, tick, nocond

==============================================================================
