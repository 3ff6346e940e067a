----------------------------- MODULE MCTraps ---------------------------------
(* Traps with model values for the threads; those that are forked are alike. *)
EXTENDS Traps, TLC

CONSTANTS main, idle, a, b, none

MCUsers == {main, a, b}
MCSymmetry == Permutations({a, b})

==============================================================================
