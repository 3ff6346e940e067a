---------------------------- MODULE MCDescriptors ----------------------------
(* Descriptors with model values for processes and files. *)
EXTENDS Descriptors, TLC

CONSTANTS p1, p2, p3

\* The serial ports, of which the first is the console, and the mounted disk.
MCAttached ==
    <<[name |-> "ser", openfn |-> "uart_open_ebusy"],
      [name |-> "ser", openfn |-> "uart_open"],
      [name |-> "blk", openfn |-> "vioblk_open"]>>

\* Nothing tells the children of main apart.
MCSymmetry == Permutations(Procs \ {Main})

==============================================================================
