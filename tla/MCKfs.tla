-------------------------------- MODULE MCKfs ---------------------------------
(* Kfs on a disk of two files; the first has a block after the second's. *)
EXTENDS Kfs

TwoSizes == [f \in {0, 1} |-> IF f = 0 THEN 6 ELSE 3]
TwoBlocks == [f \in {0, 1} |-> IF f = 0 THEN <<2, 1>> ELSE <<0>>]
OneSize == [f \in {0} |-> 6]
OneBlocks == [f \in {0} |-> <<1, 0>>]
SmallSize == [f \in {0} |-> 2]
SmallBlocks == [f \in {0} |-> <<0>>]

==============================================================================
