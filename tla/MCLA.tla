-------------------------------- MODULE MCLA --------------------------------
(* LA on small instances: a file of three lines and one that is empty.     *)
EXTENDS LA

CONSTANTS a, b, s1, s2, l1, l2, l3, l4

OneFile    == {a}
TwoFiles   == {a, b}
TwoStreams == {s1, s2}

Lines3 == {l1, l2, l3, l4, Blank}
Disk3  == [f \in File |-> IF f = a THEN << l1, l2, l3 >> ELSE << >>]
One    == { << l4 >> }

Symmetry == Permutations(Stream)
=============================================================================
