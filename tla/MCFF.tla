-------------------------------- MODULE MCFF --------------------------------
(* FF on small instances: the change file, empty at first and open for      *)
(* writing, and a file of text, three bytes long (if MaxBlk allows) and    *)
(* only read.                                                              *)
EXTENDS FF, TLC

CONSTANTS chg, txt, b1, b2, b3, x, y

TwoFiles   == {chg, txt}
ChangeFile == {chg}

ThreeBufs == {b1, b2, b3}

OneByte  == {x}
TwoBytes == {x, y}

(* Buffers are interchangeable, and so are bytes. *)
Symmetry == Permutations(Buf) \cup Permutations(Byte)

WriteChangeFile == [p \in Path |-> {p = chg}]

Disk0 ==
  {[p \in Path |->
      [len |-> IF p = chg THEN 0 ELSE Lesser(3, MaxBlk * BSIZE),
       at  |-> [a \in Addr |-> IF p = txt /\ a = 0 THEN c ELSE Hole]]] : c \in Byte}
=============================================================================
