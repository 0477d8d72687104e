-------------------------------- MODULE MCQBuf ------------------------------
(* Values of the constants of QBuf for TLC. *)
EXTENDS QBuf, TLC

CONSTANTS a, b

MCWord     == {a, b, empty}
MCText0    == << << a, b >>, << b, empty >> >>
MCTyped    == {<< b, a >>}
Symmetry   == Permutations({QADJUST, QRUN})   \* they are used alike
MCFiltered == {<< << a, a >> >>}
=============================================================================
