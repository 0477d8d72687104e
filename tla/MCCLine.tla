------------------------------- MODULE MCCLine ------------------------------
(* Values of the constants of CLine for TLC. *)
EXTENDS CLine, TLC

CONSTANTS f1, f2, a

MCFile  == {f1, f2}
MCWord  == {a}
MCText0 == (f1 :> << a, blank >>) @@ (f2 :> << a >>)
=============================================================================
