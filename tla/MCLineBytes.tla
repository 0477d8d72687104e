---------------------------- MODULE MCLineBytes ----------------------------
(* Characters of three bits and a sign become two bits and a sign: a length *)
(* fits into one byte up to 3, into two up to 19, and is special above.    *)
EXTENDS LineBytes, TLC

CONSTANTS s1, s2, clone

TwoStreams == {s1, s2}
Symmetry   == Permutations(TwoStreams)
Second     == {1}

Line(n, missing) == [chars |-> n, nonl |-> missing]

(* Lines of every kind of length, at the limits, and a file that does not   *)
(* end with a newline.                                                     *)
SomeFiles ==
  { << >>,
    << Line(1, FALSE), Line(3, FALSE), Line(4, FALSE), Line(2, FALSE) >>,
    << Line(19, FALSE), Line(13, FALSE), Line(1, FALSE) >>,
    << Line(2, FALSE), Line(20, FALSE), Line(5, TRUE) >>,
    << Line(4, FALSE), Line(5, FALSE), Line(3, FALSE), Line(1, TRUE) >> }

SomeNews == { << >>, << 1, 4 >> }

Small == {2, 9}

FormFeeds == {<< "disk", p >> : p \in {0, 8, 32}} \cup {<< "chg", 1 >>}
Dots      == {<< "disk", p >> : p \in {4, 19, 22}}
=============================================================================
