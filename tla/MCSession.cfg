\* Five sessions of two processes, started one at a time; crashes, and kills
\* outside recoveries.
SPECIFICATION Spec
CONSTANTS
  Proc = {p1, p2}
  none = none
  left = left
  MaxVrsn = 2
  NInode = 7
  MaxStroke = 3
  MaxStarts = 5
  Overlap = FALSE
  KillRecovering = FALSE
  StayRecovered = FALSE
SYMMETRY Symmetry
INVARIANTS TypeOK OwnFiles StrokesOffered
CHECK_DEADLOCK FALSE
