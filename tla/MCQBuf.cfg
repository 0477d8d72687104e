\* A file of two lines, each command about two lines, or the
\* last one; three commands.
SPECIFICATION Spec
CONSTANTS
  UserFile = UserFile
  PICKFILE = PICKFILE
  OLDLFILE = OLDLFILE
  QADJUST = QADJUST
  QPICK = QPICK
  QCLOSE = QCLOSE
  QERASE = QERASE
  QRUN = QRUN
  QNONE = QNONE
  NoFile = NoFile
  None = None
  a = a
  b = b
  empty = empty
  Word <- MCWord
  Text0 <- MCText0
  Typed <- MCTyped
  Filtered <- MCFiltered
  Counts = {2}
  MaxEdits = 3
  Fails = TRUE
  HalfFails = FALSE
  JoinInPick = FALSE
  CloseInOld = FALSE
SYMMETRY Symmetry
INVARIANTS
  TypeOK
PROPERTIES
  TakesWhatIsAsked
  ImplementsBuffers
CHECK_DEADLOCK FALSE
