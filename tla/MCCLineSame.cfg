\* The user edits, once more, the file he is in.
SPECIFICATION Spec
CONSTANTS
  f1 = f1
  f2 = f2
  a = a
  blank = blank
  NoFile = NoFile
  File <- MCFile
  Word <- MCWord
  Text0 <- MCText0
  MaxLines = 3
  Rows = 2
  MaxEdits = 2
  EditCurrent = TRUE
  BehindEnd = FALSE
  Interrupt = FALSE
  PutFails = FALSE
PROPERTY ImplementsText
CHECK_DEADLOCK FALSE
