\* Two windows with two workspaces each and two files of up to three lines;
\* the user does not edit the file he is in, nor press the case key behind
\* its end.
SPECIFICATION Spec
CONSTANTS
  f1 = f1
  f2 = f2
  a = a
  blank = blank
  NoFile = NoFile
  File <- MCFile
  Word <- MCWord
  Text0 <- MCText0
  MaxLines = 3
  Rows = 2
  MaxEdits = 2
  EditCurrent = FALSE
  BehindEnd = FALSE
  Interrupt = FALSE
  PutFails = FALSE
INVARIANTS
  TypeOK
  CacheCurrent
  CacheStreamOpen
  NoFatal
PROPERTY
  ImplementsText
