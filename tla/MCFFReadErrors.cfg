SPECIFICATION Spec
CONSTANTS
  chg = chg
  txt = txt
  b1 = b1
  b2 = b2
  b3 = b3
  x = x
  y = y
  Hole = Hole
  NoPath = NoPath
  Path <- ChangeFile
  Buf <- ThreeBufs
  Byte <- OneByte
  Modes <- WriteChangeFile
  InitDisk <- Disk0
  NFile = 1
  NStream = 1
  BSIZE = 2
  MaxBlk = 2
  ReadLens = {2}
  WriteLens = {2}
  MinPool = 3
  FailWrites = TRUE
  FailReads = TRUE
  Overwrite = FALSE
  Untidy = FALSE
  BuiltinFill = FALSE
SYMMETRY Symmetry
INVARIANTS OneCopy
