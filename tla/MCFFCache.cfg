SPECIFICATION Spec
CONSTANTS
  chg = chg
  txt = txt
  b1 = b1
  b2 = b2
  b3 = b3
  x = x
  y = y
  Hole = Hole
  NoPath = NoPath
  Path <- TwoFiles
  Buf <- ThreeBufs
  Byte <- OneByte
  Modes <- WriteChangeFile
  InitDisk <- Disk0
  NFile = 2
  NStream = 2
  BSIZE = 2
  MaxBlk = 2
  ReadLens = {2}
  WriteLens = {2}
  MinPool = 3
  FailWrites = FALSE
  FailReads = FALSE
  Overwrite = FALSE
  Untidy = FALSE
  BuiltinFill = FALSE
SYMMETRY Symmetry
INVARIANTS PosImage CleanAgrees
PROPERTIES ImplementsFileStore
