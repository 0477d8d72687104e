SPECIFICATION Spec
CONSTANTS
  a = a
  b = b
  s1 = s1
  s2 = s2
  l1 = l1
  l2 = l2
  l3 = l3
  l4 = l4
  Blank = Blank
  Chg = Chg
  Blas = Blas
  NoFile = NoFile
  None = None
  File <- TwoFiles
  Stream <- TwoStreams
  Line <- Lines3
  DiskText <- Disk3
  NewText <- One
  NFsd = 6
  LA_FSDLMAX = 2
  LA_MAXNLINES = 4
  MaxChg = 1
  MaxEdits = 2
  Counts = {1, 3}
  Reserves = {}
  Stays = {}
  SameFsdCopy = FALSE
  CloseShared = FALSE
SYMMETRY Symmetry
INVARIANTS OneChain FsrefsExact
PROPERTIES ImplementsLineFile
