SPECIFICATION Spec
CONSTANTS
  s1 = s1
  s2 = s2
  clone = clone
  Stream <- TwoStreams
  Clone = clone
  LA_NLLINE = 2
  LA_FSDLMAX = 3
  LA_FSDBMAX = 6
  LA_FSDNBMAX = 31
  BUFSIZ = 8
  FF_BSIZE = 16
  Files <- SomeFiles
  News <- SomeNews
  ReadLens <- Small
  FormFeed <- FormFeeds
  Dot <- Dots
  FlushAt <- Second
  MaxEdits = 1
SYMMETRY Symmetry
INVARIANTS TypeOK StreamsExact FlushExact CountsParagraphs
PROPERTIES ImplementsReader
