SPECIFICATION FairSpec
CONSTANTS
  Workers = {w1, w2}
  IoThreads = {io}
  NFiles = 2
  PageCount <- TwoShort
  FirstPage = 1
  LastPage <- All
  IgnoreErrors = FALSE
  ScanLimit = 2
  ChunkRows = 2
  NoThread = NoThread
INVARIANTS IInv StrictReportsFailure
PROPERTY Terminates
