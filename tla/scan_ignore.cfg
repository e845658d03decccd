SPECIFICATION Spec
CONSTANTS
  Workers = {w1, w2}
  IoThreads = {io}
  NFiles = 2
  PageCount <- TwoFiles
  FirstPage = 0
  LastPage = 2
  IgnoreErrors = TRUE
  ScanLimit = 2
  ChunkRows = 1
  NoThread = NoThread
SYMMETRY WorkerSymmetry
INVARIANTS EachPageOnce NoPageAbandoned InterruptIsNoFileError
PROPERTY KeepsPromise
