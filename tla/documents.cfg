SPECIFICATION DocumentsSpec
CONSTANTS
  Inputs <- Documents
  Limits <- Sizes
  Workers = {v, w}
  None = None
  Sources <- Queries
  OptionSets <- Layouts
  DepthCap = 3
  StepsPerLevel = 8
  Standard = {"P", "H"}
  OcrPages <- Readings
  LayerCalls <- Overlays
  Redactions <- Jobs
  LowConfidence = 55
  HighDpi = 400
  Scans <- Stacks
  Stampings <- Numbered
  Signings <- Contracts
  Files <- Histories
  Trees <- Nested
  ScalarCalls <- Chunked
  TableCalls <- Bound
  MaxNumber = 7
  Sentinel = 99
INVARIANTS NothingLost WithinLimits HeadingsMoveOn TailAndLabels RevisionsFollowPrev StructureListsTree RunsOfContent KeepsBestWords CoversBoxes OnlyOthersRemain SignsWholeFile StampsEveryPage OptionsAreRead TextInOrder
CHECK_DEADLOCK FALSE
