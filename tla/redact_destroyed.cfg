SPECIFICATION DocumentsSpec
CONSTANTS
  Inputs = {}
  Limits = {}
  Workers = {v}
  None = None
  Sources = {}
  OptionSets = {}
  DepthCap = 3
  StepsPerLevel = 8
  Standard = {"P", "H"}
  OcrPages = {}
  LayerCalls = {}
  Redactions <- Jobs
  LowConfidence = 55
  HighDpi = 400
  Scans = {}
  Stampings = {}
  Signings = {}
  Files = {}
  Trees = {}
  ScalarCalls = {}
  TableCalls = {}
  MaxNumber = 7
  Sentinel = 99
INVARIANT UnderlyingDestroyed
CHECK_DEADLOCK FALSE
