SPECIFICATION Spec
CONSTANTS
  Jobs = {ocr, chain, author}
  Overlaps <- OcrOverlaps
  Kind <- OcrKind
  In <- OcrIn
  Out <- OcrOut
  Links <- OcrLinks
  Paths = {a, b, c}
  Entry <- Spellings
  other_a = other_a
  Originals = {one, two}
  DiskPages <- Pages
  Suffixes = {s1, s2}
  MaxPages = 2
  MaxFiles = 3
  NoInode = NoInode
  Nobody = Nobody
  a = a b = b c = c d = d e = e p1 = p1 p2 = p2 two = two one = one
  ocr = ocr chain = chain author = author split = split blank = blank
  merge = merge redact = redact images = images alias = alias link = link
SYMMETRY SuffixSymmetry
INVARIANTS StagingSound RecheckedSameLength
PROPERTY SourcesStable AtomicPublication
CHECK_DEADLOCK FALSE
