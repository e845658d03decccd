SPECIFICATION Spec
CONSTANTS
  Jobs = {blank, merge, split, images, chain, redact, alias, link}
  Overlaps <- PartsOverlaps
  Kind <- PartsKind
  In <- PartsIn
  Out <- PartsOut
  Links <- PartsLinks
  Paths = {a, b, c, d, e, p1, p2}
  Entry <- Spellings
  other_a = other_a
  Originals = {one, two}
  DiskPages <- Pages
  Suffixes = {s1, s2}
  MaxPages = 2
  MaxFiles = 3
  NoInode = NoInode
  Nobody = Nobody
  a = a b = b c = c d = d e = e p1 = p1 p2 = p2 two = two one = one
  ocr = ocr chain = chain author = author split = split blank = blank
  merge = merge redact = redact images = images alias = alias link = link
SYMMETRY SuffixSymmetry
PROPERTY AtomicPublication InputsKept
CHECK_DEADLOCK FALSE
