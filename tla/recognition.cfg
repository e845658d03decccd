SPECIFICATION ProcessSpec
CONSTANTS
  None = None
  s = s
  t = t
  eng = eng
  fra = fra
  plain = plain
  digits = digits
  here = here
  near = near
  far = far
  Threads = {s, t}
  Models = {eng, fra}
  Settings = {plain, digits}
  Dirs = {here}
  Plugins = {near, far}
  Requests <- Asked
  Old = Old
  NoFile = NoFile
  a = a
  b = b
  c = c
  ours = ours
  theirs = theirs
  Callers = {a, b, c}
  Process <- TwoProcesses
  Pieces = 2
  MaxCalls <- FirstOften
  Redactors = {r1, r2, r3}
  Drawers = {d1}
  Readers = {t1}
  Nobody = Nobody
SYMMETRY Either
INVARIANTS StderrRestored EngineIsTheRequested PluginIsTheRequested NoPartialModel FontsPresent
PROPERTY ModelStays
CHECK_DEADLOCK FALSE
