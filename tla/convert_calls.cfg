SPECIFICATION Spec
CONSTANTS
  x = x
  y = y
  z = z
  Server = Server
  Calls = {x, y, z}
  Overlaps = {{x, y}, {z}}
  Route <- Routes
INVARIANTS AttemptsClean EveryBackendAnswers
PROPERTY PublishedWhenFinished
CHECK_DEADLOCK FALSE
