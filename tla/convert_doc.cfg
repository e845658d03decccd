SPECIFICATION Spec
CONSTANTS
  x = x
  y = y
  z = z
  Server = Server
  Calls = {x, y, z}
  Overlaps = {{x, y}, {z}}
  Route <- Routes
PROPERTY TimeoutIsOwn
CHECK_DEADLOCK FALSE
