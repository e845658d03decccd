SPECIFICATION FairSpec
CONSTANTS
  x = x
  y = y
  z = z
  Server = Server
  Calls = {z}
  Overlaps = {{z}}
  Route <- Routes
PROPERTY Returns
CHECK_DEADLOCK FALSE
