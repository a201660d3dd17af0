SPECIFICATION Safety
CONSTANTS
  Directions = {forward}
  MaxLine = 1
  Timeout = 2
  Wrap = 5
INVARIANTS
  WaitsAtMost
CHECK_DEADLOCK FALSE
