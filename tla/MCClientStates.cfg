SPECIFICATION Spec
CONSTANTS
  Directions = {forward, left}
  MaxLine = 1
  Timeout = 2
  Wrap = 5
INVARIANTS
  TypeOK
  OneHasKeyboard
  MovesWhileHeld
  SendsToPeer
  ThreadHasState
  FailureIsReal
  OneJoin
  CursorFree
PROPERTIES
  Decides
  Closes
CHECK_DEADLOCK FALSE
