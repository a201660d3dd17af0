SPECIFICATION Safety
CONSTANTS
  Clients = {c1}
  Blocks = {b1}
  MaxEdits = 1
INVARIANTS
  DeliveredInSequence
CHECK_DEADLOCK FALSE
