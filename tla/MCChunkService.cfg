SPECIFICATION Spec
CONSTANTS
  Positions = {1, 2}
  Home = {1}
  Players = {p1, p2}
  Workers = {w1}
  Batch = 1
  CountModulus = 2
  MaxCopies = 2
  MaxPending = 2
INVARIANTS
  TypeOK
  OneWhileFound
  PendingIsEmerging
  AllAccountedFor
PROPERTIES
  UsesPool
  Served
CHECK_DEADLOCK FALSE
