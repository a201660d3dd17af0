SPECIFICATION Safety
CONSTANTS
  Positions = {1, 2}
  Home = {1}
  Players = {p1}
  Workers = {w1}
  Batch = 1
  CountModulus = 2
  MaxCopies = 1
  MaxPending = 2
INVARIANTS
  LoadGivesChunk
CHECK_DEADLOCK FALSE
