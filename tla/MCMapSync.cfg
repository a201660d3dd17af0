SPECIFICATION Spec
CONSTANTS
  Clients = {c1, c2}
  Blocks = {b1, b2}
  MaxEdits = 2
INVARIANTS
  TypeOK
  ChangesOnlyInHandler
  SentOnce
  NothingUngenerated
  AgreeWhenSettled
PROPERTIES
  EventuallyAgree
CHECK_DEADLOCK FALSE
