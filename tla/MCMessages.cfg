SPECIFICATION Spec
CONSTANTS
  Byte = 3
  Short = 4
  AllocStep = 8
  KeyLength = 2
  Sizes = {0, 1, 4}
  MaxCount = 4
  MaxMessages = 2
INVARIANTS
  TypeOK
  ReadsBack
  ThrowsOnlyOnLongList
CHECK_DEADLOCK FALSE
