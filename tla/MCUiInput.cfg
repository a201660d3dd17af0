SPECIFICATION Spec
CONSTANTS
  Directions = {"forward"}
  MaxLine = 1
PROPERTIES
  HiddenGetsNoInput
CHECK_DEADLOCK FALSE
