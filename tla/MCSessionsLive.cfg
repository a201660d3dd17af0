SPECIFICATION Spec
CONSTANTS
  Conns = {c1, c2}
  Slots = {p1, p2}
  Names = {alice, bob}
  MaxDeaths = 1
  NoSlot = NoSlot
PROPERTIES
  SilentIsRemoved
  DeadComeBack
CHECK_DEADLOCK FALSE
