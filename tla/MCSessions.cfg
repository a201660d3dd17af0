SPECIFICATION Safety
CONSTANTS
  Conns = {c1, c2, c3}
  Slots = {p1, p2}
  Names = {alice, bob}
  MaxDeaths = 1
  NoSlot = NoSlot
SYMMETRY Symmetry
INVARIANTS
  TypeOK
  PlayersDistinct
  PeersLive
  RosterConverges
CHECK_DEADLOCK FALSE
