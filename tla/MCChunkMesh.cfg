SPECIFICATION Spec
CONSTANTS
  Axes <- MCAxes
  Size = 2
  Places <- MCPlaces
  Contents <- MCContents
  IndexLimit = 128
  Null = Null
  MaxEdits = 1
INVARIANTS
  TypeOK
  MeshFresh
  FitsBuffers
