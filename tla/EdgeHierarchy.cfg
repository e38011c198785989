SPECIFICATION IndexMapSpec
CONSTANTS
  Meshes <- MCMeshes
  Surfaces <- MCSurfaces
  MaxLevels = 100
INVARIANTS
  DifferencesSurvive
  SidesAgree
  EquationsSurvive
  BoundaryStays
PROPERTIES
  FlipsNeverIncrease
  IndexMapEnds
CHECK_DEADLOCK FALSE
