SPECIFICATION LayoutSpec
CONSTANT
  Meshes <- MCMeshes
INVARIANTS
  LinesAreTheSeparatrices
  StrikesFindTheirPort
  RegionsAreFourSided
  AssemblyIsDefined
  RegionsArePatches
PROPERTIES
  LayoutEnds
CHECK_DEADLOCK FALSE
