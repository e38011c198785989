SPECIFICATION Spec
CONSTANTS
  Vertices <- MCVertices
  Meshes <- MCMeshes
  INVALID = INVALID
INVARIANTS
  NoLostInsert
  OppositesArePaired
  VerticesStartTheirFan
PROPERTIES
  Termination
CHECK_DEADLOCK FALSE
