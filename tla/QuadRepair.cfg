CONSTANTS
  Meshes <- MCMeshes
  LongHole = 9
SPECIFICATION Spec
CHECK_DEADLOCK FALSE
INVARIANTS FacesStayOriented RepairedIsManifold SplittingMovesNothing
PROPERTIES HolesNeverGrow Termination
