SPECIFICATION Spec
CONSTANTS
  Meshes <- MCMeshes
  CostFlags = {TRUE, FALSE}
  MaxIter = 10
INVARIANTS
  CountsAreReal
  FullFlowCloses
  FeaturesStayAligned
PROPERTIES
  FlowOnlyCloses
  Termination
CHECK_DEADLOCK FALSE
