SPECIFICATION Spec
CONSTANT
  Networks <- MCNetworks
INVARIANTS
  FlowIsSound
  ReturnsAtACut
PROPERTIES
  ImplementsMaxFlow
CHECK_DEADLOCK FALSE
