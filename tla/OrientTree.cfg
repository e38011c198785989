CONSTANT N = 4
SPECIFICATION TreeSpec
INVARIANTS
  FramesStayAligned
CHECK_DEADLOCK FALSE
