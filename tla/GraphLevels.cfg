CONSTANTS
  MeshVertex <- V
  MeshGraphs <- MCGraphs
  MAX_DEPTH = 4
SPECIFICATION LevelsSpec
CHECK_DEADLOCK FALSE
INVARIANTS LevelsAreGraphs WeightsAreCuts VerticesArePieces
