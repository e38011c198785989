SPECIFICATION FairColoring
CONSTANTS
  Size = 4
  Body = {1, 2, 3}
  MaxColors = 2
  Invalid = Invalid
  Free = Free
  Graphs <- MCGraphs
  Blocks <- MCBlocks
INVARIANTS
  NeighborsDiffer
  ShuffleIsAPermutation
PROPERTIES
  ImplementsGreedy
  ColoringEnds
CHECK_DEADLOCK FALSE
