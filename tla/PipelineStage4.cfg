SPECIFICATION PipelineSpec
CONSTANTS
  Models = {"bracket", "flange", "broken"}
  Unreadable = {"broken"}
  MaxRuns = 3
  WritesFail = FALSE
INVARIANTS
  Stage4FindsTheFittedSurface
CHECK_DEADLOCK FALSE
