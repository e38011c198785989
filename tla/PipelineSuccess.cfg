SPECIFICATION PipelineSpec
CONSTANTS
  Models = {"bracket", "flange", "broken"}
  Unreadable = {"broken"}
  MaxRuns = 3
  WritesFail = FALSE
INVARIANTS
  SuccessIsAboutThisModel
CHECK_DEADLOCK FALSE
