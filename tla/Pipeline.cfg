SPECIFICATION PipelineSpec
CONSTANTS
  Models = {"bracket", "flange", "broken"}
  Unreadable = {"broken"}
  MaxRuns = 3
  WritesFail = TRUE
INVARIANTS
  QuietRunIsFaithful
  CompletedStepsSurvive
PROPERTIES
  ResumeKeepsEarlierFiles
CHECK_DEADLOCK FALSE
