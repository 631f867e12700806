SPECIFICATION FairSpec
CONSTANTS
  MaxRuns = 1
  None = None
  MaxSuspends = 1
  MaxCrashes = 1
  MaxErrors = 1
  MayFail = TRUE
  MayDelete = TRUE
PROPERTIES DueIsHandled RunIsConcluded
CHECK_DEADLOCK FALSE
