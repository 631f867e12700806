SPECIFICATION Spec
CONSTANTS
  MaxRuns = 2
  None = None
  MaxSuspends = 2
  MaxCrashes = 0
  MaxErrors = 0
  MayFail = FALSE
  MayDelete = FALSE
INVARIANT IdleBetweenRuns
CHECK_DEADLOCK FALSE
