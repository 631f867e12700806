SPECIFICATION Spec
CONSTANTS
  MaxRuns = 2
  None = None
  MaxSuspends = 0
  MaxCrashes = 0
  MaxErrors = 0
  MayFail = FALSE
  MayDelete = FALSE
INVARIANT NoOverlap
CHECK_DEADLOCK FALSE
