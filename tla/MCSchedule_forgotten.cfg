SPECIFICATION Spec
CONSTANTS
  MaxRuns = 2
  None = None
  MaxSuspends = 0
  MaxCrashes = 0
  MaxErrors = 0
  MayFail = FALSE
  MayDelete = FALSE
PROPERTY ForgottenOnlyWhenOver
CHECK_DEADLOCK FALSE
