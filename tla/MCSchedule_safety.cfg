SPECIFICATION Spec
CONSTANTS
  MaxRuns = 2
  None = None
  MaxSuspends = 2
  MaxCrashes = 1
  MaxErrors = 0
  MayFail = TRUE
  MayDelete = FALSE
INVARIANTS TypeOK RunsAccounted RunningHasActive HaltStopsRuns NeverForgotten
PROPERTY ImplementsLifecycle
CHECK_DEADLOCK FALSE
