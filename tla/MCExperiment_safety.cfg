SPECIFICATION Spec
CONSTANTS
  N = 2
  Targets = {"web", "db"}
  First <- MCFirst
  Specs <- MCSpecs
  Second = 1
  PollInterval = 1
  RecoveryGrace = 0
  Horizon = 2
  Scale = 1
  Reasons = {r1, r2}
  None = None
  MaxHalts = 2
  MaxCrashes = 1
  MaxErrors = 0
  MaxEdits = 1
  MayDelete = TRUE
  MaxDeleted = 0
SYMMETRY Symmetry
INVARIANTS Inductive TypeOK OnlyCurrentFault NoInjectOnceHalted RevertedWhenOver CountedOnce
  MeanInRange NeverForgotten
PROPERTIES ImplementsLifecycle NotRevertedEarly
