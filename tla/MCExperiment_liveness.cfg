SPECIFICATION FairSpec
CONSTANTS
  N = 2
  Targets = {"web", "db"}
  First <- MCNoPause
  Specs <- MCUnnamed
  Second = 1
  PollInterval = 1
  RecoveryGrace = 1
  Horizon = 2
  Scale = 1
  Reasons = {r1}
  None = None
  MaxHalts = 1
  MaxCrashes = 1
  MaxErrors = 1
  MaxEdits = 1
  MayDelete = TRUE
  MaxDeleted = 0
PROPERTIES EventuallyOver HaltCarriedOut DeletionCompletes
