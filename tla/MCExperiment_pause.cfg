SPECIFICATION Spec
CONSTANTS
  N = 2
  Targets = {"web", "db"}
  First <- MCFirst
  Specs = {}
  Second = 1
  PollInterval = 1
  RecoveryGrace = 1
  Horizon = 2
  Scale = 1
  Reasons = {r1}
  None = None
  MaxHalts = 0
  MaxCrashes = 0
  MaxErrors = 0
  MaxEdits = 0
  MayDelete = FALSE
  MaxDeleted = 0
PROPERTY PauseHonoured
