SPECIFICATION Spec
CONSTANTS
  None = None
  Bad = Bad
  NaN = NaN
  s1 = s1
  s2 = s2
  Queries <- MCQueries
  Guards <- MCGuards
  Worlds <- MCWorlds
  Schedules <- MCSchedules
  MaxRuns = 2
  Setups <- MCSetups
  Threshold = 2
  MaxDisturbances = 0
INVARIANT HaltsAboveThreshold
