SPECIFICATION FairSpec
CONSTANTS
  p1 = p1
  p2 = p2
  p3 = p3
  p4 = p4
  p5 = p5
  Pods <- MCPods
  First <- MCFirst
  Counts <- MCCounts
  MaxCalls = 2
  MaxDisturbances = 1
INVARIANTS TypeOK BlastRadius SuccessMeansGone
PROPERTIES NeverStartedIsSpared CallReturns
CHECK_DEADLOCK FALSE
