SPECIFICATION FairSpec
CONSTANTS
  N = 2
  MaxPoints = 3
  Batch = 1
  F = 2
  MaxBad = 1
  MaxRuns = 2
  Failures <- AllFailures
  Ops <- AllOps
CHECK_DEADLOCK FALSE
INVARIANTS
  TypeOK
  NothingLost
  RightPulses
  InfoMatchesDone
  FollowersStopped
  Budget
PROPERTY StopEnds
