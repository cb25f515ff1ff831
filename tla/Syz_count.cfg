SPECIFICATION SyzFairSpec
CONSTANTS
  NumThreads = 2
  Tids <- TwoTids
  Ops <- OneOp
  NumBuckets = 2
  FirstMax = 0
  UINT64_MAX = 99
  DISTRIBUTION_BOUND = 1
  Distribution <- Always
  Results <- TotalsSoFar
  CreateMayFail = TRUE
  MaxClock = 0
  MaxOps = 2
  ProgLength = 2
INVARIANTS
  CountIsExecuted
CHECK_DEADLOCK FALSE
