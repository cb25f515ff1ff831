SPECIFICATION SyzFairSpec
CONSTANTS
  NumThreads = 2
  Tids <- TwoTids
  Ops <- OneOp
  NumBuckets = 2
  FirstMax = 0
  UINT64_MAX = 99
  DISTRIBUTION_BOUND = 1
  Distribution <- Always
  Results <- TotalsSoFar
  CreateMayFail = TRUE
  MaxClock = 0
  MaxOps = 2
  ProgLength = 2
INVARIANTS
  NobodyStartsEarly
  TargetLiveWhileUsed
  ReportAfterAllWorkers
  WarmupNotCounted
  ContextMemory
  RecordedCount
PROPERTIES
  Termination
\* A failed pthread_create leaves everybody at the start barrier.
CHECK_DEADLOCK FALSE
