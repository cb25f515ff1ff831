SPECIFICATION Spec
CONSTANTS
  NumThreads = 2
  Tids <- TwoTids
  Ops <- TwoOps
  NumBuckets = 2
  FirstMax = 0
  UINT64_MAX = 99
  DISTRIBUTION_BOUND = 3
  Distribution <- TwoToOne
  Results <- OneSucceeds
  CreateMayFail = FALSE
  MaxClock = 2
  MaxOps = 3
INVARIANTS
  TypeOK
  WindowNested
  LatencyFitsWindow
  AccountedTimeFits
  CycleMix
PROPERTIES
  StatsFrozenAfterStop
  ImplementsMeasurement
