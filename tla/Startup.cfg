SPECIFICATION FairSpec
CONSTANTS
  NumOps = 2
  DISTRIBUTION_BOUND = 4
  UINT32_MAX = 7
  OperationLists <- SmallLists
  ArgLists <- SmallArgLists
INVARIANTS
  AcceptedAsGiven
  SlotsAsRequested
  MixAsConfigured
PROPERTIES
  FillingEnds
