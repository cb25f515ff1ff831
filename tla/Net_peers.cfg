SPECIFICATION FairSpec
CONSTANTS
  Conns = {1, 2}
  Sequences <- ThreeSequences
  Capacity = 3
  Options <- AllOptions
CHECK_DEADLOCK FALSE
INVARIANTS
  TypeOK
  EventMatchesOp
PROPERTIES
  ReadwriteReturns
  ServerReleases
  WholeSequence
