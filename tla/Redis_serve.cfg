SPECIFICATION FairSpec
CONSTANTS
  Threads = {t1, t2}
  Clients = {c1, c2, c3}
  NumFds = 2
  MAX_EVENTS = 2
  MaxCommands = 2
  MaxLoad = 4
  None = None
CHECK_DEADLOCK FALSE
INVARIANTS
  TypeOK
  SuccessesAreReal
  NoUnsolicitedReply
PROPERTIES
  ConnectionKeptAlone
  CommandsAnswered
