SPECIFICATION FairSpec
CONSTANTS
  Threads = {t1, t2}
  Clients = {c1}
  NumFds = 1
  MAX_EVENTS = 2
  MaxCommands = 1
  MaxLoad = 2
  None = None
CHECK_DEADLOCK FALSE
PROPERTIES
  ConnectionKept
