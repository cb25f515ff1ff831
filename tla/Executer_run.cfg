SPECIFICATION FairSpec
CONSTANTS
  NUnits = 3
  ExecTypes = {"native", "container"}
  UsesPorts = TRUE
  EnvRetries = TRUE
  NPlugins = 4
  exec_time <- OneOfEachTime
  force_stop <- KillTheFirst
  Pollers = {1}
  NMonitors = 2
  Waited = {1}
  MaxRuns = 2
CHECK_DEADLOCK FALSE
INVARIANTS
  TypeOK
  SignalOrder
  StartFileNotLeaked
  NothingLeft
  ResultsFresh
PROPERTIES
  RunnerEnds
