SPECIFICATION FairSpec
CONSTANTS
  NUnits = 1
  ExecTypes = {"native", "container"}
  UsesPorts = TRUE
  EnvRetries = FALSE
  NPlugins = 2
  exec_time <- PreAndCleanup
  force_stop <- KillPre
  Pollers = {1}
  NMonitors = 2
  Waited = {1}
  MaxRuns = 1
CHECK_DEADLOCK FALSE
PROPERTIES
  AppAwaitsStart
