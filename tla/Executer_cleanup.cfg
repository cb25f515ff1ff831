SPECIFICATION FairSpec
CONSTANTS
  NUnits = 2
  ExecTypes = {"native"}
  UsesPorts = TRUE
  EnvRetries = FALSE
  NPlugins = 2
  exec_time <- PreAndCleanup
  force_stop <- KillPre
  Pollers = {1}
  NMonitors = 2
  Waited = {1}
  MaxRuns = 1
CHECK_DEADLOCK FALSE
INVARIANTS
  CleanupAlwaysCalled
