SPECIFICATION Spec
CONSTANTS
  NoJob = NoJob
  Jobs = {a, b}
  Launches = {1, 2}
  NTasks = 1
  MaxExits = 1
  MaxFaults = 1
  ReconcileMayFail = TRUE
CHECK_DEADLOCK FALSE
PROPERTY
  KnownWorkerBlocksLaunch
