SPECIFICATION Spec
CONSTANTS
  NoJob = NoJob
  Jobs = {a}
  Launches = {1, 2}
  NTasks = 1
  MaxExits = 1
  MaxFaults = 0
  ReconcileMayFail = FALSE
CHECK_DEADLOCK FALSE
INVARIANT
  OneBegunWorker
