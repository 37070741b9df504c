\* Jobs {a, b} with two launches, the lock, the entries and the viewer;
\* MCJobs has the parts.
SPECIFICATION MCSpec
CONSTANTS
  a = a
  b = b
  NoJob = NoJob
  Jobs = {a, b}
  Launches = {1, 2}
  NTasks = 1
  MaxExits = 1
  MaxFaults = 1
  ReconcileMayFail = TRUE
  p1 = p1
  p2 = p2
  t1 = t1
  t2 = t2
  t3 = t3
  NoOwner = NoOwner
  Procs <- MCProcs
  Owners <- MCOwners
  ProcOf <- MCProcOf
  MaxNest = 3
  MaxTime = 4
  Recharge = 2
  Others = TRUE
  Last = 4
  Saved = {0, 1, 2, 4}
  RewindSteps = 3
  Retries = 2
  MaxSame = 2
  MaxLost = 2
  Clock = 2
  Term = 1
  MaxAsked = 3
  MaxGarbled = 0
  OwnerReads = TRUE
  Hollow = FALSE
CHECK_DEADLOCK FALSE
INVARIANTS
  BegunIsRecorded
  NothingLeaks
  OnlyRushedIsLost
  ReportedTimes
PROPERTIES
  SucceededOnFullEvidence
  KnownWorkerBlocksLaunch
  ImplementsExclusion
  KeepsPromise
  EntriesKeepPromise
