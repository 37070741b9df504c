\* See MCEndings for the parts; the constants are those of "job".
SPECIFICATION MCSpec
CONSTANTS
  a = a
  NoJob = NoJob
  Jobs = {a}
  Launches = {1}
  NTasks = 2
  MaxExits = 1
  MaxFaults = 2
  ReconcileMayFail = FALSE
  Works = {"w1", "w2", "w3"}
  Order <- MCOrder
  NoWork = "none"
  Limit = 2
  MaxMishaps = 1
CHECK_DEADLOCK FALSE
INVARIANTS
  PagesInOrder
  GrantsTruthful
PROPERTIES
  NoHiddenWork
  SupervisionEnds
  StopsEnd
  BatchEnds
  SyncIsShown
  ContactsGuarded
