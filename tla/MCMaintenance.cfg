\* See MCMaintenance for the parts; the constants are those of "identity".
SPECIFICATION MCSpec
CONSTANTS
  old = old
  new = new
  k1 = k1
  k2 = k2
  o1 = o1
  o2 = o2
  Exts = {old, new}
  Keys = {k1, k2}
  Operators = {o1, o2}
  Listings <- MCListings
  MaxRows = 2
  MaxEdits = 1
  Items = {1, 2}
  SourceIds = {"a1", "a2", "b1"}
  ItemOf <- MCItemOf
  Scripts = {"p1", "p2"}
  MaxArchives = 3
  MaxStarts = 2
  MaxFailures = 1
  MaxOutside = 1
  Migrators = {"m1", "m2"}
  Savers = {"s1"}
  First = 4
  Target = 7
  Output <- MCOutput
  MaxFaults = 3
CHECK_DEADLOCK FALSE
INVARIANTS
  RowsTellWhere
  MigrationsHold
PROPERTIES
  HistoryKept
  AppliedAsSeen
  NoGoodIsTaken
  RenamesHold
