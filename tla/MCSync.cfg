\* See MCSync for the four parts; the bounds of Discovery are those of the largest of them.
SPECIFICATION MCSpec
CONSTANTS
  Works = {1, 2}
  Defs = {"a", "b"}
  MaxSiteEdits = 3
  MaxListings = 1
  MaxSiteFaults = 1
  Keys = {"k", "l"}
  Count = 4
  KnownStreakLimit = 2
  Infers = TRUE
  Decisions = {"default", "stop"}
  Scopes <- MCScopes
  MaxRuns = 4
  MaxFaults = 2
  MaxEdits = 2
CHECK_DEADLOCK FALSE
INVARIANTS
  ReportTruthful
  ProofsHold
  ListingIsFollowed
  GateIsCurrent
PROPERTIES
  CompleteIsTrue
  RunsReflectSite
  AppliedPassesGate
