\* See MCBatches for the five parts; the constants are those of "reserve".
SPECIFICATION MCSpec
CONSTANTS
  a = a
  b = b
  NoBook = NoBook
  Books = {a, b}
  FreeBooks = {}
  Site = "reserve"
  WindowLen = 2
  Cooldown = 2
  Grant = 3
  MaxClock = 3
  MaxRuns = 4
  MaxFaults = 1
  MaxOutside = 2
CHECK_DEADLOCK FALSE
INVARIANTS
  ReserveHolds
  TicketNotSpentTwice
  LocatorsLead
  NoOpenRun
  PlansHold
