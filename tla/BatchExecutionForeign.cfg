CONSTANTS
  NoBook = NoBook
  Books = {a, b}
  FreeBooks = {a}
  Site = "reserve"
  WindowLen = 2
  Cooldown = 2
  Grant = 3
  MaxClock = 0
  MaxRuns = 2
  MaxFaults = 0
  MaxOutside = 1
CHECK_DEADLOCK FALSE
SPECIFICATION Spec
PROPERTY ForeignKept
