\* See MCWatchlist for the five parts; the constants are those of "file" and of the page.
SPECIFICATION MCSpec
CONSTANTS
  Registrars = {"dialog"}
  Switches = {"switch"}
  Marks = {"mark"}
  Tools = {"command"}
  Groups = {"new work", "other work"}
  Held = "old work"
  HandEditsRace = FALSE
  MaxHands = 1
  MaxListings = 1
  MaxFaults = 1
  MaxSaves = 2
  PageKeys = {"mine", "theirs"}
  Mine = "mine"
  WritesBetweenReads = FALSE
  MaxOthers = 1
  MaxEdits = 2
  MaxCatalog = 1
CHECK_DEADLOCK FALSE
INVARIANTS
  DraftIsTheRest
  NumberedAsApproved
  ReplacementIsExact
PROPERTIES
  NothingUndone
  SavesHold
