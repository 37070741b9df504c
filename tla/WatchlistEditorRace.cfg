SPECIFICATION PageSpec
CONSTANTS
  PageKeys = {"mine", "theirs"}
  Mine = "mine"
  WritesBetweenReads = TRUE
  MaxOthers = 1
  MaxEdits = 2
  MaxCatalog = 0
PROPERTY
  PageUndoesNothing
