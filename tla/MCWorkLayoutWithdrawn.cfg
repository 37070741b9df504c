SPECIFICATION Spec
CONSTANTS
  Keys = {"a", "b"}
  Started <- StartedAB
  First <- TwoEach
  Count = 3
  Holes = {"a", "b"}
  Changing = {"a"}
  Inserts = FALSE
  MaxEdits = 1
  MaxWithdrawn = 1
INVARIANTS
  TakenAsShown
CHECK_DEADLOCK FALSE
