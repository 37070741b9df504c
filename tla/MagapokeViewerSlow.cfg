\* The viewer of one episode, as slow as it likes.
SPECIFICATION ViewSpec
CONSTANTS
  Last = 2
  Saved = {1}
  RewindSteps = 1
  Retries = 2
  MaxSame = 3
  MaxLost = 0
CHECK_DEADLOCK FALSE
INVARIANTS
  WholeEpisode
