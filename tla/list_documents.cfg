CONSTANTS
  Tiebreakers = {0, 1, 2, 3, 5}
  Shards = {{0, 1, 2}, {3, 5}}
  Generations = {1, 2}
  ScrollChunkSize = 2
SPECIFICATION ListSpec
INVARIANTS ListsSnapshot
PROPERTIES ListedOnce PitReleased
CHECK_DEADLOCK FALSE
