CONSTANTS
  a = a
  b = b
  Ids = {a, b}
  MaxInserts = 5
  MaxUpdates = 2
  ChunkSize = 2
  Windows = {1, 2}
SPECIFICATION Spec
INVARIANTS StatsExact OkMeansStored LastWriteWins
PROPERTY BulkEnds
CHECK_DEADLOCK FALSE
