CONSTANTS
  Pbf <- MCPbf
  db_buffer_size = 2
  Faults = {"begin", "prepare", "row", "commit", "rollback"}
SPECIFICATION Spec
INVARIANTS VisitedOnce BufferBounded
PROPERTY ImplementsMap
CHECK_DEADLOCK FALSE
