CONSTANTS
  r1 = r1
  r2 = r2
  r3 = r3
  Runs <- NestedRuns
  DocTypeOf <- NestedDocType
  DatasetOf <- NestedDataset
  VisibilityOf <- NestedVisibility
  Chunks = {1}
  Window = 1
  ForceMerge = TRUE
  DocTypes <- MCDocTypes
  Pieces <- MCPieces
SPECIFICATION SerialSpec
PROPERTY Partitioned
CHECK_DEADLOCK FALSE
