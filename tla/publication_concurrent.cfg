CONSTANTS
  r1 = r1
  r2 = r2
  r3 = r3
  Runs <- MixedRuns
  DocTypeOf <- MixedDocType
  DatasetOf <- MixedDataset
  VisibilityOf <- MixedVisibility
  Chunks = {1}
  Window = 1
  ForceMerge = TRUE
  DocTypes <- MCDocTypes
  Pieces <- MCPieces
SPECIFICATION FairSpec
PROPERTIES Partitioned RunsEnd
CHECK_DEADLOCK FALSE
