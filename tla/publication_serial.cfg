CONSTANTS
  r1 = r1
  r2 = r2
  r3 = r3
  Runs <- OneContainerRuns
  DocTypeOf <- OneContainerDocType
  DatasetOf <- OneContainerDataset
  VisibilityOf <- OneContainerVisibility
  Chunks = {1, 2}
  Window = 2
  ForceMerge = TRUE
  DocTypes <- MCDocTypes
  Pieces <- MCPieces
SPECIFICATION SerialSpec
INVARIANTS ServedComplete ServedOnce
PROPERTIES NoDowntime PublishedIsCurrent ImplementsCatalogue
CHECK_DEADLOCK FALSE
