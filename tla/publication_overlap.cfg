CONSTANTS
  r1 = r1
  r2 = r2
  r3 = r3
  Runs <- OneContainerRuns
  DocTypeOf <- OneContainerDocType
  DatasetOf <- OneContainerDataset
  VisibilityOf <- OneContainerVisibility
  Chunks = {1}
  Window = 1
  ForceMerge = TRUE
  DocTypes <- MCDocTypes
  Pieces <- MCPieces
SPECIFICATION Spec
PROPERTY NoDowntime
CHECK_DEADLOCK FALSE
