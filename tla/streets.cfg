CONSTANTS
  City <- MCCity
  Inputs <- MCInputs
SPECIFICATION Spec
INVARIANTS NotIndexedTwice OncePerCity DistinctIds CoordInAdmins HierarchyKept
CHECK_DEADLOCK FALSE
