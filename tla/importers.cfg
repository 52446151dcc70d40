\* At most two programs at once.
CONSTANTS
    City <- MCCity
    Schedules <- MCSchedules
    Parallel = 2
    Files <- MCFiles
    French = TRUE
    FailingIds <- MCFailingIds
    StreetsOfOsm <- MCStreetsOfOsm
    ObjectsOfOsm <- MCObjectsOfOsm
    PoiConfig <- MCPoiConfig
    Records <- MCRecords
    NavitiaPois <- MCNavitiaPois
    NavitiaTypes = {"museum"}
    StopAreas <- MCStopAreas
    StopPoints <- MCStopPoints
    ModeWeights <- MCModeWeights
    Templates <- MCTemplates
    Distance <- MCDistance
SPECIFICATION FairSpec
INVARIANTS Attached StopsAttached Addressed HierarchyServed TemplatesInForce
PROPERTY ImportersEnd
CHECK_DEADLOCK FALSE
