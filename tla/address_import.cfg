\* Chunks of two records, at most two tasks at once.
CONSTANTS
    Programs = {"bano2mimir", "openaddresses2mimir"}
    City <- MCCity
    Admins <- MCAdmins
    Failing <- MCFailing
    Records <- MCRecords
    Trees <- MCTrees
    ChunkSize = 2
    NumCpus = 2
SPECIFICATION FairSpec
INVARIANTS NothingLost AdminsOrNone InseeCity
PROPERTIES InOrder ImportEnds
CHECK_DEADLOCK FALSE
