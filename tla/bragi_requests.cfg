CONSTANTS
  base = base
  stop = stop
  poi1 = poi1
  poi2 = poi2
  poi_be = poi_be
  Runs <- MCRuns
  ContainerOf <- MCContainerOf
  AliasesOf <- MCAliasesOf
  AtStart <- MCAtStart
  Sessions <- MCSessions
  Clients = {1, 2}
  Unreadable = {stop}
  Limit = 2
SPECIFICATION FairSpec
INVARIANTS AnswersOnce NotMissed Reported NeverOlder
PROPERTY RequestsEnd
CHECK_DEADLOCK FALSE
