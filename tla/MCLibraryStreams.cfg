CONSTANTS
  MaxRetries = 1
  SnapshotLimit = 2
  MaxRevision = 3
  MaxFaults = 2
  MaxListens = 3
SPECIFICATION FairSpec
CHECK_DEADLOCK FALSE
PROPERTIES
  ImplementsFeed
  ConsumerCatchesUp
  CloseStopsStreams
