CONSTANTS
  SessionIds = {s1, s2}
  Connections = {c1}
  ObservationIds = {o1, o2}
  SourceRevisions = {0}
  MaxSessions = 1
  MaxSubscribers = 1
  SnapshotLimit = 2
  ObservationIdLimit = 1
  StoreFaults = {"before", "write", "ack"}
  ReuseIds = FALSE
  MaxOperations = 4
  None = None
SPECIFICATION FairSpec
CHECK_DEADLOCK FALSE
INVARIANTS
  CapacityIsExact
  RevisionsAreNotReused
PROPERTIES
  OperationsDrain
  DisconnectedIsReleased
