CONSTANTS
  SessionIds = {s1, s2}
  Connections = {c1, c2}
  ObservationIds = {o1, o2}
  SourceRevisions = {0, 1}
  MaxSessions = 1
  MaxSubscribers = 1
  SnapshotLimit = 2
  ObservationIdLimit = 1
  StoreFaults = {}
  ReuseIds = TRUE
  MaxOperations = 5
  None = None
SYMMETRY Symmetry
SPECIFICATION Spec
CHECK_DEADLOCK FALSE
INVARIANTS
  CapacityIsExact
  RecordAgreesWithTracker
  StreamIsGapless
  AcknowledgedMeansRecorded
