CONSTANTS
  Fresh = o1
  Old = o2
  Observations <- MCObservations
  Listeners = {l1, l2}
  MaxAttempts = 1
  SnapshotLimit = 1
  MaxRevision = 1
  MaxCalls = 2
  MaxDepth = 2
  MaxDrops = 1
  None = None
SPECIFICATION Spec
SYMMETRY MCSymmetry
CHECK_DEADLOCK FALSE
INVARIANT StreamIsCurrent
PROPERTIES
  ImplementsFeed
  CloseIsFinal
