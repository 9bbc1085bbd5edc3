CONSTANTS
  Fresh = o1
  Old = o2
  Observations <- MCOneObservation
  Listeners = {}
  MaxAttempts = 2
  SnapshotLimit = 2
  MaxRevision = 0
  MaxCalls = 3
  MaxDepth = 0
  MaxDrops = 1
  None = None
SPECIFICATION FairSpec
CHECK_DEADLOCK FALSE
INVARIANTS
  SubmitMeansApplied
  ResetsApplyOnce
PROPERTIES
  MutationsSettle
  BehindCatchesUp
