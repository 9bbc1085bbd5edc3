CONSTANTS
  s1 = s1  s2 = s2  o1 = o1  o2 = o2
  Blank = Blank  Absent = Absent
  MaxTokens = 3
  MaxPhonemes = 4
  SessionIds <- MCSessionIds
  FirstSession = s1
  ObservationIds <- MCObservationIds
  MaxSessions = 1
  ObservationIdLimit = 1
  MaxAttempts = 2
  Recognized <- MCRecognized
  OtherRequests <- MCOtherRequests
  MaxCalls = 2
  MaxResets = 1
  MaxFaults = 2
SPECIFICATION Spec
CHECK_DEADLOCK FALSE
INVARIANTS CallsTakeEffectOnce InternalFailuresStayInternal NormalizedIsAccepted
PROPERTY AnswersMatchEffects
