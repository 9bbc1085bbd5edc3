CONSTANTS
  Unit <- MCUnit
  SymbolCount <- MCSymbolCount
  Words <- MCWords
  MCPayloadNames = {"silence", "noise", "word", "verse", "middle", "long", "wrong", "crossing"}
  Payloads <- MCPayloadNames
  Spoken <- MCSpoken
  Acoustic <- MCAcoustic
  Located <- MCLocated
  ObservationIds = {i1, i2, i3}
  SourceRevisions = {0, 1}
  FindingMode = "substitutions"
  ObservationIdLimit = 2
  MaxRevision = 4
  NoObservation = NoObservation
SYMMETRY IdSymmetry
SPECIFICATION Spec
CHECK_DEADLOCK FALSE
PROPERTY BackwardDisplayIsReread
