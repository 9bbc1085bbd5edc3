\* The code's own limits, next to the scarce ones that Locator chooses.
CONSTANTS
  Unit = 420
  MaxAlignmentCandidates = 64
  MaxLocalCandidates = 48
  ForwardPhonemeCount = 3
  MaxNgramQueries = 48
  MaxPostingInspections = 128
  MaxAnchorDisplacement = 3
  Corpora <- MCCorpora
  Observed <- MCObserved
SPECIFICATION Spec
INVARIANTS
  RareOccurrenceIsFound
  WorkIsBounded
