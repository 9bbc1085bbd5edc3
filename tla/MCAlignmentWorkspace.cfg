\* Three interchangeable phonemes, observations and spans of up to three.
CONSTANTS
  Unit = 12
  Phonemes = {a, b, c}
  ActualCapacity = 3
  ReferenceCapacity = 3
SYMMETRY PhonemeSymmetry
SPECIFICATION Spec
INVARIANTS
  PathAlignsArguments
  EditCountIsMinimal
  WorkspaceReuseIsInvisible
