------------------------ MODULE MCAlignmentWorkspace ------------------------
\* The alignment workspace on every reference span over three phonemes.
EXTENDS AlignmentWorkspace, TLC

\* The alignment only compares phonemes for equality.
PhonemeSymmetry == Permutations(Phonemes)
=============================================================================
