------------------------ MODULE MCFrameworkAdapters -------------------------
\* Small instances of a component and other users of one local session.
EXTENDS FrameworkAdapters, TLC

Symmetry == Permutations(Controllers) \cup Permutations(Listeners)
=============================================================================
