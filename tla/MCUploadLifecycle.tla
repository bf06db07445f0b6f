------------------------- MODULE MCUploadLifecycle -------------------------
EXTENDS UploadLifecycle, TLC
Symmetry == Permutations(Files) \cup Permutations(Pairings)
=============================================================================
