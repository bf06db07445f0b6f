------------------------- MODULE MCPersistentRelay -------------------------
EXTENDS PersistentRelay, TLC
Symmetry == Permutations(Tokens) \cup Permutations(Browsers)
=============================================================================
