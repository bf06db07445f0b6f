--------------------------- MODULE MCPairingRelay ---------------------------
EXTENDS PairingRelay, TLC
Symmetry == Permutations(Tokens) \cup Permutations(Conns) \cup Permutations(Browsers)
=============================================================================
