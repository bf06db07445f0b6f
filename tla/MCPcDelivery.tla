---------------------------- MODULE MCPcDelivery ----------------------------
EXTENDS PcDelivery, TLC
Symmetry ==
  Permutations(Texts) \cup Permutations(Files) \cup Permutations(Copies) \cup Permutations(Workers)
=============================================================================
