--------------------------- MODULE MCHandleTable ----------------------------
EXTENDS HandleTable, TLC
Symmetric == Permutations(Objects)
=============================================================================
