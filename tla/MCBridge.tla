------------------------------ MODULE MCBridge ------------------------------
EXTENDS Bridge, TLC
Symmetric == Permutations(Threads) \cup Permutations(Addrs)
=============================================================================
