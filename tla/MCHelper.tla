------------------------------ MODULE MCHelper ------------------------------
EXTENDS Helper, TLC
=============================================================================
