------------------------------ MODULE MCBuffer ------------------------------
EXTENDS Buffer

MCMessages == {0, 3, MaxFrame}
=============================================================================
