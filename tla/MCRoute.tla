------------------------------ MODULE MCRoute ------------------------------
EXTENDS Route

CONSTANTS d1, d2

MCDevs == {d1, d2}
=============================================================================
