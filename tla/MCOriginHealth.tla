--------------------------- MODULE MCOriginHealth ---------------------------
EXTENDS OriginHealth

CONSTANTS o1, o2
=============================================================================
