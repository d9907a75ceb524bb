--------------------------- MODULE MCHaPromotion ---------------------------
EXTENDS HaPromotion

CONSTANTS n1, n2, n3
=============================================================================
