------------------------------ MODULE MCMiniDB ------------------------------
EXTENDS MiniDB
CONSTANTS p1, t1, k1, k2, x, y
PlainOne == {p1}
TreeOne == {t1}
TwoKeys == {k1, k2}
TwoValues == {x, y}
=============================================================================
