------------------------------ MODULE MCHotspot ------------------------------
EXTENDS Hotspot
CONSTANTS t1, t2, w1, w2
TwoTasks == {t1, t2}
TwoWorkers == {w1, w2}
PresentOrAbsent == {TRUE, FALSE}
=============================================================================
