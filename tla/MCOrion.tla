------------------------------ MODULE MCOrion ------------------------------
(* Orion on small instances.                                               *)
EXTENDS Orion

CONSTANTS r1, k1, w1, w2

OneRun == {r1}
OneKey == {k1}
OneWorker == {w1}
Workers == {w1, w2}
First == {1}
Second == {2}
=============================================================================
