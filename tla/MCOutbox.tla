------------------------------ MODULE MCOutbox ------------------------------
(* Outbox on small instances.                                              *)
EXTENDS Outbox

CONSTANTS r1, timer, kick

OneRow == {r1}
Both == {timer, kick}
OnlyTimer == {timer}
NoRows == {}
=============================================================================
