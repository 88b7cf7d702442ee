---------------------------- MODULE MCTimestamps ----------------------------
(* Instances of Timestamps for TLC.                                         *)
EXTENDS Timestamps

StartTimes == {0, Clock - 1}
StepTimes == {1, 2}
ReorderTimes == {0, 2}
JitterTimes == {-1, 1}
=============================================================================
