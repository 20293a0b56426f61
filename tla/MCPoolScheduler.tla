-------------------------- MODULE MCPoolScheduler --------------------------
(* Small instance of PoolScheduler: the ends and two inner points of the   *)
(* ratio (250 is clamped), an interval below the clamp and one above it,   *)
(* and clock jumps below the interval and over several intervals.          *)
EXTENDS PoolScheduler

MCRatioInputs    == {0, 30, 67, 250}
MCIntervalInputs == {0, 150}
MCClockSteps     == {60500, 310000}
=============================================================================
