------------------------- MODULE MCSlowControlAlarms -------------------------
(***************************************************************************)
(* SlowControlAlarms with temperatures on both sides of every threshold.   *)
(***************************************************************************)
EXTENDS SlowControlAlarms

AroundThresholds == {-60, -52, -49, 2, 4, 5, 7, 37, 40, 50}
NearZero         == {-54, 0, 1, NaN}
=============================================================================
