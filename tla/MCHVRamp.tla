------------------------------- MODULE MCHVRamp ------------------------------
(***************************************************************************)
(* The high voltage requests for TLC: limits of -20.0 V and 0.5 V.         *)
(***************************************************************************)
EXTENDS HVRamp

MCTargets == {-245, -100, 0, 160}
MCStarts  == {-190, 0}
MCClips   == {-11000, -70}
MCStale   == {21}
MCMinVoltage == -200
=============================================================================
