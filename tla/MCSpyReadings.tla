---------------------------- MODULE MCSpyReadings ----------------------------
(***************************************************************************)
(* The filtered readings for TLC: one hybrid behind the cache, the Keithley *)
(* voltage beside it.  MCNearBad is a bad reading that the filter takes for *)
(* a good one if the voltage was near.                                     *)
(***************************************************************************)
EXTENDS SpyReadings

MCLevels == {-100, -95, -60}
MCNearBad == -86
MCNotANumber == -100000
MCUnset == {24}
=============================================================================
