--------------------------- MODULE MCThermalChamber --------------------------
(***************************************************************************)
(* The chamber for TLC: 1 can be travelled to, 2 is beyond the bounds of   *)
(* setTravelDistance, and a reference run ends at 0.                       *)
(***************************************************************************)
EXTENDS ThermalChamber
=============================================================================
