--------------------------- MODULE MCClimateChamber ---------------------------
(***************************************************************************)
(* ClimateChamber with two temperatures, of which one is also what is left *)
(* of the other when a report is cut, one humidity, and other values for   *)
(* what is measured.                                                       *)
(***************************************************************************)
EXTENDS ClimateChamber

AskedValues == [temp |-> {-10, -1}, hum |-> {4}]
StartOff == {[temp |-> -10, hum |-> 4, power |-> "off"]}
Nearby == [temp |-> 0, hum |-> 0]
=============================================================================
