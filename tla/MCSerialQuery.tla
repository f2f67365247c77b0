---------------------------- MODULE MCSerialQuery ----------------------------
(***************************************************************************)
(* The query discipline for TLC: three requests, answers of two bytes.     *)
(***************************************************************************)
EXTENDS SerialQuery
=============================================================================
