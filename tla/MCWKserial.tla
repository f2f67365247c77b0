----------------------------- MODULE MCWKserial -----------------------------
(***************************************************************************)
(* The serial port object for TLC: two requests, answers of two bytes.     *)
(***************************************************************************)
EXTENDS WKserial
=============================================================================
