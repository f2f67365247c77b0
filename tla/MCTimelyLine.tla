---------------------------- MODULE MCTimelyLine ----------------------------
(***************************************************************************)
(* The timely line for TLC: ticks of 5 ms, so that the counts of read_data *)
(* are 4 ticks apart at 9600 baud and 2 at 115200.                         *)
(***************************************************************************)
EXTENDS TimelyLine
===============================================================================
