----------------------------- MODULE MCSpyServer -----------------------------
(***************************************************************************)
(* The server for TLC: two channels whose currents are out of each other's *)
(* range, and bad readings of which one looks like the other channel.      *)
(***************************************************************************)
EXTENDS SpyServer

MCDraw == [ch \in Channels |-> IF ch = 1 THEN 500 ELSE 900]

\* The limit of channel 2 is left at what it was.
MCAsked == Requests \ ({Limit(2)} \cup {SetLimit(2, v) : v \in LimitValues})
=============================================================================
