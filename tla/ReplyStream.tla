----------------------------- MODULE ReplyStream -----------------------------
(***************************************************************************)
(* What a serial line promises to the callers of read_data: a stream.      *)
(* The instrument puts whole answers into it; callers take bytes from its  *)
(* front, each byte once and in order; only a reset of the line, which     *)
(* begins a new session, loses bytes, and it loses the oldest.             *)
(***************************************************************************)
EXTENDS Naturals, Sequences

CONSTANT Answers    \* what the instrument may put into the stream at once

VARIABLES
    pipe,   \* bytes sent or about to be sent, and not yet taken
    got     \* bytes taken in this session

Init == pipe = <<>> /\ got = <<>>

Send == /\ \E a \in Answers : pipe' = pipe \o a
        /\ UNCHANGED got

Deliver ==
    \E k \in 1..Len(pipe) :
        /\ got' = got \o SubSeq(pipe, 1, k)
        /\ pipe' = SubSeq(pipe, k + 1, Len(pipe))

Reset ==
    \E k \in 0..Len(pipe) :
        /\ pipe' = SubSeq(pipe, k + 1, Len(pipe))
        /\ got' = <<>>

Next == Send \/ Deliver \/ Reset

Spec == Init /\ [][Next]_<<pipe, got>>
=============================================================================
