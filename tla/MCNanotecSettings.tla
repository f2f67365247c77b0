-------------------------- MODULE MCNanotecSettings --------------------------
(***************************************************************************)
(* Arguments for model checking NanotecSettings: numbers of which one has  *)
(* the digits of another and one more, one out of bounds in the second of  *)
(* two exchanges, one argument of each that takes flags, and a behaviour   *)
(* of two flags.                                                           *)
(***************************************************************************)
EXTENDS NanotecSettings

NoReverse == [inputs |-> {}, outputs |-> {}, ballast |-> FALSE]

Arguments == [
    current  |-> {<<5>>, <<50>>},
    address  |-> {<<2>>},
    gear     |-> {<<2, 1>>, <<20, 256>>},
    feed     |-> {<<1, 2>>},
    limits   |-> {<<{0}, {3}, {1}, {0}>>, <<{0}, {0, 3}, {1}, {0}>>},
    polarity |-> {[NoReverse EXCEPT !.inputs = {1, 7}]},
    outputs  |-> {{1, 8}},
    input_a  |-> {<<1>>, <<13>>}]
=============================================================================
