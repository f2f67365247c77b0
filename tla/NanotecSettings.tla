--------------------------- MODULE NanotecSettings ---------------------------
(***************************************************************************)
(* The set and get methods of NanotecMotor.cc.  A setting is kept in one   *)
(* or more registers of the motor; each setter and getter is one exchange, *)
(* a command and one read.  Other methods send a command that lacks its    *)
(* end of line.  The line is not flushed before a command, so              *)
(* an answer that missed its read is found by a later one; answers keep    *)
(* their order.  A number is a register's value; the words of bits are     *)
(* sets of bit positions.                                                  *)
(***************************************************************************)
EXTENDS Integers, Sequences

CONSTANTS
    Settings,   \* the settings used, a subset of DOMAIN SetSymbols
    Inputs,     \* per setting, the arguments that callers pass
    Unknown,    \* a setting whose value its user cannot know
    MaxLate,    \* bound: answers left over by a call
    MaxFaults   \* bound: commands lost, answers cut and reports unasked for

VARIABLES
    call,       \* the method in progress, or the last one
    reg,        \* the registers of the motor
    address,    \* the address the motor answers to
    partial,    \* the motor has a command without its end of line
    line,       \* answers on their way, oldest first
    here,       \* how many of them wait in the port's queue
    outcome,    \* how the last method ended: "none", "ok", "threw"
    result,     \* what the last get method returned
    known,      \* history: per setting, what its user last set with success
    excused,    \* history: the line or the argument gave this call a reason to fail
    left,       \* history: most answers that a call found left over, up to 2
    cut,        \* history: a read took an answer without its last byte
    faults      \* how many of these there have been

motor   == <<reg, address, partial>>
history == <<known, excused, left, cut, faults>>
vars    == <<call, motor, line, here, outcome, result, history>>

-----------------------------------------------------------------------------
(* The registers behind a setting.  "current" stands for every setting     *)
(* that is one register and a range.                                       *)

\* What the set methods write, in their order.
SetSymbols == [current  |-> <<"i">>,
               address  |-> <<"m">>,
               gear     |-> <<":gn", ":gd">>,
               feed     |-> <<":feed_const_num", ":feed_const_denum">>,
               limits   |-> <<"l">>,
               polarity |-> <<"h">>,
               outputs  |-> <<"Y">>,
               input_a  |-> <<":port_in_a">>]

\* A slip for comparison: another colon is missing.
GetSymbolsWithoutColon ==
    [current  |-> <<"i">>,
     gear     |-> <<":gn", "gd">>,
     feed     |-> <<":feed_const_num", "feed_const_denum">>,
     limits   |-> <<"l">>,
     polarity |-> <<"h">>,
     input_a  |-> <<":port_in_">>]

\* What the get methods ask for: one colon is missing, and the letter of the
\* input is not appended.  There is no get method for the address or the outputs.
GetSymbols == [current  |-> <<"i">>,
               gear     |-> <<":gn", ":gd">>,
               feed     |-> <<":feed_const_num", "feed_const_denum">>,
               limits   |-> <<"l">>,
               polarity |-> <<"h">>,
               input_a  |-> <<":port_in_">>]

Symbols == UNION {{SetSymbols[s][i] : i \in 1..Len(SetSymbols[s])} : s \in Settings}

Masks == {"l", "h", "Y"}

-----------------------------------------------------------------------------
(* Words of 32 bits.                                                       *)

Bits == 0..31

Shift(bits, n)    == {b + n : b \in bits}
Field(word, n, k) == {b - n : b \in word \cap (n..(n + k - 1))}

\* Two's complement: a word with bit 31 is negative.
Less(a, b) ==
    IF (31 \in a) # (31 \in b) THEN 31 \in a
    ELSE \E i \in b \ a : \A j \in Bits : j > i => (j \in a <=> j \in b)

\* The four behaviours do not overlap, so their sum is their union.
EncodeLimits(v) == v[1] \cup Shift(v[2], 2) \cup Shift(v[3], 9) \cup Shift(v[4], 11)
\* A slip for comparison: a field is read from its neighbour's place.
DecodeLimitsOff(w) ==
    <<Field(w, 0, 2), Field(w, 2, 4), Field(w, 8, 2), Field(w, 11, 4)>>

DecodeLimits(w) == <<Field(w, 0, 2), Field(w, 2, 4), Field(w, 9, 2), Field(w, 11, 4)>>

\* Inputs 7 and 8 leave bit 6 out.
InputBit(i) == IF i <= 6 THEN i - 1 ELSE i

\* A bit is set unless the polarity of its input or output is reversed.
EncodePolarity(v) ==
    {InputBit(i) : i \in 1..8 \ v.inputs} \cup {15 + o : o \in 1..8 \ v.outputs}
        \cup (IF v.ballast THEN {24} ELSE {})
DecodePolarity(w) == [inputs  |-> {i \in 1..8 : InputBit(i) \notin w},
                      outputs |-> {o \in 1..8 : 15 + o \notin w},
                      ballast |-> 24 \notin w]

Encode(s, v) == CASE s = "limits"   -> <<EncodeLimits(v)>>
                  [] s = "polarity" -> <<EncodePolarity(v)>>
                  [] s = "outputs"  -> <<Shift(v, 15)>>
                  [] OTHER          -> v
Decode(s, got) == CASE s = "limits"   -> DecodeLimits(got[1])
                    [] s = "polarity" -> DecodePolarity(got[1])
                    [] OTHER          -> got

\* 4294967295 is passed as an int: all bits are set.
Highest == [h |-> Bits, Y |-> Bits, l |-> 0..15]
RangeOf(symbol) ==
    CASE symbol = "i"               -> 0..150
      [] symbol = "m"               -> 1..254
      [] symbol \in {":gn", ":gd"} -> 1..255
      [] symbol = ":port_in_a"      -> 0..13
      [] OTHER                      -> Nat

\* A slip for comparison: the upper bound is not looked at.
InBoundsBelow(symbol, v) ==
    IF symbol \in Masks THEN ~Less(v, {}) ELSE \E least \in RangeOf(symbol) : least <= v

\* A slip for comparison: words are compared without a sign.
InBoundsUnsigned(symbol, v) ==
    IF symbol \in Masks THEN v \subseteq Highest[symbol] ELSE v \in RangeOf(symbol)

\* The test at the head of setter.
InBounds(symbol, v) ==
    IF symbol \in Masks
    THEN ~Less(v, {}) /\ ~Less(Highest[symbol], v)
    ELSE v \in RangeOf(symbol)

\* The four behaviours of the limit switches are words of at most two and four
\* bits.
Behaviours == (SUBSET (0..1)) \X (SUBSET (0..3)) \X (SUBSET (0..1)) \X (SUBSET (0..3))

\* The tests before setter: each behaviour is one flag, FORWARD or BACK in a
\* reference run, also STOP or IGNORE in a normal run.
Permitted(s, v) ==
    s = "limits" => v \in LET flags(n) == {{bit} : bit \in 0..(n - 1)}
                         IN  flags(2) \X flags(4) \X flags(2) \X flags(4)

\* What the parameters of the set methods can be.
IsArgument(s, v) ==
    CASE s = "limits"   -> v \in Behaviours
      [] s = "polarity" -> v \in [inputs : SUBSET (1..8), outputs : SUBSET (1..8),
                                  ballast : BOOLEAN]
      [] s = "outputs"  -> v \in SUBSET (1..8)
      [] OTHER          -> v \in [1..Len(SetSymbols[s]) -> Int]

ASSUME SettingsAssumption ==
    /\ Settings \subseteq DOMAIN SetSymbols
    /\ \A s \in Settings : \A v \in Inputs[s] : IsArgument(s, v)
    /\ Unknown \notin Int
    /\ Unknown \notin {EncodeLimits(v) : v \in Behaviours}
    /\ MaxLate \in Nat /\ MaxFaults \in Nat

-----------------------------------------------------------------------------
\* The constructor's id_, which no method changes.
Id == 1

\* A setter takes an echo with or without "=".  Without it, the echo of a name
\* with a colon reads like a report; a report of one letter begins with Z.
Colon == {":gn", ":gd", ":feed_const_num", ":feed_const_denum", ":port_in_a"}
Echoes(symbol, v) ==
    {[kind |-> k, symbol |-> symbol, value |-> v] :
        k \in IF symbol \in Colon THEN {"set", "get"} ELSE {"set"}}
Report(symbol, v) == [kind |-> "get", symbol |-> symbol, value |-> v]
Junk              == [kind |-> "junk"]

TypeOK ==
    /\ call.op \in {"none", "set", "get", "bare", "over"}
    /\ call.op # "none" => call.of \in Settings \cup {"other"}
    /\ DOMAIN reg = Symbols
    /\ \A x \in Symbols : IF x \in Masks THEN reg[x] \subseteq Bits
                                       ELSE reg[x] \in RangeOf(x)
    /\ address \in 1..254 /\ partial \in BOOLEAN
    /\ Len(line) <= MaxLate + 1
    /\ here \in 0..Len(line)
    /\ outcome \in {"none", "ok", "threw"}
    /\ DOMAIN known = Settings
    /\ excused \in BOOLEAN /\ cut \in BOOLEAN
    /\ left \in 0..2
    /\ faults \in 0..MaxFaults

Init ==
    /\ call = [op |-> "none"]
    /\ reg = [x \in Symbols |-> IF x \in Masks THEN {} ELSE 1]
    /\ address = Id /\ partial = FALSE
    /\ line = <<>> /\ here = 0
    /\ outcome = "none" /\ result = Unknown
    /\ known = [s \in Settings |-> Unknown]
    /\ excused = FALSE /\ cut = FALSE
    /\ left = 0 /\ faults = 0

-----------------------------------------------------------------------------
(* A call, its exchanges and its end.                                      *)

InCall == call.op \in {"set", "get", "bare"}

AtMostTwo(n) == IF n <= 2 THEN n ELSE 2

\* An answer left over from an earlier call is a reason to fail, as are half a
\* command in front of this one and a motor that was given another address.
Begin(op, s, v, sound) ==
    /\ ~InCall
    /\ call' = [op |-> op, of |-> s, value |-> v, at |-> 1, sent |-> FALSE, got |-> <<>>]
    /\ outcome' = "none" /\ result' = Unknown
    /\ excused' = (~sound \/ line # <<>> \/ address # Id \/ partial)
    /\ left' = IF Len(line) <= left THEN left ELSE AtMostTwo(Len(line))
    /\ UNCHANGED <<motor, line, here, cut, faults>>

\* Every permitted mask that can be encoded is a sound argument.
CallSet(s, v) ==
    /\ Begin("set", s, v,
             /\ Permitted(s, v)
             /\ \A i \in 1..Len(Encode(s, v)) :
                   SetSymbols[s][i] \in Masks \/ InBounds(SetSymbols[s][i], Encode(s, v)[i]))
    /\ known' = [known EXCEPT ![s] = Unknown]

CallGet(s) ==
    /\ s \in DOMAIN GetSymbols
    /\ Begin("get", s, Unknown, TRUE)
    /\ UNCHANGED known

\* getFirmwareVersion; getErrorMemory, readEEPROM, startBootloader and
\* readOutCurrentRecord.
CallBare ==
    /\ Begin("bare", "other", Unknown, FALSE)
    /\ UNCHANGED known

AllSymbols == IF call.op = "set" THEN SetSymbols[call.of] ELSE GetSymbols[call.of]
Symbol     == AllSymbols[call.at]
Value      == Encode(call.of, call.value)[call.at]

Over == [op |-> "over", of |-> call.of]
Fail == call' = Over /\ outcome' = "threw" /\ UNCHANGED <<result, known>>

\* "Value is out of bounds", or a behaviour is not valid: nothing is sent.
Refuse ==
    /\ call.op = "set" /\ ~call.sent
    /\ ~(Permitted(call.of, call.value) /\ InBounds(Symbol, Value))
    /\ Fail
    /\ UNCHANGED <<motor, line, here, excused, left, cut, faults>>

\* The motor does what it is told and answers, unless the command is lost or
\* is not for its address.  What it does not know it cannot report.
Respond ==
    /\ \E answer \in IF call.op = "set" THEN Echoes(Symbol, Value)
                     ELSE IF Symbol \in Symbols THEN {Report(Symbol, reg[Symbol])}
                     ELSE {Junk} :
          line' = Append(line, answer)
    /\ IF call.op = "set"
       THEN /\ reg' = [reg EXCEPT ![Symbol] = Value]
            /\ address' = IF Symbol = "m" THEN Value ELSE address
       ELSE UNCHANGED <<reg, address>>

\* A command that the motor knows nothing of, behind half a command.
Spoilt == partial /\ line' \in {line, Append(line, Junk)} /\ UNCHANGED <<reg, address>>

Send ==
    /\ call.op \in {"set", "get"} /\ ~call.sent
    /\ call.op = "set" => Permitted(call.of, call.value) /\ InBounds(Symbol, Value)
    /\ call' = [call EXCEPT !.sent = TRUE]
    /\ \/ address = Id /\ (Respond \/ Spoilt)
          /\ partial' = FALSE
          /\ UNCHANGED <<excused, faults>>
       \/ /\ address # Id
          /\ partial' = FALSE
          /\ UNCHANGED <<reg, address, line, excused, faults>>
       \/ /\ faults < MaxFaults
          /\ faults' = faults + 1
          /\ excused' = TRUE
          /\ UNCHANGED <<motor, line>>
    /\ UNCHANGED <<here, outcome, result, known, left, cut>>

\* The motor waits for the rest.
SendBare ==
    /\ call.op = "bare" /\ ~call.sent
    /\ call' = [call EXCEPT !.sent = TRUE]
    /\ partial' = TRUE
    /\ UNCHANGED <<reg, address, line, here, outcome, result, history>>

\* After a run the motor reports its status without being asked, if
\* setAutomaticStatusSending told it to.
Announce ==
    /\ faults < MaxFaults /\ Len(line) < MaxLate
    /\ faults' = faults + 1
    /\ excused' = TRUE
    /\ line' = Append(line, Junk)
    /\ UNCHANGED <<call, motor, here, outcome, result, known, left, cut>>

\* The next answer arrives, while it is waited for or later.
Arrive == /\ here < Len(line)
          /\ here' = here + 1
          /\ UNCHANGED <<call, motor, line, outcome, result, history>>

\* An empty reply: the setter's comparison fails, and the getter's at(0).
TimeOut ==
    /\ call.op \in {"set", "get"} /\ call.sent
    /\ here = 0 /\ Len(line) <= MaxLate
    /\ excused' = TRUE
    /\ Fail
    /\ UNCHANGED <<motor, line, here, left, cut, faults>>

\* Nothing, or answers to others: a version for the one, no match for the rest.
EndBare ==
    /\ call.op = "bare" /\ call.sent
    /\ here = 0 => Len(line) <= MaxLate
    /\ line' = SubSeq(line, here + 1, Len(line))
    /\ here' = 0
    /\ call' = Over
    /\ outcome' \in {"ok", "threw"}
    /\ UNCHANGED <<motor, result, history>>

\* The exchange succeeded with the value v: the next one, or the end.
Advance(v) ==
    LET got  == Append(call.got, v)
        last == call.at = Len(AllSymbols)
    IN  /\ call' = IF last THEN Over
                   ELSE [call EXCEPT !.at = @ + 1, !.sent = FALSE, !.got = got]
        /\ outcome' = IF last THEN "ok" ELSE "none"
        /\ result' = IF last /\ call.op = "get" THEN Decode(call.of, got) ELSE Unknown
        /\ known' = IF last /\ call.op = "set"
                    THEN [known EXCEPT ![call.of] = call.value] ELSE known

\* A slip for comparison: a setter, too, scans no more than the beginning.
AcceptedBySymbol(n, v) ==
    /\ line[1] # Junk /\ v # Unknown
    /\ line[1].symbol = Symbol
    /\ line[1].kind = call.op \/ (call.op = "set" /\ Symbol \in Colon)

\* Is the reply, n answers as one string that begins with the value v, what
\* was asked for?  setter compares all of it, getter scans its beginning.
Accepted(n, v) ==
    /\ line[1] # Junk /\ v # Unknown
    /\ line[1].symbol = Symbol
    /\ line[1].kind = call.op \/ (call.op = "set" /\ Symbol \in Colon)
    /\ call.op = "set" => n = 1 /\ v = Value

\* read_data returns all that waits.
Read ==
    /\ call.op \in {"set", "get"} /\ call.sent
    /\ here >= 1
    /\ line' = SubSeq(line, here + 1, Len(line))
    /\ here' = 0
    /\ IF Accepted(here, line[1].value) THEN Advance(line[1].value) ELSE Fail
    /\ UNCHANGED <<motor, excused, left, cut, faults>>

\* What the first answer is read as when an answer is cut.
CutValues == IF line[1] = Junk THEN {Unknown}
             ELSE IF here >= 1 THEN {line[1].value}
             ELSE IF line[1].symbol \in Masks
                  THEN {Unknown, IF call.op = "set" THEN Value ELSE {}}
             ELSE IF line[1].value >= 10 THEN {line[1].value \div 10}
             ELSE {Unknown}

\* The last byte of an answer is late.  sendCommand puts the end of line over
\* the last digit, and the byte is left for the next read.  (What a word of
\* bits without its last digit reads as is not worked out.)
ReadCut ==
    /\ call.op \in {"set", "get"} /\ call.sent
    /\ here < Len(line) /\ Len(line) - here <= MaxLate
    /\ faults < MaxFaults
    /\ faults' = faults + 1
    /\ cut' = TRUE /\ excused' = TRUE
    /\ line' = <<Junk>> \o SubSeq(line, here + 2, Len(line))
    /\ here' = 0
    /\ \E v \in CutValues :
          IF Accepted(here + 1, v) THEN Advance(v) ELSE Fail
    /\ UNCHANGED <<motor, left>>

Next == \/ \E s \in Settings : \E v \in Inputs[s] : CallSet(s, v)
        \/ \E s \in Settings : CallGet(s)
        \/ CallBare \/ SendBare \/ EndBare \/ Announce
        \/ Refuse \/ Send \/ Arrive \/ TimeOut \/ Read \/ ReadCut

Spec == Init /\ [][Next]_vars

-----------------------------------------------------------------------------
(* Properties.                                                             *)

\* A set method that returns has taken effect and its value stays, although
\* commands are lost and answers come late, as long as no answer was cut
\* and no call ever found more than one answer left over: the echo it compared
\* (NanotecMotor.cc:79-88) was to no older command.
SetTookEffect ==
    left <= 1 /\ ~cut => \A s \in Settings :
        known[s] # Unknown /\ ~(InCall /\ call.op = "set" /\ call.of = s) =>
            \A i \in 1..Len(SetSymbols[s]) :
                reg[SetSymbols[s][i]] = Encode(s, known[s])[i]

\* What a get method returns is what the last set method of that setting put
\* there, in the same condition: the two agree on
\* registers, places of bits and order (NanotecMotor.cc:226-257, 671-681).
ReadsBack ==
    left <= 1 /\ ~cut /\ outcome = "ok" /\ result # Unknown =>
        known[call.of] \in {Unknown, result}

\* The settings whose set method has no value in its bounds, and those whose get
\* method asks for a name that the motor does not know.
Unsettable == {"polarity", "outputs"}
Unreadable == {"feed", "input_a"}
Broken     == Unsettable \cup Unreadable

\* A method throws only if its argument is out of bounds or no behaviour, the
\* line lost, cut or delayed an answer, or the motor was given another address
\* than id_: of the set and get methods modelled here (NanotecMotor.hh:223-1114)
\* all others than those of the four broken settings do what they say, in any
\* order and also after calls of the broken ones.
SoundCallsSucceed == outcome = "threw" /\ call.of \notin Broken => excused

\* Of the four, no set method of the first two ever returns
\* (NanotecMotor.cc:453, 504), and no get method of the others ever returns a
\* value (NanotecMotor.cc:318, 406), whatever else is called and arrives late.
BrokenMethodsFail ==
    /\ \A s \in Settings \cap Unsettable : known[s] = Unknown
    /\ result # Unknown => call.of \notin Unreadable
=============================================================================
