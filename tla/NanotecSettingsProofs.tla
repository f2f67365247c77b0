------------------------ MODULE NanotecSettingsProofs ------------------------
(***************************************************************************)
(* Proofs about NanotecSettings, for any settings and arguments of theirs  *)
(* and any numbers of late answers and of faults: the types, that a set    *)
(* method that returns has taken effect, that a get method returns what    *)
(* was set, and that the methods without a slip in them fail for a reason. *)
(***************************************************************************)
EXTENDS NanotecSettings, SequenceTheorems, TLAPS

-----------------------------------------------------------------------------
(* The inductive invariants, each on the ones before it.                   *)

ValueOf(x) == IF x \in Masks THEN SUBSET Bits ELSE RangeOf(x)
Answers    == {Junk} \cup UNION {[kind : {"set", "get"}, symbol : {x}, value : ValueOf(x)] :
                                    x \in Symbols}

\* A call in progress: what it was asked, at which of its exchanges it is and
\* what it has read.
CallOK ==
    /\ call.op = "none" => call = [op |-> "none"]
    /\ call.op = "over" => call = Over
    /\ InCall =>
         /\ call = [op |-> call.op, of |-> call.of, value |-> call.value,
                    at |-> call.at, sent |-> call.sent, got |-> call.got]
         /\ call.sent \in BOOLEAN
         /\ result = Unknown
    /\ call.op = "set" => call.of \in Settings /\ call.value \in Inputs[call.of]
    /\ call.op = "get" => call.of \in Settings \cap DOMAIN GetSymbols
    /\ call.op \in {"set", "get"} =>
         /\ call.at \in 1..Len(AllSymbols)
         /\ Len(call.got) = call.at - 1
         /\ call.got = [i \in 1..(call.at - 1) |-> call.got[i]]

\* Only a call that has sent its command has room for one answer more.
Room == Len(line) > MaxLate => call.op \in {"set", "get"} /\ call.sent

\* What is known of the types, of the call and of the line.
TypeInv ==
    /\ TypeOK
    /\ CallOK
    /\ line \in Seq(Answers)
    /\ Room
    /\ call.op = "set" /\ call.sent => InBounds(Symbol, Value)

\* Of the answers about a register the latest has its value.
Fresh ==
    \A j \in 1..Len(line) :
        \/ line[j] = Junk
        \/ line[j].value = reg[line[j].symbol]
        \/ \E k \in (j + 1)..Len(line) :
              line[k] # Junk /\ line[k].symbol = line[j].symbol

\* The echo of a command that this call has sent and the motor has obeyed.
OwnEcho(a) ==
    /\ a.value = reg[a.symbol]
    /\ \E i \in 1..call.at : /\ i = call.at => call.sent
                             /\ a.symbol = SetSymbols[call.of][i]
                             /\ a.value = Encode(call.of, call.value)[i]

\* Behind the one answer that was left over, and after the read that took it,
\* a set method finds only echoes of its own commands.
SetLine ==
    call.op = "set" /\ left <= 1 =>
        \A j \in 1..Len(line) : j >= 2 \/ call.at >= 2 => line[j] = Junk \/ OwnEcho(line[j])

\* The exchanges of a set method that have succeeded have taken effect.
SetPast ==
    call.op = "set" /\ left <= 1 /\ ~cut =>
        \A i \in 1..(call.at - 1) :
            reg[SetSymbols[call.of][i]] = Encode(call.of, call.value)[i]

\* While a set method runs, its setting is not known.
NotYetKnown == call.op = "set" => known[call.of] = Unknown

\* What is known of a setting is in its registers.
Took ==
    left <= 1 /\ ~cut => \A s \in Settings :
        known[s] # Unknown => \A i \in 1..Len(SetSymbols[s]) :
            reg[SetSymbols[s][i]] = Encode(s, known[s])[i]

TookInv == SetLine /\ SetPast /\ NotYetKnown /\ Took

\* What is known of a setting is an argument of its set method; of two words of
\* bits nothing ever is.
NeverSet == \A s \in Settings \cap Unsettable : known[s] = Unknown
KnownInv == NeverSet /\ \A s \in Settings : known[s] \in Inputs[s] \cup {Unknown}

\* Everything that a get method can read is true of the registers.
GetLine ==
    call.op = "get" /\ left <= 1 =>
        \A j \in 1..Len(line) : line[j] = Junk \/ line[j].value = reg[line[j].symbol]

\* What a get method has read so far is what the registers hold.
GetPast ==
    call.op = "get" /\ left <= 1 /\ ~cut =>
        \A i \in 1..(call.at - 1) :
            /\ GetSymbols[call.of][i] \in Symbols
            /\ call.got[i] = reg[GetSymbols[call.of][i]]

BackInv == GetLine /\ GetPast /\ ReadsBack

\* No result is of a setting that cannot be read.
NeverRead == result # Unknown => call.of \notin Unreadable

\* The answer to the command that a call has sent.
OwnAnswer(a) ==
    /\ a \in IF call.op = "set" THEN Echoes(Symbol, Value) ELSE {Report(Symbol, reg[Symbol])}
    /\ a.value # Unknown

\* Of a call without an excuse, to a method that works, nothing can go wrong: its
\* arguments are in their bounds, the motor listens and the line has its answers
\* and no other.
Smooth ==
    InCall /\ ~excused =>
        /\ call.op \in {"set", "get"}
        /\ call.of \notin Broken =>
             /\ ~partial
             /\ ~call.sent => line = <<>> /\ address = Id
             /\ call.sent => /\ Len(line) = 1 /\ OwnAnswer(line[1])
                             /\ call.at < Len(AllSymbols) => address = Id
             /\ call.op = "set" =>
                   /\ Permitted(call.of, call.value)
                   /\ \A i \in 1..Len(AllSymbols) :
                         InBounds(AllSymbols[i], Encode(call.of, call.value)[i])

\* What keeps a sound call from failing without a reason.
SoundInv ==
    /\ \A x \in Symbols : reg[x] # Unknown
    /\ Smooth
    /\ SoundCallsSucceed

-----------------------------------------------------------------------------
(* The names of the registers.                                             *)

\* The setting that a register belongs to, and which of its registers it is.
Owner(x) ==
    CASE x = "i"                 -> <<"current", 1>>
      [] x = "m"                 -> <<"address", 1>>
      [] x = ":gn"               -> <<"gear", 1>>
      [] x = ":gd"               -> <<"gear", 2>>
      [] x = ":feed_const_num"   -> <<"feed", 1>>
      [] x = ":feed_const_denum" -> <<"feed", 2>>
      [] x = "l"                 -> <<"limits", 1>>
      [] x = "h"                 -> <<"polarity", 1>>
      [] x = "Y"                 -> <<"outputs", 1>>
      [] x = ":port_in_a"        -> <<"input_a", 1>>

Single == {"current", "address", "limits", "polarity", "outputs", "input_a"}
Double == {"gear", "feed"}

\* A setting is kept in one register or in two.
LEMMA Lengths ==
    /\ \A s \in Single : Len(SetSymbols[s]) = 1
    /\ \A s \in Double : Len(SetSymbols[s]) = 2
    /\ Settings \subseteq Single \cup Double
<1>1. /\ \A s \in Single : Len(SetSymbols[s]) = 1
      /\ \A s \in Double : Len(SetSymbols[s]) = 2
  BY DEF SetSymbols, Single, Double
<1>2. DOMAIN SetSymbols = Single \cup Double
  BY DEF SetSymbols, Single, Double
<1> QED
  BY <1>1, <1>2, SettingsAssumption

\* Every register of a setting belongs to it.
LEMMA Owners ==
    /\ \A s \in Single : Owner(SetSymbols[s][1]) = <<s, 1>>
    /\ \A s \in Double : \A i \in 1..2 : Owner(SetSymbols[s][i]) = <<s, i>>
<1>1. /\ Owner("i") = <<"current", 1>> /\ Owner("m") = <<"address", 1>>
      /\ Owner(":gn") = <<"gear", 1>> /\ Owner(":gd") = <<"gear", 2>>
      /\ Owner(":feed_const_num") = <<"feed", 1>>
      /\ Owner(":feed_const_denum") = <<"feed", 2>>
      /\ Owner("l") = <<"limits", 1>> /\ Owner("h") = <<"polarity", 1>>
      /\ Owner("Y") = <<"outputs", 1>> /\ Owner(":port_in_a") = <<"input_a", 1>>
  BY DEF Owner
<1>2. \A s \in Single : Owner(SetSymbols[s][1]) = <<s, 1>>
  BY <1>1 DEF SetSymbols, Single
<1>3. \A s \in Double : Owner(SetSymbols[s][1]) = <<s, 1>> /\ Owner(SetSymbols[s][2]) = <<s, 2>>
  BY <1>1 DEF SetSymbols, Double
<1>4. ASSUME NEW s \in Double, NEW i \in 1..2
      PROVE  Owner(SetSymbols[s][i]) = <<s, i>>
  <2>1. i = 1 \/ i = 2
    OBVIOUS
  <2> QED
    BY <1>3, <2>1
<1> QED
  BY <1>2, <1>4

\* No register belongs to two settings, or to one of them twice.
LEMMA OwnRegisters ==
    ASSUME NEW s \in Settings, NEW i \in 1..Len(SetSymbols[s])
    PROVE  /\ SetSymbols[s][i] \in Symbols
           /\ \A t \in Settings : \A k \in 1..Len(SetSymbols[t]) :
                 SetSymbols[t][k] = SetSymbols[s][i] => t = s /\ k = i
<1>1. SetSymbols[s][i] \in Symbols
  BY DEF Symbols
<1>2. ASSUME NEW t \in Settings, NEW k \in 1..Len(SetSymbols[t])
      PROVE  Owner(SetSymbols[t][k]) = <<t, k>>
  <2>1. CASE t \in Single
    <3>1. Len(SetSymbols[t]) = 1
      BY <2>1, Lengths
    <3>2. k = 1
      BY <3>1
    <3> QED
      BY <2>1, <3>2, Owners
  <2>2. CASE t \in Double
    <3>1. k \in 1..2
      BY <2>2, Lengths
    <3> QED
      BY <2>2, <3>1, Owners
  <2> QED
    BY <2>1, <2>2, Lengths
<1>3. \A t \in Settings : \A k \in 1..Len(SetSymbols[t]) :
         SetSymbols[t][k] = SetSymbols[s][i] => <<t, k>> = <<s, i>>
  BY <1>2
<1> QED
  BY <1>1, <1>3

\* What a get method asks for, in place of what the set method writes, is the
\* same register or one that no setting has.
LEMMA GetNames ==
    ASSUME NEW s \in Settings \cap DOMAIN GetSymbols
    PROVE  /\ Len(GetSymbols[s]) = Len(SetSymbols[s])
           /\ \A i \in 1..Len(GetSymbols[s]) :
                 GetSymbols[s][i] = SetSymbols[s][i] \/ GetSymbols[s][i] \notin Symbols
           /\ s \notin Broken => GetSymbols[s] = SetSymbols[s]
<1>1. DOMAIN GetSymbols = {"current", "gear", "feed", "limits", "polarity", "input_a"}
  BY DEF GetSymbols
<1>2. /\ GetSymbols.current = SetSymbols.current /\ GetSymbols.gear = SetSymbols.gear
      /\ GetSymbols.limits = SetSymbols.limits /\ GetSymbols.polarity = SetSymbols.polarity
  BY DEF GetSymbols, SetSymbols
<1>3. "feed_const_denum" \notin Symbols /\ ":port_in_" \notin Symbols
  <2>1. ASSUME NEW x \in Symbols
        PROVE  x \in {"i", "m", ":gn", ":gd", ":feed_const_num", ":feed_const_denum",
                      "l", "h", "Y", ":port_in_a"}
    <3>1. PICK t \in Settings : \E k \in 1..Len(SetSymbols[t]) : x = SetSymbols[t][k]
      BY DEF Symbols
    <3>2. PICK k \in 1..Len(SetSymbols[t]) : x = SetSymbols[t][k]
      BY <3>1
    <3>3. CASE t \in Single
      <4>1. Len(SetSymbols[t]) = 1
        BY <3>3, Lengths
      <4>2. k = 1
        BY <4>1
      <4> QED
        BY <3>2, <3>3, <4>2 DEF SetSymbols, Single
    <3>4. CASE t \in Double
      <4>1. Len(SetSymbols[t]) = 2
        BY <3>4, Lengths
      <4>2. k = 1 \/ k = 2
        BY <4>1
      <4> QED
        BY <3>2, <3>4, <4>2 DEF SetSymbols, Double
    <3> QED
      BY <3>3, <3>4, Lengths
  <2> QED
    BY <2>1
<1>4. CASE s = "feed"
  <2>1. /\ GetSymbols[s] = <<":feed_const_num", "feed_const_denum">>
        /\ SetSymbols[s] = <<":feed_const_num", ":feed_const_denum">>
    BY <1>4 DEF GetSymbols, SetSymbols
  <2> QED
    BY <1>3, <1>4, <2>1 DEF Broken, Unsettable, Unreadable
<1>5. CASE s = "input_a"
  <2>1. GetSymbols[s] = <<":port_in_">> /\ SetSymbols[s] = <<":port_in_a">>
    BY <1>5 DEF GetSymbols, SetSymbols
  <2> QED
    BY <1>3, <1>5, <2>1 DEF Broken, Unsettable, Unreadable
<1>6. CASE s \in {"current", "gear", "limits", "polarity"}
  <2>1. GetSymbols[s] = SetSymbols[s]
    BY <1>2, <1>6
  <2> QED
    BY <2>1
<1> QED
  BY <1>1, <1>4, <1>5, <1>6

-----------------------------------------------------------------------------
(* Words of bits.                                                          *)

\* The fields of the four behaviours do not overlap: each is read from where
\* it was put.
LEMMA LimitFields ==
    ASSUME NEW v \in Behaviours
    PROVE  /\ EncodeLimits(v) \subseteq 0..14
           /\ DecodeLimits(EncodeLimits(v)) = v
<1> DEFINE w == EncodeLimits(v)
<1>1. /\ v[1] \subseteq 0..1 /\ v[2] \subseteq 0..3
      /\ v[3] \subseteq 0..1 /\ v[4] \subseteq 0..3
      /\ v = <<v[1], v[2], v[3], v[4]>>
  BY DEF Behaviours
<1>2. \A b : b \in w <=> \/ b \in v[1]
                         \/ \E c \in v[2] : b = c + 2
                         \/ \E c \in v[3] : b = c + 9
                         \/ \E c \in v[4] : b = c + 11
  BY DEF EncodeLimits, Shift
<1> HIDE DEF w
<1>3. w \subseteq 0..14
  BY <1>1, <1>2
<1>4. Field(w, 0, 2) = v[1]
  BY <1>1, <1>2 DEF Field
<1>5. Field(w, 2, 4) = v[2]
  BY <1>1, <1>2 DEF Field
<1>6. Field(w, 9, 2) = v[3]
  BY <1>1, <1>2 DEF Field
<1>7. Field(w, 11, 4) = v[4]
  BY <1>1, <1>2 DEF Field
<1>8. DecodeLimits(w) = v
  BY <1>1, <1>4, <1>5, <1>6, <1>7 DEF DecodeLimits
<1> QED
  BY <1>3, <1>8 DEF w

\* They are within their bounds, and a value that a getter can read.
LEMMA LimitBounds ==
    ASSUME NEW v \in Behaviours
    PROVE  /\ InBounds("l", EncodeLimits(v))
           /\ EncodeLimits(v) \in SUBSET Bits
           /\ EncodeLimits(v) # Unknown
<1> DEFINE w == EncodeLimits(v)
<1>1. w \subseteq 0..14
  BY LimitFields
<1>2. w # Unknown
  BY SettingsAssumption
<1> HIDE DEF w
<1>3. 31 \notin w /\ 31 \notin 0..15 /\ w \subseteq Bits /\ w \ 0..15 = {} /\ w \subseteq 0..15
  BY <1>1 DEF Bits
<1>4. ~Less(w, {})
  BY <1>3 DEF Less
<1>5. ~Less(Highest["l"], w)
  BY <1>3 DEF Less, Highest
<1> QED
  BY <1>2, <1>3, <1>4, <1>5 DEF InBounds, Masks, w

\* Nothing is within the bounds of the two words whose highest value is
\* 4294967295: as an int it is -1, less than 0 (NanotecMotor.cc:453, 504).
LEMMA NothingInBounds ==
    ASSUME NEW x \in {"h", "Y"}, NEW w
    PROVE  ~InBounds(x, w)
<1>1. Highest[x] = Bits /\ 31 \in Bits /\ x \in Masks
  BY DEF Highest, Bits, Masks
<1>2. CASE 31 \in w
  BY <1>1, <1>2 DEF InBounds, Less
<1>3. CASE 31 \notin w
  BY <1>1, <1>3 DEF InBounds, Less
<1> QED
  BY <1>2, <1>3

-----------------------------------------------------------------------------
(* Arguments and what is written of them.                                  *)

\* A set method writes one value into each register of its setting.
LEMMA Written ==
    ASSUME NEW s \in Settings, NEW v \in Inputs[s]
    PROVE  /\ s = "limits" => v \in Behaviours /\ Encode(s, v) = <<EncodeLimits(v)>>
           /\ s \notin Unsettable \cup {"limits"} =>
                 v \in [1..Len(SetSymbols[s]) -> Int] /\ Encode(s, v) = v
           /\ Len(Encode(s, v)) = Len(SetSymbols[s])
<1>1. IsArgument(s, v)
  BY SettingsAssumption
<1>2. CASE s = "limits"
  <2>1. v \in Behaviours
    BY <1>1, <1>2 DEF IsArgument
  <2>2. Encode(s, v) = <<EncodeLimits(v)>>
    BY <1>2 DEF Encode
  <2>3. Len(Encode(s, v)) = 1 /\ Len(SetSymbols[s]) = 1
    BY <1>2, <2>2, Lengths DEF Single
  <2> QED
    BY <1>2, <2>1, <2>2, <2>3
<1>3. CASE s \in Unsettable
  <2>1. Len(Encode(s, v)) = 1
    BY <1>3 DEF Encode, Unsettable
  <2>2. Len(SetSymbols[s]) = 1
    BY <1>3, Lengths DEF Single, Unsettable
  <2> QED
    BY <1>3, <2>1, <2>2 DEF Unsettable
<1>4. CASE s \notin Unsettable \cup {"limits"}
  <2>1. v \in [1..Len(SetSymbols[s]) -> Int] /\ Encode(s, v) = v
    BY <1>1, <1>4 DEF IsArgument, Encode, Unsettable
  <2>2. Len(SetSymbols[s]) \in Nat
    BY Lengths
  <2>3. Len(v) = Len(SetSymbols[s])
    BY <2>1, <2>2
  <2> QED
    BY <1>4, <2>1, <2>3
<1> QED
  BY <1>2, <1>3, <1>4

\* What passes the test of its bounds has the type of the register.
LEMMA WrittenTypes ==
    ASSUME NEW s \in Settings, NEW v \in Inputs[s], NEW i \in 1..Len(SetSymbols[s]),
           InBounds(SetSymbols[s][i], Encode(s, v)[i])
    PROVE  /\ s \notin Unsettable
           /\ Encode(s, v)[i] \in ValueOf(SetSymbols[s][i])
           /\ Encode(s, v)[i] # Unknown
<1> DEFINE x == SetSymbols[s][i]
<1>1. Owner(x) = <<s, i>> /\ (s \in Single => i = 1)
  <2>1. CASE s \in Single
    <3>1. Len(SetSymbols[s]) = 1
      BY <2>1, Lengths
    <3>2. i = 1
      BY <3>1
    <3> QED
      BY <2>1, <3>2, Owners
  <2>2. CASE s \in Double
    <3>1. i \in 1..2
      BY <2>2, Lengths
    <3> QED
      BY <2>2, <3>1, Owners DEF Single, Double
  <2> QED
    BY <2>1, <2>2, Lengths
<1>2. s \notin Unsettable
  <2>1. SetSymbols["polarity"][1] = "h" /\ SetSymbols["outputs"][1] = "Y"
    BY DEF SetSymbols
  <2>2. s \in Unsettable => i = 1 /\ x \in {"h", "Y"}
    BY <1>1, <2>1 DEF Single, Unsettable
  <2> QED
    BY <2>2, NothingInBounds
<1>3. CASE s = "limits"
  <2>1. x = "l" /\ Encode(s, v)[i] = EncodeLimits(v) /\ v \in Behaviours
    BY <1>1, <1>3, Written DEF SetSymbols, Single
  <2> QED
    BY <1>2, <2>1, LimitBounds DEF ValueOf, Masks
<1>4. CASE s # "limits"
  <2>1. Encode(s, v)[i] \in Int
    BY <1>2, <1>4, Written
  <2>2. x \notin Masks
    <3>1. Owner("l") = <<"limits", 1>> /\ Owner("h") = <<"polarity", 1>>
          /\ Owner("Y") = <<"outputs", 1>>
      BY DEF Owner
    <3> QED
      BY <1>1, <1>2, <1>4, <3>1 DEF Masks, Unsettable
  <2>3. Encode(s, v)[i] \in RangeOf(x)
    BY <2>2 DEF InBounds
  <2> QED
    BY <1>2, <2>1, <2>2, <2>3, SettingsAssumption DEF ValueOf
<1> QED
  BY <1>3, <1>4

\* Reading back what was written gives the argument.
LEMMA Restored ==
    ASSUME NEW s \in Settings, NEW v \in Inputs[s], s \notin Unsettable,
           NEW g, g = [i \in 1..Len(SetSymbols[s]) |-> Encode(s, v)[i]]
    PROVE  Decode(s, g) = v
<1>1. CASE s = "limits"
  <2>1. Len(SetSymbols[s]) = 1
    BY <1>1, Lengths DEF Single
  <2>2. g[1] = EncodeLimits(v) /\ v \in Behaviours
    BY <1>1, <2>1, Written
  <2> QED
    BY <1>1, <2>2, LimitFields DEF Decode
<1>2. CASE s # "limits"
  <2>1. v \in [1..Len(SetSymbols[s]) -> Int] /\ Encode(s, v) = v
    BY <1>2, Written
  <2>2. g = v
    BY <2>1
  <2>3. Decode(s, g) = g
    BY <1>2 DEF Decode, Unsettable
  <2> QED
    BY <2>2, <2>3
<1> QED
  BY <1>1, <1>2

-----------------------------------------------------------------------------
(* What a step does to the line.                                           *)

Appended(a) == /\ line' \in Seq(Answers)
               /\ Len(line') = Len(line) + 1
               /\ line'[Len(line) + 1] = a
               /\ \A j \in 1..Len(line) : line'[j] = line[j]
Dropped(n)  == /\ line' \in Seq(Answers)
               /\ Len(line') = Len(line) - n
               /\ \A j \in 1..Len(line') : line'[j] = line[j + n]
CutAt(n)    == /\ line' \in Seq(Answers)
               /\ Len(line') = Len(line) - n
               /\ line'[1] = Junk
               /\ \A j \in 2..Len(line') : line'[j] = line[j + n]

\* An answer is a message about a register, or something else.
LEMMA AnswerTypes ==
    /\ Junk \in Answers
    /\ \A a \in Answers : a # Junk => /\ a.kind \in {"set", "get"}
                                      /\ a.symbol \in Symbols
                                      /\ a.value \in ValueOf(a.symbol)
    /\ \A x \in Symbols : \A v \in ValueOf(x) :
          /\ Echoes(x, v) \subseteq Answers
          /\ Report(x, v) \in Answers
          /\ Report(x, v) # Junk
          /\ \A a \in Echoes(x, v) : a # Junk /\ a.symbol = x /\ a.value = v
<1>1. Junk \in Answers
  BY DEF Answers
<1>2. ASSUME NEW a \in Answers, a # Junk
      PROVE  a.kind \in {"set", "get"} /\ a.symbol \in Symbols /\ a.value \in ValueOf(a.symbol)
  <2>1. PICK x \in Symbols : a \in [kind : {"set", "get"}, symbol : {x}, value : ValueOf(x)]
    BY <1>2 DEF Answers
  <2> QED
    BY <2>1
<1>3. ASSUME NEW x \in Symbols, NEW v \in ValueOf(x), NEW k \in {"set", "get"}
      PROVE  /\ [kind |-> k, symbol |-> x, value |-> v] \in Answers
             /\ [kind |-> k, symbol |-> x, value |-> v] # Junk
  <2> DEFINE a == [kind |-> k, symbol |-> x, value |-> v]
  <2>1. a \in [kind : {"set", "get"}, symbol : {x}, value : ValueOf(x)]
    OBVIOUS
  <2>2. a.kind # "junk" /\ Junk.kind = "junk"
    BY DEF Junk
  <2> QED
    BY <2>1, <2>2 DEF Answers
<1>4. ASSUME NEW x \in Symbols, NEW v \in ValueOf(x)
      PROVE  /\ Report(x, v) \in Answers /\ Report(x, v) # Junk
             /\ \A a \in Echoes(x, v) : a \in Answers /\ a # Junk /\ a.symbol = x /\ a.value = v
  <2>1. "get" \in {"set", "get"} /\ Report(x, v) = [kind |-> "get", symbol |-> x, value |-> v]
    BY DEF Report
  <2>2. ASSUME NEW a \in Echoes(x, v)
        PROVE  a \in Answers /\ a # Junk /\ a.symbol = x /\ a.value = v
    <3>1. PICK k \in {"set", "get"} : a = [kind |-> k, symbol |-> x, value |-> v]
      BY DEF Echoes
    <3> QED
      BY <1>3, <3>1
  <2> QED
    BY <1>3, <2>1, <2>2
<1> QED
  BY <1>1, <1>2, <1>4

\* An answer is added at the end.
LEMMA Adding ==
    ASSUME line \in Seq(Answers), NEW a \in Answers, line' = Append(line, a)
    PROVE  Appended(a)
  BY AppendProperties DEF Appended

\* What remains when the first n have been taken.
LEMMA Taking ==
    ASSUME line \in Seq(Answers), NEW n \in 0..Len(line),
           line' = SubSeq(line, n + 1, Len(line))
    PROVE  Dropped(n)
<1>1. Len(line) \in Nat
  BY LenProperties
<1>2. \A i \in (n + 1)..Len(line) : line[i] \in Answers
  BY <1>1, ElementOfSeq
<1>3. /\ line' \in Seq(Answers)
      /\ Len(line') = IF n + 1 <= Len(line) THEN Len(line) - (n + 1) + 1 ELSE 0
      /\ \A i \in 1..(Len(line) - (n + 1) + 1) : line'[i] = line[(n + 1) + i - 1]
  BY <1>1, <1>2, SubSeqProperties
<1>4. Len(line') = Len(line) - n
  BY <1>1, <1>3
<1>5. ASSUME NEW j \in 1..Len(line')
      PROVE  line'[j] = line[j + n]
  <2>1. j \in 1..(Len(line) - (n + 1) + 1)
    BY <1>1, <1>4
  <2>2. line'[j] = line[(n + 1) + j - 1]
    BY <1>3, <2>1
  <2> QED
    BY <1>1, <2>2
<1> QED
  BY <1>3, <1>4, <1>5 DEF Dropped

\* The same, but of one answer more a byte is left.
LEMMA Cutting ==
    ASSUME line \in Seq(Answers), NEW n \in Nat, n < Len(line),
           line' = <<Junk>> \o SubSeq(line, n + 2, Len(line))
    PROVE  CutAt(n)
<1> DEFINE rest == SubSeq(line, n + 2, Len(line))
<1>1. Len(line) \in Nat
  BY LenProperties
<1>2. \A i \in (n + 2)..Len(line) : line[i] \in Answers
  BY <1>1, ElementOfSeq
<1>3. /\ rest \in Seq(Answers)
      /\ Len(rest) = IF n + 2 <= Len(line) THEN Len(line) - (n + 2) + 1 ELSE 0
      /\ \A i \in 1..(Len(line) - (n + 2) + 1) : rest[i] = line[(n + 2) + i - 1]
  BY <1>1, <1>2, SubSeqProperties
<1>4. <<Junk>> \in Seq(Answers) /\ Len(<<Junk>>) = 1 /\ <<Junk>>[1] = Junk
  BY AnswerTypes
<1>5. line' = <<Junk>> \o rest
  OBVIOUS
<1> HIDE DEF rest
<1>6. /\ line' \in Seq(Answers)
      /\ Len(line') = 1 + Len(rest)
      /\ \A i \in 1..(1 + Len(rest)) :
            line'[i] = IF i <= 1 THEN <<Junk>>[i] ELSE rest[i - 1]
  BY <1>3, <1>4, <1>5, ConcatProperties
<1>7. Len(line') = Len(line) - n
  BY <1>1, <1>3, <1>6
<1>8. line'[1] = Junk
  BY <1>1, <1>3, <1>4, <1>6
<1>9. ASSUME NEW j \in 2..Len(line')
      PROVE  line'[j] = line[j + n]
  <2>1. j \in 1..(1 + Len(rest)) /\ ~(j <= 1)
    BY <1>1, <1>6, <1>7
  <2>2. line'[j] = rest[j - 1]
    BY <1>6, <2>1
  <2>3. j - 1 \in 1..(Len(line) - (n + 2) + 1)
    BY <1>1, <1>7
  <2>4. rest[j - 1] = line[(n + 2) + (j - 1) - 1]
    BY <1>3, <2>3
  <2> QED
    BY <1>1, <2>2, <2>4
<1> QED
  BY <1>6, <1>7, <1>8, <1>9 DEF CutAt

-----------------------------------------------------------------------------
(* What a step does to the call.                                           *)

\* The exchange that a set or get method is at.
LEMMA Exchange ==
    ASSUME TypeInv, call.op \in {"set", "get"}
    PROVE  /\ call.of \in Settings
           /\ Len(AllSymbols) = Len(SetSymbols[call.of])
           /\ Len(AllSymbols) \in {1, 2}
           /\ call.at \in 1..Len(AllSymbols)
           /\ Symbol = AllSymbols[call.at]
           /\ Symbol \in Symbols => Symbol = SetSymbols[call.of][call.at]
           /\ call.op = "set" => /\ Symbol \in Symbols
                                 /\ AllSymbols = SetSymbols[call.of]
                                 /\ call.value \in Inputs[call.of]
                                 /\ InBounds(Symbol, Value) => /\ Value \in ValueOf(Symbol)
                                                               /\ Value # Unknown
                                                               /\ call.of \notin Unsettable
           /\ call.op = "get" => /\ call.of \in DOMAIN GetSymbols
                                 /\ AllSymbols = GetSymbols[call.of]
<1>1. /\ call.of \in Settings
      /\ call.at \in 1..Len(AllSymbols)
      /\ call.op = "set" => call.value \in Inputs[call.of]
      /\ call.op = "get" => call.of \in DOMAIN GetSymbols
      /\ AllSymbols = IF call.op = "set" THEN SetSymbols[call.of] ELSE GetSymbols[call.of]
  BY DEF TypeInv, CallOK, AllSymbols
<1>2. Len(AllSymbols) = Len(SetSymbols[call.of])
  BY <1>1, GetNames
<1>3. Len(SetSymbols[call.of]) \in {1, 2}
  BY <1>1, Lengths
<1>4. Symbol = AllSymbols[call.at]
  BY DEF Symbol
<1>5. SetSymbols[call.of][call.at] \in Symbols
  BY <1>1, <1>2, OwnRegisters
<1>6. CASE call.op = "set"
  <2>1. Value = Encode(call.of, call.value)[call.at]
    BY DEF Value
  <2>2. InBounds(Symbol, Value) =>
           Value \in ValueOf(Symbol) /\ Value # Unknown /\ call.of \notin Unsettable
    BY <1>1, <1>2, <1>4, <1>6, <2>1, WrittenTypes
  <2> QED
    BY <1>1, <1>2, <1>3, <1>4, <1>5, <1>6, <2>2
<1>7. CASE call.op = "get"
  <2>1. Symbol = SetSymbols[call.of][call.at] \/ Symbol \notin Symbols
    BY <1>1, <1>4, <1>7, GetNames
  <2> QED
    BY <1>1, <1>2, <1>3, <1>4, <1>7, <2>1
<1> QED
  BY <1>6, <1>7

\* A command reaches the motor and is answered, or half of it is not
\* understood, or nobody hears it.
LEMMA Sending ==
    ASSUME TypeInv, Send
    PROVE  /\ call.op \in {"set", "get"} /\ ~call.sent
           /\ call' = [op |-> call.op, of |-> call.of, value |-> call.value,
                       at |-> call.at, sent |-> TRUE, got |-> call.got]
           /\ call.op = "set" => InBounds(Symbol, Value)
           /\ UNCHANGED <<here, outcome, result, known, left, cut>>
           /\ \/ /\ UNCHANGED <<line, reg, address>>
                 /\ excused' \/ address # Id \/ partial
              \/ partial /\ Appended(Junk) /\ UNCHANGED <<reg, address>>
              \/ /\ address = Id /\ call.op = "set"
                 /\ \E a \in Echoes(Symbol, Value) : Appended(a)
                 /\ reg' = [reg EXCEPT ![Symbol] = Value]
                 /\ address' = IF Symbol = "m" THEN Value ELSE address
              \/ /\ address = Id /\ call.op = "get" /\ Symbol \in Symbols
                 /\ Appended(Report(Symbol, reg[Symbol])) /\ UNCHANGED <<reg, address>>
              \/ /\ call.op = "get" /\ Symbol \notin Symbols
                 /\ Appended(Junk) /\ UNCHANGED <<reg, address>>
<1>1. /\ call.op \in {"set", "get"} /\ ~call.sent
      /\ call.op = "set" => InBounds(Symbol, Value)
      /\ UNCHANGED <<here, outcome, result, known, left, cut>>
      /\ call' = [call EXCEPT !.sent = TRUE]
  BY DEF Send
<1>2. call' = [op |-> call.op, of |-> call.of, value |-> call.value,
               at |-> call.at, sent |-> TRUE, got |-> call.got]
  BY <1>1 DEF TypeInv, CallOK, InCall
<1>3. line \in Seq(Answers) /\ Junk \in Answers
  BY AnswerTypes DEF TypeInv
<1>4. CASE address = Id /\ Respond
  <2>1. CASE call.op = "set"
    <3>1. Symbol \in Symbols /\ Value \in ValueOf(Symbol)
      BY <1>1, <2>1, Exchange
    <3>2. PICK a \in Echoes(Symbol, Value) : line' = Append(line, a)
      BY <1>4, <2>1 DEF Respond
    <3>3. a \in Answers
      BY <3>1, <3>2, AnswerTypes
    <3>4. Appended(a)
      BY <1>3, <3>2, <3>3, Adding
    <3>5. /\ reg' = [reg EXCEPT ![Symbol] = Value]
          /\ address' = IF Symbol = "m" THEN Value ELSE address
      BY <1>4, <2>1 DEF Respond
    <3> QED
      BY <1>1, <1>2, <1>4, <2>1, <3>4, <3>5
  <2>2. CASE call.op = "get" /\ Symbol \in Symbols
    <3>1. UNCHANGED <<reg, address>> /\ line' = Append(line, Report(Symbol, reg[Symbol]))
      BY <1>4, <2>2 DEF Respond
    <3>2. reg[Symbol] \in ValueOf(Symbol)
      BY <2>2 DEF TypeInv, TypeOK, ValueOf
    <3>3. Report(Symbol, reg[Symbol]) \in Answers
      BY <2>2, <3>2, AnswerTypes
    <3>4. Appended(Report(Symbol, reg[Symbol]))
      BY <1>3, <3>1, <3>3, Adding
    <3> QED
      BY <1>1, <1>2, <1>4, <2>2, <3>1, <3>4
  <2>3. CASE call.op = "get" /\ Symbol \notin Symbols
    <3>1. UNCHANGED <<reg, address>> /\ line' = Append(line, Junk)
      BY <1>4, <2>3 DEF Respond
    <3>2. Appended(Junk)
      BY <1>3, <3>1, Adding
    <3> QED
      BY <1>1, <1>2, <2>3, <3>1, <3>2
  <2> QED
    BY <1>1, <2>1, <2>2, <2>3
<1>5. CASE Spoilt
  <2>1. partial /\ UNCHANGED <<reg, address>> /\ (line' = line \/ line' = Append(line, Junk))
    BY <1>5 DEF Spoilt
  <2>2. line' = Append(line, Junk) => Appended(Junk)
    BY <1>3, Adding
  <2> QED
    BY <1>1, <1>2, <2>1, <2>2
<1>6. CASE UNCHANGED <<line, reg, address>> /\ (excused' \/ address # Id)
  BY <1>1, <1>2, <1>6
<1> QED
  BY <1>4, <1>5, <1>6 DEF Send, motor

\* Half a command has been sent.
LEMMA BareSending ==
    ASSUME TypeInv, SendBare
    PROVE  /\ call.op = "bare" /\ call'.op = "bare"
           /\ call' = [op |-> "bare", of |-> call.of, value |-> call.value,
                       at |-> call.at, sent |-> TRUE, got |-> call.got]
<1>1. call.op = "bare" /\ call' = [call EXCEPT !.sent = TRUE]
  BY DEF SendBare
<1>2. call = [op |-> call.op, of |-> call.of, value |-> call.value,
              at |-> call.at, sent |-> call.sent, got |-> call.got]
  BY <1>1 DEF TypeInv, CallOK, InCall
<1>3. call' = [op |-> "bare", of |-> call.of, value |-> call.value,
               at |-> call.at, sent |-> TRUE, got |-> call.got]
  BY <1>1, <1>2
<1> QED
  BY <1>1, <1>3

\* What a call that ends has left.
LEMMA Ending ==
    ASSUME TypeInv, InCall, call' = Over
    PROVE  /\ call'.op = "over" /\ call'.of = call.of
           /\ CallOK' /\ ~InCall'
           /\ call'.of \in Settings \cup {"other"}
<1>1. call' = [op |-> "over", of |-> call.of]
  BY DEF Over
<1>2. call'.op = "over" /\ call'.of = call.of
  BY <1>1
<1>3. call' = Over'
  BY <1>1, <1>2 DEF Over
<1>4. call.of \in Settings \cup {"other"}
  BY DEF TypeInv, TypeOK, InCall
<1> QED
  BY <1>2, <1>3, <1>4 DEF CallOK, InCall

\* An exchange that succeeded is followed by the next, or was the last.
LEMMA Advancing ==
    ASSUME TypeInv, call.op \in {"set", "get"}, NEW v, Advance(v)
    PROVE  \/ /\ call.at < Len(AllSymbols)
              /\ call' = [op |-> call.op, of |-> call.of, value |-> call.value,
                          at |-> call.at + 1, sent |-> FALSE, got |-> call'.got]
              /\ call'.got = [i \in 1..call.at |-> IF i < call.at THEN call.got[i] ELSE v]
              /\ Len(call'.got) = call.at
              /\ outcome' = "none" /\ result' = Unknown /\ known' = known
           \/ /\ call.at = Len(AllSymbols)
              /\ call' = Over /\ outcome' = "ok"
              /\ IF call.op = "set"
                 THEN result' = Unknown /\ known' = [known EXCEPT ![call.of] = call.value]
                 ELSE /\ result' = Decode(call.of, [i \in 1..call.at |->
                                             IF i < call.at THEN call.got[i] ELSE v])
                      /\ known' = known
<1> DEFINE got == Append(call.got, v)
           new == [i \in 1..call.at |-> IF i < call.at THEN call.got[i] ELSE v]
<1>1. /\ call.at \in 1..Len(AllSymbols) /\ Len(AllSymbols) \in {1, 2}
      /\ Len(call.got) = call.at - 1
      /\ call.got = [i \in 1..(call.at - 1) |-> call.got[i]]
  BY Exchange DEF TypeInv, CallOK
<1>2. got = new /\ Len(got) = call.at
  <2> DEFINE S == {call.got[i] : i \in 1..(call.at - 1)} \cup {v}
  <2>1. call.at - 1 \in Nat /\ call.at \in Nat
    BY <1>1
  <2>2. [i \in 1..(call.at - 1) |-> call.got[i]] \in [1..(call.at - 1) -> S]
    OBVIOUS
  <2>3. call.got \in [1..(call.at - 1) -> S]
    BY <1>1, <2>2
  <2>4. call.got \in Seq(S) /\ v \in S
    BY <2>1, <2>3
  <2> HIDE DEF S
  <2>5. /\ got \in Seq(S) /\ Len(got) = Len(call.got) + 1
        /\ \A i \in 1..Len(call.got) : got[i] = call.got[i]
        /\ got[Len(call.got) + 1] = v
    BY <2>4, AppendProperties
  <2>6. Len(got) = call.at /\ got = [i \in 1..call.at |-> got[i]]
    BY <1>1, <2>1, <2>5
  <2>7. ASSUME NEW i \in 1..call.at
        PROVE  got[i] = IF i < call.at THEN call.got[i] ELSE v
    BY <1>1, <2>1, <2>5
  <2> QED
    BY <2>6, <2>7
<1>3. /\ call' = IF call.at = Len(AllSymbols) THEN Over
                 ELSE [call EXCEPT !.at = call.at + 1, !.sent = FALSE, !.got = got]
      /\ outcome' = IF call.at = Len(AllSymbols) THEN "ok" ELSE "none"
      /\ result' = IF call.at = Len(AllSymbols) /\ call.op = "get"
                   THEN Decode(call.of, got) ELSE Unknown
      /\ known' = IF call.at = Len(AllSymbols) /\ call.op = "set"
                  THEN [known EXCEPT ![call.of] = call.value] ELSE known
  BY DEF Advance
<1>4. call = [op |-> call.op, of |-> call.of, value |-> call.value,
              at |-> call.at, sent |-> call.sent, got |-> call.got]
  BY DEF TypeInv, CallOK, InCall
<1> HIDE DEF got, new
<1>5. CASE call.at = Len(AllSymbols)
  BY <1>2, <1>3, <1>5 DEF new
<1>6. CASE call.at # Len(AllSymbols)
  <2>1. call.at < Len(AllSymbols)
    BY <1>1, <1>6
  <2>2. call' = [op |-> call.op, of |-> call.of, value |-> call.value,
                 at |-> call.at + 1, sent |-> FALSE, got |-> got]
    BY <1>3, <1>4, <1>6
  <2>3. call'.got = got
    BY <2>2
  <2> QED
    BY <1>2, <1>3, <1>6, <2>1, <2>2, <2>3 DEF new
<1> QED
  BY <1>5, <1>6

\* A new call has the line as it finds it.
LEMMA Beginning ==
    ASSUME NEW op, NEW s, NEW v, NEW sound, Begin(op, s, v, sound), TypeInv
    PROVE  /\ call' = [op |-> op, of |-> s, value |-> v, at |-> 1, sent |-> FALSE,
                       got |-> <<>>]
           /\ ~InCall /\ outcome' = "none" /\ result' = Unknown
           /\ UNCHANGED <<reg, address, partial, line, here, cut, faults>>
           /\ left' \in 0..2 /\ left <= left'
           /\ left' <= 1 => Len(line) <= 1
           /\ ~excused' => sound /\ line = <<>> /\ address = Id /\ ~partial
<1>1. Len(line) \in Nat /\ left \in 0..2
  BY LenProperties DEF TypeInv, TypeOK
<1>2. left' = IF Len(line) <= left THEN left ELSE AtMostTwo(Len(line))
  BY DEF Begin
<1>3. left' \in 0..2 /\ left <= left' /\ (left' <= 1 => Len(line) <= 1)
  <2>1. CASE Len(line) <= left
    BY <1>1, <1>2, <2>1
  <2>2. CASE ~(Len(line) <= left) /\ Len(line) <= 2
    <3>1. left' = Len(line)
      BY <1>2, <2>2 DEF AtMostTwo
    <3> QED
      BY <1>1, <2>2, <3>1
  <2>3. CASE ~(Len(line) <= left) /\ ~(Len(line) <= 2)
    <3>1. left' = 2
      BY <1>2, <2>3 DEF AtMostTwo
    <3> QED
      BY <1>1, <2>3, <3>1
  <2> QED
    BY <2>1, <2>2, <2>3
<1>4. excused' = (~sound \/ line # <<>> \/ address # Id \/ partial)
  BY DEF Begin
<1>5. ~excused' => sound /\ line = <<>> /\ address = Id /\ ~partial
  BY <1>4
<1> QED
  BY <1>3, <1>5 DEF Begin, motor

\* A read takes all that waits and accepts it or not.
LEMMA Reading ==
    ASSUME TypeInv, Read
    PROVE  /\ call.op \in {"set", "get"} /\ call.sent
           /\ here \in 1..Len(line) /\ here' = 0 /\ Dropped(here)
           /\ UNCHANGED <<reg, address, partial, excused, left, cut, faults>>
           /\ \/ ~Accepted(here, line[1].value) /\ Fail
              \/ Accepted(here, line[1].value) /\ Advance(line[1].value)
<1>1. here \in 1..Len(line) /\ line \in Seq(Answers)
  BY LenProperties DEF Read, TypeInv, TypeOK
<1>2. here \in 0..Len(line)
  BY DEF TypeInv, TypeOK
<1>3. line' = SubSeq(line, here + 1, Len(line))
  BY DEF Read
<1>4. Dropped(here)
  BY <1>1, <1>2, <1>3, Taking
<1> QED
  BY <1>1, <1>4 DEF Read, motor

\* A read that takes an answer without its last byte leaves that byte.
LEMMA ReadingCut ==
    ASSUME TypeInv, ReadCut
    PROVE  /\ call.op \in {"set", "get"} /\ call.sent
           /\ here \in Nat /\ here < Len(line) /\ Len(line) - here <= MaxLate
           /\ here' = 0 /\ CutAt(here)
           /\ cut' = TRUE /\ excused' = TRUE /\ faults' \in 0..MaxFaults
           /\ UNCHANGED <<reg, address, partial, left>>
           /\ Fail \/ \E v \in CutValues : Advance(v)
<1>1. here \in Nat /\ here < Len(line) /\ line \in Seq(Answers)
  BY LenProperties DEF ReadCut, TypeInv, TypeOK
<1>2. line' = <<Junk>> \o SubSeq(line, here + 2, Len(line))
  BY DEF ReadCut
<1>3. CutAt(here)
  BY <1>1, <1>2, Cutting
<1>4. faults' \in 0..MaxFaults
  BY SettingsAssumption DEF ReadCut, TypeInv, TypeOK
<1>5. PICK v \in CutValues : IF Accepted(here + 1, v) THEN Advance(v) ELSE Fail
  BY DEF ReadCut
<1> QED
  BY <1>1, <1>3, <1>4, <1>5 DEF ReadCut, motor

-----------------------------------------------------------------------------
(* Types.                                                                  *)

\* At first every register has a value in its range.
LEMMA InitTypeInv == Init => TypeInv
<1> SUFFICES ASSUME Init PROVE TypeInv
  OBVIOUS
<1>1. line \in Seq(Answers) /\ Len(line) = 0
  BY EmptySeq DEF Init
<1>2. ASSUME NEW x \in Symbols
      PROVE  IF x \in Masks THEN reg[x] \subseteq Bits ELSE reg[x] \in RangeOf(x)
  <2>1. reg[x] = IF x \in Masks THEN {} ELSE 1
    BY DEF Init
  <2>2. 1 \in RangeOf(x)
    BY DEF RangeOf
  <2> QED
    BY <2>1, <2>2
<1>3. DOMAIN reg = Symbols /\ DOMAIN known = Settings
  BY DEF Init
<1>4. /\ partial \in BOOLEAN /\ excused \in BOOLEAN /\ cut \in BOOLEAN
      /\ call.op = "none" /\ call = [op |-> "none"] /\ outcome = "none"
  BY DEF Init
<1>5. /\ address \in 1..254 /\ here \in 0..Len(line) /\ left \in 0..2
      /\ faults \in 0..MaxFaults /\ Len(line) <= MaxLate /\ Len(line) <= MaxLate + 1
  BY <1>1, SettingsAssumption DEF Init, Id
<1>6. TypeOK
  BY <1>2, <1>3, <1>4, <1>5 DEF TypeOK
<1>7. CallOK
  BY <1>4 DEF CallOK, InCall
<1>8. Room
  <2>1. ~(Len(line) > MaxLate)
    BY <1>1, SettingsAssumption
  <2> QED
    BY <2>1 DEF Room
<1> QED
  BY <1>1, <1>4, <1>6, <1>7, <1>8 DEF TypeInv

\* The registers keep their types.
LEMMA RegisterTypes ==
    ASSUME TypeInv, [Next]_vars
    PROVE  /\ DOMAIN reg' = Symbols
           /\ \A x \in Symbols : reg'[x] \in ValueOf(x)
           /\ address' \in 1..254 /\ partial' \in BOOLEAN
<1>1. /\ DOMAIN reg = Symbols /\ \A x \in Symbols : reg[x] \in ValueOf(x)
      /\ address \in 1..254 /\ partial \in BOOLEAN
  BY DEF TypeInv, TypeOK, ValueOf
<1>2. CASE Send
  <2>1. partial' \in BOOLEAN
    BY <1>1, <1>2 DEF Send, motor
  <2>2. CASE UNCHANGED <<reg, address>>
    BY <1>1, <2>1, <2>2
  <2>3. CASE /\ call.op = "set"
             /\ reg' = [reg EXCEPT ![Symbol] = Value]
             /\ address' = IF Symbol = "m" THEN Value ELSE address
    <3>1. InBounds(Symbol, Value)
      BY <1>2, <2>3, Sending
    <3>2. Symbol \in Symbols /\ Value \in ValueOf(Symbol)
      BY <2>3, <3>1, Exchange
    <3>3. Symbol = "m" => Value \in 1..254
      BY <3>2 DEF ValueOf, RangeOf, Masks
    <3> QED
      BY <1>1, <2>1, <2>3, <3>2, <3>3
  <2> QED
    BY <1>2, <2>2, <2>3, Sending
<1>3. CASE SendBare
  BY <1>1, <1>3 DEF SendBare
<1>4. CASE UNCHANGED motor
  BY <1>1, <1>4 DEF motor
<1> QED
  BY <1>2, <1>3, <1>4 DEF Next, vars, CallSet, CallGet, CallBare, Begin, EndBare, Announce,
     Refuse, Arrive, TimeOut, Read, ReadCut

\* The line never holds more than MaxLate answers and the one to the command
\* that was sent.
LEMMA LineTypes ==
    ASSUME TypeInv, [Next]_vars
    PROVE  /\ line' \in Seq(Answers)
           /\ Len(line') <= MaxLate + 1
           /\ here' \in 0..Len(line')
           /\ Room'
<1> DEFINE Waits == call.op \in {"set", "get"} /\ call.sent
<1>1. /\ line \in Seq(Answers) /\ Len(line) \in Nat /\ MaxLate \in Nat
      /\ Len(line) <= MaxLate + 1 /\ here \in 0..Len(line)
  BY LenProperties, SettingsAssumption DEF TypeInv, TypeOK
<1>2. ~Waits => Len(line) <= MaxLate
  <2>1. ~(Len(line) > MaxLate) => Len(line) <= MaxLate
    BY <1>1
  <2> QED
    BY <2>1 DEF TypeInv, Room
<1> SUFFICES /\ line' \in Seq(Answers) /\ here' \in 0..Len(line')
             /\ \/ Len(line') <= MaxLate
                \/ /\ Len(line') <= MaxLate + 1
                   /\ call'.op \in {"set", "get"} /\ call'.sent
  <2>1. line' \in Seq(Answers) => Len(line') \in Nat
    BY LenProperties
  <2>2. line' \in Seq(Answers) /\ Len(line') <= MaxLate =>
           Len(line') <= MaxLate + 1 /\ ~(Len(line') > MaxLate)
    BY <1>1, <2>1
  <2>3. MaxLate' = MaxLate
    OBVIOUS
  <2> QED
    BY <2>2, <2>3 DEF Room
<1> HIDE DEF Waits
<1>3. CASE UNCHANGED <<line, here>> /\ ~Waits
  BY <1>1, <1>2, <1>3
<1>4. CASE UNCHANGED <<line, call>> /\ here' \in 0..Len(line)
  BY <1>1, <1>2, <1>4 DEF Waits
<1>5. CASE Announce
  <2>1. line' = Append(line, Junk) /\ Len(line) < MaxLate /\ here' = here
    BY <1>5 DEF Announce
  <2>2. Appended(Junk)
    BY <1>1, <2>1, AnswerTypes, Adding
  <2> QED
    BY <1>1, <2>1, <2>2 DEF Appended
<1>6. CASE Send
  <2>1. call'.op \in {"set", "get"} /\ call'.sent
    BY <1>6, Sending
  <2>2. line' = line \/ \E a : Appended(a)
    BY <1>6, Sending
  <2>3. line' \in Seq(Answers) /\ (Len(line') = Len(line) \/ Len(line') = Len(line) + 1)
    BY <1>1, <2>2 DEF Appended
  <2>4. ~Waits
    BY <1>6, Sending DEF Waits
  <2>5. here' = here
    BY <1>6, Sending
  <2> QED
    BY <1>1, <1>2, <2>1, <2>3, <2>4, <2>5
<1>7. CASE TimeOut
  BY <1>1, <1>7 DEF TimeOut
<1>8. CASE EndBare
  <2>1. line' = SubSeq(line, here + 1, Len(line)) /\ here' = 0 /\ ~Waits
    BY <1>8 DEF EndBare, Waits
  <2>2. Dropped(here)
    BY <1>1, <2>1, Taking
  <2> QED
    BY <1>1, <1>2, <2>1, <2>2 DEF Dropped
<1>9. CASE Read
  <2>1. here \in 1..Len(line) /\ here' = 0 /\ Dropped(here)
    BY <1>9, Reading
  <2> QED
    BY <1>1, <2>1 DEF Dropped
<1>10. CASE ReadCut
  <2>1. here' = 0 /\ CutAt(here) /\ Len(line) - here <= MaxLate
    BY <1>10, ReadingCut
  <2> QED
    BY <1>1, <2>1 DEF CutAt
<1>11. ASSUME \/ \E s \in Settings : \E v \in Inputs[s] : CallSet(s, v)
              \/ \E s \in Settings : CallGet(s)
              \/ CallBare
       PROVE  UNCHANGED <<line, here>> /\ ~Waits
  BY <1>11 DEF CallSet, CallGet, CallBare, Begin, InCall, Waits
<1>12. CASE Refuse \/ SendBare
  BY <1>3, <1>12 DEF Refuse, SendBare, Waits
<1>13. CASE Arrive
  <2>1. UNCHANGED <<line, call>> /\ here < Len(line) /\ here' = here + 1
    BY <1>13 DEF Arrive
  <2> QED
    BY <1>1, <1>4, <2>1
<1>14. CASE UNCHANGED vars
  BY <1>1, <1>4, <1>14 DEF vars
<1> QED
  BY <1>3, <1>5, <1>6, <1>7, <1>8, <1>9, <1>10, <1>11, <1>12, <1>13, <1>14 DEF Next

\* A method that begins, one that has sent its command, one that goes on with
\* its next exchange and one that is over.
LEMMA CallTypes ==
    ASSUME TypeInv, [Next]_vars
    PROVE  /\ call'.op \in {"none", "set", "get", "bare", "over"}
           /\ call'.op # "none" => call'.of \in Settings \cup {"other"}
           /\ CallOK'
           /\ call'.op = "set" /\ call'.sent => InBounds(Symbol, Value)'
<1>1. /\ CallOK /\ call.op \in {"none", "set", "get", "bare", "over"}
      /\ call.op # "none" => call.of \in Settings \cup {"other"}
      /\ call.op = "set" /\ call.sent => InBounds(Symbol, Value)
  BY DEF TypeInv, TypeOK
<1>2. CASE InCall /\ call' = Over
  BY <1>2, Ending
<1>3. ASSUME NEW op \in {"set", "get", "bare"}, NEW s, NEW v, NEW sound, Begin(op, s, v, sound),
             op = "set" => s \in Settings /\ v \in Inputs[s],
             op = "get" => s \in Settings \cap DOMAIN GetSymbols,
             op = "bare" => s = "other"
      PROVE  /\ call'.op \in {"none", "set", "get", "bare", "over"}
             /\ call'.op # "none" => call'.of \in Settings \cup {"other"}
             /\ CallOK'
             /\ call'.op = "set" /\ call'.sent => InBounds(Symbol, Value)'
  <2>1. /\ call' = [op |-> op, of |-> s, value |-> v, at |-> 1, sent |-> FALSE, got |-> <<>>]
        /\ result' = Unknown
    BY <1>3, Beginning
  <2>2. /\ call'.op = op /\ call'.of = s /\ call'.value = v /\ call'.at = 1
        /\ call'.sent = FALSE /\ call'.got = <<>>
    BY <2>1
  <2>3. op \in {"set", "get"} => 1 \in 1..Len(AllSymbols')
    <3>1. op = "set" => AllSymbols' = SetSymbols[s]
      BY <2>2 DEF AllSymbols
    <3>2. op = "get" => AllSymbols' = GetSymbols[s]
      BY <2>2 DEF AllSymbols
    <3>3. op \in {"set", "get"} => Len(AllSymbols') = Len(SetSymbols[s]) /\ s \in Settings
      BY <1>3, <3>1, <3>2, GetNames
    <3> QED
      BY <3>3, Lengths
  <2>4. Len(<<>>) = 1 - 1 /\ <<>> = [i \in 1..(1 - 1) |-> call'.got[i]]
    OBVIOUS
  <2> QED
    BY <1>3, <2>1, <2>2, <2>3, <2>4 DEF CallOK, InCall
<1>4. CASE Send
  <2>1. /\ call' = [op |-> call.op, of |-> call.of, value |-> call.value,
                    at |-> call.at, sent |-> TRUE, got |-> call.got]
        /\ result' = result /\ call.op \in {"set", "get"}
        /\ call.op = "set" => InBounds(Symbol, Value)
    BY <1>4, Sending
  <2>2. /\ call'.op = call.op /\ call'.of = call.of /\ call'.value = call.value
        /\ call'.at = call.at /\ call'.sent = TRUE /\ call'.got = call.got
    BY <2>1
  <2>3. AllSymbols' = AllSymbols /\ Symbol' = Symbol /\ Value' = Value
    BY <2>2 DEF AllSymbols, Symbol, Value
  <2> QED
    BY <1>1, <2>1, <2>2, <2>3 DEF CallOK, InCall
<1>5. CASE SendBare
  <2>1. /\ call' = [op |-> "bare", of |-> call.of, value |-> call.value,
                    at |-> call.at, sent |-> TRUE, got |-> call.got]
        /\ call.op = "bare" /\ result' = result
    BY <1>5, BareSending DEF SendBare
  <2>2. call'.op = "bare" /\ call'.of = call.of /\ call'.sent = TRUE
    BY <2>1
  <2> QED
    BY <1>1, <2>1, <2>2 DEF CallOK, InCall
<1>6. ASSUME NEW v, Advance(v), call.op \in {"set", "get"}
      PROVE  /\ call'.op \in {"none", "set", "get", "bare", "over"}
             /\ call'.op # "none" => call'.of \in Settings \cup {"other"}
             /\ CallOK'
             /\ call'.op = "set" /\ call'.sent => InBounds(Symbol, Value)'
  <2>1. CASE call' = Over
    BY <1>2, <1>6, <2>1 DEF InCall
  <2>2. CASE /\ call.at < Len(AllSymbols)
             /\ call' = [op |-> call.op, of |-> call.of, value |-> call.value,
                         at |-> call.at + 1, sent |-> FALSE, got |-> call'.got]
             /\ call'.got = [i \in 1..call.at |-> IF i < call.at THEN call.got[i] ELSE v]
             /\ Len(call'.got) = call.at
             /\ result' = Unknown
    <3>1. /\ call'.op = call.op /\ call'.of = call.of /\ call'.value = call.value
          /\ call'.at = call.at + 1 /\ call'.sent = FALSE
      BY <2>2
    <3>2. call.at \in 1..Len(AllSymbols) /\ Len(AllSymbols) \in {1, 2}
      BY <1>6, Exchange
    <3>3. AllSymbols' = AllSymbols
      BY <3>1 DEF AllSymbols
    <3>4. call'.at \in 1..Len(AllSymbols') /\ call'.at - 1 = call.at
      BY <2>2, <3>1, <3>2, <3>3
    <3>5. call'.got = [i \in 1..call.at |-> call'.got[i]]
      BY <2>2
    <3> QED
      BY <1>1, <1>6, <2>2, <3>1, <3>4, <3>5 DEF CallOK, InCall
  <2> QED
    BY <1>6, <2>1, <2>2, Advancing
<1>7. CASE UNCHANGED <<call, result>>
  <2>1. AllSymbols' = AllSymbols /\ Symbol' = Symbol /\ Value' = Value /\ Over' = Over
    BY <1>7 DEF AllSymbols, Symbol, Value, Over
  <2> QED
    BY <1>1, <1>7, <2>1 DEF CallOK, InCall
<1>8. CASE Refuse \/ TimeOut \/ EndBare
  BY <1>2, <1>8 DEF Refuse, TimeOut, EndBare, Fail, InCall
<1>9. CASE Read
  BY <1>2, <1>6, <1>9, Reading DEF Fail, InCall
<1>10. CASE ReadCut
  <2>1. call.op \in {"set", "get"} /\ (Fail \/ \E v \in CutValues : Advance(v))
    BY <1>10, ReadingCut
  <2> QED
    BY <1>2, <1>6, <2>1 DEF Fail, InCall
<1>11. ASSUME NEW s \in Settings, NEW v \in Inputs[s], CallSet(s, v)
       PROVE  /\ call'.op \in {"none", "set", "get", "bare", "over"}
              /\ call'.op # "none" => call'.of \in Settings \cup {"other"}
              /\ CallOK'
              /\ call'.op = "set" /\ call'.sent => InBounds(Symbol, Value)'
  BY <1>3, <1>11 DEF CallSet
<1>12. CASE (\E s \in Settings : CallGet(s)) \/ CallBare
  BY <1>3, <1>12 DEF CallGet, CallBare
<1>13. CASE Announce \/ Arrive \/ UNCHANGED vars
  BY <1>7, <1>13 DEF Announce, Arrive, vars
<1> QED
  BY <1>4, <1>5, <1>8, <1>9, <1>10, <1>11, <1>12, <1>13 DEF Next

\* The rest of the state keeps its types.
LEMMA OtherTypes ==
    ASSUME TypeInv, [Next]_vars
    PROVE  /\ outcome' \in {"none", "ok", "threw"} /\ DOMAIN known' = Settings
           /\ excused' \in BOOLEAN /\ cut' \in BOOLEAN
           /\ left' \in 0..2 /\ left <= left'
           /\ faults' \in 0..MaxFaults
<1> DEFINE Rest == /\ outcome' \in {"none", "ok", "threw"} /\ DOMAIN known' = Settings
                   /\ excused' \in BOOLEAN /\ cut' \in BOOLEAN
                   /\ left' \in 0..2 /\ left <= left'
                   /\ faults' \in 0..MaxFaults
<1>1. /\ outcome \in {"none", "ok", "threw"} /\ DOMAIN known = Settings
      /\ excused \in BOOLEAN /\ cut \in BOOLEAN
      /\ left \in 0..2 /\ faults \in 0..MaxFaults /\ MaxFaults \in Nat
  BY SettingsAssumption DEF TypeInv, TypeOK
<1>2. ASSUME NEW op, NEW s, NEW v, NEW sound, Begin(op, s, v, sound)
      PROVE  /\ outcome' \in {"none", "ok", "threw"}
             /\ excused' \in BOOLEAN /\ cut' \in BOOLEAN
             /\ left' \in 0..2 /\ left <= left' /\ faults' \in 0..MaxFaults
  <2>1. left' \in 0..2 /\ left <= left' /\ faults' = faults /\ cut' = cut
    BY <1>2, Beginning
  <2>2. excused' \in BOOLEAN /\ outcome' = "none"
    BY <1>2 DEF Begin
  <2> QED
    BY <1>1, <2>1, <2>2
<1>3. ASSUME NEW s \in Settings, NEW v \in Inputs[s], CallSet(s, v)
      PROVE  Rest
  <2>1. known' = [known EXCEPT ![s] = Unknown]
    BY <1>3 DEF CallSet
  <2> QED
    BY <1>1, <1>2, <1>3, <2>1 DEF CallSet
<1>4. CASE (\E s \in Settings : CallGet(s)) \/ CallBare
  BY <1>1, <1>2, <1>4 DEF CallGet, CallBare
<1>5. CASE Send
  <2>1. faults' = faults \/ (faults < MaxFaults /\ faults' = faults + 1)
    BY <1>5 DEF Send
  <2>2. excused' = excused \/ excused' = TRUE
    BY <1>5 DEF Send
  <2>3. UNCHANGED <<outcome, known, left, cut>>
    BY <1>5, Sending
  <2>4. faults' \in 0..MaxFaults /\ left' \in 0..2 /\ left <= left'
    BY <1>1, <2>1, <2>3
  <2>5. excused' \in BOOLEAN /\ cut' \in BOOLEAN
    BY <1>1, <2>2, <2>3
  <2> QED
    BY <1>1, <2>3, <2>4, <2>5
<1>6. CASE Announce
  <2>1. faults' \in 0..MaxFaults
    BY <1>1, <1>6 DEF Announce
  <2> QED
    BY <1>1, <1>6, <2>1 DEF Announce
<1>7. CASE TimeOut \/ Refuse
  <2>1. UNCHANGED <<known, left, cut, faults>> /\ outcome' = "threw"
    BY <1>7 DEF TimeOut, Refuse, Fail
  <2>2. excused' = excused \/ excused' = TRUE
    BY <1>7 DEF TimeOut, Refuse
  <2>3. left' \in 0..2 /\ left <= left' /\ faults' \in 0..MaxFaults
    BY <1>1, <2>1
  <2>4. excused' \in BOOLEAN /\ cut' \in BOOLEAN
    BY <1>1, <2>1, <2>2
  <2> QED
    BY <1>1, <2>1, <2>3, <2>4
<1>8. ASSUME NEW v, Advance(v), call.op \in {"set", "get"}
      PROVE  outcome' \in {"none", "ok", "threw"} /\ DOMAIN known' = Settings
  <2>1. outcome' \in {"none", "ok"}
    BY <1>8, Advancing
  <2>2. known' = known \/ known' = [known EXCEPT ![call.of] = call.value]
    BY <1>8, Advancing
  <2> QED
    BY <1>1, <2>1, <2>2
<1>9. CASE Read
  <2>1. UNCHANGED <<excused, left, cut, faults>>
    BY <1>9, Reading
  <2>2. outcome' \in {"none", "ok", "threw"} /\ DOMAIN known' = Settings
    BY <1>1, <1>8, <1>9, Reading DEF Fail
  <2> QED
    BY <1>1, <2>1, <2>2
<1>10. CASE ReadCut
  <2>1. left' = left /\ excused' = TRUE /\ cut' = TRUE /\ faults' \in 0..MaxFaults
    BY <1>10, ReadingCut
  <2>2. call.op \in {"set", "get"} /\ (Fail \/ \E v \in CutValues : Advance(v))
    BY <1>10, ReadingCut
  <2>3. outcome' \in {"none", "ok", "threw"} /\ DOMAIN known' = Settings
    BY <1>1, <1>8, <2>2 DEF Fail
  <2> QED
    BY <1>1, <2>1, <2>3
<1>11. CASE SendBare \/ Arrive \/ UNCHANGED vars
  <2>1. UNCHANGED <<outcome, history>>
    BY <1>11 DEF SendBare, Arrive, vars
  <2> QED
    BY <1>1, <2>1 DEF history
<1>12. CASE EndBare
  <2>1. UNCHANGED history /\ outcome' \in {"ok", "threw"}
    BY <1>12 DEF EndBare
  <2> QED
    BY <1>1, <2>1 DEF history
<1> QED
  BY <1>3, <1>4, <1>5, <1>6, <1>7, <1>9, <1>10, <1>11, <1>12 DEF Next

\* Every step keeps the types.
LEMMA NextTypeInv == TypeInv /\ [Next]_vars => TypeInv'
<1> SUFFICES ASSUME TypeInv, [Next]_vars PROVE TypeInv'
  OBVIOUS
<1>1. \A x \in Symbols : IF x \in Masks THEN reg'[x] \subseteq Bits ELSE reg'[x] \in RangeOf(x)
  BY RegisterTypes DEF ValueOf
<1>2. TypeOK'
  <2>1. DOMAIN reg' = Symbols /\ address' \in 1..254 /\ partial' \in BOOLEAN
    BY RegisterTypes
  <2>2. Len(line') <= MaxLate + 1 /\ here' \in 0..Len(line')
    BY LineTypes
  <2> QED
    BY <1>1, <2>1, <2>2, CallTypes, OtherTypes DEF TypeOK
<1> QED
  BY <1>2, LineTypes, CallTypes DEF TypeInv

\* Type correctness, with its two bounds: a register never has a value that its
\* set method refuses (NanotecMotor.cc:65-70), and there is one answer more than
\* were left over, at most (NanotecMotor.cc:39-47).
THEOREM TypeCorrect == Spec => []TypeOK
<1>1. TypeInv => TypeOK
  BY DEF TypeInv
<1> QED
  BY <1>1, InitTypeInv, NextTypeInv, PTL DEF Spec

\* The same with all that is known of calls and line.
LEMMA TypeInvariant == Spec => []TypeInv
  BY InitTypeInv, NextTypeInv, PTL DEF Spec

-----------------------------------------------------------------------------
(* The latest answer about a register has its value.                       *)

\* An answer about a register of that value comes last.
LEMMA FreshAppended ==
    ASSUME TypeInv, Fresh, NEW a, Appended(a), a # Junk, a.value = reg'[a.symbol],
           \A x \in Symbols : x # a.symbol => reg'[x] = reg[x]
    PROVE  Fresh'
<1>1. Len(line) \in Nat /\ line \in Seq(Answers)
  BY LenProperties DEF TypeInv
<1>2. /\ Len(line') = Len(line) + 1 /\ line'[Len(line) + 1] = a
      /\ \A j \in 1..Len(line) : line'[j] = line[j]
  BY DEF Appended
<1>3. ASSUME NEW j \in 1..Len(line')
      PROVE  \/ line'[j] = Junk
             \/ line'[j].value = reg'[line'[j].symbol]
             \/ \E k \in (j + 1)..Len(line') :
                   line'[k] # Junk /\ line'[k].symbol = line'[j].symbol
  <2>1. CASE j = Len(line) + 1
    BY <1>2, <2>1
  <2>2. CASE j \in 1..Len(line) /\ line[j] # Junk
    <3>1. line'[j] = line[j] /\ line[j] \in Answers
      BY <1>1, <1>2, <2>2, ElementOfSeq
    <3>2. line[j].symbol \in Symbols
      BY <2>2, <3>1, AnswerTypes
    <3>3. CASE line[j].symbol = a.symbol
      <4>1. Len(line) + 1 \in (j + 1)..Len(line')
        BY <1>1, <1>2, <2>2
      <4> QED
        BY <1>2, <3>1, <3>3, <4>1
    <3>4. CASE line[j].symbol # a.symbol /\ line[j].value = reg[line[j].symbol]
      BY <3>1, <3>2, <3>4
    <3>5. CASE \E k \in (j + 1)..Len(line) :
                  line[k] # Junk /\ line[k].symbol = line[j].symbol
      <4>1. PICK k \in (j + 1)..Len(line) :
                    line[k] # Junk /\ line[k].symbol = line[j].symbol
        BY <3>5
      <4>2. k \in 1..Len(line) /\ k \in (j + 1)..Len(line')
        BY <1>1, <1>2, <2>2
      <4>3. line'[k] = line[k]
        BY <1>2, <4>2
      <4> QED
        BY <3>1, <4>1, <4>2, <4>3
    <3> QED
      BY <2>2, <3>3, <3>4, <3>5 DEF Fresh
  <2>3. CASE j \in 1..Len(line) /\ line[j] = Junk
    BY <1>2, <2>3
  <2>4. j = Len(line) + 1 \/ j \in 1..Len(line)
    BY <1>1, <1>2
  <2> QED
    BY <2>1, <2>2, <2>3, <2>4
<1> QED
  BY <1>3 DEF Fresh

\* Something else comes last.
LEMMA FreshJunk ==
    ASSUME TypeInv, Fresh, Appended(Junk), reg' = reg
    PROVE  Fresh'
<1>1. Len(line) \in Nat
  BY LenProperties DEF TypeInv
<1>2. /\ Len(line') = Len(line) + 1 /\ line'[Len(line) + 1] = Junk
      /\ \A j \in 1..Len(line) : line'[j] = line[j]
  BY DEF Appended
<1>3. ASSUME NEW j \in 1..Len(line')
      PROVE  \/ line'[j] = Junk
             \/ line'[j].value = reg'[line'[j].symbol]
             \/ \E k \in (j + 1)..Len(line') :
                   line'[k] # Junk /\ line'[k].symbol = line'[j].symbol
  <2>1. CASE j = Len(line) + 1
    BY <1>2, <2>1
  <2>2. CASE j \in 1..Len(line)
    <3>1. line'[j] = line[j]
      BY <1>2, <2>2
    <3>2. ASSUME NEW k \in (j + 1)..Len(line)
          PROVE  k \in (j + 1)..Len(line') /\ line'[k] = line[k]
      BY <1>1, <1>2, <2>2
    <3> QED
      BY <2>2, <3>1, <3>2 DEF Fresh
  <2>3. j = Len(line) + 1 \/ j \in 1..Len(line)
    BY <1>1, <1>2
  <2> QED
    BY <2>1, <2>2, <2>3
<1> QED
  BY <1>3 DEF Fresh

\* The first answers are taken, or they are and a byte is left.
LEMMA FreshTaken ==
    ASSUME TypeInv, Fresh, NEW n \in 0..Len(line), reg' = reg,
           Dropped(n) \/ (CutAt(n) /\ n < Len(line))
    PROVE  Fresh'
<1>1. Len(line) \in Nat /\ n \in Nat /\ n <= Len(line)
  BY LenProperties DEF TypeInv
<1>2. Len(line') = Len(line) - n
  BY DEF Dropped, CutAt
<1>3. \A j \in 2..Len(line') : line'[j] = line[j + n]
  BY <1>1, <1>2 DEF Dropped, CutAt
<1>4. Len(line') >= 1 => line'[1] = Junk \/ line'[1] = line[1 + n]
  BY <1>1, <1>2 DEF Dropped, CutAt
<1>5. ASSUME NEW j \in 1..Len(line'), line'[j] # Junk
      PROVE  \/ line'[j].value = reg'[line'[j].symbol]
             \/ \E k \in (j + 1)..Len(line') :
                   line'[k] # Junk /\ line'[k].symbol = line'[j].symbol
  <2>1. line'[j] = line[j + n] /\ j + n \in 1..Len(line)
    <3>1. j = 1 \/ j \in 2..Len(line')
      BY <1>1, <1>2
    <3>2. line'[j] = line[j + n]
      BY <1>1, <1>2, <1>3, <1>4, <1>5, <3>1
    <3> QED
      BY <1>1, <1>2, <3>2
  <2>2. CASE line[j + n].value = reg[line[j + n].symbol]
    BY <2>1, <2>2
  <2>3. CASE \E k \in ((j + n) + 1)..Len(line) :
                line[k] # Junk /\ line[k].symbol = line[j + n].symbol
    <3>1. PICK k \in ((j + n) + 1)..Len(line) :
                  line[k] # Junk /\ line[k].symbol = line[j + n].symbol
      BY <2>3
    <3>2. k - n \in 2..Len(line') /\ k - n \in (j + 1)..Len(line') /\ (k - n) + n = k
      BY <1>1, <1>2
    <3>3. line'[k - n] = line[k]
      BY <1>3, <3>2
    <3> QED
      BY <2>1, <3>1, <3>2, <3>3
  <2> QED
    BY <1>5, <2>1, <2>2, <2>3 DEF Fresh
<1> QED
  BY <1>5 DEF Fresh

\* The motor writes a register and answers in one step, and keeps the order.
LEMMA NextFresh == TypeInv /\ Fresh /\ [Next]_vars => Fresh'
<1> SUFFICES ASSUME TypeInv, Fresh, [Next]_vars PROVE Fresh'
  OBVIOUS
<1>1. /\ line \in Seq(Answers) /\ Len(line) \in Nat /\ here \in 0..Len(line)
      /\ DOMAIN reg = Symbols
  BY LenProperties DEF TypeInv, TypeOK
<1>2. CASE UNCHANGED <<line, reg>>
  BY <1>2 DEF Fresh
<1>3. CASE Send
  <2>1. CASE Appended(Junk) /\ reg' = reg
    BY <2>1, FreshJunk
  <2>2. CASE /\ call.op = "set" /\ reg' = [reg EXCEPT ![Symbol] = Value]
             /\ \E a \in Echoes(Symbol, Value) : Appended(a)
    <3>1. InBounds(Symbol, Value)
      BY <1>3, <2>2, Sending
    <3>2. Symbol \in Symbols /\ Value \in ValueOf(Symbol)
      BY <2>2, <3>1, Exchange
    <3>3. PICK a \in Echoes(Symbol, Value) : Appended(a)
      BY <2>2
    <3>4. a # Junk /\ a.symbol = Symbol /\ a.value = Value
      BY <3>2, <3>3, AnswerTypes
    <3>5. reg'[Symbol] = Value /\ \A x \in Symbols : x # Symbol => reg'[x] = reg[x]
      BY <1>1, <2>2, <3>2
    <3> QED
      BY <3>3, <3>4, <3>5, FreshAppended
  <2>3. CASE Symbol \in Symbols /\ Appended(Report(Symbol, reg[Symbol])) /\ reg' = reg
    <3> DEFINE a == Report(Symbol, reg[Symbol])
    <3>1. reg[Symbol] \in ValueOf(Symbol)
      BY <2>3 DEF TypeInv, TypeOK, ValueOf
    <3>2. a # Junk
      BY <2>3, <3>1, AnswerTypes
    <3>3. a.symbol = Symbol /\ a.value = reg[Symbol]
      BY DEF Report
    <3> QED
      BY <2>3, <3>2, <3>3, FreshAppended
  <2> QED
    BY <1>2, <1>3, <2>1, <2>2, <2>3, Sending
<1>4. CASE Announce
  <2>1. Appended(Junk)
    BY <1>1, <1>4, AnswerTypes, Adding DEF Announce
  <2> QED
    BY <1>4, <2>1, FreshJunk DEF Announce, motor
<1>5. CASE EndBare
  <2>1. Dropped(here)
    BY <1>1, <1>5, Taking DEF EndBare
  <2> QED
    BY <1>1, <1>5, <2>1, FreshTaken DEF EndBare, motor
<1>6. CASE Read
  BY <1>1, <1>6, Reading, FreshTaken
<1>7. CASE ReadCut
  BY <1>1, <1>7, ReadingCut, FreshTaken
<1>8. CASE \/ \E s \in Settings : \E v \in Inputs[s] : CallSet(s, v)
           \/ \E s \in Settings : CallGet(s)
           \/ CallBare \/ SendBare \/ Refuse \/ Arrive \/ TimeOut
  BY <1>2, <1>8 DEF CallSet, CallGet, CallBare, Begin, SendBare, Refuse, Arrive, TimeOut, motor
<1>9. CASE UNCHANGED vars
  BY <1>2, <1>9 DEF vars, motor
<1> QED
  BY <1>3, <1>4, <1>5, <1>6, <1>7, <1>8, <1>9 DEF Next

\* An answer that is found is older than the register's value only if a newer
\* one about the register is behind it.
LEMMA LatestIsFresh == Spec => []Fresh
<1>1. Init => Fresh
  BY EmptySeq DEF Init, Fresh
<1> QED
  BY <1>1, TypeInvariant, NextFresh, PTL DEF Spec

-----------------------------------------------------------------------------
(* A set method that returns has taken effect.                             *)

\* The echo that a setter accepts as the first is of a value that the register
\* has: it is this call's own, or the one answer left over, and then no newer
\* echo about the register but this call's own is behind it.
LEMMA AcceptedEcho ==
    ASSUME TypeInv, Fresh, SetLine, left <= 1, call.op = "set", call.sent,
           NEW n, Accepted(n, line[1].value), Len(line) >= 1
    PROVE  reg[Symbol] = Value
<1>1. /\ line[1] # Junk /\ line[1].symbol = Symbol /\ line[1].value = Value
  BY DEF Accepted
<1>2. /\ call.of \in Settings /\ call.at \in 1..Len(SetSymbols[call.of])
      /\ Symbol = SetSymbols[call.of][call.at]
      /\ Value = Encode(call.of, call.value)[call.at]
  BY Exchange DEF Value
<1>3. Len(line) \in Nat /\ Len(SetSymbols[call.of]) \in Nat
  BY <1>2, LenProperties, Lengths DEF TypeInv
<1>4. ASSUME NEW k \in 1..Len(line), line[k] # Junk, line[k].symbol = Symbol, OwnEcho(line[k])
      PROVE  reg[Symbol] = Value
  <2>1. PICK i \in 1..call.at : /\ Symbol = SetSymbols[call.of][i]
                                /\ line[k].value = Encode(call.of, call.value)[i]
    BY <1>4 DEF OwnEcho
  <2>2. i \in 1..Len(SetSymbols[call.of])
    BY <1>2, <1>3
  <2>3. SetSymbols[call.of][i] = SetSymbols[call.of][call.at] => i = call.at
    BY <1>2, <2>2, OwnRegisters
  <2> QED
    BY <1>2, <1>4, <2>1, <2>3 DEF OwnEcho
<1>5. CASE line[1].value = reg[line[1].symbol]
  BY <1>1, <1>5
<1>6. CASE \E k \in (1 + 1)..Len(line) :
              line[k] # Junk /\ line[k].symbol = line[1].symbol
  <2>1. PICK k \in (1 + 1)..Len(line) :
                line[k] # Junk /\ line[k].symbol = line[1].symbol
    BY <1>6
  <2>2. k \in 1..Len(line) /\ k >= 2
    BY <1>3
  <2>3. OwnEcho(line[k])
    BY <2>1, <2>2 DEF SetLine
  <2> QED
    BY <1>1, <1>4, <2>1, <2>2, <2>3
<1>7. 1 \in 1..Len(line)
  BY <1>3
<1> QED
  BY <1>1, <1>5, <1>6, <1>7 DEF Fresh

\* A register that a set method writes is not one that an earlier exchange of
\* it wrote, or one of another setting.
LEMMA OtherRegisters ==
    ASSUME TypeInv, call.op = "set", Symbol \in Symbols,
           reg' = [reg EXCEPT ![Symbol] = Value]
    PROVE  /\ reg'[Symbol] = Value
           /\ \A i \in 1..(call.at - 1) :
                 reg'[SetSymbols[call.of][i]] = reg[SetSymbols[call.of][i]]
           /\ \A s \in Settings \ {call.of} : \A i \in 1..Len(SetSymbols[s]) :
                 reg'[SetSymbols[s][i]] = reg[SetSymbols[s][i]]
<1>1. /\ call.of \in Settings /\ call.at \in 1..Len(SetSymbols[call.of])
      /\ Len(SetSymbols[call.of]) \in Nat
      /\ Symbol = SetSymbols[call.of][call.at]
      /\ DOMAIN reg = Symbols
  BY Exchange, Lengths DEF TypeInv, TypeOK
<1>2. \A x \in Symbols : x # Symbol => reg'[x] = reg[x]
  BY <1>1
<1>3. ASSUME NEW i \in 1..(call.at - 1)
      PROVE  SetSymbols[call.of][i] # Symbol /\ SetSymbols[call.of][i] \in Symbols
  <2>1. i \in 1..Len(SetSymbols[call.of]) /\ i # call.at
    BY <1>1
  <2> QED
    BY <1>1, <2>1, OwnRegisters
<1>4. ASSUME NEW s \in Settings \ {call.of}, NEW i \in 1..Len(SetSymbols[s])
      PROVE  SetSymbols[s][i] # Symbol /\ SetSymbols[s][i] \in Symbols
  BY <1>1, OwnRegisters
<1> QED
  BY <1>1, <1>2, <1>3, <1>4

\* What is behind the first answer stays this call's own.
LEMMA NextSetLine == TypeInv /\ TypeInv' /\ SetLine /\ [Next]_vars => SetLine'
<1> SUFFICES ASSUME TypeInv, TypeInv', SetLine, [Next]_vars,
                    call'.op = "set", left' <= 1,
                    NEW j \in 1..Len(line'), j >= 2 \/ call'.at >= 2, line'[j] # Junk
             PROVE  OwnEcho(line[j])'
  BY DEF SetLine
<1>1. /\ Len(line) \in Nat /\ Len(line') \in Nat /\ here \in 0..Len(line)
      /\ left \in 0..2 /\ left' \in 0..2 /\ left <= left' /\ left <= 1
  <2>1. Len(line) \in Nat /\ Len(line') \in Nat
    BY LenProperties DEF TypeInv
  <2>2. here \in 0..Len(line) /\ left \in 0..2 /\ left' \in 0..2
    BY DEF TypeInv, TypeOK
  <2>3. left <= left'
    BY OtherTypes
  <2> QED
    BY <2>1, <2>2, <2>3
<1>2. ASSUME UNCHANGED <<call, reg>>, NEW k \in 1..Len(line), line'[j] = line[k],
             k >= 2 \/ call.at >= 2
      PROVE  OwnEcho(line[j])'
  BY <1>1, <1>2 DEF SetLine, OwnEcho
<1>3. CASE UNCHANGED <<call, reg, line>>
  BY <1>2, <1>3
<1>4. ASSUME NEW op, NEW s, NEW v, NEW sound, Begin(op, s, v, sound)
      PROVE  FALSE
  <2>1. call'.at = 1 /\ Len(line) <= 1 /\ line' = line
    <3>1. call' = [op |-> op, of |-> s, value |-> v, at |-> 1, sent |-> FALSE, got |-> <<>>]
      BY <1>4, Beginning
    <3>2. Len(line) <= 1 /\ line' = line
      BY <1>4, Beginning
    <3> QED
      BY <3>1, <3>2
  <2> QED
    BY <1>1, <2>1
<1>5. CASE Send
  <2>1. call' = [op |-> call.op, of |-> call.of, value |-> call.value,
                 at |-> call.at, sent |-> TRUE, got |-> call.got]
    BY <1>5, Sending
  <2>2. /\ call'.op = call.op /\ call'.of = call.of /\ call'.value = call.value
        /\ call'.at = call.at /\ call'.sent = TRUE /\ call.op = "set"
    BY <2>1
  <2>3. /\ InBounds(Symbol, Value) /\ ~call.sent
        /\ call.at \in 1..Len(SetSymbols[call.of])
        /\ Symbol = SetSymbols[call.of][call.at] /\ Symbol \in Symbols
        /\ Value \in ValueOf(Symbol)
        /\ Value = Encode(call.of, call.value)[call.at]
    BY <1>5, <2>2, Sending, Exchange DEF Value
  <2>4. CASE j \in 1..Len(line) /\ line'[j] = line[j]
    <3>1. OwnEcho(line[j])
      BY <1>1, <2>2, <2>4 DEF SetLine
    <3>2. PICK i \in 1..call.at : /\ i = call.at => call.sent
                                  /\ line[j].symbol = SetSymbols[call.of][i]
                                  /\ line[j].value = Encode(call.of, call.value)[i]
      BY <3>1 DEF OwnEcho
    <3>3. i \in 1..(call.at - 1)
      BY <2>3, <3>2
    <3>4. reg'[line[j].symbol] = reg[line[j].symbol]
      <4>1. CASE reg' = reg
        BY <4>1
      <4>2. CASE reg' = [reg EXCEPT ![Symbol] = Value]
        BY <2>2, <2>3, <3>2, <3>3, <4>2, OtherRegisters
      <4> QED
        BY <1>5, <4>1, <4>2, Sending
    <3>5. line[j].value = reg[line[j].symbol]
      BY <3>1 DEF OwnEcho
    <3>6. i \in 1..call'.at /\ i # call'.at
      BY <2>2, <2>3, <3>3
    <3> QED
      BY <2>2, <2>4, <3>2, <3>4, <3>5, <3>6 DEF OwnEcho
  <2>5. CASE /\ reg' = [reg EXCEPT ![Symbol] = Value]
             /\ \E a \in Echoes(Symbol, Value) : Appended(a)
    <3>1. PICK a \in Echoes(Symbol, Value) : Appended(a)
      BY <2>5
    <3>2. a.symbol = Symbol /\ a.value = Value
      BY <2>3, <3>1, AnswerTypes
    <3>3. CASE j \in 1..Len(line)
      <4>1. line'[j] = line[j]
        BY <3>1, <3>3 DEF Appended
      <4> QED
        BY <2>4, <3>3, <4>1
    <3>4. CASE j = Len(line) + 1
      <4>1. line'[j] = a
        BY <3>1, <3>4 DEF Appended
      <4>2. reg'[Symbol] = Value
        BY <2>2, <2>3, <2>5, OtherRegisters
      <4>3. call'.at \in 1..call'.at
        BY <2>2, <2>3
      <4> QED
        BY <2>2, <2>3, <3>2, <4>1, <4>2, <4>3 DEF OwnEcho
    <3>5. j \in 1..Len(line) \/ j = Len(line) + 1
      BY <1>1, <3>1 DEF Appended
    <3> QED
      BY <3>3, <3>4, <3>5
  <2>6. CASE line' = line
    BY <2>4, <2>6
  <2>7. CASE Appended(Junk)
    <3>1. j \in 1..Len(line) \/ j = Len(line) + 1
      BY <1>1, <2>7 DEF Appended
    <3> QED
      BY <2>4, <2>7, <3>1 DEF Appended
  <2> QED
    BY <1>5, <2>2, <2>5, <2>6, <2>7, Sending
<1>6. CASE Announce
  <2>1. Appended(Junk) /\ UNCHANGED <<call, reg>>
    BY <1>6, AnswerTypes, Adding DEF Announce, motor, TypeInv
  <2>2. j \in 1..Len(line) /\ line'[j] = line[j]
    <3>1. j \in 1..Len(line) \/ j = Len(line) + 1
      BY <1>1, <2>1 DEF Appended
    <3> QED
      BY <2>1, <3>1 DEF Appended
  <2> QED
    BY <1>2, <2>1, <2>2
<1>7. ASSUME NEW v, Advance(v), call.op \in {"set", "get"}, call.sent, reg' = reg,
             NEW k \in 2..Len(line), line'[j] = line[k]
      PROVE  OwnEcho(line[j])'
  <2>1. call' # Over
    BY DEF Over
  <2>2. /\ call' = [op |-> call.op, of |-> call.of, value |-> call.value,
                    at |-> call.at + 1, sent |-> FALSE, got |-> call'.got]
        /\ call.at \in Nat
    <3>1. call.at \in 1..Len(AllSymbols)
      BY <1>7, Exchange
    <3>2. call.at \in Nat
      BY <3>1
    <3> QED
      BY <1>7, <2>1, <3>2, Advancing
  <2>3. /\ call'.op = call.op /\ call'.of = call.of /\ call'.value = call.value
        /\ call'.at = call.at + 1 /\ call.op = "set"
    BY <2>2
  <2>4. OwnEcho(line[k])
    BY <1>1, <1>7, <2>3 DEF SetLine
  <2>5. PICK i \in 1..call.at : /\ line[k].symbol = SetSymbols[call.of][i]
                                /\ line[k].value = Encode(call.of, call.value)[i]
    BY <2>4 DEF OwnEcho
  <2>6. i \in 1..call'.at /\ i # call'.at
    BY <2>2, <2>3
  <2>7. line[k].value = reg[line[k].symbol]
    BY <2>4 DEF OwnEcho
  <2> QED
    BY <1>7, <2>3, <2>5, <2>6, <2>7 DEF OwnEcho
<1>8. ASSUME call' = Over
      PROVE  FALSE
  BY <1>8 DEF Over
<1>9. CASE Read
  <2>1. /\ here \in 1..Len(line) /\ Dropped(here) /\ reg' = reg
        /\ call.op \in {"set", "get"} /\ call.sent
    BY <1>9, Reading
  <2>2. j + here \in 2..Len(line) /\ line'[j] = line[j + here]
    BY <1>1, <2>1 DEF Dropped
  <2>3. Advance(line[1].value)
    BY <1>8, <1>9, Reading DEF Fail
  <2> QED
    BY <1>7, <2>1, <2>2, <2>3
<1>10. CASE ReadCut
  <2>1. /\ here \in Nat /\ here < Len(line) /\ CutAt(here) /\ reg' = reg
        /\ call.op \in {"set", "get"} /\ call.sent
    BY <1>10, ReadingCut
  <2>2. j # 1 /\ Len(line') = Len(line) - here
    BY <2>1 DEF CutAt
  <2>3. j \in 2..Len(line') /\ j + here \in 2..Len(line)
    BY <1>1, <2>1, <2>2
  <2>4. line'[j] = line[j + here]
    BY <2>1, <2>3 DEF CutAt
  <2>5. \E v \in CutValues : Advance(v)
    BY <1>8, <1>10, ReadingCut DEF Fail
  <2> QED
    BY <1>7, <2>1, <2>3, <2>4, <2>5
<1>11. CASE SendBare
  BY <1>11, BareSending
<1>12. CASE Refuse \/ TimeOut \/ EndBare
  BY <1>8, <1>12 DEF Refuse, TimeOut, EndBare, Fail
<1>13. CASE Arrive \/ UNCHANGED vars
  BY <1>3, <1>13 DEF Arrive, vars, motor
<1>14. CASE \/ \E s \in Settings : \E v \in Inputs[s] : CallSet(s, v)
            \/ \E s \in Settings : CallGet(s)
            \/ CallBare
  BY <1>4, <1>14 DEF CallSet, CallGet, CallBare
<1> QED
  BY <1>5, <1>6, <1>9, <1>10, <1>11, <1>12, <1>13, <1>14 DEF Next

\* An exchange of a set method is past when its echo has been accepted.
LEMMA NextSetPast ==
    TypeInv /\ TypeInv' /\ Fresh /\ SetLine /\ SetPast /\ [Next]_vars => SetPast'
<1> SUFFICES ASSUME TypeInv, TypeInv', Fresh, SetLine, SetPast, [Next]_vars,
                    call'.op = "set", left' <= 1, ~cut',
                    NEW i \in 1..(call'.at - 1)
             PROVE  reg'[SetSymbols[call'.of][i]] = Encode(call'.of, call'.value)[i]
  BY DEF SetPast
<1>1. left <= 1
  <2>1. left \in 0..2 /\ left' \in 0..2
    BY DEF TypeInv, TypeOK
  <2> QED
    BY <2>1, OtherTypes
<1>2. ASSUME call'.op = call.op, call'.of = call.of, call'.value = call.value,
             i \in 1..(call.at - 1), ~cut
      PROVE  reg[SetSymbols[call.of][i]] = Encode(call.of, call.value)[i]
  BY <1>1, <1>2 DEF SetPast
<1>3. CASE UNCHANGED <<call, reg, cut>>
  BY <1>2, <1>3
<1>4. ASSUME NEW op, NEW s, NEW v, NEW sound, Begin(op, s, v, sound)
      PROVE  FALSE
  <2>1. call' = [op |-> op, of |-> s, value |-> v, at |-> 1, sent |-> FALSE, got |-> <<>>]
    BY <1>4, Beginning
  <2>2. call'.at = 1
    BY <2>1
  <2> QED
    BY <2>2
<1>5. CASE Send
  <2>1. call' = [op |-> call.op, of |-> call.of, value |-> call.value,
                 at |-> call.at, sent |-> TRUE, got |-> call.got]
    BY <1>5, Sending
  <2>2. /\ call'.op = call.op /\ call'.of = call.of /\ call'.value = call.value
        /\ call'.at = call.at /\ call.op = "set" /\ cut' = cut
    BY <1>5, <2>1, Sending
  <2>3. reg[SetSymbols[call.of][i]] = Encode(call.of, call.value)[i]
    BY <1>2, <2>2
  <2>4. CASE reg' = reg
    BY <2>2, <2>3, <2>4
  <2>5. CASE reg' = [reg EXCEPT ![Symbol] = Value]
    <3>1. Symbol \in Symbols
      BY <2>2, Exchange
    <3> QED
      BY <2>2, <2>3, <2>5, <3>1, OtherRegisters
  <2> QED
    BY <1>5, <2>4, <2>5, Sending
<1>6. CASE call' = Over
  BY <1>6 DEF Over
<1>7. CASE Read /\ call' # Over
  <2>1. /\ here \in 1..Len(line) /\ reg' = reg /\ cut' = cut
        /\ call.op \in {"set", "get"} /\ call.sent
        /\ Accepted(here, line[1].value) /\ Advance(line[1].value)
    BY <1>7, Reading DEF Fail
  <2>2. call' = [op |-> call.op, of |-> call.of, value |-> call.value,
                 at |-> call.at + 1, sent |-> FALSE, got |-> call'.got]
    BY <1>7, <2>1, Advancing
  <2>3. /\ call'.op = call.op /\ call'.of = call.of /\ call'.value = call.value
        /\ call'.at = call.at + 1 /\ call.op = "set"
    BY <2>2
  <2>4. /\ call.at \in Nat
        /\ Symbol = SetSymbols[call.of][call.at]
        /\ Value = Encode(call.of, call.value)[call.at]
    BY <2>3, Exchange DEF Value
  <2>5. CASE i \in 1..(call.at - 1)
    BY <1>2, <2>1, <2>3, <2>5
  <2>6. CASE i = call.at
    <3>1. Len(line) >= 1
      <4>1. Len(line) \in Nat
        BY LenProperties DEF TypeInv
      <4> QED
        BY <2>1, <4>1
    <3>2. reg[Symbol] = Value
      BY <1>1, <2>1, <2>3, <3>1, AcceptedEcho
    <3> QED
      BY <2>1, <2>3, <2>4, <2>6, <3>2
  <2>7. i \in 1..(call.at - 1) \/ i = call.at
    BY <2>3, <2>4
  <2> QED
    BY <2>5, <2>6, <2>7
<1>8. CASE ReadCut
  BY <1>8, ReadingCut
<1>9. CASE SendBare
  BY <1>9, BareSending
<1>10. CASE Refuse \/ TimeOut \/ EndBare
  BY <1>6, <1>10 DEF Refuse, TimeOut, EndBare, Fail
<1>11. CASE Announce \/ Arrive \/ UNCHANGED vars
  BY <1>3, <1>11 DEF Announce, Arrive, vars, motor, history
<1>12. CASE \/ \E s \in Settings : \E v \in Inputs[s] : CallSet(s, v)
            \/ \E s \in Settings : CallGet(s)
            \/ CallBare
  BY <1>4, <1>12 DEF CallSet, CallGet, CallBare
<1> QED
  BY <1>5, <1>6, <1>7, <1>8, <1>9, <1>10, <1>11, <1>12 DEF Next

\* Nothing is known of a setting while it is being set.
LEMMA NextNotYetKnown == TypeInv /\ NotYetKnown /\ [Next]_vars => NotYetKnown'
<1> SUFFICES ASSUME TypeInv, NotYetKnown, [Next]_vars, call'.op = "set"
             PROVE  known'[call'.of] = Unknown
  BY DEF NotYetKnown
<1>1. DOMAIN known = Settings
  BY DEF TypeInv, TypeOK
<1>2. CASE call'.op = call.op /\ call'.of = call.of /\ known' = known
  BY <1>2 DEF NotYetKnown
<1>3. CASE call' = Over
  BY <1>3 DEF Over
<1>4. ASSUME NEW s \in Settings, NEW v \in Inputs[s], CallSet(s, v)
      PROVE  known'[call'.of] = Unknown
  <2>1. /\ call' = [op |-> "set", of |-> s, value |-> v, at |-> 1, sent |-> FALSE,
                    got |-> <<>>]
        /\ known' = [known EXCEPT ![s] = Unknown]
    BY <1>4, Beginning DEF CallSet
  <2>2. call'.of = s
    BY <2>1
  <2> QED
    BY <1>1, <2>1, <2>2
<1>5. CASE (\E s \in Settings : CallGet(s)) \/ CallBare
  BY <1>5 DEF CallGet, CallBare, Begin
<1>6. CASE Send
  <2>1. /\ call' = [op |-> call.op, of |-> call.of, value |-> call.value,
                    at |-> call.at, sent |-> TRUE, got |-> call.got]
        /\ known' = known
    BY <1>6, Sending
  <2> QED
    BY <1>2, <2>1
<1>7. CASE SendBare
  BY <1>7, BareSending
<1>8. ASSUME NEW v, Advance(v), call.op \in {"set", "get"}, call' # Over
      PROVE  known'[call'.of] = Unknown
  <2>1. /\ call' = [op |-> call.op, of |-> call.of, value |-> call.value,
                    at |-> call.at + 1, sent |-> FALSE, got |-> call'.got]
        /\ known' = known
    BY <1>8, Advancing
  <2>2. call'.op = call.op /\ call'.of = call.of
    BY <2>1
  <2> QED
    BY <1>2, <2>1, <2>2
<1>9. CASE Read
  BY <1>3, <1>8, <1>9, Reading DEF Fail
<1>10. CASE ReadCut
  BY <1>3, <1>8, <1>10, ReadingCut DEF Fail
<1>11. CASE Refuse \/ TimeOut \/ EndBare
  BY <1>3, <1>11 DEF Refuse, TimeOut, EndBare, Fail
<1>12. CASE Announce \/ Arrive \/ UNCHANGED vars
  BY <1>2, <1>12 DEF Announce, Arrive, vars, history
<1> QED
  BY <1>4, <1>5, <1>6, <1>7, <1>9, <1>10, <1>11, <1>12 DEF Next

\* What is known stays: other set methods write other registers.
LEMMA NextTook == TypeInv /\ TypeInv' /\ Fresh /\ TookInv /\ [Next]_vars => Took'
<1> SUFFICES ASSUME TypeInv, TypeInv', Fresh, TookInv, [Next]_vars,
                    left' <= 1, ~cut',
                    NEW s \in Settings, known'[s] # Unknown,
                    NEW i \in 1..Len(SetSymbols[s])
             PROVE  reg'[SetSymbols[s][i]] = Encode(s, known'[s])[i]
  BY DEF Took
<1>1. left <= 1
  <2>1. left \in 0..2 /\ left' \in 0..2
    BY DEF TypeInv, TypeOK
  <2> QED
    BY <2>1, OtherTypes
<1>2. DOMAIN known = Settings
  BY DEF TypeInv, TypeOK
<1>3. ~cut /\ known[s] # Unknown => reg[SetSymbols[s][i]] = Encode(s, known[s])[i]
  BY <1>1 DEF TookInv, Took
<1>4. CASE UNCHANGED <<reg, known, cut>>
  BY <1>3, <1>4
<1>5. ASSUME NEW t \in Settings, NEW v \in Inputs[t], CallSet(t, v)
      PROVE  reg'[SetSymbols[s][i]] = Encode(s, known'[s])[i]
  <2>1. UNCHANGED <<reg, cut>> /\ known' = [known EXCEPT ![t] = Unknown]
    BY <1>5, Beginning DEF CallSet
  <2>2. known'[s] = known[s]
    BY <1>2, <2>1
  <2> QED
    BY <1>3, <2>1, <2>2
<1>6. CASE (\E t \in Settings : CallGet(t)) \/ CallBare
  BY <1>4, <1>6, Beginning DEF CallGet, CallBare
<1>7. CASE Send
  <2>1. known' = known /\ cut' = cut
    BY <1>7, Sending
  <2>2. CASE call.op = "set" /\ reg' = [reg EXCEPT ![Symbol] = Value]
    <3>1. Symbol \in Symbols /\ known[call.of] = Unknown
      BY <2>2, Exchange DEF TookInv, NotYetKnown
    <3>2. s # call.of
      BY <2>1, <3>1
    <3> QED
      BY <1>3, <2>1, <2>2, <3>1, <3>2, OtherRegisters
  <2> QED
    BY <1>4, <1>7, <2>1, <2>2, Sending
<1>8. CASE Read
  <2>1. /\ here \in 1..Len(line) /\ UNCHANGED <<reg, cut>>
        /\ call.op \in {"set", "get"} /\ call.sent
    BY <1>8, Reading
  <2>2. CASE known' = known
    BY <1>4, <2>1, <2>2
  <2>3. CASE known' # known
    <3>1. Accepted(here, line[1].value) /\ Advance(line[1].value)
      BY <1>8, <2>3, Reading DEF Fail
    <3>2. /\ call.at = Len(AllSymbols) /\ call.op = "set"
          /\ known' = [known EXCEPT ![call.of] = call.value]
      BY <2>1, <2>3, <3>1, Advancing
    <3>3. CASE s # call.of
      <4>1. known'[s] = known[s]
        BY <1>2, <3>2, <3>3
      <4> QED
        BY <1>3, <2>1, <4>1
    <3>4. CASE s = call.of
      <4>1. known'[s] = call.value
        BY <1>2, <3>2, <3>4
      <4>2. /\ AllSymbols = SetSymbols[s] /\ call.at \in Nat
            /\ Symbol = SetSymbols[s][call.at]
            /\ Value = Encode(s, call.value)[call.at]
        BY <3>2, <3>4, Exchange DEF Value
      <4>3. Len(line) >= 1
        <5>1. Len(line) \in Nat
          BY LenProperties DEF TypeInv
        <5> QED
          BY <2>1, <5>1
      <4>4. reg[Symbol] = Value
        BY <1>1, <2>1, <3>1, <3>2, <4>3, AcceptedEcho DEF TookInv
      <4>5. CASE i = call.at
        BY <2>1, <4>1, <4>2, <4>4, <4>5
      <4>6. CASE i \in 1..(call.at - 1)
        <5>1. ~cut
          BY <2>1
        <5> QED
          BY <1>1, <2>1, <3>2, <3>4, <4>1, <4>6, <5>1 DEF TookInv, SetPast
      <4>7. i = call.at \/ i \in 1..(call.at - 1)
        BY <3>2, <4>2
      <4> QED
        BY <4>5, <4>6, <4>7
    <3> QED
      BY <3>3, <3>4
  <2> QED
    BY <2>2, <2>3
<1>9. CASE ReadCut
  BY <1>9, ReadingCut
<1>10. CASE Refuse \/ TimeOut
  BY <1>4, <1>10 DEF Refuse, TimeOut, Fail, motor
<1>11. CASE SendBare \/ EndBare \/ Announce \/ Arrive \/ UNCHANGED vars
  BY <1>4, <1>11 DEF SendBare, EndBare, Announce, Arrive, vars, motor, history
<1> QED
  BY <1>5, <1>6, <1>7, <1>8, <1>9, <1>10, <1>11 DEF Next

\* The four parts of TookInv together.
LEMMA NextTookInv == TypeInv /\ TypeInv' /\ Fresh /\ TookInv /\ [Next]_vars => TookInv'
  BY NextSetLine, NextSetPast, NextNotYetKnown, NextTook DEF TookInv

\* At first no call is in progress and nothing is known.
LEMMA InitTookInv == Init => TookInv
<1> SUFFICES ASSUME Init PROVE TookInv
  OBVIOUS
<1>1. call.op = "none" /\ \A s \in Settings : known[s] = Unknown
  BY DEF Init
<1> QED
  BY <1>1 DEF TookInv, SetLine, SetPast, NotYetKnown, Took

\* What set methods are known to have done stays done.
LEMMA TookInvariant == Spec => []TookInv
  BY InitTookInv, TypeInvariant, LatestIsFresh, NextTookInv, PTL DEF Spec

\* A set method that returns has taken effect and its value stays, although
\* commands are lost and answers come late, as long as no answer was cut and no
\* call ever found more than one left over (NanotecMotor.cc:65-93): for any
\* settings, arguments, numbers of late answers and of faults.
THEOREM SettingsTakeEffect == Spec => []SetTookEffect
<1>1. TookInv => SetTookEffect
  BY DEF TookInv, Took, SetTookEffect
<1> QED
  BY <1>1, TookInvariant, PTL

-----------------------------------------------------------------------------
(* A get method returns what was set.                                      *)

\* Only the last exchange of a set method changes what is known.
LEMMA KnownStep ==
    ASSUME TypeInv, [Next]_vars
    PROVE  \/ known' = known
           \/ \E s \in Settings : known' = [known EXCEPT ![s] = Unknown]
           \/ /\ call.op = "set" /\ call.of \in Settings \ Unsettable
              /\ call.value \in Inputs[call.of] /\ call' = Over /\ result' = Unknown
              /\ known' = [known EXCEPT ![call.of] = call.value]
<1>1. ASSUME NEW v, Advance(v), call.op \in {"set", "get"}, call.sent, known' # known
      PROVE  /\ call.op = "set" /\ call.of \in Settings \ Unsettable
             /\ call.value \in Inputs[call.of] /\ call' = Over /\ result' = Unknown
             /\ known' = [known EXCEPT ![call.of] = call.value]
  <2>1. /\ call.op = "set" /\ call' = Over /\ result' = Unknown
        /\ known' = [known EXCEPT ![call.of] = call.value]
    BY <1>1, Advancing
  <2>2. InBounds(Symbol, Value)
    BY <1>1, <2>1 DEF TypeInv
  <2> QED
    BY <2>1, <2>2, Exchange
<1>2. ASSUME NEW s \in Settings, NEW v \in Inputs[s], CallSet(s, v)
      PROVE  known' = [known EXCEPT ![s] = Unknown]
  BY <1>2 DEF CallSet
<1>3. CASE Read
  BY <1>1, <1>3, Reading DEF Fail
<1>4. CASE ReadCut
  <2>1. call.op \in {"set", "get"} /\ call.sent /\ (Fail \/ \E v \in CutValues : Advance(v))
    BY <1>4, ReadingCut
  <2> QED
    BY <1>1, <2>1 DEF Fail
<1>5. CASE \/ \E s \in Settings : CallGet(s)
           \/ CallBare \/ SendBare \/ EndBare \/ Announce \/ Refuse \/ Send \/ Arrive
           \/ TimeOut \/ UNCHANGED vars
  BY <1>5 DEF CallGet, CallBare, SendBare, EndBare, Announce, Refuse, Send, Arrive,
              TimeOut, Fail, vars, history
<1> QED
  BY <1>2, <1>3, <1>4, <1>5 DEF Next

\* Only arguments that are in their bounds become known.
LEMMA NextKnownInv == TypeInv /\ KnownInv /\ [Next]_vars => KnownInv'
<1> SUFFICES ASSUME TypeInv, KnownInv, [Next]_vars, NEW s \in Settings
             PROVE  /\ known'[s] \in Inputs[s] \cup {Unknown}
                    /\ s \in Unsettable => known'[s] = Unknown
  BY DEF KnownInv, NeverSet
<1>1. /\ DOMAIN known = Settings /\ known[s] \in Inputs[s] \cup {Unknown}
      /\ s \in Unsettable => known[s] = Unknown
  BY DEF TypeInv, TypeOK, KnownInv, NeverSet
<1>2. CASE known' = known
  BY <1>1, <1>2
<1>3. CASE \E t \in Settings : known' = [known EXCEPT ![t] = Unknown]
  BY <1>1, <1>3
<1>4. CASE /\ call.of \in Settings \ Unsettable /\ call.value \in Inputs[call.of]
           /\ known' = [known EXCEPT ![call.of] = call.value]
  BY <1>1, <1>4
<1> QED
  BY <1>2, <1>3, <1>4, KnownStep

\* What is known of a setting was an argument of its set method.
LEMMA KnownInvariant == Spec => []KnownInv
<1>1. Init => KnownInv
  BY DEF Init, KnownInv, NeverSet
<1> QED
  BY <1>1, TypeInvariant, NextKnownInv, PTL DEF Spec

\* What a read accepts is about a register that the motor has.
LEMMA AcceptedIsKnown ==
    ASSUME TypeInv, NEW n, NEW v, Accepted(n, v), 1 \in 1..Len(line)
    PROVE  Symbol \in Symbols
<1>1. line[1] \in Answers /\ line[1] # Junk /\ line[1].symbol = Symbol
  BY DEF TypeInv, Accepted
<1> QED
  BY <1>1, AnswerTypes

\* A get method that asks for an unknown name has no result.
LEMMA NextNeverRead == TypeInv /\ NeverRead /\ [Next]_vars => NeverRead'
<1> SUFFICES ASSUME TypeInv, NeverRead, [Next]_vars
             PROVE  NeverRead'
  OBVIOUS
<1>1. CASE result' = Unknown \/ UNCHANGED <<result, call>>
  BY <1>1 DEF NeverRead
<1>2. CASE InCall /\ result' = result
  BY <1>1, <1>2 DEF TypeInv, CallOK
<1>3. ASSUME NEW n, NEW v, Accepted(n, v), Advance(v), 1 \in 1..Len(line),
             call.op \in {"set", "get"}
      PROVE  NeverRead'
  <2>1. CASE call.op = "get" /\ call.at = Len(AllSymbols) /\ call' = Over
    <3>1. /\ AllSymbols = GetSymbols[call.of] /\ Symbol = AllSymbols[call.at]
          /\ Symbol = SetSymbols[call.of][call.at]
      BY <1>3, <2>1, Exchange, AcceptedIsKnown
    <3>2. call.of # "feed"
      <4>1. call.of = "feed" => call.at = 2
        BY <1>3, <2>1, Exchange, Lengths DEF Double
      <4> QED
        BY <3>1, <4>1 DEF GetSymbols, SetSymbols
    <3>3. call.of # "input_a"
      BY <2>1, <3>1 DEF GetSymbols, SetSymbols
    <3>4. call'.of = call.of
      BY <2>1 DEF Over
    <3> QED
      BY <3>2, <3>3, <3>4 DEF NeverRead, Unreadable
  <2> QED
    BY <1>1, <1>3, <2>1, Advancing
<1>4. CASE Read
  <2>1. 1 \in 1..Len(line) /\ call.op \in {"set", "get"}
    BY <1>4, Reading
  <2> QED
    BY <1>2, <1>3, <1>4, <2>1, Reading DEF Fail, InCall
<1>5. CASE ReadCut
  <2>1. 1 \in 1..Len(line) /\ call.op \in {"set", "get"}
    BY <1>5, ReadingCut
  <2>2. PICK v \in CutValues : IF Accepted(here + 1, v) THEN Advance(v) ELSE Fail
    BY <1>5 DEF ReadCut
  <2> QED
    BY <1>2, <1>3, <2>1, <2>2 DEF Fail, InCall
<1>6. CASE \/ \E s \in Settings : \E v \in Inputs[s] : CallSet(s, v)
           \/ \E s \in Settings : CallGet(s)
           \/ CallBare
  BY <1>1, <1>6 DEF CallSet, CallGet, CallBare, Begin
<1>7. CASE Refuse \/ Send \/ SendBare \/ TimeOut \/ EndBare
  BY <1>2, <1>7 DEF Refuse, Send, SendBare, TimeOut, EndBare, Fail, InCall
<1>8. CASE Announce \/ Arrive \/ UNCHANGED vars
  BY <1>1, <1>8 DEF Announce, Arrive, vars
<1> QED
  BY <1>4, <1>5, <1>6, <1>7, <1>8 DEF Next

\* Four methods never succeed, whatever they are asked and whatever arrives: the
\* set methods of the polarities and of the outputs, whose upper bound 4294967295
\* is -1 as an int (NanotecMotor.cc:453, 504), and the get methods of the feed
\* constant and of an input, which ask for a name that the motor does not have
\* (NanotecMotor.cc:318, 406).
THEOREM BrokenMethodsNeverSucceed == Spec => []BrokenMethodsFail
<1>1. Init => NeverRead
  BY DEF Init, NeverRead
<1>2. KnownInv /\ NeverRead => BrokenMethodsFail
  BY DEF KnownInv, NeverSet, NeverRead, BrokenMethodsFail
<1> QED
  BY <1>1, <1>2, TypeInvariant, KnownInvariant, NextNeverRead, PTL DEF Spec

\* A get method changes no register and finds one answer left over at most, the
\* latest about its register.
LEMMA NextGetLine == TypeInv /\ TypeInv' /\ Fresh /\ GetLine /\ [Next]_vars => GetLine'
<1> SUFFICES ASSUME TypeInv, TypeInv', Fresh, GetLine, [Next]_vars,
                    call'.op = "get", left' <= 1,
                    NEW j \in 1..Len(line'), line'[j] # Junk
             PROVE  line'[j].value = reg'[line'[j].symbol]
  BY DEF GetLine
<1>1. /\ Len(line) \in Nat /\ Len(line') \in Nat /\ here \in 0..Len(line) /\ left <= 1
  <2>1. Len(line) \in Nat /\ Len(line') \in Nat
    BY LenProperties DEF TypeInv
  <2>2. here \in 0..Len(line) /\ left \in 0..2 /\ left' \in 0..2
    BY DEF TypeInv, TypeOK
  <2>3. left <= left'
    BY OtherTypes
  <2> QED
    BY <2>1, <2>2, <2>3
<1>2. ASSUME call.op = "get", reg' = reg, NEW k \in 1..Len(line), line'[j] = line[k]
      PROVE  line'[j].value = reg'[line'[j].symbol]
  BY <1>1, <1>2 DEF GetLine
<1>3. ASSUME NEW op, NEW s, NEW v, NEW sound, Begin(op, s, v, sound)
      PROVE  line'[j].value = reg'[line'[j].symbol]
  <2>1. line' = line /\ reg' = reg /\ Len(line) <= 1
    BY <1>3, Beginning
  <2>2. j \in 1..Len(line) /\ line[j] # Junk /\ j = 1
    BY <1>1, <2>1
  <2>3. \A k : k \notin (j + 1)..Len(line)
    BY <1>1, <2>1, <2>2
  <2> QED
    BY <2>1, <2>2, <2>3 DEF Fresh
<1>4. CASE Send
  <2>1. call' = [op |-> call.op, of |-> call.of, value |-> call.value,
                 at |-> call.at, sent |-> TRUE, got |-> call.got]
    BY <1>4, Sending
  <2>2. call.op = "get"
    BY <2>1
  <2>3. CASE line' = line /\ reg' = reg
    BY <1>2, <2>2, <2>3
  <2>4. ASSUME NEW a, Appended(a), reg' = reg, a = Junk \/ a.value = reg[a.symbol]
        PROVE  line'[j].value = reg'[line'[j].symbol]
    <3>1. CASE j \in 1..Len(line)
      BY <1>2, <2>2, <2>4, <3>1 DEF Appended
    <3>2. CASE j = Len(line) + 1
      BY <2>4, <3>2 DEF Appended
    <3>3. j \in 1..Len(line) \/ j = Len(line) + 1
      BY <1>1, <2>4 DEF Appended
    <3> QED
      BY <3>1, <3>2, <3>3
  <2>5. CASE Appended(Junk) /\ reg' = reg
    BY <2>4, <2>5
  <2>6. CASE Appended(Report(Symbol, reg[Symbol])) /\ reg' = reg
    <3>1. Report(Symbol, reg[Symbol]).value = reg[Report(Symbol, reg[Symbol]).symbol]
      BY DEF Report
    <3> QED
      BY <2>4, <2>6, <3>1
  <2> QED
    BY <1>4, <2>2, <2>3, <2>5, <2>6, Sending
<1>5. CASE Announce
  <2>1. Appended(Junk) /\ UNCHANGED <<call, reg>>
    BY <1>5, AnswerTypes, Adding DEF Announce, motor, TypeInv
  <2>2. j \in 1..Len(line) /\ line'[j] = line[j]
    <3>1. j \in 1..Len(line) \/ j = Len(line) + 1
      BY <1>1, <2>1 DEF Appended
    <3> QED
      BY <2>1, <3>1 DEF Appended
  <2> QED
    BY <1>2, <2>1, <2>2
<1>6. CASE call' = Over
  BY <1>6 DEF Over
<1>7. ASSUME NEW v, Advance(v), call.op \in {"set", "get"}
      PROVE  call.op = "get"
  <2>1. call' = [op |-> call.op, of |-> call.of, value |-> call.value,
                 at |-> call.at + 1, sent |-> FALSE, got |-> call'.got] \/ call' = Over
    BY <1>7, Advancing
  <2> QED
    BY <1>6, <2>1 DEF Over
<1>8. CASE Read
  <2>1. /\ here \in 1..Len(line) /\ Dropped(here) /\ reg' = reg
        /\ call.op \in {"set", "get"}
    BY <1>8, Reading
  <2>2. j + here \in 1..Len(line) /\ line'[j] = line[j + here]
    BY <1>1, <2>1 DEF Dropped
  <2>3. call.op = "get"
    BY <1>6, <1>7, <1>8, <2>1, Reading DEF Fail, Over
  <2> QED
    BY <1>2, <2>1, <2>2, <2>3
<1>9. CASE ReadCut
  <2>1. /\ here \in Nat /\ here < Len(line) /\ CutAt(here) /\ reg' = reg
        /\ call.op \in {"set", "get"} /\ (Fail \/ \E v \in CutValues : Advance(v))
    BY <1>9, ReadingCut
  <2>2. j # 1 /\ Len(line') = Len(line) - here
    BY <2>1 DEF CutAt
  <2>3. j \in 2..Len(line') /\ j + here \in 1..Len(line)
    BY <1>1, <2>1, <2>2
  <2>4. line'[j] = line[j + here]
    BY <2>1, <2>3 DEF CutAt
  <2>5. call.op = "get"
    BY <1>7, <2>1 DEF Fail, Over
  <2> QED
    BY <1>2, <2>1, <2>3, <2>4, <2>5
<1>10. CASE SendBare
  BY <1>10, BareSending
<1>11. CASE Refuse \/ TimeOut \/ EndBare
  BY <1>6, <1>11 DEF Refuse, TimeOut, EndBare, Fail
<1>12. CASE Arrive \/ UNCHANGED vars
  BY <1>2, <1>12 DEF Arrive, vars, motor
<1>13. CASE \/ \E s \in Settings : \E v \in Inputs[s] : CallSet(s, v)
            \/ \E s \in Settings : CallGet(s)
            \/ CallBare
  BY <1>3, <1>13 DEF CallSet, CallGet, CallBare
<1> QED
  BY <1>4, <1>5, <1>8, <1>9, <1>10, <1>11, <1>12, <1>13 DEF Next

\* What a getter accepts is what its register has.
LEMMA AcceptedReport ==
    ASSUME TypeInv, GetLine, left <= 1, call.op = "get",
           NEW n, Accepted(n, line[1].value), Len(line) >= 1
    PROVE  Symbol \in Symbols /\ line[1].value = reg[Symbol]
<1>1. line[1] # Junk /\ line[1].symbol = Symbol
  BY DEF Accepted
<1>2. 1 \in 1..Len(line) /\ line \in Seq(Answers)
  BY LenProperties DEF TypeInv
<1>3. line[1] \in Answers
  BY <1>2, ElementOfSeq
<1> QED
  BY <1>1, <1>2, <1>3, AnswerTypes DEF GetLine

\* What a getter has read stays true: a get method writes nothing.
LEMMA NextGetPast ==
    TypeInv /\ TypeInv' /\ GetLine /\ GetPast /\ [Next]_vars => GetPast'
<1> SUFFICES ASSUME TypeInv, TypeInv', GetLine, GetPast, [Next]_vars,
                    call'.op = "get", left' <= 1, ~cut',
                    NEW i \in 1..(call'.at - 1)
             PROVE  /\ GetSymbols[call'.of][i] \in Symbols
                    /\ call'.got[i] = reg'[GetSymbols[call'.of][i]]
  BY DEF GetPast
<1>1. left <= 1
  <2>1. left \in 0..2 /\ left' \in 0..2
    BY DEF TypeInv, TypeOK
  <2> QED
    BY <2>1, OtherTypes
<1>2. ASSUME call.op = "get", call'.of = call.of, reg' = reg, cut' = cut,
             i \in 1..(call.at - 1), call'.got[i] = call.got[i]
      PROVE  /\ GetSymbols[call'.of][i] \in Symbols
             /\ call'.got[i] = reg'[GetSymbols[call'.of][i]]
  BY <1>1, <1>2 DEF GetPast
<1>3. CASE UNCHANGED <<call, reg, cut>>
  BY <1>2, <1>3
<1>4. ASSUME NEW op, NEW s, NEW v, NEW sound, Begin(op, s, v, sound)
      PROVE  FALSE
  <2>1. call' = [op |-> op, of |-> s, value |-> v, at |-> 1, sent |-> FALSE, got |-> <<>>]
    BY <1>4, Beginning
  <2>2. call'.at = 1
    BY <2>1
  <2> QED
    BY <2>2
<1>5. CASE Send
  <2>1. call' = [op |-> call.op, of |-> call.of, value |-> call.value,
                 at |-> call.at, sent |-> TRUE, got |-> call.got]
    BY <1>5, Sending
  <2>2. /\ call'.op = call.op /\ call'.of = call.of /\ call'.got = call.got
        /\ call'.at = call.at /\ call.op = "get"
    BY <2>1
  <2>3. reg' = reg /\ cut' = cut
    BY <1>5, <2>2, Sending
  <2> QED
    BY <1>2, <2>2, <2>3
<1>6. CASE call' = Over
  BY <1>6 DEF Over
<1>7. CASE Read /\ call' # Over
  <2>1. /\ here \in 1..Len(line) /\ reg' = reg /\ cut' = cut
        /\ call.op \in {"set", "get"}
        /\ Accepted(here, line[1].value) /\ Advance(line[1].value)
    BY <1>7, Reading DEF Fail
  <2>2. /\ call' = [op |-> call.op, of |-> call.of, value |-> call.value,
                    at |-> call.at + 1, sent |-> FALSE, got |-> call'.got]
        /\ call'.got = [k \in 1..call.at |->
                           IF k < call.at THEN call.got[k] ELSE line[1].value]
    BY <1>7, <2>1, Advancing
  <2>3. /\ call'.op = call.op /\ call'.of = call.of
        /\ call'.at = call.at + 1 /\ call.op = "get"
    BY <2>2
  <2>4. call.at \in Nat /\ Symbol = GetSymbols[call.of][call.at]
    BY <2>3, Exchange
  <2>5. CASE i \in 1..(call.at - 1)
    <3>1. call'.got[i] = call.got[i]
      BY <2>2, <2>4, <2>5
    <3> QED
      BY <1>2, <2>1, <2>3, <2>5, <3>1
  <2>6. CASE i = call.at
    <3>1. Len(line) >= 1
      <4>1. Len(line) \in Nat
        BY LenProperties DEF TypeInv
      <4> QED
        BY <2>1, <4>1
    <3>2. Symbol \in Symbols /\ line[1].value = reg[Symbol]
      BY <1>1, <2>1, <2>3, <3>1, AcceptedReport
    <3>3. i \in 1..call.at /\ ~(i < call.at)
      BY <2>4, <2>6, <2>3
    <3>4. call'.got[i] = line[1].value
      BY <2>2, <3>3
    <3> QED
      BY <2>1, <2>3, <2>4, <2>6, <3>2, <3>4
  <2>7. i \in 1..(call.at - 1) \/ i = call.at
    BY <2>3, <2>4
  <2> QED
    BY <2>5, <2>6, <2>7
<1>8. CASE ReadCut
  BY <1>8, ReadingCut
<1>9. CASE SendBare
  BY <1>9, BareSending
<1>10. CASE Refuse \/ TimeOut \/ EndBare
  BY <1>6, <1>10 DEF Refuse, TimeOut, EndBare, Fail
<1>11. CASE Announce \/ Arrive \/ UNCHANGED vars
  BY <1>3, <1>11 DEF Announce, Arrive, vars, motor, history
<1>12. CASE \/ \E s \in Settings : \E v \in Inputs[s] : CallSet(s, v)
            \/ \E s \in Settings : CallGet(s)
            \/ CallBare
  BY <1>4, <1>12 DEF CallSet, CallGet, CallBare
<1> QED
  BY <1>5, <1>6, <1>7, <1>8, <1>9, <1>10, <1>11, <1>12 DEF Next

\* The values that all the exchanges of a get method have read are what was
\* written of the argument that is known, and are decoded to it.
LEMMA DecodedAsSet ==
    ASSUME TypeInv, TookInv, KnownInv, GetLine, GetPast, left <= 1, ~cut,
           call.op = "get", call.at = Len(AllSymbols), known[call.of] # Unknown,
           NEW n, Accepted(n, line[1].value), Len(line) >= 1
    PROVE  Decode(call.of, [i \in 1..call.at |->
                IF i < call.at THEN call.got[i] ELSE line[1].value]) = known[call.of]
<1> DEFINE s == call.of
           v == known[s]
           g == [i \in 1..call.at |-> IF i < call.at THEN call.got[i] ELSE line[1].value]
<1>1. /\ s \in Settings /\ s \in DOMAIN GetSymbols /\ AllSymbols = GetSymbols[s]
      /\ call.at = Len(SetSymbols[s]) /\ call.at \in {1, 2}
      /\ Symbol = GetSymbols[s][call.at]
  BY Exchange
<1>2. v \in Inputs[s] /\ s \notin Unsettable
  BY <1>1 DEF KnownInv, NeverSet
<1>3. \A i \in 1..Len(SetSymbols[s]) : reg[SetSymbols[s][i]] = Encode(s, v)[i]
  BY <1>1 DEF TookInv, Took
<1>4. Symbol \in Symbols /\ line[1].value = reg[Symbol]
  BY AcceptedReport
<1>5. \A i \in 1..(call.at - 1) : /\ GetSymbols[s][i] \in Symbols
                                  /\ call.got[i] = reg[GetSymbols[s][i]]
  BY DEF GetPast
<1> HIDE DEF s, v
<1>6. ASSUME NEW i \in 1..call.at
      PROVE  g[i] = Encode(s, v)[i]
  <2>1. GetSymbols[s][i] = SetSymbols[s][i] \/ GetSymbols[s][i] \notin Symbols
    BY <1>1, GetNames
  <2>2. CASE i < call.at
    <3>1. i \in 1..(call.at - 1)
      BY <1>1, <2>2
    <3> QED
      BY <1>1, <1>3, <1>5, <2>1, <2>2, <3>1
  <2>3. CASE ~(i < call.at)
    <3>1. i = call.at
      BY <1>1, <2>3
    <3> QED
      BY <1>1, <1>3, <1>4, <2>1, <2>3, <3>1
  <2> QED
    BY <2>2, <2>3
<1>7. g = [i \in 1..Len(SetSymbols[s]) |-> Encode(s, v)[i]]
  BY <1>1, <1>6
<1> HIDE DEF g
<1>8. Decode(s, g) = v
  BY <1>1, <1>2, <1>7, Restored
<1> QED
  BY <1>8 DEF s, v, g

\* The last exchange of a get method returns what is known.
LEMMA NextReadsBack ==
    TypeInv /\ TypeInv' /\ TookInv /\ KnownInv /\ BackInv /\ [Next]_vars => ReadsBack'
<1> SUFFICES ASSUME TypeInv, TypeInv', TookInv, KnownInv, BackInv, [Next]_vars,
                    left' <= 1, ~cut', outcome' = "ok", result' # Unknown
             PROVE  known'[call'.of] \in {Unknown, result'}
  BY DEF ReadsBack
<1>1. left <= 1
  <2>1. left \in 0..2 /\ left' \in 0..2
    BY DEF TypeInv, TypeOK
  <2> QED
    BY <2>1, OtherTypes
<1>2. CASE UNCHANGED <<call, outcome, result, known, cut>>
  BY <1>1, <1>2 DEF BackInv, ReadsBack
<1>3. ASSUME NEW op, NEW s, NEW v, NEW sound, Begin(op, s, v, sound)
      PROVE  FALSE
  BY <1>3 DEF Begin
<1>4. CASE InCall /\ result' = result
  BY <1>4 DEF TypeInv, CallOK
<1>5. CASE outcome' = "threw"
  BY <1>5
<1>6. CASE Read
  <2>1. /\ here \in 1..Len(line) /\ cut' = cut
        /\ call.op \in {"set", "get"}
        /\ Accepted(here, line[1].value) /\ Advance(line[1].value)
    BY <1>6, Reading DEF Fail
  <2>2. /\ call.at = Len(AllSymbols) /\ call.op = "get" /\ call' = Over /\ known' = known
        /\ result' = Decode(call.of, [i \in 1..call.at |->
                            IF i < call.at THEN call.got[i] ELSE line[1].value])
    BY <2>1, Advancing
  <2>3. call'.of = call.of
    BY <2>2 DEF Over
  <2>4. Len(line) >= 1
    <3>1. Len(line) \in Nat
      BY LenProperties DEF TypeInv
    <3> QED
      BY <2>1, <3>1
  <2>5. ~cut /\ GetLine /\ GetPast
    BY <2>1 DEF BackInv
  <2>6. known[call.of] # Unknown => result' = known[call.of]
    BY <1>1, <2>1, <2>2, <2>4, <2>5, DecodedAsSet
  <2> QED
    BY <2>2, <2>3, <2>6
<1>7. CASE ReadCut
  BY <1>7, ReadingCut
<1>8. CASE Send \/ SendBare \/ EndBare
  BY <1>4, <1>8 DEF Send, SendBare, EndBare, InCall
<1>9. CASE Refuse \/ TimeOut
  BY <1>5, <1>9 DEF Refuse, TimeOut, Fail
<1>10. CASE Announce \/ Arrive \/ UNCHANGED vars
  BY <1>2, <1>10 DEF Announce, Arrive, vars, history
<1>11. CASE \/ \E s \in Settings : \E v \in Inputs[s] : CallSet(s, v)
            \/ \E s \in Settings : CallGet(s)
            \/ CallBare
  BY <1>3, <1>11 DEF CallSet, CallGet, CallBare
<1> QED
  BY <1>6, <1>7, <1>8, <1>9, <1>10, <1>11 DEF Next

\* The three parts of BackInv together.
LEMMA NextBackInv ==
    TypeInv /\ TypeInv' /\ Fresh /\ TookInv /\ KnownInv /\ BackInv /\ [Next]_vars => BackInv'
  BY NextGetLine, NextGetPast, NextReadsBack DEF BackInv

\* What a get method returns is what the last set method of that setting put
\* there, in the same condition (NanotecMotor.cc:124-156, 226-257, 671-681).
THEOREM SettingsReadBack == Spec => []ReadsBack
<1>1. Init => BackInv
  BY DEF Init, BackInv, GetLine, GetPast, ReadsBack
<1>2. BackInv => ReadsBack
  BY DEF BackInv
<1> QED
  BY <1>1, <1>2, TypeInvariant, LatestIsFresh, TookInvariant, KnownInvariant, NextBackInv,
     PTL DEF Spec

-----------------------------------------------------------------------------
(* A method that is asked what it may be asked fails for a reason.         *)

\* Every value that the set method of such a setting writes is in its bounds if
\* it is when its register is not a word of bits: of these there are only the
\* behaviours of the limit switches.
LEMMA SoundArguments ==
    ASSUME NEW s \in Settings \ Broken, NEW v \in Inputs[s],
           \A i \in 1..Len(Encode(s, v)) :
              SetSymbols[s][i] \in Masks \/ InBounds(SetSymbols[s][i], Encode(s, v)[i])
    PROVE  \A i \in 1..Len(SetSymbols[s]) : InBounds(SetSymbols[s][i], Encode(s, v)[i])
<1> SUFFICES ASSUME NEW i \in 1..Len(SetSymbols[s]), SetSymbols[s][i] \in Masks
             PROVE  InBounds(SetSymbols[s][i], Encode(s, v)[i])
  BY Written
<1>1. Len(SetSymbols[s]) \in {1, 2} /\ (s \in Single => Len(SetSymbols[s]) = 1)
  BY Lengths
<1>2. i = 1 \/ i = 2
  BY <1>1
<1>3. CASE s \in Double
  <2>1. Owner(SetSymbols[s][i]) = <<s, i>>
    BY <1>2, <1>3, Owners
  <2>2. /\ Owner("l") = <<"limits", 1>> /\ Owner("h") = <<"polarity", 1>>
        /\ Owner("Y") = <<"outputs", 1>>
    BY DEF Owner
  <2> QED
    BY <1>3, <2>1, <2>2 DEF Masks, Double
<1>4. CASE s \in Single
  <2>1. i = 1
    <3>1. Len(SetSymbols[s]) = 1
      BY <1>4, Lengths
    <3> QED
      BY <3>1
  <2>2. s = "limits" /\ SetSymbols[s][1] = "l"
    BY <1>4, <2>1 DEF SetSymbols, Single, Masks, Broken, Unsettable, Unreadable
  <2>3. v \in Behaviours /\ Encode(s, v)[1] = EncodeLimits(v)
    BY <2>2, Written
  <2> QED
    BY <2>1, <2>2, <2>3, LimitBounds
<1> QED
  BY <1>3, <1>4, Lengths

\* The new address is the last thing that is written.
LEMMA AddressLast ==
    ASSUME TypeInv, call.op = "set", Symbol = "m"
    PROVE  call.at = Len(AllSymbols)
<1>1. /\ call.of \in Settings /\ call.at \in 1..Len(SetSymbols[call.of])
      /\ AllSymbols = SetSymbols[call.of] /\ SetSymbols[call.of][call.at] = "m"
  BY Exchange
<1>2. Owner("m") = <<"address", 1>>
  BY DEF Owner
<1>3. CASE call.of \in Single
  <2>1. Len(SetSymbols[call.of]) = 1
    BY <1>3, Lengths
  <2> QED
    BY <1>1, <2>1
<1>4. CASE call.of \in Double
  <2>1. Len(SetSymbols[call.of]) = 2
    BY <1>4, Lengths
  <2>2. call.at \in 1..2
    BY <1>1, <2>1
  <2>3. Owner(SetSymbols[call.of][call.at]) = <<call.of, call.at>>
    BY <1>4, <2>2, Owners
  <2>4. call.of = "address"
    BY <1>1, <1>2, <2>3
  <2> QED
    BY <1>4, <2>4 DEF Double
<1> QED
  BY <1>1, <1>3, <1>4, Lengths

\* No register ever has the value that stands for not knowing.
LEMMA RegistersKnown ==
    ASSUME TypeInv, [Next]_vars, \A x \in Symbols : reg[x] # Unknown
    PROVE  \A x \in Symbols : reg'[x] # Unknown
<1>1. DOMAIN reg = Symbols
  BY DEF TypeInv, TypeOK
<1>2. CASE reg' = reg
  BY <1>2
<1>3. CASE Send
  <2>1. CASE call.op = "set" /\ reg' = [reg EXCEPT ![Symbol] = Value]
    <3>1. InBounds(Symbol, Value)
      BY <1>3, <2>1, Sending
    <3>2. Symbol \in Symbols /\ Value # Unknown
      BY <2>1, <3>1, Exchange
    <3> QED
      BY <1>1, <2>1, <3>2
  <2> QED
    BY <1>2, <1>3, <2>1, Sending
<1> QED
  BY <1>2, <1>3 DEF Next, vars, motor, CallSet, CallGet, CallBare, Begin, SendBare, EndBare,
     Announce, Refuse, Arrive, TimeOut, Read, ReadCut

\* Without an excuse the answer is there and is what was asked for.
LEMMA SmoothRead ==
    ASSUME TypeInv, Smooth, Read, ~excused, call.of \notin Broken
    PROVE  /\ Accepted(here, line[1].value) /\ Advance(line[1].value)
           /\ line' = <<>>
           /\ call.at < Len(AllSymbols) => address = Id
<1>1. /\ call.op \in {"set", "get"} /\ call.sent /\ here \in 1..Len(line) /\ Dropped(here)
  BY Reading
<1>2. /\ Len(line) = 1 /\ OwnAnswer(line[1])
      /\ call.at < Len(AllSymbols) => address = Id
  BY <1>1 DEF Smooth, InCall
<1>3. here = 1
  BY <1>1, <1>2
<1>4. line' = <<>>
  <2>1. line' \in Seq(Answers) /\ Len(line') = 0
    BY <1>1, <1>2, <1>3 DEF Dropped
  <2> QED
    BY <2>1, EmptySeq
<1>5. 1 \in 1..Len(line) /\ line \in Seq(Answers)
  BY <1>2 DEF TypeInv
<1>6. Junk.kind = "junk"
  BY DEF Junk
<1>7. CASE call.op = "set"
  <2>1. line[1] \in Echoes(Symbol, Value) /\ line[1].value # Unknown
    BY <1>2, <1>7 DEF OwnAnswer
  <2>2. PICK k \in IF Symbol \in Colon THEN {"set", "get"} ELSE {"set"} :
               line[1] = [kind |-> k, symbol |-> Symbol, value |-> Value]
    BY <2>1 DEF Echoes
  <2>3. line[1].kind = k /\ line[1].symbol = Symbol /\ line[1].value = Value
    BY <2>2
  <2>4. k \in {"set", "get"} /\ (k = "get" => Symbol \in Colon)
    BY <2>2
  <2>5. Accepted(here, line[1].value)
    BY <1>3, <1>6, <1>7, <2>1, <2>3, <2>4 DEF Accepted
  <2> QED
    BY <1>2, <1>4, <2>5 DEF Read
<1>8. CASE call.op = "get"
  <2>1. line[1] = Report(Symbol, reg[Symbol]) /\ line[1].value # Unknown
    BY <1>2, <1>8 DEF OwnAnswer
  <2>2. line[1].kind = "get" /\ line[1].symbol = Symbol
    BY <2>1 DEF Report
  <2>3. Accepted(here, line[1].value)
    BY <1>6, <1>8, <2>1, <2>2 DEF Accepted
  <2> QED
    BY <1>2, <1>4, <2>3 DEF Read
<1> QED
  BY <1>1, <1>7, <1>8

\* A call that is given no reason to fail goes on without one.
LEMMA NextSmooth ==
    ASSUME TypeInv, TypeInv', SoundInv, [Next]_vars
    PROVE  Smooth'
<1>1. /\ Smooth /\ \A x \in Symbols : reg[x] # Unknown
      /\ DOMAIN reg = Symbols
  BY DEF SoundInv, TypeInv, TypeOK
<1>2. CASE ~InCall' \/ excused'
  BY <1>2 DEF Smooth
<1>3. ASSUME NEW op \in {"set", "get"}, NEW s \in Settings, NEW v, NEW sound,
             Begin(op, s, v, sound),
             op = "set" =>
                /\ v \in Inputs[s]
                /\ sound = (/\ Permitted(s, v)
                            /\ \A i \in 1..Len(Encode(s, v)) :
                                  \/ SetSymbols[s][i] \in Masks
                                  \/ InBounds(SetSymbols[s][i], Encode(s, v)[i]))
      PROVE  Smooth'
  <2>1. /\ call' = [op |-> op, of |-> s, value |-> v, at |-> 1, sent |-> FALSE, got |-> <<>>]
        /\ UNCHANGED <<line, address, partial>>
        /\ ~excused' => sound /\ line = <<>> /\ address = Id /\ ~partial
    BY <1>3, Beginning
  <2>2. call'.op = op /\ call'.of = s /\ call'.value = v /\ call'.sent = FALSE
    BY <2>1
  <2>3. op = "set" /\ ~excused' /\ s \notin Broken =>
           /\ Permitted(s, v)
           /\ \A i \in 1..Len(SetSymbols[s]) : InBounds(SetSymbols[s][i], Encode(s, v)[i])
    BY <1>3, <2>1, SoundArguments
  <2>4. op = "set" => AllSymbols' = SetSymbols[s]
    BY <2>2 DEF AllSymbols
  <2> QED
    BY <2>1, <2>2, <2>3, <2>4 DEF Smooth
<1>4. CASE (Read \/ Send) /\ ~excused' /\ InCall' /\ call.of \in Broken
  <2>1. call.op \in {"set", "get"} /\ call'.op = call.op /\ call'.of = call.of
    <3>1. CASE Send
      BY <1>4, <3>1, Sending
    <3>2. CASE Read
      <4>1. call' # Over
        BY <1>4 DEF Over, InCall
      <4>2. call.op \in {"set", "get"} /\ Advance(line[1].value)
        BY <3>2, <4>1, Reading DEF Fail
      <4>3. call' = [op |-> call.op, of |-> call.of, value |-> call.value,
                     at |-> call.at + 1, sent |-> FALSE, got |-> call'.got]
        BY <4>1, <4>2, Advancing
      <4>4. call'.op = call.op /\ call'.of = call.of
        BY <4>3
      <4> QED
        BY <4>2, <4>4
    <3> QED
      BY <1>4, <3>1, <3>2
  <2> QED
    BY <1>4, <2>1 DEF Smooth
<1>5. CASE Send /\ ~excused' /\ call.of \notin Broken
  <2>1. /\ call' = [op |-> call.op, of |-> call.of, value |-> call.value,
                    at |-> call.at, sent |-> TRUE, got |-> call.got]
        /\ call.op \in {"set", "get"} /\ ~call.sent
        /\ call.op = "set" => InBounds(Symbol, Value)
    BY <1>5, Sending
  <2>2. /\ call'.op = call.op /\ call'.of = call.of /\ call'.value = call.value
        /\ call'.at = call.at /\ call'.sent = TRUE
    BY <2>1
  <2>3. AllSymbols' = AllSymbols /\ Symbol' = Symbol /\ Value' = Value
    BY <2>2 DEF AllSymbols, Symbol, Value
  <2>4. ~excused /\ ~partial'
    BY <1>5 DEF Send, motor
  <2>5. /\ line = <<>> /\ address = Id /\ ~partial
        /\ call.op = "set" =>
              /\ Permitted(call.of, call.value)
              /\ \A i \in 1..Len(AllSymbols) :
                    InBounds(AllSymbols[i], Encode(call.of, call.value)[i])
    BY <1>1, <1>5, <2>1, <2>4 DEF Smooth, InCall
  <2>6. Len(line) = 0
    BY <2>5
  <2>7. ASSUME NEW a, Appended(a), a.value # Unknown,
               a \in IF call.op = "set" THEN Echoes(Symbol, Value)
                     ELSE {Report(Symbol, reg'[Symbol])},
               call.at < Len(AllSymbols) => address' = Id
        PROVE  Smooth'
    <3>1. Len(line') = 1 /\ line'[1] = a
      BY <2>6, <2>7 DEF Appended
    <3>2. OwnAnswer(line[1])'
      BY <2>2, <2>3, <2>7, <3>1 DEF OwnAnswer, Echoes, Report
    <3> QED
      BY <2>1, <2>2, <2>3, <2>4, <2>5, <2>7, <3>1, <3>2 DEF Smooth
  <2>8. CASE /\ call.op = "set" /\ \E a \in Echoes(Symbol, Value) : Appended(a)
             /\ address' = IF Symbol = "m" THEN Value ELSE address
    <3>1. PICK a \in Echoes(Symbol, Value) : Appended(a)
      BY <2>8
    <3>2. Symbol \in Symbols /\ Value \in ValueOf(Symbol) /\ Value # Unknown
      BY <2>1, <2>8, Exchange
    <3>3. a.value # Unknown
      BY <3>1, <3>2, AnswerTypes
    <3>4. call.at < Len(AllSymbols) => address' = Id
      <4>1. Symbol = "m" => call.at = Len(AllSymbols)
        BY <2>8, AddressLast
      <4>2. Len(AllSymbols) \in Nat
        BY <2>1, Exchange
      <4>3. call.at < Len(AllSymbols) => Symbol # "m"
        BY <4>1, <4>2
      <4> QED
        BY <2>5, <2>8, <4>3
    <3> QED
      BY <2>7, <2>8, <3>1, <3>3, <3>4
  <2>9. CASE /\ call.op = "get" /\ Symbol \in Symbols /\ UNCHANGED <<reg, address>>
             /\ Appended(Report(Symbol, reg[Symbol]))
    <3>1. Report(Symbol, reg[Symbol]).value # Unknown
      BY <1>1, <2>9 DEF Report
    <3> QED
      BY <2>5, <2>7, <2>9, <3>1
  <2>10. call.op = "get" => Symbol \in Symbols
    <3>1. call.op = "get" =>
             /\ call.of \in Settings \cap DOMAIN GetSymbols /\ call.of \notin Broken
             /\ AllSymbols = GetSymbols[call.of] /\ Symbol = AllSymbols[call.at]
             /\ call.at \in 1..Len(AllSymbols) /\ Len(AllSymbols) = Len(SetSymbols[call.of])
      BY <1>5, Exchange
    <3>2. call.op = "get" => AllSymbols = SetSymbols[call.of]
      BY <3>1, GetNames
    <3> QED
      BY <3>1, <3>2, OwnRegisters
  <2> QED
    BY <1>5, <2>1, <2>5, <2>8, <2>9, <2>10, Sending
<1>6. CASE Read /\ ~excused' /\ InCall' /\ call.of \notin Broken
  <2>1. ~excused /\ UNCHANGED <<address, partial>> /\ call.op \in {"set", "get"} /\ call.sent
    BY <1>6, Reading
  <2>2. /\ Advance(line[1].value) /\ line' = <<>>
        /\ call.at < Len(AllSymbols) => address = Id
    BY <1>1, <1>6, <2>1, SmoothRead
  <2>3. call' # Over
    BY <1>6 DEF Over, InCall
  <2>4. /\ call.at < Len(AllSymbols)
        /\ call' = [op |-> call.op, of |-> call.of, value |-> call.value,
                    at |-> call.at + 1, sent |-> FALSE, got |-> call'.got]
    BY <2>1, <2>2, <2>3, Advancing
  <2>5. /\ call'.op = call.op /\ call'.of = call.of /\ call'.value = call.value
        /\ call'.sent = FALSE
    BY <2>4
  <2>6. AllSymbols' = AllSymbols
    BY <2>5 DEF AllSymbols
  <2>7. /\ ~partial
        /\ call.op = "set" =>
              /\ Permitted(call.of, call.value)
              /\ \A i \in 1..Len(AllSymbols) :
                    InBounds(AllSymbols[i], Encode(call.of, call.value)[i])
    BY <1>1, <1>6, <2>1 DEF Smooth, InCall
  <2> QED
    BY <2>1, <2>2, <2>4, <2>5, <2>6, <2>7 DEF Smooth
<1>7. CASE UNCHANGED <<call, reg, address, partial, line, excused>>
  <2>1. /\ AllSymbols' = AllSymbols /\ Symbol' = Symbol /\ Value' = Value
        /\ InCall' = InCall
    BY <1>7 DEF AllSymbols, Symbol, Value, InCall
  <2>2. OwnAnswer(line[1])' <=> OwnAnswer(line[1])
    BY <1>7, <2>1 DEF OwnAnswer, Echoes, Report
  <2> QED
    BY <1>1, <1>7, <2>1, <2>2 DEF Smooth
<1>8. CASE SendBare
  <2>1. call.op = "bare" /\ excused' = excused
    BY <1>8 DEF SendBare, history
  <2>2. excused
    BY <1>1, <2>1 DEF Smooth, InCall
  <2> QED
    BY <1>2, <2>1, <2>2
<1>9. CASE call' = Over
  BY <1>2, <1>9 DEF Over, InCall
<1>10. CASE ReadCut \/ Announce
  BY <1>2, <1>10 DEF ReadCut, Announce
<1>11. CASE Refuse \/ TimeOut \/ EndBare
  BY <1>9, <1>11 DEF Refuse, TimeOut, EndBare, Fail
<1>12. CASE Arrive \/ UNCHANGED vars
  BY <1>7, <1>12 DEF Arrive, vars, motor, history
<1>13. ASSUME NEW s \in Settings, NEW v \in Inputs[s], CallSet(s, v)
       PROVE  Smooth'
  BY <1>3, <1>13 DEF CallSet
<1>14. CASE \E s \in Settings : CallGet(s)
  BY <1>3, <1>14 DEF CallGet
<1>15. CASE CallBare
  BY <1>2, <1>15, Beginning DEF CallBare
<1> QED
  BY <1>2, <1>4, <1>5, <1>6, <1>8, <1>10, <1>11, <1>12, <1>13, <1>14, <1>15 DEF Next

\* No action lets a method throw without a reason.
LEMMA NextSoundCalls ==
    ASSUME TypeInv, SoundInv, [Next]_vars
    PROVE  SoundCallsSucceed'
<1>1. Smooth /\ SoundCallsSucceed
  BY DEF SoundInv
<1>2. CASE UNCHANGED <<outcome, excused, call>>
  BY <1>1, <1>2 DEF SoundCallsSucceed
<1>3. CASE excused' \/ outcome' # "threw"
  BY <1>3 DEF SoundCallsSucceed
<1>4. CASE call' = Over /\ call.of \in Broken
  BY <1>4 DEF SoundCallsSucceed, Over
<1>5. ASSUME NEW op, NEW s, NEW v, NEW sound, Begin(op, s, v, sound)
      PROVE  outcome' # "threw"
  BY <1>5 DEF Begin
<1>6. CASE Send
  <2>1. call'.of = call.of /\ outcome' = outcome
    BY <1>6, Sending DEF Send
  <2>2. excused => excused'
    BY <1>6 DEF Send
  <2> QED
    BY <1>1, <2>1, <2>2 DEF SoundCallsSucceed
<1>7. CASE Refuse
  <2>1. /\ call.op = "set" /\ excused' = excused /\ call' = Over
        /\ ~(Permitted(call.of, call.value) /\ InBounds(Symbol, Value))
    BY <1>7 DEF Refuse, Fail
  <2>2. /\ Symbol = AllSymbols[call.at] /\ Value = Encode(call.of, call.value)[call.at]
        /\ call.at \in 1..Len(AllSymbols)
    BY <2>1, Exchange DEF Value
  <2>3. excused \/ call.of \in Broken
    BY <1>1, <2>1, <2>2 DEF Smooth, InCall
  <2> QED
    BY <1>3, <1>4, <2>1, <2>3
<1>8. CASE Read
  <2>1. excused' = excused /\ call.op \in {"set", "get"}
    BY <1>8, Reading
  <2>2. CASE ~excused /\ call.of \notin Broken
    <3>1. Advance(line[1].value)
      BY <1>1, <1>8, <2>2, SmoothRead
    <3>2. outcome' # "threw"
      BY <2>1, <3>1, Advancing
    <3> QED
      BY <1>3, <3>2
  <2>3. outcome' # "threw" \/ call' = Over
    BY <1>8, <2>1, Reading, Advancing DEF Fail
  <2> QED
    BY <1>3, <1>4, <2>1, <2>2, <2>3
<1>9. CASE EndBare \/ SendBare
  <2>1. call.op = "bare" /\ excused' = excused
    BY <1>9 DEF EndBare, SendBare, history
  <2>2. excused
    BY <1>1, <2>1 DEF Smooth, InCall
  <2> QED
    BY <1>3, <2>1, <2>2
<1>10. CASE ReadCut \/ TimeOut \/ Announce
  BY <1>3, <1>10 DEF ReadCut, TimeOut, Announce
<1>11. CASE Arrive \/ UNCHANGED vars
  BY <1>2, <1>11 DEF Arrive, vars, history
<1>12. CASE \/ \E s \in Settings : \E v \in Inputs[s] : CallSet(s, v)
            \/ \E s \in Settings : CallGet(s)
            \/ CallBare
  BY <1>3, <1>5, <1>12 DEF CallSet, CallGet, CallBare
<1> QED
  BY <1>6, <1>7, <1>8, <1>9, <1>10, <1>11, <1>12 DEF Next

\* The parts of SoundInv together.
LEMMA NextSoundInv ==
    ASSUME TypeInv, TypeInv', SoundInv, [Next]_vars
    PROVE  SoundInv'
<1>1. \A x \in Symbols : reg'[x] # Unknown
  BY RegistersKnown DEF SoundInv
<1> QED
  BY <1>1, NextSmooth, NextSoundCalls DEF SoundInv

\* A set or get method throws only if its argument is out of bounds, the line
\* lost, cut or delayed an answer, or the motor has another address than id_:
\* true of every method that works, also between calls of those that do not
\* (NanotecMotor.cc:65-93, 124-156).
THEOREM SoundCallsWork == Spec => []SoundCallsSucceed
<1>1. Init => SoundInv
  <2> SUFFICES ASSUME Init PROVE SoundInv
    OBVIOUS
  <2>1. call.op = "none" /\ outcome = "none"
    BY DEF Init
  <2>2. ASSUME NEW x \in Symbols
        PROVE  reg[x] # Unknown
    <3>1. reg[x] = {} \/ reg[x] = 1
      BY DEF Init
    <3>2. {} # Unknown
      <4>1. <<{}, {}, {}, {}>> \in Behaviours
        BY DEF Behaviours
      <4>2. EncodeLimits(<<{}, {}, {}, {}>>) = {}
        BY DEF EncodeLimits, Shift
      <4> QED
        BY <4>1, <4>2, LimitBounds
    <3>3. 1 # Unknown
      BY SettingsAssumption
    <3> QED
      BY <3>1, <3>2, <3>3
  <2> QED
    BY <2>1, <2>2 DEF SoundInv, Smooth, InCall, SoundCallsSucceed
<1>2. TypeInv /\ TypeInv' /\ SoundInv /\ [Next]_vars => SoundInv'
  BY NextSoundInv
<1>3. SoundInv => SoundCallsSucceed
  BY DEF SoundInv
<1> QED
  BY <1>1, <1>2, <1>3, TypeInvariant, PTL DEF Spec
===============================================================================
