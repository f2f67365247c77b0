------------------------- MODULE ClimateChamberProofs -------------------------
(***************************************************************************)
(* Proofs about the climate chamber of ClimateChamber, for any values, any *)
(* number of commands on their way, of cut reports and of changes at the   *)
(* panel.                                                                  *)
(***************************************************************************)
EXTENDS ClimateChamber, TLAPS

-----------------------------------------------------------------------------
(* The inductive invariant.                                                *)

\* The target that the chamber will have when no command is on its way.
TargetTo(t) == IF onWay = <<>> THEN chamber[t] ELSE onWay[Len(onWay)][t]

\* From the i-th command on, none switches.
KeepsFrom(i) == \A j \in 1..Len(onWay) : j >= i => onWay[j].switch = "keep"

\* The chamber will then be switched as v says.
PowerTo(v) ==
    \/ chamber.power = v /\ KeepsFrom(1)
    \/ \E i \in 1..Len(onWay) : onWay[i].switch = v /\ KeepsFrom(i + 1)

\* What the request being handled is still to change.
Pending == IF pc = "idle" THEN {} ELSE Changes(request)

\* The chamber will have what was last asked for, but for what the request
\* being handled is to change.
OnItsWay ==
    /\ \A t \in Targets \ (doubtful \cup Pending) : TargetTo(t) = intended[t]
    /\ "power" \notin doubtful \cup Pending => PowerTo(intended.power)

\* What the request being handled says is what was last asked for.
AskedFor ==
    pc # "idle" =>
        \A p \in Changes(request) \ doubtful :
            intended[p] = IF p = "power" THEN request.switch ELSE request.value

\* What the handler read of a target is what was last asked for.
ReadAsIntended ==
    /\ pc = "idle" => DOMAIN kept = {}
    /\ \A t \in DOMAIN kept : t \in doubtful \/ kept[t] = intended[t]

\* What the handler still reads; before it writes it has read every target that
\* the request does not say.
ReadsBeforeWrite ==
    /\ pc = "read" =>
          \/ request.op = "get" /\ DOMAIN kept = {}
          \/ request.op = "set" /\ toRead = <<NumberOf[Other(request.target)]>>
          \/ request.op = "switch" /\ toRead = <<1, 3>>
          \/ request.op = "switch" /\ toRead = <<3>> /\ "temp" \in DOMAIN kept
    /\ pc = "write" =>
          /\ request.op # "get"
          /\ \A t \in Targets : t \in Changes(request) \/ t \in DOMAIN kept

\* A value of a target that was asked for, or what a cut report left of one.
Asked(t, w) == \E v \in Values[t] : w = v \/ (t \in misread /\ w \in Span(v))

\* Until a member is written unassigned, what the chamber, the commands, the
\* members and the handler hold of a target was asked for, is left of what was,
\* or is unassigned.
OnlyAskedFor ==
    ~blind =>
        \A t \in Targets :
            /\ Asked(t, chamber[t])
            /\ \A i \in 1..Len(onWay) : Asked(t, onWay[i][t])
            /\ val[NumberOf[t]] = Garbage \/ Asked(t, val[NumberOf[t]])
            /\ t \in DOMAIN kept => kept[t] = Garbage \/ Asked(t, kept[t])

ClimateInv ==
    /\ TypeOK
    /\ OnItsWay
    /\ AskedFor
    /\ ReadAsIntended
    /\ ReadsBeforeWrite
    /\ OnlyAskedFor

-----------------------------------------------------------------------------
(* Lemmas about the operators.                                             *)

\* What a command that is sent does to the commands on their way.
LEMMA Sent ==
    ASSUME NEW S, NEW s \in Seq(S), NEW e \in S
    PROVE  /\ Append(s, e) \in Seq(S) /\ Append(s, e) # <<>>
           /\ Len(Append(s, e)) = Len(s) + 1
           /\ \A i \in 1..Len(s) : Append(s, e)[i] = s[i]
           /\ Append(s, e)[Len(s) + 1] = e
  OBVIOUS

\* What the carrying out of the oldest does.
LEMMA CarriedOut ==
    ASSUME NEW S, NEW s \in Seq(S), s # <<>>
    PROVE  /\ Tail(s) \in Seq(S) /\ Len(s) >= 1 /\ Len(Tail(s)) = Len(s) - 1
           /\ Head(s) = s[1] /\ s[1] \in S
           /\ \A i \in 1..Len(s) - 1 : Tail(s)[i] = s[i + 1]
  OBVIOUS

\* The parts of a request.
LEMMA RequestParts ==
    ASSUME NEW r \in Requests
    PROVE  /\ r.op \in {"get", "set", "switch"}
           /\ r.op = "set" => /\ r.target \in Targets /\ r.value \in Values[r.target]
                              /\ r.switch \in {"keep", "on", "off"}
           /\ r.op = "switch" => r.switch \in {"on", "off"}
<1> DEFINE Gets == [op : {"get"}, numbers : {<<1>>, <<2>>, <<3>>, <<4>>, <<2, 4>>}]
<1>1. CASE r \in Gets
  BY <1>1
<1>2. CASE \E t \in Targets : r \in [op : {"set"}, target : {t}, value : Values[t],
                                     switch : {"keep", "on", "off"}]
  BY <1>2
<1>3. CASE r \in [op : {"switch"}, switch : {"on", "off"}]
  BY <1>3
<1> DEFINE Sets(t) == [op : {"set"}, target : {t}, value : Values[t],
                       switch : {"keep", "on", "off"}]
<1>4. \/ r \in Gets
      \/ r \in UNION {Sets(t) : t \in Targets}
      \/ r \in [op : {"switch"}, switch : {"on", "off"}]
  BY DEF Requests
<1>5. r \in UNION {Sets(t) : t \in Targets} => \E t \in Targets : r \in Sets(t)
  OBVIOUS
<1> QED
  BY <1>1, <1>2, <1>3, <1>4, <1>5

\* What a request changes is what it says.
LEMMA ChangedParts ==
    ASSUME NEW r \in Requests
    PROVE  /\ Changes(r) \subseteq Parts
           /\ \A t \in Targets : t \in Changes(r) <=> r.op = "set" /\ t = r.target
           /\ "power" \in Changes(r) <=> r.op # "get" /\ r.switch # "keep"
           /\ r.op # "get" => r.switch \in {"keep", "on", "off"}
           /\ \A t \in Targets : t \in Changes(r) => r.value \in Values[t]
  BY RequestParts DEF Changes, Parts, Targets

\* The targets' numbers, and what the report has under them.
LEMMA Numbers ==
    /\ NumberOf["temp"] = 1 /\ NumberOf["hum"] = 3
    /\ TargetOf(1) = "temp" /\ TargetOf(3) = "hum"
    /\ \A t \in Targets : NumberOf[t] \in 1..4 /\ TargetOf(NumberOf[t]) = t
                          /\ Report[NumberOf[t]] = chamber[t]
                          /\ Other(t) \in Targets /\ Other(t) # t
    /\ \A n \in 1..4 : TargetOf(n) \in Targets
                       /\ Report[n] \in {chamber[TargetOf(n)], Measured[TargetOf(n)]}
<1>1. /\ Report[1] = chamber.temp /\ Report[2] = Measured.temp
      /\ Report[3] = chamber.hum /\ Report[4] = Measured.hum
  BY DEF Report
<1>2. NumberOf["temp"] = 1 /\ NumberOf["hum"] = 3
  BY DEF NumberOf
<1>3. /\ TargetOf(1) = "temp" /\ TargetOf(2) = "temp" /\ TargetOf(3) = "hum" /\ TargetOf(4) = "hum"
  BY DEF TargetOf
<1>4. \A n \in 1..4 : n = 1 \/ n = 2 \/ n = 3 \/ n = 4
  OBVIOUS
<1>5. \A t \in Targets : t = "temp" \/ t = "hum"
  BY DEF Targets
<1>6. \A t \in Targets : NumberOf[t] \in 1..4 /\ TargetOf(NumberOf[t]) = t
                          /\ Report[NumberOf[t]] = chamber[t]
  BY <1>1, <1>2, <1>3, <1>5
<1>7. \A t \in Targets : Other(t) \in Targets /\ Other(t) # t
  BY DEF Other, Targets
<1>8. \A n \in 1..4 : TargetOf(n) \in Targets
                       /\ Report[n] \in {chamber[TargetOf(n)], Measured[TargetOf(n)]}
  BY <1>1, <1>3, <1>4 DEF Targets
<1> QED
  BY <1>2, <1>3, <1>6, <1>7, <1>8

\* A number may be cut to what lies between it and 0, and that again.
LEMMA Spans ==
    ASSUME NEW v \in Int
    PROVE  /\ v \in Span(v) /\ Span(v) \subseteq Int
           /\ \A w \in Span(v) : Span(w) \subseteq Span(v)
  BY DEF Span

\* What is left of a number lies between it and 0 (serial_spyserv_DEV.C:981-987).
LEMMA PrefixInSpan ==
    ASSUME NEW v \in Int, NEW w \in Prefixes(v)
    PROVE  w \in Span(v)
<1>1. v # Garbage
  BY ChamberAssumption
<1> PICK n \in {10, 100, 1000} : w = IF v < 0 THEN -((-v) \div n) ELSE v \div n
  BY <1>1 DEF Prefixes
<1>2. \A m \in Nat : m \div n \in 0..m
  BY n = 10 \/ n = 100 \/ n = 1000
<1>3. CASE v < 0
  <2>1. -v \in Nat /\ (-v) \div n \in 0..(-v)
    BY <1>2, <1>3
  <2> QED
    BY <1>3, <2>1 DEF Span
<1>4. CASE ~(v < 0)
  <2>1. v \div n \in 0..v
    BY <1>2, <1>4
  <2> QED
    BY <1>4, <2>1 DEF Span
<1> QED
  BY <1>3, <1>4

\* What was asked for, or measured, of a target may be held of it, and what is
\* left of it when a report is cut.
LEMMA HeldValues ==
    ASSUME NEW t \in Targets
    PROVE  /\ Values[t] \subseteq Held[t] /\ Measured[t] \in Held[t] /\ Garbage \in Held[t]
           /\ \A v \in Held[t] : v = Garbage \/ v \in Int
           /\ \A v \in Held[t] : Prefixes(v) \subseteq Held[t]
<1> DEFINE S == Values[t] \cup {Measured[t]}
<1>1. /\ S \subseteq Int
      /\ \A w : w \in Held[t] <=> w = Garbage \/ \E v \in S : w \in Span(v)
  BY ChamberAssumption DEF Held
<1>2. \A v \in Held[t] : v = Garbage \/ v \in Int
  BY <1>1, Spans
<1>3. S \subseteq Held[t]
  BY <1>1, Spans
<1>4. ASSUME NEW v \in Held[t], NEW w \in Prefixes(v)
      PROVE  w \in Held[t]
  <2>1. CASE v = Garbage
    BY <1>1, <1>4, <2>1 DEF Prefixes
  <2>2. CASE v # Garbage
    <3>1. PICK u \in S : v \in Span(u)
      BY <1>1, <2>2
    <3>2. v \in Int /\ w \in Span(v)
      BY <1>2, <1>4, <2>2, PrefixInSpan
    <3>3. w \in Span(u)
      BY <1>1, <3>1, <3>2, Spans
    <3> QED
      BY <1>1, <3>3
  <2> QED
    BY <2>1, <2>2
<1> QED
  BY <1>1, <1>2, <1>3, <1>4

\* Each number of the report that comes is whole or what is left of it.
LEMMA ParcelNumbers ==
    ASSUME NEW got \in Parcels
    PROVE  /\ Len(got) \in 0..4
           /\ \A n \in 1..Len(got) : got[n] = Report[n] \/ got[n] \in Prefixes(Report[n])
<1>1. Len(Report) = 4
  BY DEF Report
<1>2. ASSUME NEW k \in 0..4
      PROVE  /\ Len(SubSeq(Report, 1, k)) = k
             /\ \A n \in 1..k : SubSeq(Report, 1, k)[n] = Report[n]
  BY <1>1 DEF Report
<1>3. CASE \E k \in 0..4 : got = SubSeq(Report, 1, k)
  BY <1>2, <1>3
<1>4. ASSUME NEW k \in 0..3, NEW v \in Prefixes(Report[k + 1]),
             got = SubSeq(Report, 1, k) \o <<v>>
      PROVE  /\ Len(got) \in 0..4
             /\ \A n \in 1..Len(got) : got[n] = Report[n] \/ got[n] \in Prefixes(Report[n])
  <2> DEFINE first == SubSeq(Report, 1, k)
  <2>1. Len(first) = k /\ \A n \in 1..k : first[n] = Report[n]
    BY <1>2
  <2>2. DOMAIN first = 1..k
    BY <2>1 DEF Report
  <2>3. Len(got) = k + 1 /\ got[k + 1] = v /\ \A n \in 1..k : got[n] = first[n]
    BY <1>4, <2>1, <2>2
  <2> QED
    BY <1>4, <2>1, <2>3
<1>5. \/ \E k \in 0..4 : got = SubSeq(Report, 1, k)
      \/ \E k \in 0..3 : \E v \in Prefixes(Report[k + 1]) : got = SubSeq(Report, 1, k) \o <<v>>
  BY Zenon DEF Parcels
<1> QED
  BY <1>3, <1>4, <1>5

-----------------------------------------------------------------------------
(* Init.                                                                   *)

\* The chamber is found with what someone asked for, the members unassigned.
LEMMA InitClimateInv == Init => ClimateInv
<1> SUFFICES ASSUME Init PROVE ClimateInv
  OBVIOUS
<1>1. /\ DOMAIN chamber = Parts /\ chamber.power \in {"on", "off"}
      /\ \A t \in Targets : chamber[t] \in Values[t]
  BY ChamberAssumption DEF Init
<1>2. onWay \in Seq(Commands) /\ Len(onWay) = 0 /\ DOMAIN kept = {}
  BY DEF Init
<1>3. \A n \in 1..4 : val[n] = Garbage /\ val[n] \in Held[TargetOf(n)]
  BY Numbers, HeldValues DEF Init
<1>4. TypeOK
  <2>1. Len(onWay) <= MaxOnWay /\ cuts \in 0..MaxCuts /\ panel \in 0..MaxPanel
    BY <1>2, ChamberAssumption DEF Init
  <2>2. \A t \in Targets : chamber[t] \in Held[t] /\ intended[t] \in Values[t]
    BY <1>1, HeldValues DEF Init
  <2> QED
    BY <1>1, <1>2, <1>3, <2>1, <2>2 DEF Init, TypeOK
<1>5. OnItsWay
  BY <1>2 DEF Init, OnItsWay, Pending, TargetTo, PowerTo, KeepsFrom
<1>6. OnlyAskedFor
  BY <1>1, <1>2, <1>3, Numbers DEF Init, OnlyAskedFor, Asked
<1> QED
  BY <1>2, <1>4, <1>5, <1>6 DEF Init, ClimateInv, AskedFor, ReadAsIntended, ReadsBeforeWrite

-----------------------------------------------------------------------------
(* The server's steps.                                                     *)

\* A request says what is now asked for, and has read nothing yet.
LEMMA RequestKeeps == ASSUME ClimateInv, NEW r \in Requests, Request(r) PROVE ClimateInv'
<1>0. /\ TypeOK /\ OnItsWay /\ ReadAsIntended /\ OnlyAskedFor
      /\ pc = "idle" /\ pc' = "read" /\ request' = r /\ toRead' = Reads(r)
      /\ doubtful' = doubtful \ Changes(r)
      /\ UNCHANGED <<chamber, onWay, val, kept, misread, blind, cuts, panel>>
  BY DEF ClimateInv, Request
<1>1. /\ DOMAIN intended' = Parts
      /\ \A p \in Parts : intended'[p] = IF p \notin Changes(r) THEN intended[p]
                                         ELSE IF p = "power" THEN r.switch ELSE r.value
  BY DEF Request
<1>2. Targets \subseteq Parts /\ "power" \in Parts /\ \A t \in Targets : t # "power"
  BY DEF Targets, Parts
<1>3. TypeOK'
  <2>1. \A t \in Targets : intended'[t] \in Values[t]
    BY <1>0, <1>1, <1>2, ChangedParts DEF TypeOK
  <2>2. intended'.power \in {"on", "off"}
    <3>1. CASE "power" \notin Changes(r)
      BY <1>0, <1>1, <1>2, <3>1 DEF TypeOK
    <3>2. CASE "power" \in Changes(r)
      BY <1>1, <1>2, <3>2, ChangedParts
    <3> QED
      BY <3>1, <3>2
  <2> QED
    BY <1>0, <1>1, <2>1, <2>2 DEF TypeOK
<1>4. OnItsWay'
  <2>1. Pending = {} /\ Pending' = Changes(r)
    BY <1>0 DEF Pending
  <2>2. /\ \A t : TargetTo(t)' = TargetTo(t)
        /\ \A v : PowerTo(v) => PowerTo(v)'
    BY <1>0 DEF TargetTo, PowerTo, KeepsFrom
  <2>3. ASSUME NEW t \in Targets \ (doubtful' \cup Pending')
        PROVE  TargetTo(t)' = intended'[t]
    BY <1>0, <1>1, <1>2, <2>1, <2>2, <2>3 DEF OnItsWay
  <2>4. ASSUME "power" \notin doubtful' \cup Pending'
        PROVE  PowerTo(intended.power)'
    BY <1>0, <1>1, <1>2, <2>1, <2>2, <2>4 DEF OnItsWay
  <2> QED
    BY <2>3, <2>4 DEF OnItsWay
<1>5. AskedFor'
  BY <1>0, <1>1, ChangedParts DEF AskedFor
<1>6. ReadAsIntended'
  BY <1>0 DEF ReadAsIntended
<1>7. ReadsBeforeWrite'
  <2>1. r.op \in {"get", "set", "switch"}
    BY RequestParts
  <2>2. /\ r.op = "set" => Reads(r) = <<NumberOf[Other(r.target)]>>
        /\ r.op = "switch" => Reads(r) = <<NumberOf["temp"], NumberOf["hum"]>>
    BY DEF Reads
  <2>3. DOMAIN kept' = {}
    BY <1>0 DEF ReadAsIntended
  <2> QED
    BY <1>0, <2>1, <2>2, <2>3, Numbers DEF ReadsBeforeWrite
<1>8. OnlyAskedFor'
  BY <1>0 DEF OnlyAskedFor, Asked
<1> QED
  BY <1>3, <1>4, <1>5, <1>6, <1>7, <1>8 DEF ClimateInv

\* What a cut report leaves of a target lies between 0 and what was asked for.
LEMMA AskedPrefix ==
    ASSUME NEW t \in Targets, NEW v, Asked(t, v), NEW w \in Prefixes(v)
    PROVE  \E u \in Values[t] : w \in Span(u)
<1> PICK u \in Values[t] : v = u \/ (t \in misread /\ v \in Span(u))
  BY DEF Asked
<1>1. u \in Int
  BY ChamberAssumption
<1>2. v \in Int /\ v \in Span(u)
  BY <1>1, Spans
<1>3. w \in Span(v)
  BY <1>2, PrefixInSpan
<1> QED
  BY <1>1, <1>2, <1>3, Spans

\* A number that comes whole and has no command before it says what the chamber
\* will have; any other makes the target doubtful.
LEMMA ReadKeeps == ASSUME ClimateInv, NEW got \in Parcels, Read(got) PROVE ClimateInv'
<1> DEFINE n == Head(toRead)
           t == TargetOf(n)
<1>0. /\ TypeOK /\ OnItsWay /\ AskedFor /\ ReadAsIntended /\ ReadsBeforeWrite /\ OnlyAskedFor
      /\ pc = "read" /\ UNCHANGED <<chamber, onWay, intended, blind, panel>>
      /\ request \in Requests
  BY DEF ClimateInv, Read, TypeOK
<1>1. /\ val' = [i \in 1..4 |-> IF i <= Len(got) THEN got[i] ELSE val[i]]
      /\ Len(got) \in 0..4
      /\ \A i \in 1..Len(got) : got[i] = Report[i] \/ got[i] \in Prefixes(Report[i])
  BY ParcelNumbers DEF Read, Scan
<1>2. /\ \A i \in 1..4 : val'[i] \in Held[TargetOf(i)]
      /\ \A i \in 1..4 : Whole(i, got) => val'[i] = Report[i]
  <2>1. \A i \in 1..4 : Report[i] \in Held[TargetOf(i)] /\ TargetOf(i) \in Targets
    BY <1>0, Numbers, HeldValues DEF TypeOK
  <2>2. \A i \in 1..4 : Prefixes(Report[i]) \subseteq Held[TargetOf(i)]
    BY <2>1, HeldValues
  <2>3. ASSUME NEW i \in 1..4
        PROVE  val'[i] \in Held[TargetOf(i)]
    <3>1. CASE i <= Len(got)
      BY <1>1, <2>1, <2>2, <3>1
    <3>2. CASE ~(i <= Len(got))
      BY <1>0, <1>1, <3>2 DEF TypeOK
    <3> QED
      BY <3>1, <3>2
  <2> QED
    BY <1>1, <2>3 DEF Whole
<1>3. /\ cuts' \in 0..MaxCuts
      /\ misread \subseteq misread' /\ misread' \subseteq Targets
      /\ \A u \in Targets : NumberOf[u] <= Len(got) /\ ~Whole(NumberOf[u], got) => u \in misread'
  <2>1. cuts \in Nat /\ (cuts' = cuts \/ cuts' = cuts + 1) /\ cuts' <= MaxCuts
    BY <1>0, ChamberAssumption DEF Read, TypeOK
  <2> QED
    BY <1>0, <2>1, ChamberAssumption DEF Read, TypeOK
<1>4. /\ \A u \in Targets : \A w : Asked(u, w) => Asked(u, w)'
      /\ ~blind => \A u \in Targets :
            val'[NumberOf[u]] = Garbage \/ Asked(u, val[NumberOf[u]])'
  <2>1. \A u \in Targets : \A w : Asked(u, w) => Asked(u, w)'
    BY <1>3 DEF Asked
  <2>2. ASSUME ~blind, NEW u \in Targets
        PROVE  val'[NumberOf[u]] = Garbage \/ Asked(u, val[NumberOf[u]])'
    <3>1. NumberOf[u] \in 1..4 /\ Report[NumberOf[u]] = chamber[u] /\ Asked(u, chamber[u])
      BY <1>0, <2>2, Numbers DEF OnlyAskedFor
    <3>2. CASE ~(NumberOf[u] <= Len(got))
      <4>1. val'[NumberOf[u]] = val[NumberOf[u]]
        BY <1>1, <3>1, <3>2
      <4>2. val[NumberOf[u]] = Garbage \/ Asked(u, val[NumberOf[u]])
        BY <1>0, <2>2 DEF OnlyAskedFor
      <4> QED
        BY <4>1, <4>2, <2>1 DEF Asked
    <3>3. CASE Whole(NumberOf[u], got)
      <4>1. val'[NumberOf[u]] = chamber[u]
        BY <1>2, <3>1, <3>3
      <4> QED
        BY <2>1, <3>1, <4>1 DEF Asked
    <3>4. CASE NumberOf[u] <= Len(got) /\ ~Whole(NumberOf[u], got)
      <4>1. u \in misread'
        BY <1>3, <3>4
      <4>2. val'[NumberOf[u]] = got[NumberOf[u]] /\ got[NumberOf[u]] \in Prefixes(chamber[u])
        BY <1>1, <3>1, <3>4 DEF Whole
      <4>3. \E v \in Values[u] : val'[NumberOf[u]] \in Span(v)
        BY <3>1, <4>2, AskedPrefix
      <4> QED
        BY <4>1, <4>3 DEF Asked
    <3> QED
      BY <3>2, <3>3, <3>4
  <2> QED
    BY <2>1, <2>2
<1>5. CASE request.op = "get"
  <2>1. /\ pc' \in {"read", "idle"} /\ UNCHANGED <<kept, doubtful>>
        /\ request' = IF pc' = "idle" THEN None ELSE request
    BY <1>0, <1>5 DEF Read, ReadsBeforeWrite
  <2>2. ~ \E p : p \in Changes(request)
    BY <1>0, <1>5, ChangedParts DEF Parts, Changes
  <2>3. DOMAIN kept = {}
    BY <1>0, <1>5 DEF ReadsBeforeWrite
  <2>4. TypeOK'
    BY <1>0, <1>2, <1>3, <2>1 DEF TypeOK
  <2>5. OnItsWay'
    <3>1. Pending = {} /\ Pending' = {}
      BY <1>0, <2>1, <2>2 DEF Pending
    <3> QED
      BY <1>0, <2>1, <3>1 DEF OnItsWay, TargetTo, PowerTo, KeepsFrom
  <2>6. ReadAsIntended' /\ AskedFor' /\ ReadsBeforeWrite'
    BY <1>0, <1>5, <2>1, <2>2, <2>3 DEF ReadAsIntended, AskedFor, ReadsBeforeWrite
  <2>7. OnlyAskedFor'
    BY <1>0, <1>4, <2>1, <2>3 DEF OnlyAskedFor, Asked
  <2> QED
    BY <2>4, <2>5, <2>6, <2>7 DEF ClimateInv
<1>6. CASE request.op # "get"
  <2>1. /\ n \in 1..4 /\ t \in Targets /\ n = NumberOf[t] /\ t \notin Changes(request)
        /\ toRead # <<>>
    <3>1. CASE request.op = "set" /\ toRead = <<NumberOf[Other(request.target)]>>
      <4>1. request.target \in Targets /\ n = NumberOf[Other(request.target)]
        BY <1>0, <3>1, RequestParts
      <4>2. t = Other(request.target)
        BY <4>1, Numbers
      <4> QED
        BY <1>0, <3>1, <4>1, <4>2, Numbers, ChangedParts
    <3>2. CASE request.op = "switch" /\ toRead = <<1, 3>>
      <4>1. n = 1 /\ t = "temp"
        BY <3>2, Numbers
      <4> QED
        BY <1>0, <3>2, <4>1, Numbers, ChangedParts DEF Targets
    <3>3. CASE request.op = "switch" /\ toRead = <<3>>
      <4>1. n = 3 /\ t = "hum"
        BY <3>3, Numbers
      <4> QED
        BY <1>0, <3>3, <4>1, Numbers, ChangedParts DEF Targets
    <3> QED
      BY <1>0, <1>6, <3>1, <3>2, <3>3 DEF ReadsBeforeWrite
  <2>2. /\ kept' = [p \in {t} \cup DOMAIN kept |-> IF p = t THEN val'[n] ELSE kept[p]]
        /\ doubtful' = IF ~Whole(n, got) \/ onWay # <<>> THEN doubtful \cup {t} ELSE doubtful
        /\ toRead' = Tail(toRead)
        /\ pc' = IF Len(toRead) > 1 THEN "read" ELSE "write"
        /\ request' = request
    BY <1>6 DEF Read
  <2>3. /\ DOMAIN kept' = {t} \cup DOMAIN kept /\ kept'[t] = val'[n]
        /\ \A p \in DOMAIN kept : p # t => kept'[p] = kept[p]
        /\ pc' \in {"read", "write"} /\ doubtful \subseteq doubtful'
        /\ doubtful' \subseteq doubtful \cup {t}
    BY <2>2
  <2>4. TypeOK'
    <3>1. DOMAIN kept' \subseteq Targets /\ doubtful' \subseteq Parts
      BY <1>0, <2>1, <2>3 DEF TypeOK, Parts
    <3>2. kept'[t] \in Held[t]
      BY <1>2, <2>1, <2>3, Numbers
    <3>3. \A p \in DOMAIN kept' : kept'[p] \in Held[p]
      BY <1>0, <2>3, <3>2 DEF TypeOK
    <3> QED
      BY <1>0, <1>2, <1>3, <2>2, <2>3, <3>1, <3>3 DEF TypeOK
  <2>5. OnItsWay'
    <3>1. Pending' = Pending
      BY <1>0, <2>2, <2>3 DEF Pending
    <3>2. /\ \A u : TargetTo(u)' = TargetTo(u)
          /\ \A v : PowerTo(v) => PowerTo(v)'
          /\ intended' = intended
      BY <1>0 DEF TargetTo, PowerTo, KeepsFrom
    <3>3. \A u \in Targets \ (doubtful' \cup Pending') : TargetTo(u)' = intended'[u]
      BY <1>0, <2>3, <3>1, <3>2 DEF OnItsWay
    <3>4. "power" \notin doubtful' \cup Pending' => PowerTo(intended.power)'
      BY <1>0, <2>3, <3>1, <3>2 DEF OnItsWay
    <3> QED
      BY <3>3, <3>4 DEF OnItsWay
  <2>6. AskedFor'
    BY <1>0, <2>2, <2>3 DEF AskedFor
  <2>7. ReadAsIntended'
    <3>1. t \in doubtful' \/ kept'[t] = intended[t]
      <4> SUFFICES ASSUME Whole(n, got), onWay = <<>>, t \notin doubtful
                   PROVE  kept'[t] = intended[t]
        BY <2>2
      <4>1. kept'[t] = chamber[t]
        BY <1>2, <2>1, <2>3, Numbers
      <4>2. TargetTo(t) = chamber[t]
        BY DEF TargetTo
      <4>3. t \notin Pending
        BY <2>1 DEF Pending
      <4> QED
        BY <1>0, <2>1, <4>1, <4>2, <4>3 DEF OnItsWay
    <3>2. \A p \in DOMAIN kept' : p \in doubtful' \/ kept'[p] = intended[p]
      BY <1>0, <2>3, <3>1 DEF ReadAsIntended
    <3> QED
      BY <1>0, <2>3, <3>2 DEF ReadAsIntended
  <2>8. ReadsBeforeWrite'
    <3>1. CASE request.op = "set" /\ toRead = <<NumberOf[Other(request.target)]>>
      <4>1. pc' = "write" /\ t = Other(request.target) /\ request.target \in Targets
        BY <1>0, <2>2, <3>1, Numbers, RequestParts
      <4>2. \A u \in Targets : u = t \/ u = request.target
        BY <4>1 DEF Other, Targets
      <4>3. \A u \in Targets : u \in Changes(request) \/ u \in DOMAIN kept'
        BY <1>0, <2>3, <3>1, <4>2, ChangedParts
      <4> QED
        BY <1>6, <2>2, <4>1, <4>3 DEF ReadsBeforeWrite
    <3>2. CASE request.op = "switch" /\ toRead = <<1, 3>>
      <4>1. pc' = "read" /\ t = "temp" /\ toRead' = <<3>>
        BY <2>2, <3>2, Numbers
      <4> QED
        BY <2>2, <2>3, <3>2, <4>1 DEF ReadsBeforeWrite
    <3>3. CASE request.op = "switch" /\ toRead = <<3>> /\ "temp" \in DOMAIN kept
      <4>1. pc' = "write" /\ t = "hum"
        BY <2>2, <3>3, Numbers
      <4> QED
        BY <2>2, <2>3, <3>3, <4>1 DEF ReadsBeforeWrite, Targets
    <3> QED
      BY <1>0, <1>6, <3>1, <3>2, <3>3 DEF ReadsBeforeWrite
  <2>9. OnlyAskedFor'
    <3> SUFFICES ASSUME ~blind, NEW u \in Targets, u \in DOMAIN kept'
                 PROVE  kept'[u] = Garbage \/ Asked(u, kept[u])'
      BY <1>0, <1>4 DEF OnlyAskedFor, Asked
    <3>1. CASE u = t
      BY <1>4, <2>1, <2>3, <3>1 DEF Asked
    <3>2. CASE u # t
      <4>1. u \in DOMAIN kept /\ kept'[u] = kept[u]
        BY <2>3, <3>2
      <4>2. kept[u] = Garbage \/ Asked(u, kept[u])
        BY <1>0, <4>1 DEF OnlyAskedFor
      <4> QED
        BY <1>4, <4>1, <4>2 DEF Asked
    <3> QED
      BY <3>1, <3>2
  <2> QED
    BY <2>4, <2>5, <2>6, <2>7, <2>8, <2>9 DEF ClimateInv
<1> QED
  BY <1>5, <1>6

\* What a command says: of a target the request changes, what it asks for; of
\* the other, what was read.
LEMMA CommandSays ==
    ASSUME ClimateInv, pc = "write"
    PROVE  /\ Command \in Commands /\ Command.switch = request.switch
           /\ request \in Requests /\ request.op # "get"
           /\ \A t \in Targets :
                 /\ Command[t] = IF t \in Changes(request) THEN request.value ELSE kept[t]
                 /\ t \notin Changes(request) => t \in DOMAIN kept
                 /\ t \notin doubtful => Command[t] = intended[t]
                 /\ ~blind => Command[t] = Garbage \/ Asked(t, Command[t])
<1>0. /\ TypeOK /\ AskedFor /\ ReadAsIntended /\ ReadsBeforeWrite /\ OnlyAskedFor
      /\ request \in Requests /\ request.op # "get"
  BY DEF ClimateInv, TypeOK, ReadsBeforeWrite
<1>1. \A t \in Targets : t \notin Changes(request) => t \in DOMAIN kept
  BY <1>0 DEF ReadsBeforeWrite
<1>2. \A t \in Targets :
         Written(t) = IF t \in Changes(request) THEN request.value ELSE kept[t]
  BY <1>0, ChangedParts DEF Written
<1>3. \A t \in Targets : Written(t) \in Held[t]
  BY <1>0, <1>1, <1>2, ChangedParts, HeldValues DEF TypeOK
<1>4. /\ \A t \in Targets : Command[t] = Written(t)
      /\ Command.switch = request.switch
  BY DEF Command, Targets
<1>5. Command \in Commands
  <2>1. Written("temp") \in Held["temp"] /\ Written("hum") \in Held["hum"]
    BY <1>3 DEF Targets
  <2>2. request.switch \in {"keep", "on", "off"}
    BY <1>0, ChangedParts
  <2> QED
    BY <2>1, <2>2 DEF Command, Commands
<1>6. \A t \in Targets : t \notin doubtful => Command[t] = intended[t]
  BY <1>0, <1>1, <1>2, <1>4 DEF AskedFor, ReadAsIntended, Targets
<1>7. ~blind => \A t \in Targets : Command[t] = Garbage \/ Asked(t, Command[t])
  BY <1>0, <1>1, <1>2, <1>4, ChangedParts DEF OnlyAskedFor, Asked
<1> QED
  BY <1>0, <1>1, <1>2, <1>4, <1>5, <1>6, <1>7

\* A command that is sent makes the chamber have what was asked for; one that
\* is lost leaves what it was to change in doubt.
LEMMA WriteKeeps == ASSUME ClimateInv, Write PROVE ClimateInv'
<1>0. /\ TypeOK /\ OnItsWay /\ AskedFor /\ OnlyAskedFor
      /\ pc = "write" /\ pc' = "idle" /\ request' = None /\ kept' = <<>>
      /\ UNCHANGED <<chamber, val, toRead, intended, misread, cuts, panel>>
  BY DEF ClimateInv, Write
<1>1. DOMAIN kept' = {} /\ Pending' = {} /\ Pending = Changes(request)
  BY <1>0 DEF Pending
<1>2. ReadAsIntended' /\ AskedFor' /\ ReadsBeforeWrite'
  BY <1>0, <1>1 DEF ReadAsIntended, AskedFor, ReadsBeforeWrite
<1>3. CASE /\ Len(onWay) < MaxOnWay
           /\ onWay' = Append(onWay, Command)
           /\ blind' = (blind \/ \E t \in Targets : Command[t] = Garbage)
           /\ UNCHANGED doubtful
  <2>1. onWay \in Seq(Commands) /\ Command \in Commands /\ Len(onWay) \in Nat
    BY <1>0, CommandSays DEF TypeOK
  <2>2. /\ onWay' \in Seq(Commands) /\ onWay' # <<>>
        /\ Len(onWay') = Len(onWay) + 1
        /\ \A i \in 1..Len(onWay) : onWay'[i] = onWay[i]
        /\ onWay'[Len(onWay) + 1] = Command
    BY <1>3, <2>1, Sent
  <2>3. TypeOK'
    <3>1. Len(onWay') <= MaxOnWay
      BY <1>3, <2>1, <2>2, ChamberAssumption
    <3>2. blind' \in BOOLEAN
      BY <1>0, <1>3 DEF TypeOK
    <3> QED
      BY <1>0, <1>1, <1>3, <2>2, <3>1, <3>2 DEF TypeOK
  <2>4. OnItsWay'
    <3>1. \A t \in Targets : TargetTo(t)' = Command[t]
      BY <2>2 DEF TargetTo
    <3>2. \A t \in Targets \ (doubtful' \cup Pending') : TargetTo(t)' = intended'[t]
      BY <1>0, <1>3, <3>1, CommandSays
    <3>3. ASSUME "power" \notin doubtful
          PROVE  PowerTo(intended.power)'
      <4>1. CASE "power" \in Changes(request)
        <5>1. intended.power = request.switch
          BY <1>0, <3>3, <4>1 DEF AskedFor
        <5>2. onWay'[Len(onWay')].switch = intended.power /\ Len(onWay') \in 1..Len(onWay')
          BY <1>0, <2>1, <2>2, <5>1, CommandSays
        <5>3. KeepsFrom(Len(onWay) + 1)'
          BY <2>1, <2>2 DEF KeepsFrom
        <5> QED
          BY <1>0, <5>2, <5>3 DEF PowerTo
      <4>2. CASE "power" \notin Changes(request)
        <5>1. onWay'[Len(onWay) + 1].switch = "keep"
          BY <1>0, <2>2, <4>2, CommandSays, ChangedParts
        <5>2. \A i \in Nat : KeepsFrom(i) => KeepsFrom(i)'
          BY <2>1, <2>2, <5>1 DEF KeepsFrom
        <5>3. PowerTo(intended.power)
          BY <1>0, <1>1, <3>3, <4>2 DEF OnItsWay
        <5> QED
          BY <1>0, <2>1, <2>2, <5>2, <5>3 DEF PowerTo
      <4> QED
        BY <4>1, <4>2
    <3> QED
      BY <1>3, <3>2, <3>3 DEF OnItsWay
  <2>5. OnlyAskedFor'
    <3> SUFFICES ASSUME ~blind', NEW t \in Targets
                 PROVE  /\ Asked(t, chamber[t])'
                        /\ \A i \in 1..Len(onWay') : Asked(t, onWay'[i][t])
                        /\ val'[NumberOf[t]] = Garbage \/ Asked(t, val[NumberOf[t]])'
      BY <1>0, <1>1 DEF OnlyAskedFor, Asked
    <3>1. ~blind /\ Asked(t, Command[t])
      BY <1>0, <1>3, CommandSays
    <3>2. \A i \in 1..Len(onWay') : i \in 1..Len(onWay) \/ i = Len(onWay) + 1
      BY <2>1, <2>2
    <3>3. \A i \in 1..Len(onWay') : Asked(t, onWay'[i][t])
      BY <1>0, <2>2, <3>1, <3>2 DEF OnlyAskedFor
    <3> QED
      BY <1>0, <1>1, <3>1, <3>3 DEF OnlyAskedFor, Asked
  <2> QED
    BY <1>2, <2>3, <2>4, <2>5 DEF ClimateInv
<1>4. CASE doubtful' = doubtful \cup Changes(request) /\ UNCHANGED <<onWay, blind>>
  <2>1. TypeOK'
    <3>1. Changes(request) \subseteq Parts
      BY <1>0, ChangedParts DEF TypeOK
    <3> QED
      BY <1>0, <1>1, <1>4, <3>1 DEF TypeOK
  <2>2. OnItsWay'
    BY <1>0, <1>1, <1>4 DEF OnItsWay, TargetTo, PowerTo, KeepsFrom
  <2>3. OnlyAskedFor'
    BY <1>0, <1>1, <1>4 DEF OnlyAskedFor, Asked
  <2> QED
    BY <1>2, <2>1, <2>2, <2>3 DEF ClimateInv
<1> QED
  BY <1>3, <1>4 DEF Write

-----------------------------------------------------------------------------
(* The chamber's steps.                                                    *)

\* A command that is carried out changes nothing of what the chamber will have.
LEMMA ObeyKeeps == ASSUME ClimateInv, Obey PROVE ClimateInv'
<1> DEFINE command == Head(onWay)
<1>0. /\ TypeOK /\ OnItsWay /\ OnlyAskedFor
      /\ onWay # <<>> /\ onWay' = Tail(onWay) /\ onWay \in Seq(Commands)
      /\ UNCHANGED <<val, request, pc, toRead, kept, intended, doubtful, misread, blind,
                     cuts, panel>>
  BY DEF ClimateInv, Obey, TypeOK, server, history
<1>1. /\ onWay' \in Seq(Commands) /\ Len(onWay) >= 1 /\ Len(onWay') = Len(onWay) - 1
      /\ Len(onWay) \in Nat
      /\ command = onWay[1] /\ command \in Commands
      /\ \A i \in 1..Len(onWay) - 1 : onWay'[i] = onWay[i + 1]
  BY <1>0, CarriedOut
<1>2. /\ DOMAIN chamber' = Parts
      /\ \A t \in Targets : chamber'[t] = command[t]
      /\ chamber'.power = IF command.switch = "keep" THEN chamber.power ELSE command.switch
  BY DEF Obey, Parts, Targets
<1>3. TypeOK'
  <2>1. Len(onWay') <= MaxOnWay
    BY <1>0, <1>1, ChamberAssumption DEF TypeOK
  <2>2. \A t \in Targets : chamber'[t] \in Held[t]
    BY <1>1, <1>2 DEF Commands, Targets
  <2>3. chamber'.power \in {"on", "off"}
    <3>1. command.switch \in {"keep", "on", "off"}
      BY <1>1 DEF Commands
    <3> QED
      BY <1>0, <1>2, <3>1 DEF TypeOK
  <2> QED
    BY <1>0, <1>1, <1>2, <2>1, <2>2, <2>3 DEF TypeOK
<1>4. OnItsWay'
  <2>1. Pending' = Pending
    BY <1>0 DEF Pending
  <2>2. \A t \in Targets : TargetTo(t)' = TargetTo(t)
    <3>1. CASE Len(onWay) = 1
      <4>1. onWay' = <<>>
        BY <1>1, <3>1
      <4> QED
        BY <1>0, <1>1, <1>2, <3>1, <4>1 DEF TargetTo
    <3>2. CASE Len(onWay) > 1
      <4>1. onWay' # <<>> /\ onWay'[Len(onWay')] = onWay[Len(onWay)]
        BY <1>1, <3>2
      <4> QED
        BY <1>0, <4>1 DEF TargetTo
    <3> QED
      BY <1>1, <3>1, <3>2
  <2>3. \A i \in Nat : KeepsFrom(i + 1) => KeepsFrom(i)'
    BY <1>1 DEF KeepsFrom
  <2>4. ASSUME "power" \notin doubtful' \cup Pending'
        PROVE  PowerTo(intended.power)'
    <3>1. PowerTo(intended.power)
      BY <1>0, <2>1, <2>4 DEF OnItsWay
    <3>2. CASE chamber.power = intended.power /\ KeepsFrom(1)
      <4>1. command.switch = "keep"
        BY <1>1, <3>2 DEF KeepsFrom
      <4>2. KeepsFrom(2)
        BY <1>1, <3>2 DEF KeepsFrom
      <4>3. KeepsFrom(1)'
        BY <2>3, <4>2
      <4> QED
        BY <1>0, <1>2, <3>2, <4>1, <4>3 DEF PowerTo
    <3>3. ASSUME NEW i \in 1..Len(onWay), onWay[i].switch = intended.power, KeepsFrom(i + 1)
          PROVE  PowerTo(intended.power)'
      <4>1. CASE i = 1
        <5>1. chamber'.power = intended.power
          BY <1>0, <1>1, <1>2, <3>3, <4>1 DEF TypeOK
        <5>2. KeepsFrom(1)'
          BY <2>3, <3>3, <4>1
        <5> QED
          BY <1>0, <5>1, <5>2 DEF PowerTo
      <4>2. CASE i > 1
        <5>1. i - 1 \in 1..Len(onWay') /\ onWay'[i - 1] = onWay[i]
          BY <1>1, <4>2
        <5>2. KeepsFrom((i - 1) + 1)'
          BY <2>3, <3>3, <4>2
        <5> QED
          BY <1>0, <3>3, <5>1, <5>2 DEF PowerTo
      <4> QED
        BY <4>1, <4>2
    <3> QED
      BY <3>1, <3>2, <3>3 DEF PowerTo
  <2> QED
    BY <1>0, <2>1, <2>2, <2>4 DEF OnItsWay
<1>5. AskedFor' /\ ReadAsIntended' /\ ReadsBeforeWrite'
  BY <1>0 DEF ClimateInv, AskedFor, ReadAsIntended, ReadsBeforeWrite
<1>6. OnlyAskedFor'
  <2> SUFFICES ASSUME ~blind', NEW t \in Targets
               PROVE  /\ Asked(t, chamber'[t])
                      /\ \A i \in 1..Len(onWay') : Asked(t, onWay'[i][t])
    BY <1>0 DEF OnlyAskedFor, Asked
  <2>1. \A i \in 1..Len(onWay) : Asked(t, onWay[i][t])
    BY <1>0 DEF OnlyAskedFor
  <2> QED
    BY <1>1, <1>2, <2>1
<1> QED
  BY <1>3, <1>4, <1>5, <1>6 DEF ClimateInv

\* A change at the panel is what is now asked for, and in doubt while a request
\* or a command may undo it.
LEMMA PanelKeeps ==
    ASSUME ClimateInv, NEW p \in Parts, NEW v, Panel(p, v),
           p \in Targets => v \in Values[p], p = "power" => v \in {"on", "off"}
    PROVE  ClimateInv'
<1>0. /\ TypeOK /\ OnItsWay /\ AskedFor /\ ReadAsIntended /\ ReadsBeforeWrite /\ OnlyAskedFor
      /\ UNCHANGED <<onWay, val, request, pc, toRead, kept, misread, blind, cuts>>
      /\ panel < MaxPanel /\ panel' = panel + 1
      /\ doubtful' = IF pc # "idle" \/ onWay # <<>> THEN doubtful \cup {p} ELSE doubtful \ {p}
  BY DEF ClimateInv, Panel, server
<1>1. /\ DOMAIN chamber' = Parts /\ chamber'[p] = v
      /\ \A q \in Parts : q # p => chamber'[q] = chamber[q]
      /\ DOMAIN intended' = Parts /\ intended'[p] = v
      /\ \A q \in Parts : q # p => intended'[q] = intended[q]
  BY <1>0 DEF Panel, TypeOK
<1>2. Targets \subseteq Parts /\ "power" \in Parts /\ \A t \in Targets : t # "power"
  BY DEF Targets, Parts
<1>3. TypeOK'
  <2>1. panel' \in 0..MaxPanel
    BY <1>0, ChamberAssumption DEF TypeOK
  <2>2. \A t \in Targets : chamber'[t] \in Held[t] /\ intended'[t] \in Values[t]
    BY <1>0, <1>1, <1>2, HeldValues DEF TypeOK
  <2>3. chamber'.power \in {"on", "off"} /\ intended'.power \in {"on", "off"}
    BY <1>0, <1>1, <1>2 DEF TypeOK
  <2>4. doubtful' \subseteq Parts
    BY <1>0 DEF TypeOK
  <2> QED
    BY <1>0, <1>1, <2>1, <2>2, <2>3, <2>4 DEF TypeOK
<1>4. OnItsWay'
  <2>1. Pending' = Pending
    BY <1>0 DEF Pending
  <2>2. CASE pc # "idle" \/ onWay # <<>>
    <3>1. doubtful' = doubtful \cup {p}
      BY <1>0, <2>2
    <3>2. \A t \in Targets \ (doubtful' \cup Pending') : TargetTo(t)' = intended'[t]
      BY <1>0, <1>1, <1>2, <2>1, <3>1 DEF OnItsWay, TargetTo
    <3>3. ASSUME "power" \notin doubtful' \cup Pending'
          PROVE  PowerTo(intended.power)'
      <4>1. "power" # p /\ PowerTo(intended.power)
        BY <1>0, <2>1, <3>1, <3>3 DEF OnItsWay
      <4>2. intended'.power = intended.power /\ chamber'.power = chamber.power
        BY <1>1, <1>2, <4>1
      <4> QED
        BY <1>0, <4>1, <4>2 DEF PowerTo, KeepsFrom
    <3> QED
      BY <3>2, <3>3 DEF OnItsWay
  <2>3. CASE pc = "idle" /\ onWay = <<>>
    <3>1. doubtful' = doubtful \ {p} /\ Pending = {} /\ Len(onWay) = 0
      BY <1>0, <2>3 DEF Pending
    <3>2. \A t \in Targets \ (doubtful' \cup Pending') : TargetTo(t)' = intended'[t]
      BY <1>0, <1>1, <1>2, <2>1, <2>3, <3>1 DEF OnItsWay, TargetTo
    <3>3. ASSUME "power" \notin doubtful' \cup Pending'
          PROVE  PowerTo(intended.power)'
      <4>1. KeepsFrom(1)'
        BY <1>0, <3>1 DEF KeepsFrom
      <4>2. chamber'.power = intended'.power
        <5>1. CASE p = "power"
          BY <1>1, <5>1
        <5>2. CASE p # "power"
          BY <1>0, <1>1, <1>2, <2>1, <3>1, <3>3, <5>2 DEF OnItsWay, PowerTo
        <5> QED
          BY <5>1, <5>2
      <4> QED
        BY <4>1, <4>2 DEF PowerTo
    <3> QED
      BY <3>2, <3>3 DEF OnItsWay
  <2> QED
    BY <2>2, <2>3
<1>5. AskedFor'
  <2>1. pc # "idle" => Changes(request) \subseteq Parts
    BY <1>0, ChangedParts DEF TypeOK
  <2> QED
    BY <1>0, <1>1, <2>1 DEF AskedFor
<1>6. ReadAsIntended'
  BY <1>0, <1>1, <1>2 DEF ReadAsIntended, TypeOK
<1>7. ReadsBeforeWrite'
  BY <1>0 DEF ReadsBeforeWrite
<1>8. OnlyAskedFor'
  BY <1>0, <1>1, <1>2 DEF OnlyAskedFor, Asked
<1> QED
  BY <1>3, <1>4, <1>5, <1>6, <1>7, <1>8 DEF ClimateInv

-----------------------------------------------------------------------------
(* The theorems.                                                           *)

\* Every step keeps the invariant.
LEMMA NextClimateInv == ClimateInv /\ [Next]_vars => ClimateInv'
<1> SUFFICES ASSUME ClimateInv, [Next]_vars
             PROVE  ClimateInv'
  OBVIOUS
<1>1. ASSUME NEW r \in Requests, Request(r) PROVE ClimateInv'
  BY <1>1, RequestKeeps
<1>2. ASSUME NEW got \in Parcels, Read(got) PROVE ClimateInv'
  BY <1>2, ReadKeeps
<1>3. CASE Write
  BY <1>3, WriteKeeps
<1>4. CASE Obey
  BY <1>4, ObeyKeeps
<1>5. ASSUME NEW t \in Targets, NEW v \in Values[t], Panel(t, v) PROVE ClimateInv'
  BY <1>5, PanelKeeps DEF Targets, Parts
<1>6. ASSUME NEW v \in {"on", "off"}, Panel("power", v) PROVE ClimateInv'
  BY <1>6, PanelKeeps DEF Targets, Parts
<1>7. CASE UNCHANGED vars
  BY <1>7 DEF vars, server, history, ClimateInv, TypeOK, OnItsWay, Pending, TargetTo, PowerTo,
              KeepsFrom, AskedFor, ReadAsIntended, ReadsBeforeWrite, OnlyAskedFor, Asked
<1> QED
  BY <1>1, <1>2, <1>3, <1>4, <1>5, <1>6, <1>7 DEF Next

\* The invariant holds in every behaviour.
LEMMA ClimateInvHolds == Spec => []ClimateInv
<1> QED
  BY InitClimateInv, NextClimateInv, PTL DEF Spec

\* The variables keep their types: in particular a handler has read every target
\* that it writes back.
THEOREM TypeCorrect == Spec => []TypeOK
<1>1. ClimateInv => TypeOK
  BY DEF ClimateInv
<1> QED
  BY <1>1, ClimateInvHolds, PTL

\* When nothing is in progress the chamber has what was last asked for of every
\* part that no loss, cut report, early read or concurrent change put in doubt
\* (serial_spyserv_DEV.C:786, 829).
THEOREM ChamberHasWhatWasAsked == Spec => []TargetsAsIntended
<1>1. ClimateInv => TargetsAsIntended
  <2> SUFFICES ASSUME ClimateInv, pc = "idle", onWay = <<>>, NEW p \in Parts \ doubtful
               PROVE  chamber[p] = intended[p]
    BY DEF TargetsAsIntended
  <2>1. OnItsWay /\ Pending = {} /\ Len(onWay) = 0
    BY DEF ClimateInv, Pending
  <2>2. p \in Targets \/ p = "power"
    BY DEF Parts
  <2> QED
    BY <2>1, <2>2 DEF OnItsWay, TargetTo, PowerTo
<1> QED
  BY <1>1, ClimateInvHolds, PTL

\* Unless a member was written to it unassigned, the chamber is given no target
\* that nobody asked for but what a cut report left of one
\* (serial_spyserv_DEV.C:981-987).
THEOREM NoTargetInvented == Spec => []NothingInvented
<1>1. ClimateInv => NothingInvented
  BY DEF ClimateInv, OnlyAskedFor, Asked, NothingInvented
<1> QED
  BY <1>1, ClimateInvHolds, PTL
===============================================================================
