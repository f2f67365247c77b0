---------------------------- MODULE ClimateChamber ----------------------------
(***************************************************************************)
(* The climate chamber behind the slow control server: CCtalk and the      *)
(* requests that call it.  The chamber takes both targets at once, so a    *)
(* set of one target reads the other and writes it back, each over a       *)
(* connection of its own; what is written is not confirmed.  Meanwhile     *)
(* targets are also changed at the chamber's panel.  Values are whole      *)
(* degrees and per cent.                                                   *)
(***************************************************************************)
EXTENDS Integers, Sequences

CONSTANTS
    Values,     \* per target, the values that are asked for
    Measured,   \* per target, what the chamber measures
    AtStart,    \* the states in which the server may find the chamber
    Garbage,    \* what a member of the server holds before it is assigned
    MaxOnWay,   \* bound: commands on their way
    MaxCuts,    \* bound: reports that end within a number
    MaxPanel    \* bound: changes at the panel

VARIABLES
    chamber,    \* the chamber's targets and whether it is on
    onWay,      \* commands that were sent and not yet carried out, oldest first
    val,        \* val_one to val_four of the server
    request,    \* the request being handled
    pc,         \* "idle", "read" or "write"
    toRead,     \* the answers the handler still asks for, by their number
    kept,       \* what it read
    intended,   \* history: per target, what was last asked for
    doubtful,   \* history: targets that may differ from it
    misread,    \* history: targets of which a report had no more than the first digits
    blind,      \* history: a member was written to the chamber unassigned
    cuts,       \* reports that ended within a number so far
    panel       \* changes at the panel so far

server  == <<val, request, pc, toRead, kept>>
history == <<intended, doubtful, misread, blind>>
vars    == <<chamber, onWay, server, history, cuts, panel>>

Targets == {"temp", "hum"}
Parts   == Targets \cup {"power"}

\* The numbers under which CCtalk answers the targets and the measured values.
NumberOf     == [temp |-> 1, hum |-> 3]
MeasuredAs   == [temp |-> 2, hum |-> 4]
TargetOf(n)  == IF n \in 1..2 THEN "temp" ELSE "hum"

\* The chamber is found with targets that someone asked for.
ASSUME ChamberAssumption ==
    /\ \A c \in AtStart : /\ DOMAIN c = Parts /\ c.power \in {"on", "off"}
                         /\ \A t \in Targets : c[t] \in Values[t]
    /\ \A t \in Targets : Values[t] \subseteq Int /\ Measured[t] \in Int
    /\ Garbage \notin Int
    /\ MaxOnWay \in Nat /\ MaxCuts \in Nat /\ MaxPanel \in Nat

Other(t) == IF t = "temp" THEN "hum" ELSE "temp"

\* The dewpoint is calculated from both measured values.
Requests ==
    [op : {"get"}, numbers : {<<1>>, <<2>>, <<3>>, <<4>>, <<2, 4>>}]
        \cup [op : {"switch"}, switch : {"on", "off"}]
        \cup UNION {[op : {"set"}, target : {t}, value : Values[t],
                     switch : {"keep", "on", "off"}] : t \in Targets}

None == [op |-> "none"]

\* What a number may be cut to.
Span(v) == IF v < 0 THEN v..0 ELSE 0..v

\* What a member of the server may hold, or a command say, of a target.
Held == [t \in Targets |-> {Garbage} \cup UNION {Span(v) : v \in Values[t] \cup {Measured[t]}}]

Commands == [temp : Held["temp"], hum : Held["hum"], switch : {"keep", "on", "off"}]

TypeOK ==
    /\ DOMAIN chamber = Parts /\ DOMAIN intended = Parts
    /\ \A t \in Targets : chamber[t] \in Held[t] /\ intended[t] \in Values[t]
    /\ chamber.power \in {"on", "off"} /\ intended.power \in {"on", "off"}
    /\ onWay \in Seq(Commands) /\ Len(onWay) <= MaxOnWay
    /\ \A n \in 1..4 : val[n] \in Held[TargetOf(n)]
    /\ pc \in {"idle", "read", "write"}
    /\ request \in IF pc = "idle" THEN {None} ELSE Requests
    /\ DOMAIN kept \subseteq Targets /\ \A t \in DOMAIN kept : kept[t] \in Held[t]
    /\ doubtful \subseteq Parts /\ misread \subseteq Targets
    /\ blind \in BOOLEAN
    /\ cuts \in 0..MaxCuts /\ panel \in 0..MaxPanel

Init ==
    /\ chamber \in AtStart
    /\ onWay = <<>>
    /\ val = [n \in 1..4 |-> Garbage]
    /\ request = None
    /\ pc = "idle" /\ toRead = <<>> /\ kept = <<>>
    /\ intended = chamber
    /\ doubtful = {} /\ misread = {} /\ blind = FALSE
    /\ cuts = 0 /\ panel = 0

-----------------------------------------------------------------------------
\* A slip for comparison: a set reads the measured value of the other target.
ReadsMeasured(r) == CASE r.op = "get"    -> r.numbers
                      [] r.op = "set"    -> <<MeasuredAs[Other(r.target)]>>
                      [] r.op = "switch" -> <<NumberOf["temp"], NumberOf["hum"]>>

\* What a handler reads first: a get its values, a set of one target the other
\* one, switching the chamber on or off both targets.
Reads(r) == CASE r.op = "get"    -> r.numbers
              [] r.op = "set"    -> <<NumberOf[Other(r.target)]>>
              [] r.op = "switch" -> <<NumberOf["temp"], NumberOf["hum"]>>

\* What a request is to change.
Changes(r) == (IF r.op = "set" THEN {r.target} ELSE {})
                \cup (IF r.op = "get" \/ r.switch = "keep" THEN {} ELSE {"power"})

Request(r) ==
    /\ pc = "idle"
    /\ request' = r
    /\ pc' = "read"
    /\ toRead' = Reads(r)
    /\ intended' = [p \in Parts |-> IF p \notin Changes(r) THEN intended[p]
                                    ELSE IF p = "power" THEN r.switch ELSE r.value]
    /\ doubtful' = doubtful \ Changes(r)
    /\ UNCHANGED <<chamber, onWay, val, kept, misread, blind, cuts, panel>>

Report == <<chamber.temp, Measured.temp, chamber.hum, Measured.hum>>

\* What a number without its last digits is read as.
Prefixes(v) ==
    IF v = Garbage THEN {Garbage}
    ELSE {IF v < 0 THEN -((-v) \div n) ELSE v \div n : n \in {10, 100, 1000}}

\* The numbers of the report that come: it ends after any of them, or within
\* one.  None come if the connection is refused or closed.
Parcels == {SubSeq(Report, 1, k) : k \in 0..4}
             \cup UNION {{SubSeq(Report, 1, k) \o <<v>> : v \in Prefixes(Report[k + 1])} :
                          k \in 0..3}

\* A slip for comparison: the first value is not read into a member.
ScanSkipping(got) == val' = [n \in 1..4 |-> IF n < Len(got) THEN got[n + 1] ELSE val[n]]

\* A member for which no number came keeps the value it had.
Scan(got) == val' = [n \in 1..4 |-> IF n <= Len(got) THEN got[n] ELSE val[n]]

\* Did the n-th number come as the chamber has it?
Whole(n, got) == n <= Len(got) /\ got[n] = Report[n]

\* CCtalk without set_mode.
Read(got) ==
    /\ pc = "read"
    /\ Scan(got)
    /\ cuts' = IF got = SubSeq(Report, 1, Len(got)) THEN cuts ELSE cuts + 1
    /\ cuts' <= MaxCuts
    /\ misread' = misread \cup {t \in Targets : /\ NumberOf[t] <= Len(got)
                                                /\ ~Whole(NumberOf[t], got)}
    /\ IF request.op = "get" THEN UNCHANGED <<kept, doubtful>>
       ELSE LET n == Head(toRead)
                t == TargetOf(n)
            IN  /\ kept' = [p \in {t} \cup DOMAIN kept |-> IF p = t THEN val'[n] ELSE kept[p]]
                /\ doubtful' = IF ~Whole(n, got) \/ onWay # <<>> THEN doubtful \cup {t}
                                                                ELSE doubtful
    /\ toRead' = Tail(toRead)
    /\ pc' = IF Len(toRead) > 1 THEN "read"
             ELSE IF request.op = "get" THEN "idle" ELSE "write"
    /\ request' = IF pc' = "idle" THEN None ELSE request
    /\ UNCHANGED <<chamber, onWay, intended, blind, panel>>

\* What the set string says of a target.
Written(t) == IF request.op = "set" /\ t = request.target THEN request.value ELSE kept[t]

\* A slip for comparison: every command switches the chamber on.
CommandSwitching == [temp |-> Written("temp"), hum |-> Written("hum"),
                     switch |-> IF request.switch = "keep" THEN "on" ELSE request.switch]

\* "01" leaves the chamber on or off, the long strings switch it.
Command == [temp |-> Written("temp"), hum |-> Written("hum"), switch |-> request.switch]

\* CCtalk in set_mode: the report is asked for and ignored, the string is sent,
\* the connection is closed.  The string is lost if there is no connection.
Write ==
    /\ pc = "write"
    /\ pc' = "idle" /\ request' = None /\ kept' = <<>>
    /\ \/ /\ Len(onWay) < MaxOnWay
          /\ onWay' = Append(onWay, Command)
          /\ blind' = (blind \/ \E t \in Targets : Command[t] = Garbage)
          /\ UNCHANGED doubtful
       \/ /\ doubtful' = doubtful \cup Changes(request)
          /\ UNCHANGED <<onWay, blind>>
    /\ UNCHANGED <<chamber, val, toRead, intended, misread, cuts, panel>>

-----------------------------------------------------------------------------
\* The chamber carries out a command.
Obey ==
    /\ onWay # <<>>
    /\ onWay' = Tail(onWay)
    /\ LET command == Head(onWay) IN
       chamber' = [p \in Parts |-> IF p \in Targets THEN command[p]
                                  ELSE IF command.switch = "keep" THEN chamber.power
                                                                  ELSE command.switch]
    /\ UNCHANGED <<server, history, cuts, panel>>

\* Someone changes a target, or switches, at the chamber.  While a handler is
\* between its read and the end of its write, either one may win.
Panel(p, v) ==
    /\ panel < MaxPanel
    /\ panel' = panel + 1
    /\ chamber' = [chamber EXCEPT ![p] = v]
    /\ intended' = [intended EXCEPT ![p] = v]
    /\ doubtful' = IF pc # "idle" \/ onWay # <<>> THEN doubtful \cup {p}
                                                 ELSE doubtful \ {p}
    /\ UNCHANGED <<onWay, server, misread, blind, cuts>>

Next == \/ \E r \in Requests : Request(r)
        \/ \E got \in Parcels : Read(got)
        \/ Write
        \/ Obey
        \/ \E t \in Targets : \E v \in Values[t] : Panel(t, v)
        \/ \E v \in {"on", "off"} : Panel("power", v)

Spec == Init /\ [][Next]_vars

-----------------------------------------------------------------------------
\* When nothing is in progress the chamber has every target that was last asked
\* for, whatever other target was set since, unless a command for it was lost,
\* the report it was read from was cut or came before an earlier command was
\* carried out, or it was changed at the panel during the exchange
\* (serial_spyserv_DEV.C:786, 829: read one target, write both).
TargetsAsIntended ==
    pc = "idle" /\ onWay = <<>> =>
        \A p \in Parts \ doubtful : chamber[p] = intended[p]

\* Reports may be cut and commands lost: still, as long as no set was made before
\* a report had come, the chamber is given no target that nobody ever asked for,
\* unless a report once ended within that target's number.  What was read then
\* may be written back, and cut again: it never exceeds a value that was asked
\* for, and keeps its sign (serial_spyserv_DEV.C:976, 981-987).
NothingInvented ==
    ~blind => \A t \in Targets :
        \E v \in Values[t] : \/ chamber[t] = v
                             \/ t \in misread /\ chamber[t] \in Span(v)
=============================================================================
