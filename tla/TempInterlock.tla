---------------------------- MODULE TempInterlock ----------------------------
(***************************************************************************)
(* TempInterlock of compatible.cc: temperatures read from the interlock    *)
(* over the serial line, all channels at once, and kept for five seconds.  *)
(* Instants are only compared with time(0), so the model keeps ages in     *)
(* seconds, up to Limit.                                                   *)
(***************************************************************************)
EXTENDS Integers

CONSTANTS
    Channels,       \* channels of the interlock that are asked for
    Temps,          \* temperatures the sensors may have
    BadReading,     \* what a sensor shows in a glitch
    MaxGlitches,    \* bound: bad readings in a behaviour
    MaxFailures     \* bound: answers that are missing or cut

ASSUME InterlockAssumption ==
    /\ Channels \subseteq Int
    /\ Temps \subseteq Int /\ BadReading \in Int
    /\ MaxGlitches \in Nat /\ MaxFailures \in Nat

VARIABLES
    sinceUpdate,    \* time(0) - lastUpdateTime
    lastTempVec,    \* the vector, as a function of the channels it reaches
    actual,         \* the temperatures, per channel
    dataAge,        \* history: seconds since lastTempVec was replaced
    updateFailed,   \* history: the last update did not read its own answer
    late,           \* what of an earlier answer comes when the next is awaited
    glitches,       \* bad readings so far
    failures        \* missing or cut answers so far

cache == <<sinceUpdate, lastTempVec, dataAge, updateFailed, late>>
tiVars == <<cache, actual, glitches, failures>>

KeepSeconds == 5
Limit       == 2 * KeepSeconds + 2
NoVector    == [c \in {} |-> 0]
ErrorTemp   == -3000

\* What a number without its last digits is read as.
Shortened(v) == {IF v < 0 THEN -((-v) \div n) ELSE v \div n : n \in {10, 100, 1000}}

\* The numbers a vector may hold.
Shown == LET Sent == Temps \cup {BadReading} IN Sent \cup UNION {Shortened(t) : t \in Sent}

TITypeOK ==
    /\ sinceUpdate \in 0..Limit
    /\ \A w \in late \cup {lastTempVec} :
          DOMAIN w \subseteq Channels /\ \A c \in DOMAIN w : w[c] \in Shown
    /\ \A v, w \in late : v = w
    /\ actual \in [Channels -> Temps]
    /\ dataAge \in 0..Limit
    /\ updateFailed \in BOOLEAN
    /\ glitches \in 0..MaxGlitches
    /\ failures \in 0..MaxFailures

\* lastUpdateTime is 0: long ago.
TIInit ==
    /\ sinceUpdate = Limit
    /\ lastTempVec = NoVector
    /\ actual \in [Channels -> Temps]
    /\ dataAge = Limit
    /\ updateFailed = FALSE
    /\ late = {}
    /\ glitches = 0 /\ failures = 0

\* The interlock's answer to "idr, 100", perhaps with one bad reading in it.
Measured == {actual} \cup {[actual EXCEPT ![c] = BadReading] : c \in Channels}

\* The beginnings of an answer: the channels before c, and c without its last
\* digits if any of it came.
Beginnings(own) ==
    LET Before(c) == {d \in Channels : d < c}
    IN  UNION {{[d \in Before(c) |-> own[d]]}
                 \cup {[d \in Before(c) \cup {c} |-> IF d = c THEN v ELSE own[d]] :
                            v \in Shortened(own[c])} : c \in Channels}

\* The answer is read whole; the rest of a cut one before it is skipped, up to
\* the colon.
ReadsOwn(own) ==
    /\ late \subseteq {NoVector}
    /\ lastTempVec' = own
    /\ dataAge' = 0 /\ updateFailed' = FALSE /\ late' = {}
    /\ UNCHANGED failures

\* An answer that came too late is read instead, alone or with the own one
\* behind it, and taken for the one to this command; so is the rest of a cut one.
ReadsLate(own) ==
    /\ late # {} /\ lastTempVec' \in late
    /\ late' = {own} \/ (NoVector \notin late /\ late' = {})
    /\ dataAge' = sinceUpdate /\ updateFailed' = TRUE
    /\ UNCHANGED failures

\* Only the beginning is read; the rest is lost or comes later.
ReadsBeginning(own) ==
    /\ late = {}
    /\ lastTempVec' \in Beginnings(own)
    /\ late' \in {{}, {NoVector}} \/ (lastTempVec' = NoVector /\ late' = {own})
    /\ dataAge' = 0 /\ updateFailed' = FALSE
    /\ failures < MaxFailures /\ failures' = failures + 1

\* Nothing is read, and the vector stays; the answer is lost or comes later.
ReadsNothing(own) ==
    /\ late = {}
    /\ late' \in {{}, {own}}
    /\ updateFailed' = TRUE
    /\ failures < MaxFailures /\ failures' = failures + 1
    /\ UNCHANGED <<lastTempVec, dataAge>>

\* UpdateTempVec: "idr, 100", the only command there is, and what is read then.
UpdateTempVec ==
    \E own \in Measured :
        /\ glitches' = IF own = actual THEN glitches ELSE glitches + 1
        /\ glitches' <= MaxGlitches
        /\ ReadsOwn(own) \/ ReadsLate(own) \/ ReadsBeginning(own) \/ ReadsNothing(own)

\* Slips for comparison: lastUpdateTime holds the instant of expiry; each call
\* renews lastUpdateTime.
GetTempStampingAhead(c, r) ==
    /\ IF sinceUpdate > 0
       THEN UpdateTempVec /\ sinceUpdate' = -KeepSeconds
       ELSE UNCHANGED <<cache, glitches, failures>>
    /\ r = IF c \in DOMAIN lastTempVec' THEN lastTempVec'[c] ELSE ErrorTemp
    /\ UNCHANGED actual
GetTempRenewing(c, r) ==
    /\ IF sinceUpdate > KeepSeconds
       THEN UpdateTempVec
       ELSE UNCHANGED <<lastTempVec, dataAge, updateFailed, late, glitches, failures>>
    /\ sinceUpdate' = 0
    /\ r = IF c \in DOMAIN lastTempVec' THEN lastTempVec'[c] ELSE ErrorTemp
    /\ UNCHANGED actual

\* getTemp(c) returns r.  The instant of the update is stored whether or not
\* UpdateTempVec succeeded.
GetTemp(c, r) ==
    /\ IF sinceUpdate > KeepSeconds
       THEN UpdateTempVec /\ sinceUpdate' = 0
       ELSE UNCHANGED <<cache, glitches, failures>>
    /\ r = IF c \in DOMAIN lastTempVec' THEN lastTempVec'[c] ELSE ErrorTemp
    /\ UNCHANGED actual

\* A second goes by, and a temperature may change.
Later(age) == IF age < Limit THEN age + 1 ELSE age

Second ==
    /\ sinceUpdate' = Later(sinceUpdate)
    /\ dataAge' = Later(dataAge)
    /\ actual' \in {actual} \cup {[actual EXCEPT ![c] = t] : c \in Channels, t \in Temps}
    /\ UNCHANGED <<lastTempVec, updateFailed, late, glitches, failures>>
=============================================================================
