-------------------------- MODULE SlowControlAlarms --------------------------
(***************************************************************************)
(* The colours of SlowControlClient.C, and of its twin for the climate     *)
(* chamber.  Each round asks the server for one quantity after the other,  *)
(* while they go on changing, and then paints the canvas and the labels    *)
(* over, one condition after the other.                                    *)
(***************************************************************************)
EXTENDS Integers

CONSTANTS
    Hybrids,    \* temperatures of a hybrid
    Dewpoints,  \* dewpoints at the chuck, and perhaps NaN
    NaN,        \* the dewpoint calculated of a humidity of 0
    MaxMoves    \* bound: the sum of all changes during a round

VARIABLES
    actual,     \* the temperatures of the hybrids and the dewpoint
    read,       \* what the requests of this round returned
    due,        \* the next request, or "paint", or "shown"
    canvas,     \* the colour of the canvas
    label,      \* the colours of the labels
    moved,      \* the sum of all changes since the round began
    failed      \* a request of this round got no answer

vars == <<actual, read, due, canvas, label, moved, failed>>

Quantities == {"h1", "h2", "dew"}
Colours    == {"green", "orange", "red", "blue"}

ValuesOf(q) == IF q = "dew" THEN Dewpoints ELSE Hybrids

ASSUME AlarmsAssumption ==
    /\ Hybrids \subseteq Int /\ Dewpoints \subseteq Int \cup {NaN}
    /\ NaN \notin Int
    /\ MaxMoves \in Nat

\* What the quantities may be.
Worlds == {w \in [Quantities -> Hybrids \cup Dewpoints] :
               \A q \in Quantities : w[q] \in ValuesOf(q)}

\* A slip for comparison: Request returns what it set measured_value to.
FailedUnset == -999

\* What Request returns if the server is gone.
Failed == -1

TypeOK ==
    /\ actual \in Worlds
    /\ read \in [Quantities -> Hybrids \cup Dewpoints \cup {-1}]
    /\ \A q \in Quantities : read[q] \in ValuesOf(q) \cup {-1}
    /\ label \in [Quantities -> Colours]
    /\ due \in Quantities \cup {"paint", "shown"}
    /\ canvas \in Colours \cup {"white"}
    /\ moved \in 0..MaxMoves
    /\ failed \in BOOLEAN

NothingRead == [q \in Quantities |-> -1]

Init ==
    /\ actual \in Worlds
    /\ read = NothingRead
    /\ due = "h1"
    /\ canvas = "white" /\ label = [q \in Quantities |-> "green"]
    /\ moved = 0 /\ failed = FALSE

-----------------------------------------------------------------------------
Following == [h1 |-> "h2", h2 |-> "dew", dew |-> "paint"]

\* mySpy->Request of the quantity that is due.
Request ==
    /\ due \in Quantities
    /\ \/ read' = [read EXCEPT ![due] = actual[due]] /\ UNCHANGED failed
       \/ read' = [read EXCEPT ![due] = Failed] /\ failed' = TRUE
    /\ due' = Following[due]
    /\ UNCHANGED <<actual, canvas, label, moved>>

Distance(a, b) == IF a < b THEN b - a ELSE a - b

\* A quantity changes between two requests.
Move(q, v) ==
    /\ due # "shown"
    /\ actual[q] # NaN /\ v # NaN
    /\ moved' = moved + Distance(v, actual[q])
    /\ moved' <= MaxMoves
    /\ actual' = [actual EXCEPT ![q] = v]
    /\ UNCHANGED <<read, due, canvas, label, failed>>

-----------------------------------------------------------------------------
\* A slip for comparison: the alarm is tested before the warning.
ByDewpointReversed(t, old) ==
    IF t <= -55 \/ read.dew = NaN THEN old
    ELSE IF t - 5 <= read.dew THEN "orange"
    ELSE IF t - 3 <= read.dew THEN "red" ELSE "green"

\* A slip for comparison: nothing paints it green again.
ByDewpointSticky(t, old) ==
    IF t <= -55 \/ read.dew = NaN THEN old
    ELSE IF t - 3 <= read.dew THEN "red"
    ELSE IF t - 5 <= read.dew THEN "orange" ELSE old

\* A slip for comparison: what is not too close is taken for far enough.
ByDewpointNegated(t, old) ==
    IF t <= -55 THEN old
    ELSE IF read.dew = NaN THEN "green"
    ELSE IF t - 3 <= read.dew THEN "red"
    ELSE IF t - 5 <= read.dew THEN "orange" ELSE "green"

\* Three conditions in a row; none of them holds of NaN.
ByDewpoint(t, old) ==
    IF t <= -55 \/ read.dew = NaN THEN old
    ELSE IF t - 3 <= read.dew THEN "red"
    ELSE IF t - 5 <= read.dew THEN "orange" ELSE "green"

ByHeat(t, old) == IF t > 48 THEN "red" ELSE IF t > 38 THEN "orange" ELSE old

\* What the conditions on one hybrid leave of the canvas.
Over(t, old) == ByHeat(t, ByDewpoint(t, old))

BothUnreal == read.h1 < -50 /\ read.h2 < -50

\* The canvas and the labels.  The label of a hybrid loses its dewpoint colour
\* to the last condition on its heat.
Paint ==
    /\ due = "paint"
    /\ due' = "shown"
    /\ canvas' = IF BothUnreal THEN "blue" ELSE Over(read.h2, Over(read.h1, canvas))
    /\ label' = IF BothUnreal THEN [q \in Quantities |-> "blue"]
                ELSE [q \in Quantities |->
                         IF q = "dew"
                         THEN ByDewpoint(read.h2, ByDewpoint(read.h1, label.dew))
                         ELSE ByHeat(read[q], "green")]
    /\ UNCHANGED <<actual, read, moved, failed>>

\* After half a second the next round begins; anything may have changed.
Round ==
    /\ due = "shown"
    /\ due' = "h1"
    /\ actual' \in Worlds
    /\ read' = NothingRead
    /\ moved' = 0 /\ failed' = FALSE
    /\ UNCHANGED <<canvas, label>>

Next == \/ Request \/ Paint \/ Round
        \/ \E q \in Quantities : \E v \in ValuesOf(q) : Move(q, v)

Spec == Init /\ [][Next]_vars

-----------------------------------------------------------------------------
InDanger(t) ==
    \/ actual[t] - moved > 48
    \/ /\ actual[t] - moved >= -50
       /\ actual[t] + moved <= 38
       /\ actual.dew # NaN
       /\ actual[t] + moved - actual.dew <= 3

\* However far apart its temperature and the dewpoint were read, the canvas is
\* red when hybrid t has overheated, or is too close to the dewpoint, by more
\* than what changed meanwhile.  (Left aside: readings that count as unreal,
\* and a hybrid between 38 and 48, painted orange whatever the dewpoint.)
Alarms(t) == due = "shown" /\ ~failed /\ InDanger(t) => canvas = "red"

\* Hybrid 2's alarm is shown (SlowControlClient.C:241-272).
Hybrid2Alarms == Alarms("h2")

\* Hybrid 1's alarm is shown (SlowControlClient.C:207-240).
Hybrid1Alarms == Alarms("h1")

OutOfDanger(t) ==
    /\ actual[t] - moved >= -50
    /\ actual[t] + moved <= 38
    /\ actual.dew # NaN
    /\ actual[t] - moved - actual.dew > 5

\* No colour outlives its round: when both hybrids are out of danger by more
\* than what changed meanwhile, the canvas and all labels are green, whatever
\* was shown before (SlowControlClient.C:207-284).
NoFalseAlarm ==
    due = "shown" /\ ~failed /\ OutOfDanger("h1") /\ OutOfDanger("h2")
        => canvas = "green" /\ \A q \in Quantities : label[q] = "green"

\* A round whose dewpoint is undefined says nothing of it: the canvas and the
\* label of the dewpoint keep the colour of the round before, be it an alarm or
\* a green that may no longer hold, unless a hybrid is hot or neither is there
\* (SlowControlClient.C:208, 217, 224: no comparison with NaN holds).  The
\* labels of the hybrids are not meant: they tell of heat alone, and turn green
\* in such a round too (SlowControlClient.C:238-240, 271-273).
UndefinedKeepsColours ==
    [][due = "paint" /\ due' = "shown" /\ read.dew = NaN =>
          /\ \/ canvas' = canvas
             \/ canvas' = "blue" /\ BothUnreal
             \/ canvas' \in {"orange", "red"} /\ (read.h1 > 38 \/ read.h2 > 38)
          /\ \/ label'.dew = label.dew
             \/ label'.dew = "blue" /\ BothUnreal]_vars

\* A client that lost its server shows an alarm (serial_spy.C:79-89: the
\* requests return -1, so the temperatures and the dewpoint seem equal).
LostServerAlarms ==
    due = "shown" /\ (\A q \in Quantities : read[q] = Failed) =>
        canvas = "red" /\ label.dew = "red"
=============================================================================
