------------------------------- MODULE HVRamp -------------------------------
(***************************************************************************)
(* The high voltage requests of the slow control server                    *)
(* (SlowControlMon/serial_spyserv_DEV.C: Set_HVVoltage_,                   *)
(* Set_HVVoltageRamp_, Set_HVVoltageSpeedRamp_) driving a Keithley 2410    *)
(* (compatible.cc).  Voltages are in units of 0.1 V.  Each getVoltage()    *)
(* of the code's conditions is a query of its own, so it is a step of its  *)
(* own: the conditions of one loop turn see different readings, and after  *)
(* one that came to nothing those that follow may be late by a query.      *)
(* Readings that are only printed are left out.                            *)
(***************************************************************************)
EXTENDS Integers

CONSTANTS
    Targets,      \* voltages that clients ask for
    MinVoltage,   \* -460.0 V in the code
    MaxVoltage,   \* 0.51 V in the code: 5 in units of 0.1 V
    Starts,       \* set values the instrument may have at first
    Clips,        \* the lowest voltages the load may allow (compliance)
    Noise,        \* a reading is at most this far from the voltage
    SourceRange,  \* the instrument refuses a set value beyond this
    Stale,        \* what state_indicator may hold before it is assigned
    MaxFailures,  \* bound: readings that fail in a behaviour
    MaxRequests   \* bound: requests handled in a behaviour

Abs(v) == IF v < 0 THEN -v ELSE v

\* What clients ask for is within the range of the source; a load in compliance
\* does not hold a voltage up beyond the upper limit, which is above 0.
ASSUME RampAssumption ==
    /\ Noise \in Nat /\ Noise < 5
    /\ MinVoltage \in Int /\ MaxVoltage \in Int /\ MinVoltage < MaxVoltage
    /\ SourceRange \in Nat
    /\ \A v \in Targets : v \in Int /\ Abs(v) <= SourceRange
    /\ Starts \subseteq Int
    /\ \A c \in Clips : c \in Int /\ c <= MaxVoltage
    /\ MaxFailures \in Nat /\ MaxRequests \in Nat

VARIABLES
    pc,               \* the condition or assignment the handler is at
    dir,              \* the branch of the ramp: "lower" or "raise"
    kind,             \* the request: "set", "ramp" or "speed"
    target,           \* targetVoltage
    state_indicator,  \* member of the server: it outlives the request
    level,            \* the instrument's set value
    clip,             \* the lowest voltage the load allows
    late,             \* the voltage of an answer that is still on the line, if any
    failures,         \* readings that got no answer so far
    requests,         \* requests handled so far
    failed,           \* history: a reading of this request failed or was late
    began             \* history: the set value when the request came

world == <<clip, requests, began>>
line  == <<late, failures, failed>>
vars  == <<pc, dir, kind, target, state_indicator, level, line, world>>

\* A slip for comparison: the two step widths are swapped.
StepOfSwapped == [ramp |-> 100, speed |-> 10]

\* 1. and 10. V steps, 1.2 and 12. V from the target.
StepOf == [ramp |-> 10, speed |-> 100]
NearOf == [ramp |-> 12, speed |-> 120]

\* What getVoltage() returns when the answer has too few numbers, or none.
ErrorReading == -1000000

\* The voltage at the terminals: the load in compliance holds it up.
Voltage == IF level < clip THEN clip ELSE level

TypeOK ==
    /\ pc \in {"idle", "set", "near", "direction", "while", "and", "step", "low",
               "high", "excess", "final", "answer"}
    /\ dir \in {"lower", "raise"}
    /\ kind \in {"set", "ramp", "speed"}
    /\ pc \notin {"idle", "set", "answer"} => kind # "set"
    /\ target \in Targets
    /\ state_indicator \in Stale \cup {0, -1}
    /\ level \in Int
    /\ clip \in Clips
    /\ late \subseteq Int
    /\ failures \in 0..MaxFailures
    /\ requests \in 0..MaxRequests
    /\ failed \in BOOLEAN
    /\ began \in Int

Init ==
    /\ pc = "idle" /\ dir = "lower"
    /\ kind = "set"
    /\ target \in Targets
    /\ state_indicator \in Stale
    /\ level \in Starts /\ began = level
    /\ clip \in Clips
    /\ late = {} /\ failures = 0 /\ requests = 0
    /\ failed = FALSE

-----------------------------------------------------------------------------
(* The instrument, as getVoltage and setVoltage use it.                    *)

\* What a voltage may be read as.
Around(v) == (v - Noise)..(v + Noise)

\* hv->getVoltage(): a reading near the voltage; the error value when no answer
\* comes in time; or, when such an answer comes after all, the voltage that it
\* or one that was only printed since was about, and the own answer waits for
\* the next reading.  An answer may be lost, and two may be read as one.
Read(r) ==
    \/ /\ late = {} /\ r \in Around(Voltage)
       /\ UNCHANGED line
    \/ /\ r = ErrorReading
       /\ failures < MaxFailures
       /\ failures' = failures + 1
       /\ late' \in {late, {}, {Voltage}}
       /\ failed' = TRUE
    \/ /\ late # {} /\ \E v \in late \cup {Voltage} : r \in Around(v)
       /\ late' \in {{}, {Voltage}}
       /\ failed' = TRUE
       /\ UNCHANGED failures

Readings == {ErrorReading} \cup UNION {Around(v) : v \in late \cup {Voltage}}

\* hv->setVoltage(v): three commands, none of them read back.
Apply(v) == level' = IF Abs(v) <= SourceRange THEN v ELSE level

-----------------------------------------------------------------------------
(* The handler.                                                            *)

Request(k, v) ==
    /\ pc = "idle"
    /\ requests < MaxRequests
    /\ requests' = requests + 1
    /\ kind' = k
    /\ target' = v
    /\ pc' = IF k = "set" THEN "set" ELSE "near"
    /\ failed' = FALSE
    /\ began' = level
    /\ UNCHANGED <<dir, state_indicator, level, clip, late, failures>>

\* A slip for comparison: the answer is the voltage instead of 0.
SetVoltageEchoing ==
    /\ pc = "set"
    /\ Apply(target)
    /\ state_indicator' = target
    /\ pc' = "answer"
    /\ UNCHANGED <<dir, kind, target, line, world>>

SetVoltage ==
    /\ pc = "set"
    /\ Apply(target)
    /\ state_indicator' = 0
    /\ pc' = "answer"
    /\ UNCHANGED <<dir, kind, target, line, world>>

IsNear(r) == Abs(r - target) < NearOf[kind]

\* A slip for comparison: near the target nothing is set.
CheckNearOnly ==
    /\ pc = "near"
    /\ \E r \in Readings :
          /\ Read(r)
          /\ IF IsNear(r)
             THEN state_indicator' = 0 /\ pc' = "answer"
             ELSE pc' = "direction" /\ UNCHANGED state_indicator
    /\ UNCHANGED <<dir, kind, target, level, world>>

CheckNear ==
    /\ pc = "near"
    /\ \E r \in Readings :
          /\ Read(r)
          /\ IF IsNear(r)
             THEN /\ state_indicator' = 0
                  /\ Apply(target)
                  /\ pc' = "answer"
             ELSE /\ pc' = "direction"
                  /\ UNCHANGED <<state_indicator, level>>
    /\ UNCHANGED <<dir, kind, target, world>>

ChooseDirection ==
    /\ pc = "direction"
    /\ \E r \in Readings :
          /\ Read(r)
          /\ dir' = IF r > target THEN "lower" ELSE "raise"
    /\ pc' = "while"
    /\ UNCHANGED <<kind, target, state_indicator, level, world>>

\* A condition of the loop: the next place, from what getVoltage() returns.
Branch(from, Test(_), yes, no) ==
    /\ pc = from
    /\ \E r \in Readings :
          /\ Read(r)
          /\ pc' = IF Test(r) THEN yes ELSE no
    /\ UNCHANGED <<dir, kind, target, state_indicator, level, world>>

Short(r)   == IF dir = "lower" THEN r > target ELSE r < target
TooLow(r)  == r < MinVoltage
TooHigh(r) == r > MaxVoltage

\* The operands of && and ||, evaluated from left to right.
WhileNear == Branch("while", IsNear, "final", "and")
WhileAnd  == Branch("and", Short, "step", "final")
CheckLow  == Branch("low", TooLow, "excess", "high")
CheckHigh == Branch("high", TooHigh, "excess", "while")

\* A slip for comparison: the loop reads the voltage and sets nothing.
RampStepWithoutSet ==
    /\ pc = "step"
    /\ \E r \in Readings : Read(r)
    /\ state_indicator' = 0
    /\ pc' = "low"
    /\ UNCHANGED <<dir, kind, target, level, world>>

RampStep ==
    /\ pc = "step"
    /\ \E r \in Readings :
          /\ Read(r)
          /\ Apply(IF dir = "lower" THEN r - StepOf[kind] ELSE r + StepOf[kind])
    /\ state_indicator' = 0
    /\ pc' = "low"
    /\ UNCHANGED <<dir, kind, target, world>>

\* A slip for comparison: the loop is left without the error mark.
ExcessUnmarked ==
    /\ pc = "excess"
    /\ pc' = "final"
    /\ UNCHANGED <<dir, kind, target, state_indicator, level, line, world>>

Excess ==
    /\ pc = "excess"
    /\ state_indicator' = -1
    /\ pc' = "final"
    /\ UNCHANGED <<dir, kind, target, level, line, world>>

SetTarget ==
    /\ pc = "final"
    /\ IF state_indicator = 0 THEN Apply(target) ELSE UNCHANGED level
    /\ pc' = "answer"
    /\ UNCHANGED <<dir, kind, target, state_indicator, line, world>>

\* The client is sent state_indicator.
Answer ==
    /\ pc = "answer"
    /\ pc' = "idle"
    /\ UNCHANGED <<dir, kind, target, state_indicator, level, line, world>>

-----------------------------------------------------------------------------
Handler == \/ SetVoltage \/ CheckNear \/ ChooseDirection \/ WhileNear \/ WhileAnd
           \/ RampStep \/ CheckLow \/ CheckHigh \/ Excess \/ SetTarget \/ Answer

\* Any other set request leaves what its device answered: a status, the low
\* voltage that was set, the temperature sent to the climate chamber.
OtherSet ==
    /\ pc = "idle"
    /\ state_indicator' \in Stale \cup {0}
    /\ UNCHANGED <<pc, dir, kind, target, level, line, world>>

Next == \/ \E k \in {"set", "ramp", "speed"}, v \in Targets : Request(k, v)
        \/ OtherSet
        \/ Handler

Spec == Init /\ [][Next]_vars

\* The server's only thread runs the handler to its end.
FairSpec == Spec /\ WF_vars(Handler)

-----------------------------------------------------------------------------
(* Properties.                                                             *)

\* A ramp none of whose readings failed or was late approaches the target
\* gradually: no setVoltage of it sets a value that is further from the voltage
\* at the terminals than the distance at which the code takes itself to be
\* there, plus what a reading is off by.  The voltage then moves no further than
\* that either; the set value does, when the load in compliance had held the
\* voltage up above it (serial_spyserv_DEV.C:524-560).
Gradual ==
    [][kind # "set" /\ pc # "idle" /\ ~failed' /\ level' # level =>
          Abs(level' - Voltage) <= NearOf[kind] + Noise]_vars

\* However many small requests went before it, and whatever its target, a ramp
\* none of whose readings failed or was late takes the set value beyond the
\* limits, as far as a reading can tell them, or further beyond them than it
\* found it, by at most one such move (serial_spyserv_DEV.C:524-528, 538-542,
\* 553-557).
BoundedExcursion ==
    kind # "set" /\ pc # "idle" /\ ~failed =>
        LET move == NearOf[kind] + 2 * Noise IN
        /\ level >= MinVoltage - move \/ level >= began - move
        /\ level <= MaxVoltage + move \/ level <= began + move

\* A client told 0 has its target set, even when readings failed and however
\* old the state_indicator of the answer is (serial_spyserv_DEV.C:578).
ZeroMeansSet ==
    pc = "answer" /\ state_indicator = 0 => level = target

\* With a load that is not in compliance a ramp ends, in whatever order the
\* readings of its conditions vary or fail (serial_spyserv_DEV.C:532, 547).
RampEnds == (pc = "near" /\ clip < MinVoltage) ~> pc = "idle"
=============================================================================
