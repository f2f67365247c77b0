--------------------------- MODULE ThermalChamber ---------------------------
(***************************************************************************)
(* WKThermalChamber (device/thermal/src/WKThermalChamber.cc): one thread   *)
(* that references and moves the two axes of the chamber, each a Nanotec   *)
(* motor that runs by itself and answers over its own serial line.         *)
(*                                                                         *)
(* A command of NanotecMotor.cc is one exchange: the motor echoes what it  *)
(* was sent and the class compares.  When the echo is missing or another   *)
(* one, the method throws, and the motor may or may not have obeyed.  The  *)
(* exception leaves the chamber's method at once.                          *)
(***************************************************************************)
EXTENDS Integers

CONSTANTS
    Positions,      \* positions that callers ask for
    MaxTravel,      \* 100000000 in the code: the longest travel distance
    Reference,      \* where an external reference run ends
    MaxCalls,       \* bound: calls of the chamber's methods
    MaxErrors,      \* bound: position errors of the motors
    MaxFailures,    \* bound: exchanges whose echo is missing or wrong
    MaxCuts         \* bound: status answers that arrive cut short

ASSUME ChamberAssumption ==
    /\ Positions \subseteq Nat /\ Reference \in Nat
    /\ MaxCalls \in Nat /\ MaxErrors \in Nat /\ MaxFailures \in Nat /\ MaxCuts \in Nat

Axes == {"X", "Y"}

\* NANOTEC_POSITION_MODE_RELATIVE, _ABSOLUTE and _EXTERNAL_REF_RUN
Relative       == 1
Absolute       == 2
ExternalRefRun == 4
Modes          == {Relative, Absolute, ExternalRefRun}

VARIABLES
    pc,         \* the next exchange of the thread
    method,     \* the method called: "Init", "Move", "MoveX", "MoveY" or "Photo"
    axis,       \* the axis being dealt with
    wanted,     \* the position asked for, per axis
    retry,      \* TRUE while a move is repeated after a position error
    made,       \* the axes whose NanotecMotor exists
    camera,     \* the CameraIR exists
    motor,      \* what the motors are doing, per axis
    calls, errors, failures, cuts,  \* counters, for the bounds
    disturbed,  \* history: a method threw, or a status was misread
    misled      \* history: that happened in the last method called

thread   == <<pc, method, axis, wanted, retry, made, camera>>
counters == <<calls, errors, failures, cuts, disturbed, misled>>
vars     == <<thread, motor, counters>>

Motor == [mode : Modes, s : Positions \cup {0}, pos : Int,
          goal : Int, run : {"ready", "moving", "error"}, referenced : BOOLEAN]

TypeOK ==
    /\ pc \in {"idle", "prepare", "referenced", "mode", "travel", "start", "ready",
               "error", "reset", "sleep", "dead"}
    /\ method \in {"Init", "Move", "MoveX", "MoveY", "Photo"}
    /\ axis \in Axes
    /\ wanted \in [Axes -> Positions \cup {0}]
    /\ retry \in BOOLEAN
    /\ made \subseteq Axes /\ camera \in BOOLEAN
    /\ motor \in [Axes -> Motor]
    /\ calls \in 0..MaxCalls /\ errors \in 0..MaxErrors
    /\ failures \in 0..MaxFailures /\ cuts \in 0..MaxCuts
    /\ disturbed \in BOOLEAN /\ misled \in BOOLEAN
    /\ pc \notin {"idle", "dead"} => axis \in made

AtRest(mode, ref) == [mode |-> mode, s |-> 0, pos |-> Reference, goal |-> Reference,
                      run |-> "ready", referenced |-> ref]

\* Motors at rest, in the mode their record holds, referenced before or not.
Init ==
    /\ pc = "idle" /\ method = "Init" /\ axis = "X"
    /\ wanted = [a \in Axes |-> 0]
    /\ retry = FALSE
    /\ made = {} /\ camera = FALSE
    /\ motor \in [Axes -> {AtRest(mode, ref) : mode \in Modes, ref \in BOOLEAN}]
    /\ calls = 0 /\ errors = 0 /\ failures = 0 /\ cuts = 0
    /\ disturbed = FALSE /\ misled = FALSE

-----------------------------------------------------------------------------
(* The exchanges of NanotecMotor.cc.                                       *)

\* The method throws: the chamber's method ends with the exception.
Throw == /\ failures < MaxFailures
         /\ failures' = failures + 1
         /\ disturbed' = TRUE /\ misled' = TRUE
         /\ pc' = "idle"
         /\ UNCHANGED <<method, axis, wanted, retry, made, camera, calls, errors, cuts>>

\* sender() or setter(): the motor of the axis obeys by becoming m and
\* echoes, or the echo is missing, late or another one.
Obeys(m) ==
    /\ motor' = [motor EXCEPT ![axis] = m]
    /\ UNCHANGED counters
Order(m) == Throw /\ motor' \in {motor, [motor EXCEPT ![axis] = m]}

\* startMotor: "A" runs to the reference switch, to the travel distance, or as
\* far as that to either side.
Goals(m) == IF m.mode = ExternalRefRun THEN {Reference}
            ELSE IF m.mode = Absolute THEN {m.s} ELSE {m.pos - m.s, m.pos + m.s}
Started(m, goal) == [m EXCEPT !.run = "moving", !.goal = goal]

\* getStatus: a status that is cut short is completed with the end of line
\* and read as a smaller number (NanotecMotor.cc:42-45), with other bits.
Status(reading) ==
    /\ UNCHANGED motor
    /\ \/ /\ reading = motor[axis].run
          /\ UNCHANGED counters
       \/ /\ cuts < MaxCuts
          /\ reading \in {"ready", "moving"}
          /\ cuts' = cuts + 1
          /\ disturbed' = TRUE /\ misled' = TRUE
          /\ UNCHANGED <<calls, errors, failures>>
Silence == Throw /\ UNCHANGED motor

-----------------------------------------------------------------------------
(* The methods.                                                            *)

\* A method begins.  Init makes a NanotecMotor if the device file is there;
\* the other methods dereference the pointer.
Enter(m, a, w) ==
    /\ pc = "idle"
    /\ calls < MaxCalls
    /\ calls' = calls + 1
    /\ method' = m
    /\ axis' = a
    /\ wanted' = w
    /\ retry' = FALSE
    /\ UNCHANGED <<motor, errors, failures, cuts, disturbed>>

CallInit(a) ==
    /\ Enter("Init", a, [b \in Axes |-> 0])
    /\ made' = made \cup {a}
    /\ pc' = "prepare"
    /\ misled' = FALSE
    /\ UNCHANGED camera

\* There is no motor's device file.
CallInitCamera ==
    /\ Enter("Init", axis, wanted)
    /\ camera' \in {camera, TRUE}
    /\ pc' = "idle"
    /\ UNCHANGED <<made, misled>>

\* A slip for comparison: the chamber does not notice a missing motor.
CallMoveUnchecked(m, w) ==
    /\ Enter(m, IF m = "MoveY" THEN "Y" ELSE "X", w)
    /\ pc' = "travel"
    /\ misled' = FALSE
    /\ UNCHANGED <<made, camera>>

CallMove(m, w) ==
    /\ Enter(m, IF m = "MoveY" THEN "Y" ELSE "X", w)
    /\ pc' = IF axis' \in made THEN "travel" ELSE "dead"
    /\ misled' = FALSE
    /\ UNCHANGED <<made, camera>>

\* One key of the camera; its answer is read and not looked at.
TakePhoto ==
    /\ Enter("Photo", axis, wanted)
    /\ pc' = IF camera THEN "idle" ELSE "dead"
    /\ UNCHANGED <<made, camera, misled>>

\* setTravelDistance(0), the limit switches, direction and ramp; for Y the
\* position mode is set in any case.
Prepare ==
    /\ pc = "prepare"
    /\ LET m == [motor[axis] EXCEPT
                    !.s = 0,
                    !.mode = IF axis = "Y" THEN ExternalRefRun ELSE @]
       IN \/ Obeys(m) /\ pc' = "referenced" /\ UNCHANGED <<method, axis, wanted, retry, made, camera>>
          \/ Order(m)

\* motorIsReferenced() decides whether a reference run is made.
AskReferenced ==
    /\ pc = "referenced"
    /\ \/ /\ pc' = IF motor[axis].referenced THEN "start" ELSE "mode"
          /\ UNCHANGED <<method, axis, wanted, retry, made, camera, motor, counters>>
       \/ Silence

SetPositionMode ==
    /\ pc = "mode"
    /\ LET m == [motor[axis] EXCEPT !.mode = ExternalRefRun]
       IN \/ Obeys(m) /\ pc' = "travel" /\ UNCHANGED <<method, axis, wanted, retry, made, camera>>
          \/ Order(m)

\* A distance beyond the bounds throws before anything is sent.
SetTravelDistance ==
    /\ pc = "travel"
    /\ wanted[axis] <= MaxTravel
    /\ LET m == [motor[axis] EXCEPT !.s = wanted[axis]]
       IN \/ Obeys(m) /\ pc' = "start" /\ UNCHANGED <<method, axis, wanted, retry, made, camera>>
          \/ Order(m)

RefuseTravelDistance ==
    /\ pc = "travel"
    /\ wanted[axis] > MaxTravel
    /\ pc' = "idle"
    /\ disturbed' = TRUE /\ misled' = TRUE
    /\ UNCHANGED <<method, axis, wanted, retry, made, camera, motor, calls, errors, failures, cuts>>

\* After the first start the loop begins; after a repeated one it sleeps.
StartMotor ==
    /\ pc = "start"
    /\ \E goal \in Goals(motor[axis]) :
          LET m == Started(motor[axis], goal)
          IN \/ /\ Obeys(m)
                /\ pc' = IF retry THEN "sleep" ELSE "ready"
                /\ retry' = FALSE
                /\ UNCHANGED <<method, axis, wanted, made, camera>>
             \/ Order(m)

\* The axis is done: Init goes on to Y and to the camera, each if its device
\* file is there, MoveToPosition goes on to Y, and the other calls return.
Done ==
    \/ /\ method = "Init" /\ axis = "X"
       /\ pc' = "prepare" /\ axis' = "Y" /\ made' = made \cup {"Y"}
       /\ UNCHANGED camera
    \/ /\ method = "Move" /\ axis = "X"
       /\ pc' = IF "Y" \in made THEN "travel" ELSE "dead"
       /\ axis' = "Y" /\ UNCHANGED <<made, camera>>
    \/ /\ ~(method = "Move" /\ axis = "X")
       /\ pc' = "idle"
       /\ camera' \in IF method = "Init" THEN {camera, TRUE} ELSE {camera}
       /\ UNCHANGED <<axis, made>>

\* Slips for comparison: the loop is left when the motor does not move, or as
\* soon as it shows no error.
AskNotMoving ==
    /\ pc = "ready"
    /\ \/ \E reading \in {"ready", "moving", "error"} :
             /\ Status(reading)
             /\ IF reading # "moving" THEN Done
                ELSE pc' = "error" /\ UNCHANGED <<axis, made, camera>>
             /\ UNCHANGED <<method, wanted, retry>>
       \/ Silence
AskNoError ==
    /\ pc = "ready"
    /\ \/ \E reading \in {"ready", "moving", "error"} :
             /\ Status(reading)
             /\ IF reading # "error" THEN Done
                ELSE pc' = "error" /\ UNCHANGED <<axis, made, camera>>
             /\ UNCHANGED <<method, wanted, retry>>
       \/ Silence

\* while(!isStatusReady())
AskReady ==
    /\ pc = "ready"
    /\ \/ \E reading \in {"ready", "moving", "error"} :
             /\ Status(reading)
             /\ IF reading = "ready" THEN Done
                ELSE pc' = "error" /\ UNCHANGED <<axis, made, camera>>
             /\ UNCHANGED <<method, wanted, retry>>
       \/ Silence

\* A slip for comparison: a position error is only waited for.
AskErrorAndSleep ==
    /\ pc = "error"
    /\ \/ \E reading \in {"ready", "moving", "error"} :
             /\ Status(reading)
             /\ pc' = "sleep"
             /\ UNCHANGED <<method, axis, wanted, retry, made, camera>>
       \/ Silence

\* if(isStatusErrorPos())
AskError ==
    /\ pc = "error"
    /\ \/ \E reading \in {"ready", "moving", "error"} :
             /\ Status(reading)
             /\ pc' = IF reading = "error" THEN "reset" ELSE "sleep"
             /\ UNCHANGED <<method, axis, wanted, retry, made, camera>>
       \/ Silence

\* resetPositionError() and on to setTravelDistance() and startMotor()
ResetError ==
    /\ pc = "reset"
    /\ LET m == [motor[axis] EXCEPT !.run = IF @ = "error" THEN "ready" ELSE @]
       IN \/ /\ Obeys(m)
             /\ pc' = "travel"
             /\ retry' = TRUE
             /\ UNCHANGED <<method, axis, wanted, made, camera>>
          \/ Order(m)

Sleep ==
    /\ pc = "sleep"
    /\ pc' = "ready"
    /\ UNCHANGED <<method, axis, wanted, retry, made, camera, motor, counters>>

-----------------------------------------------------------------------------
(* A motor that runs: a step towards its goal, the arrival, or an error.   *)

Toward(m) == [m EXCEPT !.pos = IF @ < m.goal THEN @ + 1 ELSE @ - 1]
Arrived(m) == [m EXCEPT !.run = "ready",
                        !.referenced = @ \/ m.mode = ExternalRefRun]

Run(a) ==
    /\ motor[a].run = "moving"
    /\ motor' = [motor EXCEPT ![a] = IF @.pos = @.goal THEN Arrived(@) ELSE Toward(@)]
    /\ UNCHANGED <<thread, counters>>

Stall(a) ==
    /\ motor[a].run = "moving"
    /\ errors < MaxErrors
    /\ errors' = errors + 1
    /\ motor' = [motor EXCEPT ![a].run = "error"]
    /\ UNCHANGED <<thread, calls, failures, cuts, disturbed, misled>>

-----------------------------------------------------------------------------
Call == \/ \E a \in Axes : CallInit(a)
        \/ CallInitCamera \/ TakePhoto
        \/ \E m \in {"Move", "MoveX", "MoveY"}, w \in [Axes -> Positions] : CallMove(m, w)

Exchange == \/ Prepare \/ AskReferenced \/ SetPositionMode \/ SetTravelDistance
            \/ RefuseTravelDistance \/ StartMotor \/ AskReady \/ AskError \/ ResetError \/ Sleep

Next == Call \/ Exchange \/ \E a \in Axes : Run(a) \/ Stall(a)

Spec == Init /\ [][Next]_vars

\* The thread goes on, and a motor that runs makes progress.
FairSpec == Spec /\ WF_vars(Exchange) /\ \A a \in Axes : WF_vars(Run(a))
-----------------------------------------------------------------------------
(* Properties.                                                             *)

\* Where a start leads: the mode decides, not the method that was called.  (A
\* relative one leads where it was begun for.)
Destination(a) == IF motor[a].mode = ExternalRefRun THEN Reference
                  ELSE IF motor[a].mode = Absolute THEN wanted[a] ELSE motor[a].goal
AtDestination(a) == motor[a].run = "ready" /\ motor[a].pos = Destination(a)

Returned(m) == pc = "idle" /\ method = m /\ calls > 0

\* MoveToPosition that returns without an exception, and without a misread
\* status, has both axes at rest where their last start leads, however often
\* they stalled on the way, and even if an earlier call was abandoned and left
\* them running (WKThermalChamber.cc:75-105).
MoveEndsAtRest ==
    Returned("Move") /\ ~misled => \A a \in Axes : AtDestination(a)

\* The axes never run at the same time unless a method threw, which leaves
\* its axis running, or a status was misread (WKThermalChamber.cc:78, 102).
OneAxisAtATime ==
    (\A a \in Axes : motor[a].run = "moving") => disturbed

\* A method in progress ends, whatever stalls, lost echoes and misread
\* statuses there are (WKThermalChamber.cc:29, 54, 78, 92).
MethodEnds == (pc # "idle") ~> (pc \in {"idle", "dead"})
=============================================================================
