------------------------ MODULE ThermalChamberProofs ------------------------
(***************************************************************************)
(* Proofs about the chamber of ThermalChamber, for any positions and any   *)
(* numbers of calls, stalls, lost echoes and misread statuses.             *)
(***************************************************************************)
EXTENDS ThermalChamber, TLAPS

-----------------------------------------------------------------------------
(* The inductive invariant.                                                *)

\* As long as nothing went wrong only the axis that is dealt with may run.
OthersRest ==
    ~disturbed =>
        \A a \in Axes : motor[a].run # "ready" => a = axis /\ pc \notin {"idle", "dead"}

\* A move that nothing went wrong in has told the motor where to go; while it
\* waits for the motor, a motor at rest has arrived; an axis that it left, and
\* both when it returned, stay where it sent them.
MoveOnItsWay ==
    method = "Move" /\ ~misled =>
        /\ pc \notin {"prepare", "referenced", "mode"}
        /\ pc \in {"start", "ready", "error", "sleep"} => motor[axis].s = wanted[axis]
        /\ pc \in {"ready", "error", "sleep"} =>
              /\ motor[axis].goal = Destination(axis)
              /\ motor[axis].run = "ready" => motor[axis].pos = motor[axis].goal
        /\ axis = "Y" => AtDestination("X")
        /\ pc = "idle" => AtDestination("X") /\ AtDestination("Y")

ChamberInv == TypeOK /\ OthersRest /\ MoveOnItsWay

-----------------------------------------------------------------------------
(* Lemmas about the motors.                                                *)

\* What a motor becomes by an order or by itself is a motor.
LEMMA MotorTypes ==
    ASSUME NEW m \in Motor
    PROVE  /\ \A v \in Positions \cup {0} : [m EXCEPT !.s = v] \in Motor
           /\ \A v \in Modes : [m EXCEPT !.mode = v] \in Motor
           /\ \A v \in Modes : [m EXCEPT !.s = 0, !.mode = v] \in Motor
           /\ \A v \in {"ready", "moving", "error"} : [m EXCEPT !.run = v] \in Motor
           /\ \A goal \in Goals(m) : Started(m, goal) \in Motor
           /\ Arrived(m) \in Motor
           /\ m.pos # m.goal => Toward(m) \in Motor
<1>1. m.s \in Nat /\ m.pos \in Int /\ m.goal \in Int
  <2>1. m.s \in Positions \cup {0}
    BY DEF Motor
  <2>2. \A v \in Positions \cup {0} : v \in Nat
    BY ChamberAssumption
  <2>3. m.pos \in Int /\ m.goal \in Int
    BY DEF Motor
  <2> QED
    BY <2>1, <2>2, <2>3
<1>2. \A v \in Positions \cup {0} : [m EXCEPT !.s = v] \in Motor
  BY DEF Motor
<1>3. \A v \in Modes : [m EXCEPT !.mode = v] \in Motor
  BY DEF Motor
<1>4. \A v \in Modes : [m EXCEPT !.s = 0, !.mode = v] \in Motor
  BY DEF Motor
<1>5. \A v \in {"ready", "moving", "error"} : [m EXCEPT !.run = v] \in Motor
  BY DEF Motor
<1>6. \A goal \in Goals(m) : Started(m, goal) \in Motor
  <2>1. \A goal \in Goals(m) : goal \in Int
    BY <1>1, ChamberAssumption DEF Goals
  <2> QED
    BY <2>1 DEF Motor, Started
<1>7. Arrived(m) \in Motor
  BY <1>1 DEF Motor, Arrived
<1>8. m.pos # m.goal => Toward(m) \in Motor
  <2> SUFFICES ASSUME m.pos # m.goal PROVE Toward(m) \in Motor
    OBVIOUS
  <2>1. (IF m.pos < m.goal THEN m.pos + 1 ELSE m.pos - 1) \in Int
    BY <1>1
  <2> QED
    BY <2>1 DEF Motor, Toward
<1> QED
  BY <1>2, <1>3, <1>4, <1>5, <1>6, <1>7, <1>8

\* What the orders and the motor's own steps do to the fields.
LEMMA MotorFields ==
    ASSUME NEW m \in Motor
    PROVE  /\ \A v : [m EXCEPT !.s = v].s = v /\ [m EXCEPT !.s = v].mode = m.mode
                     /\ [m EXCEPT !.s = v].run = m.run
           /\ \A g : Started(m, g).run = "moving" /\ Started(m, g).s = m.s
                     /\ Started(m, g).mode = m.mode /\ Started(m, g).goal = g
           /\ Arrived(m).run = "ready" /\ Arrived(m).s = m.s /\ Arrived(m).mode = m.mode
           /\ Arrived(m).pos = m.pos /\ Arrived(m).goal = m.goal
           /\ Toward(m).run = m.run /\ Toward(m).s = m.s /\ Toward(m).mode = m.mode
           /\ Toward(m).goal = m.goal
           /\ \A v : [m EXCEPT !.run = v].run = v /\ [m EXCEPT !.run = v].s = m.s
                     /\ [m EXCEPT !.run = v].mode = m.mode /\ [m EXCEPT !.run = v].pos = m.pos
                     /\ [m EXCEPT !.run = v].goal = m.goal
  BY DEF Motor, Started, Arrived, Toward

-----------------------------------------------------------------------------
(* Types.                                                                  *)

\* A chamber at rest has the types.
LEMMA InitTypeOK == Init => TypeOK
<1> SUFFICES ASSUME Init PROVE TypeOK
  OBVIOUS
<1>1. \A mode \in Modes, ref \in BOOLEAN : AtRest(mode, ref) \in Motor
  BY ChamberAssumption DEF AtRest, Motor
<1>2. motor \in [Axes -> Motor]
  BY <1>1 DEF Init
<1>3. /\ calls \in 0..MaxCalls /\ errors \in 0..MaxErrors
      /\ failures \in 0..MaxFailures /\ cuts \in 0..MaxCuts
  BY ChamberAssumption DEF Init
<1> QED
  BY <1>2, <1>3 DEF Init, TypeOK, Axes

\* A method that throws keeps the types, whatever became of the motor.
LEMMA ThrowTypes ==
    ASSUME TypeOK, Throw, motor' \in [Axes -> Motor]
    PROVE  TypeOK'
<1>1. failures' \in 0..MaxFailures
  BY ChamberAssumption DEF TypeOK, Throw
<1> QED
  BY <1>1 DEF TypeOK, Throw

\* So does an order, obeyed or not.
LEMMA OrderTypes ==
    ASSUME TypeOK, NEW m \in Motor, motor' \in {motor, [motor EXCEPT ![axis] = m]}
    PROVE  motor' \in [Axes -> Motor]
  BY DEF TypeOK

\* A status that is read right is the motor's; cut short it is none of its.
LEMMA StatusEffect ==
    ASSUME TypeOK, NEW reading \in {"ready", "moving", "error"}, Status(reading)
    PROVE  /\ UNCHANGED <<motor, calls, errors, failures>>
           /\ cuts' \in 0..MaxCuts /\ disturbed' \in BOOLEAN /\ misled' \in BOOLEAN
           /\ ~misled' => reading = motor[axis].run /\ ~misled
           /\ ~disturbed' => reading = motor[axis].run /\ ~disturbed
           /\ reading = "error" => motor[axis].run = "error"
<1>1. cuts' \in 0..MaxCuts
  BY ChamberAssumption DEF Status, TypeOK, counters
<1> QED
  BY <1>1 DEF Status, TypeOK, counters

\* An exchange keeps the types.
LEMMA ExchangeTypeOK == TypeOK /\ Exchange => TypeOK'
<1> SUFFICES ASSUME TypeOK, Exchange
             PROVE  TypeOK'
  OBVIOUS
<1>0. axis \in Axes /\ motor[axis] \in Motor /\ wanted[axis] \in Positions \cup {0}
  BY DEF TypeOK
<1>1. CASE Prepare
  <2> DEFINE m == [motor[axis] EXCEPT !.s = 0, !.mode = IF axis = "Y" THEN ExternalRefRun ELSE @]
  <2>1. m \in Motor
    BY <1>0 DEF Motor, Modes
  <2>2. CASE Throw
    BY <1>1, <2>1, <2>2, ThrowTypes, OrderTypes DEF Prepare, Order, Obeys, TypeOK
  <2>3. CASE Obeys(m) /\ pc' = "referenced" /\ UNCHANGED <<method, axis, wanted, retry, made, camera>>
    BY <1>1, <2>1, <2>3 DEF Prepare, Obeys, TypeOK, counters
  <2> QED
    BY <1>1, <2>2, <2>3 DEF Prepare, Order
<1>2. CASE AskReferenced
  BY <1>2, ThrowTypes DEF AskReferenced, Silence, TypeOK, counters
<1>3. CASE SetPositionMode
  <2> DEFINE m == [motor[axis] EXCEPT !.mode = ExternalRefRun]
  <2>1. m \in Motor
    BY <1>0, MotorTypes DEF Modes
  <2>2. CASE Throw
    BY <1>3, <2>1, <2>2, ThrowTypes, OrderTypes DEF SetPositionMode, Order, Obeys, TypeOK
  <2>3. CASE Obeys(m) /\ pc' = "travel" /\ UNCHANGED <<method, axis, wanted, retry, made, camera>>
    BY <1>3, <2>1, <2>3 DEF SetPositionMode, Obeys, TypeOK, counters
  <2> QED
    BY <1>3, <2>2, <2>3 DEF SetPositionMode, Order
<1>4. CASE SetTravelDistance
  <2> DEFINE m == [motor[axis] EXCEPT !.s = wanted[axis]]
  <2>1. m \in Motor
    BY <1>0, MotorTypes
  <2>2. CASE Throw
    BY <1>4, <2>1, <2>2, ThrowTypes, OrderTypes DEF SetTravelDistance, Order, Obeys, TypeOK
  <2>3. CASE Obeys(m) /\ pc' = "start" /\ UNCHANGED <<method, axis, wanted, retry, made, camera>>
    BY <1>4, <2>1, <2>3 DEF SetTravelDistance, Obeys, TypeOK, counters
  <2> QED
    BY <1>4, <2>2, <2>3 DEF SetTravelDistance, Order
<1>5. CASE RefuseTravelDistance
  BY <1>5 DEF RefuseTravelDistance, TypeOK
<1>6. CASE StartMotor
  <2> PICK goal \in Goals(motor[axis]) :
         LET m == Started(motor[axis], goal)
         IN \/ /\ Obeys(m)
               /\ pc' = IF retry THEN "sleep" ELSE "ready"
               /\ retry' = FALSE
               /\ UNCHANGED <<method, axis, wanted, made, camera>>
            \/ Order(m)
    BY <1>6 DEF StartMotor
  <2> DEFINE m == Started(motor[axis], goal)
  <2>1. m \in Motor
    BY <1>0, MotorTypes
  <2> HIDE DEF m
  <2>2. CASE Throw
    <3>1. motor' \in {motor, [motor EXCEPT ![axis] = m]}
      BY DEF Order, Obeys, m
    <3> QED
      BY <2>1, <2>2, <3>1, ThrowTypes, OrderTypes
  <2>3. CASE /\ Obeys(m) /\ pc' = (IF retry THEN "sleep" ELSE "ready") /\ retry' = FALSE
             /\ UNCHANGED <<method, axis, wanted, made, camera>>
    BY <1>6, <2>1, <2>3 DEF StartMotor, Obeys, TypeOK, counters
  <2> QED
    BY <2>2, <2>3 DEF Order, m
<1>7. CASE AskReady
  <2>1. CASE Silence
    BY <2>1, ThrowTypes DEF Silence, TypeOK
  <2>2. CASE \E reading \in {"ready", "moving", "error"} :
                /\ Status(reading)
                /\ IF reading = "ready" THEN Done
                   ELSE pc' = "error" /\ UNCHANGED <<axis, made, camera>>
                /\ UNCHANGED <<method, wanted, retry>>
    <3> PICK reading \in {"ready", "moving", "error"} :
                /\ Status(reading)
                /\ IF reading = "ready" THEN Done
                   ELSE pc' = "error" /\ UNCHANGED <<axis, made, camera>>
                /\ UNCHANGED <<method, wanted, retry>>
      BY <2>2
    <3>1. CASE Done
      BY <1>7, <3>1, StatusEffect DEF AskReady, Done, TypeOK, Axes
    <3>2. CASE pc' = "error" /\ UNCHANGED <<axis, made, camera>>
      BY <1>7, <3>2, StatusEffect DEF AskReady, TypeOK
    <3> QED
      BY <3>1, <3>2
  <2> QED
    BY <1>7, <2>1, <2>2 DEF AskReady
<1>8. CASE AskError
  <2>1. CASE Silence
    BY <2>1, ThrowTypes DEF Silence, TypeOK
  <2>2. CASE ~Silence
    BY <1>8, <2>2, StatusEffect DEF AskError, TypeOK
  <2> QED
    BY <2>1, <2>2
<1>9. CASE ResetError
  <2> DEFINE m == [motor[axis] EXCEPT !.run = IF @ = "error" THEN "ready" ELSE @]
  <2>1. m \in Motor
    BY <1>0 DEF Motor
  <2>2. CASE Throw
    BY <1>9, <2>1, <2>2, ThrowTypes, OrderTypes DEF ResetError, Order, Obeys, TypeOK
  <2>3. CASE /\ Obeys(m) /\ pc' = "travel" /\ retry' = TRUE
             /\ UNCHANGED <<method, axis, wanted, made, camera>>
    BY <1>9, <2>1, <2>3 DEF ResetError, Obeys, TypeOK, counters
  <2> QED
    BY <1>9, <2>2, <2>3 DEF ResetError, Order
<1>10. CASE Sleep
  BY <1>10 DEF Sleep, TypeOK, counters
<1> QED
  BY <1>1, <1>2, <1>3, <1>4, <1>5, <1>6, <1>7, <1>8, <1>9, <1>10 DEF Exchange

\* A method that is called keeps them.
LEMMA CallTypeOK == TypeOK /\ Call => TypeOK'
<1> SUFFICES ASSUME TypeOK, Call
             PROVE  TypeOK'
  OBVIOUS
<1>1. \A m, a, w : Enter(m, a, w) => calls' \in 0..MaxCalls
  BY ChamberAssumption DEF Enter, TypeOK
<1>2. ASSUME NEW a \in Axes, CallInit(a)
      PROVE  TypeOK'
  BY <1>1, <1>2 DEF CallInit, Enter, TypeOK, Axes
<1>3. CASE CallInitCamera
  BY <1>1, <1>3 DEF CallInitCamera, Enter, TypeOK
<1>4. CASE TakePhoto
  BY <1>1, <1>4 DEF TakePhoto, Enter, TypeOK
<1>5. ASSUME NEW m \in {"Move", "MoveX", "MoveY"}, NEW w \in [Axes -> Positions], CallMove(m, w)
      PROVE  TypeOK'
  BY <1>1, <1>5 DEF CallMove, Enter, TypeOK, Axes
<1> QED
  BY <1>2, <1>3, <1>4, <1>5 DEF Call

\* A motor that runs, arrives or stalls keeps them.
LEMMA MotorTypeOK == ASSUME TypeOK, NEW a \in Axes, Run(a) \/ Stall(a) PROVE TypeOK'
<1>0. motor[a] \in Motor
  BY DEF TypeOK
<1>1. CASE Run(a)
  <2>1. motor' \in [Axes -> Motor]
    BY <1>0, <1>1, MotorTypes DEF Run, TypeOK
  <2> QED
    BY <1>1, <2>1 DEF Run, TypeOK, thread, counters
<1>2. CASE Stall(a)
  <2>1. motor' \in [Axes -> Motor]
    BY <1>0, <1>2, MotorTypes DEF Stall, TypeOK
  <2>2. errors' \in 0..MaxErrors
    BY <1>2, ChamberAssumption DEF Stall, TypeOK
  <2> QED
    BY <1>2, <2>1, <2>2 DEF Stall, TypeOK, thread
<1> QED
  BY <1>1, <1>2

\* Every step keeps the types.
LEMMA NextTypeOK == TypeOK /\ [Next]_vars => TypeOK'
<1>1. TypeOK /\ UNCHANGED vars => TypeOK'
  BY DEF TypeOK, vars, thread, counters
<1> QED
  BY <1>1, CallTypeOK, ExchangeTypeOK, MotorTypeOK DEF Next

\* The thread's and the motors' variables keep their types: in particular, an
\* exchange is only made with a motor that Init made.
THEOREM TypeCorrect == Spec => []TypeOK
<1> QED
  BY InitTypeOK, NextTypeOK, PTL DEF Spec

-----------------------------------------------------------------------------
(* The invariant.                                                          *)

\* A chamber at rest meets it: no method was called.
LEMMA InitChamberInv == Init => ChamberInv
<1> SUFFICES ASSUME Init PROVE ChamberInv
  OBVIOUS
<1>1. \A a \in Axes : motor[a].run = "ready"
  BY DEF Init, AtRest
<1> QED
  BY <1>1, InitTypeOK DEF Init, ChamberInv, OthersRest, MoveOnItsWay

\* After an exception it promises nothing.
LEMMA ThrowKeeps == ChamberInv /\ Throw => OthersRest' /\ MoveOnItsWay'
  BY DEF Throw, OthersRest, MoveOnItsWay

\* A call begins with all motors at rest, if nothing went wrong before; and a
\* move begins with nothing to show.
LEMMA CallKeeps == ChamberInv /\ Call => ChamberInv'
<1> SUFFICES ASSUME ChamberInv, Call
             PROVE  ChamberInv'
  OBVIOUS
<1>1. TypeOK'
  BY CallTypeOK DEF ChamberInv
<1>2. pc = "idle" /\ UNCHANGED <<motor, disturbed>>
  BY DEF Call, CallInit, CallInitCamera, TakePhoto, CallMove, Enter
<1>3. OthersRest'
  BY <1>2 DEF ChamberInv, OthersRest
<1>4. method' = "Move" => pc' \in {"travel", "dead"} /\ axis' = "X"
  BY DEF Call, CallInit, CallInitCamera, TakePhoto, CallMove, Enter
<1>5. MoveOnItsWay'
  BY <1>4 DEF MoveOnItsWay
<1> QED
  BY <1>1, <1>3, <1>5 DEF ChamberInv

\* The orders before a start concern the axis that is dealt with, and a move
\* gives it its travel distance.
LEMMA OrdersKeep ==
    ASSUME ChamberInv,
           \/ Prepare \/ AskReferenced \/ SetPositionMode \/ SetTravelDistance
           \/ RefuseTravelDistance \/ ResetError \/ Sleep
    PROVE  OthersRest' /\ MoveOnItsWay'
<1>0. TypeOK /\ axis \in Axes /\ motor[axis] \in Motor
  BY DEF ChamberInv, TypeOK
<1>1. CASE Throw
  BY <1>1, ThrowKeeps
<1>2. CASE Prepare /\ ~Throw
  <2> DEFINE m == [motor[axis] EXCEPT !.s = 0, !.mode = IF axis = "Y" THEN ExternalRefRun ELSE @]
  <2>1. /\ pc = "prepare" /\ pc' = "referenced" /\ motor' = [motor EXCEPT ![axis] = m]
        /\ UNCHANGED <<method, axis, wanted, disturbed, misled>>
    BY <1>2 DEF Prepare, Order, Obeys, counters
  <2>2. m.run = motor[axis].run
    BY <1>0 DEF Motor
  <2> QED
    BY <1>0, <2>1, <2>2 DEF ChamberInv, TypeOK, OthersRest, MoveOnItsWay
<1>3. CASE AskReferenced /\ ~Throw
  BY <1>3 DEF AskReferenced, Silence, counters, ChamberInv, OthersRest, MoveOnItsWay
<1>4. CASE SetPositionMode /\ ~Throw
  <2> DEFINE m == [motor[axis] EXCEPT !.mode = ExternalRefRun]
  <2>1. /\ pc = "mode" /\ pc' = "travel" /\ motor' = [motor EXCEPT ![axis] = m]
        /\ UNCHANGED <<method, axis, wanted, disturbed, misled>>
    BY <1>4 DEF SetPositionMode, Order, Obeys, counters
  <2>2. m.run = motor[axis].run
    BY <1>0 DEF Motor
  <2> QED
    BY <1>0, <2>1, <2>2 DEF ChamberInv, TypeOK, OthersRest, MoveOnItsWay
<1>5. CASE SetTravelDistance /\ ~Throw
  <2> DEFINE m == [motor[axis] EXCEPT !.s = wanted[axis]]
  <2>1. /\ pc = "travel" /\ pc' = "start" /\ motor' = [motor EXCEPT ![axis] = m]
        /\ UNCHANGED <<method, axis, wanted, disturbed, misled>>
    BY <1>5 DEF SetTravelDistance, Order, Obeys, counters
  <2>2. m.run = motor[axis].run /\ m.s = wanted[axis]
    BY <1>0, MotorFields
  <2>3. /\ motor'[axis] = m /\ \A a \in Axes : a # axis => motor'[a] = motor[a]
    BY <1>0, <2>1 DEF TypeOK
  <2>4. axis = "Y" => motor'["X"] = motor["X"]
    BY <2>3 DEF Axes
  <2>5. OthersRest'
    BY <2>1, <2>2, <2>3 DEF ChamberInv, OthersRest
  <2>6. MoveOnItsWay'
    BY <2>1, <2>2, <2>3, <2>4 DEF ChamberInv, MoveOnItsWay, AtDestination, Destination
  <2> QED
    BY <2>5, <2>6
<1>6. CASE RefuseTravelDistance
  BY <1>6 DEF RefuseTravelDistance, OthersRest, MoveOnItsWay
<1>7. CASE ResetError /\ ~Throw
  <2> DEFINE m == [motor[axis] EXCEPT !.run = IF @ = "error" THEN "ready" ELSE @]
  <2>1. /\ pc = "reset" /\ pc' = "travel" /\ motor' = [motor EXCEPT ![axis] = m]
        /\ UNCHANGED <<method, axis, wanted, disturbed, misled>>
    BY <1>7 DEF ResetError, Order, Obeys, counters
  <2>2. /\ motor'[axis] = m /\ \A a \in Axes : a # axis => motor'[a] = motor[a]
    BY <1>0, <2>1 DEF TypeOK
  <2>3. axis = "Y" => motor'["X"] = motor["X"]
    BY <2>2 DEF Axes
  <2>4. OthersRest'
    BY <2>1, <2>2 DEF ChamberInv, OthersRest
  <2>5. MoveOnItsWay'
    BY <2>1, <2>3 DEF ChamberInv, MoveOnItsWay, AtDestination, Destination
  <2> QED
    BY <2>4, <2>5
<1>8. CASE Sleep
  <2>1. /\ pc = "sleep" /\ pc' = "ready"
        /\ UNCHANGED <<method, axis, wanted, motor, disturbed, misled>>
    BY <1>8 DEF Sleep, counters
  <2> QED
    BY <2>1 DEF ChamberInv, OthersRest, MoveOnItsWay, AtDestination, Destination
<1> QED
  BY <1>1, <1>2, <1>3, <1>4, <1>5, <1>6, <1>7, <1>8

\* A start sends the motor where its mode and its travel distance say
\* (WKThermalChamber.cc:76, 89).
LEMMA StartKeeps ==
    ASSUME ChamberInv, StartMotor
    PROVE  OthersRest' /\ MoveOnItsWay'
<1>0. TypeOK /\ axis \in Axes /\ motor[axis] \in Motor
  BY DEF ChamberInv, TypeOK
<1>1. CASE Throw
  BY <1>1, ThrowKeeps
<1>2. CASE ~Throw
  <2> PICK goal \in Goals(motor[axis]) :
         LET m == Started(motor[axis], goal)
         IN \/ /\ Obeys(m)
               /\ pc' = IF retry THEN "sleep" ELSE "ready"
               /\ retry' = FALSE
               /\ UNCHANGED <<method, axis, wanted, made, camera>>
            \/ Order(m)
    BY DEF StartMotor
  <2>1. /\ pc = "start" /\ pc' \in {"sleep", "ready"}
        /\ motor' = [motor EXCEPT ![axis] = Started(motor[axis], goal)]
        /\ UNCHANGED <<method, axis, wanted, disturbed, misled>>
    BY <1>2 DEF StartMotor, Order, Obeys, counters
  <2>2. /\ motor'[axis] = Started(motor[axis], goal)
        /\ \A a \in Axes : a # axis => motor'[a] = motor[a]
    BY <1>0, <2>1 DEF TypeOK
  <2>3. axis = "Y" => motor'["X"] = motor["X"]
    BY <2>2 DEF Axes
  <2>4. /\ motor'[axis].run = "moving" /\ motor'[axis].s = motor[axis].s
        /\ motor'[axis].mode = motor[axis].mode
        /\ motor'[axis].goal = goal
    BY <1>0, <2>2, MotorFields
  <2>5. OthersRest'
    BY <2>1, <2>2 DEF ChamberInv, OthersRest
  <2>6. MoveOnItsWay'
    BY <2>1, <2>3, <2>4 DEF ChamberInv, MoveOnItsWay, AtDestination, Destination, Goals
  <2> QED
    BY <2>5, <2>6
<1> QED
  BY <1>1, <1>2

\* An axis is done when its status was ready, and read right it was there
\* (WKThermalChamber.cc:78, 92, 102).
LEMMA AskKeeps ==
    ASSUME ChamberInv, AskReady \/ AskError
    PROVE  OthersRest' /\ MoveOnItsWay'
<1>0. TypeOK /\ axis \in Axes /\ motor[axis] \in Motor
  BY DEF ChamberInv, TypeOK
<1>1. CASE Silence
  BY <1>1, ThrowKeeps DEF Silence
<1>2. CASE AskReady /\ ~Silence
  <2> PICK reading \in {"ready", "moving", "error"} :
         /\ Status(reading)
         /\ IF reading = "ready" THEN Done
            ELSE pc' = "error" /\ UNCHANGED <<axis, made, camera>>
         /\ UNCHANGED <<method, wanted, retry>>
    BY <1>2 DEF AskReady
  <2>1. /\ pc = "ready" /\ UNCHANGED <<motor, method, wanted>>
        /\ ~misled' => reading = motor[axis].run /\ ~misled
        /\ ~disturbed' => reading = motor[axis].run /\ ~disturbed
    BY <1>0, <1>2, StatusEffect DEF AskReady
  <2>2. CASE reading = "ready"
    <3>1. Done
      BY <2>2
    <3>2. OthersRest'
      BY <2>1, <2>2 DEF ChamberInv, OthersRest
    <3>3. MoveOnItsWay'
      <4> SUFFICES ASSUME method' = "Move", ~misled'
                   PROVE  MoveOnItsWay'
        BY DEF MoveOnItsWay
      <4>1. AtDestination(axis)
        BY <2>1, <2>2 DEF ChamberInv, MoveOnItsWay, AtDestination
      <4>2. axis = "X" => pc' \in {"travel", "dead"} /\ axis' = "Y"
        BY <2>1, <3>1 DEF Done
      <4>3. axis = "Y" => pc' = "idle" /\ axis' = axis
        BY <2>1, <3>1 DEF Done
      <4>4. axis = "Y" => AtDestination("X")
        BY <2>1 DEF ChamberInv, MoveOnItsWay
      <4> QED
        BY <1>0, <2>1, <4>1, <4>2, <4>3, <4>4 DEF MoveOnItsWay, AtDestination, Destination, Axes
    <3> QED
      BY <3>2, <3>3
  <2>3. CASE reading # "ready"
    <3>1. pc' = "error" /\ axis' = axis
      BY <2>3
    <3> QED
      BY <2>1, <3>1 DEF ChamberInv, OthersRest, MoveOnItsWay, AtDestination, Destination
  <2> QED
    BY <2>2, <2>3
<1>3. CASE AskError /\ ~Silence
  <2> PICK reading \in {"ready", "moving", "error"} :
         /\ Status(reading)
         /\ pc' = IF reading = "error" THEN "reset" ELSE "sleep"
         /\ UNCHANGED <<method, axis, wanted, retry, made, camera>>
    BY <1>3 DEF AskError
  <2>1. /\ pc = "error" /\ UNCHANGED <<motor, method, wanted, axis>>
        /\ ~misled' => ~misled
        /\ ~disturbed' => ~disturbed
        /\ pc' \in {"reset", "sleep"}
    BY <1>0, <1>3, StatusEffect DEF AskError
  <2> QED
    BY <2>1 DEF ChamberInv, OthersRest, MoveOnItsWay, AtDestination, Destination
<1> QED
  BY <1>1, <1>2, <1>3

\* A motor that arrives is at the goal of its last start; one that is at rest
\* stays there.
LEMMA MotorKeeps ==
    ASSUME ChamberInv, NEW a \in Axes, Run(a) \/ Stall(a)
    PROVE  OthersRest' /\ MoveOnItsWay'
<1>0. TypeOK /\ axis \in Axes /\ motor[a] \in Motor
  BY DEF ChamberInv, TypeOK
<1>1. /\ motor[a].run = "moving"
      /\ UNCHANGED <<pc, method, axis, wanted, disturbed, misled>>
      /\ \A b \in Axes : b # a => motor'[b] = motor[b]
  BY <1>0 DEF Run, Stall, thread, counters, TypeOK
<1>2. /\ motor'[a].s = motor[a].s /\ motor'[a].mode = motor[a].mode
      /\ motor'[a].goal = motor[a].goal
      /\ motor'[a].run = "ready" => motor'[a].pos = motor'[a].goal
  <2>1. CASE Run(a)
    <3>1. motor'[a] = IF motor[a].pos = motor[a].goal THEN Arrived(motor[a]) ELSE Toward(motor[a])
      BY <1>0, <2>1 DEF Run, TypeOK
    <3> QED
      BY <1>0, <1>1, <3>1, MotorFields
  <2>2. CASE Stall(a)
    <3>1. motor'[a] = [motor[a] EXCEPT !.run = "error"]
      BY <1>0, <2>2 DEF Stall, TypeOK
    <3> QED
      BY <1>0, <3>1, MotorFields
  <2> QED
    BY <2>1, <2>2
<1>3. OthersRest'
  BY <1>1 DEF ChamberInv, OthersRest
<1>4. \A b \in Axes : AtDestination(b) => b # a /\ AtDestination(b)'
  BY <1>1 DEF AtDestination, Destination
<1>5. MoveOnItsWay'
  <2> SUFFICES ASSUME method = "Move", ~misled
               PROVE  MoveOnItsWay'
    BY <1>1 DEF MoveOnItsWay
  <2>1. /\ axis = "Y" => AtDestination("X")'
        /\ pc = "idle" => AtDestination("X")' /\ AtDestination("Y")'
    BY <1>4 DEF ChamberInv, MoveOnItsWay, Axes
  <2>2. pc \in {"start", "ready", "error", "sleep"} => motor'[axis].s = wanted[axis]
    BY <1>0, <1>1, <1>2 DEF ChamberInv, MoveOnItsWay
  <2>3. pc \in {"ready", "error", "sleep"} =>
           /\ motor'[axis].goal = Destination(axis)
           /\ motor'[axis].run = "ready" => motor'[axis].pos = motor'[axis].goal
    BY <1>0, <1>1, <1>2 DEF ChamberInv, MoveOnItsWay
  <2>4. motor'[axis].mode = motor[axis].mode
    BY <1>0, <1>1, <1>2
  <2> QED
    BY <1>1, <2>1, <2>2, <2>3, <2>4 DEF ChamberInv, MoveOnItsWay, AtDestination, Destination
<1> QED
  BY <1>3, <1>5

\* Every step keeps the invariant.
LEMMA NextChamberInv == ChamberInv /\ [Next]_vars => ChamberInv'
<1> SUFFICES ASSUME ChamberInv, [Next]_vars
             PROVE  ChamberInv'
  OBVIOUS
<1>1. TypeOK'
  BY NextTypeOK DEF ChamberInv
<1>2. CASE Call
  BY <1>2, CallKeeps
<1>3. CASE Exchange
  BY <1>1, <1>3, OrdersKeep, StartKeeps, AskKeeps DEF Exchange, ChamberInv
<1>4. CASE \E a \in Axes : Run(a) \/ Stall(a)
  BY <1>1, <1>4, MotorKeeps DEF ChamberInv
<1>5. CASE UNCHANGED vars
  BY <1>1, <1>5
  DEF vars, thread, counters, ChamberInv, OthersRest, MoveOnItsWay, AtDestination, Destination
<1> QED
  BY <1>2, <1>3, <1>4, <1>5 DEF Next

\* The invariant holds in every behaviour.
LEMMA ChamberInvHolds == Spec => []ChamberInv
<1> QED
  BY InitChamberInv, NextChamberInv, PTL DEF Spec

-----------------------------------------------------------------------------
(* The theorems.                                                           *)

\* The axes never run together as long as no method threw and no status was
\* misread (WKThermalChamber.cc:78, 102).
THEOREM AxesRunInTurn == Spec => []OneAxisAtATime
<1>1. ChamberInv => OneAxisAtATime
  BY DEF ChamberInv, OthersRest, OneAxisAtATime, Axes
<1> QED
  BY <1>1, ChamberInvHolds, PTL

\* MoveToPosition that returns, with no echo missing and no status misread in
\* it, has both axes where it sent them, whatever calls before it left running
\* (WKThermalChamber.cc:75-105).
THEOREM MoveReturnsAtRest == Spec => []MoveEndsAtRest
<1>1. ChamberInv => MoveEndsAtRest
  BY DEF ChamberInv, MoveOnItsWay, MoveEndsAtRest, Returned, Axes
<1> QED
  BY <1>1, ChamberInvHolds, PTL
=============================================================================
