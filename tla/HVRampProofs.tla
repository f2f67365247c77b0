---------------------------- MODULE HVRampProofs ----------------------------
(***************************************************************************)
(* Proofs about the high voltage requests of HVRamp, for any targets,      *)
(* limits, loads and numbers of requests and failed readings, and readings *)
(* that are off by less than half a volt.                                  *)
(***************************************************************************)
EXTENDS HVRamp, TLAPS

-----------------------------------------------------------------------------
(* The inductive invariant: where the voltage is at each place of a ramp.  *)

InLoop == {"while", "and", "step", "low", "high", "excess", "final"}

\* The voltage is on the side of the target that the ramp comes from, or
\* not further past it than a reading is off; before a step it is far from it.
OnItsSide ==
    /\ pc \in InLoop =>
          IF dir = "lower" THEN Voltage >= target - 2 * Noise
                           ELSE Voltage <= target + 2 * Noise
    /\ pc = "step" =>
          IF dir = "lower" THEN Voltage >= target + NearOf[kind] - Noise
                           ELSE Voltage <= target - NearOf[kind] + Noise

\* It is not near the target, or it is about to be set to the target.
Distance ==
    /\ pc \in {"direction", "and"} => Abs(Voltage - target) >= NearOf[kind] - Noise
    /\ pc = "final" /\ state_indicator = 0 => Abs(Voltage - target) < NearOf[kind] + Noise

\* Each turn of the loop begins where the request found the set value, or
\* where the limits were looked at.
WithinReach ==
    /\ pc \in {"near", "direction"} => level = began
    /\ pc \in {"while", "and", "step"} \/ (pc = "final" /\ state_indicator = 0) =>
          \/ level = began
          \/ Voltage >= MinVoltage - Noise /\ Voltage <= MaxVoltage + Noise
    /\ pc = "high" => Voltage >= MinVoltage - Noise

\* Only Set_HVVoltage sets directly; a ramp none of whose readings failed is
\* where it should be.
Course ==
    /\ pc = "set" => kind = "set"
    /\ kind # "set" /\ ~failed => OnItsSide /\ Distance /\ WithinReach

RampInv ==
    /\ TypeOK
    /\ ZeroMeansSet
    /\ BoundedExcursion
    /\ Course

-----------------------------------------------------------------------------
(* Lemmas about the operators.                                             *)

\* The widths of the two kinds of ramp (serial_spyserv_DEV.C:533, 562): a step
\* is shorter than the distance at which the loop ends, and both are longer
\* than what two readings can differ by.
LEMMA Widths ==
    ASSUME kind \in {"ramp", "speed"}
    PROVE  /\ StepOf[kind] \in Int /\ NearOf[kind] \in Int
           /\ StepOf[kind] >= 10
           /\ NearOf[kind] >= StepOf[kind] + 2
  BY DEF StepOf, NearOf

\* A distance is at least, or less than, a width in both directions
\* (fabs, serial_spyserv_DEV.C:526).
LEMMA AbsBound ==
    ASSUME NEW v \in Int, NEW w \in Int
    PROVE  /\ Abs(v) \in Int /\ Abs(v) >= 0
           /\ Abs(v) < w <=> v < w /\ -v < w
           /\ Abs(v) <= w <=> v <= w /\ -v <= w
           /\ Abs(v) >= w <=> v >= w \/ -v >= w
  BY DEF Abs

\* The voltage is the set value or, higher, what the load allows.
LEMMA VoltageIs ==
    ASSUME TypeOK
    PROVE  /\ Voltage \in Int /\ level \in Int /\ clip \in Int
           /\ Voltage >= level /\ Voltage >= clip
           /\ Voltage = level \/ Voltage = clip
           /\ clip <= MaxVoltage
           /\ target \in Int /\ Abs(target) <= SourceRange
  BY RampAssumption DEF TypeOK, Voltage

\* A reading that did not fail and is not late is near the voltage
\* (compatible.cc:117-123), and no other was before it.
LEMMA GoodReading ==
    ASSUME TypeOK, NEW r \in Readings, Read(r), ~failed'
    PROVE  /\ r \in Int /\ r >= Voltage - Noise /\ r <= Voltage + Noise
           /\ ~failed
<1>1. Noise \in Int /\ Voltage \in Int
  BY VoltageIs, RampAssumption
<1>2. r \in (Voltage - Noise)..(Voltage + Noise) /\ failed' = failed
  BY DEF Read, Around, line
<1> QED
  BY <1>1, <1>2

\* Any reading is a number, also the error value.
LEMMA ReadingIsInt ==
    ASSUME TypeOK, NEW r \in Readings, Read(r)
    PROVE  /\ r \in Int /\ late' \subseteq Int
           /\ failures' \in 0..MaxFailures /\ failed' \in BOOLEAN
<1>1. Noise \in Int /\ Voltage \in Int /\ MaxFailures \in Nat
  BY VoltageIs, RampAssumption
<1>2. ErrorReading \in Int
  BY SMT DEF ErrorReading
<1>3. \A v \in late \cup {Voltage} : Around(v) \subseteq Int
  BY <1>1 DEF Around, TypeOK
<1>4. r \in Int
  <2>1. r = ErrorReading \/ \E v \in late \cup {Voltage} : r \in Around(v)
    BY Zenon DEF Readings
  <2> QED
    BY <1>2, <1>3, <2>1, Zenon
<1>5. late' \in {late, {}, {Voltage}}
  BY DEF Read, line
<1>6. late' \subseteq Int
  BY <1>1, <1>5 DEF TypeOK
<1>7. failures' \in 0..MaxFailures
  BY <1>1 DEF Read, TypeOK, line
<1>8. failed' \in BOOLEAN
  BY DEF Read, TypeOK, line
<1> QED
  BY <1>4, <1>6, <1>7, <1>8

-----------------------------------------------------------------------------
(* Types.                                                                  *)

\* A server that was just started has the types.
LEMMA InitTypeOK == Init => TypeOK
<1> SUFFICES ASSUME Init PROVE TypeOK
  OBVIOUS
<1>1. level \in Int /\ began \in Int
  BY RampAssumption DEF Init
<1>2. failures \in 0..MaxFailures /\ requests \in 0..MaxRequests
  BY RampAssumption DEF Init
<1> QED
  BY <1>1, <1>2 DEF Init, TypeOK

\* Every step of the handlers keeps the types.
LEMMA NextTypeOK == TypeOK /\ [Next]_vars => TypeOK'
<1> SUFFICES ASSUME TypeOK, [Next]_vars
             PROVE  TypeOK'
  OBVIOUS
<1>0. /\ target \in Int /\ level \in Int
      /\ \A v \in Targets : v \in Int
      /\ MaxFailures \in Nat /\ MaxRequests \in Nat
  BY VoltageIs, RampAssumption
<1>1. ASSUME NEW k \in {"set", "ramp", "speed"}, NEW v \in Targets, Request(k, v)
      PROVE  TypeOK'
  <2>1. requests' \in 0..MaxRequests /\ began' \in Int
    BY <1>0, <1>1 DEF Request, TypeOK
  <2> QED
    BY <1>1, <2>1 DEF Request, TypeOK
<1>2. CASE OtherSet
  BY <1>2 DEF OtherSet, TypeOK, line, world
<1>3. CASE SetVoltage
  BY <1>0, <1>3 DEF SetVoltage, Apply, TypeOK, line, world
<1>4. CASE CheckNear
  <2>1. /\ failures' \in 0..MaxFailures /\ failed' \in BOOLEAN /\ late' \subseteq Int
        /\ level' \in Int
    BY <1>0, <1>4, ReadingIsInt DEF CheckNear, Apply
  <2> QED
    BY <1>4, <2>1 DEF CheckNear, TypeOK, world
<1>5. CASE ChooseDirection
  BY <1>5, ReadingIsInt DEF ChooseDirection, TypeOK, world
<1>6. CASE WhileNear
  BY <1>6, ReadingIsInt DEF WhileNear, Branch, TypeOK, world
<1>7. CASE WhileAnd
  BY <1>7, ReadingIsInt DEF WhileAnd, Branch, TypeOK, world
<1>8. CASE CheckLow
  BY <1>8, ReadingIsInt DEF CheckLow, Branch, TypeOK, world
<1>9. CASE CheckHigh
  BY <1>9, ReadingIsInt DEF CheckHigh, Branch, TypeOK, world
<1>10. CASE RampStep
  <2>1. kind \in {"ramp", "speed"}
    BY <1>10 DEF RampStep, TypeOK
  <2>2. /\ failures' \in 0..MaxFailures /\ failed' \in BOOLEAN /\ late' \subseteq Int
        /\ level' \in Int
    BY <1>0, <1>10, <2>1, Widths, ReadingIsInt DEF RampStep, Apply
  <2> QED
    BY <1>10, <2>2 DEF RampStep, TypeOK, world
<1>11. CASE Excess
  BY <1>11 DEF Excess, TypeOK, line, world
<1>12. CASE SetTarget
  BY <1>0, <1>12 DEF SetTarget, Apply, TypeOK, line, world
<1>13. CASE Answer
  BY <1>13 DEF Answer, TypeOK, line, world
<1>14. CASE UNCHANGED vars
  BY <1>14 DEF vars, line, world, TypeOK
<1> QED
  BY <1>1, <1>2, <1>3, <1>4, <1>5, <1>6, <1>7, <1>8, <1>9, <1>10, <1>11, <1>12,
     <1>13, <1>14 DEF Next, Handler

\* The server's variables and the instrument's set value have their types,
\* whatever is requested and however many readings fail.
THEOREM TypeCorrect == Spec => []TypeOK
<1> QED
  BY InitTypeOK, NextTypeOK, PTL DEF Spec
-----------------------------------------------------------------------------
(* The course of a ramp.                                                   *)

\* The numbers that the proofs about a step need, before and after it.
LEMMA Numbers ==
    ASSUME TypeOK
    PROVE  /\ Noise \in Int /\ 0 <= Noise /\ Noise < 5
           /\ MinVoltage \in Int /\ MaxVoltage \in Int
           /\ began \in Int
  BY RampAssumption DEF TypeOK

\* What setVoltage leaves (compatible.cc:88-101): the voltage asked for, or the
\* voltage of before when it is out of range.
LEMMA ApplyEffect ==
    ASSUME TypeOK, NEW v \in Int, Apply(v), clip' = clip
    PROVE  \/ level' = level /\ Voltage' = Voltage
           \/ /\ level' = v
              /\ Voltage' = IF v < clip THEN clip ELSE v
  BY VoltageIs DEF Apply, Voltage

\* A request begins where the set value is.
LEMMA RequestCourse ==
    ASSUME RampInv, NEW k \in {"set", "ramp", "speed"}, NEW v \in Targets, Request(k, v)
    PROVE  RampInv'
<1>1. TypeOK'
  BY NextTypeOK DEF RampInv, Next
<1>2. level' = level /\ began' = level /\ level \in Int /\ pc' \in {"set", "near"}
  BY VoltageIs DEF Request, RampInv
<1>3. ZeroMeansSet'
  BY <1>2 DEF ZeroMeansSet
<1>4. kind' # "set" => NearOf[kind'] \in Int /\ NearOf[kind'] >= 0
  BY <1>1 DEF TypeOK, NearOf
<1>5. BoundedExcursion'
  BY <1>2, <1>4, Numbers DEF BoundedExcursion, RampInv
<1>6. Course'
  BY <1>2 DEF Request, Course, OnItsSide, Distance, WithinReach, InLoop
<1> QED
  BY <1>1, <1>3, <1>5, <1>6 DEF RampInv

\* A condition that is only looked at moves nothing.
LEMMA LookOnly ==
    ASSUME RampInv, NEW r \in Readings, Read(r),
           pc \notin {"idle", "set", "answer"}, pc' # "answer",
           UNCHANGED <<kind, target, level, world>>
    PROVE  /\ Voltage' = Voltage
           /\ ZeroMeansSet' /\ BoundedExcursion'
           /\ kind \in {"ramp", "speed"}
           /\ ~failed' => /\ r \in Int /\ r >= Voltage - Noise /\ r <= Voltage + Noise
                          /\ OnItsSide /\ Distance /\ WithinReach
<1>1. Voltage' = Voltage
  BY DEF Voltage, world
<1>2. ZeroMeansSet'
  BY DEF ZeroMeansSet
<1>3. kind \in {"ramp", "speed"}
  BY DEF RampInv, TypeOK
<1>4. ~failed' => /\ r \in Int /\ r >= Voltage - Noise /\ r <= Voltage + Noise
                  /\ ~failed
  BY GoodReading DEF RampInv
<1>5. BoundedExcursion'
  BY <1>4 DEF BoundedExcursion, RampInv, world
<1> QED
  BY <1>1, <1>2, <1>3, <1>4, <1>5 DEF RampInv, Course

\* Not near the target (serial_spyserv_DEV.C:526-529): nothing is set.
LEMMA CheckNearKeeps == RampInv /\ CheckNear => RampInv'
<1> SUFFICES ASSUME RampInv, CheckNear
             PROVE  RampInv'
  OBVIOUS
<1> PICK r \in Readings :
       /\ Read(r)
       /\ IF IsNear(r)
          THEN state_indicator' = 0 /\ Apply(target) /\ pc' = "answer"
          ELSE pc' = "direction" /\ UNCHANGED <<state_indicator, level>>
  BY DEF CheckNear
<1>1. TypeOK'
  BY NextTypeOK DEF RampInv, Next, Handler
<1>2. /\ pc = "near" /\ UNCHANGED <<dir, kind, target, clip, began>>
      /\ kind \in {"ramp", "speed"}
  BY DEF CheckNear, world, RampInv, TypeOK
<1>3. CASE IsNear(r)
  <2>1. level' = target /\ pc' = "answer"
    BY <1>2, <1>3, VoltageIs DEF Apply, RampInv
  <2>2. ZeroMeansSet' /\ Course'
    BY <1>2, <2>1 DEF ZeroMeansSet, Course, OnItsSide, Distance, WithinReach, InLoop
  <2>3. ASSUME ~failed'
        PROVE  /\ target >= level - NearOf[kind] - Noise /\ level = began
               /\ target <= MaxVoltage + NearOf[kind] + Noise \/ target <= level + NearOf[kind] + Noise
    <3>1. r \in Int /\ r >= Voltage - Noise /\ r <= Voltage + Noise /\ ~failed
      BY <2>3, GoodReading DEF RampInv
    <3>2. level = began
      BY <1>2, <3>1 DEF RampInv, Course, WithinReach
    <3>3. r - target < NearOf[kind] /\ -(r - target) < NearOf[kind]
      BY <1>2, <1>3, <3>1, AbsBound, Widths, VoltageIs DEF IsNear, RampInv
    <3> QED
      BY <1>2, <3>1, <3>2, <3>3, Widths, VoltageIs, Numbers DEF RampInv
  <2>4. BoundedExcursion'
    BY <1>2, <2>1, <2>3, Widths, VoltageIs, Numbers DEF BoundedExcursion, RampInv
  <2> QED
    BY <1>1, <2>2, <2>4 DEF RampInv
<1>4. CASE ~IsNear(r)
  <2>1. pc' = "direction" /\ UNCHANGED <<kind, target, level, world>>
    BY <1>4 DEF CheckNear, world
  <2>2. ASSUME kind # "set", ~failed'
        PROVE  (OnItsSide /\ Distance /\ WithinReach)'
    <3>1. /\ r \in Int /\ r >= Voltage - Noise /\ r <= Voltage + Noise
          /\ level = began /\ Voltage' = Voltage
      BY <1>2, <2>1, <2>2, LookOnly DEF WithinReach
    <3>2. Abs(Voltage - target) >= NearOf[kind] - Noise
      <4>1. ~(r - target < NearOf[kind] /\ -(r - target) < NearOf[kind])
        BY <1>2, <1>4, <3>1, AbsBound, Widths, VoltageIs DEF IsNear, RampInv
      <4>2. \/ Voltage - target >= NearOf[kind] - Noise
            \/ -(Voltage - target) >= NearOf[kind] - Noise
        BY <1>2, <3>1, <4>1, Widths, VoltageIs, Numbers DEF RampInv
      <4> QED
        BY <1>2, <4>2, AbsBound, Widths, VoltageIs, Numbers DEF RampInv
    <3> QED
      BY <1>2, <2>1, <3>1, <3>2 DEF OnItsSide, Distance, WithinReach, InLoop, world
  <2> QED
    BY <1>1, <1>2, <2>1, <2>2, LookOnly DEF RampInv, Course
<1> QED
  BY <1>3, <1>4

\* The direction is the side of the target that the reading is on
\* (serial_spyserv_DEV.C:531, 546): far from the target it is the right one.
LEMMA ChooseDirectionKeeps == RampInv /\ ChooseDirection => RampInv'
<1> SUFFICES ASSUME RampInv, ChooseDirection
             PROVE  RampInv'
  OBVIOUS
<1> PICK r \in Readings : Read(r) /\ dir' = IF r > target THEN "lower" ELSE "raise"
  BY DEF ChooseDirection
<1>1. TypeOK'
  BY NextTypeOK DEF RampInv, Next, Handler
<1>2. /\ pc = "direction" /\ pc' = "while"
      /\ UNCHANGED <<kind, target, state_indicator, level, world>>
  BY DEF ChooseDirection
<1>3. ASSUME kind # "set", ~failed'
      PROVE  (OnItsSide /\ Distance /\ WithinReach)'
  <2>1. /\ r \in Int /\ r >= Voltage - Noise /\ r <= Voltage + Noise
        /\ Abs(Voltage - target) >= NearOf[kind] - Noise
        /\ level = began /\ Voltage' = Voltage /\ kind \in {"ramp", "speed"}
    BY <1>2, <1>3, LookOnly DEF Distance, WithinReach
  <2>2. \/ Voltage - target >= NearOf[kind] - Noise
        \/ -(Voltage - target) >= NearOf[kind] - Noise
    BY <2>1, AbsBound, Widths, VoltageIs, Numbers DEF RampInv
  <2>3. IF dir' = "lower" THEN Voltage >= target - 2 * Noise
                          ELSE Voltage <= target + 2 * Noise
    BY <2>1, <2>2, Widths, VoltageIs, Numbers DEF RampInv
  <2> QED
    BY <1>2, <2>1, <2>3 DEF OnItsSide, Distance, WithinReach, InLoop, world
<1> QED
  BY <1>1, <1>2, <1>3, LookOnly DEF RampInv, Course

\* The first condition of the loop (serial_spyserv_DEV.C:532, 547).
LEMMA WhileNearKeeps == RampInv /\ WhileNear => RampInv'
<1> SUFFICES ASSUME RampInv, WhileNear
             PROVE  RampInv'
  OBVIOUS
<1> PICK r \in Readings : Read(r) /\ pc' = IF IsNear(r) THEN "final" ELSE "and"
  BY DEF WhileNear, Branch
<1>1. TypeOK'
  BY NextTypeOK DEF RampInv, Next, Handler
<1>2. pc = "while" /\ UNCHANGED <<dir, kind, target, state_indicator, level, world>>
  BY DEF WhileNear, Branch
<1>3. ASSUME kind # "set", ~failed'
      PROVE  (OnItsSide /\ Distance /\ WithinReach)'
  <2>1. /\ r \in Int /\ r >= Voltage - Noise /\ r <= Voltage + Noise
        /\ Voltage' = Voltage /\ kind \in {"ramp", "speed"}
        /\ OnItsSide /\ WithinReach
    BY <1>2, <1>3, LookOnly
  <2>2. OnItsSide' /\ WithinReach'
    BY <1>2, <2>1 DEF OnItsSide, WithinReach, InLoop, world
  <2>3. CASE IsNear(r)
    <3>1. r - target < NearOf[kind] /\ -(r - target) < NearOf[kind]
      BY <2>1, <2>3, AbsBound, Widths, VoltageIs DEF IsNear, RampInv
    <3>2. Abs(Voltage - target) < NearOf[kind] + Noise
      BY <2>1, <3>1, AbsBound, Widths, VoltageIs, Numbers DEF RampInv
    <3> QED
      BY <1>2, <2>1, <2>2, <2>3, <3>2 DEF Distance
  <2>4. CASE ~IsNear(r)
    <3>1. r - target >= NearOf[kind] \/ -(r - target) >= NearOf[kind]
      BY <2>1, <2>4, AbsBound, Widths, VoltageIs DEF IsNear, RampInv
    <3>2. Abs(Voltage - target) >= NearOf[kind] - Noise
      BY <2>1, <3>1, AbsBound, Widths, VoltageIs, Numbers DEF RampInv
    <3> QED
      BY <1>2, <2>1, <2>2, <2>4, <3>2 DEF Distance
  <2> QED
    BY <2>3, <2>4
<1> QED
  BY <1>1, <1>2, <1>3, LookOnly DEF RampInv, Course

\* The second one: a voltage that is far from the target, on the side that the
\* ramp comes from, is read there (serial_spyserv_DEV.C:532, 547).
LEMMA WhileAndKeeps == RampInv /\ WhileAnd => RampInv'
<1> SUFFICES ASSUME RampInv, WhileAnd
             PROVE  RampInv'
  OBVIOUS
<1> PICK r \in Readings : Read(r) /\ pc' = IF Short(r) THEN "step" ELSE "final"
  BY DEF WhileAnd, Branch
<1>1. TypeOK'
  BY NextTypeOK DEF RampInv, Next, Handler
<1>2. pc = "and" /\ UNCHANGED <<dir, kind, target, state_indicator, level, world>>
  BY DEF WhileAnd, Branch
<1>3. ASSUME kind # "set", ~failed'
      PROVE  (OnItsSide /\ Distance /\ WithinReach)'
  <2>1. /\ r \in Int /\ r >= Voltage - Noise /\ r <= Voltage + Noise
        /\ Voltage' = Voltage /\ kind \in {"ramp", "speed"}
        /\ OnItsSide /\ Distance /\ WithinReach
    BY <1>2, <1>3, LookOnly
  <2>2. WithinReach'
    BY <1>2, <2>1 DEF WithinReach, world
  <2>3. /\ \/ Voltage - target >= NearOf[kind] - Noise
           \/ -(Voltage - target) >= NearOf[kind] - Noise
        /\ IF dir = "lower" THEN Voltage >= target - 2 * Noise
                            ELSE Voltage <= target + 2 * Noise
    BY <1>2, <2>1, AbsBound, Widths, VoltageIs, Numbers
    DEF Distance, OnItsSide, InLoop, RampInv
  <2>4. CASE Short(r)
    <3>1. IF dir = "lower" THEN Voltage >= target + NearOf[kind] - Noise
                           ELSE Voltage <= target - NearOf[kind] + Noise
      BY <2>1, <2>3, <2>4, Widths, VoltageIs, Numbers DEF Short, RampInv
    <3> QED
      BY <1>2, <2>1, <2>2, <2>3, <2>4, <3>1 DEF Distance, OnItsSide, InLoop
  <2>5. CASE ~Short(r)
    <3>1. /\ Voltage - target < NearOf[kind] + Noise
          /\ -(Voltage - target) < NearOf[kind] + Noise
      BY <2>1, <2>3, <2>5, Widths, VoltageIs, Numbers DEF Short, RampInv
    <3>2. Abs(Voltage - target) < NearOf[kind] + Noise
      BY <2>1, <3>1, AbsBound, Widths, VoltageIs, Numbers DEF RampInv
    <3> QED
      BY <1>2, <2>1, <2>2, <2>3, <2>5, <3>2 DEF Distance, OnItsSide, InLoop
  <2> QED
    BY <2>4, <2>5
<1> QED
  BY <1>1, <1>2, <1>3, LookOnly DEF RampInv, Course

\* The limits are looked at after each step (serial_spyserv_DEV.C:538-541,
\* 553-556): a loop that goes on has the voltage within them.
LEMMA CheckLimitsKeep == RampInv /\ (CheckLow \/ CheckHigh) => RampInv'
<1> SUFFICES ASSUME RampInv, CheckLow \/ CheckHigh
             PROVE  RampInv'
  OBVIOUS
<1>1. TypeOK'
  BY NextTypeOK DEF RampInv, Next, Handler
<1>2. CASE CheckLow
  <2> PICK r \in Readings : Read(r) /\ pc' = IF TooLow(r) THEN "excess" ELSE "high"
    BY <1>2 DEF CheckLow, Branch
  <2>1. pc = "low" /\ UNCHANGED <<dir, kind, target, state_indicator, level, world>>
    BY <1>2 DEF CheckLow, Branch
  <2>2. ASSUME kind # "set", ~failed'
        PROVE  (OnItsSide /\ Distance /\ WithinReach)'
    <3>1. /\ r \in Int /\ r >= Voltage - Noise /\ r <= Voltage + Noise
          /\ Voltage' = Voltage /\ OnItsSide
      BY <2>1, <2>2, LookOnly
    <3>2. pc' = "high" => Voltage >= MinVoltage - Noise
      BY <3>1, VoltageIs, Numbers DEF TooLow, RampInv
    <3> QED
      BY <2>1, <3>1, <3>2 DEF OnItsSide, Distance, WithinReach, InLoop
  <2> QED
    BY <1>1, <2>1, <2>2, LookOnly DEF RampInv, Course
<1>3. CASE CheckHigh
  <2> PICK r \in Readings : Read(r) /\ pc' = IF TooHigh(r) THEN "excess" ELSE "while"
    BY <1>3 DEF CheckHigh, Branch
  <2>1. pc = "high" /\ UNCHANGED <<dir, kind, target, state_indicator, level, world>>
    BY <1>3 DEF CheckHigh, Branch
  <2>2. ASSUME kind # "set", ~failed'
        PROVE  (OnItsSide /\ Distance /\ WithinReach)'
    <3>1. /\ r \in Int /\ r >= Voltage - Noise /\ r <= Voltage + Noise
          /\ Voltage' = Voltage /\ OnItsSide /\ Voltage >= MinVoltage - Noise
      BY <2>1, <2>2, LookOnly DEF WithinReach
    <3>2. pc' = "while" => Voltage <= MaxVoltage + Noise
      BY <3>1, VoltageIs, Numbers DEF TooHigh, RampInv
    <3> QED
      BY <2>1, <3>1, <3>2 DEF OnItsSide, Distance, WithinReach, InLoop
  <2> QED
    BY <1>1, <2>1, <2>2, LookOnly DEF RampInv, Course
<1> QED
  BY <1>2, <1>3

\* A step from a good reading (serial_spyserv_DEV.C:533, 548): the value set is
\* no more than a step and an inexact reading from the voltage, which stays on
\* its side of the target and began within reach of the limits.
LEMMA RampStepKeeps ==
    ASSUME RampInv, RampStep
    PROVE  /\ RampInv'
           /\ ~failed' /\ level' # level => Abs(level' - Voltage) <= NearOf[kind] + Noise
<1> PICK r \in Readings :
       Read(r) /\ Apply(IF dir = "lower" THEN r - StepOf[kind] ELSE r + StepOf[kind])
  BY DEF RampStep
<1>1. TypeOK'
  BY NextTypeOK DEF RampInv, Next, Handler
<1>2. /\ pc = "step" /\ pc' = "low" /\ UNCHANGED <<dir, kind, target, world>>
      /\ kind \in {"ramp", "speed"}
  BY DEF RampStep, RampInv, TypeOK
<1>3. ZeroMeansSet'
  BY <1>2 DEF ZeroMeansSet
<1>4. ASSUME ~failed'
      PROVE  /\ level' # level => Abs(level' - Voltage) <= NearOf[kind] + Noise
             /\ (OnItsSide /\ Distance /\ WithinReach)'
             /\ BoundedExcursion'
  <2> DEFINE v == IF dir = "lower" THEN r - StepOf[kind] ELSE r + StepOf[kind]
  <2>1. /\ r \in Int /\ r >= Voltage - Noise /\ r <= Voltage + Noise
        /\ ~failed /\ v \in Int
    BY <1>2, <1>4, GoodReading, Widths DEF RampInv
  <2>2. /\ IF dir = "lower" THEN Voltage >= target + NearOf[kind] - Noise
                            ELSE Voltage <= target - NearOf[kind] + Noise
        /\ \/ level = began
           \/ Voltage >= MinVoltage - Noise /\ Voltage <= MaxVoltage + Noise
    BY <1>2, <2>1 DEF RampInv, Course, OnItsSide, WithinReach
  <2>3. \/ level' = level /\ Voltage' = Voltage
        \/ level' = v /\ Voltage' = IF v < clip THEN clip ELSE v
    BY <1>2, <2>1, ApplyEffect DEF RampInv, world
  <2>4. /\ v - Voltage <= NearOf[kind] + Noise
        /\ -(v - Voltage) <= NearOf[kind] + Noise
    BY <1>2, <2>1, <2>2, Widths, VoltageIs, Numbers DEF RampInv
  <2>5. level' # level => Abs(level' - Voltage) <= NearOf[kind] + Noise
    BY <1>2, <2>1, <2>3, <2>4, AbsBound, Widths, VoltageIs, Numbers DEF RampInv
  <2>6. IF dir = "lower" THEN Voltage' >= target - 2 * Noise
                         ELSE Voltage' <= target + 2 * Noise
    BY <1>2, <2>1, <2>2, <2>3, Widths, VoltageIs, Numbers DEF RampInv
  <2>7. (OnItsSide /\ Distance /\ WithinReach)'
    BY <1>2, <2>6 DEF OnItsSide, Distance, WithinReach
  <2>8. BoundedExcursion'
    <3>1. CASE level' = level
      <4>1. UNCHANGED <<kind, level, began>> /\ BoundedExcursion
        BY <1>2, <3>1 DEF RampInv, world
      <4> QED
        BY <1>2, <2>1, <4>1 DEF BoundedExcursion
    <3>2. CASE level' = v
      <4>1. /\ level' >= MinVoltage - (NearOf[kind] + 2 * Noise)
               \/ level' >= began - (NearOf[kind] + 2 * Noise)
            /\ level' <= MaxVoltage + (NearOf[kind] + 2 * Noise)
               \/ level' <= began + (NearOf[kind] + 2 * Noise)
        BY <1>2, <2>1, <2>2, <3>2, Widths, VoltageIs, Numbers DEF RampInv
      <4>2. UNCHANGED <<kind, began>>
        BY <1>2 DEF world
      <4> QED
        BY <4>1, <4>2 DEF BoundedExcursion
    <3> QED
      BY <2>3, <3>1, <3>2
  <2> QED
    BY <2>5, <2>7, <2>8
<1>5. BoundedExcursion' /\ Course'
  BY <1>2, <1>4 DEF BoundedExcursion, Course
<1> QED
  BY <1>1, <1>3, <1>4, <1>5 DEF RampInv

\* Out of the limits the handler keeps the error mark (serial_spyserv_DEV.C:559,
\* 577): no target is set.
LEMMA ExcessKeeps == RampInv /\ Excess => RampInv'
<1> SUFFICES ASSUME RampInv, Excess
             PROVE  RampInv'
  OBVIOUS
<1>1. TypeOK'
  BY NextTypeOK DEF RampInv, Next, Handler
<1>2. /\ pc = "excess" /\ pc' = "final" /\ state_indicator' = -1
      /\ UNCHANGED <<dir, kind, target, level, failed, clip, began>>
      /\ Voltage' = Voltage
  BY DEF Excess, line, world, Voltage
<1>3. ZeroMeansSet' /\ BoundedExcursion'
  BY <1>2 DEF ZeroMeansSet, BoundedExcursion, RampInv
<1>4. Course'
  BY <1>2 DEF Course, OnItsSide, Distance, WithinReach, InLoop, RampInv
<1> QED
  BY <1>1, <1>3, <1>4 DEF RampInv

\* The last setVoltage of a ramp (serial_spyserv_DEV.C:577) is of a target that
\* the voltage is near.
LEMMA SetTargetKeeps ==
    ASSUME RampInv, SetTarget
    PROVE  /\ RampInv'
           /\ ~failed' /\ level' # level => Abs(level' - Voltage) <= NearOf[kind] + Noise
<1>1. TypeOK'
  BY NextTypeOK DEF RampInv, Next, Handler
<1>2. /\ pc = "final" /\ pc' = "answer"
      /\ UNCHANGED <<dir, kind, target, state_indicator, failed, clip, began>>
      /\ kind \in {"ramp", "speed"}
  BY DEF SetTarget, line, world, RampInv, TypeOK
<1>3. CASE state_indicator = 0
  <2>1. level' = target /\ Voltage' = IF target < clip THEN clip ELSE target
    BY <1>2, <1>3, VoltageIs DEF SetTarget, Apply, Voltage, RampInv
  <2>2. ZeroMeansSet' /\ Course'
    BY <1>2, <2>1 DEF ZeroMeansSet, Course, OnItsSide, Distance, WithinReach, InLoop
  <2>3. ASSUME ~failed'
        PROVE  BoundedExcursion' /\ Abs(level' - Voltage) <= NearOf[kind] + Noise
    <3>1. /\ Abs(Voltage - target) < NearOf[kind] + Noise
          /\ \/ level = began
             \/ Voltage >= MinVoltage - Noise /\ Voltage <= MaxVoltage + Noise
      BY <1>2, <1>3, <2>3 DEF RampInv, Course, Distance, WithinReach
    <3>2. /\ Voltage - target < NearOf[kind] + Noise
          /\ -(Voltage - target) < NearOf[kind] + Noise
      BY <1>2, <3>1, AbsBound, Widths, VoltageIs, Numbers DEF RampInv
    <3>3. /\ target >= MinVoltage - (NearOf[kind] + 2 * Noise)
             \/ target >= began - (NearOf[kind] + 2 * Noise)
          /\ target <= MaxVoltage + (NearOf[kind] + 2 * Noise)
             \/ target <= began + (NearOf[kind] + 2 * Noise)
      BY <1>2, <3>1, <3>2, Widths, VoltageIs, Numbers DEF RampInv
    <3>4. /\ level' - Voltage <= NearOf[kind] + Noise
          /\ -(level' - Voltage) <= NearOf[kind] + Noise
      BY <1>2, <2>1, <3>2, Widths, VoltageIs, Numbers DEF RampInv
    <3> QED
      BY <1>2, <2>1, <3>3, <3>4, AbsBound, Widths, VoltageIs, Numbers
      DEF BoundedExcursion, RampInv
  <2>4. BoundedExcursion'
    BY <2>3 DEF BoundedExcursion
  <2> QED
    BY <1>1, <1>2, <2>2, <2>3, <2>4 DEF RampInv
<1>4. CASE state_indicator # 0
  <2>1. level' = level /\ Voltage' = Voltage
    BY <1>2, <1>4 DEF SetTarget, Voltage
  <2>2. ZeroMeansSet' /\ Course' /\ BoundedExcursion'
    BY <1>2, <1>4, <2>1
    DEF ZeroMeansSet, Course, OnItsSide, Distance, WithinReach, InLoop, BoundedExcursion, RampInv
  <2> QED
    BY <1>1, <2>1, <2>2 DEF RampInv
<1> QED
  BY <1>3, <1>4

\* The steps outside a ramp: the direct set, the answer, other set requests.
LEMMA OtherStepsKeep ==
    RampInv /\ (SetVoltage \/ Answer \/ OtherSet \/ UNCHANGED vars) => RampInv'
<1> SUFFICES ASSUME RampInv, SetVoltage \/ Answer \/ OtherSet \/ UNCHANGED vars
             PROVE  RampInv'
  OBVIOUS
<1>1. TypeOK'
  BY NextTypeOK DEF RampInv, Next, Handler
<1>2. CASE SetVoltage
  <2>1. pc' = "answer" /\ kind' = "set" /\ level' = target /\ target' = target
    BY <1>2, VoltageIs DEF SetVoltage, Apply, RampInv, Course
  <2>2. ZeroMeansSet' /\ Course' /\ BoundedExcursion'
    BY <2>1 DEF ZeroMeansSet, Course, BoundedExcursion
  <2> QED
    BY <1>1, <2>2 DEF RampInv
<1>3. CASE Answer \/ OtherSet
  <2>1. pc' = "idle"
    BY <1>3 DEF Answer, OtherSet
  <2> QED
    BY <1>1, <2>1 DEF RampInv, ZeroMeansSet, Course, OnItsSide, Distance, WithinReach,
                      InLoop, BoundedExcursion
<1>4. CASE UNCHANGED vars
  <2>1. Voltage' = Voltage
    BY <1>4 DEF Voltage, vars, world
  <2> QED
    BY <1>1, <1>4, <2>1 DEF RampInv, ZeroMeansSet, Course, OnItsSide, Distance, WithinReach,
                      InLoop, BoundedExcursion, vars, line, world
<1> QED
  BY <1>2, <1>3, <1>4

-----------------------------------------------------------------------------
(* The theorems.                                                           *)

\* A server that was just started meets the invariant: no request is handled.
LEMMA InitRampInv == Init => RampInv
  BY InitTypeOK
  DEF Init, RampInv, ZeroMeansSet, BoundedExcursion, Course

\* Every step keeps the invariant.
LEMMA NextRampInv == RampInv /\ [Next]_vars => RampInv'
  BY RequestCourse, OtherStepsKeep, CheckNearKeeps, ChooseDirectionKeeps, WhileNearKeeps,
     WhileAndKeeps, RampStepKeeps, CheckLimitsKeep, ExcessKeeps, SetTargetKeeps
  DEF Next, Handler

\* The invariant holds in every behaviour.
LEMMA RampInvHolds == Spec => []RampInv
<1> QED
  BY InitRampInv, NextRampInv, PTL DEF Spec

\* A ramp whose readings neither failed nor were late sets a value only in the
\* step of its loop and when it sets the target, no further from the voltage
\* than the width at which it takes itself to be there.
LEMMA StepIsGradual ==
    ASSUME RampInv, [Next]_vars, kind # "set", pc # "idle", ~failed', level' # level
    PROVE  Abs(level' - Voltage) <= NearOf[kind] + Noise
<1>0. kind \in {"ramp", "speed"}
  BY DEF RampInv, TypeOK
<1>1. CASE CheckNear
  <2> PICK r \in Readings :
         /\ Read(r)
         /\ IF IsNear(r) THEN Apply(target) ELSE UNCHANGED level
    BY <1>1 DEF CheckNear
  <2>1. r \in Int /\ r >= Voltage - Noise /\ r <= Voltage + Noise
    BY <1>1, GoodReading DEF CheckNear, RampInv
  <2>2. IsNear(r) /\ level' = target
    BY DEF Apply
  <2>3. r - target < NearOf[kind] /\ -(r - target) < NearOf[kind]
    BY <1>0, <2>1, <2>2, AbsBound, Widths, VoltageIs DEF IsNear, RampInv
  <2>4. /\ target - Voltage <= NearOf[kind] + Noise
        /\ -(target - Voltage) <= NearOf[kind] + Noise
    BY <1>0, <2>1, <2>3, Widths, VoltageIs, Numbers DEF RampInv
  <2> QED
    BY <1>0, <2>2, <2>4, AbsBound, Widths, VoltageIs, Numbers DEF RampInv
<1>2. CASE RampStep \/ SetTarget
  BY <1>2, RampStepKeeps, SetTargetKeeps
<1>3. CASE \/ ChooseDirection \/ WhileNear \/ WhileAnd \/ CheckLow \/ CheckHigh
           \/ Excess \/ Answer \/ UNCHANGED vars
  BY <1>3 DEF ChooseDirection, WhileNear, WhileAnd, CheckLow, CheckHigh, Branch, Excess,
              Answer, vars, world
<1>4. ~OtherSet /\ ~SetVoltage /\ \A k \in {"set", "ramp", "speed"}, v \in Targets : ~Request(k, v)
  BY DEF OtherSet, SetVoltage, Request, RampInv, Course
<1> QED
  BY <1>1, <1>2, <1>3, <1>4 DEF Next, Handler

\* A client told 0 has its target set, whatever the limits and the load, and
\* however many readings failed (serial_spyserv_DEV.C:578).
THEOREM ZeroIsHonest == Spec => []ZeroMeansSet
<1>1. RampInv => ZeroMeansSet
  BY DEF RampInv
<1> QED
  BY <1>1, RampInvHolds, PTL

\* However many ramps came before, one without bad readings overshoots the
\* limits, or where it found the set value, by at most one move
\* (serial_spyserv_DEV.C:538-542, 553-557).
THEOREM ExcursionsBounded == Spec => []BoundedExcursion
<1>1. RampInv => BoundedExcursion
  BY DEF RampInv
<1> QED
  BY <1>1, RampInvHolds, PTL

\* No setVoltage of such a ramp sets a value further from the voltage at the
\* terminals than the width at which the code takes itself to be there, whatever
\* the load holds up (serial_spyserv_DEV.C:524-578).
THEOREM RampsAreGradual == Spec => Gradual
<1>1. RampInv /\ [Next]_vars =>
        [kind # "set" /\ pc # "idle" /\ ~failed' /\ level' # level =>
            Abs(level' - Voltage) <= NearOf[kind] + Noise]_vars
  BY StepIsGradual
<1> QED
  BY <1>1, RampInvHolds, PTL DEF Spec, Gradual
=============================================================================
