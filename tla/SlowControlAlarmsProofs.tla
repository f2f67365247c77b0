----------------------- MODULE SlowControlAlarmsProofs -----------------------
(***************************************************************************)
(* Proofs about the colours of SlowControlAlarms, for any temperatures and *)
(* dewpoints and any changes during a round.                               *)
(***************************************************************************)
EXTENDS SlowControlAlarms, TLAPS

-----------------------------------------------------------------------------
(* The inductive invariant.                                                *)

\* The requests of this round that are made.
AlreadyRead(q) == \/ q = "h1" /\ due # "h1"
                  \/ q = "h2" /\ due \notin {"h1", "h2"}
                  \/ q = "dew" /\ due \in {"paint", "shown"}

\* How far a quantity is from what was read of it.
Off(q) == IF AlreadyRead(q) /\ actual[q] # NaN THEN Distance(actual[q], read[q]) ELSE 0

\* All quantities together are no further from what was read than they moved,
\* and a dewpoint stays undefined or defined for the round.
Follows ==
    ~failed =>
        /\ Off("h1") + Off("h2") + Off("dew") <= moved
        /\ \A q \in Quantities : AlreadyRead(q) =>
              read[q] \in ValuesOf(q) /\ (read[q] = NaN <=> actual[q] = NaN)

\* What is shown was painted from what was read, over what was shown before.
PaintedFromRead ==
    due = "shown" =>
        /\ \E old \in Colours \cup {"white"} :
              canvas = IF BothUnreal THEN "blue" ELSE Over(read.h2, Over(read.h1, old))
        /\ label["h1"] = IF BothUnreal THEN "blue" ELSE ByHeat(read.h1, "green")
        /\ label["h2"] = IF BothUnreal THEN "blue" ELSE ByHeat(read.h2, "green")
        /\ \E old \in Colours :
              label["dew"] = IF BothUnreal THEN "blue"
                             ELSE ByDewpoint(read.h2, ByDewpoint(read.h1, old))

AlarmInv == TypeOK /\ Follows /\ PaintedFromRead

-----------------------------------------------------------------------------
(* Lemmas about the values and the colours.                                *)

\* Temperatures are numbers; so is a dewpoint that is defined.
LEMMA ValuesAreInt ==
    ASSUME NEW q \in Quantities, NEW v \in ValuesOf(q)
    PROVE  /\ v \in Int \cup {NaN}
           /\ v # NaN => v \in Int
           /\ q # "dew" => v \in Int /\ v # NaN
  BY AlarmsAssumption DEF Quantities, ValuesOf

\* A distance is a natural number, and no longer than a detour.
LEMMA DistanceBound ==
    ASSUME NEW a \in Int, NEW b \in Int
    PROVE  /\ Distance(a, b) \in Nat
           /\ a - b <= Distance(a, b) /\ b - a <= Distance(a, b)
           /\ Distance(a, a) = 0
           /\ \A c \in Int : Distance(c, b) <= Distance(c, a) + Distance(a, b)
  BY DEF Distance

\* Every condition paints one of the colours or leaves the old one.
LEMMA ColoursOver ==
    ASSUME NEW t, NEW old
    PROVE  /\ ByDewpoint(t, old) \in Colours \cup {old}
           /\ ByHeat(t, old) \in Colours \cup {old}
           /\ Over(t, old) \in Colours \cup {old}
  BY DEF ByDewpoint, ByHeat, Over, Colours

-----------------------------------------------------------------------------
(* Types.                                                                  *)

\* The client starts with a green panel.
LEMMA InitTypeOK == Init => TypeOK
<1> SUFFICES ASSUME Init PROVE TypeOK
  OBVIOUS
<1>1. read \in [Quantities -> {-1}] /\ \A q \in Quantities : read[q] = -1
  BY DEF Init, NothingRead
<1>2. label \in [Quantities -> Colours]
  BY DEF Init, Colours
<1>3. moved \in 0..MaxMoves
  BY AlarmsAssumption DEF Init
<1>4. failed \in BOOLEAN /\ due \in Quantities
  BY DEF Init, Quantities
<1> QED
  BY <1>1, <1>2, <1>3, <1>4 DEF Init, TypeOK

\* Every step keeps the types.
LEMMA NextTypeOK == TypeOK /\ [Next]_vars => TypeOK'
<1> SUFFICES ASSUME TypeOK, [Next]_vars
             PROVE  TypeOK'
  OBVIOUS
<1> USE DEF TypeOK
<1>1. CASE Request
  <2>1. due \in Quantities /\ actual[due] \in ValuesOf(due) /\ Failed = -1
    BY <1>1 DEF Request, Worlds, Failed
  <2>2. actual[due] \in Hybrids \cup Dewpoints
    BY <2>1 DEF ValuesOf
  <2>3. due' \in Quantities \cup {"paint", "shown"}
    BY <1>1 DEF Request, Following, Quantities
  <2>4. /\ read' \in [Quantities -> Hybrids \cup Dewpoints \cup {-1}]
        /\ \A q \in Quantities : read'[q] \in ValuesOf(q) \cup {-1}
    BY <1>1, <2>1, <2>2 DEF Request
  <2>5. failed' \in BOOLEAN
    BY <1>1 DEF Request
  <2> QED
    BY <1>1, <2>3, <2>4, <2>5 DEF Request
<1>2. CASE Paint
  <2>1. canvas' \in Colours \cup {"white"}
    BY <1>2, ColoursOver DEF Paint, Colours
  <2>2. label' \in [Quantities -> Colours]
    BY <1>2, ColoursOver DEF Paint, Colours, Quantities
  <2> QED
    BY <1>2, <2>1, <2>2 DEF Paint
<1>3. CASE Round
  <2>1. read' \in [Quantities -> {-1}] /\ \A q \in Quantities : read'[q] = -1
    BY <1>3 DEF Round, NothingRead
  <2>2. moved' \in 0..MaxMoves
    BY <1>3, AlarmsAssumption DEF Round
  <2>3. failed' \in BOOLEAN /\ due' \in Quantities
    BY <1>3 DEF Round, Quantities
  <2> QED
    BY <1>3, <2>1, <2>2, <2>3 DEF Round
<1>4. ASSUME NEW q \in Quantities, NEW v \in ValuesOf(q), Move(q, v)
      PROVE  TypeOK'
  <2>1. actual' \in Worlds
    BY <1>4 DEF Move, Worlds, ValuesOf
  <2>2. moved' \in 0..MaxMoves
    <3>1. actual[q] \in ValuesOf(q) /\ actual[q] # NaN /\ v # NaN
      BY <1>4 DEF Move, Worlds
    <3>2. v \in Int /\ actual[q] \in Int
      BY <3>1, ValuesAreInt
    <3>3. Distance(v, actual[q]) \in Nat /\ moved \in 0..MaxMoves /\ MaxMoves \in Nat
      BY <3>2, DistanceBound, AlarmsAssumption
    <3>4. moved' = moved + Distance(v, actual[q]) /\ moved' <= MaxMoves
      BY <1>4 DEF Move
    <3> QED
      BY <3>3, <3>4
  <2> QED
    BY <1>4, <2>1, <2>2 DEF Move
<1>5. CASE UNCHANGED vars
  BY <1>5 DEF vars
<1> QED
  BY <1>1, <1>2, <1>3, <1>4, <1>5 DEF Next

\* The client's variables keep their types (SlowControlClient.C:179-284).
THEOREM TypeCorrect == Spec => []TypeOK
<1> QED
  BY InitTypeOK, NextTypeOK, PTL DEF Spec

-----------------------------------------------------------------------------
(* What was read, and what has changed since.                              *)

\* A quantity that was read in a round without failure is a number when the
\* reading is, and then so is what separates them.
LEMMA OffIsNat ==
    ASSUME TypeOK, Follows, ~failed, NEW q \in Quantities
    PROVE  /\ Off(q) \in Nat
           /\ AlreadyRead(q) /\ actual[q] # NaN =>
                 /\ actual[q] \in Int /\ read[q] \in Int /\ read[q] # NaN
                 /\ Off(q) = Distance(actual[q], read[q])
<1>1. actual[q] \in ValuesOf(q)
  BY DEF TypeOK, Worlds
<1>2. CASE AlreadyRead(q) /\ actual[q] # NaN
  <2>1. read[q] \in ValuesOf(q) /\ read[q] # NaN
    BY <1>2 DEF Follows
  <2>2. actual[q] \in Int /\ read[q] \in Int
    BY <1>1, <1>2, <2>1, ValuesAreInt
  <2> QED
    BY <1>2, <2>1, <2>2, DistanceBound DEF Off
<1>3. CASE ~(AlreadyRead(q) /\ actual[q] # NaN)
  BY <1>3 DEF Off
<1> QED
  BY <1>2, <1>3

\* A request reads a quantity as it is (SlowControlClient.C:179-196).
LEMMA RequestFollows ==
    ASSUME TypeOK, Follows, Request
    PROVE  Follows'
<1> SUFFICES ASSUME ~failed'
             PROVE  (/\ Off("h1") + Off("h2") + Off("dew") <= moved
                     /\ \A q \in Quantities : AlreadyRead(q) =>
                           read[q] \in ValuesOf(q) /\ (read[q] = NaN <=> actual[q] = NaN))'
  BY DEF Follows
<1>1. /\ due \in Quantities /\ ~failed /\ due' = Following[due]
      /\ read' = [read EXCEPT ![due] = actual[due]]
      /\ UNCHANGED <<actual, moved>>
  BY DEF Request
<1>2. \A q \in Quantities : AlreadyRead(q)' <=> AlreadyRead(q) \/ q = due
  BY <1>1 DEF AlreadyRead, Following, Quantities
<1>3. /\ read' \in [Quantities -> Hybrids \cup Dewpoints \cup {-1}]
      /\ read'[due] = actual[due] /\ \A q \in Quantities : q # due => read'[q] = read[q]
  BY <1>1 DEF TypeOK, Worlds, ValuesOf
<1>4. ~AlreadyRead(due)
  BY <1>1 DEF AlreadyRead
<1>5. \A q \in Quantities : actual[q] # NaN => actual[q] \in Int
  BY ValuesAreInt DEF TypeOK, Worlds
<1>6. ASSUME NEW q \in Quantities
      PROVE  Off(q)' = Off(q)
  <2>1. CASE q = due
    <3>1. Off(q) = 0
      BY <1>4, <2>1 DEF Off
    <3>2. Off(q)' = IF actual[q] # NaN THEN Distance(actual[q], actual[q]) ELSE 0
      BY <1>1, <1>2, <1>3, <2>1 DEF Off
    <3> QED
      BY <1>5, <3>1, <3>2, DistanceBound
  <2>2. CASE q # due
    BY <1>1, <1>2, <1>3, <2>2 DEF Off
  <2> QED
    BY <2>1, <2>2
<1>7. (Off("h1") + Off("h2") + Off("dew") <= moved)'
  BY <1>1, <1>6 DEF Follows, Quantities
<1>8. \A q \in Quantities : actual[q] \in ValuesOf(q)
  BY DEF TypeOK, Worlds
<1>9. \A q \in Quantities : AlreadyRead(q)' =>
          read'[q] \in ValuesOf(q) /\ (read'[q] = NaN <=> actual'[q] = NaN)
  BY <1>1, <1>2, <1>3, <1>8 DEF Follows
<1> QED
  BY <1>7, <1>9 DEF ValuesOf

\* A change that comes after a reading counts for the round.
LEMMA MoveFollows ==
    ASSUME TypeOK, Follows, NEW q \in Quantities, NEW v \in ValuesOf(q), Move(q, v)
    PROVE  Follows'
<1> SUFFICES ASSUME ~failed'
             PROVE  (/\ Off("h1") + Off("h2") + Off("dew") <= moved
                     /\ \A p \in Quantities : AlreadyRead(p) =>
                           read[p] \in ValuesOf(p) /\ (read[p] = NaN <=> actual[p] = NaN))'
  BY DEF Follows
<1>1. /\ ~failed /\ UNCHANGED <<read, due>>
      /\ actual[q] # NaN /\ v # NaN /\ actual' = [actual EXCEPT ![q] = v]
      /\ moved' = moved + Distance(v, actual[q])
  BY DEF Move
<1>2. /\ actual'[q] = v /\ \A p \in Quantities : p # q => actual'[p] = actual[p]
  BY <1>1 DEF TypeOK, Worlds
<1>3. actual[q] \in Int /\ v \in Int /\ moved \in Int
  <2>1. actual[q] \in ValuesOf(q)
    BY DEF TypeOK, Worlds
  <2>2. moved \in Int
    BY AlarmsAssumption DEF TypeOK
  <2> QED
    BY <1>1, <2>1, <2>2, ValuesAreInt
<1>4. \A p \in Quantities : AlreadyRead(p)' <=> AlreadyRead(p)
  BY <1>1 DEF AlreadyRead
<1>5. \A p \in Quantities : Off(p) \in Nat
  BY <1>1, OffIsNat
<1>6. \A p \in Quantities : p # q => Off(p)' = Off(p)
  BY <1>1, <1>2, <1>4 DEF Off
<1>7. /\ Off(q)' <= Off(q) + Distance(v, actual[q])
      /\ Off(q)' \in Int /\ Distance(v, actual[q]) \in Nat
  <2>1. Distance(v, actual[q]) \in Nat
    BY <1>3, DistanceBound
  <2>2. CASE AlreadyRead(q)
    <3>1. read[q] \in Int /\ Off(q) = Distance(actual[q], read[q])
      BY <1>1, <2>2, OffIsNat
    <3>2. Off(q)' = Distance(v, read[q])
      BY <1>1, <1>2, <1>4, <2>2 DEF Off
    <3>3. Distance(v, read[q]) <= Distance(v, actual[q]) + Distance(actual[q], read[q])
      BY <1>3, <3>1, DistanceBound
    <3>4. Distance(v, read[q]) \in Nat
      BY <1>3, <3>1, DistanceBound
    <3> QED
      BY <1>5, <2>1, <3>1, <3>2, <3>3, <3>4
  <2>3. CASE ~AlreadyRead(q)
    <3>1. Off(q)' = 0
      BY <1>4, <2>3 DEF Off
    <3> QED
      BY <1>5, <2>1, <3>1
  <2> QED
    BY <2>2, <2>3
<1>8. (Off("h1") + Off("h2") + Off("dew") <= moved)'
  <2>1. Off("h1") + Off("h2") + Off("dew") <= moved
    BY <1>1 DEF Follows
  <2>2. Off("h1") \in Nat /\ Off("h2") \in Nat /\ Off("dew") \in Nat
    BY <1>5 DEF Quantities
  <2>3. CASE q = "h1"
    BY <1>1, <1>3, <1>6, <1>7, <2>1, <2>2, <2>3 DEF Quantities
  <2>4. CASE q = "h2"
    BY <1>1, <1>3, <1>6, <1>7, <2>1, <2>2, <2>4 DEF Quantities
  <2>5. CASE q = "dew"
    BY <1>1, <1>3, <1>6, <1>7, <2>1, <2>2, <2>5 DEF Quantities
  <2> QED
    BY <2>3, <2>4, <2>5 DEF Quantities
<1>9. \A p \in Quantities : AlreadyRead(p)' =>
          read'[p] \in ValuesOf(p) /\ (read'[p] = NaN <=> actual'[p] = NaN)
  BY <1>1, <1>2, <1>4 DEF Follows
<1> QED
  BY <1>8, <1>9 DEF ValuesOf

-----------------------------------------------------------------------------
(* The invariant.                                                          *)

\* Nothing is read and nothing has moved when a round begins.
LEMMA NothingReadFollows == due = "h1" /\ moved = 0 => Follows
<1> SUFFICES ASSUME due = "h1", moved = 0 PROVE Follows
  OBVIOUS
<1>1. \A q \in Quantities : ~AlreadyRead(q)
  BY DEF AlreadyRead, Quantities
<1>2. Off("h1") = 0 /\ Off("h2") = 0 /\ Off("dew") = 0
  BY <1>1 DEF Off, Quantities
<1> QED
  BY <1>1, <1>2 DEF Follows

\* Initially nothing is read or shown.
LEMMA InitAlarmInv == Init => AlarmInv
  BY InitTypeOK, NothingReadFollows DEF Init, AlarmInv, PaintedFromRead

\* Every step keeps the invariant.
LEMMA NextAlarmInv == AlarmInv /\ [Next]_vars => AlarmInv'
<1> SUFFICES ASSUME AlarmInv, [Next]_vars
             PROVE  AlarmInv'
  OBVIOUS
<1>1. TypeOK'
  BY NextTypeOK DEF AlarmInv
<1>2. CASE Request
  <2>1. due' # "shown"
    BY <1>2 DEF Request, Following, Quantities
  <2> QED
    BY <1>1, <1>2, <2>1, RequestFollows DEF AlarmInv, PaintedFromRead
<1>3. CASE Paint
  <2>1. /\ due = "paint" /\ due' = "shown" /\ UNCHANGED <<actual, read, moved, failed>>
        /\ \A q \in Quantities : Off(q)' = Off(q) /\ (AlreadyRead(q)' <=> AlreadyRead(q))
    BY <1>3 DEF Paint, Off, AlreadyRead, Quantities
  <2>2. Follows'
    BY <2>1 DEF AlarmInv, Follows, Quantities, ValuesOf
  <2>3. /\ canvas' = IF BothUnreal THEN "blue" ELSE Over(read.h2, Over(read.h1, canvas))
        /\ label' = IF BothUnreal THEN [q \in Quantities |-> "blue"]
                    ELSE [q \in Quantities |->
                             IF q = "dew"
                             THEN ByDewpoint(read.h2, ByDewpoint(read.h1, label.dew))
                             ELSE ByHeat(read[q], "green")]
    BY <1>3 DEF Paint
  <2>4. canvas \in Colours \cup {"white"} /\ label["dew"] \in Colours
    BY DEF AlarmInv, TypeOK, Quantities
  <2>5. /\ label'["h1"] = IF BothUnreal THEN "blue" ELSE ByHeat(read.h1, "green")
        /\ label'["h2"] = IF BothUnreal THEN "blue" ELSE ByHeat(read.h2, "green")
        /\ label'["dew"] = IF BothUnreal THEN "blue"
                           ELSE ByDewpoint(read.h2, ByDewpoint(read.h1, label.dew))
    BY <2>3 DEF Quantities
  <2>6. PaintedFromRead'
    BY <2>1, <2>3, <2>4, <2>5 DEF PaintedFromRead, BothUnreal, Over, ByHeat, ByDewpoint
  <2> QED
    BY <1>1, <2>2, <2>6 DEF AlarmInv
<1>4. CASE Round
  <2>1. due' = "h1" /\ moved' = 0
    BY <1>4 DEF Round
  <2> QED
    BY <1>1, <2>1, NothingReadFollows DEF AlarmInv, PaintedFromRead, Follows, Off, AlreadyRead
<1>5. ASSUME NEW q \in Quantities, NEW v \in ValuesOf(q), Move(q, v)
      PROVE  AlarmInv'
  <2>1. due' # "shown"
    BY <1>5 DEF Move
  <2> QED
    BY <1>1, <1>5, <2>1, MoveFollows DEF AlarmInv, PaintedFromRead
<1>6. CASE UNCHANGED vars
  BY <1>1, <1>6
  DEF vars, AlarmInv, Follows, Off, AlreadyRead, PaintedFromRead, BothUnreal, Over, ByHeat,
      ByDewpoint
<1> QED
  BY <1>2, <1>3, <1>4, <1>5, <1>6 DEF Next

\* The invariant holds in every behaviour.
LEMMA AlarmInvHolds == Spec => []AlarmInv
<1> QED
  BY InitAlarmInv, NextAlarmInv, PTL DEF Spec

-----------------------------------------------------------------------------
(* The theorems.                                                           *)

\* What was read is no further from what is now than all that moved: of one
\* hybrid, and of the hybrid and the dewpoint together.
LEMMA ReadBounds ==
    ASSUME AlarmInv, due = "shown", ~failed, NEW t \in {"h1", "h2"}
    PROVE  /\ actual[t] \in Int /\ read[t] \in Int /\ moved \in Int
           /\ read[t] <= actual[t] + moved /\ read[t] >= actual[t] - moved
           /\ actual["dew"] # NaN =>
                 /\ actual["dew"] \in Int /\ read["dew"] \in Int /\ read["dew"] # NaN
                 /\ read[t] - read["dew"] <= actual[t] - actual["dew"] + moved
                 /\ read[t] - read["dew"] >= actual[t] - actual["dew"] - moved
<1>1. TypeOK /\ Follows
  BY DEF AlarmInv
<1>2. AlreadyRead(t) /\ AlreadyRead("dew") /\ t \in Quantities /\ "dew" \in Quantities
  BY DEF AlreadyRead, Quantities
<1>3. actual[t] # NaN
  BY <1>1, <1>2, ValuesAreInt DEF TypeOK, Worlds
<1>4. /\ actual[t] \in Int /\ read[t] \in Int /\ Off(t) = Distance(actual[t], read[t])
      /\ Off("h1") \in Nat /\ Off("h2") \in Nat /\ Off("dew") \in Nat
  BY <1>1, <1>2, <1>3, OffIsNat DEF Quantities
<1>5. moved \in Int
  BY <1>1, AlarmsAssumption DEF TypeOK
<1>6. Off("h1") + Off("h2") + Off("dew") <= moved
  BY <1>1 DEF Follows
<1>7. Off(t) + Off("dew") <= moved
  BY <1>4, <1>5, <1>6
<1>8. actual[t] - read[t] <= Off(t) /\ read[t] - actual[t] <= Off(t) /\ Off(t) \in Nat
  BY <1>4, DistanceBound
<1>9. read[t] <= actual[t] + moved /\ read[t] >= actual[t] - moved
  BY <1>4, <1>5, <1>7, <1>8
<1>10. ASSUME actual["dew"] # NaN
       PROVE  /\ actual["dew"] \in Int /\ read["dew"] \in Int /\ read["dew"] # NaN
              /\ read[t] - read["dew"] <= actual[t] - actual["dew"] + moved
              /\ read[t] - read["dew"] >= actual[t] - actual["dew"] - moved
  <2>1. /\ actual["dew"] \in Int /\ read["dew"] \in Int /\ read["dew"] # NaN
        /\ Off("dew") = Distance(actual["dew"], read["dew"])
    BY <1>1, <1>2, <1>10, OffIsNat
  <2>2. actual["dew"] - read["dew"] <= Off("dew") /\ read["dew"] - actual["dew"] <= Off("dew")
    BY <2>1, DistanceBound
  <2> QED
    BY <1>4, <1>5, <1>7, <1>8, <2>1, <2>2
<1> QED
  BY <1>4, <1>5, <1>9, <1>10

\* The last hybrid that is painted leaves its alarm on the canvas
\* (SlowControlClient.C:241-272).
LEMMA LastHybridAlarms == AlarmInv => Hybrid2Alarms
<1> SUFFICES ASSUME AlarmInv, due = "shown", ~failed, InDanger("h2")
             PROVE  canvas = "red"
  BY DEF Hybrid2Alarms, Alarms
<1>1. PICK old \in Colours \cup {"white"} :
         canvas = IF BothUnreal THEN "blue" ELSE Over(read.h2, Over(read.h1, old))
  BY DEF AlarmInv, PaintedFromRead
<1>2. read.h2 \in Int /\ (read.h2 > 48 \/ (/\ read.h2 >= -50 /\ read.h2 <= 38
                                           /\ read.dew \in Int /\ read.dew # NaN
                                           /\ read.h2 - 3 <= read.dew))
  <2>1. CASE actual["h2"] - moved > 48
    BY <2>1, ReadBounds
  <2>2. CASE /\ actual["h2"] - moved >= -50 /\ actual["h2"] + moved <= 38
             /\ actual["dew"] # NaN /\ actual["h2"] + moved - actual["dew"] <= 3
    BY <2>2, ReadBounds
  <2> QED
    BY <2>1, <2>2 DEF InDanger
<1>3. ~BothUnreal
  BY <1>2 DEF BothUnreal
<1> QED
  BY <1>1, <1>2, <1>3 DEF Over, ByHeat, ByDewpoint

\* Out of danger, every condition paints green over whatever was shown
\* (SlowControlClient.C:207-284).
LEMMA OutOfDangerIsGreen == AlarmInv => NoFalseAlarm
<1> SUFFICES ASSUME AlarmInv, due = "shown", ~failed, OutOfDanger("h1"), OutOfDanger("h2")
             PROVE  canvas = "green" /\ \A q \in Quantities : label[q] = "green"
  BY DEF NoFalseAlarm
<1>1. \A t \in {"h1", "h2"} :
         /\ read[t] \in Int /\ read[t] >= -50 /\ read[t] <= 38
         /\ read["dew"] \in Int /\ read["dew"] # NaN /\ read[t] - read["dew"] > 5
  <2> TAKE t \in {"h1", "h2"}
  <2> QED
    BY ReadBounds DEF OutOfDanger
<1>2. ~BothUnreal
  BY <1>1 DEF BothUnreal
<1>3. \A old : Over(read.h1, old) = "green" /\ Over(read.h2, old) = "green"
  BY <1>1 DEF Over, ByHeat, ByDewpoint
<1>4. /\ \A old : ByDewpoint(read.h2, old) = "green"
      /\ ByHeat(read.h1, "green") = "green" /\ ByHeat(read.h2, "green") = "green"
  BY <1>1 DEF ByHeat, ByDewpoint
<1> QED
  BY <1>2, <1>3, <1>4 DEF AlarmInv, PaintedFromRead, Quantities

\* The -1 of a lost server is a hybrid as cold as the dewpoint
\* (serial_spy.C:79-89).
LEMMA LostServerIsRed == AlarmInv => LostServerAlarms
<1> SUFFICES ASSUME AlarmInv, due = "shown", \A q \in Quantities : read[q] = Failed
             PROVE  canvas = "red" /\ label.dew = "red"
  BY DEF LostServerAlarms
<1>1. read.h1 = -1 /\ read.h2 = -1 /\ read.dew = -1
  BY DEF Failed, Quantities
<1>2. -1 # NaN
  BY AlarmsAssumption
<1>3. ~BothUnreal
  BY <1>1 DEF BothUnreal
<1>4. \A old : Over(read.h2, old) = "red" /\ ByDewpoint(read.h2, old) = "red"
  BY <1>1, <1>2 DEF Over, ByHeat, ByDewpoint
<1> QED
  BY <1>3, <1>4 DEF AlarmInv, PaintedFromRead

\* However the temperatures and the dewpoint change between the requests of a
\* round, the canvas alarms when hybrid 2 is in danger by more than they did.
THEOREM SecondHybridAlarms == Spec => []Hybrid2Alarms
<1> QED
  BY AlarmInvHolds, LastHybridAlarms, PTL

\* No colour outlives the round that it was painted for.
THEOREM FalseAlarmsEnd == Spec => []NoFalseAlarm
<1> QED
  BY AlarmInvHolds, OutOfDangerIsGreen, PTL

\* A client whose server is gone shows an alarm.
THEOREM LostServerShown == Spec => []LostServerAlarms
<1> QED
  BY AlarmInvHolds, LostServerIsRed, PTL

\* A round whose dewpoint is undefined leaves the canvas and the label of the
\* dewpoint as they were, for heat and unreal readings (SlowControlClient.C:208,
\* 217, 224).
THEOREM UndefinedIsNoNews == Spec => UndefinedKeepsColours
<1> DEFINE Keeps ==
        /\ \/ canvas' = canvas
           \/ canvas' = "blue" /\ BothUnreal
           \/ canvas' \in {"orange", "red"} /\ (read.h1 > 38 \/ read.h2 > 38)
        /\ \/ label'.dew = label.dew
           \/ label'.dew = "blue" /\ BothUnreal
<1>1. ASSUME TypeOK, Next, due = "paint", due' = "shown", read.dew = NaN
      PROVE  Keeps
  <2>1. Paint
    BY <1>1 DEF Next, Request, Round, Move, Quantities
  <2>2. \A t, old : Over(t, old) = ByHeat(t, old) /\ ByDewpoint(t, old) = old
    BY <1>1 DEF Over, ByDewpoint
  <2>3. CASE BothUnreal
    BY <2>1, <2>3 DEF Paint, Quantities
  <2>4. CASE ~BothUnreal
    <3>1. canvas' = ByHeat(read.h2, ByHeat(read.h1, canvas))
      BY <2>1, <2>2, <2>4 DEF Paint
    <3>2. label'["dew"] = label["dew"]
      BY <2>1, <2>2, <2>4 DEF Paint, Quantities
    <3>3. read.h1 \in Int /\ read.h2 \in Int
      <4>1. "h1" \in Quantities /\ "h2" \in Quantities
        BY DEF Quantities
      <4>2. /\ read["h1"] \in ValuesOf("h1") \/ read["h1"] = -1
            /\ read["h2"] \in ValuesOf("h2") \/ read["h2"] = -1
        BY <1>1, <4>1 DEF TypeOK
      <4> QED
        BY <4>1, <4>2, ValuesAreInt
    <3>4. ASSUME NEW t \in Int, NEW old
          PROVE  ByHeat(t, old) = old \/ (ByHeat(t, old) \in {"orange", "red"} /\ t > 38)
      BY DEF ByHeat
    <3>5. canvas' = canvas \/ (canvas' \in {"orange", "red"} /\ (read.h1 > 38 \/ read.h2 > 38))
      BY <3>1, <3>3, <3>4
    <3> QED
      BY <3>2, <3>5
  <2> QED
    BY <2>3, <2>4
<1>2. TypeOK /\ [Next]_vars =>
        [due = "paint" /\ due' = "shown" /\ read.dew = NaN => Keeps]_vars
  BY <1>1
<1> QED
  BY <1>2, TypeCorrect, PTL DEF Spec, UndefinedKeepsColours
=============================================================================
