-------------------------- MODULE SerialQueryProofs --------------------------
(***************************************************************************)
(* Proofs about the port and its queries, for every value of the           *)
(* constants.  First WKserial: its types, its line as a stream.  Then      *)
(* SQInv is an inductive invariant of SerialQuery, and it implies the two  *)
(* properties of the query discipline: for any number of requests, length  *)
(* of answers, speeds, timeouts and read lengths.  Last TimelyLine, whose  *)
(* steps are steps of SerialQuery.                                         *)
(***************************************************************************)
EXTENDS TimelyLine, SequenceTheorems, TLAPS

-----------------------------------------------------------------------------
(* The port.                                                               *)

\* The sleep of read_data is a natural number of ticks at every speed that
\* does not divide by zero (WKserial.cc:282).
LEMMA PollTicksNat ==
    ASSUME NEW s \in Nat \ {0}
    PROVE  PollTicks(s) \in Nat
<1>1. (1000 * 100) \div s \in Nat
  OBVIOUS
<1>2. PollMs(s) + TickMs - 1 \in Nat
  BY <1>1, TimesAssumption DEF PollMs
<1> QED
  BY <1>2, TimesAssumption DEF PollTicks

\* A whole answer is a sequence of bytes.
LEMMA ReplySeq ==
    ASSUME NEW n \in 1..MaxRequests
    PROVE  /\ Reply(n) \in Seq(Byte)
           /\ Len(Reply(n)) = ReplyLen
           /\ \A i \in 1..ReplyLen : Reply(n)[i] = <<n, i>>
<1>1. ReplyLen \in Nat
  BY LengthsAssumption
<1>2. \A i \in 1..ReplyLen : <<n, i>> \in Byte
  BY DEF Byte
<1>3. Reply(n) \in [1..ReplyLen -> Byte]
  BY <1>2 DEF Reply
<1> QED
  BY <1>1, <1>3 DEF Reply

\* An age stays between 0 and Horizon.
LEMMA OlderAge ==
    ASSUME NEW age \in 0..Horizon
    PROVE  Older(age) \in 0..Horizon
  BY TimesAssumption DEF Older, Horizon

\* What read() takes and what it leaves are sequences of bytes.
LEMMA SplitSeq ==
    ASSUME NEW S, NEW q \in Seq(S), NEW n \in 0..Len(q)
    PROVE  /\ SubSeq(q, 1, n) \in Seq(S)
           /\ SubSeq(q, n + 1, Len(q)) \in Seq(S)
           /\ Len(SubSeq(q, 1, n)) = n
           /\ Len(SubSeq(q, n + 1, Len(q))) = Len(q) - n
  BY SubSeqProperties

\* A new object has the types, whatever speed the tty has.
LEMMA InitTypeOK == Init => TypeOK
<1> SUFFICES ASSUME Init PROVE TypeOK
  OBVIOUS
<1>1. Horizon \in Nat /\ Horizon \in 0..Horizon
  BY TimesAssumption DEF Horizon
<1>2. 0 \in 0..MaxRequests
  BY BoundAssumption
<1>3. /\ out \in Seq(Request)
      /\ todo \in Seq(Byte) /\ rx \in Seq(Byte)
      /\ str \in Seq(Byte) /\ taken \in Seq(Byte)
  BY EmptySeq DEF Init
<1> QED
  BY <1>1, <1>2, <1>3 DEF Init, TypeOK

\* Every step of the port, the instrument and the clock keeps the types.
LEMMA NextTypeOK == TypeOK /\ [Next]_vars => TypeOK'
<1> SUFFICES ASSUME TypeOK, [Next]_vars
             PROVE  TypeOK'
  OBVIOUS
<1> USE DEF TypeOK
<1>1. CASE Connect
  <2>1. /\ sinceConnect' \in 0..Horizon /\ sinceWrite' \in 0..Horizon
        /\ m_fd' \in {"failed", "open"} /\ rx' = <<>> /\ taken' = <<>>
    BY <1>1, TimesAssumption DEF Connect, FlushBoth, Horizon
  <2>2. out' \in Seq(Request)
    BY <1>1, EmptySeq DEF Connect, FlushBoth
  <2> QED
    BY <1>1, <2>1, <2>2, EmptySeq DEF Connect, reader
<1>2. CASE Disconnect
  BY <1>2 DEF Disconnect, ages, reader
<1>3. ASSUME NEW s \in Speeds, SetSpeed(s)
      PROVE  TypeOK'
  BY <1>3 DEF SetSpeed, FlushBoth, ages, reader
<1>4. CASE Reconfigure
  BY <1>4 DEF Reconfigure, FlushBoth, ages, reader
<1>5. CASE SetParity
  BY <1>5 DEF SetParity, ages, reader
<1>6. ASSUME NEW a \in BOOLEAN, CallWrite(a)
      PROVE  TypeOK'
  BY <1>6, BoundAssumption DEF CallWrite, line, ages, reader
<1>7. CASE WriteOut
  <2>1. [id |-> written + 1, asks |-> asks] \in Request
    BY <1>7, BoundAssumption DEF WriteOut, Request
  <2>2. out' \in Seq(Request)
    BY <1>7, <2>1 DEF WriteOut
  <2> QED
    BY <1>7, <2>2, TimesAssumption, BoundAssumption DEF WriteOut, reader, Horizon
<1>8. ASSUME NEW n \in Lengths, CallRead(n)
      PROVE  TypeOK'
  BY <1>8 DEF CallRead, line, ages
<1>9. CASE Sample
  <2>1. waiting1' \in Nat
    <3>1. Len(rx) \in Nat
      BY LenProperties
    <3>2. CASE m_fd = "open"
      BY <1>9, <3>1, <3>2 DEF Sample
    <3>3. CASE m_fd # "open"
      BY <1>9, <3>3, GarbageAssumption DEF Sample
    <3> QED
      BY <3>2, <3>3
  <2>2. nap' \in Nat /\ pc' \in {"nap", "dead"}
    BY <1>9, SpeedsAssumption, PollTicksNat DEF Sample
  <2> QED
    BY <1>9, <2>1, <2>2 DEF Sample, line, ages
<1>10. CASE Wake
  BY <1>10 DEF Wake, line, ages, reader
<1>11. CASE Clock
  BY <1>11 DEF Clock, line, ages
<1>12. CASE Take
  <2>1. CASE m_fd = "open"
    <3> DEFINE n == Shorter(length, Len(rx))
    <3>1. n \in 0..Len(rx)
      BY LengthsAssumption DEF Shorter
    <3>2. str' = SubSeq(rx, 1, n) /\ rx' = SubSeq(rx, n + 1, Len(rx))
      BY <1>12, <2>1 DEF Take
    <3> HIDE DEF n
    <3>3. str' \in Seq(Byte) /\ rx' \in Seq(Byte)
      BY <3>1, <3>2, SplitSeq
    <3>4. taken' \in Seq(Byte)
      <4>1. taken' = taken \o str'
        BY <1>12, <2>1 DEF Take
      <4> QED
        BY <3>3, <4>1, ConcatProperties
    <3> QED
      BY <1>12, <2>1, <3>3, <3>4 DEF Take, ages
  <2>2. CASE m_fd # "open"
    BY <1>12, <2>2 DEF Take, ages
  <2> QED
    BY <2>1, <2>2
<1>13. CASE DeviceReceive
  <2>1. out # <<>> /\ out' = Tail(out) /\ out' \in Seq(Request)
    BY <1>13 DEF DeviceReceive
  <2>2. Head(out).id \in 1..MaxRequests
    <3>1. Head(out) \in Request
      BY <2>1, HeadTailProperties
    <3> QED
      BY <3>1 DEF Request
  <2>3. Reply(Head(out).id) \in Seq(Byte)
    BY <2>2, ReplySeq
  <2>4. todo' \in Seq(Byte)
    <3>1. todo' = todo \/ todo' = todo \o Reply(Head(out).id)
      BY <1>13 DEF DeviceReceive
    <3> QED
      BY <2>3, <3>1, ConcatProperties
  <2> QED
    BY <1>13, <2>1, <2>4 DEF DeviceReceive, ages, reader
<1>14. CASE DeviceSend
  <2>1. Head(todo) \in Byte /\ todo' \in Seq(Byte)
    BY <1>14 DEF DeviceSend
  <2>2. rx' \in Seq(Byte)
    BY <1>14, <2>1 DEF DeviceSend
  <2> QED
    BY <1>14, <2>1, <2>2 DEF DeviceSend, ages, reader
<1>15. CASE Tick
  <2>1. sinceConnect' \in 0..Horizon /\ sinceWrite' \in 0..Horizon
    BY <1>15, OlderAge DEF Tick
  <2> QED
    BY <1>15, <2>1 DEF Tick, line, reader
<1>16. CASE UNCHANGED vars
  BY <1>16 DEF vars, line, ages, reader
<1> QED
  BY <1>1, <1>2, <1>3, <1>4, <1>5, <1>6, <1>7, <1>8, <1>9, <1>10, <1>11, <1>12,
     <1>13, <1>14, <1>15, <1>16
  DEF Next, Configuring, Step, Device

\* Type correctness, with what it says of a line that is not open: nothing is
\* waiting on it (WKserial.cc:34-58, 260-306).
THEOREM TypeCorrect == Spec => []TypeOK
<1> QED
  BY InitTypeOK, NextTypeOK, PTL DEF Spec

-----------------------------------------------------------------------------
(* read() finds bytes.                                                     *)

\* Only Wake leads to the read, and then bytes are waiting; until the read
\* takes them the instrument only adds to them.
LEMMA NextFindsBytes ==
    TypeOK /\ ReadFindsBytes /\ [Next]_vars => ReadFindsBytes'
<1> SUFFICES ASSUME TypeOK, ReadFindsBytes, [Next]_vars
             PROVE  ReadFindsBytes'
  OBVIOUS
<1> USE DEF ReadFindsBytes
<1>1. CASE Configuring
  BY <1>1 DEF Configuring, Connect, Disconnect, SetSpeed, Reconfigure, SetParity
<1>2. ASSUME NEW a \in BOOLEAN, CallWrite(a)
      PROVE  ReadFindsBytes'
  BY <1>2 DEF CallWrite
<1>3. ASSUME NEW n \in Lengths, CallRead(n)
      PROVE  ReadFindsBytes'
  BY <1>3 DEF CallRead
<1>4. CASE WriteOut \/ Sample \/ Clock \/ Take
  BY <1>4 DEF WriteOut, Sample, Clock, Take
<1>5. CASE Wake
  BY <1>5, EmptySeq DEF Wake, line
<1>6. CASE DeviceReceive
  BY <1>6 DEF DeviceReceive
<1>7. CASE DeviceSend
  <2>1. m_fd = "open" => rx' = Append(rx, Head(todo)) /\ Head(todo) \in Byte
    BY <1>7 DEF DeviceSend, TypeOK
  <2>2. m_fd = "open" => rx' # <<>>
    BY <2>1, AppendProperties DEF TypeOK
  <2> QED
    BY <1>7, <2>2 DEF DeviceSend
<1>8. CASE Tick \/ UNCHANGED vars
  BY <1>8 DEF Tick, vars, line
<1> QED
  BY <1>1, <1>2, <1>3, <1>4, <1>5, <1>6, <1>7, <1>8 DEF Next, Step, Device

\* read() on an open line returns at once and with at least one byte: bytes
\* are waiting whenever read_data calls it (WKserial.cc:296-301).
THEOREM ReadsFindBytes == Spec => []ReadFindsBytes
<1>1. Init => ReadFindsBytes
  BY DEF Init, ReadFindsBytes
<1> QED
  BY <1>1, TypeCorrect, NextFindsBytes, PTL DEF Spec

-----------------------------------------------------------------------------
(* The line is a stream.                                                   *)

\* What is left of a sequence of bytes after its first n.
LEMMA RestOf ==
    ASSUME NEW s \in Seq(Byte), NEW n \in 0..Len(s)
    PROVE  /\ SubSeq(s, n + 1, Len(s)) \in Seq(Byte)
           /\ Len(SubSeq(s, n + 1, Len(s))) = Len(s) - n
           /\ \A i \in 1..(Len(s) - n) : SubSeq(s, n + 1, Len(s))[i] = s[n + i]
<1>1. Len(s) \in Nat
  BY LenProperties
<1>2. \A i \in (n + 1)..Len(s) : s[i] \in Byte
  BY <1>1, ElementOfSeq
<1> DEFINE b == SubSeq(s, n + 1, Len(s))
<1>3. /\ b \in Seq(Byte)
      /\ Len(b) = IF n + 1 <= Len(s) THEN Len(s) - (n + 1) + 1 ELSE 0
      /\ \A i \in 1..(Len(s) - (n + 1) + 1) : b[i] = s[(n + 1) + i - 1]
  BY <1>1, <1>2, SubSeqProperties
<1> HIDE DEF b
<1>4. /\ Len(b) = Len(s) - n
      /\ \A i \in 1..(Len(s) - n) : b[i] = s[n + i]
  BY <1>1, <1>3
<1> QED
  BY <1>3, <1>4 DEF b

\* A prefix of the first of two sequences, and what remains of both.
LEMMA CutConcat ==
    ASSUME NEW s \in Seq(Byte), NEW t \in Seq(Byte), NEW n \in 0..Len(s)
    PROVE  /\ SubSeq(s \o t, 1, n) = SubSeq(s, 1, n)
           /\ SubSeq(s \o t, n + 1, Len(s \o t)) = SubSeq(s, n + 1, Len(s)) \o t
<1>1. /\ Len(s) \in Nat /\ Len(t) \in Nat
      /\ s \o t \in Seq(Byte)
      /\ Len(s \o t) = Len(s) + Len(t)
      /\ \A i \in 1..(Len(s) + Len(t)) :
            (s \o t)[i] = IF i <= Len(s) THEN s[i] ELSE t[i - Len(s)]
  BY ConcatProperties, LenProperties
<1>2. SubSeq(s \o t, 1, n) = SubSeq(s, 1, n)
  <2>1. CASE n = 0
    BY <2>1, SubSeqEmpty
  <2>2. CASE n # 0
    BY <1>1, <2>2, SubSeqOfConcat1
  <2> QED
    BY <2>1, <2>2
<1> DEFINE a == SubSeq(s \o t, n + 1, Len(s \o t))
           b == SubSeq(s, n + 1, Len(s))
<1>3. /\ a \in Seq(Byte) /\ Len(a) = Len(s) + Len(t) - n
      /\ \A i \in 1..(Len(s) + Len(t) - n) : a[i] = (s \o t)[n + i]
  <2>1. n \in 0..Len(s \o t)
    BY <1>1
  <2>2. /\ a \in Seq(Byte) /\ Len(a) = Len(s \o t) - n
        /\ \A i \in 1..(Len(s \o t) - n) : a[i] = (s \o t)[n + i]
    BY <1>1, <2>1, RestOf
  <2> QED
    BY <1>1, <2>2
<1>4. /\ b \in Seq(Byte) /\ Len(b) = Len(s) - n
      /\ \A i \in 1..(Len(s) - n) : b[i] = s[n + i]
  BY RestOf
<1> HIDE DEF a, b
<1>5. /\ b \o t \in Seq(Byte) /\ Len(b \o t) = Len(s) - n + Len(t)
      /\ \A i \in 1..(Len(b) + Len(t)) :
            (b \o t)[i] = IF i <= Len(b) THEN b[i] ELSE t[i - Len(b)]
  <2>1. /\ b \o t \in Seq(Byte) /\ Len(b \o t) = Len(b) + Len(t)
        /\ \A i \in 1..(Len(b) + Len(t)) :
              (b \o t)[i] = IF i <= Len(b) THEN b[i] ELSE t[i - Len(b)]
    BY <1>4, ConcatProperties
  <2> QED
    BY <1>1, <1>4, <2>1
<1>6. Len(a) = Len(b \o t)
  BY <1>1, <1>3, <1>5
<1>7. ASSUME NEW i \in 1..Len(a)
      PROVE  a[i] = (b \o t)[i]
  <2>1. /\ i \in 1..(Len(s) + Len(t) - n) /\ n + i \in 1..(Len(s) + Len(t))
        /\ i \in 1..(Len(b) + Len(t))
    BY <1>1, <1>3, <1>4
  <2>2. a[i] = IF n + i <= Len(s) THEN s[n + i] ELSE t[n + i - Len(s)]
    BY <1>1, <1>3, <2>1
  <2>3. (b \o t)[i] = IF i <= Len(b) THEN b[i] ELSE t[i - Len(b)]
    BY <1>5, <2>1
  <2>4. i <= Len(b) => n + i <= Len(s) /\ b[i] = s[n + i]
    BY <1>1, <1>4, <2>1
  <2>5. ~(i <= Len(b)) => ~(n + i <= Len(s)) /\ n + i - Len(s) = i - Len(b)
    BY <1>1, <1>4, <2>1
  <2> QED
    BY <2>2, <2>3, <2>4, <2>5
<1>8. a = b \o t
  BY <1>3, <1>5, <1>6, <1>7, SeqEqual
<1> QED
  BY <1>2, <1>8 DEF a, b

\* A byte that arrives moves from the front of t to the end of s.
LEMMA MoveByte ==
    ASSUME NEW s \in Seq(Byte), NEW t \in Seq(Byte), t # <<>>
    PROVE  Append(s, Head(t)) \o Tail(t) = s \o t
<1>1. Head(t) \in Byte /\ Tail(t) \in Seq(Byte) /\ <<Head(t)>> \in Seq(Byte)
  BY HeadTailProperties
<1>2. Append(s, Head(t)) = s \o <<Head(t)>>
  BY <1>1, AppendIsConcat
<1>3. (s \o <<Head(t)>>) \o Tail(t) = s \o (<<Head(t)>> \o Tail(t))
  BY <1>1, ConcatAssociative
<1>4. <<Head(t)>> \o Tail(t) = t
  <2>1. Len(t) \in Nat \ {0}
    BY EmptySeq
  <2>2. SubSeq(t, 1, Len(t)) = <<t[1]>> \o SubSeq(t, 2, Len(t))
    BY <2>1, SubSeqRecursiveFirst
  <2>3. SubSeq(t, 1, Len(t)) = t /\ SubSeq(t, 2, Len(t)) = Tail(t)
    BY SubSeqFull, TailIsSubSeq
  <2>4. Head(t) = t[1]
    BY <2>1
  <2> QED
    BY <2>2, <2>3, <2>4
<1> QED
  BY <1>2, <1>3, <1>4

\* A flush of the input queue resets the stream.
LEMMA FlushResets ==
    ASSUME TypeOK, rx' = <<>>, taken' = <<>>, todo' = todo
    PROVE  Stream!Reset
<1>1. Len(rx) \in Nat /\ Len(todo) \in Nat /\ Len(rx \o todo) = Len(rx) + Len(todo)
  BY LenProperties, ConcatProperties DEF TypeOK
<1>2. SubSeq(rx \o todo, Len(rx) + 1, Len(rx \o todo)) = todo
  BY <1>1, CutConcat, SubSeqEmpty, ConcatEmptySeq DEF TypeOK
<1>3. (rx \o todo)' = todo
  BY ConcatEmptySeq DEF TypeOK
<1>4. Len(rx) \in 0..Len(rx \o todo)
  BY <1>1
<1> QED
  BY <1>2, <1>3, <1>4 DEF Stream!Reset

\* A read delivers the front of the stream: at least one byte, for bytes are
\* waiting and no length is 0.
LEMMA TakeDelivers ==
    ASSUME TypeOK, ReadFindsBytes, Take, m_fd = "open"
    PROVE  Stream!Deliver
<1> DEFINE n == Shorter(length, Len(rx))
<1>1. /\ rx \in Seq(Byte) /\ todo \in Seq(Byte) /\ taken \in Seq(Byte)
      /\ Len(rx) \in Nat \ {0} /\ Len(todo) \in Nat
  BY LenProperties, EmptySeq DEF TypeOK, Take, ReadFindsBytes
<1>2. n \in 1..Len(rx)
  BY <1>1, LengthsAssumption DEF TypeOK, Shorter
<1>3. /\ taken' = taken \o SubSeq(rx, 1, n)
      /\ rx' = SubSeq(rx, n + 1, Len(rx))
      /\ todo' = todo
  BY DEF Take
<1> HIDE DEF n
<1>4. n \in 0..Len(rx)
  BY <1>1, <1>2
<1>5. /\ SubSeq(rx \o todo, 1, n) = SubSeq(rx, 1, n)
      /\ SubSeq(rx \o todo, n + 1, Len(rx \o todo)) = SubSeq(rx, n + 1, Len(rx)) \o todo
  BY <1>1, <1>4, CutConcat
<1>6. Len(rx \o todo) = Len(rx) + Len(todo)
  BY <1>1, ConcatProperties
<1>7. n \in 1..Len(rx \o todo)
  BY <1>1, <1>2, <1>6
<1> QED
  BY <1>3, <1>5, <1>7 DEF Stream!Deliver

\* Every step of the port and the instrument is a step of the stream or
\* leaves it alone.
LEMMA StreamStep ==
    TypeOK /\ ReadFindsBytes /\ [Next]_vars => [Stream!Next]_<<rx \o todo, taken>>
<1> SUFFICES ASSUME TypeOK, ReadFindsBytes, [Next]_vars
             PROVE  Stream!Next \/ UNCHANGED <<rx \o todo, taken>>
  OBVIOUS
<1>1. CASE Configuring
  <2>1. rx' = <<>> /\ taken' = <<>> /\ todo' = todo
    BY <1>1 DEF Configuring, Connect, Disconnect, SetSpeed, Reconfigure, SetParity,
                FlushBoth
  <2> QED
    BY <2>1, FlushResets DEF Stream!Next
<1>2. ASSUME NEW a \in BOOLEAN, CallWrite(a)
      PROVE  UNCHANGED <<rx, todo, taken>>
  BY <1>2 DEF CallWrite, line
<1>3. ASSUME NEW n \in Lengths, CallRead(n)
      PROVE  UNCHANGED <<rx, todo, taken>>
  BY <1>3 DEF CallRead, line
<1>4. CASE WriteOut \/ Sample \/ Wake \/ Clock \/ Tick \/ UNCHANGED vars
  BY <1>4 DEF WriteOut, Sample, Wake, Clock, Tick, vars, line
<1>5. CASE Take
  <2>1. m_fd # "open" => UNCHANGED <<rx, todo, taken>>
    BY <1>5 DEF Take
  <2> QED
    BY <1>5, <2>1, TakeDelivers DEF Stream!Next
<1>6. CASE DeviceReceive
  <2>1. UNCHANGED <<rx, taken>> /\ out # <<>>
    BY <1>6 DEF DeviceReceive
  <2>2. Head(out) \in Request
    BY <2>1, HeadTailProperties DEF TypeOK
  <2>3. CASE todo' = todo \o Reply(Head(out).id)
    <3>1. Head(out).id \in 1..MaxRequests
      BY <2>2 DEF Request
    <3>2. Reply(Head(out).id) \in {Reply(n) : n \in 1..MaxRequests}
      BY <3>1
    <3>3. rx \o (todo \o Reply(Head(out).id)) = (rx \o todo) \o Reply(Head(out).id)
      <4>1. rx \in Seq(Byte) /\ todo \in Seq(Byte) /\ Reply(Head(out).id) \in Seq(Byte)
        BY <3>1, ReplySeq DEF TypeOK
      <4> QED
        BY <4>1, ConcatAssociative
    <3>4. Stream!Send
      BY <2>1, <2>3, <3>2, <3>3 DEF Stream!Send
    <3> QED
      BY <3>4 DEF Stream!Next
  <2> QED
    BY <1>6, <2>1, <2>3 DEF DeviceReceive
<1>7. CASE DeviceSend
  <2>1. /\ todo # <<>> /\ todo \in Seq(Byte) /\ rx \in Seq(Byte)
        /\ todo' = Tail(todo) /\ taken' = taken
    BY <1>7 DEF DeviceSend, TypeOK
  <2>2. CASE m_fd = "open"
    <3>1. rx' = Append(rx, Head(todo))
      BY <1>7, <2>2 DEF DeviceSend
    <3>2. (rx \o todo)' = rx \o todo
      BY <2>1, <3>1, MoveByte
    <3> QED
      BY <2>1, <3>2
  <2>3. CASE m_fd # "open"
    <3>1. rx = <<>> /\ rx' = <<>> /\ taken = <<>>
      BY <1>7, <2>3 DEF DeviceSend, TypeOK
    <3>2. Tail(todo) \in Seq(Byte) /\ Len(todo) \in Nat \ {0}
      BY <2>1, HeadTailProperties, EmptySeq
    <3>3. rx \o todo = todo /\ (rx \o todo)' = Tail(todo)
      BY <2>1, <3>1, <3>2, ConcatEmptySeq
    <3>4. Tail(todo) = SubSeq(todo, 1 + 1, Len(todo)) /\ 1 \in 0..Len(todo)
      BY <2>1, <3>2, TailIsSubSeq
    <3>5. Stream!Reset
      BY <2>1, <3>1, <3>3, <3>4 DEF Stream!Reset
    <3> QED
      BY <3>5 DEF Stream!Next
  <2> QED
    BY <2>2, <2>3
<1> QED
  BY <1>1, <1>2, <1>3, <1>4, <1>5, <1>6, <1>7 DEF Next, Step, Device

\* The bytes that read_data returns are the instrument's, in order, none twice
\* and none lost but by a reset of the line (WKserial.cc:301-302), for every
\* mixture of calls, answers and timings.
THEOREM PortImplementsStream == Spec => DeliversStream
<1>1. Init => Stream!Init
  <2> SUFFICES ASSUME Init PROVE Stream!Init
    OBVIOUS
  <2>1. <<>> \o <<>> = <<>>
    BY EmptySeq, ConcatEmptySeq
  <2> QED
    BY <2>1 DEF Init, Stream!Init
<1>2. Spec => [][Stream!Next]_<<rx \o todo, taken>>
  BY TypeCorrect, ReadsFindBytes, StreamStep, PTL DEF Spec
<1> QED
  BY <1>1, <1>2, PTL DEF Spec, DeliversStream, Stream!Spec

-----------------------------------------------------------------------------
(* Queries.                                                                *)

\* Each action of SerialQuery does an action of WKserial or leaves it alone.
LEMMA PortNext == [SQNext]_sqVars => [Next]_vars
  BY DEF SQNext, sqVars, Configure, Command, Ask, ReadAnswer, Finish, PortStep,
         DeviceStep, TimePasses, Next

\* At first nothing is on the line and no query is in progress.
LEMMA SQInitInv == SQInit => SQInv
<1> SUFFICES ASSUME SQInit PROVE SQInv
  OBVIOUS
<1>1. TypeOK
  BY InitTypeOK DEF SQInit
<1>2. Len(out) = 0
  BY EmptySeq DEF SQInit, Init
<1>3. SilentLine
  BY <1>2 DEF SQInit, Init, SilentLine, NoQuestion
<1> QED
  BY <1>1, <1>3 DEF SQInit, Init, SQInv, SQTypeOK, Nesting, InStep

\* The types of the port and of the query are kept.
LEMMA SQTypeStep == SQInv /\ [SQNext]_sqVars => SQTypeOK'
<1> SUFFICES ASSUME SQInv, [SQNext]_sqVars PROVE SQTypeOK'
  OBVIOUS
<1>1. TypeOK'
  BY PortNext, NextTypeOK DEF SQInv, SQTypeOK
<1>2. mode' \in {"free", "command", "asking", "reading"} /\ clean' \in BOOLEAN
  BY DEF SQInv, SQTypeOK, SQNext, sqVars, Configure, Command, Ask, ReadAnswer,
         Finish, PortStep, DeviceStep, TimePasses
<1> QED
  BY <1>1, <1>2 DEF SQTypeOK

-----------------------------------------------------------------------------
(* How the two levels of calls nest.                                       *)

\* The calls of the device class and of the port stay nested.
LEMMA NestingStep == SQInv /\ [SQNext]_sqVars => Nesting'
<1> SUFFICES ASSUME SQInv, [SQNext]_sqVars PROVE Nesting'
  OBVIOUS
<1> USE DEF SQInv, Nesting
<1>0. Len(rx) \in Nat /\ rx \in Seq(Byte) /\ todo \in Seq(Byte)
  BY LenProperties DEF SQTypeOK, TypeOK
<1>1. CASE Configure
  BY <1>1 DEF Configure, Configuring, Connect, Disconnect, SetSpeed, Reconfigure,
              SetParity, reader
<1>2. CASE Command
  BY <1>2 DEF Command, CallWrite, line, reader
<1>3. CASE Ask
  BY <1>3 DEF Ask, CallWrite, line, reader
<1>4. CASE ReadAnswer
  BY <1>4 DEF ReadAnswer, CallRead, line
<1>5. CASE Finish
  BY <1>5 DEF Finish, vars, line, reader
<1>6. CASE PortStep
  <2>1. CASE WriteOut
    BY <1>6, <2>1 DEF PortStep, WriteOut, reader
  <2>2. CASE Sample
    BY <1>6, <2>2 DEF PortStep, Sample, line
  <2>3. CASE Wake
    <3>1. pc' = "take" /\ m_fd = "open" => Len(rx) # 0
      BY <2>3 DEF Wake
    <3>2. rx' = rx /\ m_fd' = m_fd /\ str' = str /\ mode' = mode /\ pc = "nap"
          /\ pc' \in {"clock", "take", "sample"}
      BY <1>6, <2>3 DEF PortStep, Wake, line, reader
    <3> QED
      BY <3>1, <3>2, EmptySeq
  <2>4. CASE Clock
    BY <1>6, <2>4 DEF PortStep, Clock, line
  <2>5. CASE Take
    BY <1>6, <2>5 DEF PortStep, Take
  <2> QED
    BY <1>6, <2>1, <2>2, <2>3, <2>4, <2>5 DEF PortStep, Step
<1>7. CASE DeviceStep
  <2>1. UNCHANGED <<mode, pc, asks, str, m_fd>>
    BY <1>7 DEF DeviceStep, Device, DeviceReceive, DeviceSend, reader
  <2>2. m_fd = "open" /\ rx # <<>> => rx' # <<>>
    <3>1. CASE DeviceReceive
      BY <3>1 DEF DeviceReceive
    <3>2. CASE DeviceSend
      BY <1>0, <3>2, HeadTailProperties, AppendProperties DEF DeviceSend
    <3> QED
      BY <1>7, <3>1, <3>2 DEF DeviceStep, Device
  <2> QED
    BY <2>1, <2>2
<1>8. CASE TimePasses
  BY <1>8 DEF TimePasses, Tick, line, reader
<1>9. CASE UNCHANGED sqVars
  BY <1>9 DEF sqVars, vars, line, reader
<1> QED
  BY <1>1, <1>2, <1>3, <1>4, <1>5, <1>6, <1>7, <1>8, <1>9 DEF SQNext

-----------------------------------------------------------------------------
(* What the instrument and the line do to the answer of a query.           *)

\* Without a question on its way the instrument has nothing to send.
LEMMA SilentDevice ==
    ASSUME TypeOK, SilentLine, Device
    PROVE  SilentLine'
<1> USE DEF SilentLine, NoQuestion
<1>1. DeviceReceive
  BY DEF Device, DeviceSend
<1>2. out # <<>> /\ out \in Seq(Request) /\ out' = Tail(out)
  BY <1>1 DEF DeviceReceive, TypeOK
<1>3. Len(out) \in Nat /\ Len(out) # 0 /\ Head(out) = out[1]
  BY <1>2, EmptySeq, LenProperties
<1>4. Len(out') = Len(out) - 1 /\ \A i \in 1..Len(out') : out'[i] = out[i + 1]
  BY <1>2, HeadTailProperties
<1>5. ~Head(out).asks
  BY <1>3
<1>6. NoQuestion'
  BY <1>3, <1>4
<1> QED
  BY <1>1, <1>5, <1>6 DEF DeviceReceive

\* The instrument ignores the question, or its whole answer is on its way.
LEMMA UnansweredDevice ==
    ASSUME TypeOK, Unanswered, Device
    PROVE  Unanswered' \/ InFlight(0)'
<1>1. DeviceReceive
  BY DEF Device, DeviceSend, Unanswered
<1>2. /\ out # <<>> /\ out \in Seq(Request) /\ out' = Tail(out)
      /\ UNCHANGED <<rx, written, m_fd>>
  BY <1>1 DEF DeviceReceive, TypeOK
<1>3. Len(out) \in Nat /\ Len(out) # 0 /\ Head(out) = out[1]
  BY <1>2, EmptySeq, LenProperties
<1>4. Len(out') = Len(out) - 1 /\ \A i \in 1..Len(out') : out'[i] = out[i + 1]
  BY <1>2, HeadTailProperties
<1>5. \A i \in 1..Len(out') : out'[i].asks =>
          i = Len(out') /\ out'[i].id = written' /\ m_fd' = "open"
  <2> SUFFICES ASSUME NEW i \in 1..Len(out'), out'[i].asks
               PROVE  i = Len(out') /\ out'[i].id = written' /\ m_fd' = "open"
    OBVIOUS
  <2>1. i + 1 \in 1..Len(out) /\ out'[i] = out[i + 1]
    BY <1>3, <1>4
  <2>2. i + 1 = Len(out) /\ out[i + 1].id = written /\ m_fd = "open"
    BY <2>1 DEF Unanswered
  <2>3. i = Len(out')
    BY <1>3, <1>4, <2>2
  <2>4. out'[i].id = written' /\ m_fd' = "open"
    BY <1>2, <2>1, <2>2
  <2> QED
    BY <2>3, <2>4
<1>6. CASE todo' = todo
  BY <1>2, <1>5, <1>6 DEF Unanswered
<1>7. CASE Head(out).asks /\ todo' = todo \o Reply(Head(out).id)
  <2>1. Len(out) = 1 /\ Head(out).id = written /\ m_fd = "open"
    <3>1. 1 \in 1..Len(out) /\ out[1].asks
      BY <1>3, <1>7
    <3> QED
      BY <1>3, <3>1 DEF Unanswered
  <2>2. written \in 1..MaxRequests
    <3>1. Head(out) \in Request
      BY <1>2, HeadTailProperties
    <3> QED
      BY <2>1, <3>1 DEF Request
  <2>3. todo' = Reply(written)
    BY <1>7, <2>1, <2>2, ReplySeq, ConcatEmptySeq DEF Unanswered
  <2>4. Len(todo') = ReplyLen /\ \A i \in 1..Len(todo') : todo'[i] = <<written, i>>
    BY <2>2, <2>3, ReplySeq
  <2>5. Len(rx') = 0 /\ Len(out') = 0
    BY <1>2, <1>4, <2>1, EmptySeq DEF Unanswered
  <2> QED
    BY <1>2, <2>1, <2>4, <2>5, LengthsAssumption DEF InFlight, NoQuestion
<1> QED
  BY <1>1, <1>6, <1>7 DEF DeviceReceive

\* A byte of the answer arrives: the answer stays whole and in order.
LEMMA InFlightDevice ==
    ASSUME TypeOK, NEW k \in Nat, InFlight(k), Device
    PROVE  /\ m_fd' = "open"
           /\ NoQuestion'
           /\ k + Len(rx') + Len(todo') = ReplyLen
           /\ \A i \in 1..Len(rx') : rx'[i] = <<written', k + i>>
           /\ \A i \in 1..Len(todo') : todo'[i] = <<written', k + Len(rx') + i>>
<1> USE DEF InFlight
<1>0. /\ rx \in Seq(Byte) /\ todo \in Seq(Byte) /\ out \in Seq(Request)
      /\ Len(rx) \in Nat /\ Len(todo) \in Nat /\ Len(out) \in Nat
  BY LenProperties DEF TypeOK
<1>1. CASE DeviceReceive
  <2>1. /\ out # <<>> /\ out' = Tail(out)
        /\ UNCHANGED <<rx, written, m_fd>>
    BY <1>1 DEF DeviceReceive
  <2>2. Len(out) # 0 /\ Head(out) = out[1]
    BY <1>0, <2>1, EmptySeq
  <2>3. Len(out') = Len(out) - 1 /\ \A i \in 1..Len(out') : out'[i] = out[i + 1]
    BY <1>0, <2>1, HeadTailProperties
  <2>4. ~Head(out).asks /\ NoQuestion'
    <3>1. 1 \in 1..Len(out) /\ \A i \in 1..Len(out') : i + 1 \in 1..Len(out)
      BY <1>0, <2>2, <2>3
    <3> QED
      BY <2>2, <2>3, <3>1 DEF NoQuestion
  <2>5. todo' = todo
    BY <1>1, <2>4 DEF DeviceReceive
  <2> QED
    BY <2>1, <2>4, <2>5
<1>2. CASE DeviceSend
  <2>1. /\ todo # <<>> /\ todo' = Tail(todo) /\ rx' = Append(rx, Head(todo))
        /\ UNCHANGED <<out, written, m_fd>>
    BY <1>2 DEF DeviceSend
  <2>2. Len(todo) # 0 /\ Head(todo) = todo[1] /\ Head(todo) \in Byte
    BY <1>0, <2>1, EmptySeq, HeadTailProperties
  <2>3. Len(todo') = Len(todo) - 1 /\ \A i \in 1..Len(todo') : todo'[i] = todo[i + 1]
    BY <1>0, <2>1, HeadTailProperties
  <2>4. /\ Len(rx') = Len(rx) + 1
        /\ \A i \in 1..Len(rx) : rx'[i] = rx[i]
        /\ rx'[Len(rx) + 1] = Head(todo)
    BY <1>0, <2>1, <2>2, AppendProperties
  <2>5. Head(todo) = <<written, k + Len(rx) + 1>>
    BY <1>0, <2>2
  <2>6. ASSUME NEW i \in 1..Len(rx')
        PROVE  rx'[i] = <<written, k + i>>
    <3>1. CASE i \in 1..Len(rx)
      BY <2>4, <3>1
    <3>2. CASE i = Len(rx) + 1
      <4>1. k + i = k + Len(rx) + 1
        BY <1>0, <3>2
      <4> QED
        BY <2>4, <2>5, <3>2, <4>1
    <3> QED
      BY <1>0, <2>4, <3>1, <3>2
  <2>7. ASSUME NEW i \in 1..Len(todo')
        PROVE  todo'[i] = <<written, k + Len(rx') + i>>
    <3>1. i + 1 \in 1..Len(todo) /\ todo'[i] = todo[i + 1]
      BY <1>0, <2>3
    <3>2. todo[i + 1] = <<written, k + Len(rx) + (i + 1)>>
      BY <3>1
    <3>3. k + Len(rx) + (i + 1) = k + Len(rx') + i
      BY <1>0, <2>4
    <3> QED
      BY <3>1, <3>2, <3>3
  <2>8. NoQuestion'
    BY <2>1 DEF NoQuestion
  <2> QED
    BY <1>0, <2>1, <2>3, <2>4, <2>6, <2>7, <2>8
<1> QED
  BY <1>1, <1>2 DEF Device

\* A read on an answer in flight takes its next bytes and leaves the rest.
LEMMA InFlightTake ==
    ASSUME TypeOK, InFlight(0), rx # <<>>, Take
    PROVE  /\ InFlight(Len(str))'
           /\ OwnPrefix'
           /\ str' # <<>>
<1> DEFINE n == Shorter(length, Len(rx))
<1>0. /\ rx \in Seq(Byte) /\ todo \in Seq(Byte)
      /\ Len(rx) \in Nat \ {0} /\ Len(todo) \in Nat
  BY LenProperties, EmptySeq DEF TypeOK
<1>1. n \in 1..Len(rx)
  BY <1>0, LengthsAssumption DEF TypeOK, Shorter
<1>2. /\ str' = SubSeq(rx, 1, n) /\ rx' = SubSeq(rx, n + 1, Len(rx))
      /\ UNCHANGED <<m_fd, out, todo, written>>
  BY DEF Take, InFlight
<1> HIDE DEF n
<1>3. \A i \in 1..Len(rx) : rx[i] \in Byte
  BY <1>0, ElementOfSeq
<1>4. Len(str') = n /\ \A i \in 1..n : str'[i] = rx[i]
  BY <1>0, <1>1, <1>2, <1>3, SubSeqProperties
<1>5. Len(rx') = Len(rx) - n /\ \A i \in 1..Len(rx') : rx'[i] = rx[n + i]
  <2>1. \A i \in (n + 1)..Len(rx) : rx[i] \in Byte
    BY <1>0, <1>1, <1>3
  <2>2. /\ Len(rx') = IF n + 1 <= Len(rx) THEN Len(rx) - (n + 1) + 1 ELSE 0
        /\ \A i \in 1..(Len(rx) - (n + 1) + 1) : rx'[i] = rx[(n + 1) + i - 1]
    BY <1>0, <1>1, <1>2, <2>1, SubSeqProperties
  <2> QED
    BY <1>0, <1>1, <2>2
<1>6. ASSUME NEW i \in 1..Len(str')
      PROVE  str'[i] = <<written, i>>
  <2>1. i \in 1..Len(rx) /\ str'[i] = rx[i]
    BY <1>0, <1>1, <1>4
  <2>2. rx[i] = <<written, 0 + i>>
    BY <2>1 DEF InFlight
  <2> QED
    BY <2>1, <2>2
<1>7. ASSUME NEW i \in 1..Len(rx')
      PROVE  rx'[i] = <<written, n + i>>
  <2>1. n + i \in 1..Len(rx) /\ rx'[i] = rx[n + i]
    BY <1>0, <1>1, <1>5
  <2>2. rx[n + i] = <<written, 0 + (n + i)>>
    BY <2>1 DEF InFlight
  <2>3. 0 + (n + i) = n + i
    BY <1>1
  <2> QED
    BY <2>1, <2>2, <2>3
<1>8. \A i \in 1..Len(todo) : todo[i] = <<written, n + Len(rx') + i>>
  BY <1>0, <1>1, <1>5 DEF InFlight
<1>9. n + Len(rx') + Len(todo) = ReplyLen /\ m_fd = "open" /\ NoQuestion
  BY <1>0, <1>1, <1>5 DEF InFlight
<1>10. str' # <<>>
  BY <1>1, <1>4, EmptySeq
<1> QED
  BY <1>2, <1>4, <1>6, <1>7, <1>8, <1>9, <1>10 DEF InFlight, OwnPrefix, NoQuestion

-----------------------------------------------------------------------------
(* Every step of a run in step keeps it so.                                *)

\* InStep speaks of these variables only.
LEMMA InStepUnchanged ==
    ASSUME InStep, UNCHANGED <<m_fd, line, pc, str, outcome, written, mode>>
    PROVE  InStep'
  BY DEF InStep, SilentLine, Unanswered, InFlight, OwnPrefix, NoQuestion, Answered, line

\* Between two queries the line is silent; configuring it changes nothing.
LEMMA ConfigureInStep ==
    ASSUME SQInv, InStep, Configure
    PROVE  InStep'
<1>1. mode = "free" /\ mode' = "free" /\ pc = "idle" /\ pc' = "idle"
  BY DEF Configure, Configuring, Connect, Disconnect, SetSpeed, Reconfigure, SetParity
<1>2. SilentLine
  BY <1>1 DEF InStep
<1>3. rx' = <<>> /\ todo' = <<>> /\ (out' = out \/ out' = <<>>)
  BY <1>2 DEF SilentLine, Configure, Configuring, Connect, Disconnect, SetSpeed,
              Reconfigure, SetParity, FlushBoth, ages, reader, vars, line
<1>4. NoQuestion'
  BY <1>2, <1>3, EmptySeq DEF SilentLine, NoQuestion
<1> QED
  BY <1>1, <1>3, <1>4 DEF InStep, SilentLine

\* The write leaves the question, if it is one, as the last request.
LEMMA WriteInStep ==
    ASSUME SQInv, InStep, PortStep, WriteOut
    PROVE  InStep'
<1>1. /\ mode \in {"command", "asking"} /\ mode' = mode /\ pc = "write" /\ pc' = "idle"
      /\ (asks <=> mode = "asking")
  BY DEF PortStep, WriteOut, SQInv, Nesting, SQTypeOK
<1>2. SilentLine
  BY <1>1 DEF InStep
<1>3. rx' = <<>> /\ todo' = <<>> /\ m_fd' = m_fd /\ written' = written + 1
  BY <1>2 DEF WriteOut, SilentLine
<1>4. CASE m_fd # "open"
  <2>1. NoQuestion'
    BY <1>2, <1>4 DEF WriteOut, SilentLine, NoQuestion
  <2>2. SilentLine' /\ Unanswered'
    BY <1>3, <2>1 DEF SilentLine, Unanswered, NoQuestion
  <2> QED
    BY <1>1, <2>2 DEF InStep
<1>5. CASE m_fd = "open"
  <2> DEFINE q == [id |-> written + 1, asks |-> asks]
  <2>1. q \in Request /\ out \in Seq(Request) /\ Len(out) \in Nat
    BY <1>1, LenProperties, BoundAssumption DEF Request, SQInv, SQTypeOK, TypeOK
  <2>2. out' = Append(out, q)
    BY <1>5 DEF WriteOut
  <2>3. q.id = written' /\ q.asks = asks
    BY <1>3
  <2> HIDE DEF q
  <2>4. /\ Len(out') = Len(out) + 1
        /\ \A i \in 1..Len(out) : out'[i] = out[i]
        /\ out'[Len(out) + 1] = q
    BY <2>1, <2>2, AppendProperties
  <2>5. \A i \in 1..Len(out') : i \in 1..Len(out) \/ i = Len(out')
    BY <2>1, <2>4
  <2>6. \A i \in 1..Len(out) : ~out'[i].asks
    BY <1>2, <2>4 DEF SilentLine, NoQuestion
  <2>7. out'[Len(out')] = q
    BY <2>4
  <2>8. CASE mode = "command"
    <3>1. NoQuestion'
      BY <1>1, <2>3, <2>5, <2>6, <2>7, <2>8 DEF NoQuestion
    <3> QED
      BY <1>1, <1>3, <2>8, <3>1 DEF InStep, SilentLine
  <2>9. CASE mode = "asking"
    <3>1. Unanswered'
      BY <1>3, <1>5, <2>3, <2>5, <2>6, <2>7 DEF Unanswered
    <3> QED
      BY <1>1, <2>9, <3>1 DEF InStep
  <2> QED
    BY <1>1, <2>8, <2>9
<1> QED
  BY <1>4, <1>5

\* The read returns the front of the own answer.
LEMMA TakeInStep ==
    ASSUME SQInv, InStep, PortStep, Take
    PROVE  InStep'
<1>1. mode = "reading" /\ mode' = "reading" /\ pc = "take" /\ pc' = "idle" /\ str = <<>>
  BY DEF PortStep, Take, SQInv, SQTypeOK, Nesting
<1>2. Len(str) = 0
  BY <1>1, EmptySeq
<1>3. CASE m_fd = "open"
  <2>1. rx # <<>>
    BY <1>1, <1>3 DEF SQInv, Nesting
  <2>2. InFlight(0)
    BY <1>1, <1>2, <2>1 DEF InStep, Unanswered
  <2>3. InFlight(Len(str))' /\ OwnPrefix' /\ str' # <<>>
    BY <2>1, <2>2, InFlightTake DEF SQInv, SQTypeOK
  <2> QED
    BY <1>1, <2>3 DEF InStep
<1>4. CASE m_fd # "open"
  <2>1. Unanswered /\ UNCHANGED <<rx, todo, out, written, m_fd, str>>
    BY <1>1, <1>4 DEF InStep, InFlight, Take
  <2>2. outcome' # "data"
    BY <1>4 DEF Take
  <2>3. Unanswered'
    BY <2>1 DEF Unanswered
  <2> QED
    BY <1>1, <2>1, <2>2, <2>3 DEF InStep, Answered
<1> QED
  BY <1>3, <1>4

\* The instrument keeps a query in step.
LEMMA DeviceInStep ==
    ASSUME SQInv, InStep, DeviceStep
    PROVE  InStep'
<1>1. Device /\ TypeOK /\ UNCHANGED <<mode, pc, str, outcome, written>>
  BY DEF DeviceStep, Device, DeviceReceive, DeviceSend, reader, SQInv, SQTypeOK
<1>2. SilentLine => SilentLine'
  BY <1>1, SilentDevice
<1>3. Unanswered => Unanswered' \/ InFlight(0)'
  BY <1>1, UnansweredDevice
<1>4. \A k \in Nat : InFlight(k) =>
          /\ m_fd' = "open"
          /\ NoQuestion'
          /\ k + Len(rx') + Len(todo') = ReplyLen
          /\ \A i \in 1..Len(rx') : rx'[i] = <<written', k + i>>
          /\ \A i \in 1..Len(todo') : todo'[i] = <<written', k + Len(rx') + i>>
  BY <1>1, InFlightDevice
<1>5. InFlight(0) => InFlight(0)'
  BY <1>4 DEF InFlight
<1>6. Len(str) \in Nat /\ Len(<<>>) = 0
  BY <1>1, LenProperties, EmptySeq DEF TypeOK
<1>7. InFlight(Len(str)) => InFlight(Len(str))'
  <2>1. Len(str') = Len(str)
    BY <1>1
  <2> QED
    BY <1>4, <1>6, <2>1 DEF InFlight
<1>8. mode \in {"free", "command"} \/ pc = "write" => SilentLine'
  BY <1>2 DEF InStep
<1>9. mode = "asking" /\ pc = "idle" => Unanswered' \/ InFlight(0)'
  BY <1>3, <1>5 DEF InStep
<1>10. ASSUME mode = "reading"
       PROVE  \/ Unanswered' /\ str' = <<>> /\ ~Answered'
              \/ InFlight(Len(str))' /\ OwnPrefix' /\ (Answered' => str' # <<>>)
  <2>1. (Answered' <=> Answered) /\ (OwnPrefix' <=> OwnPrefix)
    BY <1>1 DEF Answered, OwnPrefix
  <2>2. CASE Unanswered /\ str = <<>> /\ ~Answered
    <3>1. str' = <<>> /\ OwnPrefix' /\ Len(str') = 0
      BY <1>1, <1>6, <2>2 DEF OwnPrefix
    <3>2. InFlight(0)' => InFlight(Len(str))'
      BY <3>1 DEF InFlight
    <3> QED
      BY <1>3, <2>1, <2>2, <3>1, <3>2
  <2>3. CASE InFlight(Len(str)) /\ OwnPrefix /\ (Answered => str # <<>>)
    BY <1>1, <1>7, <2>1, <2>3
  <2> QED
    BY <1>10, <2>2, <2>3 DEF InStep
<1> QED
  BY <1>1, <1>8, <1>9, <1>10 DEF InStep

\* Finishing a query in step means having read the whole answer: nothing of
\* it is left on the line.
LEMMA FinishInStep ==
    ASSUME SQInv, InStep, Finish, clean'
    PROVE  InStep'
<1>1. mode \in {"command", "reading"} /\ mode' = "free" /\ pc = "idle" /\ pc' = "idle"
      /\ UNCHANGED <<line, m_fd, str, outcome, written>>
  BY DEF Finish, vars, reader
<1>2. CASE mode = "command"
  <2>1. SilentLine'
    BY <1>1, <1>2 DEF InStep, SilentLine, NoQuestion, line
  <2> QED
    BY <1>1, <2>1 DEF InStep
<1>3. CASE mode = "reading"
  <2>1. outcome = "data" /\ str = Reply(written)
    BY <1>3 DEF Finish
  <2>2. InFlight(Len(str))
    BY <1>1, <1>3, <2>1 DEF InStep, Answered
  <2>3. Len(str) = ReplyLen
    <3>1. ReplyLen \in Nat
      BY LengthsAssumption
    <3> QED
      BY <2>1, <3>1 DEF Reply
  <2>4. rx \in Seq(Byte) /\ todo \in Seq(Byte) /\ Len(rx) \in Nat /\ Len(todo) \in Nat
    BY LenProperties DEF SQInv, SQTypeOK, TypeOK
  <2>5. Len(rx) = 0 /\ Len(todo) = 0
    BY <2>2, <2>3, <2>4, LengthsAssumption DEF InFlight
  <2>6. rx = <<>> /\ todo = <<>> /\ NoQuestion
    BY <2>2, <2>4, <2>5, EmptySeq DEF InFlight
  <2>7. SilentLine'
    BY <1>1, <2>6 DEF SilentLine, NoQuestion, line
  <2> QED
    BY <1>1, <2>7 DEF InStep
<1> QED
  BY <1>1, <1>2, <1>3

\* Every step but the end of a query keeps a run in step.
LEMMA InStepKept ==
    ASSUME SQInv, InStep, [SQNext]_sqVars, ~Finish
    PROVE  InStep'
<1>1. CASE Configure
  BY <1>1, ConfigureInStep
<1>2. CASE Command \/ Ask
  <2>1. /\ mode = "free" /\ pc' = "write" /\ mode' \in {"command", "asking"}
        /\ UNCHANGED line
    BY <1>2 DEF Command, Ask, CallWrite
  <2>2. SilentLine'
    BY <2>1 DEF InStep, SilentLine, NoQuestion, line
  <2> QED
    BY <2>1, <2>2 DEF InStep
<1>3. CASE ReadAnswer
  <2>1. /\ mode = "asking" /\ pc = "idle" /\ mode' = "reading" /\ pc' = "sample"
        /\ str' = <<>> /\ UNCHANGED <<line, m_fd, written>>
    BY <1>3 DEF ReadAnswer, CallRead
  <2>2. Unanswered' \/ InFlight(0)'
    BY <2>1 DEF InStep, Unanswered, InFlight, NoQuestion, line
  <2>3. Len(str') = 0 /\ OwnPrefix' /\ ~Answered'
    BY <2>1, EmptySeq DEF OwnPrefix, Answered
  <2>4. InFlight(0)' => InFlight(Len(str))'
    BY <2>3 DEF InFlight
  <2> QED
    BY <2>1, <2>2, <2>3, <2>4 DEF InStep
<1>4. CASE PortStep
  <2>1. CASE WriteOut
    BY <1>4, <2>1, WriteInStep
  <2>2. CASE Sample \/ Wake \/ Clock
    <3>1. /\ UNCHANGED <<m_fd, line, str, written, mode>>
          /\ pc \in {"sample", "nap", "clock"} /\ pc' # "write"
          /\ pc' = "idle" => outcome' = "timeout"
      BY <1>4, <2>2 DEF PortStep, Sample, Wake, Clock, line, reader
    <3>2. mode = "reading" \/ InStep'
      BY <3>1 DEF SQInv, Nesting, SQTypeOK
    <3>3. ASSUME mode = "reading" PROVE InStep'
      <4>1. str = <<>> /\ str' = <<>> /\ ~Answered'
        BY <3>1, <3>3 DEF SQInv, Nesting, Answered
      <4>2. \/ Unanswered
            \/ InFlight(Len(str)) /\ OwnPrefix
        BY <3>3 DEF InStep
      <4>3. \/ Unanswered'
            \/ InFlight(Len(str))' /\ OwnPrefix'
        BY <3>1, <4>2 DEF Unanswered, InFlight, OwnPrefix, NoQuestion, line
      <4> QED
        BY <3>1, <3>3, <4>1, <4>3 DEF InStep
    <3> QED
      BY <3>2, <3>3
  <2>3. CASE Take
    BY <1>4, <2>3, TakeInStep
  <2> QED
    BY <1>4, <2>1, <2>2, <2>3 DEF PortStep, Step
<1>5. CASE DeviceStep
  BY <1>5, DeviceInStep
<1>6. CASE TimePasses
  <2>1. UNCHANGED <<m_fd, line, pc, str, outcome, written, mode>>
    BY <1>6 DEF TimePasses, Tick, reader
  <2> QED
    BY <2>1, InStepUnchanged
<1>7. CASE UNCHANGED sqVars
  <2>1. UNCHANGED <<m_fd, line, pc, str, outcome, written, mode>>
    BY <1>7 DEF sqVars, vars, reader
  <2> QED
    BY <2>1, InStepUnchanged
<1> QED
  BY <1>1, <1>2, <1>3, <1>4, <1>5, <1>6, <1>7 DEF SQNext

\* The end does if the query returned its own whole answer.
LEMMA InStepStep == SQInv /\ [SQNext]_sqVars => (clean' => InStep')
<1> SUFFICES ASSUME SQInv, [SQNext]_sqVars, clean'
             PROVE  InStep'
  OBVIOUS
<1>1. clean
  BY DEF SQNext, sqVars, Configure, Command, Ask, ReadAnswer, Finish, PortStep,
         DeviceStep, TimePasses
<1>2. InStep
  BY <1>1 DEF SQInv
<1> QED
  BY <1>2, InStepKept, FinishInStep

-----------------------------------------------------------------------------
\* SQInv, the place of every byte of the query in progress, is an invariant.
THEOREM InvariantHolds == SQSpec => []SQInv
<1>1. SQInv /\ [SQNext]_sqVars => SQInv'
  BY SQTypeStep, NestingStep, InStepStep DEF SQInv
<1> QED
  BY SQInitInv, <1>1, PTL DEF SQSpec

\* As long as every earlier query returned its own whole answer, a query
\* returns the first bytes of its own answer and no others, for any length of
\* answers and any timing of the instrument (WKserial.cc:260-306).
THEOREM QueriesReadOwnBytes == SQSpec => []OwnBytes
<1>1. SQInv => OwnBytes
  <2> SUFFICES ASSUME SQInv, Answered, clean
               PROVE  Len(str) \in 1..ReplyLen /\ OwnPrefix
    BY DEF OwnBytes
  <2>1. InFlight(Len(str)) /\ OwnPrefix /\ str # <<>>
    BY DEF SQInv, InStep, Answered
  <2>2. /\ str \in Seq(Byte) /\ Len(str) \in Nat \ {0}
        /\ Len(rx) \in Nat /\ Len(todo) \in Nat
    BY <2>1, LenProperties, EmptySeq DEF SQInv, SQTypeOK, TypeOK
  <2>3. Len(str) \in 1..ReplyLen
    BY <2>1, <2>2, LengthsAssumption DEF InFlight
  <2> QED
    BY <2>1, <2>3
<1> QED
  BY <1>1, InvariantHolds, PTL

\* A query that kept step leaves no byte, and no question, to the next one
\* (WKserial.cc:268, 301).
THEOREM QueriesLeaveNothing == SQSpec => []NothingLeftBehind
<1>1. SQInv => NothingLeftBehind
  BY DEF SQInv, InStep, SilentLine, NothingLeftBehind
<1> QED
  BY <1>1, InvariantHolds, PTL

-----------------------------------------------------------------------------
(* A line that keeps its promises: the inductive invariant.                *)

\* A query has written its question and is waiting for, or has, its result.
Written == mode = "reading" \/ (mode = "asking" /\ pc = "idle")

\* The instrument's answer to it has reached the line.
Come == rx # <<>> \/ todo # <<>> \/ Answered

\* A question is only asked on an open line, and no speed is zero.
OpenLine == speed # 0 /\ (mode \in {"asking", "reading"} => m_fd = "open")

\* When the instrument has decided on the question, "answered" says how, and no
\* later request is on its way.
Fate == Written /\ ~Undecided => (answered <=> Come) /\ (answered => out = <<>>)

\* The question is decided and the answer begins in time.
InTime == Undecided \/ OwesFirst => sinceWrite <= FirstByte

\* read_data looks at the clock after it found nothing: if there is an answer
\* after all, it began in time.
LooksInTime == pc = "clock" /\ (Undecided \/ Come) => sinceWrite <= FirstByte

\* While read_data sleeps between equal counts of an answer that is not whole,
\* the pause of the answer has lasted as long as the sleep, and will be over
\* before it.
PauseShorter ==
    pc = "nap" =>
        /\ waiting1 <= Len(rx)
        /\ waiting1 = Len(rx) /\ rx # <<>> /\ todo # <<>> => PollTicks(speed) <= nap + quiet

\* What is taken is all that will come; after that nothing is left.
WholeTaken ==
    /\ pc = "take" => todo = <<>> /\ rx # <<>>
    /\ mode = "reading" /\ pc = "idle" => rx = <<>> /\ todo = <<>> /\ ~Undecided

TLInv ==
    /\ TLTypeOK
    /\ InStep
    /\ OpenLine
    /\ Fate
    /\ InTime
    /\ LooksInTime
    /\ PauseShorter
    /\ WholeTaken
    /\ OwnAnswer

-----------------------------------------------------------------------------
(* TimelyLine behaves as SerialQuery.                                      *)

\* Each action of TimelyLine does an action of SerialQuery.
LEMMA TLStep == [TLNext]_tlVars => [SQNext]_sqVars
  BY DEF TLNext, tlVars, TLConnect, TLConfigure, TLAsk, TLCaller, TLReceive, TLSend, TLTick,
         SQNext, Configure, Configuring, DeviceStep, Device

\* The timely line is a line (WKserial.cc:260-306).
THEOREM TimelyIsLine == TLSpec => SQSpec
<1>1. TLInit => SQInit
  BY DEF TLInit
<1> QED
  BY <1>1, TLStep, PTL DEF TLSpec, SQSpec

\* What the place of a query's answer says of the line.
Places ==
    /\ ~Written => SilentLine
    /\ Undecided <=> ~NoQuestion
    /\ Undecided => rx = <<>> /\ todo = <<>> /\ ~Answered
    /\ todo # <<>> => /\ OwesFirst <=> rx = <<>> /\ (mode = "reading" => str = <<>>)
                      /\ OwesFirst \/ OwesNext
    /\ Written /\ ~Come => Unanswered
    /\ pc = "take" /\ todo = <<>> /\ rx # <<>> => InFlight(0) /\ Len(rx) = ReplyLen

\* The types of the queues.
LEMMA QueueTypes ==
    SQInv => /\ rx \in Seq(Byte) /\ todo \in Seq(Byte) /\ out \in Seq(Request)
             /\ str \in Seq(Byte)
             /\ Len(rx) \in Nat /\ Len(todo) \in Nat /\ Len(out) \in Nat /\ Len(str) \in Nat
             /\ Len(rx) = 0 <=> rx = <<>>
             /\ Len(todo) = 0 <=> todo = <<>>
             /\ Len(out) = 0 <=> out = <<>>
             /\ Len(str) = 0 <=> str = <<>>
  BY LenProperties, EmptySeq DEF SQInv, SQTypeOK, TypeOK

\* The next byte of an answer in flight.
LEMMA NextOfAnswer ==
    ASSUME SQInv, NEW k \in Nat, InFlight(k), todo # <<>>
    PROVE  /\ OwesFirst <=> k + Len(rx) = 0
           /\ OwesFirst \/ OwesNext
<1>1. Len(todo) \in Nat \ {0} /\ Len(rx) \in Nat /\ todo \in Seq(Byte)
  BY QueueTypes
<1>2. Head(todo) = todo[1]
  BY <1>1
<1>3. todo[1] = <<written, k + Len(rx) + 1>>
  BY <1>1 DEF InFlight
<1>4. Head(todo)[2] = k + Len(rx) + 1
  BY <1>2, <1>3
<1> QED
  BY <1>1, <1>4 DEF OwesFirst, OwesNext

\* They hold of a run in step.
LEMMA PlacesHold == SQInv /\ InStep => Places
<1> SUFFICES ASSUME SQInv, InStep PROVE Places
  OBVIOUS
<1>1. ~Written => SilentLine
  BY DEF SQInv, SQTypeOK, Nesting, InStep, Written
<1>2. Undecided <=> ~NoQuestion
  BY DEF Undecided, NoQuestion
<1>3. Written => \/ Unanswered /\ ~Answered
                 \/ mode = "asking" /\ InFlight(0)
                 \/ mode = "reading" /\ InFlight(Len(str))
  BY DEF Written, InStep, Answered
<1>4. Undecided => rx = <<>> /\ todo = <<>> /\ ~Answered
  BY <1>1, <1>2, <1>3 DEF SilentLine, Unanswered, InFlight
<1>5. todo # <<>> => /\ OwesFirst <=> rx = <<>> /\ (mode = "reading" => str = <<>>)
                     /\ OwesFirst \/ OwesNext
  <2> SUFFICES ASSUME todo # <<>>
               PROVE  /\ OwesFirst <=> rx = <<>> /\ (mode = "reading" => str = <<>>)
                      /\ OwesFirst \/ OwesNext
    OBVIOUS
  <2>1. CASE mode = "asking" /\ InFlight(0)
    <3>1. OwesFirst <=> 0 + Len(rx) = 0
      BY <2>1, NextOfAnswer
    <3>2. OwesFirst \/ OwesNext
      BY <2>1, NextOfAnswer
    <3> QED
      BY <2>1, <3>1, <3>2, QueueTypes
  <2>2. CASE mode = "reading" /\ InFlight(Len(str))
    <3>1. Len(str) \in Nat
      BY QueueTypes
    <3>2. OwesFirst <=> Len(str) + Len(rx) = 0
      BY <2>2, <3>1, NextOfAnswer
    <3>3. OwesFirst \/ OwesNext
      BY <2>2, <3>1, NextOfAnswer
    <3>4. Len(str) + Len(rx) = 0 <=> rx = <<>> /\ str = <<>>
      BY QueueTypes
    <3> QED
      BY <2>2, <3>2, <3>3, <3>4
  <2> QED
    BY <1>1, <1>3, <2>1, <2>2 DEF SilentLine, Unanswered
<1>6. Written /\ ~Come => Unanswered
  <2> SUFFICES ASSUME Written, ~Come PROVE Unanswered
    OBVIOUS
  <2>1. Unanswered \/ NoQuestion
    BY <1>3 DEF InFlight
  <2> QED
    BY <2>1 DEF Come, Unanswered, NoQuestion
<1>7. pc = "take" /\ todo = <<>> /\ rx # <<>> => InFlight(0) /\ Len(rx) = ReplyLen
  <2> SUFFICES ASSUME pc = "take", todo = <<>>, rx # <<>>
               PROVE  InFlight(0) /\ Len(rx) = ReplyLen
    OBVIOUS
  <2>1. mode = "reading" /\ str = <<>> /\ Len(str) = 0
    BY QueueTypes DEF SQInv, SQTypeOK, Nesting
  <2>2. InFlight(0)
    BY <2>1 DEF InStep, Unanswered
  <2> QED
    BY <2>2, QueueTypes, LengthsAssumption DEF InFlight
<1> QED
  BY <1>1, <1>2, <1>4, <1>5, <1>6, <1>7 DEF Places

-----------------------------------------------------------------------------
(* A line that keeps its promises: every step keeps the invariant.         *)

\* Of a step of the timely line all of it is left to prove but the types of the
\* line and the place of the answer.
TimelyInv == OpenLine /\ Fate /\ InTime /\ LooksInTime /\ PauseShorter /\ WholeTaken /\ OwnAnswer

\* A run stays in step, whether or not the query was answered.
LEMMA TLInStep == SQInv /\ TLInv /\ [TLNext]_tlVars => InStep'
<1> SUFFICES ASSUME SQInv, TLInv, [TLNext]_tlVars PROVE InStep'
  OBVIOUS
<1>1. InStep /\ [SQNext]_sqVars
  BY TLStep DEF TLInv
<1>2. CASE Finish
  <2>1. /\ mode \in {"command", "reading"} /\ mode' = "free" /\ pc = "idle" /\ pc' = "idle"
        /\ UNCHANGED line
    BY <1>2 DEF Finish, vars
  <2>2. SilentLine
    <3>1. CASE mode = "command"
      BY <1>1, <3>1 DEF InStep
    <3>2. CASE mode = "reading"
      BY <2>1, <3>2 DEF TLInv, WholeTaken, SilentLine, NoQuestion, Undecided
    <3> QED
      BY <2>1, <3>1, <3>2
  <2>3. SilentLine'
    BY <2>1, <2>2 DEF SilentLine, NoQuestion, line
  <2> QED
    BY <2>1, <2>3 DEF InStep
<1> QED
  BY <1>1, <1>2, InStepKept

\* With no question written there is nothing to say but that the line is open.
LEMMA NothingWritten == SQInv /\ Places /\ OpenLine /\ ~Written => TimelyInv
<1> SUFFICES ASSUME SQInv, Places, OpenLine, ~Written PROVE TimelyInv
  OBVIOUS
<1>1. SilentLine
  BY DEF Places
<1>2. pc \in {"idle", "write"} /\ mode # "reading"
  BY DEF SQInv, SQTypeOK, Nesting, Written
<1>3. ~Undecided /\ ~OwesFirst
  BY <1>1 DEF Undecided, OwesFirst, SilentLine, NoQuestion
<1> QED
  BY <1>1, <1>2, <1>3 DEF TimelyInv, Fate, InTime, LooksInTime, PauseShorter, WholeTaken,
     OwnAnswer, SilentLine

\* The line is configured, and calls begin, while it is silent.
LEMMA FreeKeeps ==
    ASSUME SQInv, TLInv, SQInv', Places', mode = "free",
           TLConnect \/ TLConfigure \/ TLAsk \/ TLCaller
    PROVE  TimelyInv'
<1>1. TLConnect \/ TLConfigure \/ TLAsk \/ Command
  BY DEF TLCaller, ReadAnswer, Finish, PortStep, Step, WriteOut, Sample, Wake, Clock, Take,
         SQInv, Nesting
<1>2. /\ mode' \in {"free", "command", "asking"}
      /\ mode' # "free" => pc' = "write"
  BY <1>1 DEF TLConnect, TLConfigure, TLAsk, Command, Configure, Ask, CallWrite
<1>3. OpenLine'
  <2>1. speed' # 0
    BY <1>1 DEF TLConnect, TLConfigure, TLAsk, Command, Configure, Ask, CallWrite, Connect,
                TLInv, OpenLine
  <2>2. mode' = "asking" => m_fd' = "open"
    BY <1>1 DEF TLConnect, TLConfigure, TLAsk, Command, Configure, Ask, CallWrite
  <2> QED
    BY <1>2, <2>1, <2>2 DEF OpenLine
<1>4. ~Written'
  BY <1>2 DEF Written
<1> QED
  BY <1>3, <1>4, NothingWritten, PTL

\* The call of the device class is over: so is the query.
LEMMA FinishKeeps ==
    ASSUME SQInv, TLInv, SQInv', Places', Finish
    PROVE  TimelyInv'
<1>1. ~Written' /\ OpenLine'
  BY DEF Finish, Written, TLInv, OpenLine, vars
<1> QED
  BY <1>1, NothingWritten, PTL

\* The read of a query begins.
LEMMA ReadAnswerKeeps ==
    ASSUME TLInv, ReadAnswer, UNCHANGED <<quiet, answered>>
    PROVE  TimelyInv'
<1>1. /\ mode = "asking" /\ pc = "idle" /\ mode' = "reading" /\ pc' = "sample"
      /\ UNCHANGED <<m_fd, speed, sinceWrite, out, todo, rx, written, answered>>
  BY DEF ReadAnswer, CallRead, ages, line
<1>2. Written /\ Written' /\ (Come' <=> Come) /\ (Undecided' <=> Undecided)
  BY <1>1 DEF Written, Come, Answered, Undecided
<1>3. Fate' /\ InTime' /\ OpenLine'
  BY <1>1, <1>2 DEF TLInv, Fate, InTime, OpenLine, OwesFirst
<1> QED
  BY <1>1, <1>3 DEF TimelyInv, LooksInTime, PauseShorter, WholeTaken, OwnAnswer

\* The question is written to an open line, where it awaits its fate.
LEMMA WriteKeeps ==
    ASSUME SQInv, TLInv, SQInv', Places', PortStep, WriteOut
    PROVE  TimelyInv'
<1>1. /\ mode \in {"command", "asking"} /\ mode' = mode /\ pc = "write" /\ pc' = "idle"
      /\ (mode = "asking" => asks = TRUE)
      /\ UNCHANGED <<m_fd, speed, todo, rx>>
  BY DEF PortStep, WriteOut, SQInv, Nesting, SQTypeOK, TypeOK
<1>2. OpenLine'
  BY <1>1 DEF TLInv, OpenLine
<1>3. CASE mode = "command"
  <2>1. ~Written'
    BY <1>1, <1>3 DEF Written
  <2> QED
    BY <1>2, <2>1, NothingWritten, PTL
<1>4. CASE mode = "asking"
  <2> DEFINE q == [id |-> written + 1, asks |-> asks]
  <2>1. out' = Append(out, q) /\ q.asks
    BY <1>1, <1>4 DEF WriteOut, TLInv, OpenLine
  <2>2. out \in Seq(Request) /\ Len(out) \in Nat /\ q \in Request
    BY QueueTypes, BoundAssumption DEF Request, SQInv, SQTypeOK, TypeOK, WriteOut
  <2> HIDE DEF q
  <2>3. Len(out') = Len(out) + 1 /\ out'[Len(out) + 1] = q
    BY <2>1, <2>2, AppendProperties
  <2>4. Len(out') \in 1..Len(out') /\ out'[Len(out')].asks
    BY <2>1, <2>2, <2>3
  <2>5. Undecided'
    BY <2>4 DEF Undecided
  <2>6. sinceWrite' = 0 /\ 0 <= FirstByte
    BY PromisesAssumption DEF WriteOut
  <2>7. Fate' /\ InTime'
    BY <2>5, <2>6 DEF Fate, InTime
  <2> QED
    BY <1>1, <1>2, <1>4, <2>7 DEF TimelyInv, LooksInTime, PauseShorter, WholeTaken, OwnAnswer
<1> QED
  BY <1>1, <1>3, <1>4

\* read_data counts the waiting bytes and goes to sleep.
LEMMA SampleKeeps ==
    ASSUME SQInv, TLInv, SQInv', PortStep, Sample, UNCHANGED <<quiet, answered>>
    PROVE  TimelyInv'
<1>1. /\ mode = "reading" /\ mode' = "reading" /\ pc = "sample" /\ m_fd = "open"
      /\ UNCHANGED <<m_fd, speed, sinceWrite, out, todo, rx, str>>
  BY DEF PortStep, Sample, ages, line, SQInv, SQTypeOK, Nesting, TLInv, OpenLine
<1>2. pc' = "nap" /\ waiting1' = Len(rx) /\ nap' = PollTicks(speed)
  BY <1>1 DEF Sample, TLInv, OpenLine
<1>3. Written /\ Written' /\ (Come' <=> Come) /\ (Undecided' <=> Undecided)
  BY <1>1, <1>2 DEF Written, Come, Answered, Undecided
<1>4. Fate' /\ InTime' /\ OpenLine'
  BY <1>1, <1>3 DEF TLInv, Fate, InTime, OpenLine, OwesFirst
<1>5. nap' \in Nat /\ quiet' \in Nat /\ Len(rx) \in Nat
  BY QueueTypes, PromisesAssumption DEF SQInv, SQTypeOK, TypeOK, TLInv, TLTypeOK
<1>6. PauseShorter'
  <2>1. PollTicks(speed)' = nap'
    BY <1>1, <1>2
  <2> QED
    BY <1>1, <1>2, <1>5, <2>1 DEF PauseShorter
<1> QED
  BY <1>1, <1>2, <1>4, <1>6 DEF TimelyInv, LooksInTime, WholeTaken, OwnAnswer

\* The sleep is over.  Two equal counts of an answer that is not whole would be
\* a pause as long as the sleep; nothing at the second count is a question that
\* is not decided, no answer at all, or one that began in time.
LEMMA WakeKeeps ==
    ASSUME SQInv, TLInv, Places, PortStep, Wake, UNCHANGED <<quiet, answered>>
    PROVE  TimelyInv'
<1>1. /\ mode = "reading" /\ mode' = "reading" /\ pc = "nap" /\ nap = 0 /\ m_fd = "open"
      /\ UNCHANGED <<m_fd, speed, sinceWrite, out, todo, rx, str>>
      /\ str = <<>>
  BY DEF PortStep, Wake, ages, line, reader, SQInv, SQTypeOK, Nesting, TLInv, OpenLine
<1>2. pc' = IF Len(rx) = 0 THEN "clock" ELSE IF waiting1 = Len(rx) THEN "take" ELSE "sample"
  BY <1>1 DEF Wake
<1>3. Written /\ Written' /\ (Come' <=> Come) /\ (Undecided' <=> Undecided)
  BY <1>1, <1>2 DEF Written, Come, Answered, Undecided
<1>4. Fate' /\ InTime' /\ OpenLine'
  BY <1>1, <1>3 DEF TLInv, Fate, InTime, OpenLine, OwesFirst
<1>5. LooksInTime'
  <2> SUFFICES ASSUME pc' = "clock", Undecided \/ Come
               PROVE  sinceWrite <= FirstByte
    BY <1>1, <1>3 DEF LooksInTime
  <2>1. rx = <<>> /\ ~Answered
    BY <1>1, <1>2, QueueTypes DEF Answered
  <2>2. Undecided \/ OwesFirst
    BY <1>1, <2>1 DEF Come, Places
  <2> QED
    BY <2>2 DEF TLInv, InTime
<1>6. WholeTaken'
  <2> SUFFICES ASSUME pc' = "take"
               PROVE  todo = <<>> /\ rx # <<>>
    BY <1>1, <1>2 DEF WholeTaken
  <2>1. rx # <<>> /\ waiting1 = Len(rx)
    BY <1>2, QueueTypes
  <2>2. ASSUME todo # <<>> PROVE FALSE
    <3>1. PollTicks(speed) <= nap + quiet
      BY <1>1, <2>1, <2>2 DEF TLInv, PauseShorter
    <3>2. speed \in Nat \ {0} /\ speed \in Speeds \ {0}
      BY SpeedsAssumption DEF SQInv, SQTypeOK, TypeOK, TLInv, OpenLine
    <3>3. Gap < PollTicks(speed) /\ PollTicks(speed) \in Nat /\ Gap \in Nat
      BY <3>2, PromisesAssumption, PollTicksNat
    <3>4. quiet \in 0..Gap
      BY DEF TLInv, TLTypeOK
    <3> QED
      BY <1>1, <3>1, <3>3, <3>4
  <2> QED
    BY <2>1, <2>2
<1> QED
  BY <1>1, <1>2, <1>4, <1>5, <1>6 DEF TimelyInv, PauseShorter, OwnAnswer

\* read_data gives up only when no answer will come.
LEMMA ClockKeeps ==
    ASSUME SQInv, TLInv, PortStep, Clock, UNCHANGED <<quiet, answered>>
    PROVE  TimelyInv'
<1>1. /\ mode = "reading" /\ mode' = "reading" /\ pc = "clock"
      /\ UNCHANGED <<m_fd, speed, sinceWrite, out, todo, rx, str, written>>
      /\ str = <<>> /\ ~Answered
  BY DEF PortStep, Clock, ages, line, SQInv, SQTypeOK, Nesting, Answered
<1>2. pc' = "sample" \/ (~StillWaiting /\ pc' = "idle" /\ outcome' = "timeout")
  BY DEF Clock
<1>3. Written /\ Written' /\ (Come' <=> Come) /\ (Undecided' <=> Undecided)
  BY <1>1, <1>2 DEF Written, Come, Answered, Undecided
<1>4. Fate' /\ InTime' /\ OpenLine'
  BY <1>1, <1>3 DEF TLInv, Fate, InTime, OpenLine, OwesFirst
<1>5. WholeTaken' /\ OwnAnswer'
  <2> SUFFICES ASSUME ~StillWaiting, pc' = "idle", outcome' = "timeout"
               PROVE  WholeTaken' /\ OwnAnswer'
    BY <1>2 DEF WholeTaken, OwnAnswer
  <2>1. ~(sinceWrite <= FirstByte)
    BY PromisesAssumption, TimesAssumption DEF StillWaiting, SQInv, SQTypeOK, TypeOK, Horizon
  <2>2. ~Undecided /\ ~Come
    BY <1>1, <2>1 DEF TLInv, LooksInTime
  <2>3. ~answered /\ rx = <<>> /\ todo = <<>>
    BY <1>3, <2>2 DEF TLInv, Fate, Come
  <2> QED
    BY <1>1, <1>3, <2>2, <2>3 DEF WholeTaken, OwnAnswer
<1> QED
  BY <1>1, <1>2, <1>4, <1>5 DEF TimelyInv, PauseShorter, LooksInTime

\* The first bytes of an answer, as many as it has, are the answer.
LEMMA WholeAnswer ==
    ASSUME NEW s \in Seq(Byte), Len(s) = ReplyLen, NEW n \in 1..MaxRequests,
           \A i \in 1..Len(s) : s[i] = <<n, i>>
    PROVE  s = Reply(n)
  BY ReplySeq, SeqEqual

\* What read_data takes is the whole answer.
LEMMA TakeKeeps ==
    ASSUME SQInv, TLInv, Places, SQInv', PortStep, Take, UNCHANGED <<quiet, answered>>
    PROVE  TimelyInv'
<1>1. /\ mode = "reading" /\ mode' = "reading" /\ pc = "take" /\ pc' = "idle" /\ m_fd = "open"
      /\ todo = <<>> /\ rx # <<>>
      /\ UNCHANGED <<m_fd, speed, sinceWrite, out, todo, written>>
  BY DEF PortStep, Take, ages, SQInv, SQTypeOK, Nesting, TLInv, OpenLine, WholeTaken
<1>2. InFlight(0) /\ Len(rx) = ReplyLen
  BY <1>1 DEF Places
<1>3. OwnPrefix' /\ outcome' = "data"
  BY <1>1, <1>2, InFlightTake DEF SQInv, SQTypeOK, Take
<1>4. Len(str') = ReplyLen /\ rx' = <<>>
  <2>1. ReplyLen <= length /\ length \in Nat /\ Len(rx) \in Nat
    BY PromisesAssumption, LengthsAssumption, QueueTypes DEF SQInv, SQTypeOK, TypeOK
  <2>2. Shorter(length, Len(rx)) = Len(rx)
    BY <1>2, <2>1 DEF Shorter
  <2>3. str' = SubSeq(rx, 1, Len(rx)) /\ rx' = SubSeq(rx, Len(rx) + 1, Len(rx))
    BY <1>1, <2>2 DEF Take
  <2>4. Len(str') = Len(rx) /\ Len(rx') = 0
    BY <2>1, <2>3, SplitSeq, QueueTypes
  <2> QED
    BY <1>2, <2>4, EmptySeq DEF SQInv, SQTypeOK, TypeOK
<1>5. str' = Reply(written)
  <2>1. rx[1] \in Byte /\ rx[1] = <<written, 1>>
    BY <1>1, <1>2, QueueTypes, ElementOfSeq DEF InFlight
  <2>2. written \in 1..MaxRequests
    BY <2>1 DEF Byte
  <2>3. str' \in Seq(Byte) /\ \A i \in 1..Len(str') : str'[i] = <<written, i>>
    BY <1>1, <1>3 DEF OwnPrefix, SQInv, SQTypeOK, TypeOK
  <2> QED
    BY <1>4, <2>2, <2>3, WholeAnswer
<1>6. answered /\ out = <<>>
  <2>1. Written /\ Come /\ ~Undecided
    BY <1>1 DEF Written, Come, Places
  <2> QED
    BY <2>1 DEF TLInv, Fate
<1>7. Come' /\ ~Undecided'
  <2>1. Len(out') = 0
    BY <1>1, <1>6, EmptySeq
  <2> QED
    BY <1>1, <1>3, <2>1 DEF Come, Answered, Undecided
<1> QED
  BY <1>1, <1>3, <1>4, <1>5, <1>6, <1>7
  DEF TimelyInv, TLInv, OpenLine, Fate, InTime, OwesFirst, LooksInTime, PauseShorter,
      WholeTaken, OwnAnswer

\* The instrument decides on the question, if the request it takes is one.
LEMMA ReceiveKeeps ==
    ASSUME SQInv, TLInv, Places, SQInv', Places', TLReceive
    PROVE  TimelyInv'
<1>1. /\ out # <<>> /\ out' = Tail(out)
      /\ answered' = (todo' # todo)
      /\ UNCHANGED <<m_fd, speed, sinceWrite, rx, pc, waiting1, str, outcome, nap, written,
                     mode, quiet>>
  BY DEF TLReceive, DeviceReceive, ages, reader
<1>2. /\ todo' = todo \/ (Head(out).asks /\ todo' = todo \o Reply(Head(out).id))
  BY DEF TLReceive, DeviceReceive
<1>3. /\ Len(out) \in Nat \ {0} /\ Head(out) = out[1] /\ 1 \in 1..Len(out)
      /\ Len(out') = Len(out) - 1 /\ \A i \in 1..Len(out') : out'[i] = out[i + 1]
  BY <1>1, QueueTypes, HeadTailProperties
<1>4. Undecided' => Undecided
  <2> SUFFICES ASSUME NEW i \in 1..Len(out'), out'[i].asks PROVE Undecided
    BY DEF Undecided
  <2>1. i + 1 \in 1..Len(out) /\ out[i + 1].asks
    BY <1>3
  <2> QED
    BY <2>1 DEF Undecided
<1>5. Head(out).asks => Undecided
  BY <1>3 DEF Undecided
<1>6. OpenLine'
  BY <1>1 DEF TLInv, OpenLine
<1>7. (Written' <=> Written) /\ (Answered' <=> Answered)
  BY <1>1 DEF Written, Answered
<1>8. CASE ~Written
  BY <1>6, <1>7, <1>8, NothingWritten, PTL
<1>9. CASE Written /\ ~Undecided
  <2>1. todo' = todo /\ answered' = FALSE /\ ~Undecided'
    BY <1>1, <1>2, <1>4, <1>5, <1>9
  <2>2. answered = FALSE /\ ~Come /\ ~Come'
    BY <1>1, <1>7, <1>9, <2>1 DEF TLInv, TLTypeOK, Fate, Come
  <2> QED
    BY <1>1, <1>6, <2>1, <2>2
    DEF TimelyInv, TLInv, Fate, InTime, OwesFirst, LooksInTime, PauseShorter, WholeTaken,
        OwnAnswer
<1>10. CASE Written /\ Undecided
  <2>1. rx = <<>> /\ todo = <<>> /\ ~Answered
    BY <1>10 DEF Places
  <2>2. pc # "take" /\ ~(mode = "reading" /\ pc = "idle")
    BY <1>10, <2>1 DEF TLInv, WholeTaken
  <2>3. sinceWrite <= FirstByte
    BY <1>10 DEF TLInv, InTime
  <2>4. Fate'
    <3>1. CASE todo' = todo
      <4>1. answered' = FALSE /\ ~Come'
        BY <1>1, <1>7, <2>1, <3>1 DEF Come
      <4> QED
        BY <4>1 DEF Fate
    <3>2. CASE todo' # todo
      <4>1. answered' = TRUE /\ Come' /\ Head(out).asks
        BY <1>1, <1>2, <2>1, <3>2 DEF Come
      <4>2. Unanswered
        BY <1>10, <2>1 DEF Places, Come
      <4>3. Len(out) = 1
        BY <1>3, <4>1, <4>2 DEF Unanswered
      <4>4. out' = <<>>
        BY <1>3, <4>3, EmptySeq DEF SQInv, SQTypeOK, TypeOK
      <4> QED
        BY <4>1, <4>4 DEF Fate
    <3> QED
      BY <3>1, <3>2
  <2>5. Len(rx) = 0 /\ PauseShorter'
    BY <1>1, <2>1, QueueTypes DEF TLInv, PauseShorter
  <2> QED
    BY <1>1, <1>6, <2>2, <2>3, <2>4, <2>5
    DEF TimelyInv, InTime, LooksInTime, WholeTaken, OwnAnswer
<1> QED
  BY <1>8, <1>9, <1>10

\* A byte arrives: there is no other pause but the one that begins now.
LEMMA SendKeeps ==
    ASSUME SQInv, TLInv, Places, Places', TLSend
    PROVE  TimelyInv'
<1>1. /\ todo # <<>>
      /\ UNCHANGED <<m_fd, speed, sinceWrite, out, pc, waiting1, str, outcome, nap, written,
                     mode, answered>>
  BY DEF TLSend, DeviceSend, ages, reader
<1>2. Written /\ ~Undecided /\ ~Undecided'
  BY <1>1 DEF Places, SilentLine, Undecided
<1>3. m_fd = "open"
  BY <1>2 DEF Written, TLInv, OpenLine
<1>4. rx' = Append(rx, Head(todo))
  BY <1>3 DEF TLSend, DeviceSend
<1>5. Len(rx') = Len(rx) + 1 /\ rx' # <<>>
  <2>1. rx \in Seq(Byte) /\ Head(todo) \in Byte
    BY <1>1, QueueTypes, HeadTailProperties
  <2>2. Len(rx') = Len(rx) + 1
    BY <1>4, <2>1, AppendProperties
  <2> QED
    BY <2>2, QueueTypes, EmptySeq
<1>6. Come /\ Come' /\ Written'
  BY <1>1, <1>2, <1>5 DEF Come, Written
<1>7. Fate'
  BY <1>1, <1>2, <1>6 DEF TLInv, Fate
<1>8. ~OwesFirst'
  BY <1>5 DEF Places, OwesFirst
<1>9. pc # "take" /\ ~(mode = "reading" /\ pc = "idle")
  BY <1>1 DEF TLInv, WholeTaken
<1>10. LooksInTime' /\ OpenLine'
  BY <1>1, <1>6 DEF TLInv, LooksInTime, OpenLine
<1>11. PauseShorter'
  BY <1>1, <1>5, QueueTypes DEF TLInv, PauseShorter, SQInv, SQTypeOK, TypeOK
<1> QED
  BY <1>1, <1>2, <1>7, <1>8, <1>9, <1>10, <1>11
  DEF TimelyInv, InTime, WholeTaken, OwnAnswer

\* Time only goes on while the instrument may still wait.
LEMMA TickKeeps ==
    ASSUME SQInv, TLInv, Places, TLTick
    PROVE  TimelyInv'
<1>1. /\ ~DeviceMust /\ pc # "clock"
      /\ sinceWrite' = Older(sinceWrite)
      /\ nap' = IF nap > 0 THEN nap - 1 ELSE 0
      /\ quiet' = IF quiet < Gap THEN quiet + 1 ELSE quiet
      /\ UNCHANGED <<m_fd, speed, out, todo, rx, pc, waiting1, str, outcome, written,
                     mode, answered>>
  BY DEF TLTick, TimePasses, Tick, line, reader
<1>2. OpenLine' /\ Fate' /\ WholeTaken' /\ OwnAnswer'
  BY <1>1 DEF TLInv, OpenLine, Fate, WholeTaken, OwnAnswer, Written, Come, Answered, Undecided
<1>3. sinceWrite \in Nat /\ FirstByte \in Nat /\ quiet \in 0..Gap /\ Gap \in Nat /\ nap \in Nat
  BY PromisesAssumption, TimesAssumption
  DEF SQInv, SQTypeOK, TypeOK, Horizon, TLInv, TLTypeOK
<1>4. InTime'
  <2> SUFFICES ASSUME Undecided \/ OwesFirst PROVE sinceWrite' <= FirstByte
    BY <1>1 DEF InTime, Undecided, OwesFirst
  <2>1. ~(sinceWrite >= FirstByte)
    BY <1>1 DEF DeviceMust
  <2> QED
    BY <1>1, <1>3, <2>1 DEF Older
<1>5. PauseShorter'
  <2> SUFFICES ASSUME pc = "nap", waiting1 = Len(rx), rx # <<>>, todo # <<>>
               PROVE  PollTicks(speed) <= nap' + quiet'
    BY <1>1 DEF TLInv, PauseShorter
  <2>1. PollTicks(speed) <= nap + quiet
    BY DEF TLInv, PauseShorter
  <2>2. OwesNext /\ quiet < Gap
    BY <1>1, <1>3 DEF Places, DeviceMust
  <2>3. PollTicks(speed) \in Nat
    BY SpeedsAssumption, PollTicksNat DEF SQInv, SQTypeOK, TypeOK, TLInv, OpenLine
  <2> QED
    BY <1>1, <1>3, <2>1, <2>2, <2>3
<1> QED
  BY <1>1, <1>2, <1>4, <1>5 DEF TimelyInv, LooksInTime

\* The invariant speaks of these variables only.
LEMMA StutterKeeps ==
    ASSUME TLInv, UNCHANGED tlVars
    PROVE  TimelyInv'
  BY DEF TLInv, tlVars, sqVars, vars, ages, line, reader, TimelyInv, OpenLine, Fate, InTime,
     LooksInTime, PauseShorter, WholeTaken, OwnAnswer, Written, Come, Answered, Undecided,
     OwesFirst

\* Every step keeps all of it.
LEMMA TimelyStep == SQInv /\ TLInv /\ SQInv' /\ [TLNext]_tlVars => TLInv'
<1> SUFFICES ASSUME SQInv, TLInv, SQInv', [TLNext]_tlVars PROVE TLInv'
  OBVIOUS
<1>1. InStep'
  BY TLInStep
<1>2. Places
  BY PlacesHold DEF TLInv
<1>3. Places'
  BY <1>1, PlacesHold, PTL
<1>4. TLTypeOK'
  <2>1. SQTypeOK'
    BY DEF SQInv
  <2>2. answered' \in BOOLEAN
    BY DEF TLNext, TLConnect, TLConfigure, TLAsk, TLCaller, TLReceive, TLSend, TLTick, tlVars,
           TLInv, TLTypeOK
  <2>3. quiet' \in 0..Gap
    <3>1. quiet \in 0..Gap /\ Gap \in Nat
      BY PromisesAssumption DEF TLInv, TLTypeOK
    <3>2. quiet' \in {0, quiet} \/ (quiet < Gap /\ quiet' = quiet + 1)
      BY DEF TLNext, TLConnect, TLConfigure, TLAsk, TLCaller, TLReceive, TLSend, TLTick, tlVars
    <3> QED
      BY <3>1, <3>2
  <2> QED
    BY <2>1, <2>2, <2>3 DEF TLTypeOK
<1>5. TimelyInv'
  <2>1. CASE (TLConnect \/ TLConfigure \/ TLAsk \/ TLCaller) /\ mode = "free"
    BY <1>3, <2>1, FreeKeeps
  <2>2. CASE TLCaller /\ mode # "free"
    <3>1. CASE ReadAnswer
      BY <2>2, <3>1, ReadAnswerKeeps DEF TLCaller
    <3>2. CASE Finish
      BY <1>3, <3>2, FinishKeeps
    <3>3. CASE PortStep
      <4> UNCHANGED <<quiet, answered>>
        BY <2>2 DEF TLCaller
      <4> QED
        BY <1>2, <1>3, <3>3, WriteKeeps, SampleKeeps, WakeKeeps, ClockKeeps, TakeKeeps
        DEF PortStep, Step
    <3> QED
      BY <2>2, <3>1, <3>2, <3>3 DEF TLCaller, Command
  <2>3. CASE TLReceive
    BY <1>2, <1>3, <2>3, ReceiveKeeps
  <2>4. CASE TLSend
    BY <1>2, <1>3, <2>4, SendKeeps
  <2>5. CASE TLTick
    BY <1>2, <2>5, TickKeeps
  <2>6. CASE UNCHANGED tlVars
    BY <2>6, StutterKeeps
  <2> QED
    BY <2>1, <2>2, <2>3, <2>4, <2>5, <2>6
    DEF TLNext, TLConnect, TLConfigure, TLAsk, Configure, Ask
<1> QED
  BY <1>1, <1>4, <1>5 DEF TLInv, TimelyInv

\* An object that has just opened its line has asked nothing.
LEMMA TLInitInv == TLInit => TLInv
<1> SUFFICES ASSUME TLInit PROVE TLInv
  OBVIOUS
<1>1. SQInv
  BY SQInitInv DEF TLInit
<1>2. InStep
  BY <1>1 DEF SQInv, TLInit, SQInit
<1>3. Places
  BY <1>1, <1>2, PlacesHold
<1>4. OpenLine /\ ~Written
  BY DEF TLInit, SQInit, OpenLine, Written
<1>5. TimelyInv
  BY <1>1, <1>3, <1>4, NothingWritten
<1>6. TLTypeOK
  <2>1. quiet \in 0..Gap
    BY PromisesAssumption DEF TLInit
  <2> QED
    BY <1>1, <2>1 DEF TLInit, TLTypeOK, SQInv
<1> QED
  BY <1>2, <1>5, <1>6 DEF TLInv, TimelyInv

-----------------------------------------------------------------------------
\* TLInv, where the answer is and how long it may still take, is an invariant.
THEOREM TimelyInvariantHolds == TLSpec => [](SQInv /\ TLInv)
<1>1. SQInit => SQInv
  BY SQInitInv
<1>2. SQInv /\ [SQNext]_sqVars => SQInv'
  BY SQTypeStep, NestingStep, InStepStep DEF SQInv
<1>3. TLInit => SQInv /\ TLInv
  BY <1>1, TLInitInv DEF TLInit
<1>4. (SQInv /\ TLInv) /\ [TLNext]_tlVars => (SQInv /\ TLInv)'
  BY <1>2, TLStep, TimelyStep
<1> QED
  BY <1>3, <1>4, PTL DEF TLSpec

\* The variables of the timely line have their types.
THEOREM TimelyTypeCorrect == TLSpec => []TLTypeOK
<1>1. TLInv => TLTypeOK
  BY DEF TLInv
<1> QED
  BY <1>1, TimelyInvariantHolds, PTL

\* On a line that keeps its promises a query that is over returned its own
\* whole answer if the instrument answered it, and a timeout otherwise, for any
\* timeout, any speeds, any length of answers and any two promises shorter than
\* the timeout and the sleep between the two counts (WKserial.cc:277-306).
THEOREM QueriesGetOwnAnswer == TLSpec => []OwnAnswer
<1>1. TLInv => OwnAnswer
  BY DEF TLInv
<1> QED
  BY <1>1, TimelyInvariantHolds, PTL

-----------------------------------------------------------------------------
(* A line that keeps its promises is a QueryService.                       *)

\* The query in progress has a number from the moment it is written.
Numbered == Written => written # 0

LEMMA NumberedStep == SQInv /\ Numbered /\ [SQNext]_sqVars => Numbered'
<1> SUFFICES ASSUME SQInv, Numbered, [SQNext]_sqVars, Written'
             PROVE  written' # 0
  BY DEF Numbered
<1>1. CASE PortStep /\ WriteOut
  BY <1>1, BoundAssumption DEF WriteOut, SQInv, SQTypeOK, TypeOK
<1>2. CASE ~(PortStep /\ WriteOut)
  <2>1. written' = written
    BY <1>2 DEF SQNext, sqVars, vars, Configure, Configuring, Connect, Disconnect, SetSpeed,
       Reconfigure, SetParity, Command, Ask, CallWrite, ReadAnswer, CallRead, Finish, PortStep,
       Step, Sample, Wake, Clock, Take, DeviceStep, Device, DeviceReceive, DeviceSend,
       TimePasses, Tick
  <2>2. Written
    BY <1>2 DEF SQNext, sqVars, vars, Configure, Configuring, Connect, Disconnect, SetSpeed,
       Reconfigure, SetParity, Command, Ask, CallWrite, ReadAnswer, CallRead, Finish, PortStep,
       Step, Sample, Wake, Clock, Take, DeviceStep, Device, DeviceReceive, DeviceSend,
       TimePasses, Tick, Written, SQInv, Nesting
  <2> QED
    BY <2>1, <2>2 DEF Numbered
<1> QED
  BY <1>1, <1>2

\* A query begins with the call that writes it, ends when read_data does, and
\* every other step is none of the caller's.
LEMMA ServiceStep ==
    SQInv /\ Numbered /\ SQInv' /\ TLInv' /\ [TLNext]_tlVars
        => [Service!Next]_<<Asked, Result>>
<1> SUFFICES ASSUME SQInv, Numbered, SQInv', TLInv', [TLNext]_tlVars
             PROVE  [Service!Next]_<<Asked, Result>>
  OBVIOUS
<1> USE DEF Asked, AskedId, Asking, Result
<1>1. CASE TLAsk
  <2>1. Asked = 0 /\ Asked' = written + 1 /\ Result' = <<>>
    BY <1>1 DEF TLAsk, Ask, CallWrite
  <2>2. written + 1 \in 1..MaxRequests
    BY <1>1, BoundAssumption DEF TLAsk, Ask, CallWrite, SQInv, SQTypeOK, TypeOK
  <2> QED
    BY <2>1, <2>2 DEF Service!Next, Service!Ask
<1>2. CASE TLConnect \/ TLConfigure \/ Command \/ Finish
  <2>1. ~Asking /\ ~Asking' /\ str' = str
    BY <1>2 DEF TLConnect, Connect, TLConfigure, Configure, Configuring, Disconnect, SetSpeed,
       Reconfigure, SetParity, Command, CallWrite, Finish, vars, reader
  <2> QED
    BY <2>1
<1>3. CASE ReadAnswer
  <2>1. Asking /\ Asking' /\ AskedId' = AskedId
    BY <1>3 DEF ReadAnswer, CallRead
  <2> QED
    BY <2>1
<1>4. CASE PortStep
  <2>1. CASE WriteOut
    BY <1>4, <2>1 DEF PortStep, WriteOut, reader, SQInv, Nesting, SQTypeOK
  <2>2. CASE (Sample \/ Wake \/ Clock \/ Take) /\ pc' # "idle"
    <3>1. /\ mode = "reading" /\ mode' = "reading" /\ pc # "idle" /\ written' = written
      BY <1>4, <2>2 DEF PortStep, Sample, Wake, Clock, Take, SQInv, SQTypeOK, Nesting
    <3> QED
      BY <2>2, <3>1
  <2>3. CASE (Sample \/ Wake \/ Clock \/ Take) /\ pc' = "idle"
    <3>1. /\ mode = "reading" /\ mode' = "reading" /\ pc # "idle" /\ written' = written
      BY <1>4, <2>3 DEF PortStep, Sample, Wake, Clock, Take, SQInv, SQTypeOK, Nesting
    <3>2. str' = Reply(written) \/ str' = <<>>
      <4>1. str' = Reply(written)' \/ str' = <<>>
        BY <2>3, <3>1 DEF TLInv, OwnAnswer
      <4>2. Reply(written)' = Reply(written)
        BY <3>1 DEF Reply
      <4> QED
        BY <4>1, <4>2
    <3>3. Asked = written /\ written # 0 /\ Asked' = 0 /\ Result' \in {Reply(written), <<>>}
      BY <2>3, <3>1, <3>2 DEF Numbered, Written
    <3> QED
      BY <3>3 DEF Service!Next, Service!Return
  <2> QED
    BY <1>4, <2>1, <2>2, <2>3 DEF PortStep, Step
<1>5. CASE TLReceive \/ TLSend \/ TLTick \/ UNCHANGED tlVars
  <2>1. UNCHANGED <<mode, pc, written, str>>
    BY <1>5 DEF TLReceive, DeviceReceive, TLSend, DeviceSend, TLTick, TimePasses, Tick, reader,
       tlVars, sqVars, vars
  <2> QED
    BY <2>1
<1> QED
  BY <1>1, <1>2, <1>3, <1>4, <1>5 DEF TLNext, TLCaller

\* What the device classes count on when they query a line that keeps its
\* promises: no query ends but with its own whole answer or with nothing, and
\* no result appears otherwise (WKserial.cc:260-306).
THEOREM QueriesServed == TLSpec => Service!Safety
<1>1. TLInit => Service!Init
  BY DEF TLInit, SQInit, Init, Service!Init, Asked, Asking, Result
<1>2. TLInit => Numbered
  BY DEF TLInit, SQInit, Numbered, Written
<1>3. Numbered /\ SQInv /\ [TLNext]_tlVars => Numbered'
  BY TLStep, NumberedStep
<1> QED
  BY <1>1, <1>2, <1>3, ServiceStep, TimelyInvariantHolds, PTL DEF TLSpec, Service!Safety
===============================================================================
