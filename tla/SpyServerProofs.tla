--------------------------- MODULE SpyServerProofs ---------------------------
(***************************************************************************)
(* Proofs about the sockets and the dispatch of SpyServer, for any number  *)
(* of clients and channels and any requests: the types, and that the       *)
(* server implements RequestService.                                       *)
(***************************************************************************)
EXTENDS SpyServer, TLAPS

-----------------------------------------------------------------------------
(* The inductive invariant.                                                *)

\* What the one thread works on, and for whom: while it does, the client has
\* nothing else on its way in either direction.
ServingOne ==
    /\ server \in {"select", "exited"} => serving = None
    /\ server \in {"handle", "prompt"} => serving \in Connections
    /\ serving = None => request = None /\ reading = "none"
    /\ serving \in Connections => /\ request \in Requests
                                  /\ peer[serving] = "monitored"
                                  /\ up[serving] = None /\ down[serving] = None
                                  /\ end[serving] \in {"waiting", "gone"}
    /\ reading # "none" => server = "handle"

\* A client waits for the request that is on its way, and for the answer.
OneAtATime ==
    \A k \in Connections :
        /\ peer[k] = "none" => up[k] = None
        /\ up[k] # None => end[k] \in {"waiting", "gone"} /\ down[k] = None
        /\ down[k] # None => end[k] = "waiting"

\* What Select found ready still has something to be read.
StillReadable ==
    \A k \in ready :
        \/ peer[k] = "backlog"
        \/ peer[k] = "monitored" /\ (up[k] # None \/ end[k] = "gone")

\* The bad readings among those that were made for the request: one at least
\* when a current near the last one is read again.
Suspicion ==
    /\ reading \in {"none", "first"} => misreads = 0
    /\ reading = "second" => misreads \in 0..1
    /\ reading = "third" => misreads \in 0..2
    /\ reading # "none" => request[1] = "current"
    /\ reading \in {"second", "third"} /\ Near(prev_lv_current, Draw[request[2]]) =>
          misreads >= 1

ServerInv == TypeOK /\ ServingOne /\ OneAtATime /\ StillReadable /\ Suspicion

-----------------------------------------------------------------------------
(* Lemmas about the requests and the answers.                              *)

\* The arguments of a request (serial_spyserv_DEV.C:443-476).
LEMMA RequestShape ==
    ASSUME NEW r \in Requests
    PROVE  /\ r[1] \in {"help", "unknown", "chamber", "current", "limit", "set"}
           /\ r[1] \in {"current", "limit", "set"} => r[2] \in Channels
           /\ r[1] = "set" => r[3] \in LimitValues
           /\ r # None
  BY ServerAssumption
  DEF Requests, Help, Unknown, Chamber, Current, Limit, SetLimit

\* Every handler's answer is one of the answers.
LEMMA AnswerShape ==
    /\ Text \in Answers /\ Blank \in Answers /\ Number(0) \in Answers
    /\ \A v \in LimitValues : Number(v) \in Answers
    /\ \A v \in Currents : Number(v) \in Answers
    /\ None \notin Answers
  BY ServerAssumption DEF Answers

\* Currents are numbers of 10 microamperes.
LEMMA CurrentsAreInt ==
    /\ \A v \in Currents : v \in Int
    /\ \A v \in Unset : v \in Int
    /\ \A ch \in Channels : Draw[ch] \in Currents /\ Draw[ch] \in Int
  BY ServerAssumption DEF Currents

\* An exchange that fails is counted, up to the bound.
LEMMA FaultTypes ==
    ASSUME TypeOK, Fault
    PROVE  faults' \in 0..MaxFaults /\ faults' = faults + 1 /\ faults' > 0
  BY ServerAssumption DEF TypeOK, Fault

\* The answer is written to the connection that is served, which is None's no more.
LEMMA ReplyTypes ==
    ASSUME TypeOK, NEW a \in Answers, serving \in Connections, Reply(a)
    PROVE  /\ end' \in [Connections -> {"none", "idle", "waiting", "gone", "lost"}]
           /\ peer' \in [Connections -> {"none", "backlog", "monitored"}]
           /\ up' \in [Connections -> Requests \cup {None}]
           /\ down' \in [Connections -> Answers \cup {None}]
           /\ ready' \subseteq Connections
           /\ server' = "select" /\ serving' = None /\ request' = None /\ reading' = "none"
  BY DEF TypeOK, Reply, Idle

-----------------------------------------------------------------------------
(* The invariant: initially, and after every step.                         *)


\* A server that was just started serves nobody.
LEMMA InitServerInv == Init => ServerInv
<1> SUFFICES ASSUME Init PROVE ServerInv
  OBVIOUS
<1>1. TypeOK
  BY ServerAssumption DEF Init, TypeOK
<1>2. serving \notin Connections /\ server = "select"
  BY ServerAssumption DEF Init
<1>3. ServingOne /\ OneAtATime /\ StillReadable /\ Suspicion
  BY <1>2 DEF Init, ServingOne, OneAtATime, StillReadable, Suspicion
<1> QED
  BY <1>1, <1>3 DEF ServerInv

\* A client's step keeps it: a client that waits sends nothing, and one that is
\* gone is forgotten before its socket is used again.
LEMMA ClientKeeps ==
    ASSUME ServerInv, NEW k \in Connections, Client(k)
    PROVE  ServerInv'
<1> USE ServerAssumption DEF ServerInv, TypeOK
<1>0. UNCHANGED <<ready, server, serving, request, reading, limit, readings>>
  BY DEF Client, Connect, Request, Receive, LoseServer, Quit, Renew, handler
<1>1. CASE Connect(k) \/ \E r \in Asked : Request(k, r)
  <2>1. PICK r \in Requests : Send(k, r)
    BY <1>1 DEF Connect, Request, Requests
  <2>2. /\ end[k] \in {"none", "idle"} /\ down' = down
        /\ peer' = [peer EXCEPT ![k] = peer'[k]] /\ peer'[k] \in {"backlog", "monitored"}
        /\ peer'[k] = "backlog" \/ peer' = peer
    BY <1>1 DEF Connect, Request
  <2>3. TypeOK'
    BY <1>0, <2>1, <2>2 DEF Send, readings
  <2>4. serving # k /\ down[k] = None /\ up[k] = None /\ r # None
    BY <2>2, RequestShape DEF ServingOne, OneAtATime
  <2>5. ServingOne' /\ OneAtATime' /\ StillReadable' /\ Suspicion'
    BY <1>0, <2>1, <2>2, <2>4 
    DEF Send, ServingOne, OneAtATime, StillReadable, Suspicion, readings
  <2> QED
    BY <2>3, <2>5
<1>2. CASE Receive(k)
  <2>1. /\ end' = [end EXCEPT ![k] = end'[k]] /\ end'[k] \in {"idle", "gone"}
        /\ down' = [down EXCEPT ![k] = None] /\ UNCHANGED <<peer, up>>
        /\ down[k] # None
    BY <1>2 DEF Receive
  <2>2. serving # k /\ up[k] = None
    BY <2>1 DEF ServingOne, OneAtATime
  <2>3. TypeOK'
    BY <1>0, <2>1 DEF readings
  <2>4. ServingOne' /\ OneAtATime' /\ StillReadable' /\ Suspicion'
    BY <1>0, <2>1, <2>2 DEF ServingOne, OneAtATime, StillReadable, Suspicion, readings
  <2> QED
    BY <2>3, <2>4
<1>3. CASE LoseServer(k) \/ Renew(k)
  <2>1. /\ end' = [end EXCEPT ![k] = end'[k]] /\ end'[k] \in {"none", "lost"}
        /\ UNCHANGED <<peer, up, down>>
        /\ peer[k] = "none" /\ (down[k] = None \/ end[k] # "waiting")
    BY <1>3 DEF LoseServer, Renew
  <2>2. TypeOK'
    BY <1>0, <2>1 DEF readings
  <2>3. ServingOne' /\ OneAtATime' /\ StillReadable' /\ Suspicion'
    BY <1>0, <2>1 DEF ServingOne, OneAtATime, StillReadable, Suspicion, readings
  <2> QED
    BY <2>2, <2>3
<1>4. CASE Quit(k)
  <2>1. TypeOK'
    BY <1>0, <1>4 DEF Quit, readings
  <2>2. ServingOne' /\ OneAtATime' /\ StillReadable' /\ Suspicion'
    BY <1>0, <1>4 DEF Quit, ServingOne, OneAtATime, StillReadable, Suspicion, readings
  <2> QED
    BY <2>1, <2>2
<1> QED
  BY <1>1, <1>2, <1>3, <1>4 DEF Client

\* A turn of the main loop keeps it: a request is taken only when nothing is
\* served.
LEMMA LoopKeeps == ServerInv /\ Loop => ServerInv'
<1> SUFFICES ASSUME ServerInv, Loop
             PROVE  ServerInv'
  OBVIOUS
<1> USE ServerAssumption DEF ServerInv, TypeOK
<1>0. server = "select" /\ serving = None /\ serving \notin Connections
      /\ reading = "none" /\ misreads = 0
  BY DEF Loop, Poll, Accept, Take, Drop, Select, ServingOne, Suspicion
<1>1. CASE Poll
  <2>1. TypeOK'
    BY <1>1 DEF Poll, Readable, ends, readings
  <2>2. ServingOne' /\ OneAtATime' /\ StillReadable' /\ Suspicion'
    BY <1>0, <1>1
    DEF Poll, Readable, ServingOne, OneAtATime, StillReadable, Suspicion, ends, readings
  <2> QED
    BY <2>1, <2>2
<1>2. ASSUME NEW k \in Connections, Accept(k) \/ Drop(k)
      PROVE  ServerInv'
  <2>1. /\ peer' = [peer EXCEPT ![k] = peer'[k]] /\ peer'[k] \in {"monitored", "none"}
        /\ peer'[k] = "none" => up[k] = None
        /\ ready' = ready \ {k}
        /\ UNCHANGED <<end, up, down, server, serving, request, reading, limit, readings>>
    BY <1>2 DEF Accept, Drop, Select
  <2>2. TypeOK'
    BY <2>1 DEF readings
  <2>3. ServingOne' /\ OneAtATime' /\ StillReadable' /\ Suspicion'
    BY <1>0, <2>1 DEF ServingOne, OneAtATime, StillReadable, Suspicion, readings
  <2> QED
    BY <2>2, <2>3
<1>3. ASSUME NEW k \in Connections, Take(k)
      PROVE  ServerInv'
  <2>1. up[k] \in Requests /\ peer[k] = "monitored" /\ k # None
    BY <1>3 DEF Take
  <2>2. TypeOK'
    BY <1>3, <2>1 DEF Take, Select
  <2>3. ServingOne' /\ OneAtATime' /\ StillReadable' /\ Suspicion'
    BY <1>0, <1>3, <2>1
    DEF Take, Select, ServingOne, OneAtATime, StillReadable, Suspicion
  <2> QED
    BY <2>2, <2>3
<1> QED
  BY <1>1, <1>2, <1>3 DEF Loop

\* An answer ends the request, and the client has nothing else on its way.
LEMMA ReplyKeeps ==
    ASSUME ServerInv, server = "handle", NEW a \in Answers, Reply(a),
           limit' \in [Channels -> LimitValues],
           lv_current' \in Currents \cup Unset, prev_lv_current' \in Currents \cup Unset,
           faults' \in 0..MaxFaults, misreads' = 0
    PROVE  ServerInv'
<1>1. serving \in Connections
  BY DEF ServerInv, ServingOne
<1>2. TypeOK'
  BY <1>1, ReplyTypes DEF ServerInv, TypeOK
<1>3. /\ UNCHANGED <<end, peer, up, ready>>
      /\ down' = IF end[serving] = "waiting" THEN [down EXCEPT ![serving] = a] ELSE down
      /\ server' = "select" /\ serving' = None /\ request' = None /\ reading' = "none"
  BY DEF Reply, Idle
<1>4. ServingOne' /\ StillReadable' /\ Suspicion'
  BY <1>3, ServerAssumption DEF ServerInv, ServingOne, StillReadable, Suspicion
<1>5. OneAtATime'
  BY <1>1, <1>3 DEF ServerInv, TypeOK, ServingOne, OneAtATime
<1> QED
  BY <1>2, <1>4, <1>5 DEF ServerInv

\* What a reading of a current leaves, good or bad (serial_spyserv_DEV.C:447,
\* 455-456).
LEMMA ObtainTypes ==
    ASSUME TypeOK, NEW v \in Currents, Obtain(v)
    PROVE  /\ limit' = limit /\ prev_lv_current' = prev_lv_current /\ lv_current' = v
           /\ faults' \in 0..MaxFaults
           /\ \/ v = Draw[request[2]] /\ Misreads = misreads
              \/ v \in BadReadings /\ Misreads = misreads + 1
<1>1. faults \in 0..MaxFaults /\ MaxFaults \in Nat /\ misreads \in 0..3
  BY ServerAssumption DEF TypeOK
<1> QED
  BY <1>1, FaultTypes DEF Obtain, Misreads

\* A request that is no current's has no reading of a current.
LEMMA NotReading ==
    ASSUME ServerInv, server = "handle", request[1] # "current"
    PROVE  misreads = 0 /\ reading = "none"
  BY DEF ServerInv, TypeOK, Suspicion

\* A request that reads again keeps the place it has.
LEMMA ReadAgainKeeps ==
    ASSUME ServerInv, NEW v \in Currents, Obtain(v), NEW next \in {"second", "third"},
           ReadAgain(next), reading \in {"first", "second"},
           Misreads \in IF next = "second" THEN 0..1 ELSE 0..2,
           Near(prev_lv_current, Draw[request[2]]) => Misreads >= 1
    PROVE  ServerInv'
<1>1. /\ UNCHANGED <<end, peer, up, down, ready, server, serving, request, limit>>
      /\ prev_lv_current' = prev_lv_current
      /\ reading' = next /\ misreads' = Misreads
  BY ObtainTypes DEF ReadAgain, ends, ServerInv
<1>2. TypeOK'
  BY <1>1, ObtainTypes DEF ServerInv, TypeOK
<1>3. ServingOne' /\ OneAtATime' /\ StillReadable'
  BY <1>1 DEF ServerInv, ServingOne, OneAtATime, StillReadable
<1>4. Suspicion'
  BY <1>1 DEF ServerInv, ServingOne, Suspicion
<1> QED
  BY <1>2, <1>3, <1>4 DEF ServerInv

\* A handler's step keeps it, also when the handler does not end as it should.
LEMMA HandlerKeeps == ServerInv /\ Handler => ServerInv'
<1> SUFFICES ASSUME ServerInv, Handler
             PROVE  ServerInv'
  OBVIOUS
<1>0. /\ server = "handle" /\ serving \in Connections /\ request \in Requests
      /\ TypeOK
  <2>1. server = "handle"
    BY DEF Handler, HandleHelp, HandleUnknown, HandleChamber, HandleSet, HandleGet, Throw,
           Handling, FirstReading, SecondReading, ThirdReading, ServerInv, ServingOne
  <2> QED
    BY <2>1 DEF ServerInv, ServingOne
<1>1. CASE HandleHelp \/ HandleUnknown \/ HandleChamber
  <2>1. PICK a \in Answers : Reply(a)
    BY <1>1, AnswerShape DEF HandleHelp, HandleUnknown, HandleChamber
  <2>2. request[1] # "current" /\ UNCHANGED <<limit, readings>>
    BY <1>1 DEF HandleHelp, HandleUnknown, HandleChamber, Handling
  <2> QED
    BY <1>0, <2>1, <2>2, ReplyKeeps, NotReading DEF TypeOK, readings
<1>2. CASE HandleSet
  <2>1. /\ Reply(Number(0)) /\ request[1] = "set"
        /\ UNCHANGED <<lv_current, prev_lv_current, misreads>>
    BY <1>2 DEF HandleSet, Handling
  <2>2. limit' \in [Channels -> LimitValues]
    BY <1>0, <1>2, <2>1, RequestShape DEF HandleSet, TypeOK
  <2>3. faults' \in 0..MaxFaults
    BY <1>0, <1>2, FaultTypes DEF HandleSet, TypeOK
  <2> QED
    BY <1>0, <2>1, <2>2, <2>3, AnswerShape, ReplyKeeps, NotReading DEF TypeOK
<1>3. CASE HandleGet
  <2>1. /\ request[1] = "limit"
        /\ UNCHANGED <<limit, lv_current, prev_lv_current, misreads>>
    BY <1>3 DEF HandleGet, Handling
  <2>2. limit[request[2]] \in LimitValues
    BY <1>0, <2>1, RequestShape DEF TypeOK
  <2>3. PICK v \in LimitValues \cup Currents : Reply(Number(v))
    BY <1>3, <2>2 DEF HandleGet
  <2>4. faults' \in 0..MaxFaults
    BY <1>0, <1>3, FaultTypes DEF HandleGet, TypeOK
  <2>5. Number(v) \in Answers
    BY AnswerShape
  <2> QED
    BY <1>0, <2>1, <2>3, <2>4, <2>5, ReplyKeeps, NotReading DEF TypeOK
<1>4. CASE Throw
  <2>1. /\ request[1] # "current"
        /\ UNCHANGED <<end, down, limit, lv_current, prev_lv_current, misreads>>
    BY <1>4 DEF Throw, Handling
  <2>2. reading = "none"
    BY <1>0, <2>1, NotReading
  <2>3. TypeOK'
    BY <1>0, <1>4, <2>1, FaultTypes DEF Throw, Idle, CloseAll, TypeOK
  <2>4. CASE server' = "prompt"
    <3>1. UNCHANGED <<ready, serving, request, reading, peer, up>>
      BY <1>4, <2>4 DEF Throw
    <3> QED
      BY <1>0, <2>1, <2>2, <2>3, <2>4, <3>1
      DEF ServerInv, ServingOne, OneAtATime, StillReadable, Suspicion
  <2>5. CASE server' = "exited"
    <3>1. Idle /\ CloseAll
      BY <1>4, <2>5 DEF Throw
    <3>2. None \notin Connections
      BY ServerAssumption
    <3>3. OneAtATime' /\ StillReadable'
      BY <2>1, <3>1 DEF CloseAll, ServerInv, OneAtATime, StillReadable
    <3> QED
      BY <1>0, <2>1, <2>2, <2>3, <2>5, <3>1, <3>2, <3>3
      DEF Idle, ServerInv, ServingOne, Suspicion
  <2> QED
    BY <1>4, <2>4, <2>5 DEF Throw
<1>5. CASE FirstReading
  <2>1. PICK v \in Currents :
           /\ Obtain(v)
           /\ IF Near(prev_lv_current, v) /\ v \notin Implausible
              THEN Answer(v) ELSE ReadAgain("second")
    BY <1>5 DEF FirstReading
  <2>2. CASE Answer(v)
    BY <1>0, <2>1, <2>2, ObtainTypes, AnswerShape, ReplyKeeps DEF Answer, TypeOK
  <2>3. CASE ~(Near(prev_lv_current, v) /\ v \notin Implausible)
    <3>1. misreads = 0 /\ reading = "first" /\ request[1] = "current"
      BY <1>5 DEF FirstReading, ServerInv, Suspicion
    <3>2. Draw[request[2]] \notin Implausible
      BY <1>0, <3>1, RequestShape, ServerAssumption
    <3> QED
      BY <1>0, <2>1, <2>3, <3>1, <3>2, ObtainTypes, ReadAgainKeeps
  <2> QED
    BY <2>1, <2>2, <2>3
<1>6. CASE SecondReading
  <2>1. PICK v \in Currents : Obtain(v) /\ ReadAgain("third")
    BY <1>6 DEF SecondReading
  <2>2. /\ misreads \in 0..1 /\ reading = "second"
        /\ Near(prev_lv_current, Draw[request[2]]) => misreads >= 1
    BY <1>6 DEF SecondReading, ServerInv, Suspicion
  <2> QED
    BY <1>0, <2>1, <2>2, ObtainTypes, ReadAgainKeeps
<1>7. CASE ThirdReading
  BY <1>0, <1>7, ObtainTypes, AnswerShape, ReplyKeeps DEF ThirdReading, Answer, TypeOK
<1> QED
  BY <1>1, <1>2, <1>3, <1>4, <1>5, <1>6, <1>7 DEF Handler

\* A server that ends forgets its connections.
LEMMA OperatorKeeps == ServerInv /\ (Interrupt \/ Restart) => ServerInv'
<1> SUFFICES ASSUME ServerInv, Interrupt \/ Restart
             PROVE  ServerInv'
  OBVIOUS
<1>1. /\ CloseAll /\ UNCHANGED <<end, down, limit>>
      /\ server' \in {"select", "exited"} /\ None \notin Connections
      /\ serving' = None /\ request' = None /\ reading' = "none" /\ misreads' = 0
  BY ServerAssumption
  DEF Interrupt, Restart, Idle, readings, ServerInv, ServingOne, Suspicion
<1>2. TypeOK'
  BY <1>1 DEF Interrupt, Restart, CloseAll, ServerInv, TypeOK, readings
<1>3. OneAtATime' /\ StillReadable'
  BY <1>1 DEF CloseAll, ServerInv, OneAtATime, StillReadable
<1> QED
  BY <1>1, <1>2, <1>3 DEF ServerInv, ServingOne, Suspicion

\* Every step keeps the invariant.
LEMMA NextServerInv == ServerInv /\ [Next]_vars => ServerInv'
<1>1. ServerInv /\ UNCHANGED vars => ServerInv'
  BY DEF ServerInv, TypeOK, ServingOne, OneAtATime, StillReadable, Suspicion,
         vars, ends, handler, readings
<1> QED
  BY <1>1, ClientKeeps, LoopKeeps, HandlerKeeps, OperatorKeeps DEF Next

\* The invariant holds in every behaviour.
LEMMA ServerInvHolds == Spec => []ServerInv
<1> QED
  BY InitServerInv, NextServerInv, PTL DEF Spec

\* The server's and its clients' variables have their types, however clients
\* come and go and whatever they ask.
THEOREM TypeCorrect == Spec => []TypeOK
<1>1. ServerInv => TypeOK
  BY DEF ServerInv
<1> QED
  BY <1>1, ServerInvHolds, PTL

-----------------------------------------------------------------------------
(* The server implements RequestService.                                   *)

\* The request of a client that is still to be served: on its way or in hand.
Asking == [k \in Connections |-> IF serving = k THEN request ELSE up[k]]
Open   == [k \in Connections |-> peer[k] # "none"]

\* The supply stays what it is to its clients, or an exchange with it failed.
LEMMA SupplyKept ==
    ASSUME UNCHANGED <<limit, faults>>
    PROVE  Supply' = Supply
  BY DEF Supply

LEMMA SupplyFails ==
    ASSUME TypeOK, UNCHANGED limit, Fault
    PROVE  Supply' = SupplyFailing(Supply)
<1>1. (faults' > 0) = TRUE
  BY FaultTypes
<1>2. Supply' = [limit |-> limit, failed |-> TRUE]
  BY <1>1 DEF Supply
<1>3. ASSUME NEW l, NEW f, NEW t, NEW s, s = [[limit |-> l, failed |-> f] EXCEPT !.failed = t]
      PROVE  s = [limit |-> l, failed |-> t]
  BY <1>3
<1>4. SupplyFailing(Supply) = [limit |-> limit, failed |-> TRUE]
  BY <1>3 DEF Supply, SupplyFailing
<1> QED
  BY <1>2, <1>4

\* At first nobody is connected.
LEMMA InitPromise == Init => Promise!Init
<1> SUFFICES ASSUME Init PROVE Promise!Init
  OBVIOUS
<1>1. \A k \in Connections : serving # k
  BY ServerAssumption DEF Init
<1>2. (faults > 0) = FALSE /\ limit \in [Channels -> LimitValues]
  BY DEF Init
<1>3. Supply \in [limit : [Channels -> LimitValues], failed : {FALSE}]
  BY <1>2 DEF Supply
<1> QED
  BY <1>1, <1>3 DEF Init, Promise!Init

\* A step of a client is one of the service's, or the death of its process in
\* an answer without an object.
LEMMA ClientPromise ==
    ASSUME ServerInv, NEW k \in Connections, Client(k)
    PROVE  Promise!Next
<1> USE ServerAssumption DEF ServerInv, TypeOK
<1>0. UNCHANGED <<serving, request, Supply>>
  <2>1. UNCHANGED <<serving, request, limit, faults>>
    BY DEF Client, Connect, Request, Receive, LoseServer, Quit, Renew, handler, readings
  <2> QED
    BY <2>1, SupplyKept
<1>1. CASE Connect(k) \/ \E r \in Asked : Request(k, r)
  <2>1. PICK r \in Requests : Send(k, r)
    BY <1>1 DEF Connect, Request, Requests
  <2>2. /\ end[k] = "none" \/ (end[k] = "idle" /\ peer[k] # "none")
        /\ down' = down /\ peer' = [peer EXCEPT ![k] = peer'[k]] /\ peer'[k] # "none"
    BY <1>1 DEF Connect, Request
  <2>3. serving # k
    BY <2>2 DEF ServingOne
  <2>4. Asking' = [Asking EXCEPT ![k] = r]
    BY <1>0, <2>1, <2>3 DEF Send, Asking
  <2>5. Open' = [Open EXCEPT ![k] = TRUE]
    BY <2>2 DEF Open
  <2>6. Promise!Ask(k)
    BY <1>0, <2>1, <2>2, <2>4, <2>5 DEF Send, Open, Asking, Promise!Ask
  <2> QED
    BY <2>6 DEF Promise!Next
<1>2. CASE Receive(k)
  <2>1. /\ end[k] = "waiting" /\ down[k] # None
        /\ end' = [end EXCEPT ![k] = "idle"] \/ end' = [end EXCEPT ![k] = "gone"]
        /\ down' = [down EXCEPT ![k] = None] /\ UNCHANGED <<peer, up>>
    BY <1>2 DEF Receive
  <2> QED
    BY <1>0, <2>1 DEF Promise!Next, Promise!Receive, Promise!Leave
<1>3. CASE LoseServer(k)
  BY <1>0, <1>3 DEF LoseServer, Promise!Next, Promise!Lose
<1>4. CASE Quit(k)
  BY <1>0, <1>4 DEF Quit, Promise!Next, Promise!Leave
<1>5. CASE Renew(k)
  BY <1>0, <1>5 DEF Renew, Promise!Next, Promise!Renew
<1> QED
  BY <1>1, <1>2, <1>3, <1>4, <1>5 DEF Client

\* The server's own steps between requests show nothing to its clients: the
\* request that is taken is still the one to be served.  A socket is closed
\* only when its client is gone and nothing of it is left to serve.
LEMMA LoopPromise ==
    ASSUME ServerInv, Loop
    PROVE  Promise!Next \/ UNCHANGED Promise!vars
<1> USE ServerAssumption DEF ServerInv, TypeOK
<1>0. serving = None /\ serving \notin Connections
  BY DEF Loop, Poll, Accept, Take, Drop, Select, ServingOne
<1>01. UNCHANGED Supply
  <2>1. UNCHANGED <<limit, faults>>
    BY DEF Loop, Poll, Accept, Take, Drop, readings
  <2> QED
    BY <2>1, SupplyKept
<1>1. CASE Poll
  BY <1>1, <1>01 DEF Poll, ends, Promise!vars
<1>2. ASSUME NEW k \in Connections, Accept(k)
      PROVE  UNCHANGED Promise!vars
  <2>1. Open' = Open
    BY <1>2 DEF Accept, Open
  <2> QED
    BY <1>01, <1>2, <2>1 DEF Accept, Open, Promise!vars
<1>3. ASSUME NEW k \in Connections, Take(k)
      PROVE  UNCHANGED Promise!vars
  <2>1. Asking' = Asking
    BY <1>0, <1>3 DEF Take, Asking
  <2> QED
    BY <1>01, <1>3, <2>1 DEF Take, Asking, Promise!vars
<1>4. ASSUME NEW k \in Connections, Drop(k)
      PROVE  Promise!Next
  <2>1. end[k] = "gone" /\ up[k] = None
    BY <1>4 DEF Drop, Select, StillReadable
  <2>2. Open' = [Open EXCEPT ![k] = FALSE]
    BY <1>4 DEF Drop, Open
  <2>3. Promise!Close(k)
    BY <1>01, <1>0, <1>4, <2>1, <2>2 DEF Drop, Open, Promise!Close
  <2> QED
    BY <2>3 DEF Promise!Next
<1> QED
  BY <1>1, <1>2, <1>3, <1>4 DEF Loop

\* An answer serves the request at that moment, and nobody else's.
LEMMA ReplyPromise ==
    ASSUME ServerInv, server = "handle", NEW a, Reply(a),
           Supply' \in {SupplyAfter(Supply, request), SupplyFailing(Supply)},
           a \in RepliesTo(Supply', request)
    PROVE  Promise!Next
<1>1. /\ serving \in Connections /\ request \in Requests /\ request # None
      /\ up[serving] = None
  BY RequestShape DEF ServerInv, ServingOne
<1>2. /\ UNCHANGED <<end, peer, up>>
      /\ down' = IF end[serving] = "waiting" THEN [down EXCEPT ![serving] = a] ELSE down
      /\ serving' = None
  BY DEF Reply, Idle
<1>3. PICK k \in Connections : k = serving
  BY <1>1
<1>4. Asking' = [Asking EXCEPT ![k] = None] /\ Asking[k] = request
  <2>1. Asking[k] = request
    BY <1>3 DEF Asking
  <2>2. Asking' = [j \in Connections |-> up[j]]
    BY <1>2, ServerAssumption DEF Asking
  <2>3. \A j \in Connections : up[j] = IF j = k THEN None ELSE Asking[j]
    BY <1>1, <1>3 DEF Asking
  <2>4. Asking' = [j \in Connections |-> IF j = k THEN None ELSE Asking[j]]
    BY <2>2, <2>3
  <2>5. [Asking EXCEPT ![k] = None] = [j \in Connections |-> IF j = k THEN None ELSE Asking[j]]
    BY DEF Asking
  <2> QED
    BY <2>1, <2>4, <2>5
<1>5. IF end[k] = "waiting"
      THEN \E b \in RepliesTo(Supply', Asking[k]) : down' = [down EXCEPT ![k] = b]
      ELSE UNCHANGED down
  BY <1>2, <1>3, <1>4
<1>6. Promise!Serve(k)
  BY <1>1, <1>2, <1>4, <1>5 DEF Asking, Promise!Serve
<1> QED
  BY <1>6 DEF Promise!Next

\* A server that ends, and a new one, keep no connection.
LEMMA ClosePromise ==
    ASSUME CloseAll, serving' = None, UNCHANGED <<end, down>>,
           Supply' \in {Supply, SupplyFailing(Supply)}
    PROVE  Promise!Next
<1>1. None \notin Connections
  BY ServerAssumption
<1>2. Open' = [k \in Connections |-> FALSE]
  BY DEF CloseAll, Open
<1>3. Asking' = [k \in Connections |-> None]
  BY <1>1 DEF CloseAll, Asking
<1>4. Promise!Stop
  BY <1>2, <1>3 DEF Open, Asking, Promise!Stop
<1> QED
  BY <1>4 DEF Promise!Next

\* Each handler serves its request with the right answer, once; the readings
\* that come before it show nothing.
LEMMA HandlerPromise ==
    ASSUME ServerInv, Handler
    PROVE  Promise!Next \/ UNCHANGED Promise!vars
<1>0. server = "handle" /\ request \in Requests /\ TypeOK
  BY DEF Handler, HandleHelp, HandleUnknown, HandleChamber, HandleSet, HandleGet, Throw,
         Handling, FirstReading, SecondReading, ThirdReading, ServerInv, ServingOne
<1>1. CASE HandleHelp \/ HandleUnknown \/ HandleChamber
  <2>1. Supply' = Supply /\ SupplyAfter(Supply, request) = Supply
    BY <1>1, SupplyKept
    DEF HandleHelp, HandleUnknown, HandleChamber, Handling, SupplyAfter, readings
  <2>2. PICK a \in RepliesTo(Supply, request) : Reply(a)
    BY <1>1 DEF HandleHelp, HandleUnknown, HandleChamber, Handling, RepliesTo
  <2> QED
    BY <1>0, <2>1, <2>2, ReplyPromise
<1>2. CASE HandleSet
  <2>1. /\ request[1] = "set" /\ Reply(Number(0))
        /\ \A supply : Number(0) \in RepliesTo(supply, request)
    BY <1>2 DEF HandleSet, Handling, RepliesTo
  <2>2. CASE limit' = [limit EXCEPT ![request[2]] = request[3]] /\ UNCHANGED faults
    <3>1. Supply' = SupplyAfter(Supply, request)
      BY <2>1, <2>2 DEF Supply, SupplyAfter
    <3> QED
      BY <1>0, <2>1, <3>1, ReplyPromise
  <2>3. CASE Fault /\ UNCHANGED limit
    BY <1>0, <2>1, <2>3, SupplyFails, ReplyPromise
  <2> QED
    BY <1>2, <2>2, <2>3 DEF HandleSet
<1>3. CASE HandleGet
  <2>1. request[1] = "limit" /\ SupplyAfter(Supply, request) = Supply /\ UNCHANGED limit
    BY <1>3 DEF HandleGet, Handling, SupplyAfter
  <2>2. CASE Reply(Number(limit[request[2]])) /\ UNCHANGED faults
    <3>1. Supply' = Supply
      BY <2>1, <2>2, SupplyKept
    <3>2. Number(limit[request[2]]) \in RepliesTo(Supply, request)
      <4>1. limit[request[2]] \in LimitValues
        BY <1>0, <2>1, RequestShape DEF TypeOK
      <4>2. Supply.limit = limit
        BY DEF Supply
      <4> QED
        BY <2>1, <4>1, <4>2, AnswerShape DEF RepliesTo
    <3> QED
      BY <1>0, <2>1, <2>2, <3>1, <3>2, ReplyPromise
  <2>3. ASSUME NEW v \in LimitValues \cup Currents, Reply(Number(v)), 
               Fault \/ (faults > 0 /\ UNCHANGED faults)
        PROVE  Promise!Next
    <3>1. Supply' \in {SupplyAfter(Supply, request), SupplyFailing(Supply)}
      BY <1>0, <2>1, <2>3, SupplyKept, SupplyFails
    <3>2. Supply'.failed
      <4>1. (faults' > 0) = TRUE
        BY <1>0, <2>3, FaultTypes
      <4> QED
        BY <4>1 DEF Supply
    <3>3. Number(v) \in RepliesTo(Supply', request)
      BY <2>1, <3>2, AnswerShape DEF RepliesTo
    <3> QED
      BY <1>0, <2>3, <3>1, <3>3, ReplyPromise
  <2> QED
    BY <1>3, <2>2, <2>3 DEF HandleGet
<1>4. CASE Throw
  <2>1. Supply' = SupplyFailing(Supply) /\ UNCHANGED <<end, down>>
    BY <1>0, <1>4, SupplyFails DEF Throw
  <2>2. CASE Idle /\ CloseAll
    BY <2>1, <2>2, ClosePromise DEF Idle
  <2>3. CASE UNCHANGED <<ready, serving, request, reading, peer, up>>
    BY <2>1, <2>3 DEF Promise!Next, Promise!Fail
  <2> QED
    BY <1>4, <2>2, <2>3 DEF Throw
<1>01. ASSUME NEW v \in Currents, Obtain(v)
      PROVE  Supply' \in {Supply, SupplyFailing(Supply)}
  BY <1>0, <1>01, SupplyKept, SupplyFails DEF Obtain
<1>5. ASSUME NEW v \in Currents, Obtain(v), Answer(v), request[1] = "current"
      PROVE  Promise!Next
  <2>1. Number(v) \in RepliesTo(Supply', request)
    BY <1>5 DEF RepliesTo
  <2>2. SupplyAfter(Supply, request) = Supply
    BY <1>5 DEF SupplyAfter
  <2> QED
    BY <1>0, <1>01, <1>5, <2>1, <2>2, ReplyPromise DEF Answer
<1>6. ASSUME NEW v \in Currents, Obtain(v), NEW next, ReadAgain(next)
      PROVE  Promise!Next \/ UNCHANGED Promise!vars
  <2>1. UNCHANGED <<ends, serving, request>>
    BY <1>6 DEF ReadAgain
  <2>2. CASE Supply' = Supply
    BY <2>1, <2>2 DEF ends, Promise!vars
  <2>3. CASE Supply' = SupplyFailing(Supply)
    BY <2>1, <2>3 DEF ends, Promise!Next, Promise!Fail
  <2> QED
    BY <1>01, <1>6, <2>2, <2>3
<1>7. CASE FirstReading \/ SecondReading \/ ThirdReading
  BY <1>5, <1>6, <1>7 DEF FirstReading, SecondReading, ThirdReading, ServerInv, Suspicion
<1> QED
  BY <1>1, <1>2, <1>3, <1>4, <1>7 DEF Handler

\* The server, with any clients, implements the service that RequestService
\* promises (serial_spyserv_DEV.C:172-234, 462-476, 661-712, 958).
THEOREM ServerServesRequests == Spec => ServesRequests
<1>1. ServerInv /\ [Next]_vars => [Promise!Next]_(Promise!vars)
  <2> SUFFICES ASSUME ServerInv, [Next]_vars
               PROVE  Promise!Next \/ UNCHANGED Promise!vars
    OBVIOUS
  <2>1. CASE Interrupt \/ Restart
    <3>1. CloseAll /\ serving' = None /\ UNCHANGED <<end, down, limit, faults>>
      BY <2>1 DEF Interrupt, Restart, Idle, readings, ServerInv, ServingOne
    <3> QED
      BY <3>1, SupplyKept, ClosePromise
  <2>2. CASE UNCHANGED vars
    BY <2>2, SupplyKept DEF vars, ends, handler, readings, Promise!vars
  <2> QED
    BY <2>1, <2>2, ClientPromise, LoopPromise, HandlerPromise DEF Next
<1> QED
  BY <1>1, InitPromise, ServerInvHolds, PTL DEF Spec, ServesRequests, Promise!Spec

-----------------------------------------------------------------------------
(* The readings of a current.                                              *)

\* What is answered after at most one bad reading: the first reading, which was
\* near the one before, or the third, which then was a good one.
LEMMA AnsweredCurrent ==
    ASSUME ServerInv, NEW v \in Currents, Obtain(v), request \in Requests,
           \/ reading = "first" /\ Near(prev_lv_current, v)
           \/ reading = "third",
           Near(prev_lv_current, Draw[request[2]]), Misreads <= 1
    PROVE  WithinTwoBands(lv_current', Draw[request[2]])
<1>1. /\ request[1] = "current" /\ lv_current' = v /\ misreads \in Int
      /\ reading = "third" => misreads >= 1
  BY ObtainTypes DEF ServerInv, TypeOK, Suspicion
<1>2. /\ v \in Int /\ prev_lv_current \in Int /\ Draw[request[2]] \in Int
  BY <1>1, RequestShape, CurrentsAreInt DEF ServerInv, TypeOK
<1>3. CASE reading = "first"
  BY <1>1, <1>2, <1>3 DEF Near, WithinTwoBands, Band
<1>4. CASE reading = "third"
  <2>1. v = Draw[request[2]]
    BY <1>1, <1>4, ObtainTypes DEF ServerInv
  <2> QED
    BY <1>1, <1>2, <2>1 DEF WithinTwoBands, Band
<1> QED
  BY <1>3, <1>4

\* A single bad reading is filtered whenever the last current that was answered,
\* of whichever channel, was near this one's (serial_spyserv_DEV.C:446-459).
THEOREM BadReadingFiltered == Spec => SameCurrentFiltered
<1>1. ASSUME ServerInv, Next, reading # "none", reading' = "none",
             Near(prev_lv_current, Draw[request[2]]), Misreads <= 1
      PROVE  WithinTwoBands(lv_current', Draw[request[2]])
  <2>1. /\ server = "handle" /\ request \in Requests /\ request[1] = "current"
        /\ reading \in {"first", "second", "third"}
    BY <1>1 DEF ServerInv, TypeOK, ServingOne, Suspicion
  <2>2. FirstReading \/ SecondReading \/ ThirdReading
    <3>1. \A k \in Connections : ~Client(k)
      BY <1>1 DEF Client, Connect, Request, Receive, LoseServer, Quit, Renew, handler
    <3> QED
      BY <1>1, <2>1, <3>1
      DEF Next, Loop, Poll, Accept, Take, Drop, Select, Handler, HandleHelp, HandleUnknown,
          HandleChamber, HandleSet, HandleGet, Throw, Handling, Interrupt, Restart
  <2>3. CASE FirstReading
    <3>1. PICK v \in Currents : Obtain(v) /\ Near(prev_lv_current, v)
      BY <1>1, <2>3 DEF FirstReading, ReadAgain
    <3> QED
      BY <1>1, <2>1, <2>3, <3>1, AnsweredCurrent DEF FirstReading
  <2>4. CASE SecondReading
    BY <1>1, <2>4 DEF SecondReading, ReadAgain
  <2>5. CASE ThirdReading
    BY <1>1, <2>1, <2>5, AnsweredCurrent DEF ThirdReading
  <2> QED
    BY <2>2, <2>3, <2>4, <2>5
<1>2. ServerInv /\ [Next]_vars =>
        [/\ reading # "none" /\ reading' = "none"
         /\ Near(prev_lv_current, Draw[request[2]])
         /\ Misreads <= 1
         => WithinTwoBands(lv_current', Draw[request[2]])]_vars
  BY <1>1
<1> QED
  BY <1>2, ServerInvHolds, PTL DEF Spec, SameCurrentFiltered
=============================================================================
