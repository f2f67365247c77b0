------------------------------ MODULE SpyServer ------------------------------
(***************************************************************************)
(* The sockets and the dispatch of the slow control server                 *)
(* (serial_spyserv_DEV.C:150-246, 443-476, 661-772, 956-959) and its       *)
(* client (serial_spy.C).  One thread accepts connections, takes one       *)
(* request at a time from whichever socket is ready, serves it to its end  *)
(* and answers.  The low voltage requests are modelled with their          *)
(* instrument; the others are "help", a request nobody knows, and one that *)
(* waits for the climate chamber.                                          *)
(***************************************************************************)
EXTENDS Integers

CONSTANTS
    Connections,    \* sockets that clients open
    Channels,       \* of the low voltage supply
    LimitValues,    \* limits that clients set
    Draw,           \* per channel, the current that flows
    BadReadings,    \* currents that a bad reading may show
    Implausible,    \* those of them beyond 10e4
    Unset,          \* what lv_current may hold before it is assigned
    None,           \* no request, no answer, no connection
    Asked,          \* bound: the requests that clients make
    MaxFaults       \* bound: exchanges with the supply that fail

VARIABLES
    end,        \* the client's end of a connection, and what the client does
    peer,       \* the server's end: "none", "backlog" or "monitored"
    up,         \* the request on its way to the server, or None
    down,       \* the answer on its way to the client, or None
    ready,      \* connections that Select found ready and returns in turn
    server,     \* the main loop: "select", "handle"; or "exited", "prompt"
    serving,    \* the connection whose request is handled, or None
    request,    \* the request that is handled, or None
    reading,    \* which of the three readings of a current comes next
    limit,      \* the supply's limits, by channel
    lv_current, \* member of the server, for all channels
    prev_lv_current,
    faults,     \* exchanges with the supply that failed so far
    misreads    \* history: those of them for the request being handled

ends      == <<end, peer, up, down>>
handler   == <<ready, server, serving, request, reading>>
readings  == <<lv_current, prev_lv_current, faults, misreads>>
vars      == <<ends, handler, limit, readings>>

-----------------------------------------------------------------------------
(* Requests and answers.                                                   *)

Help      == <<"help">>
Unknown   == <<"unknown">>      \* a request with a mistake in it
Chamber   == <<"chamber">>      \* any of the climate chamber's
Current(ch)     == <<"current", ch>>
Limit(ch)       == <<"limit", ch>>
SetLimit(ch, v) == <<"set", ch, v>>

Requests == {Help, Unknown, Chamber} \cup {Current(ch) : ch \in Channels}
            \cup {Limit(ch) : ch \in Channels}
            \cup {SetLimit(ch, v) : ch \in Channels, v \in LimitValues}

Text   == <<"text">>        \* helpme, or the chamber's value
Blank  == <<"no object">>   \* the message that nothing was written into
Number(v) == <<"number", v>>

Currents == {Draw[ch] : ch \in Channels} \cup BadReadings

Answers == {Text, Blank, Number(0)} \cup {Number(v) : v \in LimitValues}
           \cup {Number(v) : v \in Currents}

\* 10e-5 A, in units of 10 microamperes.
Band == 10
Near(a, b) == a - b < Band /\ b - a < Band
WithinTwoBands(a, b) == a - b < 2 * Band /\ b - a < 2 * Band

ASSUME ServerAssumption ==
    /\ LimitValues \subseteq Int /\ Unset \subseteq Int /\ BadReadings \subseteq Int
    /\ Implausible \subseteq BadReadings
    /\ Draw \in [Channels -> Int] /\ \A ch \in Channels : Draw[ch] \notin Implausible
    /\ Asked \subseteq Requests
    /\ MaxFaults \in Nat
    /\ None \notin Requests \cup Answers \cup Connections

TypeOK ==
    /\ end \in [Connections -> {"none", "idle", "waiting", "gone", "lost"}]
    /\ peer \in [Connections -> {"none", "backlog", "monitored"}]
    /\ up \in [Connections -> Requests \cup {None}]
    /\ down \in [Connections -> Answers \cup {None}]
    /\ ready \subseteq Connections
    /\ server \in {"select", "handle", "exited", "prompt"}
    /\ serving \in Connections \cup {None}
    /\ request \in Requests \cup {None}
    /\ reading \in {"none", "first", "second", "third"}
    /\ limit \in [Channels -> LimitValues]
    /\ lv_current \in Currents \cup Unset
    /\ prev_lv_current \in Currents \cup Unset
    /\ faults \in 0..MaxFaults
    /\ misreads \in 0..3

Init ==
    /\ end = [k \in Connections |-> "none"]
    /\ peer = [k \in Connections |-> "none"]
    /\ up = [k \in Connections |-> None]
    /\ down = [k \in Connections |-> None]
    /\ ready = {} /\ server = "select"
    /\ serving = None /\ request = None /\ reading = "none"
    /\ limit \in [Channels -> LimitValues]
    /\ lv_current \in Unset /\ prev_lv_current \in Unset
    /\ faults = 0 /\ misreads = 0

-----------------------------------------------------------------------------
(* The client.                                                             *)

\* Send, then wait in Recv.
Send(k, r) ==
    /\ end' = [end EXCEPT ![k] = "waiting"]
    /\ up' = [up EXCEPT ![k] = r]

\* The kernel accepts for the port as long as the server's process lives;
\* Connect() asks for help at once.
Connect(k) ==
    /\ end[k] = "none" /\ server # "exited"
    /\ Send(k, Help)
    /\ peer' = [peer EXCEPT ![k] = "backlog"]
    /\ UNCHANGED <<down, handler, limit, readings>>

Request(k, r) ==
    /\ end[k] = "idle" /\ peer[k] # "none"
    /\ Send(k, r)
    /\ UNCHANGED <<peer, down, handler, limit, readings>>

\* An answer without an object is dereferenced all the same: the client's
\* process ends, or its interpreter goes back to its prompt.
Receive(k) ==
    /\ end[k] = "waiting" /\ down[k] # None
    /\ \E e \in IF down[k] = Blank THEN {"idle", "gone"} ELSE {"idle"} :
          end' = [end EXCEPT ![k] = e]
    /\ down' = [down EXCEPT ![k] = None]
    /\ UNCHANGED <<peer, up, handler, limit, readings>>

\* Recv has nothing more to return: Request() answers -1, now and later.
LoseServer(k) ==
    /\ end[k] \in {"idle", "waiting"} /\ peer[k] = "none" /\ down[k] = None
    /\ end' = [end EXCEPT ![k] = "lost"]
    /\ UNCHANGED <<peer, up, down, handler, limit, readings>>

\* The client is ended or deletes its serial_spy, whatever it is doing.
Quit(k) ==
    /\ end[k] \in {"idle", "waiting"}
    /\ end' = [end EXCEPT ![k] = "gone"]
    /\ down' = [down EXCEPT ![k] = None]
    /\ UNCHANGED <<peer, up, handler, limit, readings>>

\* The socket's place is free for another one.
Renew(k) ==
    /\ end[k] \in {"gone", "lost"} /\ peer[k] = "none"
    /\ end' = [end EXCEPT ![k] = "none"]
    /\ UNCHANGED <<peer, up, down, handler, limit, readings>>

-----------------------------------------------------------------------------
(* The main loop.                                                          *)

\* Of the listening socket and the connections, those with something to read.
Readable == {k \in Connections :
                \/ peer[k] = "backlog"
                \/ peer[k] = "monitored" /\ (up[k] # None \/ end[k] = "gone")}

\* ROOT polls again when every descriptor that it found ready is served.
Poll ==
    /\ server = "select" /\ ready = {} /\ Readable # {}
    /\ ready' = Readable
    /\ UNCHANGED <<ends, server, serving, request, reading, limit, readings>>

Select(k) ==
    /\ server = "select" /\ k \in ready
    /\ ready' = ready \ {k}

Accept(k) ==
    /\ Select(k) /\ peer[k] = "backlog"
    /\ peer' = [peer EXCEPT ![k] = "monitored"]
    /\ UNCHANGED <<end, up, down, server, serving, request, reading, limit, readings>>

\* Recv, and the first lines of the handler: a request for a current keeps the
\* reading of the request before, whichever channel that was for.
Take(k) ==
    /\ Select(k) /\ peer[k] = "monitored" /\ up[k] # None
    /\ up' = [up EXCEPT ![k] = None]
    /\ server' = "handle" /\ serving' = k /\ request' = up[k]
    /\ IF up[k][1] = "current"
       THEN /\ reading' = "first"
            /\ prev_lv_current' = lv_current
       ELSE /\ reading' = "none"
            /\ UNCHANGED prev_lv_current
    /\ UNCHANGED <<end, peer, down, limit, lv_current, faults, misreads>>

\* A slip for comparison: the socket stays in the monitor.
DropKept(k) ==
    /\ Select(k) /\ peer[k] = "monitored" /\ up[k] = None
    /\ UNCHANGED <<ends, server, serving, request, reading, limit, readings>>

\* Recv <= 0: the socket leaves the monitor and is closed.
Drop(k) ==
    /\ Select(k) /\ peer[k] = "monitored" /\ up[k] = None
    /\ peer' = [peer EXCEPT ![k] = "none"]
    /\ UNCHANGED <<end, up, down, server, serving, request, reading, limit, readings>>

Loop == Poll \/ \E k \in Connections : Accept(k) \/ Take(k) \/ Drop(k)

-----------------------------------------------------------------------------
(* The handlers; the last thing each of them does is to answer.            *)

Idle == serving' = None /\ request' = None /\ reading' = "none"

\* The client is sent the answer, if it is still there.
Reply(a) ==
    /\ down' = IF end[serving] = "waiting" THEN [down EXCEPT ![serving] = a] ELSE down
    /\ server' = "select" /\ Idle
    /\ UNCHANGED <<end, peer, up, ready>>

\* An exchange with the supply fails: a command is lost, an answer is missing,
\* late, cut short or wrong.
Fault == faults < MaxFaults /\ faults' = faults + 1

Handling(kind) == server = "handle" /\ request[1] = kind

HandleHelp ==
    /\ Handling("help")
    /\ Reply(Text)
    /\ UNCHANGED <<limit, readings>>

\* The message is sent although nothing was written into it.
HandleUnknown ==
    /\ Handling("unknown")
    /\ Reply(Blank)
    /\ UNCHANGED <<limit, readings>>

\* Select in CCtalk waits until the chamber says something.
HandleChamber ==
    /\ Handling("chamber")
    /\ Reply(Text)
    /\ UNCHANGED <<limit, readings>>

\* A slip for comparison: the channel is sent for the value.
HandleSetSwapped ==
    /\ Handling("set")
    /\ limit' = [limit EXCEPT ![request[2]] = request[2]]
    /\ Reply(Number(0))
    /\ UNCHANGED readings

\* One command, which nothing confirms and which may be lost; the setters
\* return 0.  (Voltage and current limits alike.)
HandleSet ==
    /\ Handling("set")
    /\ \/ limit' = [limit EXCEPT ![request[2]] = request[3]] /\ UNCHANGED faults
       \/ Fault /\ UNCHANGED limit
    /\ Reply(Number(0))
    /\ UNCHANGED <<lv_current, prev_lv_current, misreads>>

\* A slip for comparison: the channel is taken for an index from 0.
HandleGetShifted ==
    /\ Handling("limit")
    /\ \E ch \in Channels \ {request[2]} : Reply(Number(limit[ch]))
    /\ UNCHANGED <<limit, readings>>

\* One query.  Its answer may be late or cut short, and once one was, the
\* answers that are read may be those to earlier queries.
HandleGet ==
    /\ Handling("limit")
    /\ \/ Reply(Number(limit[request[2]])) /\ UNCHANGED faults
       \/ /\ Fault \/ (faults > 0 /\ UNCHANGED faults)
          /\ \E v \in LimitValues \cup Currents : Reply(Number(v))
    /\ UNCHANGED <<limit, lv_current, prev_lv_current, misreads>>

\* Every socket is closed, with what is still on its way to the server.
CloseAll == /\ peer' = [k \in Connections |-> "none"]
            /\ up' = [k \in Connections |-> None]
            /\ ready' = {}

\* substr(2) of an answer that did not come: the exception leaves the handler,
\* the loop and the constructor.  It ends the process, or the interpreter goes
\* back to its prompt, where no one deletes the sockets.
Throw ==
    /\ Handling("limit")
    /\ \/ server' = "exited" /\ Idle /\ CloseAll
       \/ server' = "prompt" /\ UNCHANGED <<ready, serving, request, reading, peer, up>>
    /\ Fault
    /\ UNCHANGED <<end, down, limit, lv_current, prev_lv_current, misreads>>

\* One getActualCurrent(channel), stored in the member.
Obtain(v) ==
    /\ \/ v = Draw[request[2]] /\ UNCHANGED faults
       \/ v \in BadReadings /\ Fault
    /\ lv_current' = v
    /\ UNCHANGED <<limit, prev_lv_current>>

Misreads == misreads + (faults' - faults)

Answer(v) == Reply(Number(v)) /\ misreads' = 0

ReadAgain(next) ==
    /\ reading' = next /\ misreads' = Misreads
    /\ UNCHANGED <<ends, ready, server, serving, request>>

\* A slip for comparison: the reading is not compared with the previous one.
FirstReadingUnfiltered ==
    /\ reading = "first"
    /\ \E v \in Currents :
          /\ Obtain(v)
          /\ IF v \notin Implausible
             THEN Answer(v) ELSE ReadAgain("second")

FirstReading ==
    /\ reading = "first"
    /\ \E v \in Currents :
          /\ Obtain(v)
          /\ IF Near(prev_lv_current, v) /\ v \notin Implausible
             THEN Answer(v) ELSE ReadAgain("second")

SecondReading ==
    /\ reading = "second"
    /\ \E v \in Currents : Obtain(v)
    /\ ReadAgain("third")

\* A slip for comparison: it is read again until it is near the previous one.
ThirdReadingInsisting ==
    /\ reading = "third"
    /\ \E v \in Currents :
          /\ Obtain(v)
          /\ IF Near(prev_lv_current, v)
             THEN Answer(v) ELSE ReadAgain("second")

\* The third reading is answered unseen.
ThirdReading ==
    /\ reading = "third"
    /\ \E v \in Currents : Obtain(v) /\ Answer(v)

Handler == \/ HandleHelp \/ HandleUnknown \/ HandleChamber \/ HandleSet \/ HandleGet \/ Throw
           \/ FirstReading \/ SecondReading \/ ThirdReading

-----------------------------------------------------------------------------
(* The server's operator.                                                  *)

\* The loop is interrupted: the destructor closes every socket.
Interrupt ==
    /\ server = "select"
    /\ server' = "exited" /\ CloseAll
    /\ UNCHANGED <<end, down, serving, request, reading, limit, readings>>

\* A new server, with a new process.
Restart ==
    /\ server \in {"exited", "prompt"}
    /\ server' = "select" /\ Idle /\ CloseAll
    /\ lv_current' \in Unset /\ prev_lv_current' \in Unset
    /\ misreads' = 0
    /\ UNCHANGED <<end, down, limit, faults>>

-----------------------------------------------------------------------------
Client(k) == \/ Connect(k) \/ (\E r \in Asked : Request(k, r)) \/ Receive(k)
             \/ LoseServer(k) \/ Quit(k) \/ Renew(k)

Next == (\E k \in Connections : Client(k)) \/ Loop \/ Handler \/ Interrupt \/ Restart

Spec == Init /\ [][Next]_vars

\* The server's thread runs on (the chamber does not stay silent for ever), and
\* a client that waits receives what comes.
Fairness ==
    /\ WF_vars(Loop \/ Handler)
    /\ \A k \in Connections : WF_vars(Receive(k) \/ LoseServer(k))

FairSpec == Spec /\ Fairness

-----------------------------------------------------------------------------
(* Properties.                                                             *)

\* The supply as a client may know it: its limits, and whether an exchange with
\* it has failed.
Supply == [limit |-> limit, failed |-> faults > 0]

\* What a client may be told: of a limit what was last set by whichever client,
\* unless an exchange has failed; of a current nothing in particular.
RepliesTo(supply, r) ==
    CASE r[1] = "set"     -> {Number(0)}
      [] r[1] = "limit"   -> IF supply.failed THEN Answers ELSE {Number(supply.limit[r[2]])}
      [] r[1] = "current" -> {Number(v) : v \in Currents}
      [] r[1] = "unknown" -> {Blank}
      [] OTHER            -> {Text}

SupplyAfter(supply, r) ==
    IF r[1] = "set" THEN [supply EXCEPT !.limit[r[2]] = r[3]] ELSE supply

SupplyFailing(supply) == [supply EXCEPT !.failed = TRUE]

Promise == INSTANCE RequestService WITH
    NoRequest <- None, NoReply <- None,
    Initial <- [limit : [Channels -> LimitValues], failed : {FALSE}],
    Replies <- RepliesTo, After <- SupplyAfter, Fault <- SupplyFailing,
    session <- end,
    open    <- [k \in Connections |-> peer[k] # "none"],
    asked   <- [k \in Connections |-> IF serving = k THEN request ELSE up[k]],
    answer  <- down,
    state   <- Supply

\* Requests of several clients are served one after the other, each once and
\* with its own answer to its own client, also when clients come, go and come
\* again while their requests are on the way, and when the server ends.  A set
\* takes effect unless its command is lost, and a limit that is answered is the
\* one last set as long as no exchange with the supply failed
\* (serial_spyserv_DEV.C:172-234, 462-476, 661-712, 958).
ServesRequests == Promise!Spec

\* A client that waits is answered or told that its server is lost, however
\* many requests of others are taken before its own, unless an exception left
\* the server at its prompt with its sockets open (serial_spyserv_DEV.C:174;
\* compatible.cc:248): serial_spy waits without a limit of time.
EveryRequestEnds ==
    \A k \in Connections :
        end[k] = "waiting" ~> end[k] # "waiting" \/ server = "prompt"

\* The socket of a client that is gone is closed and forgotten, with its last
\* request served (serial_spyserv_DEV.C:207-226).
GoneForgotten ==
    \A k \in Connections :
        end[k] = "gone" ~> peer[k] = "none" \/ server = "prompt"

\* One bad reading of a current is not answered if the last current answered,
\* which may have been that of another channel, was near this one's: the answer
\* is as near as two bands can be (serial_spyserv_DEV.C:446-459).
SameCurrentFiltered ==
    [][/\ reading # "none" /\ reading' = "none"
       /\ Near(prev_lv_current, Draw[request[2]])
       /\ Misreads <= 1
       => WithinTwoBands(lv_current', Draw[request[2]])]_vars
=============================================================================
