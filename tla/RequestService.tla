--------------------------- MODULE RequestService ---------------------------
(***************************************************************************)
(* What the slow control server promises to its clients: a request is      *)
(* served once, at one moment between its sending and its answer, by what  *)
(* it asks for, and its answer goes to the client that sent it.  A client  *)
(* loses its server only when the server stops, never its answer before.   *)
(* An exchange with an instrument may fail; the constants say what is a    *)
(* right answer after that.                                                *)
(***************************************************************************)
CONSTANTS
    Connections,    \* sockets that clients may open
    Requests,       \* what they may ask
    NoRequest,      \* nothing is asked
    NoReply,        \* nothing is answered
    Initial,        \* states the instruments may be in at first
    Replies(_, _),  \* right answers to a request in a state of the instruments
    After(_, _),    \* the state of the instruments after a request
    Fault(_)        \* their state after an exchange with them that failed

VARIABLES
    session,    \* "none", "idle", "waiting", "gone" or "lost"
    open,       \* the server keeps its end of the connection
    asked,      \* the request that is to be served
    answer,     \* the answer that is to be received
    state       \* the instruments

vars == <<session, open, asked, answer, state>>

Init ==
    /\ session = [k \in Connections |-> "none"]
    /\ open = [k \in Connections |-> FALSE]
    /\ asked = [k \in Connections |-> NoRequest]
    /\ answer = [k \in Connections |-> NoReply]
    /\ state \in Initial

Ask(k) ==
    /\ \/ session[k] = "none"
       \/ session[k] = "idle" /\ open[k]
    /\ session' = [session EXCEPT ![k] = "waiting"]
    /\ open' = [open EXCEPT ![k] = TRUE]
    /\ \E r \in Requests : asked' = [asked EXCEPT ![k] = r]
    /\ UNCHANGED <<answer, state>>

\* A request whose client is gone is served all the same.
Serve(k) ==
    /\ asked[k] # NoRequest
    /\ asked' = [asked EXCEPT ![k] = NoRequest]
    /\ state' \in {After(state, asked[k]), Fault(state)}
    /\ IF session[k] = "waiting"
       THEN \E a \in Replies(state', asked[k]) : answer' = [answer EXCEPT ![k] = a]
       ELSE UNCHANGED answer
    /\ UNCHANGED <<session, open>>

Receive(k) ==
    /\ session[k] = "waiting" /\ answer[k] # NoReply
    /\ session' = [session EXCEPT ![k] = "idle"]
    /\ answer' = [answer EXCEPT ![k] = NoReply]
    /\ UNCHANGED <<open, asked, state>>

\* The client's process ends.
Leave(k) ==
    /\ session[k] \in {"idle", "waiting"}
    /\ session' = [session EXCEPT ![k] = "gone"]
    /\ answer' = [answer EXCEPT ![k] = NoReply]
    /\ UNCHANGED <<open, asked, state>>

\* The server ends: what is not served yet never will be.
Stop ==
    /\ open' = [k \in Connections |-> FALSE]
    /\ asked' = [k \in Connections |-> NoRequest]
    /\ state' \in {state, Fault(state)}
    /\ UNCHANGED <<session, answer>>

\* An exchange fails in the middle of a request.
Fail ==
    /\ state' = Fault(state)
    /\ UNCHANGED <<session, open, asked, answer>>

Lose(k) ==
    /\ session[k] \in {"idle", "waiting"}
    /\ ~open[k] /\ answer[k] = NoReply
    /\ session' = [session EXCEPT ![k] = "lost"]
    /\ UNCHANGED <<open, asked, answer, state>>

\* The server forgets a client that is gone; then the client may come anew.
Close(k) ==
    /\ session[k] = "gone" /\ asked[k] = NoRequest
    /\ open' = [open EXCEPT ![k] = FALSE]
    /\ UNCHANGED <<session, asked, answer, state>>

Renew(k) ==
    /\ session[k] \in {"gone", "lost"} /\ ~open[k]
    /\ session' = [session EXCEPT ![k] = "none"]
    /\ UNCHANGED <<open, asked, answer, state>>

Next == \/ \E k \in Connections :
              \/ Ask(k) \/ Serve(k) \/ Receive(k)
              \/ Leave(k) \/ Lose(k) \/ Close(k) \/ Renew(k)
        \/ Stop \/ Fail

Spec == Init /\ [][Next]_vars
=============================================================================
