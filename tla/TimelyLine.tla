----------------------------- MODULE TimelyLine -----------------------------
(***************************************************************************)
(* SerialQuery on a line that keeps the promises the timeouts of WKserial  *)
(* silently rely on: the line stays open at a usable speed, an instrument  *)
(* that answers begins within FirstByte ticks of the write and then never  *)
(* pauses for more than Gap ticks, read_data is called with a length that  *)
(* holds an answer, and the thread is not suspended between the second     *)
(* count of read_data and its look at the clock.                           *)
(***************************************************************************)
EXTENDS SerialQuery

CONSTANTS
    FirstByte,  \* ticks from the write to the first byte of the answer
    Gap         \* ticks between two bytes of an answer

\* An answer begins before the timeout, and its pauses are shorter than the
\* time between the two counts, at every speed.
ASSUME PromisesAssumption ==
    /\ FirstByte \in Nat /\ FirstByte < ReadTimeout
    /\ Gap \in Nat
    /\ \A s \in Speeds \ {0} : Gap < PollTicks(s)
    /\ \A n \in Lengths : ReplyLen <= n

VARIABLES
    quiet,      \* ticks since the last byte arrived, up to Gap
    answered    \* history: the instrument answers the last request

tlVars == <<sqVars, quiet, answered>>

TLTypeOK == SQTypeOK /\ quiet \in 0..Gap /\ answered \in BOOLEAN

\* An object whose constructor has opened and configured the line.
TLInit == /\ SQInit
          /\ speed # 0
          /\ quiet = 0
          /\ answered = FALSE

TLConnect == /\ mode = "free"
             /\ Connect
             /\ m_fd' = "open"
             /\ UNCHANGED <<mode, clean, quiet, answered>>

TLConfigure == /\ Configure
               /\ m_fd = "open" /\ m_fd' = "open"
               /\ speed' # 0
               /\ UNCHANGED <<quiet, answered>>

TLAsk == m_fd = "open" /\ Ask /\ UNCHANGED <<quiet, answered>>

TLCaller == /\ Command \/ ReadAnswer \/ Finish \/ PortStep
            /\ UNCHANGED <<quiet, answered>>

TLReceive == /\ DeviceReceive
             /\ answered' = (todo' # todo)
             /\ UNCHANGED <<mode, clean, quiet>>

TLSend == /\ DeviceSend
          /\ quiet' = 0
          /\ UNCHANGED <<mode, clean, answered>>

\* The instrument must act before time may go on.
Undecided  == \E i \in 1..Len(out) : out[i].asks
OwesFirst  == todo # <<>> /\ Head(todo)[2] = 1
OwesNext   == todo # <<>> /\ Head(todo)[2] > 1
DeviceMust == \/ (Undecided \/ OwesFirst) /\ sinceWrite >= FirstByte
              \/ OwesNext /\ quiet >= Gap

TLTick == /\ ~DeviceMust
          /\ pc # "clock"
          /\ TimePasses
          /\ quiet' = IF quiet < Gap THEN quiet + 1 ELSE quiet
          /\ UNCHANGED answered

TLNext == \/ TLConnect \/ TLConfigure \/ TLAsk \/ TLCaller
          \/ TLReceive \/ TLSend \/ TLTick

TLSpec == TLInit /\ [][TLNext]_tlVars

\* The caller goes on, the instrument keeps its promises, time passes.
TLFairSpec == /\ TLSpec
              /\ WF_tlVars(TLCaller)
              /\ WF_tlVars(TLReceive \/ TLSend)
              /\ WF_tlVars(TLTick)

\* On a line that keeps its promises a finished query returned its own whole
\* answer if the instrument answered it, and a timeout otherwise
\* (WKserial.cc:277-306): no answer is cut, mixed up or missed.
OwnAnswer ==
    mode = "reading" /\ pc = "idle" =>
        IF answered THEN outcome = "data" /\ str = Reply(written)
                    ELSE outcome = "timeout" /\ str = <<>>

\* A query is in progress from the call that writes it until read_data is
\* over.  The last query's identity is the number of its request.
Asking  == mode = "asking" \/ (mode = "reading" /\ pc # "idle")
AskedId == IF mode = "asking" /\ pc = "write" THEN written + 1 ELSE written

Asked  == IF Asking THEN AskedId ELSE 0
Result == IF Asking \/ str = <<>> THEN <<>> ELSE str

Service == INSTANCE QueryService WITH
             Queries <- 1..MaxRequests,
             None    <- 0,
             Answer  <- Reply,
             Nothing <- <<>>,
             asked   <- Asked,
             result  <- Result

\* A query of a device class on a line that keeps its promises ends, with the
\* whole answer to that very query or with nothing (WKserial.cc:260-306).
AnswersQueries == Service!Spec
=============================================================================
