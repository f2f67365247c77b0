----------------------------- MODULE SerialQuery -----------------------------
(***************************************************************************)
(* How the device classes use the port (compatible.cc, CameraIR.cc,        *)
(* NanotecMotor.cc and the scpi_ functions): a query is write_line and     *)
(* then read_data, a command is write_line alone, and the line is only     *)
(* configured between them.  Nothing in a query ties what it reads to what *)
(* it wrote, so a late or broken answer is read by a later query.  The     *)
(* history variable "clean" says that this has not begun to happen.        *)
(***************************************************************************)
EXTENDS WKserial

VARIABLES
    mode,   \* what the device class is doing
    clean   \* history: every finished query returned its own whole answer

sqVars == <<vars, mode, clean>>

SQTypeOK == /\ TypeOK
            /\ mode \in {"free", "command", "asking", "reading"}
            /\ clean \in BOOLEAN

SQInit == Init /\ mode = "free" /\ clean = TRUE

Configure == /\ mode = "free"
             /\ Configuring
             /\ UNCHANGED <<mode, clean>>

Command == /\ mode = "free"
           /\ CallWrite(FALSE)
           /\ mode' = "command"
           /\ UNCHANGED clean

Ask == /\ mode = "free"
       /\ CallWrite(TRUE)
       /\ mode' = "asking"
       /\ UNCHANGED clean

ReadAnswer == /\ mode = "asking"
              /\ \E n \in Lengths : CallRead(n)
              /\ mode' = "reading"
              /\ UNCHANGED clean

\* The call of the device class returns to its caller.
Finish == /\ mode \in {"command", "reading"}
          /\ pc = "idle"
          /\ mode' = "free"
          /\ clean' = (clean /\ (mode = "reading" => outcome = "data"
                                                     /\ str = Reply(written)))
          /\ UNCHANGED vars

PortStep     == Step /\ UNCHANGED <<mode, clean>>
DeviceStep   == Device /\ UNCHANGED <<mode, clean>>
TimePasses   == Tick /\ UNCHANGED <<mode, clean>>

SQNext == \/ Configure \/ Command \/ Ask \/ ReadAnswer \/ Finish
          \/ PortStep \/ DeviceStep \/ TimePasses

SQSpec == SQInit /\ [][SQNext]_sqVars

Answered == mode = "reading" /\ pc = "idle" /\ outcome = "data"

OwnPrefix == \A i \in 1..Len(str) : str[i] = <<written, i>>

\* As long as every earlier query returned its own whole answer, the bytes a
\* query returns (write_line and read_data, WKserial.cc:268-304) are the
\* first bytes of its own answer and of no other: the exchange can only lose
\* step after a timeout, a pause inside an answer or a too small length.
OwnBytes == Answered /\ clean => Len(str) \in 1..ReplyLen /\ OwnPrefix

NoQuestion == \A i \in 1..Len(out) : ~out[i].asks

\* When a query that kept step is over, no byte and no answer of it is left
\* in any queue for a later query (WKserial.cc:268, 301) to read.
NothingLeftBehind ==
    mode = "free" /\ clean => rx = <<>> /\ todo = <<>> /\ NoQuestion

-----------------------------------------------------------------------------
(* The inductive invariant: where the answer of the query in progress is.  *)

\* How the calls of the device class and those of the port go together.
Nesting ==
    /\ mode = "free" => pc = "idle"
    /\ mode = "command" => pc \in {"idle", "write"} /\ (pc = "write" => ~asks)
    /\ mode = "asking" => pc \in {"idle", "write"} /\ (pc = "write" => asks)
    /\ mode = "reading" => pc # "write"
    /\ mode = "reading" /\ pc # "idle" => str = <<>>
    /\ pc = "take" /\ m_fd = "open" => rx # <<>>

SilentLine == rx = <<>> /\ todo = <<>> /\ NoQuestion

\* The question is the last request on its way, or it was lost or ignored.
Unanswered ==
    /\ rx = <<>> /\ todo = <<>>
    /\ \A i \in 1..Len(out) : out[i].asks =>
           i = Len(out) /\ out[i].id = written /\ m_fd = "open"

\* The answer but for its first k bytes is on its way, in order.
InFlight(k) ==
    /\ m_fd = "open"
    /\ NoQuestion
    /\ k + Len(rx) + Len(todo) = ReplyLen
    /\ \A i \in 1..Len(rx) : rx[i] = <<written, k + i>>
    /\ \A i \in 1..Len(todo) : todo[i] = <<written, k + Len(rx) + i>>

InStep ==
    /\ mode \in {"free", "command"} \/ pc = "write" => SilentLine
    /\ mode = "asking" /\ pc = "idle" => Unanswered \/ InFlight(0)
    /\ mode = "reading" =>
          \/ Unanswered /\ str = <<>> /\ ~Answered
          \/ InFlight(Len(str)) /\ OwnPrefix /\ (Answered => str # <<>>)

SQInv == SQTypeOK /\ Nesting /\ (clean => InStep)
=============================================================================
