------------------------------ MODULE WKserial ------------------------------
(***************************************************************************)
(* The blocking serial port object of core/src/WKserial.cc: one thread     *)
(* that calls its methods, the kernel's queues of one tty line, and the    *)
(* instrument at the other end of the line.                                *)
(*                                                                         *)
(* The n-th request the thread writes is the record [id |-> n, asks |->    *)
(* TRUE or FALSE]; "asks" says that the instrument is expected to answer   *)
(* it.  A byte of the answer to request n is the pair <<n, i>>, its i-th.  *)
(* Time is counted in ticks of TickMs milliseconds.  Every instant the     *)
(* code stores is only ever compared with "now" after a duration was added *)
(* to it, so the model keeps ages: ticks since the instant, up to Horizon. *)
(***************************************************************************)
EXTENDS Integers, Sequences

CONSTANTS
    Speeds,         \* line speeds in baud that set_speed knows; 0 stands for B0
    TickMs,         \* milliseconds in a tick
    WriteInterval,  \* m_du_interval_write, in ticks
    ReadTimeout,    \* m_du_timeout_read, in ticks
    Lengths,        \* values of read_data's length argument
    ReplyLen,       \* bytes in a complete answer
    Garbage,        \* what an int that a failed ioctl left unset may hold
    MaxRequests     \* bound: requests written in a behaviour

ASSUME SpeedsAssumption  == Speeds \subseteq Nat
ASSUME TimesAssumption   == /\ TickMs \in Nat \ {0}
                            /\ WriteInterval \in Nat
                            /\ ReadTimeout \in Nat
ASSUME LengthsAssumption == /\ Lengths \subseteq Nat \ {0}
                            /\ ReplyLen \in Nat \ {0}
ASSUME GarbageAssumption == Garbage \subseteq Nat
ASSUME BoundAssumption   == MaxRequests \in Nat

VARIABLES
    m_fd,           \* "closed" is the code's 0, "failed" its -1
    speed,          \* the line speed the kernel holds for the tty
    sinceConnect,   \* age of m_tp_connect
    sinceWrite,     \* age of m_tp_last_write
    out,            \* kernel output queue: requests not yet on the wire
    todo,           \* answer bytes the instrument has still to send
    rx,             \* kernel input queue of the line
    pc,             \* where the thread is
    asks,           \* the argument of the write in progress
    length,         \* the argument of the read in progress
    waiting1,       \* length_waiting1 of read_data
    nap,            \* ticks the thread has still to sleep
    str,            \* the string of the last read_data
    outcome,        \* how the last read_data ended
    written,        \* requests written so far
    taken           \* history: bytes returned to callers since the last flush

line   == <<out, todo, rx>>
ages   == <<sinceConnect, sinceWrite>>
reader == <<length, waiting1, str, outcome>>
vars   == <<m_fd, speed, ages, line, pc, asks, reader, nap, written, taken>>

Request == [id : 1..MaxRequests, asks : BOOLEAN]
Byte    == (1..MaxRequests) \X (1..ReplyLen)
Reply(n) == [i \in 1..ReplyLen |-> <<n, i>>]

\* An age beyond every duration it is compared with.
Horizon == WriteInterval + ReadTimeout
Older(age) == IF age < Horizon THEN age + 1 ELSE age

\* 10ms + ~10bytes, rounded up to ticks: sleep_for never returns early.
PollMs(s)    == 10 + (1000 * 100) \div s
PollTicks(s) == (PollMs(s) + TickMs - 1) \div TickMs

TypeOK ==
    /\ m_fd \in {"closed", "failed", "open"}
    /\ speed \in Speeds
    /\ sinceConnect \in 0..Horizon
    /\ sinceWrite \in 0..Horizon
    /\ out \in Seq(Request)
    /\ todo \in Seq(Byte)
    /\ rx \in Seq(Byte)
    /\ m_fd # "open" => rx = <<>> /\ taken = <<>>
    /\ pc \in {"idle", "write", "sample", "nap", "clock", "take", "dead"}
    /\ asks \in BOOLEAN
    /\ length \in Lengths
    /\ waiting1 \in Nat
    /\ nap \in Nat
    /\ str \in Seq(Byte)
    /\ outcome \in {"none", "data", "timeout", "exception", "foreign"}
    /\ written \in 0..MaxRequests
    /\ pc = "write" => written < MaxRequests
    /\ taken \in Seq(Byte)

(***************************************************************************)
(* A new object: nothing open, both instants at the clock's origin, long   *)
(* ago.  The tty has some speed from its earlier use.                      *)
(***************************************************************************)
Init ==
    /\ m_fd = "closed"
    /\ speed \in Speeds
    /\ sinceConnect = Horizon /\ sinceWrite = Horizon
    /\ out = <<>> /\ todo = <<>> /\ rx = <<>>
    /\ pc = "idle"
    /\ asks = FALSE
    /\ length \in Lengths
    /\ waiting1 = 0 /\ nap = 0
    /\ str = <<>> /\ outcome = "none"
    /\ written = 0
    /\ taken = <<>>

-----------------------------------------------------------------------------
(* Opening, closing and configuring the line.                              *)

\* tcflush(m_fd, TCIOFLUSH): both kernel queues of the line are emptied.
FlushBoth == /\ rx' = <<>>
             /\ out' = <<>>
             /\ taken' = <<>>

Connect ==
    /\ pc = "idle"
    /\ \/ /\ m_fd' = "open"
          /\ FlushBoth
          /\ sinceConnect' = 0
       \/ /\ m_fd' = "failed"
          /\ rx' = <<>> /\ taken' = <<>>
          /\ UNCHANGED <<out, sinceConnect>>
    /\ UNCHANGED <<speed, sinceWrite, todo, pc, asks, reader, nap, written>>

\* A slip for comparison: m_fd is zeroed without a close().
DisconnectWithoutClose ==
    /\ pc = "idle"
    /\ m_fd' = "closed"
    /\ UNCHANGED <<speed, ages, line, pc, asks, reader, nap, written, taken>>

\* close() drains the output queue and drops the input queue.
Disconnect ==
    /\ pc = "idle"
    /\ m_fd' = "closed"
    /\ rx' = <<>> /\ taken' = <<>>
    /\ UNCHANGED <<speed, ages, out, todo, pc, asks, reader, nap, written>>

\* A speed of the table is applied between two flushes, unless tcsetattr
\* fails; another speed, or no open line, changes nothing.
SetSpeed(s) ==
    /\ pc = "idle"
    /\ m_fd = "open"
    /\ s \in Speeds
    /\ FlushBoth
    /\ speed' \in {s, speed}
    /\ UNCHANGED <<m_fd, ages, todo, pc, asks, reader, nap, written>>

\* set_hardware_flow_control, set_software_flow_control, set_raw_output and
\* set_raw_intput: the flags they set are not modelled, their flush is.
Reconfigure ==
    /\ pc = "idle"
    /\ m_fd = "open"
    /\ FlushBoth
    /\ UNCHANGED <<m_fd, speed, ages, todo, pc, asks, reader, nap, written>>

\* set_parity flushes the input queue only; bad arguments change nothing.
SetParity ==
    /\ pc = "idle"
    /\ m_fd = "open"
    /\ rx' = <<>> /\ taken' = <<>>
    /\ UNCHANGED <<m_fd, speed, ages, out, todo, pc, asks, reader, nap, written>>

-----------------------------------------------------------------------------
(* write_data.                                                             *)

CallWrite(a) ==
    /\ pc = "idle"
    /\ written < MaxRequests
    /\ pc' = "write"
    /\ asks' = a
    /\ UNCHANGED <<m_fd, speed, ages, line, reader, nap, written, taken>>

\* A slip for comparison: m_tp_last_write holds the next permitted instant.
WriteOutStampingAhead ==
    /\ pc = "write"
    /\ sinceWrite >= WriteInterval
    /\ written' = written + 1
    /\ out' = IF m_fd = "open"
              THEN Append(out, [id |-> written + 1, asks |-> asks])
              ELSE out
    /\ sinceWrite' = -WriteInterval
    /\ pc' = "idle"
    /\ UNCHANGED <<m_fd, speed, sinceConnect, todo, rx, asks, reader, nap, taken>>

\* A slip for comparison: the line is written again after the interval.
WriteOutTwice ==
    /\ pc = "write"
    /\ sinceWrite >= WriteInterval
    /\ written' = written + 1
    /\ out' = LET request == [id |-> written + 1, asks |-> asks] IN
              IF m_fd = "open" THEN out \o <<request, request>> ELSE out
    /\ sinceWrite' = 0
    /\ pc' = "idle"
    /\ UNCHANGED <<m_fd, speed, sinceConnect, todo, rx, asks, reader, nap, taken>>

\* sleep_until(tp_wait), write and the new m_tp_last_write.  The result of
\* write is not looked at: with no open line the request goes nowhere.
WriteOut ==
    /\ pc = "write"
    /\ sinceWrite >= WriteInterval
    /\ written' = written + 1
    /\ out' = IF m_fd = "open"
              THEN Append(out, [id |-> written + 1, asks |-> asks])
              ELSE out
    /\ sinceWrite' = 0
    /\ pc' = "idle"
    /\ UNCHANGED <<m_fd, speed, sinceConnect, todo, rx, asks, reader, nap, taken>>

-----------------------------------------------------------------------------
(* read_data.                                                              *)

\* A slip for comparison: str is not cleared.
CallReadKeepingStr(n) ==
    /\ pc = "idle"
    /\ pc' = "sample"
    /\ length' = n
    /\ outcome' = "none"
    /\ UNCHANGED <<m_fd, speed, ages, line, asks, waiting1, str, nap, written, taken>>

CallRead(n) ==
    /\ pc = "idle"
    /\ pc' = "sample"
    /\ length' = n
    /\ str' = <<>>
    /\ outcome' = "none"
    /\ UNCHANGED <<m_fd, speed, ages, line, asks, waiting1, nap, written, taken>>

\* The first FIONREAD and the start of the sleep, whose duration divides by
\* get_speed(): at speed 0 the process dies.  Without a line the ioctl fails
\* and leaves length_waiting1 unset, tcgetattr leaves the speed unset.
Sample ==
    /\ pc = "sample"
    /\ waiting1' \in IF m_fd = "open" THEN {Len(rx)} ELSE Garbage
    /\ \E s \in IF m_fd = "open" THEN {speed} ELSE Speeds \cup {0} :
          IF s = 0 THEN /\ pc' = "dead"
                        /\ nap' = 0
                   ELSE /\ pc' = "nap"
                        /\ nap' = PollTicks(s)
    /\ UNCHANGED <<m_fd, speed, ages, line, asks, length, str, outcome, written, taken>>

\* A slip for comparison: equal counts end the wait, even two counts of 0.
WakeWithoutZeroTest ==
    /\ pc = "nap"
    /\ nap = 0
    /\ \E waiting2 \in IF m_fd = "open" THEN {Len(rx)} ELSE Garbage :
          pc' = IF waiting1 = waiting2 THEN "take"
                ELSE IF waiting2 = 0 THEN "clock" ELSE "sample"
    /\ UNCHANGED <<m_fd, speed, ages, line, asks, reader, nap, written, taken>>

\* A slip for comparison: the first bytes end the wait.
WakeAtFirstBytes ==
    /\ pc = "nap"
    /\ nap = 0
    /\ \E waiting2 \in IF m_fd = "open" THEN {Len(rx)} ELSE Garbage :
          pc' = IF waiting2 = 0 THEN "clock" ELSE "take"
    /\ UNCHANGED <<m_fd, speed, ages, line, asks, reader, nap, written, taken>>

\* The sleep is over: the second FIONREAD and the tests on the two counts.
Wake ==
    /\ pc = "nap"
    /\ nap = 0
    /\ \E waiting2 \in IF m_fd = "open" THEN {Len(rx)} ELSE Garbage :
          pc' = IF waiting2 = 0 THEN "clock"
                ELSE IF waiting1 = waiting2 THEN "take" ELSE "sample"
    /\ UNCHANGED <<m_fd, speed, ages, line, asks, reader, nap, written, taken>>

\* Slips for comparison: the deadline is renewed by each poll; it does not
\* depend on the last write.
AlwaysWaiting == TRUE
WaitingSinceConnect == sinceConnect < ReadTimeout

\* tp_wait > now, with tp_wait the later of connect and last write + timeout.
StillWaiting == sinceConnect < ReadTimeout \/ sinceWrite < ReadTimeout

\* Nothing was waiting at the second count: wait on, or give up.  The clock
\* is read after the count, and the thread may be delayed between the two.
Clock ==
    /\ pc = "clock"
    /\ IF StillWaiting
       THEN /\ pc' = "sample"
            /\ UNCHANGED outcome
       ELSE /\ pc' = "idle"
            /\ outcome' = "timeout"
    /\ UNCHANGED <<m_fd, speed, ages, line, asks, length, waiting1, str, nap, written, taken>>

Shorter(a, b) == IF a < b THEN a ELSE b

\* A slip for comparison: the input queue is flushed after the read.
TakeAndFlush ==
    /\ pc = "take"
    /\ pc' = "idle"
    /\ IF m_fd = "open"
       THEN /\ str' = SubSeq(rx, 1, Shorter(length, Len(rx)))
            /\ rx' = <<>>
            /\ taken' = taken \o str'
            /\ outcome' = "data"
       ELSE /\ outcome' = IF m_fd = "failed" THEN "exception" ELSE "foreign"
            /\ UNCHANGED <<str, rx, taken>>
    /\ UNCHANGED <<m_fd, speed, ages, out, todo, asks, length, waiting1, nap, written>>

\* A slip for comparison: the last byte returned stays in the queue.
TakeOffByOne ==
    /\ pc = "take"
    /\ pc' = "idle"
    /\ IF m_fd = "open"
       THEN LET n == Shorter(length, Len(rx)) IN
            /\ str' = SubSeq(rx, 1, n)
            /\ rx' = SubSeq(rx, n, Len(rx))
            /\ taken' = taken \o str'
            /\ outcome' = "data"
       ELSE /\ outcome' = IF m_fd = "failed" THEN "exception" ELSE "foreign"
            /\ UNCHANGED <<str, rx, taken>>
    /\ UNCHANGED <<m_fd, speed, ages, out, todo, asks, length, waiting1, nap, written>>

\* read() returns what is waiting now, at most length bytes.  On fd -1 it
\* returns -1, which append takes as a huge count and throws; fd 0 is the
\* standard input, whose bytes are not the instrument's.
Take ==
    /\ pc = "take"
    /\ pc' = "idle"
    /\ IF m_fd = "open"
       THEN LET n == Shorter(length, Len(rx)) IN
            /\ str' = SubSeq(rx, 1, n)
            /\ rx' = SubSeq(rx, n + 1, Len(rx))
            /\ taken' = taken \o str'
            /\ outcome' = "data"
       ELSE /\ outcome' = IF m_fd = "failed" THEN "exception" ELSE "foreign"
            /\ UNCHANGED <<str, rx, taken>>
    /\ UNCHANGED <<m_fd, speed, ages, out, todo, asks, length, waiting1, nap, written>>

-----------------------------------------------------------------------------
(* The instrument and the passage of time.                                 *)

\* A request comes off the wire: the instrument decides on its answer.  One
\* that expects an answer may get none (power off, wrong end of line).
DeviceReceive ==
    /\ out # <<>>
    /\ out' = Tail(out)
    /\ \/ UNCHANGED todo
       \/ /\ Head(out).asks
          /\ todo' = todo \o Reply(Head(out).id)
    /\ UNCHANGED <<m_fd, speed, ages, rx, pc, asks, reader, nap, written, taken>>

\* The next byte arrives; with no open line the kernel drops it.
DeviceSend ==
    /\ todo # <<>>
    /\ todo' = Tail(todo)
    /\ rx' = IF m_fd = "open" THEN Append(rx, Head(todo)) ELSE rx
    /\ UNCHANGED <<m_fd, speed, ages, out, pc, asks, reader, nap, written, taken>>

Tick ==
    /\ sinceConnect' = Older(sinceConnect)
    /\ sinceWrite' = Older(sinceWrite)
    /\ nap' = IF nap > 0 THEN nap - 1 ELSE 0
    /\ UNCHANGED <<m_fd, speed, line, pc, asks, reader, written, taken>>

-----------------------------------------------------------------------------
Configuring == \/ Connect
               \/ Disconnect
               \/ \E s \in Speeds : SetSpeed(s)
               \/ Reconfigure
               \/ SetParity

\* The steps of a call in progress.
Step == WriteOut \/ Sample \/ Wake \/ Clock \/ Take

Device == DeviceReceive \/ DeviceSend

Next == \/ Configuring
        \/ \E a \in BOOLEAN : CallWrite(a)
        \/ \E n \in Lengths : CallRead(n)
        \/ Step
        \/ Device
        \/ Tick

Spec == Init /\ [][Next]_vars

\* The thread runs on and time passes.  The instrument promises nothing.
FairSpec == Spec /\ WF_vars(Step) /\ WF_vars(Tick)

-----------------------------------------------------------------------------
(* Properties.                                                             *)

\* read() is called (WKserial.cc:301) only when bytes are waiting, however
\* the arrival of bytes falls around the two counts: it returns at once and
\* with at least one byte.
ReadFindsBytes == pc = "take" /\ m_fd = "open" => rx # <<>>

\* What the callers of read_data see is the stream of ReplyStream: the bytes
\* still to be sent and those in the kernel's queue are its contents.
Stream == INSTANCE ReplyStream WITH
            Answers <- {Reply(n) : n \in 1..MaxRequests},
            pipe    <- rx \o todo,
            got     <- taken

\* The bytes that successive calls of read_data return (WKserial.cc:301-302)
\* are the instrument's, in order, none twice; none is lost but by a flush of
\* connect or of the set_ functions, or while no line is open.
DeliversStream == Stream!Spec

\* A read_data on an open line at a usable speed returns, whenever the bytes
\* arrive and whatever the counts they split (WKserial.cc:279-298).
ReadReturns ==
    (pc = "sample" /\ m_fd = "open" /\ speed # 0) ~> (pc = "idle")
=============================================================================
