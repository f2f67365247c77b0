# WKserial in TLA+

WKserial talks to laboratory instruments over serial lines: a blocking serial
port class, device classes on top of it (temperature interlock, chiller,
Keithley 2410 high voltage supply, TTi low voltage supply, infrared camera,
Nanotec motors), a thermal chamber with two axes, and a slow control server
with its clients. This directory holds TLA+ models of it, TLC configurations
that check them on small instances, and proofs that TLAPS checks for all values
of the constants. Paths below are relative to the repository.

## 1. The system

| Component | State | Operations | Talks to |
|---|---|---|---|
| `WKserial` (`source/core/src/WKserial.cc`) | file descriptor, instants of connect and of the last write, two durations; the kernel's input and output queues and line settings | `connect`, `disconnect`, `set_*`, `write_data`, `read_data`, `scpi_*` | the instrument |
| Device classes (`compatible.cc`, `CameraIR.cc`) | none but the port (and the interlock's cache) | a query is `write_line` and then `read_data`; a command is `write_line` alone | `WKserial` |
| `TempInterlock` (`compatible.cc`) | `lastTempVec`, `lastUpdateTime` | `getTemp`, `UpdateTempVec` | `WKserial` |
| `NanotecMotor` | motor id; the motor's own position, mode, status | one exchange per method, with an echo that is compared | `WKserial` |
| `WKThermalChamber` | the two motors and the camera, if found | `Init`, `MoveToPosition*`, `TakePhoto` | two `NanotecMotor`s, one `CameraIR` |
| Server (`serial_spyserv_DEV.C`) | last and previous readings, `state_indicator`, values of the climate chamber | one handler per request of a client, in one thread | all device classes, the climate chamber's socket |
| Clients (`serial_spy.C`, `SlowControlClient.C`, `CCSlowControlClient.C`) | histories, alarm colours | `Request`, a polling loop | the server |
| Older server, macros, build files | - | - | - |

What makes it hard: answers may be late, cut, missing or somebody else's, and
nothing in a query ties the bytes read to the request written; the end of an
answer is guessed from a pause; readings that are used twice are read twice;
members outlive the request that set them; exceptions leave motors running; one
thread serves everyone. `PROJECT.json` lists each such hazard at its line, with
the properties that cover it or the reason why none does.

What makes each component correct:

- the port returns the instrument's bytes in order, none twice, none lost but by
  a flush, and every read comes to an end;
- a query returns its own answer, or a timeout;
- the interlock's cache does not outlive five seconds unless the line fails;
- a bad reading is not passed on, as the server's comments promise;
- a voltage ramp is gradual, stays near its limits, ends, and says the truth;
- a move ends with the axes at rest where they were sent, one axis at a time;
- a motor's setting that was set without an exception has its value, and is read
  back as it was set;
- a request is served once, answered to the client that sent it, and never waits
  for ever, whatever other clients do;
- a target of the climate chamber is what was last asked for, whatever other
  target was set since;
- a hybrid in danger turns the display red, nothing else does, and an undefined
  dewpoint leaves it as it was.

## 2. The modules

| Module | Models | Checked by | Proofs |
|---|---|---|---|
| `WKserial` | the port object, the kernel's queues, the instrument, time | `MCWKserial` | `SerialQueryProofs` |
| `ReplyStream` | abstract: what a line promises to the callers of `read_data` | refined by `WKserial` | `SerialQueryProofs` |
| `SerialQuery` | the write-then-read discipline on top of `WKserial` | `MCSerialQuery` | `SerialQueryProofs` |
| `QueryService` | abstract: what the device classes count on | refined by `TimelyLine` | `SerialQueryProofs` |
| `TimelyLine` | `SerialQuery` with an instrument that keeps the promises the timeouts need | `MCTimelyLine` | `SerialQueryProofs` |
| `HVRamp` | the three `Set_HVVoltage` requests and the Keithley | `MCHVRamp` | `HVRampProofs` |
| `TempInterlock` | the interlock's cache | through `SpyReadings` | `SpyReadingsProofs` |
| `SpyReadings` | the server's filtered readings, on top of `TempInterlock` | `MCSpyReadings` | `SpyReadingsProofs` |
| `ThermalChamber` | the chamber's methods and two motors that run by themselves | `MCThermalChamber` | `ThermalChamberProofs` |
| `NanotecSettings` | the motor's set and get methods, their exchange and encodings | `MCNanotecSettings` | `NanotecSettingsProofs` |
| `RequestService` | abstract: what the server promises to its clients | refined by `SpyServer` | `SpyServerProofs` |
| `SpyServer` | the server's sockets, loop and dispatch, its low voltage requests, and its clients | `MCSpyServer` | `SpyServerProofs` |
| `ClimateChamber` | the server's climate chamber requests, `CCtalk`, the chamber | `MCClimateChamber` | `ClimateChamberProofs` |
| `SlowControlAlarms` | the displays' round of requests and their colours | `MCSlowControlAlarms` | `SlowControlAlarmsProofs` |

Operators whose comment begins "A slip for comparison" are not part of any
specification. Each is a definition of the code with a plausible mistake in it
(a lost reset, a dropped test, two lines swapped), named under "mutants" in
`PROJECT.json` beside the property it would violate; they show that no property
holds by the shape of the model.

### WKserial

The thread's place in a method is `pc`; one action is what happens between two
points where the kernel, the instrument or the clock may intervene. `read_data`
is `CallRead`, `Sample` (first count, start of the sleep), `Wake` (second count
and the tests on both), `Clock` (the look at the clock, which comes after the
count) and `Take` (the `read`). `write_data` is `CallWrite` and `WriteOut`. The
`set_` functions are `SetSpeed`, `SetParity` (which flushes the input queue
only) and `Reconfigure` (the others: their flags are left out, their flush is
not). `m_fd` is `"closed"` for the code's 0 and `"failed"` for -1, and calls on
both are modelled as they happen: the ioctls leave the counts and the speed
unset (`Garbage`), `read` on -1 ends in an exception, `read` on 0 reads the
standard input, and a sleep at speed 0 divides by zero (`pc = "dead"`).

Bytes are pairs `<<request, position>>`, so that properties can tell whose they
are. Instants are kept as ages in ticks, up to `Horizon`, the longest duration
they are compared with. The instrument answers a request that asks something,
or does not, whenever it likes. The two durations are constants: every device
class sets them in its constructor. An interrupted or failing `write` on an open
line, a `connect` on an object that is already open (the old descriptor leaks,
but the new one is used for the same line), and partial writes are left out.

### SerialQuery and TimelyLine

`SerialQuery` allows any line and any timing. The history variable `clean` says
that every query so far returned its own whole answer. It turns false after a
timeout, a pause inside an answer or a length that is too small, and after
that the model lets answers be mixed up, as the code does. `TimelyLine` adds
the promises that rule this out, named in its header and as
`PromisesAssumption`: the first byte comes before the read timeout, pauses are
shorter than the time between two counts, the length holds an answer, the line
stays open, and the thread is not suspended between count and clock.

### HVRamp

Voltages are integers in units of 0.1 V. Every `getVoltage()` in a condition is a
query of its own in the code, so each operand of `&&` and `||` is an action with
its own reading: within `Noise` of the voltage, or the error value -100000
(`ErrorReading`) at most `MaxFailures` times. An answer that missed its reading may still
come, and is then what the next reading returns, whose own answer waits for the one
after it (`late`): the ramp then goes by a voltage it has left. `clip` is the voltage below which
a load in compliance does not let the terminals go. `state_indicator` starts
with anything, as the code does not initialise it. Readings that are only
printed are left out. `Targets` are within the source's range.

A request within 1.2 V of the present voltage is set without a look at the limits,
so requests in small steps may lead beyond them. `BoundedExcursion` says what
is left of the limits then: wherever a ramp begins (`began`), it goes beyond
the limits, or further out than it began, by at most one move: the width at which
the code takes itself to be there, and what the two readings of a move can be off by.
`Gradual` bounds each setting by the distance from the voltage at the terminals, for
that is what a step is reckoned from. The set value itself may jump: under a load in
compliance it is far below the terminals, and the next step up starts from these. Both
properties excuse a request one of whose readings failed or was late (`failed`).

### TempInterlock and SpyReadings

The cache is `sinceUpdate` (the age of `lastUpdateTime`) and `lastTempVec`; the
histories `dataAge` and `updateFailed` tell how old its contents are and why.
`idr, 100` is the only command there is. Its answer comes whole (`ReadsOwn`), not at all
(`ReadsNothing`, the vector stays), cut (`ReadsBeginning`: a shorter vector whose last number
may lack digits), or too late, and is then read as the answer to the next command
(`ReadsLate`: an older vector, or nothing but the rest of a cut one). A sensor may show
`BadReading` once in a while. `SpyReadings` is the handler
of one filtered reading: `FirstReading`, and if it is not near the previous one
`SecondReading` and `ThirdReading`. Hybrid temperatures go through the cache,
direct readings (Keithley, chiller) ask each time; the chiller's have no test of their
magnitude, the Keithley's do (`Plausible`). `misreads` counts the readings
of a request that were not the real value, whatever they were instead. The filter
compares with the previous reading, and a bad reading inside its range passes: so
`DirectGlitchFiltered` bounds the error of the answer by two ranges (the run has such a
bad value), and so does `SameCurrentFiltered` for the currents of `SpyServer`.

### ThermalChamber

One action per exchange with a motor, so that motors run, stall and finish between any
two of them. An exchange that fails throws and ends the method, with the motor having
obeyed or not. A status may be cut short and misread, for `sendCommand` overwrites the
last character by the end of line. The setters of `Init` that do not decide where a
motor goes are one action (`Prepare`). The motors (where a start leads in which mode
(`Goals`), when they count as referenced) are external and modelled from how the chamber
uses them. `Init` looks for a camera at its end; without one `TakePhoto` uses a null
pointer (`camera`). Both motors start in any of the relative, the absolute and the
external reference mode, which their records keep; in the relative one a start leads as
far as the travel distance to either side. Note that `Init` leaves mode 4 (reference
run) set, and that `Destination` therefore depends on the mode: what a start in that
mode does is the firmware's affair, and no claim is made about it.

### NanotecSettings

A setting is one or more registers; a set or get method is one exchange per
register (`Send`, then `Read`, `ReadCut` or `TimeOut`), in the code's order. The
symbols are the code's (`SetSymbols`, `GetSymbols`), also where set and get differ.
"current" stands for all methods with one register and a range. Words of 32 bits
are sets of bit positions, so `Highest` is all bits where the code passes
4294967295 for an `int`, and `InBounds` compares in two's complement. Answers are
a queue of which the first `here` have arrived; a read takes these as one string.
Five methods (`CallBare`) send a command without its end of line
(`NanotecMotor.cc:338`, `380`, `532`, `564`, `704`): the motor waits for the rest,
which is the next command (`partial`, `Spoilt`), and that one has no effect.
`Announce` is a status report that nobody asked for, which
`setAutomaticStatusSending` turns on. `Permitted` is the test of the four behaviours of the
limit switches (`NanotecMotor.cc:228-238`), which throws before anything is sent.
`setter` compares the whole string, with or without `=`; `getter` scans its
beginning (`Accepted`). In a cut answer the last byte is late, and `sendCommand`
overwrites the last digit that did arrive.

`excused` says that a call had a reason to fail: an argument out of range or not permitted,
an answer left over, lost, late or cut, a report nobody asked for, half a command
in front of this one, or an address that is not `id_` (no method changes `id_` when
`setAddress` changes the motor's). `SetTookEffect` and
`ReadsBack` hold as long as no answer was cut and no call found more than one
answer left over. Neither condition can be weakened: with two answers left over,
a set whose command is lost may read an older echo with the same symbol and value
and return normally, and a late echo of 50 whose last byte is missing is the echo of 5.

Some methods always throw (`Broken`): `setIOPolarityReversal`
and `setOutputs`, whose bound is -1 (`NanotecMotor.cc:453`, `504`; `NanotecMotor.hh:676`
says that the first "sets a bit mask"), `getFeedRate`, where a colon is missing
(line 318), and `getDigitalInputFunction`, where the letter of the input is
missing (line 408). `BrokenMethodsFail` says that these never succeed, and
`SoundCallsSucceed` speaks of the other methods that are modelled, which are called among
these. Of the settings, the address and the outputs have no get method. The functions of
the digital outputs are not modelled: `setDigitalOutputFunction` and
`getDigitalOutputFunction` are broken too, by pointer arithmetic beyond the end of a string
constant where a letter was to be appended (`NanotecMotor.cc:416`, `425`), and what they
send is undefined. Because no set method of the
polarities does, it stays hidden that the two methods disagree about the ballast resistance
(lines 451 and 478: only one of them inverts the bit).

### RequestService and SpyServer

`RequestService` says when a request is served (at one moment between its
sending and its answer, once, also if its client has gone), what the answer may be,
to whom it goes, and that a client loses its server only when the server ends. An exchange
with an instrument may fail (`Fault`, `Fail`); what may be answered after that is for the
system to say, what may be set and to whom the answer goes is not.
`SpyServer` is the code. The loop is `Poll` (ROOT asks the kernel which
descriptors are ready, and returns all of them one by one before it asks again:
`ready`), `Accept`, `Take` (receive a request and begin its handler) and `Drop`
(nothing to receive: the socket leaves the monitor). A handler ends in `Reply`. A
current takes up to three readings (`FirstReading` to `ThirdReading`), which compare
`lv_current` with `prev_lv_current`, members for all channels: with two channels asked
in turn every first reading is far from the previous one, and the third reading,
good or bad, is answered. `Throw` is `substr(2)` of an empty answer
(`compatible.cc:259`): the exception leaves the constructor, and the server's process
ends, or its interpreter goes back to its prompt with the sockets still open.
`Interrupt` is the end of the loop, with the destructor, and `Restart` a new server.
The supply loses a set command, or its answer is cut, late or missing, at the price of a
`faults` each. After the first, a limit may be answered as any of the limits or currents, for the
answers read may be those to earlier queries; the state of the service (`Supply`) therefore holds
whether an exchange has failed.
A command to the supply that arrives in part is not modelled.

`SetLimit` and `Limit` are the requests of the two limits. Switching an output on or off and setting
the chiller's target are one command and a fixed answer each, as `SetLimit` is, and are not
modelled beside it. `Chamber` stands for the requests of
`ClimateChamber`, `Unknown` for a request with a mistake, whose answer has no object
in it. The clients are `serial_spy`: `Connect` asks for help at once, and every
request waits in `Recv` without a limit of time. A request is one message and arrives
whole; the network loses a connection only with one of its ends.

### ClimateChamber

`CCtalk` is `Read(got)`, with the numbers of the report that came, or `Write`. A report
ends after any number (before the first if there was no connection) or within one, of
which then some digits are read (`Prefixes`), for one `RecvRaw` takes what is there
(lines 976-987). Each of them is a connection of its own, so the panel and commands
still on their way come between them. A set of one target has the other one in `toRead`
and writes both, switching the chamber reads both targets, and the dewpoint both
measured values. `val` is `val_one` to `val_four`, which keep what a report does not
bring and are `Garbage` at first. The history `doubtful` names the targets for which the
code cannot know that the chamber has what was last asked for, `misread` those of which
a report had no more than the first digits. Such a number is written back like any
other: a chamber that was to hold -10 degrees is given -1, and nobody asked for it.
`NothingInvented` says what is left: without such a report every target is one that was
asked for, and with one it has the sign of such a target and does not exceed it, however
often it is cut again. A chamber that never answers (`Select` has no timeout; see the
fairness of `SpyServer`) is left out.

### SlowControlAlarms

The three requests whose results decide on colours are actions; between them
`Move` changes what is measured and `moved` sums up by how much. `Paint` is the
chain of conditions, in order. `moved` is the margin of the properties: what is
in danger by more than it was in danger when it was read. A dewpoint of a
humidity of 0 is `NaN`, for which every condition is false: `UndefinedKeepsColours` says
that the canvas and the label of the dewpoint keep their colours in such a round (unless a
hybrid is hot or neither is there), the alarm that may be over and the green that may
no longer hold. The labels of the hybrids tell of heat alone, and turn green in it too.

## 3. The runs

| Run | Shows | Distinct states |
|---|---|---|
| `wkserial` | `WKserial` refines `ReplyStream` (`DeliversStream`), `read` finds bytes, `read_data` returns | 218 thousand |
| `serial_query` | the inductive invariant `SQInv`, `OwnBytes`, `NothingLeftBehind` | 370 thousand |
| `timely_line` | `OwnAnswer`, and `TimelyLine` refines `QueryService` (`AnswersQueries`), with liveness | 20 thousand |
| `hv_ramp` | `Gradual`, `BoundedExcursion`, `ZeroMeansSet`, `RampEnds` | 2.2 million |
| `chamber` | `MoveEndsAtRest`, `OneAxisAtATime`, `MethodEnds` | 1.8 million |
| `spy_readings` | `CacheExpires`, `DirectGlitchFiltered` | 11.3 million |
| `motor_settings` | `SetTookEffect`, `ReadsBack`, `SoundCallsSucceed`, `BrokenMethodsFail` | 7.6 million |
| `spy_server` | `SpyServer` refines `RequestService` (`ServesRequests`), `EveryRequestEnds`, `GoneForgotten`, `SameCurrentFiltered` | 768 thousand |
| `climate` | `TargetsAsIntended`, `NothingInvented` | 5.0 million |
| `alarms` | `Hybrid2Alarms`, `NoFalseAlarm`, `UndefinedKeepsColours`, `LostServerAlarms` | 1.7 million |
| `cached_glitch` | violated: one bad value in the cache is answered, although the comment at `serial_spyserv_DEV.C:326` has it read twice more | - |
| `hidden_alarm` | violated: the conditions on hybrid 2 paint hybrid 1's alarm over (`SlowControlClient.C:241`) | - |

Bounds. Two requests (three for `serial_query`) with answers of two or three bytes let
an answer be split at every place, be late and meet the next query, and let a read be
shorter or longer than it; speed 0 and two speeds with different sleeps cover the
arithmetic of the sleep. `hv_ramp` uses limits of -20.0 V and 0.5 V instead of -460 V
and 0.51 V: with targets inside, a little beyond and far beyond them, steps of 1 V
and 10 V, one failing reading, a load in compliance or not and two requests every branch
of both ramps is taken. Three calls, two stalls, one lost echo and one cut status give
the chamber the chance to leave a motor running and meet it again. Two glitches and two
failures, three levels of an instrument of which two are in one range and the bad value
between them and the third, and ages up to twice the cache's life are what the filter
and the cache can tell apart. `motor_settings` has the address, two registers, one
register, a word of four fields and a word of flags, of these one that cannot be set and
one that cannot be read, numbers of which one has another's digits and one more, an
argument whose second number is out of range, so that the first is written and the
second refused, and one for the limit switches that is not permitted; two late answers
and two faults are one more than the properties allow for. `spy_server` has two
connections, which are renewed, two channels with currents further apart than the
filter's band, one of whose limits is asked and set, and two faults, one bad reading
more than the filter is meant for; requests and restarts are not bounded. `climate` has
two temperatures, of which one is what a cut may leave of the other, one humidity, one
command on its way, one cut within a number and one change at the panel, `alarms`
temperatures on both sides of every threshold and of its margin. `MaxLate`, `MaxFaults`,
`MaxOnWay`, `MaxPanel`, `MaxMoves`, `MaxRequests`, `MaxCalls`, `MaxErrors`,
`MaxFailures`, `MaxCuts`, `MaxGlitches` and `Asked` are bounds of the models, not of the
code. Deadlock is checked except in `hv_ramp` and `chamber`, which stop when their
requests are used up.

Fairness. The thread runs on: weak fairness of the steps of a call in progress. No call
is ever forced to be made, with one exception: in `TimelyLine` the fairness of
`TLCaller` also makes an idle caller write its next command or question, which
`AnswersQueries` does not need, as it only speaks of queries that were begun. Time
passes, and in `TimelyLine` the instrument keeps its promises because time does not pass
it (`DeviceMust`). In `WKserial` and `HVRamp` the environment has no fairness at all. In
`ThermalChamber` a motor that runs makes progress. In `SpyServer` the server's one
thread runs on, and a client that waits receives what comes or finds that its server is
gone; that a request is not overtaken for ever needs no fairness, it follows from the
batches of `Poll`. This takes it that the climate chamber does not stay silent for ever,
because `CCtalk` waits for it without a limit of time. `EveryRequestEnds` and
`GoneForgotten` except a server at its prompt: there the code closes nothing. No client
is ever forced to ask, to end or to come again, and no one to interrupt or restart the
server.

## 4. The proofs

`SerialQueryProofs`, for all values of the constants that satisfy the assumptions
named in `WKserial` (speeds, durations and garbage are natural numbers, the tick,
the lengths and the answer's length are positive):

- `TypeCorrect`: the type invariant, one step per action. Its part about lines
  that are not open (nothing is waiting, no session has begun) is what makes
  the refinement inductive.
- `ReadsFindBytes`: `TypeOK` and the property itself are inductive: `Wake`
  alone leads to the read, and the instrument only adds bytes.
- `PortImplementsStream`: `WKserial` implements `ReplyStream` with the pipe
  `rx \o todo`. An answer is a `Send`, a read is a `Deliver` (of at least one
  byte, by `ReadFindsBytes`), a flush or a byte dropped by a closed line is a
  `Reset`, and the arrival of a byte is a stutter (`MoveByte`); `CutConcat` is
  the fact about sequences that all of them need.

Of `SerialQuery`, from the same assumptions:

- `InvariantHolds`: `SQInv` is inductive. `OwnBytes` alone is not: it says nothing
  of bytes not yet read. `InStep` says where the answer of the query in progress
  is: not asked for (`SilentLine`), asked for, lost or ignored (`Unanswered`), or
  all of it but the first `k` bytes in the queues, in order (`InFlight(k)`).
  `Nesting` ties the calls of the device class to those of the port.
- `QueriesReadOwnBytes` and `QueriesLeaveNothing` follow from it.

Of `TimelyLine`, whose assumption `PromisesAssumption` says
that an answer begins before the read timeout, pauses for less than the sleep
between two counts at every speed but 0, and fits the length of every read:

- `TimelyIsLine`: `TimelyLine` implements `SerialQuery`, so `SQInv` holds of it too.
- `TimelyInvariantHolds`: `TLInv` is inductive. `InStep` now holds without `clean`,
  because `WholeTaken` says that a read takes the whole answer. The rest relates the
  three clocks: an answer that is still to come is not late (`InTime`), also when
  `read_data` is about to look at the clock (`LooksInTime`); and while it sleeps between
  equal counts of a part of the answer, the pause of the line and the rest of the sleep
  are as long as the sleep (`PauseShorter`), so that the line speaks before it ends.
  `Fate` ties the history `answered` to the bytes of the answer.
- `TimelyTypeCorrect` and `QueriesGetOwnAnswer` (`OwnAnswer`) follow, and
  `QueriesServed`: `TimelyLine` implements the safety of `QueryService`, which is
  `AnswersQueries` without its fairness. The call that writes the question is `Ask`,
  the end of `read_data` is `Return`, and every other step is a stutter.

`HVRampProofs`, from `RampAssumption` (readings are off by less than 0.5 V, the limits are in
order, a load in compliance holds a voltage no higher than the upper limit):

- `TypeCorrect`; `ZeroIsHonest` (`ZeroMeansSet`); `ExcursionsBounded`
  (`BoundedExcursion`); `RampsAreGradual` (`Gradual`: as long as no reading failed or was late,
  no ramp sets a value further from the voltage at the terminals than one move allows). The last
  three rest on `RampInv`. Its `Course`
  says, as long as no reading failed, that at each place of a ramp the voltage is on the
  side the ramp comes from (`OnItsSide`), how far it is from the target
  (`Distance`), and that each turn of the loop begins where the request found the set value or
  where the limits were looked at (`WithinReach`). `BoundedExcursion` alone says
  nothing of the voltage between the look at the limits and the next step.

`SpyServerProofs`, from `ServerAssumption` (values are integers; a current that is really
drawn is not one of the implausible readings):

- `TypeCorrect`, and `ServerServesRequests`: `SpyServer` implements `RequestService`. `ServerInv`
  says for whom the thread works (`ServingOne`), that a connection carries a request or an
  answer but not both (`OneAtATime`), and that a descriptor which the kernel said was
  ready is so still when its turn comes (`StillReadable`), without which `Take` would not
  be a service.
  The steps of the supply are those of `Supply`: `SupplyKept` and `SupplyFails` are the lemmas
  that an exchange which fails is a `Fail` of the service, or a `Serve` that ends in `Fault`.
- `BadReadingFiltered` (`SameCurrentFiltered`), from `Suspicion`: which readings of a request
  can have been bad before its last one.

`SlowControlAlarmsProofs`, from `AlarmsAssumption` (temperatures are integers, a dewpoint is
one or `NaN`):

- `TypeCorrect`, `SecondHybridAlarms` (`Hybrid2Alarms`), `FalseAlarmsEnd` (`NoFalseAlarm`),
  `LostServerShown` (`LostServerAlarms`) and `UndefinedIsNoNews` (`UndefinedKeepsColours`).
  `AlarmInv` says that what was read differs from what is measured by what `moved`
  allows (`Follows`), in the sum over all quantities, and that the colours are those
  of what was read (`PaintedFromRead`).

`ThermalChamberProofs`, from `ChamberAssumption` (positions, the reference and the
bounds are natural numbers):

- `TypeCorrect`, `AxesRunInTurn` (`OneAxisAtATime`) and `MoveReturnsAtRest`
  (`MoveEndsAtRest`). `ChamberInv` says that only the axis in hand may run
  (`OthersRest`), and of a move in progress what each motor was told and where it
  is, the axis already done included (`MoveOnItsWay`): a move that returns says
  something about both axes, of which it looks at one at a time.

`ClimateChamberProofs`, from `ChamberAssumption` (the chamber starts with targets among the values,
which are integers):

- `TypeCorrect`, `ChamberHasWhatWasAsked` (`TargetsAsIntended`) and `NoTargetInvented`
  (`NothingInvented`, cuts within numbers included: what is read of a number between 0
  and a value that was asked for lies there too). `ClimateInv` speaks of the commands
  that are still on their way: the target and the power that the chamber will have when
  it has obeyed them all are those last asked for (`OnItsWay`), what a handler has read
  and will write back is too (`ReadAsIntended`), and a handler that writes has read
  every target which its request does not name (`ReadsBeforeWrite`).

`SpyReadingsProofs`, from `InterlockAssumption` and `ReadingsAssumption` (channels and
values are integers; what an instrument that is asked each time really shows is
plausible):

- `TypeCorrect` (`SpyTypeOK`), `CacheIsFresh` (`CacheExpires`: the vector is as old as the last
  update unless that failed) and `SingleGlitchFiltered` (`DirectGlitchFiltered`), from `BadFirst`: a
  second reading is only made because the first one was bad.

`NanotecSettingsProofs`, from `SettingsAssumption` (the settings are those of
`SetSymbols`, an argument is what the parameters of its set method can be, permitted or
not, and not knowing a value is no value):

- `TypeCorrect`: a register only ever has a value of its range, because a command is
  only sent with `InBounds`; `Room` says that only a call which has sent its command
  finds more than `MaxLate` answers.
- `SettingsTakeEffect` (`SetTookEffect`). The property says nothing of the line, so it
  is far from inductive. `Fresh`: of the answers about a register the latest has its
  value. `SetLine`: behind the one answer that was left over, and behind the first
  exchange of a call with two, there are only echoes of the call's own commands that the
  motor has obeyed (`OwnEcho`). A set method accepts its echo only if it is alone in
  what was read, and it may be the old one: then `Fresh` says that the register has its
  value, or that an echo of the call's own command is behind it, which says so too.
  `SetPast` keeps this for the exchanges that are over, `Took` for the calls that are.
  `OwnRegisters` is the lemma that no two settings share a register (`Symbols` are
  strings, so this is a matter of spelling).
- `SettingsReadBack` (`ReadsBack`): a get method changes no register, so with at most
  one answer left over all it can read is true of the registers (`GetLine`, `GetPast`),
  and `DecodedAsSet` says that decoding undoes encoding for every argument, by
  `LimitFields` for the word of four fields.
- `SoundCallsWork` (`SoundCallsSucceed`), from `Smooth`: as long as a call has no excuse
  the line is empty or has its answer alone, the motor listens at `Id`, and all its
  values are in bounds. The one setting that moves the motor to another address does so
  in its last exchange (`AddressLast`).
- `BrokenMethodsNeverSucceed` (`BrokenMethodsFail`), from `NothingInBounds`: no word
  lies between 0 and -1; and no answer is about a name that the motor does not have.

What the attempts showed of the models. Three bounds held on the small instances only
because of their values, and were corrected: `BoundedExcursion` has to allow for the
error of two readings, and the two filter properties for a bad reading within range of
the previous one; for each of them TLC shows the old bound violated on a suitable
instance. `misreads` used to count one bad value only. The assumptions named above were
not stated before, although the properties need them. `SoundCallsSucceed` used to be
checked only for settings without a slip in their methods; it is now stated of the
methods, so that the broken ones run among the others, and `BrokenMethodsFail` says
which these are.

Only model-checked: everything that is liveness (`ReadReturns`, the fairness of
`AnswersQueries`, `RampEnds`, `MethodEnds`, `EveryRequestEnds`, `GoneForgotten`), which is out of
the prover's reach. Every invariant that a passing run checks is also a theorem.

## 5. The plan

Done: the port, its abstraction, the query discipline and its service, the ramp,
the cache and the filtered readings, the chamber with its camera, the motor's settings
and the methods that spoil them, the server with its clients and their service, the climate
chamber, the displays' colours; the proofs of the safety of all of them.

Left to model: an abstract specification of the motor's settings (registers that are set and
read at once) that `NanotecSettings` implements while the line is prompt, and the same for
the climate chamber's targets; the log files that the displays write and read again.

## 6. What is not modelled

Termios settings other than the speed, printing and logging, the text of requests
and answers, floating point (the dew point formula, and the rolling average of the
displays, which a round within one tick of the clock divides by zero,
`SlowControlClient.C:556`), the graphs, labels' texts and offline mode of the displays, the
older server (a superseded backup), start-up macros, build files and udev rules.
`CameraIR` and the plain commands of the Keithley, the TTi supply and the chiller are
instances of `SerialQuery` and have no modules of their own.

Of the server, `Get_Dust_2H108` (a file from the web) and `Set_EXPERIMENT`, which calls
`hv->setVoltageRamp` (`serial_spyserv_DEV.C:946`), a method that `Keithley2410` does not have.
Switching the supply's outputs and setting the chiller's target are one command with a fixed
answer and have no request of their own in `SpyServer`, nor has a command to the supply that
arrives in part.
`getActualVoltage` and `getActualCurrent` return an uninitialised number when no answer
comes (`compatible.cc:283-311`); it is one of the `BadReadings`. The chiller's target is cut to
an integer before it is sent, which no property is about. In `TempInterlock` at most one answer is
out of place at a time.

Of the chamber's motors, the modes in which they do not go to a position (speed, flag position and
the like): `Init` starts an X motor that is referenced in the mode it was left in
(`WKThermalChamber.cc:23-31`), so one that was left in such a mode is outside the model.

Of `NanotecMotor`, what the methods of `CallBare` return, the baud rate and checksum,
the conversion of ramps, loading and saving records, and the two methods of the digital
outputs' functions, whose commands are built by undefined pointer arithmetic (lines 416
and 425).
