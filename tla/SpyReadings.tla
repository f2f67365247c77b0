----------------------------- MODULE SpyReadings -----------------------------
(***************************************************************************)
(* The Get_ requests of the slow control server whose reading is compared  *)
(* with the one before it (serial_spyserv_DEV.C:317-461): a reading in the *)
(* range of the previous one is accepted, else the instrument is "rather   *)
(* read twice more" and the last reading is answered.  The two hybrid      *)
(* temperatures come out of the interlock's five second cache; the chiller *)
(* and Keithley readings are a query of the instrument each time.          *)
(***************************************************************************)
EXTENDS TempInterlock

CONSTANTS
    Hybrids,        \* the readings behind the cache; each is its channel
    Direct,         \* the readings that are queried each time
    Keithley,       \* those of them that are queried of the Keithley
    Levels,         \* values a direct reading may really have
    NotANumber,     \* the answer of a direct reading that failed
    Unset           \* what the members that hold readings may hold at first

Readings == Hybrids \cup Direct

VARIABLES
    pc,         \* "idle", or which of the three readings comes next
    reading,    \* the reading asked for
    cur,        \* the members hybrid1temp, hv_voltage...: they outlive requests
    prev,       \* the members prev_...
    level,      \* the real values behind the direct readings
    steady,     \* history: at the request, cur was near the real value
    misreads    \* history: bad readings obtained since the request

spyVars == <<tiVars, pc, reading, cur, prev, level, steady, misreads>>

Abs(v) == IF v < 0 THEN -v ELSE v

\* "in similar range"
Band == 10
Near(a, b) == Abs(a - b) < Band

\* Above -50 for a hybrid, below 10e4 in magnitude for the Keithley; of the
\* chiller anything is.
Plausible(r, v) == (r \in Hybrids => v > -50) /\ (r \in Keithley => Abs(v) < 100000)

Real(r) == IF r \in Hybrids THEN actual[r] ELSE level[r]

\* The filter takes what an instrument may really show for plausible.
ASSUME ReadingsAssumption ==
    /\ Hybrids \subseteq Channels /\ Hybrids \cap Direct = {} /\ Keithley \subseteq Direct
    /\ Levels \subseteq Int /\ Unset \subseteq Int /\ NotANumber \in Int
    /\ \A r \in Direct, v \in Levels : Plausible(r, v)

Values == Shown \cup Levels \cup Unset \cup {NotANumber, ErrorTemp}

SpyTypeOK ==
    /\ TITypeOK
    /\ pc \in {"idle", "first", "second", "third"}
    /\ reading \in Readings
    /\ cur \in [Readings -> Values]
    /\ prev \in [Readings -> Values]
    /\ level \in [Direct -> Levels]
    /\ steady \in BOOLEAN
    /\ misreads \in 0..3

SpyInit ==
    /\ TIInit
    /\ pc = "idle"
    /\ reading \in Readings
    /\ cur \in [Readings -> Unset]
    /\ prev = cur
    /\ level \in [Direct -> Levels]
    /\ steady = FALSE
    /\ misreads = 0

\* One call of getTemp, or of the instrument's get method: it returns v, which
\* may be bad, a failure, or the answer to an earlier query.
Obtain(r, v) ==
    IF r \in Hybrids
    THEN GetTemp(r, v)
    ELSE /\ \/ v = level[r] /\ UNCHANGED glitches
            \/ /\ v \in Levels \cup {BadReading, NotANumber}
               /\ glitches < MaxGlitches
               /\ glitches' = glitches + 1
         /\ UNCHANGED <<cache, actual, failures>>

Request(r) ==
    /\ pc = "idle"
    /\ pc' = "first"
    /\ reading' = r
    /\ prev' = [prev EXCEPT ![r] = cur[r]]
    /\ steady' = Near(cur[r], Real(r))
    /\ misreads' = 0
    /\ UNCHANGED <<tiVars, cur, level>>

\* The reading is stored in the member, and judged the first time.
Store(v) ==
    /\ cur' = [cur EXCEPT ![reading] = v]
    /\ misreads' = IF v = Real(reading) THEN misreads ELSE misreads + 1
    /\ UNCHANGED <<reading, prev, level, steady>>

\* A slip for comparison: the reading is not compared with the previous one.
FirstReadingUnfiltered ==
    /\ pc = "first"
    /\ \E v \in Values :
          /\ Obtain(reading, v)
          /\ Store(v)
          /\ pc' = IF Plausible(reading, v) THEN "idle" ELSE "second"

FirstReading ==
    /\ pc = "first"
    /\ \E v \in Values :
          /\ Obtain(reading, v)
          /\ Store(v)
          /\ pc' = IF Near(prev[reading], v) /\ Plausible(reading, v)
                   THEN "idle" ELSE "second"

SecondReading ==
    /\ pc = "second"
    /\ \E v \in Values : Obtain(reading, v) /\ Store(v)
    /\ pc' = "third"

\* The third reading is answered unseen.
ThirdReading ==
    /\ pc = "third"
    /\ \E v \in Values : Obtain(reading, v) /\ Store(v)
    /\ pc' = "idle"

\* Time passes between requests; the readings of one request take less than
\* the resolution of time(0).
TimePasses ==
    /\ pc = "idle"
    /\ Second
    /\ level' \in [Direct -> Levels]
    /\ steady' = FALSE
    /\ UNCHANGED <<pc, reading, cur, prev, misreads>>

SpyNext == \/ \E r \in Readings : Request(r)
           \/ FirstReading \/ SecondReading \/ ThirdReading
           \/ TimePasses

SpySpec == SpyInit /\ [][SpyNext]_spyVars

-----------------------------------------------------------------------------
(* Properties.                                                             *)

Answered(r) == pc = "idle" /\ reading = r /\ steady

\* The vector that temperatures are answered from is older than five seconds
\* at the time of a request only if the last update did not read its own answer:
\* the requests themselves do not prolong its life (compatible.cc:24-27).
CacheExpires ==
    pc # "idle" /\ reading \in Hybrids /\ sinceUpdate <= KeepSeconds =>
        dataAge <= KeepSeconds \/ updateFailed

\* A reading that was in range before and really still is, is answered although
\* one of the readings of the request was bad, if each reading asks the
\* instrument; a bad one that is in the range of the previous one passes, so the
\* answer may be off by two ranges (serial_spyserv_DEV.C:391-410).
DirectGlitchFiltered ==
    \A r \in Direct :
        Answered(r) /\ misreads <= 1 => Abs(cur[r] - level[r]) < 2 * Band

\* "prev reading quite different - rather read twice more... bit dumb, but so
\* far only seen single bad readings" (serial_spyserv_DEV.C:326, 343): one bad
\* reading of the sensor is not what the client is told.
CachedGlitchFiltered ==
    \A r \in Hybrids :
        Answered(r) /\ glitches <= 1 /\ failures = 0 => Near(cur[r], actual[r])
=============================================================================
