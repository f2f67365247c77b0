-------------------------- MODULE SpyReadingsProofs --------------------------
(***************************************************************************)
(* Proofs about the filtered readings of SpyReadings and the cache of      *)
(* TempInterlock under them, for any values of the sensors and of the      *)
(* instruments and any numbers of bad readings and lost answers.           *)
(***************************************************************************)
EXTENDS SpyReadings, TLAPS

-----------------------------------------------------------------------------
(* The inductive invariant.                                                *)

\* The vector is as old as the last update, if that one read its own answer.
CacheAge == updateFailed \/ dataAge = sinceUpdate

\* The request being handled is for a direct reading that was in range before
\* and really still is.
SteadyDirect == reading \in Direct /\ steady

\* Of such a reading the filter repeats only what is not the real value, so one
\* was bad when it reads again; no more were bad than were obtained.
BadFirst ==
    /\ pc = "first" => misreads = 0
    /\ pc = "second" => misreads <= 1 /\ (SteadyDirect => misreads = 1)
    /\ pc = "third" => misreads <= 2 /\ (SteadyDirect => misreads >= 1)
    /\ pc # "idle" /\ SteadyDirect => Near(prev[reading], level[reading])

ReadingsInv ==
    /\ SpyTypeOK
    /\ CacheAge
    /\ BadFirst
    /\ DirectGlitchFiltered

-----------------------------------------------------------------------------
(* Lemmas about the values and the cache.                                  *)

\* The beginning of a number is a number.
LEMMA ShortenedIsInt == ASSUME NEW t \in Int PROVE Shortened(t) \subseteq Int
<1> SUFFICES ASSUME NEW n \in {10, 100, 1000}
             PROVE  (IF t < 0 THEN -((-t) \div n) ELSE t \div n) \in Int
  BY DEF Shortened
<1>1. n \in Int /\ n > 0
  OBVIOUS
<1> QED
  BY <1>1

\* Readings are integers.
LEMMA IntegerValues ==
    /\ \A v \in Values : v \in Int
    /\ \A v \in Levels : v \in Int
<1>1. /\ \A v \in Temps \cup {BadReading} : v \in Int
      /\ \A v \in Levels : v \in Int
      /\ \A v \in Unset : v \in Int
      /\ NotANumber \in Int
  BY InterlockAssumption, ReadingsAssumption
<1>2. ErrorTemp \in Int
  BY SMT DEF ErrorTemp
<1>3. \A v \in Shown : v \in Int
  BY <1>1, ShortenedIsInt DEF Shown
<1> QED
  BY <1>1, <1>2, <1>3 DEF Values

\* The vector that the interlock answers, its beginnings, and the empty one.
LEMMA Vectors ==
    ASSUME TITypeOK, NEW own \in Measured
    PROVE  \A w \in {own, NoVector} \cup Beginnings(own) :
              /\ DOMAIN w \subseteq Channels
              /\ \A c \in DOMAIN w : w[c] \in Shown
<1>1. Temps \cup {BadReading} \subseteq Shown
      /\ \A t \in Temps \cup {BadReading} : Shortened(t) \subseteq Shown
  BY DEF Shown
<1>2. DOMAIN own = Channels /\ \A c \in Channels : own[c] \in Temps \cup {BadReading}
  BY DEF Measured, TITypeOK
<1>3. DOMAIN NoVector = {}
  BY DEF NoVector
<1>4. ASSUME NEW w \in Beginnings(own)
      PROVE  DOMAIN w \subseteq Channels /\ \A c \in DOMAIN w : w[c] \in Shown
  <2> DEFINE Before(c) == {d \in Channels : d < c}
  <2>1. PICK c \in Channels :
           \/ w = [d \in Before(c) |-> own[d]]
           \/ \E v \in Shortened(own[c]) :
                 w = [d \in Before(c) \cup {c} |-> IF d = c THEN v ELSE own[d]]
    BY <1>4 DEF Beginnings
  <2>2. Before(c) \cup {c} \subseteq Channels /\ Before(c) \subseteq Channels
    OBVIOUS
  <2>3. \A v \in Shortened(own[c]) : v \in Shown
    BY <1>1, <1>2
  <2> HIDE DEF Before
  <2> QED
    BY <1>1, <1>2, <2>1, <2>2, <2>3
<1> QED
  BY <1>1, <1>2, <1>3, <1>4

\* Ages stop at the limit.
LEMMA Ages ==
    ASSUME NEW age \in 0..Limit
    PROVE  Later(age) \in 0..Limit /\ 0 \in 0..Limit
  BY SMT DEF Later, Limit, KeepSeconds

\* getTemp keeps the types and the age, and changes no temperature.
LEMMA GetTempKeeps ==
    ASSUME TITypeOK, CacheAge, NEW c \in Channels, NEW v, GetTemp(c, v)
    PROVE  TITypeOK' /\ CacheAge' /\ UNCHANGED actual
<1>0. UNCHANGED actual
  BY DEF GetTemp
<1>1. CASE UNCHANGED <<cache, glitches, failures>>
  BY <1>0, <1>1 DEF cache, TITypeOK, CacheAge
<1>2. CASE UpdateTempVec /\ sinceUpdate' = 0
  <2> PICK own \in Measured :
         /\ glitches' = IF own = actual THEN glitches ELSE glitches + 1
         /\ glitches' <= MaxGlitches
         /\ ReadsOwn(own) \/ ReadsLate(own) \/ ReadsBeginning(own) \/ ReadsNothing(own)
    BY <1>2 DEF UpdateTempVec
  <2> DEFINE Typed(w) == DOMAIN w \subseteq Channels /\ \A d \in DOMAIN w : w[d] \in Shown
  <2> USE DEF ReadsOwn, ReadsLate, ReadsBeginning, ReadsNothing
  <2>1. /\ \A w \in late' \cup {lastTempVec'} : Typed(w)
        /\ \A w, x \in late' : w = x
    <3>1. \A w \in {lastTempVec, own, NoVector} \cup late \cup Beginnings(own) : Typed(w)
      BY Vectors DEF TITypeOK
    <3>2. lastTempVec' \in {lastTempVec, own, NoVector} \cup late \cup Beginnings(own)
      OBVIOUS
    <3>3. late' = {} \/ late' = {own} \/ late' = {NoVector}
      OBVIOUS
    <3> QED
      BY <3>1, <3>2, <3>3
  <2>2. glitches' \in 0..MaxGlitches /\ failures' \in 0..MaxFailures
    <3>1. glitches' \in {glitches, glitches + 1} /\ glitches' <= MaxGlitches
      OBVIOUS
    <3>2. failures' = failures \/ (failures < MaxFailures /\ failures' = failures + 1)
      OBVIOUS
    <3> QED
      BY <3>1, <3>2, InterlockAssumption DEF TITypeOK
  <2>3. updateFailed' \in BOOLEAN
    OBVIOUS
  <2>4. /\ dataAge' \in {0, dataAge, sinceUpdate}
        /\ updateFailed' = TRUE \/ dataAge' = 0
    OBVIOUS
  <2>5. sinceUpdate' \in 0..Limit /\ dataAge' \in 0..Limit
    BY <1>2, <2>4, Ages DEF TITypeOK
  <2> QED
    BY <1>0, <1>2, <2>1, <2>2, <2>3, <2>4, <2>5 DEF TITypeOK, CacheAge
<1> QED
  BY <1>1, <1>2 DEF GetTemp

\* So does a second that passes, but for the temperatures.
LEMMA SecondKeeps == TITypeOK /\ CacheAge /\ Second => TITypeOK' /\ CacheAge'
<1> SUFFICES ASSUME TITypeOK, CacheAge, Second
             PROVE  TITypeOK' /\ CacheAge'
  OBVIOUS
<1>1. actual' \in [Channels -> Temps]
  BY DEF Second, TITypeOK
<1>2. sinceUpdate' \in 0..Limit /\ dataAge' \in 0..Limit
  BY Ages DEF Second, TITypeOK
<1> QED
  BY <1>1, <1>2 DEF Second, TITypeOK, CacheAge

\* A reading keeps the types and the age; one that is queried is the real value
\* or a bad one.
LEMMA ObtainKeeps ==
    ASSUME ReadingsInv, NEW v \in Values, Obtain(reading, v)
    PROVE  TITypeOK' /\ CacheAge' /\ UNCHANGED actual
<1>0. TITypeOK /\ CacheAge /\ reading \in Readings
  BY DEF ReadingsInv, SpyTypeOK
<1>1. CASE reading \in Hybrids
  BY <1>0, <1>1, GetTempKeeps, ReadingsAssumption DEF Obtain
<1>2. CASE reading \notin Hybrids
  <2>1. UNCHANGED <<cache, actual, failures>> /\ glitches' \in 0..MaxGlitches
    BY <1>0, <1>2, InterlockAssumption DEF Obtain, TITypeOK
  <2> QED
    BY <1>0, <2>1 DEF cache, TITypeOK, CacheAge
<1> QED
  BY <1>1, <1>2

-----------------------------------------------------------------------------
(* The steps.                                                              *)

\* No request was made, and the cache was never filled.
LEMMA InitReadingsInv == SpyInit => ReadingsInv
<1> SUFFICES ASSUME SpyInit PROVE ReadingsInv
  OBVIOUS
<1>1. /\ DOMAIN lastTempVec = {} /\ sinceUpdate \in 0..Limit /\ dataAge \in 0..Limit
      /\ glitches \in 0..MaxGlitches /\ failures \in 0..MaxFailures
  <2>1. 0 \in 0..Limit /\ Limit \in 0..Limit
    BY SMT DEF Limit, KeepSeconds
  <2> QED
    BY <2>1, InterlockAssumption DEF SpyInit, TIInit, NoVector
<1>2. TITypeOK
  BY <1>1 DEF SpyInit, TIInit, TITypeOK
<1>3. Unset \subseteq Values
  BY DEF Values
<1>4. cur \in [Readings -> Values] /\ prev \in [Readings -> Values]
  BY <1>3 DEF SpyInit
<1>5. SpyTypeOK
  <2>1. pc = "idle" /\ misreads \in 0..3
    BY DEF SpyInit
  <2>2. steady \in BOOLEAN
    BY DEF SpyInit
  <2> QED
    BY <1>2, <1>4, <2>1, <2>2 DEF SpyInit, SpyTypeOK
<1> QED
  BY <1>5 DEF SpyInit, TIInit, ReadingsInv, CacheAge, BadFirst, DirectGlitchFiltered, Answered

\* A request starts with what was read last.
LEMMA RequestKeeps == ASSUME ReadingsInv, NEW r \in Readings, Request(r) PROVE ReadingsInv'
<1>0. SpyTypeOK /\ CacheAge
  BY DEF ReadingsInv
<1>1. SpyTypeOK' /\ CacheAge'
  <2>1. TITypeOK' /\ CacheAge'
    BY <1>0 DEF Request, tiVars, cache, SpyTypeOK, TITypeOK, CacheAge
  <2>2. prev' \in [Readings -> Values]
    BY <1>0 DEF Request, SpyTypeOK
  <2>3. steady' \in BOOLEAN
    BY DEF Request, Near
  <2> QED
    BY <1>0, <2>1, <2>2, <2>3 DEF Request, SpyTypeOK
<1>2. BadFirst'
  <2>1. pc' = "first" /\ misreads' = 0
    BY DEF Request
  <2>2. ASSUME SteadyDirect'
        PROVE  Near(prev[reading], level[reading])'
    <3>1. reading' = r /\ r \in Direct /\ r \notin Hybrids /\ prev'[r] = cur[r] /\ level' = level
      BY <1>0, <2>2, ReadingsAssumption DEF Request, SteadyDirect, SpyTypeOK
    <3>2. Near(cur[r], Real(r))
      BY <2>2 DEF Request, SteadyDirect
    <3> QED
      BY <3>1, <3>2 DEF Real
  <2> QED
    BY <2>1, <2>2 DEF BadFirst
<1>3. DirectGlitchFiltered'
  BY DEF Request, DirectGlitchFiltered, Answered
<1> QED
  BY <1>1, <1>2, <1>3 DEF ReadingsInv

\* What storing a reading does, with what was known of the previous one.
LEMMA StoreKeeps ==
    ASSUME ReadingsInv, NEW v \in Values, Obtain(reading, v), Store(v)
    PROVE  /\ TITypeOK' /\ CacheAge' /\ cur' \in [Readings -> Values] /\ cur'[reading] = v
           /\ UNCHANGED <<reading, prev, level, steady>>
           /\ SteadyDirect' <=> SteadyDirect
           /\ misreads \in Nat /\ misreads' \in {misreads, misreads + 1}
           /\ SteadyDirect => (misreads' = misreads <=> v = level[reading])
           /\ SteadyDirect => v \in Int /\ level[reading] \in Int /\ prev[reading] \in Int
<1>0. SpyTypeOK /\ reading \in Readings /\ misreads \in Nat
  BY DEF ReadingsInv, SpyTypeOK
<1>1. TITypeOK' /\ CacheAge'
  BY ObtainKeeps
<1>2. cur' \in [Readings -> Values] /\ cur'[reading] = v
  BY <1>0 DEF Store, SpyTypeOK
<1>3. UNCHANGED <<reading, prev, level, steady>> /\ (SteadyDirect' <=> SteadyDirect)
  BY DEF Store, SteadyDirect
<1>4. misreads' = IF v = Real(reading) THEN misreads ELSE misreads + 1
  BY DEF Store
<1>5. SteadyDirect => Real(reading) = level[reading]
  BY ReadingsAssumption DEF SteadyDirect, Real
<1>6. SteadyDirect => v \in Int /\ level[reading] \in Int /\ prev[reading] \in Int
  BY <1>0, IntegerValues DEF SteadyDirect, SpyTypeOK
<1> QED
  BY <1>0, <1>1, <1>2, <1>3, <1>4, <1>5, <1>6

\* A first reading is answered when it is near the previous one, so within two
\* ranges of the real value; the real value is never read again.
LEMMA FirstReadingKeeps == ReadingsInv /\ FirstReading => ReadingsInv'
<1> SUFFICES ASSUME ReadingsInv, FirstReading
             PROVE  ReadingsInv'
  OBVIOUS
<1> PICK v \in Values :
       /\ Obtain(reading, v) /\ Store(v)
       /\ pc' = IF Near(prev[reading], v) /\ Plausible(reading, v) THEN "idle" ELSE "second"
  BY DEF FirstReading
<1>0. /\ SpyTypeOK /\ BadFirst /\ pc = "first" /\ misreads = 0
      /\ pc' \in {"idle", "second"} /\ misreads' \in {0, 1}
  BY StoreKeeps DEF ReadingsInv, BadFirst, FirstReading
<1>1. SpyTypeOK' /\ CacheAge'
  BY <1>0, StoreKeeps DEF SpyTypeOK
<1>2. SteadyDirect => Near(prev[reading], level[reading])
  BY <1>0 DEF BadFirst
<1>3. SteadyDirect /\ pc' = "second" => misreads' = 1
  <2> SUFFICES ASSUME SteadyDirect, v = level[reading]
               PROVE  pc' = "idle"
    BY <1>0, StoreKeeps
  <2>1. Plausible(reading, v)
    BY <1>0, ReadingsAssumption DEF SteadyDirect, SpyTypeOK
  <2> QED
    BY <1>2, <2>1
<1>4. BadFirst'
  BY <1>0, <1>2, <1>3, StoreKeeps DEF BadFirst
<1>5. DirectGlitchFiltered'
  <2> SUFFICES ASSUME NEW r \in Direct, Answered(r)'
               PROVE  (Abs(cur[r] - level[r]) < 2 * Band)'
    BY DEF DirectGlitchFiltered
  <2>1. SteadyDirect /\ r = reading /\ pc' = "idle"
    BY StoreKeeps DEF Answered, SteadyDirect
  <2>2. Near(prev[r], v) /\ Near(prev[r], level[r])
    BY <1>2, <2>1
  <2>3. Abs(v - level[r]) < 2 * Band
    BY <2>1, <2>2, StoreKeeps, SMT DEF Near, Abs, Band
  <2> QED
    BY <2>1, <2>3, StoreKeeps
<1> QED
  BY <1>1, <1>4, <1>5 DEF ReadingsInv

\* A second reading is not judged.
LEMMA SecondReadingKeeps == ReadingsInv /\ SecondReading => ReadingsInv'
<1> SUFFICES ASSUME ReadingsInv, SecondReading
             PROVE  ReadingsInv'
  OBVIOUS
<1> PICK v \in Values : Obtain(reading, v) /\ Store(v)
  BY DEF SecondReading
<1>0. /\ SpyTypeOK /\ BadFirst /\ pc = "second" /\ misreads \in {0, 1}
      /\ pc' = "third" /\ misreads' \in {misreads, misreads + 1}
  BY StoreKeeps DEF ReadingsInv, BadFirst, SecondReading
<1>1. SpyTypeOK' /\ CacheAge'
  BY <1>0, StoreKeeps DEF SpyTypeOK
<1>2. BadFirst'
  BY <1>0, StoreKeeps DEF BadFirst
<1>3. DirectGlitchFiltered'
  BY <1>0 DEF DirectGlitchFiltered, Answered
<1> QED
  BY <1>1, <1>2, <1>3 DEF ReadingsInv

\* A third reading is the real value if only the first was bad.
LEMMA ThirdReadingKeeps == ReadingsInv /\ ThirdReading => ReadingsInv'
<1> SUFFICES ASSUME ReadingsInv, ThirdReading
             PROVE  ReadingsInv'
  OBVIOUS
<1> PICK v \in Values : Obtain(reading, v) /\ Store(v)
  BY DEF ThirdReading
<1>0. /\ SpyTypeOK /\ BadFirst /\ pc = "third" /\ misreads \in {0, 1, 2}
      /\ pc' = "idle" /\ misreads' \in {misreads, misreads + 1}
  BY StoreKeeps DEF ReadingsInv, BadFirst, ThirdReading
<1>1. SpyTypeOK' /\ CacheAge'
  BY <1>0, StoreKeeps DEF SpyTypeOK
<1>2. BadFirst'
  BY <1>0 DEF BadFirst
<1>3. DirectGlitchFiltered'
  <2> SUFFICES ASSUME NEW r \in Direct, Answered(r)', misreads' <= 1
               PROVE  (Abs(cur[r] - level[r]) < 2 * Band)'
    BY DEF DirectGlitchFiltered
  <2>1. SteadyDirect /\ r = reading
    BY StoreKeeps DEF Answered, SteadyDirect
  <2>2. misreads >= 1
    BY <1>0, <2>1 DEF BadFirst
  <2>3. v = level[r]
    BY <1>0, <2>1, <2>2, StoreKeeps
  <2>4. Abs(v - level[r]) < 2 * Band
    BY <2>1, <2>3, StoreKeeps, SMT DEF Abs, Band
  <2> QED
    BY <2>1, <2>4, StoreKeeps
<1> QED
  BY <1>1, <1>2, <1>3 DEF ReadingsInv

\* After some time nothing is known of what was answered.
LEMMA TimePassesKeeps == ReadingsInv /\ TimePasses => ReadingsInv'
<1> SUFFICES ASSUME ReadingsInv, TimePasses
             PROVE  ReadingsInv'
  OBVIOUS
<1>1. SpyTypeOK' /\ CacheAge'
  BY SecondKeeps DEF TimePasses, ReadingsInv, SpyTypeOK
<1>2. BadFirst' /\ DirectGlitchFiltered'
  BY DEF TimePasses, BadFirst, DirectGlitchFiltered, Answered
<1> QED
  BY <1>1, <1>2 DEF ReadingsInv

\* Every step keeps the invariant.
LEMMA NextReadingsInv == ReadingsInv /\ [SpyNext]_spyVars => ReadingsInv'
<1>1. ReadingsInv /\ UNCHANGED spyVars => ReadingsInv'
  BY DEF spyVars, tiVars, cache, ReadingsInv, SpyTypeOK, TITypeOK, CacheAge, BadFirst, SteadyDirect,
         DirectGlitchFiltered, Answered
<1> QED
  BY <1>1, RequestKeeps, FirstReadingKeeps, SecondReadingKeeps, ThirdReadingKeeps, TimePassesKeeps
  DEF SpyNext

\* The invariant holds in every behaviour.
LEMMA ReadingsInvHolds == SpySpec => []ReadingsInv
<1> QED
  BY InitReadingsInv, NextReadingsInv, PTL DEF SpySpec

-----------------------------------------------------------------------------
(* The theorems.                                                           *)

\* The cache and the members hold readings, and no more of them were bad in a
\* request than it obtained.
THEOREM TypeCorrect == SpySpec => []SpyTypeOK
<1>1. ReadingsInv => SpyTypeOK
  BY DEF ReadingsInv
<1> QED
  BY <1>1, ReadingsInvHolds, PTL

\* Temperatures are answered from a vector of the last five seconds unless the
\* last update did not read its own answer (compatible.cc:24-27).
THEOREM CacheIsFresh == SpySpec => []CacheExpires
<1>1. ReadingsInv => CacheExpires
  BY DEF ReadingsInv, CacheAge, CacheExpires
<1> QED
  BY <1>1, ReadingsInvHolds, PTL

\* One bad reading of an instrument that is asked each time moves the answer by
\* two ranges at most (serial_spyserv_DEV.C:391-410).
THEOREM SingleGlitchFiltered == SpySpec => []DirectGlitchFiltered
<1>1. ReadingsInv => DirectGlitchFiltered
  BY DEF ReadingsInv
<1> QED
  BY <1>1, ReadingsInvHolds, PTL
===============================================================================
