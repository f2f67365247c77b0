CONSTANTS
    Channels = {2}
    Temps = {20, 24}
    BadReading <- MCNearBad
    MaxGlitches = 2
    MaxFailures = 2
    Hybrids = {2}
    Direct = {100}
    Keithley = {100}
    Levels <- MCLevels
    NotANumber <- MCNotANumber
    Unset <- MCUnset
SPECIFICATION SpySpec
INVARIANTS SpyTypeOK CacheExpires DirectGlitchFiltered
