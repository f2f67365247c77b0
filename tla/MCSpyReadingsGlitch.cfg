CONSTANTS
    Channels = {2}
    Temps = {20, 24}
    BadReading = 85
    MaxGlitches = 2
    MaxFailures = 2
    Hybrids = {2}
    Direct = {100}
    Keithley = {}
    Levels <- MCLevels
    NotANumber <- MCNotANumber
    Unset <- MCUnset
SPECIFICATION SpySpec
INVARIANTS CachedGlitchFiltered
