SPECIFICATION Spec
CONSTANTS
    Hybrids <- AroundThresholds
    Dewpoints <- NearZero
    NaN = NaN
    MaxMoves = 3
INVARIANTS TypeOK Hybrid2Alarms NoFalseAlarm LostServerAlarms
PROPERTIES UndefinedKeepsColours
