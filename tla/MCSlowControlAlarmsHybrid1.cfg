SPECIFICATION Spec
CONSTANTS
    Hybrids <- AroundThresholds
    Dewpoints <- NearZero
    NaN = NaN
    MaxMoves = 3
INVARIANTS Hybrid1Alarms
