SPECIFICATION Spec
CONSTANTS
    Values <- AskedValues
    Measured <- Nearby
    AtStart <- StartOff
    Garbage = Garbage
    MaxOnWay = 1
    MaxCuts = 1
    MaxPanel = 1
INVARIANTS TypeOK TargetsAsIntended NothingInvented
