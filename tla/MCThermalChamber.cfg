CONSTANTS
    Positions = {1, 2}
    MaxTravel = 1
    Reference = 0
    MaxCalls = 3
    MaxErrors = 2
    MaxFailures = 1
    MaxCuts = 1
SPECIFICATION FairSpec
INVARIANTS TypeOK MoveEndsAtRest OneAxisAtATime
PROPERTIES MethodEnds
CHECK_DEADLOCK FALSE
