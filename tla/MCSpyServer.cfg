SPECIFICATION FairSpec
CONSTANTS
    Connections = {k1, k2}
    Channels = {1, 2}
    LimitValues = {3, 5}
    Draw <- MCDraw
    BadReadings = {500, 7000}
    Implausible = {7000}
    Unset = {0}
    None = None
    Asked <- MCAsked
    MaxFaults = 2
INVARIANTS TypeOK
PROPERTIES ServesRequests EveryRequestEnds GoneForgotten SameCurrentFiltered
