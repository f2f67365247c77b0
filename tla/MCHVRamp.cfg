CONSTANTS
    Targets <- MCTargets
    MinVoltage <- MCMinVoltage
    MaxVoltage = 5
    Starts <- MCStarts
    Clips <- MCClips
    Noise = 1
    SourceRange = 11000
    Stale <- MCStale
    MaxFailures = 1
    MaxRequests = 2
SPECIFICATION FairSpec
INVARIANTS TypeOK BoundedExcursion ZeroMeansSet
PROPERTIES Gradual RampEnds
CHECK_DEADLOCK FALSE
