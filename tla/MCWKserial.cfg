CONSTANTS
    Speeds = {0, 9600, 115200}
    TickMs = 10
    WriteInterval = 1
    ReadTimeout = 2
    Lengths = {1, 4}
    ReplyLen = 2
    Garbage = {0, 1, 2}
    MaxRequests = 2
SPECIFICATION FairSpec
INVARIANTS TypeOK ReadFindsBytes
PROPERTIES DeliversStream ReadReturns
