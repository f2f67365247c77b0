CONSTANTS
    Speeds = {0, 9600, 115200}
    TickMs = 5
    WriteInterval = 1
    ReadTimeout = 6
    Lengths = {3}
    ReplyLen = 3
    Garbage = {0, 1}
    MaxRequests = 2
    FirstByte = 5
    Gap = 1
SPECIFICATION TLFairSpec
INVARIANTS TLTypeOK OwnAnswer
PROPERTIES AnswersQueries
