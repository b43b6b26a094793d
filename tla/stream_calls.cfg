CONSTANTS
    FileEnd = 6
    Capacity = 3
    Min = 1
    ShortReads = FALSE
    ReadMayFail = TRUE
    Messages <- LongMessage
    Errors <- ParseErrors
    ErrorLimit = 2
    Transports <- AllTransports
    Datagram = 2
    LineLength = 1
    MaxLines = 2
    MaxEmpty = 1
    MaxLosses = 1
    MaxAttempts = 2
    Clients <- BothClients
    MaxRequests = 1
SPECIFICATION FairSpec
INVARIANTS
    RowsFollowTheStream
    EveryTaskIsHeld
PROPERTIES
    SentIsShown
    LoopReturns
    RequestsAnswered
CHECK_DEADLOCK FALSE
