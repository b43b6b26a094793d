CONSTANTS
    op1 = op1
    op2 = op2
    op3 = op3
    id1 = id1
    id3 = id3
    None = None
    Callers = {s}
    Requests <- CancelRequests
    Uuids <- CancelUuids
    IdOf <- CancelIdOf
    Kind <- CancelKind
    Target <- CancelTarget
SPECIFICATION Spec
INVARIANTS
    RunningIsTracked
    CancelAnswerIsFinal
    GracefulStopReachesAll
    StopMeansStopped
CHECK_DEADLOCK FALSE
