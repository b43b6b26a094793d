CONSTANTS
    op1 = op1
    op2 = op2
    op3 = op3
    id1 = id1
    id3 = id3
    None = None
    Callers = {s}
    Requests <- AbortRequests
    Uuids <- AbortUuids
    IdOf <- AbortIdOf
    Kind <- AbortKind
    Target <- AbortTarget
SPECIFICATION FairSpec
PROPERTIES
    ServedUnlessStuck
    StopReturnsAlways
CHECK_DEADLOCK FALSE
