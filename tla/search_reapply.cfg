CONSTANTS
    s1 = s1
    s2 = s2
    d1 = d1
    None = None
    Requests <- ReapplyRequests
    Script <- ReapplyScript
    Target <- ReapplyTarget
    Plans <- SearchPlans
    MaxRows = 2
    Capacity = 2
    Attempts = 2
SPECIFICATION Spec
INVARIANTS
    HolderHasOneOwner
    IndexFollowsMap
    NoRowTwice
PROPERTIES
    RegularHandover
    CommandsEnd
CHECK_DEADLOCK FALSE
