CONSTANTS
    FileEnd <- MixedEnd
    Capacity = 3
    Min = 2
    ShortReads = FALSE
    ReadMayFail = TRUE
    Messages <- MixedFile
    Errors <- AnyError
    ErrorLimit = 0
    WholeWrites = TRUE
    TrackMayFail = TRUE
SPECIFICATION FairSpec
INVARIANTS
    NoMessageSkipped
    RowsFollowTheFile
PROPERTIES
    GrowthIsShown
    CancelReturns
CHECK_DEADLOCK FALSE
