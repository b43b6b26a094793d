CONSTANTS
    Rows <- FourRows
    RangesLimit = 2
    IterationsLimit = 1
SPECIFICATION Spec
INVARIANTS
    AnswersAreRight
PROPERTIES
    IsTheTable
