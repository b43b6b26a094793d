CONSTANTS
  MaxOps = 2
  FirstRows = 3
  MaxRows = 4
  MaxTries = 2
  MaxAsides = 1
  MaxRequests = 1
  Matching <- MCMatching
  Hits <- MCHits
  Markable <- MCMarkable
SPECIFICATION ViewSpec
INVARIANTS
  ViewFollowsCore NestedIsCurrent NestedFindsNearest
CHECK_DEADLOCK FALSE
