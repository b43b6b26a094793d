CONSTANTS
  Observations <- MCObservations
  Selections <- MCSelections
  MaxOps = 2
SPECIFICATION FairSpec
INVARIANTS ExportIsSelection TempFilesHaveOneOwner
PROPERTIES NothingStaysBusy
CHECK_DEADLOCK FALSE
