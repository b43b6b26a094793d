CONSTANTS
  TableKinds <- MCKinds
  Page = 2
  Marks <- MCMarks
  Capacity = 2
  MaxLen = 4
  MaxInputs = 3
SPECIFICATION TablesSpec
INVARIANTS
  RowsAreCurrent
PROPERTIES
  RowsLoad
CHECK_DEADLOCK FALSE
