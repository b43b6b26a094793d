CONSTANTS
  Absent = Absent
  Broken = Broken
  Faults <- MCFaults
  MaxChanges = 4
  MaxStarts = 3
SPECIFICATION StorageSpec
INVARIANTS NothingForgotten
PROPERTIES LoadedFirst ImportsOnce
CHECK_DEADLOCK FALSE
