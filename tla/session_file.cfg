CONSTANTS
  a = a
  b = b
  Sources <- MCSources
  Observed = Observed
  NoSource = NoSource
  Texts <- WholeLines
  Origins <- BothOrigins
  MaxRanges = 2
  QueueSize = 1
  MaxBytes = 5
SPECIFICATION Spec
INVARIANTS EntriesAreRows SourcesAreRight FoundAreMatches NothingUnannounced
SYMMETRY Alike
CHECK_DEADLOCK FALSE
