CONSTANTS
  s1 = s1
  s2 = s2
  a = a
  b = b
  NoText = NoText
  NoEntry = NoEntry
  Sessions <- MCSessions
  Texts <- MCTexts
  Charted <- MCCharted
  Typed <- MCTyped
  Presets <- MCPresets
  MaxDefs = 2
  EditsMayMeet = FALSE
SPECIFICATION Spec
INVARIANTS UsageIsRows AskedIsEffective
PROPERTIES ChangesAreNoted
SYMMETRY Alike
CHECK_DEADLOCK FALSE
