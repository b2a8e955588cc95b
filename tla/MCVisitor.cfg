SPECIFICATION Spec
CONSTANTS
  Tabs = {t1, t2}
  Names = {n1}
  PositiveTtl = 2
  NegativeTtl = 2
  PendingTtl = 1
  MaxLookups = 2
  CheckTokenTtl = 0
  CheckTtl = 2
  PuzzleTtl = 1
  ClearTtl = 2
  Settings <- MCSettings
INVARIANTS
  TypeOK
  VerdictEarned
PROPERTIES
  EntryEarned
  GetsIn
CHECK_DEADLOCK FALSE
