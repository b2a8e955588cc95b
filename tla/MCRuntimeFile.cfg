SPECIFICATION Spec
CONSTANTS
  admin = admin
  escalation = escalation
  Writers = {admin, escalation}
  Fields <- MCFields
  Values = {0, 1, 2}
  Defaults <- MCDefaults
  Size <- MCSize
  Inodes = {1, 2, 3, 4}
  MaxStores = 3
  MaxCrashes = 2
  MaxFaults = 1
  None = None
  Torn = Torn
CHECK_DEADLOCK FALSE
INVARIANTS
  TypeOK
  KeptSurvives
  CrashIsAtomic
  StaleWithin
