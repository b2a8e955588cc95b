SPECIFICATION Spec
CONSTANTS
  admin = admin
  escalation = escalation
  Writers = {admin, escalation}
  Fields <- MCFields
  Values = {0, 1, 2}
  Defaults <- OneDefault
  Size <- MCSize
  Inodes = {1, 2, 3, 4}
  MaxStores = 4
  MaxCrashes = 2
  MaxFaults = 0
  None = None
  Torn = Torn
CHECK_DEADLOCK FALSE
PROPERTIES
  ChangesSurvive
