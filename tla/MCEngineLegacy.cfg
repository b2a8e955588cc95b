SPECIFICATION Spec
CONSTANTS
  guest = guest
  friend = friend
  foe = foe
  w1 = w1
  w2 = w2
  Workers = {w1}
  Ips = {guest, friend, foe}
  CfgAllow = {friend}
  CfgDeny = {foe}
  Requests <- MCRequests
  Detectors <- Two
  SpoofScore = 60
  Starts <- LegacyStart
  UamLevels = {0, 1, 2, 4}
  Lines = {0, 60, 120}
  Caps = {0, 22}
  Scales = {6000}
  MaxChanges = 0
  MaxRequests = 1
  MaxEvents = 1
CHECK_DEADLOCK FALSE
INVARIANTS
  LegacyKeepsItsScale
