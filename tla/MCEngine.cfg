SPECIFICATION Spec
CONSTANTS
  guest = guest
  friend = friend
  foe = foe
  w1 = w1
  w2 = w2
  Workers = {w1, w2}
  Ips = {guest, friend, foe}
  CfgAllow = {friend}
  CfgDeny = {foe}
  Requests <- MCRequests
  Detectors <- Two
  SpoofScore = 60
  Starts <- MCStarts
  UamLevels = {0, 1, 4}
  Lines = {0, 60}
  Caps = {22}
  Scales = {6000}
  MaxChanges = 2
  MaxRequests = 2
  MaxEvents = 3
SYMMETRY Symmetry
CHECK_DEADLOCK FALSE
INVARIANTS
  TypeOK
  AllowListWins
  SevereNeverPasses
  DenyHolds
  UnderAttackChallenges
  HarmlessServed
PROPERTIES
  BansAreEarned
