SPECIFICATION UamSpec
CONSTANTS
  Period = 5
  Cooldown = 30
  Jumps <- MCJumps
  Thresholds = {0, 2, 8}
  Bursts = {5, 9}
  Delays = {0, 5}
  MaxFresh = 10
INVARIANTS
  UamTypeOK
PROPERTIES
  MovesWithLoad
  Follows
CHECK_DEADLOCK FALSE
