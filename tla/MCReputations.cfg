SPECIFICATION Spec
CONSTANTS
  w1 = w1
  w2 = w2
  ip1 = ip1
  ip2 = ip2
  Workers = {w1, w2}
  Admin = Admin
  Keeper = Keeper
  Ips = {ip1, ip2}
  Shard <- MCShard
  Shards = 2
  Seconds = {10, 12, 15}
  Threshold = 2
  Window = 2
  Duration = 2
  MaxEntries = 1
  BansJson = BansJson
  Paths = {BansJson, None}
  Files <- MCFiles
  MaxCalls = 3
  None = None
SYMMETRY Symmetry
CHECK_DEADLOCK FALSE
INVARIANTS
  TypeOK
  NoWaitingCircle
PROPERTIES
  BanHolds
  BanDeserved
  BookKept
