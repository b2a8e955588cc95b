SPECIFICATION Spec
CONSTANTS
  t1 = t1
  t2 = t2
  r1 = r1
  r2 = r2
  Threads = {t1, t2}
  Ips = {ip1}
  Routes = {r1, r2}
  Ids = {1, 2, 3, 4, 5}
  Seconds <- MCSeconds
  Scales = {5000}
  Rpm <- MCRpm
  Burst <- MCBurst
  MaxEntries = 0
  MaxAge = 120
  U32Max = 1048575
  MaxRequests = 3
  Global = Global
  NoRoute = NoRoute
  None = None
SYMMETRY Symmetry
CHECK_DEADLOCK FALSE
INVARIANTS
  TypeOK
  WindowExact
  ForgottenIsCold
  TableBounded
PROPERTIES
  NoFalseLimit
  VerdictExact
