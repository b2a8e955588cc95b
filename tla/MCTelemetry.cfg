SPECIFICATION Spec
CONSTANTS
  None = None
  Workers = {w1, w2}
  Ids = {i1, i2, i3}
  Cap = 2
  Batch = 2
  MaxQueue = 0
  FlushBatch = 2
  Retention = 0
  MaxTime = 2
INVARIANTS
  TypeOK
  StreamExact
PROPERTIES
  KeepsPromise
  CatchesUp
CHECK_DEADLOCK FALSE
