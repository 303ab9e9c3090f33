SPECIFICATION FairSpec
CONSTANTS
  Caller = {c1, c2, c3}
  Other = {c3}
  Session = {s1, s2, s3}
  Socket = {k1, k2}
  MaxPerSocket = 2
  None = None
  MaxLoss = 1
  MaxError = 1
INVARIANTS TypeOK PoolAgrees  SessionShared
PROPERTIES WaiterAnswered
CHECK_DEADLOCK FALSE
