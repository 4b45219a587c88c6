SPECIFICATION FairSpec
CONSTANTS
  Requests = {r1, r2, r3}
  NoConnection = NoConnection
  Shutdowns = {s1, s2}
  MaxConnections = 1
  MaxAttempts = 2
INVARIANTS PoolIsSound
PROPERTIES AcquireSettles PromiseSpec
CHECK_DEADLOCK FALSE
