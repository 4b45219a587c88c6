\* Callbacks may dispose of the manager, but not register requests; timers and
\* the sweep are fair.
CONSTANTS
  Ids = {a, b}
  Tags = {t}
  NoTag = NoTag
  NoId = NoId
  Timeouts = {0, 1}
  MaxConcurrent = 2
  MaxHistory = 1
  MaxAge = 1
  CallbackOps <- NoCreate
  MaxGen = 2
  MaxTimers = 1
  MaxDepth = 4
  MaxTime = 2
SPECIFICATION FairSpec
INVARIANTS NoRunningRequestDropped
PROPERTY RequestsEnd
CHECK_DEADLOCK FALSE
