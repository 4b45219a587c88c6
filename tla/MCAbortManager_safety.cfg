\* Three ids and two slots; callbacks may call everything but dispose.
CONSTANTS
  Ids = {a, b, c}
  Tags = {t}
  NoTag = NoTag
  NoId = NoId
  Timeouts = {0, 1}
  MaxConcurrent = 2
  MaxHistory = 1
  MaxAge = 0
  CallbackOps <- NoDispose
  MaxGen = 3
  MaxTimers = 1
  MaxDepth = 3
  MaxTime = 1
SPECIFICATION Spec
SYMMETRY Symmetry
INVARIANTS RegistryExact AbortsComplete
PROPERTY AbortByTagEmptiesTag
CHECK_DEADLOCK FALSE
