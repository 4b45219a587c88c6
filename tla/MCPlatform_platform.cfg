CONSTANTS
  Keys = {k1}
  CacheKeys = {k1, k2}
  CacheCalls = {c1, c2}
  LowCalls = {c1}
  CacheLimit = 1
  Queued = {q1, q2}
  ReconnectAttempts = 2
  MaxChains = 2
  Paths = {x1, x2}
  Navigations = {n1, n2}
  MaxNavigation = 2
  MaxAborts = 1
  MaxHistory = 2
  MaxMisses = 3
  Actions = {a1, a2}
  Kept = 1
  Stores = {"lessons", "vocabulary", "settings"}
  Unsaved_stores = {"settings"}
  Flows = {f1, f2, f3}
  Limit = 1
  Retries = 1
  Threshold = 2
  Operations = {o1, o2, o3}
  MaxOperations = 1
  RetryCount = 1
  TimeoutTicks = 2
  Starts = {s1, s2, s3}
  MaxTries = 2
  MaxAttempts = 2
  Watched = {w1, w2}
  Repairless = {w2}
  MaxRetries = 1
  MaxRepairs = 2
  PoolSize = 2
  MaxFailures = 2
  Values = {v1}
  Connects = {p1, p2}
  MaxSize = 1
  MaxRetry = 1
  StepCount = 2
  Migrations = {"m1", "m2"}
  MaxRollbacks = 1
  MaxGuarded = 1
  Users = {1, 2}
  LessonRows = {1, 2, 3, 4}
  BatchSize = 2
  MaxRuns = 2
  Nothing = Nothing
SPECIFICATION Spec
CHECK_DEADLOCK FALSE
INVARIANTS CachesAreAccounted RequestsAreKept NavigationExplainsState PlacesAreKept ConnectionsAreTended MigrationsAreAccounted
