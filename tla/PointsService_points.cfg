SPECIFICATION FairSpec
CONSTANTS
  Users = {u}
  ActivityTypes = {"LESSON_COMPLETE", "QUICK_RESPONSE"}
  Numbers = {10}
  Multipliers = {10}
  BatchSize = 2
  MaxRetries = 1
  Failures = TRUE
  NaN = NaN
  Failed = Failed
  NoAnswer = NoAnswer
  MaxRequests = 2
  MaxCalls = 3
  MaxReloads = 1
INVARIANTS PointsAreTrue
PROPERTY AwardsSettle
CHECK_DEADLOCK FALSE
