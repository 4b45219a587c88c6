SPECIFICATION Spec
CONSTANTS
  Users = {u}
  ActivityTypes = {"LESSON_COMPLETE"}
  Numbers = {10}
  Multipliers = {10}
  BatchSize = 2
  MaxRetries = 1
  Failures = FALSE
  NaN = NaN
  Failed = Failed
  NoAnswer = NoAnswer
  MaxRequests = 2
  MaxCalls = 3
  MaxReloads = 0
INVARIANT AwardedOnce
CHECK_DEADLOCK FALSE
