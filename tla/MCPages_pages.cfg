CONSTANTS
  Emails = {e1}
  Protected = {e1}
  Accounts = {e1}
  None = None
  LoginAttempts = 2
  MaxDrafts = 2
  MaxMinutes = 1
  Calls = {c1, c2}
  MaxToken = 2
  Values = {good, short, taken}
  SyncBad = {short}
  AsyncBad = {taken}
  MaxRuns = 2
  MaxShakes = 2
  Percents = {0, 1, 2}
  FullPercent = 2
  Listened = {"update", "complete", "reset"}
  No = No
  Words = {w1}
  Files = {f1}
  Players = {p1, p2}
  MaxQueue = 2
  WordA = wa
  WordB = wb
  WordC = wc
  MaxCount = 2
  OptionCount = 2
  MaxTries = 2
  Letters = {"x", "y"}
  MaxMeasured = 1
  CardAttempts = 3
  Loads = {l1, l2}
  Answers = {a1, a2}
  Cards = 2
  MaxSessions = 2
SPECIFICATION Spec
CHECK_DEADLOCK FALSE
INVARIANTS TypeOK EntersOnce ControlsSettle QueueIsServed ExercisesAreBounded
PROPERTY CallsSettle
