SPECIFICATION Spec
CONSTANTS
  Tabs = {t1}
  Users = {u, v}
  NoUser = NoUser
  Nil = Nil
  MaxSessions = 2
  Timeout = 1
  RememberFor = 2
  RotationInterval = 1
  Ops <- AllOps
  Overlap = FALSE
  MaxSid = 3
  MaxReloads = 2
  MaxInbox = 1
  MaxTime = 2
INVARIANTS SessionsAreTrue
PROPERTY RestoresOnlyLive
CHECK_DEADLOCK FALSE
