SPECIFICATION Spec
CONSTANTS
  Tabs = {t1, t2}
  Users = {u, v}
  NoUser = NoUser
  Nil = Nil
  MaxSessions = 1
  Timeout = 1
  RememberFor = 2
  RotationInterval = 1
  Ops = {"login", "logout", "logoutAll", "refuse"}
  Overlap = TRUE
  MaxSid = 2
  MaxReloads = 0
  MaxInbox = 1
  MaxTime = 0
INVARIANT StoreIsTrue
CHECK_DEADLOCK FALSE
