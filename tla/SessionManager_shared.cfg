SPECIFICATION FairSharedSpec
CONSTANTS
  Tabs = {t1, t2}
  Users = {u}
  NoUser = NoUser
  Nil = Nil
  MaxSessions = 1
  Timeout = 1
  RememberFor = 2
  RotationInterval = 1
  Ops = {"logout", "refresh", "check", "refuse"}
  Overlap = TRUE
  MaxSid = 1
  MaxReloads = 0
  MaxInbox = 2
  MaxTime = 2
PROPERTY LogoutPropagates
CHECK_DEADLOCK FALSE
