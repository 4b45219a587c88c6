CONSTANTS
  Calls = {c1, c2}
  FreezesPerMonth = 2
  RequiredStreak = 2
  LastDay = 4
  StreakDays = 6
  None = None
  Requests = {r1, r2}
  Goal = 3
  MaxSets = 2
  No = No
  Asks = {a1, a2}
  MaxData = 2
  MaxAsked = 2
  Nothing = Nothing
  Updates = {u1, u2}
  Reader = rd
  MaxBackups = 2
  MaxEvents = 2
  Words = {w1, w2}
  MaxChanges = 4
  Lessons = 2
  CacheSize = 2
  Enough = 2
  Achievements = {h1, h2}
  Target = 3
  HistoryKept = 2
  MaxUpdates = 5
  Missing = Missing
  MinHours = 1
  Intervals = {0, 2}
  MaxHours = 3
  MaxReviews = 6
  Never = Never
  Increments = {i1, i2}
  MaxCompleted = 4
  NoSnapshot = NoSnapshot
  Types = {y1, y2}
  MaxSize = 3
  Unsaved = Unsaved
  ScreenLoads = {l1, l2}
  Filters = {"all", "locked"}
  Gone = Gone
  Streaks = {1, 2}
  MaxCommands = 2
  BadgeA = ba
  BadgeB = bb
  BadgeRenders = {p1}
  HomeLoads = {d1, d2}
  MaxDue = 2
  NoHome = NoHome
  Texts = {t1, t2, bad}
  WrongTexts = {bad}
  NoText = NoText
SPECIFICATION Spec
CHECK_DEADLOCK FALSE
INVARIANTS TypeOK StreaksAreEarned CompletionsAreKept StatsAreAccounted StatsMatchProgress UpdatesAreKept ScreensFollowTheirData
