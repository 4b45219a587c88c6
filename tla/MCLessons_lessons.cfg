CONSTANTS
  None = None
  Lessons = {l1}
  Calls = {c1, c2}
  MaxReviews = 2
  CardA = ca
  CardB = cb
  BatchSize = 1
  MaxTime = 2
  MaxRep = 1
  Rows = {r1, r2}
  Asks = {a1, a2}
  MaxCount = 1
  Services = {s1, s2}
  Reviews = {q1, q2}
  MaxVersion = 2
  Trackers = {t1, t2}
  Objects = {o1, o2}
  MaxToday = 1
  MaxStreak = 2
  LastDay = 8
  HistoryLimit = 2
  LessonCalls = {k1, k2}
  SrsCards = {c1, c2}
  Algorithms = {"sm2", "anki", "fsrs"}
  MaxInterval = 40
  CacheSize = 2
  MaxCalls = 4
SPECIFICATION Spec
SYMMETRY Symmetry
CHECK_DEADLOCK FALSE
INVARIANTS TypeOK LessonsAreKept ReviewsAreListed CachesAgree RewardedOnce CardsAreSound
PROPERTY SuccessNeverShortens
