----------------------------- MODULE Statistics -----------------------------
(***************************************************************************)
(* What is counted of answers, lessons and words, by four parts of the     *)
(* code that each keep their own counters.                                 *)
(***************************************************************************)
EXTENDS FiniteSets, Integers, SequencesExt, FiniteSetsExt, Sequences

-----------------------------------------------------------------------------
(***************************************************************************)
(* features/stats/stats_service.js: the statistics of a user, computed     *)
(* from data that is fetched, or read from the offline copy, kept in a     *)
(* cache whose key has the options but not the state of the network, and   *)
(* the metrics of the service.  The gateway, the offline copy, the cache,  *)
(* the workers, which fall back to the page, and WebAssembly are external. *)
(***************************************************************************)

CONSTANTS Asks,        \* calls of get_user_stats in flight
          MaxData,     \* bound: versions of the data of the user
          MaxAsked,    \* bound: calls counted by the metrics
          Nothing

VARIABLES data,        \* gateway: version of the data
          onLine,      \* navigator.onLine
          offline_copy, \* version of the offline copy, or Nothing
          stats_cache, \* [of, offline], or Nothing
          ask,         \* calls: [at, of, offline, since, forced]
          metrics,     \* [hits, misses, done, failed]
          wasm_loaded, \* WebAssembly is there
          \* a call ended with UNKNOWN_TASK
          answered     \* the last answer: [of, offline, since, forced], or Nothing

service_vars == <<data, onLine, offline_copy, stats_cache, ask, metrics, wasm_loaded, answered>>

ServiceIdle == [at |-> "none", of |-> 0, offline |-> FALSE, since |-> 0, forced |-> FALSE]

(* constructor: WebAssembly is loaded behind it. *)
ServiceInit ==
  /\ data = 0 /\ onLine = TRUE /\ offline_copy = Nothing /\ stats_cache = Nothing
  /\ ask = [a \in Asks |-> ServiceIdle]
  /\ metrics = [hits |-> 0, misses |-> 0, done |-> 0, failed |-> 0]
  /\ wasm_loaded = FALSE
  /\ answered = Nothing

Rest == <<data, onLine, wasm_loaded>>

InitWebAssembly ==
  /\ ~wasm_loaded /\ wasm_loaded' = TRUE
  /\ UNCHANGED <<data, onLine, offline_copy, stats_cache, ask, metrics, answered>>

DataChanges ==
  /\ data < MaxData /\ data' = data + 1
  /\ UNCHANGED <<onLine, offline_copy, stats_cache, ask, metrics, wasm_loaded, answered>>

NetworkChanges ==
  /\ onLine' = ~onLine
  /\ UNCHANGED <<data, offline_copy, stats_cache, ask, metrics, wasm_loaded, answered>>

-----------------------------------------------------------------------------
Begun(a, forced) ==
  /\ ask[a] = ServiceIdle /\ metrics.hits + metrics.misses < MaxAsked

(* get_user_stats: a cached answer, unless a fresh one is forced *)
CacheAnswers(a, forced) ==
  /\ Begun(a, forced) /\ ~forced /\ stats_cache # Nothing
  /\ metrics' = [metrics EXCEPT !.hits = @ + 1]
  /\ answered' = [of |-> stats_cache.of, offline |-> stats_cache.offline,
                  since |-> data, forced |-> forced]
  /\ UNCHANGED <<Rest, offline_copy, stats_cache, ask>>

(* get_user_stats: the network is asked now, and never again. *)
GetUserStats(a, forced) ==
  /\ Begun(a, forced) /\ (forced \/ stats_cache = Nothing)
  /\ metrics' = [metrics EXCEPT !.misses = @ + 1]
  /\ ask' = [ask EXCEPT ![a] = [at |-> IF onLine THEN "fetch" ELSE "offline",
       of |-> 0, offline |-> ~onLine, since |-> data, forced |-> forced]]
  /\ UNCHANGED <<Rest, offline_copy, stats_cache, answered>>

(* #fetch_user_data *)
Fetched(a) ==
  /\ ask[a].at = "fetch"
  /\ ask' = [ask EXCEPT ![a].at = "save", ![a].of = data]
  /\ UNCHANGED <<Rest, offline_copy, stats_cache, metrics, answered>>

(* save_offline_data *)
SavedOffline(a) ==
  /\ ask[a].at = "save"
  /\ offline_copy' = ask[a].of
  /\ ask' = [ask EXCEPT ![a].at = "compute"]
  /\ UNCHANGED <<Rest, stats_cache, metrics, answered>>

(* Mutant: offline, what was never saved is taken for a copy. *)
M_ReadOffline(a) ==
  /\ ask[a].at = "offline"
  /\ ask' = [ask EXCEPT ![a].at = "compute", ![a].of = offline_copy]
  /\ UNCHANGED <<Rest, offline_copy, stats_cache, metrics, answered>>

(* get_offline_data; without a copy the data is undefined and its first use *)
(* throws.                                                                 *)
ReadOffline(a) ==
  /\ ask[a].at = "offline" /\ offline_copy # Nothing
  /\ ask' = [ask EXCEPT ![a].at = "compute", ![a].of = offline_copy]
  /\ UNCHANGED <<Rest, offline_copy, stats_cache, metrics, answered>>

(* The answer is frozen, cached, counted and given: #update_metrics,       *)
(* stats:calculated.                                                       *)
Calculated(a) ==
  /\ ask[a].at = "compute" /\ wasm_loaded
  /\ stats_cache' = [of |-> ask[a].of, offline |-> ask[a].offline]
  /\ answered' = [of |-> ask[a].of, offline |-> ask[a].offline,
                  since |-> ask[a].since, forced |-> ask[a].forced]
  /\ metrics' = [metrics EXCEPT !.done = @ + 1]
  /\ ask' = [ask EXCEPT ![a] = ServiceIdle]
  /\ UNCHANGED <<Rest, offline_copy>>

(* Any step that fails ends the call with a StatsError; so does offline    *)
(* data of which there is no copy, and a calculation while WebAssembly is  *)
(* not there: #run_local does not know the advanced metrics.               *)
Failed(a) ==
  /\ ask[a].at \in {"fetch", "offline", "save", "compute"}
  /\ ask' = [ask EXCEPT ![a] = ServiceIdle]
  /\ metrics' = [metrics EXCEPT !.failed = @ + 1]
  /\ UNCHANGED <<Rest, offline_copy, stats_cache, answered>>

(* clear_cache, or the time of an entry is over *)
ServiceClearCache ==
  /\ stats_cache # Nothing /\ stats_cache' = Nothing
  /\ UNCHANGED <<Rest, offline_copy, ask, metrics, answered>>

ServiceNext ==
  \/ InitWebAssembly \/ DataChanges \/ NetworkChanges \/ ServiceClearCache
  \/ \E a \in Asks : \/ \E f \in BOOLEAN : CacheAnswers(a, f) \/ GetUserStats(a, f)
                     \/ Fetched(a) \/ SavedOffline(a) \/ ReadOffline(a)
                     \/ Calculated(a) \/ Failed(a)

ServiceSpec == ServiceInit /\ [][ServiceNext]_service_vars

-----------------------------------------------------------------------------
Versions == 0..MaxData

ServiceTypeOK ==
  /\ data \in Versions /\ offline_copy \in Versions \cup {Nothing}
  /\ onLine \in BOOLEAN /\ wasm_loaded \in BOOLEAN
  /\ stats_cache \in [of : Versions, offline : BOOLEAN] \cup {Nothing}
  /\ \A a \in Asks : ask[a].at \in {"none", "fetch", "offline", "save", "compute"}

(* Every call that missed the cache is under way, was calculated or        *)
(* failed; a forced answer from the network is no older than its question, *)
(* and an answer from the offline copy had a copy to come from.            *)
StatsAreAccounted ==
  /\ metrics.misses = metrics.done + metrics.failed
                        + Cardinality({a \in Asks : ask[a] # ServiceIdle})
  /\ answered # Nothing =>
       /\ answered.forced /\ ~answered.offline => answered.of >= answered.since
       /\ answered.offline => offline_copy # Nothing

-----------------------------------------------------------------------------
(***************************************************************************)
(* features/stats/stats_calculator.js: the statistics of a learner's       *)
(* progress and the cache of the calculator, whose key is the user and the *)
(* time of the last change.  Days are numbers, an exercise is its word,    *)
(* which stands for the lesson too, and whether it was answered right.     *)
(* Times of answers, hours of study and random numbers are left out.       *)
(***************************************************************************)

CONSTANTS Words, MaxChanges, \* bound: changes of the progress
          Lessons,      \* lessons of the progress, a number
          LastDay,      \* bound: days that pass
          CacheSize,    \* cache_config.max_size, 100 in the code
          Enough        \* exercises a retention rate needs, 5 in the code

VARIABLES day, sessions,  \* today, and the days of the study sessions
          exercises,      \* sequence of [word, correct]
          completed,      \* lessons that are completed
          last_updated,   \* changes of the progress
          calculated,     \* cache: sequence of [key, stats], the least used first
          announced_stats \* the events of the last calculation

progress == <<sessions, exercises, completed>>
calculator_vars == <<day, progress, last_updated, calculated, announced_stats>>

CalculatorInit ==
  /\ day = 0 /\ sessions = {} /\ exercises = <<>> /\ completed = 0
  /\ last_updated = 0 /\ calculated = <<>> /\ announced_stats = {}

-----------------------------------------------------------------------------
(* Math.round(100 * a / b), and the zero of an empty list *)
Percent(a, b) == IF b = 0 THEN 0 ELSE (200 * a + b) \div (2 * b)

Right(es) == SelectSeq(es, LAMBDA e : e.correct)
WordsOf(es) == {es[i].word : i \in DOMAIN es}

ActiveDays == SetToSortSeq(sessions, <)

(* Mutant: a gap does not end the run. *)
M_LongestStreak(days) ==
  IF days = <<>> THEN 0
  ELSE FoldLeft(LAMBDA run, i :
         IF days[i] - days[i - 1] = 1
         THEN [now |-> run.now + 1, best |-> Max({run.best, run.now + 1})]
         ELSE [run EXCEPT !.best = Max({run.best, run.now})],
       [now |-> 1, best |-> 1], [i \in 1..Len(days) - 1 |-> i + 1]).best

(* _calculateLongestStreak *)
LongestStreak(days) ==
  IF days = <<>> THEN 0
  ELSE FoldLeft(LAMBDA run, i :
         IF days[i] - days[i - 1] = 1
         THEN [now |-> run.now + 1, best |-> Max({run.best, run.now + 1})]
         ELSE [run EXCEPT !.now = 1],
       [now |-> 1, best |-> 1], [i \in 1..Len(days) - 1 |-> i + 1]).best

(* _calculateCurrentStreak: back from the last day to the first gap *)
CurrentStreak(days) ==
  FoldRight(LAMBDA i, run :
         IF ~run.stopped /\ days[i + 1] - days[i] = 1 THEN [run EXCEPT !.now = @ + 1]
         ELSE [run EXCEPT !.stopped = TRUE],
       [i \in 1..Len(days) - 1 |-> i], [now |-> 1, stopped |-> FALSE]).now

(* _calculateStreakStats.  The grace of 24 hours runs from the midnight    *)
(* the last day began with: only midnight itself still finds it.           *)
CalculateStreakStats(midnight) ==
  LET days == ActiveDays IN
  [longest_streak |-> LongestStreak(days),
   current_streak |-> IF days # <<>> /\ (Last(days) = day \/ (midnight /\ Last(days) = day - 1))
                      THEN CurrentStreak(days) ELSE 0]

(* _calculateReviewAccuracy: a lesson with several answers weighs half as  *)
(* much again.                                                             *)
ReviewAccuracy ==
  LET Of(w) == SelectSeq(exercises, LAMBDA e : e.word = w)
      weight(w) == IF Len(Of(w)) > 1 THEN 3 ELSE 2
      whole == 12  \* divisible by the lengths up to four
      share(w) == weight(w) * Len(Right(Of(w))) * (whole \div Len(Of(w)))
  IN Percent(MapThenSumSet(share, WordsOf(exercises)),
             whole * MapThenSumSet(weight, WordsOf(exercises)))

(* _calculateRetentionRate: of the words seen twice, those right then *)
RetentionRate ==
  LET Of(w) == SelectSeq(exercises, LAMBDA e : e.word = w)
      twice == {w \in WordsOf(exercises) : Len(Of(w)) > 1}
  IN IF Len(exercises) < Enough THEN 0
     ELSE Percent(Cardinality({w \in twice : Of(w)[2].correct}), Cardinality(twice))

(* _calculateOverallStats *)
CalculateOverallStats ==
  [completion_percentage |-> Percent(completed, Lessons),
   success_rate |-> Percent(Len(Right(exercises)), Len(exercises))]

(* _calculateLearningStats, _calculateMasteryStats *)
CalculateLearningStats ==
  [words_learned |-> Cardinality(WordsOf(Right(exercises))),
   words_in_progress |-> Cardinality(WordsOf(exercises)) - Cardinality(WordsOf(Right(exercises))),
   review_accuracy |-> ReviewAccuracy, retention_rate |-> RetentionRate]

(* calculateAllStats of a progress the cache does not have *)
Stats(midnight) ==
  CalculateOverallStats @@ CalculateLearningStats @@ CalculateStreakStats(midnight)

(* _emit_special_events, with its days of 7 and 30 as two and three *)
SpecialEvents(s) ==
  {e \in {"week_streak", "month_streak", "half_complete", "master", "accuracy_expert"} :
     CASE e = "week_streak" -> s.current_streak = 2
       [] e = "month_streak" -> s.current_streak = 3
       [] e = "half_complete" -> s.completion_percentage = 50
       [] e = "master" -> s.completion_percentage = 100
       [] e = "accuracy_expert" -> s.review_accuracy > 90}

-----------------------------------------------------------------------------
Positions(k) == {i \in DOMAIN calculated : calculated[i].key = k}

(* SimpleCache.get: what is found becomes the most recent. *)
CacheHit ==
  \E i \in Positions(last_updated) :
    /\ calculated' = Append(RemoveAt(calculated, i), calculated[i])
    /\ announced_stats' = {}
    /\ UNCHANGED <<day, progress, last_updated>>

(* SimpleCache.set, _evict: a full cache loses the one used least lately. *)
CacheSet(k, s) ==
  calculated' = Append(IF Len(calculated) >= CacheSize THEN Tail(calculated) ELSE calculated,
                       [key |-> k, stats |-> s, of |-> sessions])

CalculateAllStats(midnight) ==
  /\ Positions(last_updated) = {}
  /\ CacheSet(last_updated, Stats(midnight))
  /\ announced_stats' = SpecialEvents(Stats(midnight))
  /\ UNCHANGED <<day, progress, last_updated>>

(* The time of an entry is over: get removes it. *)
Expired(k) ==
  /\ \E i \in Positions(k) : calculated' = RemoveAt(calculated, i)
  /\ UNCHANGED <<day, progress, last_updated, announced_stats>>

CalculatorClearCache ==
  /\ calculated # <<>> /\ calculated' = <<>>
  /\ UNCHANGED <<day, progress, last_updated, announced_stats>>

(* The learner, and time. *)
Changed ==
  /\ last_updated < MaxChanges /\ last_updated' = last_updated + 1
  /\ UNCHANGED <<day, calculated, announced_stats>>

Study ==
  /\ sessions' = sessions \cup {day} /\ UNCHANGED <<exercises, completed>> /\ Changed
CalculatorAnswer(w, right) ==
  /\ exercises' = Append(exercises, [word |-> w, correct |-> right])
  /\ UNCHANGED <<sessions, completed>> /\ Changed
CompleteLesson ==
  /\ completed < Lessons /\ completed' = completed + 1
  /\ UNCHANGED <<sessions, exercises>> /\ Changed

NextDay ==
  /\ day < LastDay /\ day' = day + 1
  /\ UNCHANGED <<progress, last_updated, calculated, announced_stats>>

CalculatorNext ==
  \/ CacheHit \/ CalculatorClearCache \/ Study \/ CompleteLesson \/ NextDay
  \/ \E midnight \in BOOLEAN : CalculateAllStats(midnight)
  \/ \E k \in 0..MaxChanges : Expired(k)
  \/ \E w \in Words, right \in BOOLEAN : CalculatorAnswer(w, right)

CalculatorSpec == CalculatorInit /\ [][CalculatorNext]_calculator_vars

-----------------------------------------------------------------------------
CalculatorTypeOK ==
  /\ day \in 0..LastDay /\ sessions \subseteq 0..LastDay /\ completed \in 0..Lessons
  /\ last_updated \in 0..MaxChanges
  /\ \A i \in DOMAIN calculated : calculated[i].key \in 0..MaxChanges

Runs(days) == {r \in SUBSET days : r # {} /\ r = Min(r)..Max(r)}

(* The cache has each key once and never more than its size.               *)
CacheHasKeysOnce ==
  /\ Len(calculated) <= CacheSize
  /\ \A i, j \in DOMAIN calculated : calculated[i].key = calculated[j].key => i = j

(* The share of right answers of each word. *)
Shares == {LET es == SelectSeq(exercises, LAMBDA e : e.word = w)
           IN Percent(Len(Right(es)), Len(es)) : w \in WordsOf(exercises)}

(* What the cache holds is what the progress of its key gives: streaks are *)
(* runs of days, the longest no shorter than the current one, rates are    *)
(* between 0 and 100, words are learned or in progress.  What it answers   *)
(* today is of today's days of study, and both averages of the answers,    *)
(* weighted and rounded as they are, lie between the worst and the best    *)
(* word.                                                                   *)
StatsMatchProgress ==
  \A i \in DOMAIN calculated : LET s == calculated[i].stats  d == calculated[i].of IN
    /\ s.longest_streak = Max({Cardinality(r) : r \in Runs(d)} \cup {0})
    /\ s.current_streak \in {0} \cup {Cardinality(r) : r \in {q \in Runs(d) :
                                   Max(q) = Max(d) /\ Min(q) - 1 \notin d}}
    /\ {s.completion_percentage, s.success_rate, s.review_accuracy, s.retention_rate}
         \subseteq 0..100
    /\ s.words_in_progress >= 0
    /\ calculated[i].key = last_updated =>
         /\ d = sessions
         /\ Shares # {} => {s.success_rate, s.review_accuracy} \subseteq Min(Shares)..Max(Shares)

-----------------------------------------------------------------------------
(***************************************************************************)
(* features/stats/user_metrics.js: the completed lessons of a user, counted *)
(* before a pipeline of middlewares runs against a time limit and recorded *)
(* in a history after it; resets, snapshots and restores come in between.  *)
(* Listeners and middlewares are external; scores and times are left out.  *)
(***************************************************************************)

CONSTANTS Increments,   \* calls of increment_completed in flight
          MetricsHistoryKept,  \* max_history_items, 1000 in the code
          MaxCompleted, \* bound: lessons completed
          NoSnapshot

VARIABLES completed_lessons,
          metrics_history,   \* the counts recorded
          increment,         \* calls: [at, count]
          snapshot,          \* [completed, history], or NoSnapshot
          unrecorded,        \* lessons of calls that ended with a failure
          disturbed          \* a reset or a restore took place, or an item was dropped

metrics_vars == <<completed_lessons, metrics_history, increment, snapshot, unrecorded, disturbed>>

MetricsIdle == [at |-> "none", count |-> 0]

MetricsInit ==
  /\ completed_lessons = 0 /\ metrics_history = <<>>
  /\ increment = [i \in Increments |-> MetricsIdle]
  /\ snapshot = NoSnapshot /\ unrecorded = 0 /\ disturbed = FALSE

(* increment_completed: the count is valid and added, the pipeline starts. *)
IncrementCompleted(i, count) ==
  /\ increment[i] = MetricsIdle /\ completed_lessons + count <= MaxCompleted
  /\ completed_lessons' = completed_lessons + count
  /\ increment' = [increment EXCEPT ![i] = [at |-> "middleware", count |-> count]]
  /\ UNCHANGED <<metrics_history, snapshot, unrecorded, disturbed>>

(* HistoryTracker.add *)
Recorded(count) ==
  LET h == Append(metrics_history, count) IN
  /\ metrics_history' = IF Len(h) > MetricsHistoryKept THEN Tail(h) ELSE h
  /\ disturbed' = (disturbed \/ Len(h) > MetricsHistoryKept)

(* The middlewares and the event went through. *)
Processed(i) ==
  /\ increment[i].at = "middleware"
  /\ Recorded(increment[i].count)
  /\ increment' = [increment EXCEPT ![i] = MetricsIdle]
  /\ UNCHANGED <<completed_lessons, snapshot, unrecorded>>

(* A middleware or a listener throws, or the time is over first: the call  *)
(* answers with a failure and the lessons stay counted.                    *)
MiddlewareFails(i) ==
  /\ increment[i].at = "middleware"
  /\ unrecorded' = IF disturbed THEN unrecorded ELSE unrecorded + increment[i].count
  /\ increment' = [increment EXCEPT ![i] = MetricsIdle]
  /\ UNCHANGED <<completed_lessons, metrics_history, snapshot, disturbed>>

Reset ==
  /\ completed_lessons > 0
  /\ completed_lessons' = 0 /\ metrics_history' = <<>> /\ disturbed' = TRUE
  /\ UNCHANGED <<increment, snapshot, unrecorded>>

TakeSnapshot ==
  /\ snapshot' = [completed |-> completed_lessons, history |-> metrics_history]
  /\ UNCHANGED <<completed_lessons, metrics_history, increment, unrecorded, disturbed>>

(* restore: the numbers are replaced, the history gets its own added. *)
Restore ==
  /\ snapshot # NoSnapshot
  /\ completed_lessons' = snapshot.completed
  /\ LET h == metrics_history \o snapshot.history IN
       metrics_history' = SubSeq(h, IF Len(h) > MetricsHistoryKept THEN Len(h) - MetricsHistoryKept + 1 ELSE 1,
                                 Len(h))
  /\ disturbed' = TRUE
  /\ UNCHANGED <<increment, snapshot, unrecorded>>

MetricsNext ==
  \/ \E i \in Increments : \/ \E count \in 1..2 : IncrementCompleted(i, count)
                           \/ Processed(i) \/ MiddlewareFails(i)
  \/ Reset \/ TakeSnapshot \/ Restore

MetricsSpec == MetricsInit /\ [][MetricsNext]_metrics_vars

-----------------------------------------------------------------------------
MetricsTypeOK ==
  /\ completed_lessons \in 0..MaxCompleted /\ Len(metrics_history) <= MetricsHistoryKept
  /\ \A i \in Increments : increment[i].at \in {"none", "middleware"}

Counts(s) == FoldLeft(LAMBDA a, b : a + b, 0, s)
InFlight == MapThenSumSet(LAMBDA i : increment[i].count, Increments)

(* Every completed lesson is in the history, in a call under way or in one *)
(* that answered with a failure, which a caller that tries again counts    *)
(* twice.                                                                  *)
LessonsAreRecorded ==
  ~disturbed => completed_lessons = Counts(metrics_history) + InFlight + unrecorded

-----------------------------------------------------------------------------
(***************************************************************************)
(* shared/models/progress_model.js: the progress of a lesson after each    *)
(* answer, with the level of mastery, the history that is kept and when a  *)
(* review is due.  The next interval comes from the scheduler (external).  *)
(* Times are hours; ease factors and response times are left out.          *)
(***************************************************************************)

CONSTANTS MinHours,     \* MIN_HOURS_BETWEEN, 4 in the code
          MasteryHistoryKept,  \* MAX_HISTORY_ITEMS, 30 in the code
          Intervals,    \* hours the scheduler answers with
          MaxHours, MaxReviews,  \* bounds
          Never

VARIABLES hour, lesson_progress

mastery_vars == <<hour, lesson_progress>>

(* createInitialProgress *)
Initial ==
  [repetition |-> 0, next |-> 0, masteryLevel |-> 0, total |-> 0, correct |-> 0,
   incorrect |-> 0, last |-> Never, streak |-> 0, history |-> <<>>, version |-> 4]

(* A row saved by an older version has neither a streak nor a history. *)
Old == [Initial EXCEPT !.repetition = 1, !.total = 1, !.correct = 1, !.masteryLevel = 1,
                       !.last = 0, !.version = 3]

MasteryInit == hour = 0 /\ lesson_progress \in {Initial, Old}

(* calculateMasteryLevel: accuracy > n/10 as correct * 10 > n * total *)
CalculateMasteryLevel(repetition, correct, total) ==
  IF repetition >= 5 /\ 10 * correct > 9 * total THEN 5
  ELSE IF repetition >= 4 /\ 10 * correct > 8 * total THEN 4
  ELSE IF repetition >= 3 /\ 10 * correct > 7 * total THEN 3
  ELSE IF repetition >= 2 /\ 10 * correct > 6 * total THEN 2
  ELSE IF repetition >= 1 THEN 1 ELSE 0

(* updateProgressWithAnswer *)
WithAnswer(p, right, repetition, interval) ==
  LET correct == IF right THEN p.correct + 1 ELSE p.correct IN
  [repetition |-> repetition, next |-> hour + interval,
   masteryLevel |-> CalculateMasteryLevel(repetition, correct, p.total + 1),
   total |-> p.total + 1, correct |-> correct,
   incorrect |-> IF right THEN p.incorrect ELSE p.incorrect + 1,
   last |-> hour, streak |-> IF right THEN p.streak + 1 ELSE 0,
   history |-> SubSeq(<<right>> \o p.history, 1,
                      IF Len(p.history) < MasteryHistoryKept THEN Len(p.history) + 1 ELSE MasteryHistoryKept),
   version |-> 4]

(* getDueStatus *)
DueStatus(p) ==
  LET overdue == p.next - hour <= 0
      rested == p.last = Never \/ hour - p.last >= MinHours IN
  [isDue |-> overdue /\ rested,
   recommended |-> rested /\ p.masteryLevel < 3 /\ ~overdue /\ p.next - hour < 24]

-----------------------------------------------------------------------------
(* The repetition that the scheduler answers with: one more, or again. *)
MasteryAnswer(right, interval) ==
  /\ lesson_progress.total < MaxReviews
  /\ \E repetition \in IF right THEN {lesson_progress.repetition + 1} ELSE {0, 1} :
       lesson_progress' = WithAnswer(lesson_progress, right, repetition, interval)
  /\ UNCHANGED hour

(* migrateProgress, before the row is used *)
Migrate ==
  /\ lesson_progress.version < 4
  /\ lesson_progress' = [lesson_progress EXCEPT !.version = 4]
  /\ UNCHANGED hour

HourPasses == hour < MaxHours /\ hour' = hour + 1 /\ UNCHANGED lesson_progress

MasteryNext ==
  \/ \E right \in BOOLEAN, interval \in Intervals : MasteryAnswer(right, interval)
  \/ Migrate \/ HourPasses

MasterySpec == MasteryInit /\ [][MasteryNext]_mastery_vars

-----------------------------------------------------------------------------
MasteryTypeOK ==
  /\ hour \in 0..MaxHours
  /\ lesson_progress.masteryLevel \in 0..5 /\ lesson_progress.total \in 0..MaxReviews
  /\ lesson_progress.last \in 0..MaxHours \cup {Never}

(* Mastery is earned: no level without as many repetitions nor a high one  *)
(* without the accuracy of all answers; the counts and the streak agree    *)
(* with the history, and a lesson just answered is not due again.          *)
MasteryIsEarned ==
  LET p == lesson_progress IN
  /\ p.masteryLevel <= p.repetition
  /\ p.masteryLevel >= 2 => 10 * p.correct > (p.masteryLevel + 4) * p.total
  /\ p.correct + p.incorrect = p.total /\ p.streak <= p.correct
  /\ \A i \in DOMAIN p.history : (i <= p.streak => p.history[i])
                                 /\ (i = p.streak + 1 => ~p.history[i])
  /\ p.last = hour => ~DueStatus(p).isDue /\ ~DueStatus(p).recommended

-----------------------------------------------------------------------------
(* The values of the variables of every machine. *)
TypeOK == ServiceTypeOK /\ CalculatorTypeOK /\ MetricsTypeOK /\ MasteryTypeOK
=============================================================================
