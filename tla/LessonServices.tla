--------------------------- MODULE LessonServices ---------------------------
(***************************************************************************)
(* The two services that run a lesson: that of the lesson engine, which    *)
(* keeps rows of progress, and the facade of features/lesson over cache    *)
(* and repository. The machines share no state.                            *)
(***************************************************************************)
EXTENDS Integers, FiniteSets

-----------------------------------------------------------------------------
(***************************************************************************)
(* features/lesson_engine/lesson_service.js: starting and completing       *)
(* lessons, the lists of lessons that are cached, the statistics of the    *)
(* user and the review plan of a lesson.  Calls overlap at their awaits;   *)
(* the repository is external and hands out copies.  A score is one of the *)
(* four performance levels; the ease factor counts twentieths, intervals   *)
(* count days.  Exercises and metrics are left out.                        *)
(***************************************************************************)

CONSTANTS Lessons,
          Calls,        \* calls in flight
          MaxReviews,   \* bound: completions of a lesson that are followed
          None

VARIABLES progress,   \* repository: the progress row of each lesson
          stats,      \* repository: [xp, completed]
          list,       \* the cached list: the rows it was made from
          calls,
          finished    \* completions whose progress was written

engine_vars == <<progress, stats, list, calls, finished>>

Levels == 1..4        \* POOR, FAIR, GOOD, EXCELLENT
Schedule == <<1, 2, 5, 10, 21, 40, 70>>   \* REVIEW_SCHEDULES[2]

(* Math.round of a quotient. *)
Rounded(a, b) == (2 * a + b) \div (2 * b)
AtLeast1(n) == IF n < 1 THEN 1 ELSE n
Clamp(ease) == IF ease < 26 THEN 26 ELSE IF ease > 100 THEN 100 ELSE ease

(* Mutant: "good" and "easy" are exchanged. *)
M_Interval(base, ease, level) ==
  CASE level = 1 -> 1
    [] level = 2 -> AtLeast1(Rounded(base, 2))
    [] level = 3 -> AtLeast1(Rounded(base * ease, 20))
    [] level = 4 -> AtLeast1(Rounded(base * ease * 7, 200))

(* SRSEngineImpl.calculateNextReview *)
Interval(base, ease, level) ==
  CASE level = 1 -> 1
    [] level = 2 -> AtLeast1(Rounded(base, 2))
    [] level = 3 -> AtLeast1(Rounded(base * ease * 7, 200))
    [] level = 4 -> AtLeast1(Rounded(base * ease, 20))

Ease(ease, level) == Clamp(ease + <<-2, -1, 1, 2>>[level])

Base(count) == Schedule[IF count < 6 THEN count + 1 ELSE 7]

Fresh == [status |-> "in_progress", best |-> 0, ease |-> 50, interval |-> 1,
          count |-> 0, streak |-> 0]

(* _calculateSRSUpdate, _updateProgress *)
Completed(row, level) ==
  [status |-> "completed",
   best |-> IF level > row.best THEN level ELSE row.best,
   ease |-> Ease(row.ease, level),
   interval |-> Interval(Base(row.count), row.ease, level),
   count |-> row.count + 1,
   streak |-> IF level >= 3 THEN row.streak + 1 ELSE 0]

NoStats == [xp |-> 0, completed |-> 0]
Free == [op |-> "none", lesson |-> None, level |-> 0, row |-> None, stats |-> NoStats]

EngineInit ==
  /\ progress = [l \in Lessons |-> None]
  /\ stats = NoStats
  /\ list = None
  /\ calls = [c \in Calls |-> Free]
  /\ finished = 0

At(c, op) == calls[c].op = op
EngineGoes(c, r) == calls' = [calls EXCEPT ![c] = r]
Row(c) == progress[calls[c].lesson]

-----------------------------------------------------------------------------
(* startLesson writes a fresh row, whatever the repository holds. *)
Start(c, l) ==
  /\ At(c, "none")
  /\ EngineGoes(c, [Free EXCEPT !.op = "start", !.lesson = l])
  /\ UNCHANGED <<progress, stats, list, finished>>

Started(c) ==
  /\ At(c, "start")
  /\ progress' = [progress EXCEPT ![calls[c].lesson] = Fresh]
  /\ EngineGoes(c, Free)
  /\ UNCHANGED <<stats, list, finished>>

Complete(c, l, level) ==
  /\ At(c, "none")
  /\ EngineGoes(c, [Free EXCEPT !.op = "complete", !.lesson = l, !.level = level])
  /\ UNCHANGED <<progress, stats, list, finished>>

ProgressRead(c) ==
  /\ At(c, "complete")
  /\ IF Row(c) = None
     THEN EngineGoes(c, Free)      \* ProgressNotFoundError
     ELSE /\ Row(c).count < MaxReviews
          /\ EngineGoes(c, [calls[c] EXCEPT !.op = "write", !.row = Row(c)])
  /\ UNCHANGED <<progress, stats, list, finished>>

ProgressWritten(c) ==
  /\ At(c, "write")
  /\ finished < MaxReviews
  /\ progress' = [progress EXCEPT ![calls[c].lesson] =
                    Completed(calls[c].row, calls[c].level)]
  /\ finished' = finished + 1
  /\ EngineGoes(c, [calls[c] EXCEPT !.op = "stats", !.row = None])
  /\ UNCHANGED <<stats, list>>

StatsRead(c) ==
  /\ At(c, "stats")
  /\ EngineGoes(c, [calls[c] EXCEPT !.op = "count", !.stats = stats])
  /\ UNCHANGED <<progress, stats, list, finished>>

StatsWritten(c) ==
  /\ At(c, "count")
  /\ stats' = [xp |-> calls[c].stats.xp + 1, completed |-> calls[c].stats.completed + 1]
  /\ EngineGoes(c, Free)
  /\ UNCHANGED <<progress, list, finished>>

(* An error of the repository ends the call; one of the statistics is only *)
(* logged.                                                                 *)
CallFails(c) ==
  /\ calls[c].op \in {"start", "complete", "write", "stats", "count", "list"}
  /\ EngineGoes(c, Free)
  /\ UNCHANGED <<progress, stats, list, finished>>

-----------------------------------------------------------------------------
(* getLessons: the key of the cached list is never the one completeLesson  *)
(* invalidates, so only time and clearCache remove it.                     *)
GetLessons(c) ==
  /\ At(c, "none") /\ list = None
  /\ EngineGoes(c, [Free EXCEPT !.op = "list"])
  /\ UNCHANGED <<progress, stats, list, finished>>

ListRead(c) ==
  /\ At(c, "list")
  /\ list' = [l \in Lessons |-> IF progress[l] = None THEN "none" ELSE progress[l].status]
  /\ EngineGoes(c, Free)
  /\ UNCHANGED <<progress, stats, finished>>

ListExpires ==
  /\ list # None
  /\ list' = None
  /\ UNCHANGED <<progress, stats, calls, finished>>

EngineNext ==
  \/ \E c \in Calls :
       \/ \E l \in Lessons : Start(c, l) \/ \E v \in Levels : Complete(c, l, v)
       \/ Started(c) \/ ProgressRead(c) \/ ProgressWritten(c)
       \/ StatsRead(c) \/ StatsWritten(c) \/ CallFails(c)
       \/ GetLessons(c) \/ ListRead(c)
  \/ ListExpires

EngineSpec == EngineInit /\ [][EngineNext]_engine_vars

-----------------------------------------------------------------------------
RowOK(r) ==
  r = None \/ /\ r.status \in {"in_progress", "completed"}
              /\ r.best \in 0..4 /\ r.ease \in 26..100
              /\ r.interval \in 1..350 /\ r.count \in 0..MaxReviews
              /\ r.streak \in 0..r.count

EngineTypeOK ==
  /\ \A l \in Lessons : RowOK(progress[l])
  /\ \A c \in Calls : RowOK(calls[c].row) /\ calls[c].lesson \in Lessons \cup {None}
  /\ stats.xp \in 0..MaxReviews /\ stats.completed \in 0..MaxReviews
  /\ list = None \/ list \in [Lessons -> {"none", "in_progress", "completed"}]

(* Whatever the history of a lesson, a better result never brings its next *)
(* review forward, and a lesson known perfectly is never asked sooner than *)
(* the schedule says for it.                                               *)
BetterIsLater ==
  \A l \in Lessons : progress[l] # None =>
    LET p == progress[l]  b == Base(p.count) IN
    /\ \A v \in 1..3 : Interval(b, p.ease, v) <= Interval(b, p.ease, v + 1)
    /\ Interval(b, p.ease, 4) >= b

-----------------------------------------------------------------------------
(***************************************************************************)
(* features/lesson/lesson_service.js: calls that look a lesson up, run an  *)
(* operation on it and announce it, with one handler for whatever fails.   *)
(* Cache, repository, generators, engine and event bus are external.       *)
(***************************************************************************)

CONSTANTS
  LessonCalls,  \* calls; a call also names the review it stores
  Unset

VARIABLES flow, review_row, announced
facade_vars == <<flow, review_row, announced>>

Operations == {"start", "generate", "complete"}
Results == {"lesson", "exercises", "review", "null", "rejected"}
FacadeTypeOK ==
  /\ flow \in [LessonCalls -> [op : Operations \cup {"none"},
                               at : {"idle", "fetching", "running", "storing", "announcing",
                                     "failing", "done"}, result : Results \cup {Unset}]]
  /\ review_row \in LessonCalls \cup {Unset}
  /\ announced \in [LessonCalls -> SUBSET {"started", "completed", "error"}]

\* announced is a history variable: the events a call emitted.
FacadeInit == /\ flow = [c \in LessonCalls |-> [op |-> "none", at |-> "idle", result |-> Unset]]
        /\ review_row = Unset /\ announced = [c \in LessonCalls |-> {}]

FacadeGoes(c, at) == flow' = [flow EXCEPT ![c].at = at]
Ends(c, result) == flow' = [flow EXCEPT ![c].at = "done", ![c].result = result]

(* start_lesson, generate_exercises, complete_lesson: an exercise type     *)
(* without a generator, a review that is not valid and an id that is none  *)
(* end before the lookup.                                                  *)
Call(c, op) == /\ flow[c].at = "idle"
               /\ flow' = [flow EXCEPT ![c].op = op, ![c].at = "fetching"]
               /\ UNCHANGED <<review_row, announced>>
Nothing(op) == IF op = "generate" THEN "exercises" ELSE "null"
Refused(c, op, result) ==
  /\ flow[c].at = "idle" /\ result \in {"rejected"} \cup (IF op = "start" THEN {} ELSE {Nothing(op)})
  /\ flow' = [flow EXCEPT ![c] = [op |-> op, at |-> "done", result |-> result]]
  /\ UNCHANGED <<review_row, announced>>

(* #with_valid_lesson: a lesson, none, an abort or another error.          *)
AfterFetch(op) == CASE op = "start" -> "announcing" [] op = "generate" -> "running" [] OTHER -> "storing"
Fetched(c) == /\ flow[c].at = "fetching" /\ FacadeGoes(c, AfterFetch(flow[c].op))
              /\ UNCHANGED <<review_row, announced>>
NotFound(c) == /\ flow[c].at = "fetching" /\ Ends(c, Nothing(flow[c].op))
               /\ UNCHANGED <<review_row, announced>>
Aborted(c) == /\ flow[c].at \in {"fetching", "running", "storing"} /\ Ends(c, "rejected")
              /\ UNCHANGED <<review_row, announced>>
Fails(c) == /\ flow[c].at \in {"fetching", "running", "storing"} /\ FacadeGoes(c, "failing")
            /\ UNCHANGED <<review_row, announced>>

Generated(c) == /\ flow[c].at = "running" /\ Ends(c, "exercises")
                /\ UNCHANGED <<review_row, announced>>

(* The key of the row is the lesson's: a later store replaces it.          *)
Stored(c) == /\ flow[c].at = "storing" /\ FacadeGoes(c, "announcing") /\ review_row' = c
             /\ UNCHANGED announced

(* _emit_event: an error of the bus is logged and the call goes on.        *)
Announced(c) ==
  /\ flow[c].at = "announcing"
  /\ Ends(c, IF flow[c].op = "start" THEN "lesson" ELSE "review")
  /\ announced' = [announced EXCEPT ![c] =
       @ \cup {IF flow[c].op = "start" THEN "started" ELSE "completed"}]
  /\ UNCHANGED review_row
ErrorAnnounced(c) ==
  /\ flow[c].at = "failing" /\ Ends(c, Nothing(flow[c].op))
  /\ announced' = [announced EXCEPT ![c] = @ \cup {"error"}] /\ UNCHANGED review_row

FacadeNext == \E c \in LessonCalls :
  \/ Fetched(c) \/ NotFound(c) \/ Aborted(c) \/ Fails(c) \/ Generated(c)
  \/ Stored(c) \/ Announced(c) \/ ErrorAnnounced(c)
  \/ \E op \in Operations : Call(c, op) \/ \E r \in Results : Refused(c, op, r)

FacadeSpec == FacadeInit /\ [][FacadeNext]_facade_vars

(* lesson_service.js: what was announced as completed has its review in    *)
(* the cache, or that of another call that completed the lesson; a call    *)
(* announces at most one event, none when it was aborted, and an error     *)
(* only when nothing was stored for it.                                    *)
AnnouncedIsStored ==
  \A c \in LessonCalls :
    /\ Cardinality(announced[c]) <= 1
    /\ "completed" \in announced[c] =>
         review_row # Unset /\ flow[review_row].op = "complete"
    /\ "error" \in announced[c] => review_row # c
    /\ flow[c].result = "rejected" => announced[c] = {}

-----------------------------------------------------------------------------
(* The values of the variables of every machine. *)
TypeOK == EngineTypeOK /\ FacadeTypeOK
=============================================================================
