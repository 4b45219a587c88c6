---------------------------- MODULE MCLessons -----------------------------
(***************************************************************************)
(* The services behind a lesson, checked together: what a lesson, a review *)
(* and an exercise leave behind and which cards are asked. They share no   *)
(* state in the code beyond what each module models, so a behaviour        *)
(* exercises one of them.                                                  *)
(***************************************************************************)
EXTENDS Integers, Sequences, FiniteSets, TLC

CONSTANTS None, Lessons, Calls, MaxReviews, CardA, CardB, BatchSize, MaxTime,
          MaxRep, Rows, Asks, MaxCount, Services, Reviews,
          MaxVersion, Trackers, Objects, MaxToday, MaxStreak,
          LastDay, HistoryLimit, LessonCalls, SrsCards, Algorithms,
          MaxInterval, CacheSize, MaxCalls

ASSUME LimitsAssumption ==
  /\ {MaxReviews, MaxTime, MaxRep, MaxVersion, MaxStreak, LastDay} \subseteq Nat
  /\ {BatchSize, MaxCount, HistoryLimit, CacheSize} \subseteq Nat \ {0}
  /\ Algorithms \subseteq {"sm2", "anki", "fsrs"}
  /\ IsFiniteSet(Calls)
  /\ CardA # CardB

Cards == <<CardA, CardB>>

(* The calls of the progress manager are told apart by nothing. *)
Symmetry == Permutations(Trackers)

VARIABLES focus,  \* the component a behaviour exercises
          progress, stats, list, calls, finished, time, card, cached, batch,
          stored, cache, asks, raced, version, counted, alive, listener,
          review, emptying, stale, today, object, progressCache, saved,
          streaks, track, flow, review_row, announced, lessons, histories,
          due_index, review_day, fetching, lostReviews, written,
          srs_cards, srs_config, results, srs_saved, answered, srs_calls

L == INSTANCE LessonServices WITH
       Unset <- None
S == INSTANCE ReviewSchedules WITH
       scheduler_time <- time, Unknown <- None, manager_day <- review_day
P == INSTANCE ProgressService
R == INSTANCE ReviewService WITH
       stats <- counted
M == INSTANCE ProgressManager
E == INSTANCE SrsEngine WITH
       Cards <- SrsCards, MaxHistory <- HistoryLimit, NoSave <- None,
       cards <- srs_cards, config <- srs_config, cache <- results,
       saved <- srs_saved, own <- answered, calls <- srs_calls

ASSUME IntervalAssumption == MaxInterval \in 1..E!MAX_INTERVAL

\* The rows the lesson service and the progress manager store.
LessonRow ==
  [status : {"in_progress", "completed"}, best : 0..4, ease : 26..100,
   interval : 1..350, count : 0..MaxReviews, streak : Nat]
RewardRow == [rewards : Nat, lessons : Nat,
              achievement : {"absent", "locked", "unlocked"},
              streak : Nat, longest : Nat, last : Nat \cup {None}]

\* null and undefined are no data.
ASSUME NoneAssumption ==
  /\ None \notin Nat /\ None \notin LessonRow /\ None \notin L!Results
  /\ None \notin LessonCalls /\ None \notin S!Data /\ None \notin Services
  /\ None \notin Objects /\ None \notin RewardRow

Init ==
  /\ focus \in {"lesson", "scheduler", "progress", "review", "manager",
               "facade", "reviews", "engine"}
  /\ L!EngineInit /\ S!SchedulerInit /\ P!Init /\ R!Init
  /\ M!Init /\ L!FacadeInit /\ S!ManagerInit /\ E!Init
  /\ \A c \in {CardA, CardB} : card[c].due = 0 /\ (card[c].ease = 25 <=> c = CardA)
  /\ focus # "progress" => \A r \in Rows : stored[r] = None
  /\ focus # "engine" => srs_config.algorithm = "sm2" /\ ~ srs_config.fuzz

(* What each component keeps. *)
lesson_vars == <<progress, stats, list, calls, finished>>
scheduler_vars == <<time, card, cached, batch>>
progress_vars == <<stored, cache, asks, raced>>
review_vars == <<version, counted, alive, listener, review, emptying,
                 stale>>
manager_vars == <<today, object, progressCache, saved, streaks, track>>
facade_vars == <<flow, review_row, announced>>
schedule_vars == <<lessons, histories, due_index, review_day, fetching,
                   lostReviews, written>>
engine_vars == <<srs_cards, srs_config, results, srs_saved, answered,
                 srs_calls>>

LessonStep ==
  /\ focus = "lesson" /\ L!EngineNext
  /\ UNCHANGED <<focus, scheduler_vars, progress_vars, review_vars,
                 manager_vars, facade_vars, schedule_vars,
                 engine_vars>>

SchedulerStep ==
  /\ focus = "scheduler" /\ S!SchedulerNext
  /\ UNCHANGED <<focus, lesson_vars, progress_vars, review_vars,
                 manager_vars, facade_vars, schedule_vars,
                 engine_vars>>

ProgressStep ==
  /\ focus = "progress" /\ P!Next
  /\ UNCHANGED <<focus, lesson_vars, scheduler_vars, review_vars,
                 manager_vars, facade_vars, schedule_vars,
                 engine_vars>>

ReviewStep ==
  /\ focus = "review" /\ R!Next
  /\ UNCHANGED <<focus, lesson_vars, scheduler_vars, progress_vars,
                 manager_vars, facade_vars, schedule_vars,
                 engine_vars>>

ManagerStep ==
  /\ focus = "manager" /\ M!Next
  /\ UNCHANGED <<focus, lesson_vars, scheduler_vars, progress_vars,
                 review_vars, facade_vars, schedule_vars,
                 engine_vars>>

FacadeStep ==
  /\ focus = "facade" /\ L!FacadeNext
  /\ UNCHANGED <<focus, lesson_vars, scheduler_vars, progress_vars,
                 review_vars, manager_vars, schedule_vars,
                 engine_vars>>

ReviewsStep ==
  /\ focus = "reviews" /\ S!ManagerNext
  /\ UNCHANGED <<focus, lesson_vars, scheduler_vars, progress_vars,
                 review_vars, manager_vars, facade_vars, engine_vars>>

EngineStep ==
  /\ focus = "engine" /\ E!Next
  /\ UNCHANGED <<focus, lesson_vars, scheduler_vars, progress_vars,
                 review_vars, manager_vars, facade_vars,
                 schedule_vars>>

Next == LessonStep \/ SchedulerStep \/ ProgressStep \/ ReviewStep
        \/ ManagerStep \/ FacadeStep \/ ReviewsStep \/ EngineStep

vars == <<focus, lesson_vars, scheduler_vars, progress_vars, review_vars, manager_vars,
          facade_vars, schedule_vars, engine_vars>>

Spec == Init /\ [][Next]_vars

-----------------------------------------------------------------------------
(* The values of the variables of the components. *)
TypeOK ==
  L!TypeOK /\ S!TypeOK /\ P!TypeOK /\ R!TypeOK /\ M!TypeOK

(* lesson_engine/lesson_service.js, features/lesson/lesson_service.js:     *)
(* better results are asked later, and what was announced as completed is  *)
(* stored.                                                                 *)
LessonsAreKept ==
  L!BetterIsLater /\ L!AnnouncedIsStored

(* srs_scheduler.js, srs_manager.js: a batch run lists the cards that are  *)
(* due; a cached priority is less than a day's penalty behind the true     *)
(* one unless its card failed since; a lesson that is listed is due.       *)
ReviewsAreListed ==
  S!BatchIsComplete /\ S!CachedPriorityIsTrue /\ S!ListedIsDue

(* progress_service.js, review_service.js: only a read or a count that a   *)
(* write overtook, an event nobody heard or an emptying that failed leaves *)
(* an old row or old statistics in a cache, until it is next emptied.      *)
CachesAgree ==
  P!CacheAgreesWithoutRace /\ R!StatsAgree

(* progress-manager.js: no row holds a reward twice, whichever of several  *)
(* objects of one user is stored last.                                     *)
RewardedOnce == M!RewardedOnce

(* srs_engine.js: cards and the cache of results stay sound over every     *)
(* sequence of calls.                                                      *)
CardsAreSound == E!CardsAreSound

(* srs_engine.js: a successful answer never shortens the interval, over    *)
(* any mixture of SM-2 and Anki answers, adaptations and cached results.   *)
SuccessNeverShortens == E!SuccessNeverShortens
=============================================================================
