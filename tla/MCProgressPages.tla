------------------------- MODULE MCProgressPages --------------------------
(***************************************************************************)
(* What a learner has earned and the pages that show it, checked together. *)
(* The components share no state in the code beyond what each module       *)
(* models, so a behaviour exercises one of them.                           *)
(***************************************************************************)
EXTENDS Integers, Sequences, FiniteSets

CONSTANTS Calls, FreezesPerMonth, RequiredStreak, LastDay, StreakDays, None,
          Requests, Goal, MaxSets, No, Asks, MaxData, MaxAsked,
          Nothing, Updates, Reader, MaxBackups, MaxEvents, Words,
          MaxChanges, Lessons, CacheSize, Enough, Achievements,
          Target, HistoryKept, MaxUpdates, Missing, MinHours,
          Intervals, MaxHours, MaxReviews, Never, Increments,
          MaxCompleted, NoSnapshot, Types, MaxSize, Unsaved,
          ScreenLoads, Filters, Gone, Streaks, MaxCommands, BadgeA,
          BadgeB, BadgeRenders, HomeLoads, MaxDue, NoHome, Texts,
          WrongTexts, NoText

BadgeList == <<BadgeA, BadgeB>>

VARIABLES focus,  \* the component a behaviour exercises
          today, streak, cached_streak, saving, raced,
          challenge, generated, announced, cached_list, activeRequests,
          request, overlapped, data, onLine, offline_copy, stats_cache, ask,
          metrics, wasm_loaded, answered, stored, cached_profile, backups,
          operation, dispatching, dispatched, events, mixed, day, sessions,
          exercises, completed, last_updated, calculated, announced_stats,
          user_achievement, paid, updates, hour, lesson_progress,
          completed_lessons, metrics_history, increment, snapshot, unrecorded,
          disturbed, held, told, subscribed, row, unheard, screen_state,
          isOffline, cached_data, screen_load, background_sync, overtaken, broken,
          kept, config, drawn_streak, renderScheduled, isMounted,
          animationsEnabled, isDisposed, frames, observed, instance, commands,
          unlocked, display_state, shown_badges, badgeElements, renderCache,
          badge_render, badge_updates, compact_now, crossed, due, home_state,
          home_data, home_page, home_loads, home_closed, home_behind,
          form_text, saved_text, user_known, proxied, listening, isDirty,
          isSaving, isValid, isOnline, hasDraft, draft, validating, drafting,
          profile_load, profile_save, edit_closed, edited_meanwhile

K == INSTANCE Streaks WITH
       LastDay <- StreakDays, service_streak <- streak
H == INSTANCE ChallengeService
T == INSTANCE Statistics WITH
       MasteryHistoryKept <- HistoryKept,
       MetricsHistoryKept <- HistoryKept
P == INSTANCE Profiles
V == INSTANCE Achievements
S == INSTANCE ProgressScreens

(* What the constants of the code and the bounds are, the numbers of them. *)
ASSUME LimitsAssumption ==
  /\ FreezesPerMonth \in Nat \ {0} /\ StreakDays \in Nat /\ RequiredStreak \in 0..StreakDays
  /\ Goal \in Nat \ {0} /\ MaxSets \in Nat
  /\ IsFiniteSet(Asks) /\ {MaxData, MaxBackups, MaxEvents, MaxChanges, Lessons, LastDay} \subseteq Nat
  /\ CacheSize \in Nat \ {0} /\ Enough \in Nat /\ Reader \notin Updates
  /\ Target \in Nat \ {0} /\ {HistoryKept, MaxUpdates, MaxHours, MaxCompleted} \subseteq Nat
  /\ MinHours \in Nat \ {0} /\ Intervals \subseteq Nat /\ MaxReviews \in Nat \ {0}
  /\ IsFiniteSet(Increments) /\ IsFiniteSet(Types) /\ MaxSize \in Nat /\ Cardinality(Types) <= MaxSize
  /\ "all" \in Filters /\ {MaxCommands, MaxDue} \subseteq Nat /\ BadgeA # BadgeB

\* What an achievement, a list of them and the screen that shows them hold.
Model == [status : V!Statuses, current : 0..Target, percent : 0..100, history : Seq(Nat),
          completed_at : BOOLEAN, claimed_at : BOOLEAN]
HeldEntry == [type : Types, unlocked : BOOLEAN, dated : BOOLEAN]
HeldList == Seq(HeldEntry)
ScreenState == [isLoading : BOOLEAN, error : BOOLEAN, achievements : BOOLEAN,
                listed : Filters, filterType : Filters]

(* null, undefined and a screen that is gone are no data. *)
ASSUME NoDataAssumption ==
  /\ None \notin K!Rows /\ No \notin H!Rows /\ No \notin Requests
  /\ \A fields \in SUBSET Updates : fields # No
  /\ Nothing \notin Nat /\ Nothing \notin [of : Nat, offline : BOOLEAN]
  /\ Missing \notin Model /\ Unsaved \notin HeldList
  /\ NoSnapshot \notin [completed : Nat, history : Seq(Nat)]
  /\ Never \notin Nat /\ Gone \notin ScreenState /\ NoHome \notin Nat

Init ==
  /\ focus \in {"streaks", "challenges", "answers", "profile", "calculator",
               "rewards", "mastery", "metered", "held_list", "screen",
               "indicator", "badges", "home", "edit"}
  /\ K!ServiceInit /\ H!Init /\ T!ServiceInit /\ P!ServiceInit
  /\ T!CalculatorInit /\ V!ModelInit /\ T!MasteryInit /\ T!MetricsInit
  /\ V!HeldInit /\ S!ScreenInit /\ K!IndicatorInit /\ S!BadgesInit
  /\ S!HomeInit /\ P!EditInit
  /\ focus # "streaks" => streak = None
  /\ focus # "mastery" => lesson_progress.version = 4
  /\ focus # "screen" => ~cached_data /\ ~background_sync
  /\ focus # "indicator" => config = 1
  /\ focus # "edit" => isOnline /\ user_known /\ draft = NoText /\ saved_text = CHOOSE t \in Texts \ WrongTexts : TRUE

(* What each component keeps. *)
streak_vars == <<today, streak, cached_streak, saving, raced>>
challenge_vars == <<challenge, generated, announced, cached_list,
                    activeRequests, request, overlapped>>
answer_vars == <<data, onLine, offline_copy, stats_cache, ask, metrics,
                 wasm_loaded, answered>>
profile_vars == <<stored, cached_profile, backups, operation, dispatching,
                  dispatched, events, mixed>>
calculator_vars == <<day, sessions, exercises, completed, last_updated,
                     calculated, announced_stats>>
reward_vars == <<user_achievement, paid, updates>>
mastery_vars == <<hour, lesson_progress>>
metric_vars == <<completed_lessons, metrics_history, increment, snapshot,
                 unrecorded, disturbed>>
held_vars == <<held, told, subscribed, row, unheard>>
screen_vars == <<screen_state, isOffline, cached_data, screen_load,
                 background_sync, overtaken, kept, broken>>
indicator_vars == <<config, drawn_streak, renderScheduled, isMounted,
                    animationsEnabled, isDisposed, frames, observed,
                    instance, commands>>
badge_vars == <<unlocked, display_state, shown_badges, badgeElements,
                renderCache, badge_render, badge_updates, compact_now,
                crossed>>
home_vars == <<due, home_state, home_data, home_page, home_loads,
               home_closed, home_behind>>
edit_vars == <<form_text, saved_text, user_known, proxied, listening,
               isDirty, isSaving, isValid, isOnline, hasDraft, draft,
               validating, drafting, profile_load, profile_save, edit_closed,
               edited_meanwhile>>

StreaksStep ==
  /\ focus = "streaks" /\ K!ServiceNext
  /\ UNCHANGED <<focus, challenge_vars, answer_vars, profile_vars,
                 calculator_vars, reward_vars, mastery_vars, metric_vars,
                 held_vars, screen_vars, indicator_vars, badge_vars,
                 home_vars, edit_vars>>

ChallengesStep ==
  /\ focus = "challenges" /\ H!Next
  /\ UNCHANGED <<focus, streak_vars, answer_vars, profile_vars,
                 calculator_vars, reward_vars, mastery_vars, metric_vars,
                 held_vars, screen_vars, indicator_vars, badge_vars,
                 home_vars, edit_vars>>

AnswersStep ==
  /\ focus = "answers" /\ T!ServiceNext
  /\ UNCHANGED <<focus, streak_vars, challenge_vars, profile_vars,
                 calculator_vars, reward_vars, mastery_vars, metric_vars,
                 held_vars, screen_vars, indicator_vars, badge_vars,
                 home_vars, edit_vars>>

ProfileStep ==
  /\ focus = "profile" /\ P!ServiceNext
  /\ UNCHANGED <<focus, streak_vars, challenge_vars, answer_vars,
                 calculator_vars, reward_vars, mastery_vars, metric_vars,
                 held_vars, screen_vars, indicator_vars, badge_vars,
                 home_vars, edit_vars>>

CalculatorStep ==
  /\ focus = "calculator" /\ T!CalculatorNext
  /\ UNCHANGED <<focus, streak_vars, challenge_vars, answer_vars,
                 profile_vars, reward_vars, mastery_vars, metric_vars,
                 held_vars, screen_vars, indicator_vars, badge_vars,
                 home_vars, edit_vars>>

RewardsStep ==
  /\ focus = "rewards" /\ V!ModelNext
  /\ UNCHANGED <<focus, streak_vars, challenge_vars, answer_vars,
                 profile_vars, calculator_vars, mastery_vars, metric_vars,
                 held_vars, screen_vars, indicator_vars, badge_vars,
                 home_vars, edit_vars>>

MasteryStep ==
  /\ focus = "mastery" /\ T!MasteryNext
  /\ UNCHANGED <<focus, streak_vars, challenge_vars, answer_vars,
                 profile_vars, calculator_vars, reward_vars, metric_vars,
                 held_vars, screen_vars, indicator_vars, badge_vars,
                 home_vars, edit_vars>>

MeteredStep ==
  /\ focus = "metered" /\ T!MetricsNext
  /\ UNCHANGED <<focus, streak_vars, challenge_vars, answer_vars,
                 profile_vars, calculator_vars, reward_vars, mastery_vars,
                 held_vars, screen_vars, indicator_vars, badge_vars,
                 home_vars, edit_vars>>

Held_listStep ==
  /\ focus = "held_list" /\ V!HeldNext
  /\ UNCHANGED <<focus, streak_vars, challenge_vars, answer_vars,
                 profile_vars, calculator_vars, reward_vars, mastery_vars,
                 metric_vars, screen_vars, indicator_vars, badge_vars,
                 home_vars, edit_vars>>

ScreenStep ==
  /\ focus = "screen" /\ S!ScreenNext
  /\ UNCHANGED <<focus, streak_vars, challenge_vars, answer_vars,
                 profile_vars, calculator_vars, reward_vars, mastery_vars,
                 metric_vars, held_vars, indicator_vars, badge_vars,
                 home_vars, edit_vars>>

IndicatorStep ==
  /\ focus = "indicator" /\ K!IndicatorNext
  /\ UNCHANGED <<focus, streak_vars, challenge_vars, answer_vars,
                 profile_vars, calculator_vars, reward_vars, mastery_vars,
                 metric_vars, held_vars, screen_vars, badge_vars, home_vars,
                 edit_vars>>

BadgesStep ==
  /\ focus = "badges" /\ S!BadgesNext
  /\ UNCHANGED <<focus, streak_vars, challenge_vars, answer_vars,
                 profile_vars, calculator_vars, reward_vars, mastery_vars,
                 metric_vars, held_vars, screen_vars, indicator_vars,
                 home_vars, edit_vars>>

HomeStep ==
  /\ focus = "home" /\ S!HomeNext
  /\ UNCHANGED <<focus, streak_vars, challenge_vars, answer_vars,
                 profile_vars, calculator_vars, reward_vars, mastery_vars,
                 metric_vars, held_vars, screen_vars, indicator_vars,
                 badge_vars, edit_vars>>

EditStep ==
  /\ focus = "edit" /\ P!EditNext
  /\ UNCHANGED <<focus, streak_vars, challenge_vars, answer_vars,
                 profile_vars, calculator_vars, reward_vars, mastery_vars,
                 metric_vars, held_vars, screen_vars, indicator_vars,
                 badge_vars, home_vars>>

Next == StreaksStep \/ ChallengesStep \/ AnswersStep \/ ProfileStep
        \/ CalculatorStep \/ RewardsStep \/ MasteryStep \/ MeteredStep
        \/ Held_listStep \/ ScreenStep \/ IndicatorStep \/ BadgesStep
        \/ HomeStep \/ EditStep

vars == <<focus, streak_vars, challenge_vars, answer_vars, profile_vars,
          calculator_vars, reward_vars, mastery_vars, metric_vars, held_vars,
          screen_vars, indicator_vars, badge_vars, home_vars, edit_vars>>

Spec == Init /\ [][Next]_vars

-----------------------------------------------------------------------------
(* The values of the variables of the components. *)
TypeOK ==
  K!TypeOK /\ H!TypeOK /\ T!TypeOK /\ P!TypeOK /\ V!TypeOK /\ S!TypeOK

(* Streaks: freezes are paid for, no more days than passed, and the        *)
(* indicator draws the streak it was given.                                *)
StreaksAreEarned ==
  K!StreakIsEarned /\ K!DrawnIsConfigured

(* What was completed stays so: challenges are announced, achievements     *)
(* keep their dates, each type is held once, and mastery follows the       *)
(* answers.                                                                *)
CompletionsAreKept ==
  /\ H!CompletionIsAnnounced /\ V!CompletionIsKept
  /\ V!OneOfEachType /\ T!MasteryIsEarned

(* Statistics say of which data they are and are kept under their keys,    *)
(* and every lesson is recorded.                                           *)
StatsAreAccounted ==
  T!StatsAreAccounted /\ T!CacheHasKeysOnce /\ T!LessonsAreRecorded

(* stats_calculator.js: what is cached matches the progress it was         *)
(* calculated from.                                                        *)
StatsMatchProgress == T!StatsMatchProgress

(* profile_service.js: an update that was answered is in the profile. *)
UpdatesAreKept == P!UpdatesAreKept

(* The pages show what they loaded: no skeleton without a load, no edit    *)
(* taken for saved unless made during the save, every badge once.          *)
ScreensFollowTheirData ==
  S!ScreenSettles /\ S!BadgesAreShownOnce /\ S!PageFollowsState /\ P!EditsAreDirty
=============================================================================
