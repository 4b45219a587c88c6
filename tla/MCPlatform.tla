---------------------------- MODULE MCPlatform ----------------------------
(***************************************************************************)
(* The platform below the features, checked together: cache, offline       *)
(* queue, router, state, seeder, limits of operations, recovery of         *)
(* connections, migrations. The components share no state in the code      *)
(* beyond what each module models, so a behaviour exercises one of them.   *)
(***************************************************************************)
EXTENDS Integers, Sequences, FiniteSets

CONSTANTS Keys, CacheKeys, CacheCalls, LowCalls, CacheLimit, Queued,
          ReconnectAttempts, MaxChains, Paths, Navigations,
          MaxNavigation, MaxAborts, MaxHistory, MaxMisses, Actions,
          Kept, Stores, Unsaved_stores, Flows, Limit, Retries,
          Threshold, Operations, MaxOperations, RetryCount,
          TimeoutTicks, Starts, MaxTries, MaxAttempts, Watched, Repairless,
          MaxRetries, MaxRepairs, PoolSize, MaxFailures, Values,
          Connects, MaxSize, MaxRetry, StepCount, Migrations,
          MaxRollbacks, MaxGuarded, Users, LessonRows, BatchSize,
          MaxRuns, Nothing

SeederUses == {<<"vocabulary", "lessons">>}
AllSteps == 3
ReversibleSteps == {1, 3}
CacheLimits == {CacheLimit}

VARIABLES focus,  \* the component a behaviour exercises
          cache, accessOrder, warmingKeys, cache_stats, set_call, sweep,
          missed, disposed, status, chains, saves, queue, loading, read, enqueuing,
          syncInProgress, risked, cleared, alive, routes, page, signal,
          navigation, history, path_attempts, route_metrics, prefetch_queue,
          prefetching, served, state, action_history, forgotten, dispatching,
          transaction, snapshot, selector, selected, time_travel, restored,
          store, seeding, phase, options, seed_done, seed_failed, trying,
          seed_snapshots, restoring, flow, attempt, active,
          pending_operations, circuit, flow_failures, started, operation,
          operation_tries, active_operations, waiting, metrics, hooked, twice, down,
          start_ts, elapsed, timer_id, watch_stopped, ticking, timeouts,
          tries, stopped, timerOf, start, attempt_count,
          is_connected, abort_controller, loop, cancelled, heard, lateAttempt,
          auto_remove_failed, connections, retry_counts, interval, pings,
          repairs, givenUp, orphans, reconnects, check, free, leaked, failure_count,
          bound, running, healthy, pinging, key_rows, row_cache, row_requests,
          row_call, bypassed, current_size, connect, executed_steps, migrate,
          undone, inDb, stop_on_rollback_error, blocked, allowed, try,
          lowered, circuit_failures, circuit_open, reset_timer, guarded,
          version_history, current_version, version_call, step_rows, lost,
          version_restored, store_connection, cache_dirty, step_array,
          step_table, requests, store_call, batched, arrays, added,
          migration_history, apply, rollback, rollbacks, stop_on_error,
          overlapped, known, flags, ran, snapshots, run, mixed, initialized,
          config, config_history, at, next, undos, user_name, profile, lesson,
          before, step, position, processed, step_failed, report, runs,
          rewritten

C == INSTANCE CacheStrategy WITH
       Keys <- CacheKeys, Absent <- Nothing, stats <- cache_stats,
       call <- set_call
O == INSTANCE OfflineManager
R == INSTANCE Router WITH
       NoPage <- Nothing, attempts <- path_attempts,
       metrics <- route_metrics
S == INSTANCE StateManager WITH
       NoSnap <- Nothing
D == INSTANCE Database WITH
       Uses <- SeederUses, NoBackup <- Nothing, done <- seed_done,
       failed <- seed_failed, snapshots <- seed_snapshots,
       Calls <- Starts, NoValue <- Nothing, rows <- key_rows,
       cache <- row_cache, requests <- row_requests, call <- row_call,
       Migrates <- CacheCalls, StepCount <- AllSteps,
       Reversible <- ReversibleSteps
L == INSTANCE OperationLimits WITH
       failure_count <- flow_failures, tries <- operation_tries,
       stopped <- watch_stopped
E == INSTANCE Reconnection WITH
       NoStart <- Nothing, Loops <- Starts, NoLoop <- Nothing,
       StepCalls <- LowCalls, ConnectCalls <- Connects,
       FailureThreshold <- Threshold, retries <- allowed,
       failure_count <- circuit_failures, operation <- guarded
M == INSTANCE ConnectionHealth WITH
       Checks <- Starts
V == INSTANCE Migrations WITH
       Calls <- Starts, manager_migration_history <- version_history,
       manager_call <- version_call, inDb <- step_rows,
       restored <- version_restored, StoreCalls <- Starts,
       StepIds <- CacheLimits, NoId <- Nothing,
       connection <- store_connection, executed_steps <- step_array,
       rows <- step_table, Applies <- CacheCalls,
       queue_migration_history <- migration_history, Ids <- Migrations,
       Runs <- CacheCalls, executed <- flags,
       tracker_history <- config_history, tracker_at <- at,
       Lessons <- LessonRows, name <- user_name, failed <- step_failed

(* The limits the code is given, and what is none of its data.             *)
ASSUME LimitsAssumption ==
  /\ IsFiniteSet(CacheKeys) /\ IsFiniteSet(CacheCalls) /\ CacheLimit \in Nat \ {0}
  /\ IsFiniteSet(Flows) /\ Limit \in Nat /\ Retries \in Nat \ {0} /\ Threshold \in Nat \ {0}
  /\ IsFiniteSet(Operations) /\ MaxOperations \in Nat /\ RetryCount \in Nat
  /\ TimeoutTicks \in Nat \ {0}
  /\ IsFiniteSet(Starts) /\ MaxTries \in Nat \ {0} /\ MaxAttempts \in Nat \ {0}
  /\ MaxRetries \in Nat \ {0} /\ MaxRepairs \in Nat
  /\ PoolSize \in Nat /\ MaxFailures \in Nat \ {0} /\ MaxRetry \in Nat \ {0}
  /\ IsFiniteSet(Navigations) /\ MaxNavigation \in Nat /\ MaxAborts \in Nat
  /\ IsFiniteSet(Actions) /\ Kept \in Nat /\ ReconnectAttempts \in Nat \ {0}
  /\ IsFiniteSet(Connects) /\ MaxSize \in Nat /\ StepCount \in Nat
  /\ MaxRollbacks \in Nat /\ MaxGuarded \in Nat /\ BatchSize \in Nat \ {0} /\ MaxRuns \in Nat

(* The rows of a table are numbered from 1.                                *)
ASSUME RowsAssumption ==
  /\ IsFiniteSet(Users) /\ Users = 1..Cardinality(Users)
  /\ IsFiniteSet(LessonRows) /\ LessonRows = 1..Cardinality(LessonRows)

ASSUME NothingAssumption ==
  /\ Nothing \notin Starts
  /\ Nothing \notin [by : CacheCalls, life : {"fresh", "stale", "expired"}]

Init ==
  /\ focus \in {"cached", "offline", "routed", "states", "seeds", "flows",
               "timed", "watchdog", "reconnects", "tracked", "monitored",
               "checked", "wrapped", "migrated", "retried", "versions",
               "stored", "pending", "flagged", "steps"}
  /\ C!Init /\ O!Init /\ R!Init /\ S!Init
  /\ D!SeederInit /\ L!FlowInit /\ L!HandlerInit /\ L!WatchdogInit
  /\ E!ManagerInit /\ E!TrackerInit /\ M!MonitorInit /\ M!CheckerInit
  /\ D!WrapperInit /\ D!MigratorInit /\ E!RetryInit /\ V!ManagerInit
  /\ V!StoreInit /\ V!QueueInit /\ V!TrackerInit /\ V!StepsInit
  /\ focus # "seeds" => /\ \A s \in Stores : store[s] = {}
                       /\ options = [backup |-> FALSE, dry_run |-> FALSE, stop |-> FALSE, rollback |-> FALSE]
  /\ focus # "offline" => status = "online"
  /\ focus # "monitored" => ~auto_remove_failed
  /\ focus # "tracked" => heard
  /\ focus # "migrated" => ~stop_on_rollback_error
  /\ focus # "stored" => step_table = {}
  /\ focus # "pending" => ~stop_on_error
  /\ focus # "steps" => \A i \in LessonRows : lesson[i].valid

(* What each component keeps. *)
cached_vars == <<cache, accessOrder, warmingKeys, cache_stats, set_call,
                 sweep, missed, disposed>>
offline_vars == <<status, chains, saves, queue, loading, read, enqueuing,
                  syncInProgress, risked, cleared, alive>>
routed_vars == <<routes, page, signal, navigation, history, path_attempts,
                 route_metrics, prefetch_queue, prefetching, served>>
states_vars == <<state, action_history, forgotten, dispatching, transaction,
                 snapshot, selector, selected, time_travel, restored>>
seeds_vars == <<store, seeding, phase, options, seed_done, seed_failed,
                trying, seed_snapshots, restoring>>
flows_vars == <<flow, attempt, active, pending_operations, circuit,
                flow_failures, started>>
timed_vars == <<operation, operation_tries, active_operations, waiting,
                metrics, hooked, twice, down>>
watchdog_vars == <<start_ts, elapsed, timer_id, watch_stopped, ticking,
                   timeouts>>
reconnects_vars == <<tries, stopped, timerOf, start>>
tracked_vars == <<attempt_count, is_connected, abort_controller, loop,
                  cancelled, heard, lateAttempt>>
monitored_vars == <<auto_remove_failed, connections, retry_counts, interval,
                    pings, repairs, givenUp, orphans, reconnects>>
checked_vars == <<check, free, leaked, failure_count, bound, running,
                  healthy, pinging>>
wrapped_vars == <<key_rows, row_cache, row_requests, row_call, bypassed,
                  current_size, connect>>
migrated_vars == <<executed_steps, migrate, undone, inDb,
                   stop_on_rollback_error, blocked>>
retried_vars == <<allowed, try, lowered, circuit_failures, circuit_open,
                  reset_timer, guarded>>
versions_vars == <<version_history, current_version, version_call, step_rows,
                   lost, version_restored>>
stored_vars == <<store_connection, cache_dirty, step_array, step_table,
                 requests, store_call, batched>>
pending_vars == <<arrays, added, migration_history, apply, rollback,
                  rollbacks, stop_on_error, overlapped>>
flagged_vars == <<known, flags, ran, snapshots, run, mixed, initialized,
                  config, config_history, at, next, undos>>
steps_vars == <<user_name, profile, lesson, before, step, position,
                processed, step_failed, report, runs, rewritten>>

CachedStep ==
  /\ focus = "cached" /\ C!Next
  /\ UNCHANGED <<focus, offline_vars, routed_vars, states_vars, seeds_vars,
                 flows_vars, timed_vars, watchdog_vars, reconnects_vars,
                 tracked_vars, monitored_vars, checked_vars, wrapped_vars,
                 migrated_vars, retried_vars, versions_vars, stored_vars,
                 pending_vars, flagged_vars, steps_vars>>

OfflineStep ==
  /\ focus = "offline" /\ O!Next
  /\ UNCHANGED <<focus, cached_vars, routed_vars, states_vars, seeds_vars,
                 flows_vars, timed_vars, watchdog_vars, reconnects_vars,
                 tracked_vars, monitored_vars, checked_vars, wrapped_vars,
                 migrated_vars, retried_vars, versions_vars, stored_vars,
                 pending_vars, flagged_vars, steps_vars>>

RoutedStep ==
  /\ focus = "routed" /\ R!Next
  /\ UNCHANGED <<focus, cached_vars, offline_vars, states_vars, seeds_vars,
                 flows_vars, timed_vars, watchdog_vars, reconnects_vars,
                 tracked_vars, monitored_vars, checked_vars, wrapped_vars,
                 migrated_vars, retried_vars, versions_vars, stored_vars,
                 pending_vars, flagged_vars, steps_vars>>

StatesStep ==
  /\ focus = "states" /\ S!Next
  /\ UNCHANGED <<focus, cached_vars, offline_vars, routed_vars, seeds_vars,
                 flows_vars, timed_vars, watchdog_vars, reconnects_vars,
                 tracked_vars, monitored_vars, checked_vars, wrapped_vars,
                 migrated_vars, retried_vars, versions_vars, stored_vars,
                 pending_vars, flagged_vars, steps_vars>>

SeedsStep ==
  /\ focus = "seeds" /\ D!SeederNext
  /\ UNCHANGED <<focus, cached_vars, offline_vars, routed_vars, states_vars,
                 flows_vars, timed_vars, watchdog_vars, reconnects_vars,
                 tracked_vars, monitored_vars, checked_vars, wrapped_vars,
                 migrated_vars, retried_vars, versions_vars, stored_vars,
                 pending_vars, flagged_vars, steps_vars>>

FlowsStep ==
  /\ focus = "flows" /\ L!FlowNext
  /\ UNCHANGED <<focus, cached_vars, offline_vars, routed_vars, states_vars,
                 seeds_vars, timed_vars, watchdog_vars, reconnects_vars,
                 tracked_vars, monitored_vars, checked_vars, wrapped_vars,
                 migrated_vars, retried_vars, versions_vars, stored_vars,
                 pending_vars, flagged_vars, steps_vars>>

TimedStep ==
  /\ focus = "timed" /\ L!HandlerNext
  /\ UNCHANGED <<focus, cached_vars, offline_vars, routed_vars, states_vars,
                 seeds_vars, flows_vars, watchdog_vars, reconnects_vars,
                 tracked_vars, monitored_vars, checked_vars, wrapped_vars,
                 migrated_vars, retried_vars, versions_vars, stored_vars,
                 pending_vars, flagged_vars, steps_vars>>

WatchdogStep ==
  /\ focus = "watchdog" /\ L!WatchdogNext
  /\ UNCHANGED <<focus, cached_vars, offline_vars, routed_vars, states_vars,
                 seeds_vars, flows_vars, timed_vars, reconnects_vars,
                 tracked_vars, monitored_vars, checked_vars, wrapped_vars,
                 migrated_vars, retried_vars, versions_vars, stored_vars,
                 pending_vars, flagged_vars, steps_vars>>

ReconnectsStep ==
  /\ focus = "reconnects" /\ E!ManagerNext
  /\ UNCHANGED <<focus, cached_vars, offline_vars, routed_vars, states_vars,
                 seeds_vars, flows_vars, timed_vars, watchdog_vars,
                 tracked_vars, monitored_vars, checked_vars, wrapped_vars,
                 migrated_vars, retried_vars, versions_vars, stored_vars,
                 pending_vars, flagged_vars, steps_vars>>

TrackedStep ==
  /\ focus = "tracked" /\ E!TrackerNext
  /\ UNCHANGED <<focus, cached_vars, offline_vars, routed_vars, states_vars,
                 seeds_vars, flows_vars, timed_vars, watchdog_vars,
                 reconnects_vars, monitored_vars, checked_vars, wrapped_vars,
                 migrated_vars, retried_vars, versions_vars, stored_vars,
                 pending_vars, flagged_vars, steps_vars>>

MonitoredStep ==
  /\ focus = "monitored" /\ M!MonitorNext
  /\ UNCHANGED <<focus, cached_vars, offline_vars, routed_vars, states_vars,
                 seeds_vars, flows_vars, timed_vars, watchdog_vars,
                 reconnects_vars, tracked_vars, checked_vars, wrapped_vars,
                 migrated_vars, retried_vars, versions_vars, stored_vars,
                 pending_vars, flagged_vars, steps_vars>>

CheckedStep ==
  /\ focus = "checked" /\ M!CheckerNext
  /\ UNCHANGED <<focus, cached_vars, offline_vars, routed_vars, states_vars,
                 seeds_vars, flows_vars, timed_vars, watchdog_vars,
                 reconnects_vars, tracked_vars, monitored_vars, wrapped_vars,
                 migrated_vars, retried_vars, versions_vars, stored_vars,
                 pending_vars, flagged_vars, steps_vars>>

WrappedStep ==
  /\ focus = "wrapped" /\ D!WrapperNext
  /\ UNCHANGED <<focus, cached_vars, offline_vars, routed_vars, states_vars,
                 seeds_vars, flows_vars, timed_vars, watchdog_vars,
                 reconnects_vars, tracked_vars, monitored_vars, checked_vars,
                 migrated_vars, retried_vars, versions_vars, stored_vars,
                 pending_vars, flagged_vars, steps_vars>>

MigratedStep ==
  /\ focus = "migrated" /\ D!MigratorNext
  /\ UNCHANGED <<focus, cached_vars, offline_vars, routed_vars, states_vars,
                 seeds_vars, flows_vars, timed_vars, watchdog_vars,
                 reconnects_vars, tracked_vars, monitored_vars, checked_vars,
                 wrapped_vars, retried_vars, versions_vars, stored_vars,
                 pending_vars, flagged_vars, steps_vars>>

RetriedStep ==
  /\ focus = "retried" /\ E!RetryNext
  /\ UNCHANGED <<focus, cached_vars, offline_vars, routed_vars, states_vars,
                 seeds_vars, flows_vars, timed_vars, watchdog_vars,
                 reconnects_vars, tracked_vars, monitored_vars, checked_vars,
                 wrapped_vars, migrated_vars, versions_vars, stored_vars,
                 pending_vars, flagged_vars, steps_vars>>

VersionsStep ==
  /\ focus = "versions" /\ V!ManagerNext
  /\ UNCHANGED <<focus, cached_vars, offline_vars, routed_vars, states_vars,
                 seeds_vars, flows_vars, timed_vars, watchdog_vars,
                 reconnects_vars, tracked_vars, monitored_vars, checked_vars,
                 wrapped_vars, migrated_vars, retried_vars, stored_vars,
                 pending_vars, flagged_vars, steps_vars>>

StoredStep ==
  /\ focus = "stored" /\ V!StoreNext
  /\ UNCHANGED <<focus, cached_vars, offline_vars, routed_vars, states_vars,
                 seeds_vars, flows_vars, timed_vars, watchdog_vars,
                 reconnects_vars, tracked_vars, monitored_vars, checked_vars,
                 wrapped_vars, migrated_vars, retried_vars, versions_vars,
                 pending_vars, flagged_vars, steps_vars>>

PendingStep ==
  /\ focus = "pending" /\ V!QueueNext
  /\ UNCHANGED <<focus, cached_vars, offline_vars, routed_vars, states_vars,
                 seeds_vars, flows_vars, timed_vars, watchdog_vars,
                 reconnects_vars, tracked_vars, monitored_vars, checked_vars,
                 wrapped_vars, migrated_vars, retried_vars, versions_vars,
                 stored_vars, flagged_vars, steps_vars>>

FlaggedStep ==
  /\ focus = "flagged" /\ V!TrackerNext
  /\ UNCHANGED <<focus, cached_vars, offline_vars, routed_vars, states_vars,
                 seeds_vars, flows_vars, timed_vars, watchdog_vars,
                 reconnects_vars, tracked_vars, monitored_vars, checked_vars,
                 wrapped_vars, migrated_vars, retried_vars, versions_vars,
                 stored_vars, pending_vars, steps_vars>>

StepsStep ==
  /\ focus = "steps" /\ V!StepsNext
  /\ UNCHANGED <<focus, cached_vars, offline_vars, routed_vars, states_vars,
                 seeds_vars, flows_vars, timed_vars, watchdog_vars,
                 reconnects_vars, tracked_vars, monitored_vars, checked_vars,
                 wrapped_vars, migrated_vars, retried_vars, versions_vars,
                 stored_vars, pending_vars, flagged_vars>>

Next == CachedStep \/ OfflineStep \/ RoutedStep \/ StatesStep \/ SeedsStep
        \/ FlowsStep \/ TimedStep \/ WatchdogStep \/ ReconnectsStep
        \/ TrackedStep \/ MonitoredStep \/ CheckedStep \/ WrappedStep
        \/ MigratedStep \/ RetriedStep \/ VersionsStep \/ StoredStep
        \/ PendingStep \/ FlaggedStep \/ StepsStep

vars == <<focus, cached_vars, offline_vars, routed_vars, states_vars,
          seeds_vars, flows_vars, timed_vars, watchdog_vars, reconnects_vars,
          tracked_vars, monitored_vars, checked_vars, wrapped_vars,
          migrated_vars, retried_vars, versions_vars, stored_vars,
          pending_vars, flagged_vars, steps_vars>>

Spec == Init /\ [][Next]_vars

-----------------------------------------------------------------------------
(* The values of the variables of the components. *)
TypeOK ==
  C!TypeOK /\ O!TypeOK /\ R!TypeOK /\ S!TypeOK /\ D!TypeOK /\ L!TypeOK
  /\ E!TypeOK /\ M!TypeOK /\ V!TypeOK

(* cache_strategy.js, indexeddb_wrapper.js, migration_store.js: what is    *)
(* counted is what is cached, and what is held in memory is what is        *)
(* stored.                                                                 *)
CachesAreAccounted ==
  C!CacheIsAccounted /\ D!CacheIsRow /\ V!ArrayIsStored

(* offline_manager.js: a request whose write did not fail or come too late *)
(* is kept until it is cleared, and a lost connection is tried again;      *)
(* data_seeder.js: what a failed seed wrote is undone where its backup has *)
(* rows.                                                                   *)
RequestsAreKept ==
  O!RequestsAreKept /\ O!ReconnectingIsTried /\ D!SeedingIsUndone

(* router.js, state_manager.js: history, cache and counters explain the    *)
(* page and the state.                                                     *)
NavigationExplainsState ==
  R!NavigationIsAccounted /\ S!HistoryExplainsState

(* lesson_orchestrator.js, timeout_handler.js, timeout_watchdog.js: places *)
(* of a limit are used and given back, a watch ends.                       *)
PlacesAreKept ==
  L!PlacesAreUsed /\ L!PlacesAreAccounted /\ L!WatchEnds

(* reconnect.js, reconnect_tracker.js, health_monitor.js,                  *)
(* health_checker.js: a stop ends the wait of a loop that is alone, a      *)
(* cancelled loop tries no more, a connection with a reconnect is given up *)
(* for reconnects that were begun or wait, checks are accounted for.       *)
ConnectionsAreTended ==
  E!StopIsObeyed /\ E!CancelIsObeyed /\ M!FailuresAreTried /\ M!ChecksAreAccounted

(* db_migrator.js and core/db/migration: what the version, the history and *)
(* the flags say happened to the database happened; rows passed are kept.  *)
MigrationsAreAccounted ==
  /\ D!FailureLeavesNothing /\ V!VersionIsApplied /\ V!AddedIsTried
  /\ V!FlagsAreTrue /\ V!RecordsAreKept /\ E!RetriesEnd
=============================================================================
