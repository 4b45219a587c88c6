------------------------ MODULE MCPlatformInvariants ------------------------
(***************************************************************************)
(* What is invariant in each component of the platform, strong enough to   *)
(* be kept by each of its steps: its types, what relates its variables,    *)
(* and what the run's invariants of MCPlatform follow from.  With IInv as  *)
(* an INVARIANT of MCPlatform_platform.cfg TLC checks them on the run's    *)
(* instance; MCPlatformProofs proves them.                                 *)
(***************************************************************************)
EXTENDS MCPlatform

-----------------------------------------------------------------------------
(***************************************************************************)
(* Queues without doubles, and a queue without its last, and the last.     *)
(***************************************************************************)
Distinct(s) == \A i, j \in 1..Len(s) : s[i] = s[j] => i = j
Members(s) == {s[i] : i \in 1..Len(s)}
WithoutLast(s) == SubSeq(s, 1, Len(s) - 1)
LastOf(s) == s[Len(s)]

-----------------------------------------------------------------------------
(***************************************************************************)
(* lesson_orchestrator.js: the places taken are the flows that run, and a  *)
(* flow waits only when all of them are.                                   *)
(***************************************************************************)
FlowAts == {"none", "call", "get_lesson", "get_start", "get_exercises",
            "test_lesson", "test_start", "test_exercises"}
FlowIs(s) == {f \in Flows : flow[f] = s}
FlowInv ==
  /\ flow \in [Flows -> {"free", "pending", "running"}]
  /\ attempt \in [Flows -> [at : FlowAts, tries : 0..Retries]]
  /\ active \in 0..Limit /\ flow_failures \in 0..Threshold
  /\ circuit \in {"CLOSED", "OPEN", "HALF_OPEN"}
  /\ active = Cardinality(FlowIs("running"))
  /\ pending_operations \in Seq(Flows) /\ Distinct(pending_operations)
  /\ Members(pending_operations) = FlowIs("pending")
  /\ pending_operations # <<>> => active = Limit

-----------------------------------------------------------------------------
(***************************************************************************)
(* timeout_handler.js: the places are those of the operations that run or  *)
(* have failed, and while one waits, as many as there are places run, have *)
(* failed or were woken: a failure keeps its place, a success hands it on. *)
(***************************************************************************)
Doing(f, s) == {o \in Operations : f[o] = s}
OperationStates == {"new", "queued", "woken", "forgotten", "running", "done", "failed"}
HandlerTypes ==
  /\ operation \in [Operations -> OperationStates]
  /\ operation_tries \in [Operations -> 0..RetryCount + 1]
  /\ down \in {"no", "waits", "done"}
  /\ waiting \in Seq(Operations)
  /\ metrics \in [total : Nat, success : Nat, failed : Nat]
  /\ hooked \subseteq Doing(operation, "running") /\ twice \in Nat
HandlerQueue ==
  Distinct(waiting) /\ Members(waiting) = Doing(operation, "queued")
HandlerCounts ==
  /\ active_operations = Cardinality(Doing(operation, "running")) + Cardinality(Doing(operation, "failed"))
  /\ metrics.failed = Cardinality(Doing(operation, "failed"))
  /\ metrics.total + twice + Cardinality(hooked)
       = metrics.success + metrics.failed + Cardinality(Doing(operation, "running"))
HandlerWakes ==
  Doing(operation, "queued") # {} =>
    active_operations + Cardinality(Doing(operation, "woken")) >= MaxOperations
HandlerInv == HandlerTypes /\ HandlerQueue /\ HandlerCounts /\ HandlerWakes

-----------------------------------------------------------------------------
(***************************************************************************)
(* timeout_watchdog.js: a watch that was started ticks until its time is   *)
(* over, and what is left of its last tick stops it.                       *)
(***************************************************************************)
WatchIsTimed ==
  /\ elapsed \in 0..TimeoutTicks /\ ticking \in {"none", "tick", "timeout"}
  /\ timeouts \in 0..1
WatchIsOn ==
  /\ start_ts \in BOOLEAN /\ timer_id \in BOOLEAN /\ watch_stopped \in BOOLEAN
  /\ timer_id = ~watch_stopped
  /\ ~watch_stopped => start_ts
WatchGoesOn == ~watch_stopped /\ ticking # "timeout" => elapsed < TimeoutTicks
WatchdogInv == WatchIsTimed /\ WatchIsOn /\ WatchGoesOn

-----------------------------------------------------------------------------
(***************************************************************************)
(* reconnect.js: beyond what its properties say, the counter passes the    *)
(* largest number of tries only once for each loop that failed.            *)
(***************************************************************************)
StartStates == {"idle", "creating", "waiting", "lost", "connected", "stopped", "failed"}
FailedStarts == {k \in Starts : start[k] = "failed"}
ManagerTypes ==
  /\ tries \in Nat /\ stopped \in BOOLEAN /\ timerOf \in Starts \cup {Nothing}
  /\ start \in [Starts -> StartStates]
TriesAreBounded == tries <= MaxTries + Cardinality(FailedStarts)
ATimerWaits ==
  /\ stopped => timerOf = Nothing
  /\ timerOf # Nothing => start[timerOf] = "waiting"
  /\ \A k \in Starts : start[k] = "waiting" =>
       timerOf = k \/ \E j \in Starts \ {k} : start[j] # "idle"
ManagerInv == ManagerTypes /\ TriesAreBounded /\ ATimerWaits

-----------------------------------------------------------------------------
(***************************************************************************)
(* reconnect_tracker.js: before any cancellation a loop that runs is the   *)
(* one the controller is of.                                               *)
(***************************************************************************)
LoopStates == {"idle", "refused", "connecting", "delaying", "done", "threw"}
TrackerTypes ==
  /\ attempt_count \in 0..MaxAttempts /\ is_connected \in BOOLEAN
  /\ abort_controller \in Starts \cup {Nothing} /\ loop \in [Starts -> LoopStates]
  /\ cancelled \subseteq Starts /\ heard \in BOOLEAN /\ lateAttempt = FALSE
LoopRuns(k) == loop[k] \in {"connecting", "delaying"}
ControllersLoop ==
  abort_controller # Nothing =>
    LoopRuns(abort_controller) \/ (loop[abort_controller] = "threw" /\ ~heard)
OneLoopRuns == cancelled = {} => \A k \in Starts : LoopRuns(k) => k = abort_controller
TrackerInv == TrackerTypes /\ ControllersLoop /\ OneLoopRuns

-----------------------------------------------------------------------------
(***************************************************************************)
(* health_monitor.js: what is worked on and not watched was removed        *)
(* meanwhile, with auto_remove_failed nothing is kept as failed; what is   *)
(* counted of a connection with a reconnect was begun or waits.            *)
(***************************************************************************)
MonitorTypes ==
  /\ auto_remove_failed \in BOOLEAN /\ interval \in BOOLEAN
  /\ connections \subseteq Watched /\ givenUp \subseteq Watched /\ orphans \subseteq Watched
  /\ auto_remove_failed => givenUp = {}
CountsAreTyped ==
  /\ DOMAIN retry_counts \subseteq Watched
  /\ retry_counts \in [DOMAIN retry_counts -> 0..MaxRetries]
PingsAreTyped ==
  /\ DOMAIN pings \subseteq Watched
  /\ pings \in [DOMAIN pings -> {"sent", "healthy", "failed"}]
RepairsAreTyped ==
  /\ repairs \in [Watched -> [waiting : Nat, reconnecting : Nat]]
  /\ \A c \in Watched : repairs[c].waiting + repairs[c].reconnecting <= MaxRepairs
GivenUpAreTried == \A c \in givenUp : c \in DOMAIN retry_counts /\ retry_counts[c] = MaxRetries
Tried(c) == IF c \in DOMAIN retry_counts THEN retry_counts[c] ELSE 0
ReconnectsAreTyped == reconnects \in [Watched -> 0..MaxRetries]
ReconnectsAreCounted ==
  \A c \in Watched \ Repairless : Tried(c) <= reconnects[c] + repairs[c].waiting
Repairing(c) == repairs[c].waiting + repairs[c].reconnecting > 0
RemovedAreOrphans ==
  /\ DOMAIN retry_counts \ connections \subseteq orphans
  /\ DOMAIN pings \ connections \subseteq orphans
  /\ \A c \in Watched \ connections : Repairing(c) => c \in orphans
RepairsAreCounted ==
  \A c \in connections \ orphans : Repairing(c) => c \in DOMAIN retry_counts
MonitorInv ==
  /\ MonitorTypes /\ CountsAreTyped /\ PingsAreTyped /\ RepairsAreTyped
  /\ GivenUpAreTried /\ RemovedAreOrphans /\ RepairsAreCounted
  /\ ReconnectsAreTyped /\ ReconnectsAreCounted

-----------------------------------------------------------------------------
(***************************************************************************)
(* health_checker.js: each connection that is lost, and each failure that  *)
(* is counted, belongs to a check of its own, and the last failure of a    *)
(* full count was answered late or as degraded.                            *)
(***************************************************************************)
CheckStates == {"idle", "acquiring", "late", "ok", "failed", "degraded", "gone"}
Ended(f, T) == {c \in Starts : f[c] \in T}
Keepers == {"ok", "gone"}
Failures == {"late", "failed", "degraded", "gone"}
CheckerTypes ==
  /\ check \in [Starts -> CheckStates]
  /\ healthy \in {"unknown", "yes", "no"} /\ pinging \in {"none", "own", "copy"}
  /\ bound \in BOOLEAN /\ running \in BOOLEAN
PoolIsShared == free \in Nat /\ leaked \in Nat /\ free + leaked = PoolSize
LeaksAreOwned == leaked <= Cardinality(Ended(check, Keepers))
FailuresAreOwned == failure_count \in Nat /\ failure_count <= Cardinality(Ended(check, Failures))
FullCountIsTold ==
  failure_count >= MaxFailures => \E c \in Starts : check[c] \in {"late", "gone", "degraded"}
CheckerInv ==
  CheckerTypes /\ PoolIsShared /\ LeaksAreOwned /\ FailuresAreOwned /\ FullCountIsTold

-----------------------------------------------------------------------------
(***************************************************************************)
(* migration_retry.js, connection_retry.js, migration_circuit.js: a call   *)
(* that goes on has failed no more often than its options allow, unless    *)
(* they were lowered; the timer runs exactly while the circuit is open.    *)
(***************************************************************************)
RetryCalls == LowCalls \cup Connects
TryStates == {"idle", "trying", "waiting", "ok", "error", "nothing"}
GuardedStates == {"idle", "running", "refused", "ok", "error"}
TriesAllowed(k) == IF k \in LowCalls THEN MaxRetry + 1 ELSE MaxRetry
RetryTypes ==
  /\ allowed \in 0..MaxRetry /\ lowered \in BOOLEAN
  /\ try \in [RetryCalls -> [at : TryStates, n : 0..MaxRetry + 1]]
TriesGoOn ==
  /\ \A k \in RetryCalls : try[k].at \in {"idle", "trying", "waiting"} => try[k].n < TriesAllowed(k)
  /\ \A k \in RetryCalls : try[k].at = "error" /\ ~lowered => try[k].n = TriesAllowed(k)
  /\ \A k \in RetryCalls : try[k].at = "nothing" => lowered
OptionsAreLowered == ~lowered => allowed = MaxRetry
CircuitTypes ==
  /\ circuit_failures \in Nat /\ circuit_open \in BOOLEAN /\ reset_timer \in BOOLEAN
  /\ guarded \in [Operations -> GuardedStates]
CircuitIsTimed == circuit_open = reset_timer
CircuitOpens == circuit_failures >= Threshold => circuit_open
CircuitInv == CircuitTypes /\ CircuitIsTimed /\ CircuitOpens
RetryInv == RetryTypes /\ TriesGoOn /\ OptionsAreLowered /\ CircuitInv

-----------------------------------------------------------------------------
(***************************************************************************)
(* router.js: each counter of the metrics counts its own share of the      *)
(* navigations, and each entry of the history is a hit or a navigation.    *)
(***************************************************************************)
NavigationStates ==
  [at : {"none", "middlewares", "component"}, path : Paths \cup {Nothing}, signal : Nat]
IdleNavigation == [at |-> "none", path |-> Nothing, signal |-> 0]
UnderWay(f) == {n \in Navigations : f[n] # IdleNavigation}
EntriesOf(h, c) == {i \in 1..Len(h) : h[i].cached = c}
RouterTypes ==
  /\ routes \subseteq Paths /\ signal \in 0..MaxAborts
  /\ path_attempts \in [Paths -> 0..MaxNavigation]
  /\ navigation \in [Navigations -> NavigationStates]
  /\ history \in Seq([path : Paths \cup {Nothing}, cached : BOOLEAN])
  /\ prefetch_queue \in Seq(Paths) /\ prefetching \in BOOLEAN
MetricsAreTyped == route_metrics \in [hits : Nat, misses : Nat, navigations : Nat, errors : Nat]
ServedIsValid == served \in {Nothing, signal}
MissesAreCounted ==
  route_metrics.misses = route_metrics.navigations + route_metrics.errors + Cardinality(UnderWay(navigation))
HistoryIsCounted ==
  /\ Cardinality(EntriesOf(history, TRUE)) = route_metrics.hits
  /\ Cardinality(EntriesOf(history, FALSE)) = route_metrics.navigations
PathsArePrefetched == prefetch_queue # <<>> => prefetching
RouterInv ==
  /\ RouterTypes /\ MetricsAreTyped /\ ServedIsValid /\ MissesAreCounted
  /\ HistoryIsCounted /\ PathsArePrefetched

-----------------------------------------------------------------------------
(***************************************************************************)
(* state_manager.js: an action is in the history, or dropped from it, once *)
(* and only after its dispatch, until a transaction puts a state back.     *)
(***************************************************************************)
Transactions == [at : {"none", "open", "commit"}, initial_state : SUBSET Actions, changes : Seq(Actions)]
StateTypes ==
  /\ state \subseteq Actions /\ forgotten \subseteq Actions
  /\ action_history \in Seq(Actions) /\ Len(action_history) <= Kept
  /\ dispatching \in [Actions -> {"new", "middlewares", "over"}]
  /\ snapshot = Nothing \/ snapshot \subseteq Actions
TransactionIsTyped ==
  transaction \in Transactions /\ (transaction.at = "commit" => transaction.changes # <<>>)
Carries(h, dropped) ==
  Distinct(h) /\ Members(h) \cap dropped = {}
HistoryCarries ==
  ~restored => /\ Carries(action_history, forgotten)
               /\ \A a \in Actions : a \in Members(action_history) \cup forgotten => dispatching[a] = "over"
               /\ state = Members(action_history) \cup forgotten
               /\ Len(action_history) + Cardinality(forgotten) = Cardinality(state)
StateInv == StateTypes /\ TransactionIsTyped /\ HistoryCarries

-----------------------------------------------------------------------------
(***************************************************************************)
(* offline_manager.js: what was sent to the queue is there and in the last *)
(* write, and once in a write in the later ones, or it is at risk; who is  *)
(* reconnecting has a chain.                                               *)
(***************************************************************************)
Entered(r) == enqueuing[r] \in {"after", "done"}
OfflineTypes ==
  /\ status \in {"online", "offline", "reconnecting"} /\ chains \in Seq(1..ReconnectAttempts)
  /\ saves \in Seq(Seq(Queued)) /\ saves # <<>> /\ queue \in Seq(Queued) /\ read \in Seq(Queued)
  /\ enqueuing \in [Queued -> {"new", "before", "after", "done"}]
  /\ loading \in BOOLEAN /\ alive \in BOOLEAN /\ syncInProgress \in BOOLEAN
QueuesWereEntered ==
  /\ \A r \in Members(queue) \cup Members(read) : Entered(r)
  /\ \A i \in 1..Len(saves) : \A r \in Members(saves[i]) : Entered(r)
Held(r, w) ==
  /\ r \in Members(w[Len(w)])
  /\ \A i, j \in 1..Len(w) : i <= j /\ r \in Members(w[i]) => r \in Members(w[j])
RequestsAreHeld ==
  \A r \in Queued \ (risked \cup cleared) :
    Entered(r) => /\ Held(r, saves) /\ (loading => r \in Members(saves[1]))
                  /\ r \in Members(IF loading THEN read ELSE queue)
SyncsHadRequests == syncInProgress => \E r \in Queued : Entered(r)
OfflineInv ==
  /\ OfflineTypes /\ QueuesWereEntered /\ RequestsAreHeld /\ SyncsHadRequests
  /\ O!ReconnectingIsTried

-----------------------------------------------------------------------------
(***************************************************************************)
(* data_seeder.js: who seeds has begun and has not ended; a store that is  *)
(* tried is ready; until it is lost the backup is in the stores, and what  *)
(* was restored is as it was.                                              *)
(***************************************************************************)
Contents == [Stores -> SUBSET {"before", "seeded"}]
UsesAreOver(n) == \A m \in Stores : <<n, m>> \in SeederUses => m \in seed_done \cup seed_failed
SeederTypes ==
  /\ store \in Contents /\ (seed_snapshots = Nothing \/ seed_snapshots \in Contents)
  /\ options \in [backup : BOOLEAN, dry_run : BOOLEAN, stop : BOOLEAN, rollback : BOOLEAN]
  /\ seed_done \subseteq Stores /\ seed_failed \subseteq Stores /\ restoring \subseteq Stores
SeedingIsUnderWay == seeding <=> phase \in {"backup", "stuck", "seeding", "restoring"}
TriedIsReady ==
  trying # D!NoStore =>
    phase = "seeding" /\ trying \in [name : Stores, tries : 1..3] /\ UsesAreOver(trying.name)
DoneIsReady == \A n \in seed_done : UsesAreOver(n)
BackupIsHeld ==
  phase # "lost" /\ seed_snapshots # Nothing => \A n \in Stores : seed_snapshots[n] \subseteq store[n]
RestoredIsBackup ==
  /\ phase = "restoring" => seed_snapshots # Nothing
  /\ phase # "restoring" => restoring = {}
  /\ phase = "restoring" \/ (phase = "error" /\ seed_snapshots # Nothing /\ options.rollback) =>
       \A n \in Stores \ (Unsaved_stores \cup restoring) :
         seed_snapshots[n] # {} => store[n] = seed_snapshots[n]
SeederInv ==
  /\ SeederTypes /\ SeedingIsUnderWay /\ TriedIsReady /\ DoneIsReady
  /\ BackupIsHeld /\ RestoredIsBackup

-----------------------------------------------------------------------------
(***************************************************************************)
(* cache_strategy.js: what is kept beside the entries agrees with them,    *)
(* and the entries and the calls about to insert are fewer than the limit  *)
(* and the calls, unless an eviction found its victim gone.                *)
(***************************************************************************)
Lives == {"fresh", "stale", "expired"}
Entries == [by : CacheCalls, life : Lives]
SetAts == {"none", "victim", "evict", "insert", "value"}
SetCalls == [at : SetAts, key : CacheKeys \cup {Nothing}, victim : CacheKeys \cup {Nothing}]
Inserting == {c \in CacheCalls : set_call[c].at = "insert"}
CacheTypes ==
  /\ cache \in [CacheKeys -> Entries \cup {Nothing}]
  /\ accessOrder \in Seq(CacheKeys) /\ warmingKeys \subseteq CacheKeys /\ sweep \subseteq CacheKeys
  /\ set_call \in [CacheCalls -> SetCalls] /\ missed \in BOOLEAN /\ disposed \in BOOLEAN
CallsHaveKeys ==
  \A c \in CacheCalls : /\ set_call[c].at # "none" => set_call[c].key \in CacheKeys
                        /\ set_call[c].at = "evict" => set_call[c].victim \in CacheKeys
StatsAre(m) == cache_stats = [size |-> Cardinality(C!Cached), memoryUsage |-> m]
MemoryIsKept ==
  StatsAre(Cardinality(C!Low) + 3 * Cardinality(C!Cached \ C!Low)) \/ StatsAre(Nothing)
OrderIsKept ==
  Members(accessOrder) = C!Cached /\ Distinct(accessOrder) /\ warmingKeys \subseteq C!Cached
CacheHasRoom ==
  ~missed => Cardinality(C!Cached) + Cardinality(Inserting) < CacheLimit + Cardinality(CacheCalls)
CacheInv ==
  CacheTypes /\ CallsHaveKeys /\ (disposed \/ MemoryIsKept) /\ OrderIsKept /\ CacheHasRoom

-----------------------------------------------------------------------------
(***************************************************************************)
(* indexeddb_wrapper.js: what a call is about stays known while its request *)
(* is served, and a call that waits for another try has one.               *)
(***************************************************************************)
RowCalls == [op : {"get", "put", "delete", "bulk", "none"}, key : Keys \cup {Nothing},
             value : Values \cup {Nothing}, at : {"idle", "waiting", "delay", "done", "failed"},
             tries : 0..MaxTries]
WrapperTypes ==
  /\ key_rows \in [Keys -> Values \cup {Nothing}] /\ row_cache \in [Keys -> Values \cup {Nothing}]
  /\ bypassed \subseteq Keys
CallsAreTyped == row_requests \in Seq(Starts) /\ row_call \in [Starts -> RowCalls]
AskedAreKnown ==
  /\ \A c \in Members(row_requests) : row_call[c].at # "idle"
  /\ \A c \in Starts : row_call[c].at # "idle" => row_call[c].op # "none" /\ row_call[c].key \in Keys
  /\ \A c \in Starts : row_call[c].at = "delay" => row_call[c].tries # MaxTries
CachedAreRows ==
  \A k \in Keys : row_cache[k] # Nothing /\ k \notin bypassed => row_cache[k] = key_rows[k]
Placed == {c \in Connects : connect[c] \in {"creating", "open", "failed"}}
PlacesAreTaken ==
  /\ connect \in [Connects -> {"idle", "creating", "polling", "open", "failed"}]
  /\ current_size \in 0..MaxSize /\ current_size = Cardinality(Placed)
WrapperInv == WrapperTypes /\ CallsAreTyped /\ AskedAreKnown /\ CachedAreRows /\ PlacesAreTaken

-----------------------------------------------------------------------------
(***************************************************************************)
(* step_v1_to_v2.js, step_v2_to_v3.js, step_v3_to_v4.js: a user whose turn *)
(* comes was rewritten by an earlier run at most; the cursor of the second *)
(* step moves by one until its first batch is full; a lesson the cursor of *)
(* the third did not reach is as it was.                                   *)
(***************************************************************************)
LessonTypes == [valid : BOOLEAN, v3 : BOOLEAN, v4 : BOOLEAN]
RecordTypes ==
  /\ lesson \in [LessonRows -> LessonTypes] /\ before \in [LessonRows -> LessonTypes]
  /\ step \in {"none", "v1_to_v2", "v2_to_v3", "v3_to_v4"} /\ position \in Nat \ {0} /\ processed \in Nat
  /\ step_failed \in Nat /\ report \in {"none", "completed", "threw", "timeout", "swallowed"}
  /\ runs \in 0..MaxRuns
UserTypes ==
  /\ user_name \in [Users -> BOOLEAN] /\ profile \in [Users -> {"absent", "named", "empty"}]
  /\ rewritten \in [Users -> Nat]
UsersAreRewritten == \A u \in Users :
  /\ rewritten[u] <= runs
  /\ rewritten[u] = 0 => user_name[u]
  /\ rewritten[u] = 1 => profile[u] = "named"
  /\ step = "v1_to_v2" /\ position <= u => rewritten[u] < runs
FirstBatchIsWhole == step = "v2_to_v3" =>
  /\ (position = processed + 1 /\ processed < BatchSize) \/ (processed >= BatchSize /\ position > BatchSize)
  /\ \A i \in LessonRows : i < position /\ i <= BatchSize /\ lesson[i].valid => lesson[i].v3
Migrated == {i \in LessonRows : i < position /\ lesson[i].v4 /\ ~before[i].v4}
RestIsAsBefore == step = "v3_to_v4" =>
  /\ \A i \in LessonRows : i < position \/ lesson[i].v4 = before[i].v4
  /\ Cardinality(Migrated) <= processed
OnlyValid(rows) == \A i \in LessonRows : rows[i].v3 \/ rows[i].v4 => rows[i].valid
RecordInv ==
  /\ RecordTypes /\ UserTypes /\ UsersAreRewritten /\ FirstBatchIsWhole /\ RestIsAsBefore
  /\ OnlyValid(lesson) /\ OnlyValid(before)

-----------------------------------------------------------------------------
(***************************************************************************)
(* migration_tracker.js, migration_guard.js: there is a copy of the list   *)
(* for each execution that goes on or ended well; while nothing overlaps   *)
(* the last copy is the list; who will flag an object of the list of now   *)
(* has its migration in it.                                                *)
(***************************************************************************)
Copies == [known : SUBSET Migrations, executed : SUBSET Migrations]
RunTypes == [id : Migrations \cup {"none"}, at : {"idle", "running", "done", "failed"}, list : Nat]
FlagTypes ==
  /\ known \subseteq Migrations /\ flags \subseteq known /\ ran \subseteq Migrations /\ mixed \in BOOLEAN
  /\ snapshots \in Seq(Copies) /\ run \in [CacheCalls -> RunTypes]
CopiesAreLists == \A i \in 1..Len(snapshots) : snapshots[i].executed \subseteq snapshots[i].known
FailedRuns == {k \in CacheCalls : run[k].at = "failed"}
CopiedRuns == {k \in CacheCalls : run[k].at \in {"running", "done"}}
CopiesAreCounted == Len(snapshots) = Cardinality(CopiedRuns)
RunningAreKnown == \A k \in CacheCalls : run[k].at = "running" =>
  /\ run[k].list <= Cardinality(FailedRuns) /\ run[k].id \in Migrations
  /\ run[k].list = Cardinality(FailedRuns) => run[k].id \in known
AloneIsTrue == ~mixed =>
  /\ flags = ran
  /\ \A k \in CacheCalls : run[k].at = "running" =>
       /\ \A j \in CacheCalls : run[j].at = "running" => j = k
       /\ run[k].list = Cardinality(FailedRuns) /\ Len(snapshots) > 0
       /\ snapshots[Len(snapshots)] = [known |-> known, executed |-> flags]
GuardTypes ==
  /\ initialized \in BOOLEAN /\ config \in Seq(Migrations) /\ config_history \in Seq(Seq(Migrations))
  /\ at \in {"idle", "running", "undoing"} /\ next \in Nat /\ undos \in 0..MaxGuarded
IsBeginning(s, t) == Len(s) <= Len(t) /\ s = SubSeq(t, 1, Len(s))
HistoryBegins == \A i \in 1..Len(config_history) : IsBeginning(config_history[i], config)
FlagInv ==
  /\ FlagTypes /\ CopiesAreLists /\ CopiesAreCounted /\ RunningAreKnown /\ AloneIsTrue
  /\ GuardTypes /\ HistoryBegins

-----------------------------------------------------------------------------
(***************************************************************************)
(* migration_store.js, the queue: a loop that is alone walks the current   *)
(* array, in which no migration is twice; those it passed were tried once, *)
(* the others never.                                                       *)
(***************************************************************************)
Tries == [id : Migrations, success : BOOLEAN]
ApplyTypes == [at : {"idle", "executing", "done"}, array : Nat, i : Nat]
QueueTypes ==
  /\ arrays \in Seq(Seq(Migrations)) /\ arrays # <<>> /\ added \subseteq Migrations
  /\ migration_history \in Seq(Tries)
QueueFlags == overlapped \in BOOLEAN /\ stop_on_error \in BOOLEAN
Executes(k) == apply[k].at = "executing"
LoopsAreTyped ==
  /\ apply \in [CacheCalls -> ApplyTypes]
  /\ \A k \in CacheCalls : Executes(k) =>
       apply[k].array \in 1..Len(arrays) /\ apply[k].i \in 1..Len(arrays[apply[k].array])
RollbackIsTyped ==
  /\ rollback \in [at : {"idle", "rolling"}, i : Nat, idx : Nat] /\ rollbacks \in 0..MaxRollbacks
  /\ rollback.at = "rolling" => rollbacks # 0
QueueIsAlone == ~overlapped =>
  /\ \A k \in CacheCalls : Executes(k) =>
       /\ apply[k].array = Len(arrays) /\ rollback.at # "rolling"
       /\ \A j \in CacheCalls : Executes(j) => j = k
  /\ rollback.at = "rolling" => rollback.i = Len(migration_history)
TriesOf(tried, m) == {i \in 1..Len(tried) : tried[i].id = m}
Waiting == LastOf(arrays)
PassedAreTried(tried, array, i) == \A n \in 1..Len(array) :
  /\ n < i => Cardinality(TriesOf(tried, array[n])) = 1
  /\ ~(n < i) => TriesOf(tried, array[n]) = {}
AddedAreTried == ~overlapped /\ ~stop_on_error /\ rollbacks = 0 =>
  /\ \A m \in added : m \notin Members(Waiting) => Cardinality(TriesOf(migration_history, m)) = 1
  /\ Members(Waiting) \subseteq added /\ Distinct(Waiting)
  /\ \A m \in Migrations : m \notin added => TriesOf(migration_history, m) = {}
  /\ \A k \in CacheCalls : Executes(k) => PassedAreTried(migration_history, Waiting, apply[k].i)
  /\ (\A k \in CacheCalls : ~Executes(k)) => PassedAreTried(migration_history, Waiting, 1)
QueueInv ==
  /\ QueueTypes /\ QueueFlags /\ LoopsAreTyped /\ RollbackIsTyped /\ QueueIsAlone /\ AddedAreTried

-----------------------------------------------------------------------------
(***************************************************************************)
(* migration_steps.js: the version never falls below the calls that ended, *)
(* each of which takes it down by one at most, so that the step of a call  *)
(* is bounded; and unless a backup was put back the version, the history   *)
(* and the rows agree.                                                     *)
(***************************************************************************)
VersionCall == [at : {"idle", "applying", "rolling", "done", "failed"}, step : Int,
                target : 0..StepCount, backup : BOOLEAN, saved : Int, fails : BOOLEAN]
EndedCalls == {k \in Starts : version_call[k].at \in {"done", "failed"}}
Rolling == {k \in Starts : version_call[k].at = "rolling"}
VersionTypes ==
  /\ version_history \in Seq(V!Steps) /\ current_version \in Int /\ step_rows \in [V!Steps -> Int]
  /\ lost \in Nat
CallsAreBounded ==
  /\ version_call \in [Starts -> VersionCall]
  /\ \A k \in Starts :
       /\ version_call[k].step <= StepCount /\ -Cardinality(Starts) <= version_call[k].step
       /\ version_call[k].at = "rolling" => version_call[k].step \in V!Steps
       /\ version_call[k].at = "applying" => version_call[k].step <= version_call[k].target
       /\ -Cardinality(EndedCalls) <= version_call[k].saved
VersionFloor == -Cardinality(EndedCalls) <= current_version
VersionCounts ==
  /\ current_version = V!SumFunction(step_rows)
  /\ current_version = Len(version_history) + lost + Cardinality(Rolling)
VersionInv ==
  /\ VersionTypes /\ CallsAreBounded /\ VersionFloor /\ version_restored \in BOOLEAN
  /\ ~version_restored => VersionCounts

-----------------------------------------------------------------------------
(***************************************************************************)
(* migration_store.js: before the first read the array is empty and no     *)
(* change waits; from then on a change that waits is one its call decided  *)
(* on, and a step of add_steps is in the batch before it is stored.        *)
(***************************************************************************)
Asked == [call : Starts, read : BOOLEAN]
StoreCall == [op : {"load", "add", "remove", "clear", "add_steps", "none"}, id : CacheLimits \cup {Nothing},
              at : {"idle", "opening", "waiting", "done", "failed"}]
IsAbout(op, id) ==
  /\ op \in {"load", "add", "remove", "clear", "add_steps"} /\ id \in CacheLimits \cup {Nothing}
  /\ op \notin {"load", "clear"} => id \in CacheLimits
StoreTypes ==
  /\ store_connection \in {"none", "opening", "open", "failed"} /\ cache_dirty \in BOOLEAN
  /\ step_array \in Seq(CacheLimits) /\ step_table \subseteq CacheLimits /\ batched \subseteq CacheLimits
StoreCalls ==
  /\ store_call \in [Starts -> StoreCall]
  /\ \A k \in Starts : store_call[k].at # "idle" => IsAbout(store_call[k].op, store_call[k].id)
AskedFor(q) ==
  /\ store_call[q.call].at # "idle"
  /\ q.read = FALSE => /\ store_call[q.call].op # "load" /\ cache_dirty = FALSE
                       /\ (store_call[q.call].op = "add_steps" => store_call[q.call].id \in batched)
StoreRequests == requests \in Seq(Asked) /\ \A q \in Members(requests) : AskedFor(q)
ArrayAgrees ==
  /\ cache_dirty = TRUE => step_array = <<>>
  /\ cache_dirty = FALSE => Members(step_array) \ batched = step_table \ batched
StoreInv == StoreTypes /\ StoreCalls /\ StoreRequests /\ ArrayAgrees

-----------------------------------------------------------------------------
(***************************************************************************)
(* db_migrator.js: for a call that is alone, the executed steps are those  *)
(* before its own, and what it still has to roll back are the reversible   *)
(* steps that are in the database.                                         *)
(***************************************************************************)
MigrateCall == [at : {"idle", "migrating", "rolling", "migrated", "failed"}, step : 0..AllSteps]
MigratorTypes ==
  /\ executed_steps \in Seq(D!Steps) /\ inDb \in [D!Steps -> Int] /\ blocked \subseteq D!Steps
  /\ undone \in [CacheCalls -> Seq(D!Steps)] /\ stop_on_rollback_error \in BOOLEAN
  /\ migrate \in [CacheCalls -> MigrateCall]
  /\ \A k \in CacheCalls :
       /\ migrate[k].at = "migrating" => migrate[k].step \in D!Steps
       /\ migrate[k].at = "rolling" => undone[k] # <<>>
Untouched == executed_steps = <<>> /\ blocked = {} /\ \A t \in D!Steps : inDb[t] = 0
Alone(k) == \A j \in CacheCalls \ {k} : migrate[j].at = "idle"
AllIdle == \A j \in CacheCalls : migrate[j].at = "idle"
Migrating(k) ==
  /\ Len(executed_steps) = migrate[k].step - 1 /\ \A i \in 1..Len(executed_steps) : executed_steps[i] = i
  /\ blocked = {} /\ \A t \in D!Steps : inDb[t] = IF t < migrate[k].step THEN 1 ELSE 0
RollingBack(k) ==
  /\ Distinct(undone[k]) /\ Members(undone[k]) \subseteq ReversibleSteps
  /\ \A t \in Members(undone[k]) : inDb[t] = 1
  /\ \A t \in ReversibleSteps \ Members(undone[k]) : inDb[t] = 0 \/ t \in blocked
Explains(k) ==
  /\ migrate[k].at = "migrating" => Migrating(k)
  /\ migrate[k].at = "migrated" => \A t \in D!Steps : inDb[t] = 1
  /\ migrate[k].at = "rolling" => RollingBack(k)
  /\ migrate[k].at = "failed" => \A t \in ReversibleSteps :
       inDb[t] = 0 \/ t \in blocked \/ (stop_on_rollback_error = TRUE /\ blocked # {})
MigratorInv ==
  /\ MigratorTypes
  /\ AllIdle => Untouched
  /\ \A k \in CacheCalls : Alone(k) /\ migrate[k].at # "idle" => Explains(k)

-----------------------------------------------------------------------------
(* What a step changes, as the lemmas name it.                             *)
(* One operation goes from one state to another.                           *)
Moved(f, o, r, t, g) ==
  /\ g \in [Operations -> OperationStates]
  /\ \A s : s # t /\ s # r => Doing(g, s) = Doing(f, s)
  /\ Doing(g, t) = Doing(f, t) \cup {o}
  /\ Cardinality(Doing(g, t)) = Cardinality(Doing(f, t)) + 1
  /\ Doing(g, r) = Doing(f, r) \ {o}
  /\ Cardinality(Doing(f, r)) = Cardinality(Doing(g, r)) + 1
(* A check whose state changes, seen by a set of states.                   *)
CheckMoved(f, c, s, T, g) ==
  /\ g \in [Starts -> CheckStates] /\ g[c] = s /\ \A d \in Starts \ {c} : g[d] = f[d]
  /\ s \in T /\ f[c] \notin T => Cardinality(Ended(g, T)) = Cardinality(Ended(f, T)) + 1
  /\ (s \in T <=> f[c] \in T) => Ended(g, T) = Ended(f, T)
EntryAdded(h, x, c, g) ==
  /\ x.cached = c => Cardinality(EntriesOf(g, c)) = Cardinality(EntriesOf(h, c)) + 1
  /\ x.cached # c => EntriesOf(g, c) = EntriesOf(h, c)
(* The history after an action, the oldest dropped when it is too long.    *)
Remembered(h, dropped, a, g, left) ==
  IF Len(Append(h, a)) > Kept
  THEN g = Tail(Append(h, a)) /\ left = dropped \cup {Head(Append(h, a))}
  ELSE g = Append(h, a) /\ left = dropped
Cut(s, i) == SubSeq(s, 1, i - 1) \o SubSeq(s, i + 1, Len(s))
(* A write that is asked for, and one that ends.                           *)
Asks(v, w, q) == v = Append(w, q)
Ends(v, w) == v = Tail(w) \/ v = <<w[1]>> \o SubSeq(w, 3, Len(w))
(* The fields of a call that change together.                              *)
TurnsVictim(c, a, v) == set_call' = [set_call EXCEPT ![c].at = a, ![c].victim = v]
TurnsKey(c, a, k) == set_call' = [set_call EXCEPT ![c].at = a, ![c].key = k]
TurnsTo(c, a, k, v) == set_call' = [set_call EXCEPT ![c] = [at |-> a, key |-> k, victim |-> v]]
(* A call that is answered, or has to try again.                           *)
AnswerIs(c, a) == row_call' = [row_call EXCEPT ![c].at = a]
TriesAgain(c) == row_call' = [row_call EXCEPT ![c].at = "waiting", ![c].tries = @ + 1]
(* The head of a loop: the call goes on, or the array is replaced.         *)
LoopGoesOn(k, a, i) ==
  /\ i <= Len(arrays[a]) /\ UNCHANGED arrays
  /\ Executes(k)' /\ apply'[k].array = a /\ apply'[k].i = i
LoopEnds(k, a, i) ==
  /\ i > Len(arrays[a]) /\ Len(arrays') = Len(arrays) + 1 /\ LastOf(arrays') = <<>> /\ ~Executes(k)'
(* A sum over subsets, as a fold has it.                                   *)
IsSum(g, val, pick, Whole) ==
  /\ g \in [SUBSET Whole -> Int]
  /\ \A s \in SUBSET Whole : g[s] = IF s = {} THEN 0 ELSE val[pick[s]] + g[s \ {pick[s]}]
Picks(pick, Whole) == \A s \in SUBSET Whole : s # {} => pick[s] \in s
Follows(it, g, pick, Whole) ==
  /\ it[{}] = g[{}]
  /\ \A s \in SUBSET Whole : s # {} /\ it[s \ {pick[s]}] = g[s \ {pick[s]}] => it[s] = g[s]
SameBut(u, v, i, Whole) == \A j \in Whole \ {i} : u[j] = v[j]
Shifted(h, g, u, v, i, Whole) ==
  \A s \in SUBSET Whole : h[s] = g[s] + IF i \in s THEN v[i] - u[i] ELSE 0
(* What the steps of a migration left in the database, as the fold has it. *)
Chosen == [s \in SUBSET V!Steps |-> CHOOSE x \in s : TRUE]
(* The fields of a call that change together.                              *)
CallGoes(k, a, s) == version_call' = [version_call EXCEPT ![k].at = a, ![k].step = s]
CallPops(k, a, s, f) == version_call' = [version_call EXCEPT ![k].at = a, ![k].step = s, ![k].fails = f]
CallEnds(k, a) == version_call' = [version_call EXCEPT ![k].at = a]
CallTo(q, a, s, f) ==
  [at |-> a, step |-> s, target |-> q.target, backup |-> q.backup, saved |-> q.saved, fails |-> f]
(* What a recursive definition says: where it starts, how it goes on.      *)
Recurs(f, e, g, N) == f[0] = e /\ \A n \in 1..N : f[n] = g[<<n, f[n - 1]>>]
(* A call whose request was answered.                                      *)
StoreCallIs(k, a) == store_call' = [store_call EXCEPT ![k].at = a]

-----------------------------------------------------------------------------
(* All of them: a step of the platform is a step of one component.         *)
IInv ==
  /\ CacheInv /\ OfflineInv /\ RouterInv /\ StateInv /\ SeederInv
  /\ FlowInv /\ HandlerInv /\ WatchdogInv /\ ManagerInv /\ TrackerInv
  /\ MonitorInv /\ CheckerInv /\ WrapperInv /\ MigratorInv /\ RetryInv
  /\ VersionInv /\ StoreInv /\ QueueInv /\ FlagInv /\ RecordInv
=============================================================================
