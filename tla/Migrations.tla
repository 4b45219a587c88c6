----------------------------- MODULE Migrations -----------------------------
(***************************************************************************)
(* core/db/migration: the manager of versions, the store of executed       *)
(* steps, the queue of pending ones, the tracker with its guard, and the   *)
(* rows the three steps change. In the code each class keeps its own       *)
(* record of what was executed, so that the machines share no state.       *)
(***************************************************************************)
EXTENDS Integers, Sequences, FiniteSets, Functions

-----------------------------------------------------------------------------
(***************************************************************************)
(* core/db/migration/migration_steps.js for one database: its version, the *)
(* stack of applied steps, and migrations, undos and transactions that     *)
(* overlap, as nothing sets migration_in_progress. A transaction puts back *)
(* copies of the stack and the version, not the database. Steps are taken  *)
(* to inherit their functions: add_migration_step throws for one that      *)
(* holds its own (:49-56); the stored copy of a step holds them.           *)
(***************************************************************************)

CONSTANTS Calls, StepCount

VARIABLES manager_migration_history, current_version, manager_call, inDb, lost, restored
manager_vars == <<manager_migration_history, current_version, manager_call, inDb, lost, restored>>

Steps == 1..StepCount
Ats == {"idle", "applying", "rolling", "done", "failed"}
ManagerTypeOK ==
  /\ manager_migration_history \in Seq(Steps) /\ current_version \in Int /\ inDb \in [Steps -> Int]
  /\ manager_call \in [Calls -> [at : Ats, step : -Cardinality(Calls)..StepCount, target : 0..StepCount,
                      backup : BOOLEAN, saved : Int, fails : BOOLEAN]]
  /\ lost \in Nat /\ restored \in BOOLEAN

\* call[k].step: the step that is applied or rolled back; backup: the call is
\* a transaction, which saved an empty history and the version; fails: the rollback is that of a failed migration. lost and
\* restored are history variables: rollbacks that failed, a backup put back.
NoCall == [at |-> "idle", step |-> 0, target |-> 0, backup |-> FALSE, saved |-> 0, fails |-> FALSE]
ManagerInit ==
  /\ manager_migration_history = <<>> /\ current_version = 0 /\ inDb = [s \in Steps |-> 0]
  /\ manager_call = [k \in Calls |-> NoCall] /\ lost = 0 /\ restored = FALSE

\* The loop of migrate_to_version_async before step i.
Before(i, target) == IF i <= target THEN [at |-> "applying", step |-> i] ELSE [at |-> "done", step |-> 0]
Goes(k, to) == manager_call' = [manager_call EXCEPT ![k].at = to.at, ![k].step = to.step]

(* A transaction copies the history first: a copy of a history that holds  *)
(* a stored step, which holds its functions, is refused.                   *)
MigrateToVersion(k, target, transaction) ==
  /\ manager_call[k].at = "idle"
  /\ LET to == IF transaction /\ manager_migration_history # <<>> THEN [at |-> "failed", step |-> 0]
               ELSE Before(current_version + 1, target)
     IN manager_call' = [manager_call EXCEPT ![k] = [at |-> to.at, step |-> to.step, target |-> target,
                                     backup |-> transaction, saved |-> current_version, fails |-> FALSE]]
  /\ UNCHANGED <<manager_migration_history, current_version, inDb, lost, restored>>

Applied(k) ==
  LET s == manager_call[k].step IN
  /\ manager_call[k].at = "applying" /\ s \in Steps /\ inDb' = [inDb EXCEPT ![s] = @ + 1]
  /\ manager_migration_history' = Append(manager_migration_history, s)
  /\ current_version' = current_version + 1
  /\ Goes(k, Before(s + 1, manager_call[k].target)) /\ UNCHANGED <<lost, restored>>

(* The end of a call with an error; a transaction puts its copies back. *)
Throws(k, history, version) ==
  /\ manager_call' = [manager_call EXCEPT ![k].at = "failed", ![k].step = 0]
  /\ manager_migration_history' = IF manager_call[k].backup THEN <<>> ELSE history
  /\ current_version' = IF manager_call[k].backup THEN manager_call[k].saved ELSE version
  /\ restored' = (restored \/ manager_call[k].backup)

Shorter(s) == SubSeq(s, 1, Len(s) - 1)
Pop(k, fails) ==
  /\ manager_call' = [manager_call EXCEPT ![k].at = "rolling", ![k].step = manager_migration_history[Len(manager_migration_history)],
                          ![k].fails = fails]
  /\ manager_migration_history' = Shorter(manager_migration_history) /\ UNCHANGED <<current_version, restored>>

ApplyFails(k) ==
  /\ manager_call[k].at = "applying" /\ manager_call[k].step \in Steps
  /\ \/ manager_migration_history = <<>> /\ Throws(k, <<>>, current_version)
     \/ manager_migration_history # <<>> /\ Pop(k, TRUE)
  /\ UNCHANGED <<inDb, lost>>

(* A version below zero names no step: the catch throws as well. *)
NoSuchStep(k) == /\ manager_call[k].at = "applying" /\ manager_call[k].step \notin Steps
                 /\ Throws(k, manager_migration_history, current_version) /\ UNCHANGED <<inDb, lost>>

(* undo_last_migration. *)
ManagerUndoLastMigration(k) ==
  /\ manager_call[k].at = "idle"
  /\ \/ /\ manager_migration_history = <<>> /\ manager_call' = [manager_call EXCEPT ![k].at = "done"]
        /\ UNCHANGED <<manager_migration_history, current_version, restored>>
     \/ manager_migration_history # <<>> /\ Pop(k, FALSE)
  /\ UNCHANGED <<inDb, lost>>

(* Mutant: the version stays. *)
M_VersionAfterRollback == current_version

(* rollback_last_step_async after its await. *)
VersionAfterRollback == current_version - 1
ManagerRolledBack(k) ==
  /\ manager_call[k].at = "rolling" /\ inDb' = [inDb EXCEPT ![manager_call[k].step] = @ - 1]
  /\ \/ manager_call[k].fails /\ Throws(k, manager_migration_history, VersionAfterRollback)
     \/ /\ ~manager_call[k].fails /\ manager_call' = [manager_call EXCEPT ![k].at = "done", ![k].step = 0]
        /\ current_version' = VersionAfterRollback /\ UNCHANGED <<manager_migration_history, restored>>
  /\ UNCHANGED lost

ManagerRollbackFails(k) ==
  /\ manager_call[k].at = "rolling" /\ Throws(k, manager_migration_history, current_version)
  /\ lost' = lost + 1 /\ UNCHANGED inDb

ManagerNext == \E k \in Calls :
  \/ Applied(k) \/ ApplyFails(k) \/ NoSuchStep(k) \/ ManagerUndoLastMigration(k)
  \/ ManagerRolledBack(k) \/ ManagerRollbackFails(k)
  \/ \E target \in Steps, transaction \in BOOLEAN : MigrateToVersion(k, target, transaction)

ManagerSpec == ManagerInit /\ [][ManagerNext]_manager_vars

(* migration_steps.js: unless the copies of a transaction were put back,   *)
(* the version counts the steps that are in the database, and it exceeds   *)
(* the history by the rollbacks that go on or failed.                      *)
VersionIsApplied ==
  ~restored =>
    /\ current_version = SumFunction(inDb)
    /\ current_version = Len(manager_migration_history) + lost
         + Cardinality({k \in Calls : manager_call[k].at = "rolling"})

-----------------------------------------------------------------------------
(***************************************************************************)
(* core/db/migration_store.js: the executed steps in IndexedDB and an      *)
(* array of them in memory, read once. Requests on the store are served in *)
(* the order of their transactions; a failed opening is remembered.        *)
(***************************************************************************)

CONSTANTS StoreCalls, StepIds, NoId

VARIABLES connection, cache_dirty, executed_steps, rows, requests, store_call, batched
store_vars == <<connection, cache_dirty, executed_steps, rows, requests, store_call, batched>>

Ops == {"load", "add", "remove", "clear", "add_steps"}
StoreTypeOK ==
  /\ connection \in {"none", "opening", "open", "failed"} /\ cache_dirty \in BOOLEAN
  /\ executed_steps \in Seq(StepIds) /\ rows \subseteq StepIds
  /\ requests \in Seq([call : StoreCalls, read : BOOLEAN])
  /\ store_call \in [StoreCalls -> [op : Ops \cup {"none"}, id : StepIds \cup {NoId},
                              at : {"idle", "opening", "waiting", "done", "failed"}]]
  /\ batched \subseteq StepIds

\* requests: those the database has to serve. batched is a history variable:
\* steps pushed by add_steps before they were stored, and steps whose change
\* was undone after its request had succeeded.
StoreInit ==
  /\ connection = "none" /\ cache_dirty = TRUE /\ executed_steps = <<>> /\ rows \in SUBSET StepIds
  /\ requests = <<>> /\ batched = {}
  /\ store_call = [k \in StoreCalls |-> [op |-> "none", id |-> NoId, at |-> "idle"]]

Request(k, reads, queue) == requests' = Append(queue, [call |-> k, read |-> reads])
Set(k, at) == store_call' = [store_call EXCEPT ![k].at = at]

(* What a call does once the cache is in step: it ends, or asks the store. *)
Decide(k, op, id, steps, queue) ==
  \/ /\ \/ op = "load"
        \/ op \in {"add", "add_steps"} /\ id \in Range(steps)
        \/ op = "remove" /\ id \notin Range(steps)
     /\ store_call' = [store_call EXCEPT ![k] = [op |-> op, id |-> id, at |-> "done"]]
     /\ requests' = queue /\ executed_steps' = steps /\ UNCHANGED batched
  \/ /\ \/ op = "clear"
        \/ op \in {"add", "add_steps"} /\ id \notin Range(steps)
        \/ op = "remove" /\ id \in Range(steps)
     /\ store_call' = [store_call EXCEPT ![k] = [op |-> op, id |-> id, at |-> "waiting"]]
     /\ Request(k, FALSE, queue)
     /\ executed_steps' = IF op = "add_steps" THEN Append(steps, id) ELSE steps
     /\ batched' = IF op = "add_steps" THEN batched \cup {id} ELSE batched

(* #ensure_cache_sync with an open database. *)
Sync(k, op, id) ==
  \/ /\ cache_dirty /\ Request(k, TRUE, requests)
     /\ store_call' = [store_call EXCEPT ![k] = [op |-> op, id |-> id, at |-> "waiting"]]
     /\ UNCHANGED <<executed_steps, batched>>
  \/ ~cache_dirty /\ Decide(k, op, id, executed_steps, requests)

\* What a call is about. has_step changes what load changes.
Subjects(op) == IF op \in {"load", "clear"} THEN {NoId} ELSE StepIds

Call(k, op, id) ==
  /\ store_call[k].at = "idle"
  /\ \/ /\ connection \in {"none", "opening"} /\ connection' = "opening"
        /\ store_call' = [store_call EXCEPT ![k] = [op |-> op, id |-> id, at |-> "opening"]]
        /\ UNCHANGED <<executed_steps, requests, batched>>
     \/ /\ connection = "failed" /\ UNCHANGED <<connection, executed_steps, requests, batched>>
        /\ store_call' = [store_call EXCEPT ![k] = [op |-> op, id |-> id, at |-> "failed"]]
     \/ connection = "open" /\ UNCHANGED connection /\ Sync(k, op, id)
  /\ UNCHANGED <<cache_dirty, rows>>

(* open_db: the promise is kept, also when the opening failed. *)
Opens(ok) == /\ connection = "opening" /\ connection' = IF ok THEN "open" ELSE "failed"
             /\ UNCHANGED <<cache_dirty, executed_steps, rows, requests, store_call, batched>>

Opened(k) ==
  /\ store_call[k].at = "opening"
  /\ \/ connection = "open" /\ Sync(k, store_call[k].op, store_call[k].id)
     \/ connection = "failed" /\ Set(k, "failed") /\ UNCHANGED <<executed_steps, requests, batched>>
  /\ UNCHANGED <<connection, cache_dirty, rows>>

(* The first request is served: a read of all rows, or a change. *)
Serving(reads) == requests # <<>> /\ Head(requests).read = reads
ServeRead ==
  /\ Serving(TRUE) /\ cache_dirty' = FALSE
  /\ LET k == Head(requests).call
     IN \E array \in Bijection(1..Cardinality(rows), rows) :
          Decide(k, store_call[k].op, store_call[k].id, array, Tail(requests))
  /\ UNCHANGED <<connection, rows>>

\* The array without a step.
Without(array, id) ==
  LET upTo[n \in 0..Len(array)] == IF n = 0 THEN <<>> ELSE IF array[n] = id THEN upTo[n - 1]
                                  ELSE Append(upTo[n - 1], array[n])
  IN upTo[Len(array)]

\* The rows, and the array, after the change of a call.
Stored(op, id) == CASE op = "remove" -> rows \ {id} [] op = "clear" -> {} [] OTHER -> rows \cup {id}
Array(op, id) == CASE op = "remove" -> Without(executed_steps, id)
                   [] op = "clear" -> <<>>
                   [] op = "add" -> Append(executed_steps, id)
                   [] op = "add_steps" -> executed_steps
Changed(op, id) == IF op = "clear" THEN rows ELSE {id}
(* A transaction that is aborted after its request, as a commit fails or a *)
(* listener throws, leaves the array changed; only the end of the          *)
(* transaction answers add_steps, and a listener that throws answers none. *)
ServeWrite(committed) ==
  LET k == Head(requests).call
      op == store_call[k].op
      id == store_call[k].id
  IN
  /\ Serving(FALSE) /\ executed_steps' = Array(op, id)
  /\ \/ committed /\ rows' = Stored(op, id) /\ Set(k, "done") /\ UNCHANGED batched
     \/ /\ ~committed /\ UNCHANGED rows /\ batched' = batched \cup Changed(op, id)
        /\ \/ op # "add_steps" /\ Set(k, "done")
           \/ Set(k, "waiting")
  /\ cache_dirty' = (cache_dirty /\ op \notin {"add", "clear"})
  /\ requests' = Tail(requests) /\ UNCHANGED connection

RequestFails ==
  /\ requests # <<>> /\ Set(Head(requests).call, "failed") /\ requests' = Tail(requests)
  /\ UNCHANGED <<connection, cache_dirty, executed_steps, rows, batched>>

StoreNext == \/ \E k \in StoreCalls : \/ Opened(k)
                                 \/ \E op \in Ops : \E id \in Subjects(op) : Call(k, op, id)
        \/ \E ok \in BOOLEAN : Opens(ok)
        \/ \E committed \in BOOLEAN : ServeWrite(committed)
        \/ ServeRead \/ RequestFails

StoreSpec == StoreInit /\ [][StoreNext]_store_vars

(* migration_store.js: once read, and when nothing waits, the array holds  *)
(* what is stored, but for steps given to add_steps and those whose change *)
(* was undone after its request had succeeded.                             *)
ArrayIsStored ==
  /\ ~cache_dirty /\ requests = <<>> => Range(executed_steps) \ batched = rows \ batched
  /\ cache_dirty => executed_steps = <<>>

-----------------------------------------------------------------------------
(***************************************************************************)
(* core/db/migration/migration_store.js: pending migrations are applied in *)
(* order by a loop over the live array, which is then replaced by an empty *)
(* one; rollback_to_version walks the history back and pops its end.       *)
(***************************************************************************)

CONSTANTS
  Migrations,   \* migrations that are added
  Applies,      \* calls of apply_pending_migrations
  MaxRollbacks  \* bound on the calls of rollback_to_version, one at a time

VARIABLES arrays, added, queue_migration_history, apply, rollback, rollbacks, stop_on_error, overlapped
queue_vars == <<arrays, added, queue_migration_history, apply, rollback, rollbacks, stop_on_error, overlapped>>

\* arrays: the arrays #pending_migrations has named, the current one last.
\* apply[k]: the array and the index of a loop. overlapped is a history
\* variable: two calls ran together, a rollback failed, or a listener threw.
QueueTypeOK ==
  /\ arrays \in Seq(Seq(Migrations)) /\ added \subseteq Migrations /\ overlapped \in BOOLEAN
  /\ queue_migration_history \in Seq([id : Migrations, success : BOOLEAN])
  /\ apply \in [Applies -> [at : {"idle", "executing", "done"}, array : Nat, i : Nat]]
  /\ rollback \in [at : {"idle", "rolling"}, i : Nat, idx : Nat]
  /\ rollbacks \in 0..MaxRollbacks /\ stop_on_error \in BOOLEAN

QueueInit ==
  /\ arrays = <<<<>>>> /\ added = {} /\ queue_migration_history = <<>> /\ rollbacks = 0
  /\ apply = [k \in Applies |-> [at |-> "idle", array |-> 0, i |-> 0]]
  /\ rollback = [at |-> "idle", i |-> 0, idx |-> 0]
  /\ stop_on_error \in BOOLEAN /\ overlapped = FALSE

Busy == rollback.at = "rolling" \/ \E k \in Applies : apply[k].at = "executing"

QueueAddMigration(m) ==
  /\ m \notin added /\ added' = added \cup {m}
  /\ arrays' = [arrays EXCEPT ![Len(arrays)] = Append(@, m)]
  /\ UNCHANGED <<queue_migration_history, apply, rollback, rollbacks, stop_on_error, overlapped>>

(* The head of the loop of call k at position i; after the last position   *)
(* the pending migrations are replaced.                                    *)
Continue(k, array, i) ==
  \/ /\ i <= Len(arrays[array]) /\ UNCHANGED arrays
     /\ apply' = [apply EXCEPT ![k] = [at |-> "executing", array |-> array, i |-> i]]
  \/ /\ i > Len(arrays[array]) /\ arrays' = Append(arrays, <<>>)
     /\ apply' = [apply EXCEPT ![k] = [at |-> "done", array |-> array, i |-> i]]

ApplyPendingMigrations(k) ==
  /\ apply[k].at = "idle" /\ Continue(k, Len(arrays), 1)
  /\ overlapped' = (overlapped \/ Busy)
  /\ UNCHANGED <<added, queue_migration_history, rollback, rollbacks, stop_on_error>>

Executing(k) == arrays[apply[k].array][apply[k].i]
After(k, ok) == IF ok \/ ~stop_on_error THEN apply[k].i + 1 ELSE Len(arrays[apply[k].array]) + 1
QueueExecuted(k, ok) ==
  /\ apply[k].at = "executing"
  /\ queue_migration_history' = Append(queue_migration_history, [id |-> Executing(k), success |-> ok])
  /\ Continue(k, apply[k].array, After(k, ok))
  /\ UNCHANGED <<added, rollback, rollbacks, stop_on_error, overlapped>>

(* A listener of migration_applied that throws makes the loop enter the    *)
(* migration once more, as failed; one of migration_failed ends the call,  *)
(* and what was pending stays so.                                          *)
QueueListenerThrows(k, ok) ==
  /\ apply[k].at = "executing" /\ overlapped' = TRUE
  /\ queue_migration_history' = queue_migration_history \o
       [i \in 1..(IF ok THEN 2 ELSE 1) |-> [id |-> Executing(k), success |-> ok /\ i = 1]]
  /\ \/ ok /\ Continue(k, apply[k].array, After(k, FALSE))
     \/ apply' = [apply EXCEPT ![k].at = "done"] /\ UNCHANGED arrays
  /\ UNCHANGED <<added, rollback, rollbacks, stop_on_error>>

(* rollback_to_version: the entries from the last one to the first one of  *)
(* the version.                                                            *)
RollbackToVersion(m) ==
  /\ rollback.at = "idle" /\ rollbacks < MaxRollbacks /\ rollbacks' = rollbacks + 1
  /\ \E j \in 1..Len(queue_migration_history) :
       /\ queue_migration_history[j].id = m /\ \A i \in 1..j - 1 : queue_migration_history[i].id # m
       /\ rollback' = [at |-> "rolling", i |-> Len(queue_migration_history), idx |-> j]
  /\ overlapped' = (overlapped \/ Busy)
  /\ UNCHANGED <<arrays, added, queue_migration_history, apply, stop_on_error>>

\* A listener of rollback_failed that throws ends the call.
Walk == \/ rollback.i > rollback.idx /\ rollback' = [rollback EXCEPT !.i = @ - 1]
        \/ rollback' = [at |-> "idle", i |-> 0, idx |-> 0]

\* An entry that is gone when its turn comes throws out of the call.
QueueRolledBack ==
  /\ rollback.at = "rolling" /\ queue_migration_history # <<>>
  /\ queue_migration_history' = SubSeq(queue_migration_history, 1, Len(queue_migration_history) - 1)
  /\ Walk /\ UNCHANGED <<arrays, added, apply, rollbacks, stop_on_error, overlapped>>

QueueRollbackFails ==
  /\ rollback.at = "rolling" /\ Walk /\ overlapped' = TRUE
  /\ UNCHANGED <<arrays, added, queue_migration_history, apply, rollbacks, stop_on_error>>

QueueNext == \/ \E m \in Migrations : QueueAddMigration(m) \/ RollbackToVersion(m)
        \/ \E k \in Applies : \/ ApplyPendingMigrations(k)
                              \/ \E ok \in BOOLEAN : QueueExecuted(k, ok) \/ QueueListenerThrows(k, ok)
        \/ QueueRolledBack \/ QueueRollbackFails

QueueSpec == QueueInit /\ [][QueueNext]_queue_vars

(* migration_store.js: without an overlap, a throwing listener, a stop or  *)
(* a rollback, what was added is pending or tried once, also when it was   *)
(* added during a loop; and a rollback that goes on, and of which nothing  *)
(* failed, stands at the end of the history.                               *)
AddedIsTried ==
  ~overlapped =>
    /\ ~stop_on_error /\ rollbacks = 0 =>
         \A m \in added : m \in Range(arrays[Len(arrays)]) \/
           Cardinality({i \in 1..Len(queue_migration_history) : queue_migration_history[i].id = m}) = 1
    /\ rollback.at = "rolling" => rollback.i = Len(queue_migration_history)

-----------------------------------------------------------------------------
(***************************************************************************)
(* core/db/migration/migration_tracker.js and migration_guard.js: a copy   *)
(* of the list is pushed before an execution; a failure puts the last copy *)
(* back; the copy of an execution that succeeds stays on the stack, and    *)
(* the guard's undo rolls back all migrations of its last copy.            *)
(***************************************************************************)

CONSTANTS
  Ids,         \* migrations
  Runs,        \* calls of execute_migration
  MaxGuarded   \* bound on the calls of execute_all_migrations

VARIABLES known, executed, ran, snapshots, run, mixed, initialized, config, tracker_history, tracker_at, next, undos
tracker == <<known, executed, ran, snapshots, run, mixed>>
guard == <<initialized, config, tracker_history, tracker_at, next, undos>>
tracker_vars == <<known, executed, ran, snapshots, run, mixed, initialized, config, tracker_history, tracker_at, next, undos>>

Lists == [known : SUBSET Ids, executed : SUBSET Ids]
TrackerTypeOK ==
  /\ known \subseteq Ids /\ executed \subseteq known /\ ran \subseteq Ids
  /\ snapshots \in Seq(Lists) /\ mixed \in BOOLEAN
  /\ run \in [Runs -> [id : Ids \cup {"none"}, at : {"idle", "running", "done", "failed"}, list : Nat]]
  /\ initialized \in BOOLEAN /\ config \in Seq(Ids) /\ tracker_history \in Seq(Seq(Ids))
  /\ tracker_at \in {"idle", "running", "undoing"} /\ next \in Nat /\ undos \in 0..MaxGuarded

\* executed: the flags in the list; ran: what was really executed. run[k].list
\* is the number of the list whose object call k will flag. mixed is a history
\* variable: two calls, or a call and an addition, overlapped.
TrackerInit ==
  /\ known = {} /\ executed = {} /\ ran = {} /\ snapshots = <<>> /\ mixed = FALSE
  /\ run = [k \in Runs |-> [id |-> "none", at |-> "idle", list |-> 0]]
  /\ initialized = FALSE /\ config = <<>> /\ tracker_history = <<>> /\ tracker_at = "idle" /\ next = 0 /\ undos = 0

Running == {k \in Runs : run[k].at = "running"}
Failures == Cardinality({k \in Runs : run[k].at = "failed"})

TrackerAddMigration(m) ==
  /\ m \notin known /\ known' = known \cup {m} /\ mixed' = (mixed \/ Running # {})
  /\ UNCHANGED <<executed, ran, snapshots, run, guard>>

(* _create_snapshot, execute_migration up to its await. *)
ExecuteMigration(k, m) ==
  /\ run[k].at = "idle" /\ m \in known
  /\ snapshots' = Append(snapshots, [known |-> known, executed |-> executed])
  /\ run' = [run EXCEPT ![k] = [id |-> m, at |-> "running", list |-> Failures]]
  /\ mixed' = (mixed \/ Running # {}) /\ UNCHANGED <<known, executed, ran, guard>>

(* The flag is set on the object found before: a list put back meanwhile   *)
(* does not hold it.                                                       *)
TrackerExecuted(k) ==
  /\ run[k].at = "running" /\ run' = [run EXCEPT ![k].at = "done"]
  /\ ran' = ran \cup {run[k].id}
  /\ executed' = IF run[k].list = Failures THEN executed \cup {run[k].id} ELSE executed
  /\ UNCHANGED <<known, snapshots, mixed, guard>>

Restored == snapshots[Len(snapshots)]
ExecutionFails(k) ==
  /\ run[k].at = "running" /\ run' = [run EXCEPT ![k].at = "failed"]
  /\ known' = Restored.known /\ executed' = Restored.executed
  /\ snapshots' = SubSeq(snapshots, 1, Len(snapshots) - 1) /\ UNCHANGED <<ran, mixed, guard>>

(* migration_guard: init, additions, executions, undo. *)
GuardInit == ~initialized /\ initialized' = TRUE /\ UNCHANGED <<tracker, config, tracker_history, tracker_at, next, undos>>
GuardAdd(m) == /\ initialized /\ Len(config) < Cardinality(Ids) /\ config' = Append(config, m)
               /\ UNCHANGED <<tracker, initialized, tracker_history, tracker_at, next, undos>>
\* The live list is walked: migrations added meanwhile are executed too.
At(i) == IF i > Len(config) THEN tracker_at' = "idle" /\ next' = 0 ELSE tracker_at' = "running" /\ next' = i
ExecuteAllMigrations ==
  /\ initialized /\ tracker_at = "idle" /\ Len(tracker_history) < MaxGuarded
  /\ tracker_history' = Append(tracker_history, config) /\ At(1) /\ UNCHANGED <<tracker, initialized, config, undos>>
GuardExecuted == tracker_at = "running" /\ At(next + 1) /\ UNCHANGED <<tracker, initialized, config, tracker_history, undos>>
GuardFails == tracker_at = "running" /\ tracker_at' = "idle" /\ next' = 0 /\ UNCHANGED <<tracker, initialized, config, tracker_history, undos>>
(* undo_last_migration: the copy is gone whether or not the undo succeeds. *)
TrackerUndoLastMigration ==
  /\ tracker_at = "idle" /\ tracker_history # <<>> /\ undos < MaxGuarded /\ undos' = undos + 1
  /\ tracker_history' = SubSeq(tracker_history, 1, Len(tracker_history) - 1) /\ tracker_at' = "undoing"
  /\ UNCHANGED <<tracker, initialized, config, next>>
Undone == tracker_at = "undoing" /\ tracker_at' = "idle" /\ UNCHANGED <<tracker, initialized, config, tracker_history, next, undos>>

TrackerNext == \/ \E m \in Ids : TrackerAddMigration(m) \/ GuardAdd(m)
        \/ \E k \in Runs : \/ TrackerExecuted(k) \/ ExecutionFails(k)
                           \/ \E m \in Ids : ExecuteMigration(k, m)
        \/ GuardInit \/ ExecuteAllMigrations \/ GuardExecuted \/ GuardFails \/ TrackerUndoLastMigration \/ Undone

TrackerSpec == TrackerInit /\ [][TrackerNext]_tracker_vars

(* migration_tracker.js: unless calls overlapped, the flags say what was   *)
(* executed, a failure loses no migration of the list, and the stack keeps *)
(* one copy for every execution that did not fail. migration_guard.js: a   *)
(* copy of the configuration is a beginning of it.                         *)
FlagsAreTrue ==
  /\ ~mixed => executed = ran
  /\ ~mixed => Len(snapshots) = Cardinality({k \in Runs : run[k].at \in {"running", "done"}})
  /\ \A i \in 1..Len(tracker_history) : tracker_history[i] = SubSeq(config, 1, Len(tracker_history[i]))

-----------------------------------------------------------------------------
(***************************************************************************)
(* core/db/migration/steps/step_v1_to_v2.js, steps/step_v2_to_v3.js and    *)
(* step_v3_to_v4.js: users are rewritten batch by batch in transactions of *)
(* their own, lessons by a cursor in one transaction. The migrator runs    *)
(* one step at a time, and all of them again after a failure.              *)
(***************************************************************************)

CONSTANTS
  Users,      \* 1..n, in the order of the adapter
  Lessons,    \* 1..n, in the order of the cursor
  BatchSize,  \* batch_size of a step; the code has 250 and 100
  MaxRuns     \* bound on the runs of steps

VARIABLES name, profile, lesson, before, step, position, processed, failed, report, runs, rewritten
data == <<name, profile, lesson>>
place == <<step, position>>
steps_vars == <<name, profile, lesson, before, step, position, processed, failed, report, runs, rewritten>>

StepNames == {"none", "v1_to_v2", "v2_to_v3", "v3_to_v4"}
Row == [valid : BOOLEAN, v3 : BOOLEAN, v4 : BOOLEAN]
StepsTypeOK ==
  /\ name \in [Users -> BOOLEAN] /\ profile \in [Users -> {"absent", "named", "empty"}]
  /\ lesson \in [Lessons -> Row] /\ before \in [Lessons -> Row]
  /\ step \in StepNames /\ position \in Nat /\ processed \in Nat /\ failed \in Nat
  /\ report \in {"none", "completed", "threw", "timeout", "swallowed"} /\ runs \in 0..MaxRuns
  /\ rewritten \in [Users -> 0..MaxRuns]

\* name[u]: the row of user u has a name of its own. before: the lessons when
\* the transaction began. report: what the last step told the migrator.
\* rewritten is a history variable: how often a user was rewritten.
StepsInit ==
  /\ name = [u \in Users |-> TRUE] /\ profile = [u \in Users |-> "absent"]
  /\ lesson \in [Lessons -> [valid : BOOLEAN, v3 : {FALSE}, v4 : {FALSE}]] /\ before = lesson
  /\ step = "none" /\ position = 1 /\ processed = 0 /\ failed = 0
  /\ report = "none" /\ runs = 0 /\ rewritten = [u \in Users |-> 0]

Start(s) ==
  /\ step = "none" /\ runs < MaxRuns /\ runs' = runs + 1 /\ step' = s
  /\ position' = 1 /\ processed' = 0 /\ failed' = 0 /\ before' = lesson /\ report' = "none"
  /\ UNCHANGED <<data, rewritten>>

End(r) == step' = "none" /\ position' = 1 /\ report' = r

(* transform_user_v1_to_v2 and put_bulk of a batch: a row that was already *)
(* rewritten has no name left.                                             *)
Batch == {u \in Users : position <= u /\ u < position + BatchSize}
PutBatch ==
  /\ step = "v1_to_v2" /\ Batch # {}
  /\ profile' = [u \in Users |-> IF u \in Batch THEN IF name[u] THEN "named" ELSE "empty" ELSE profile[u]]
  /\ name' = [u \in Users |-> name[u] /\ u \notin Batch]
  /\ rewritten' = [u \in Users |-> rewritten[u] + (IF u \in Batch THEN 1 ELSE 0)]
  /\ position' = position + Cardinality(Batch) /\ processed' = processed + Cardinality(Batch)
  /\ UNCHANGED <<lesson, before, step, failed, report, runs>>

UsersEnd == /\ step = "v1_to_v2" /\ Batch = {} /\ End("completed")
            /\ UNCHANGED <<data, before, processed, failed, runs, rewritten>>

(* An abort between two batches or a failed transaction: what was put      *)
(* before stays.                                                           *)
UsersFail == /\ step = "v1_to_v2" /\ Batch # {} /\ End("threw") /\ processed' = 0
             /\ UNCHANGED <<data, before, failed, runs, rewritten>>

(* step_v2_to_v3: the cursor moves on by one, and by batch_size after each *)
(* batch.                                                                  *)
Move(n) == IF n % BatchSize = 0 THEN BatchSize ELSE 1
MigrateLessonRecord ==
  /\ step = "v2_to_v3" /\ position \in Lessons
  /\ lesson' = [lesson EXCEPT ![position].v3 = @ \/ lesson[position].valid]
  /\ processed' = processed + 1 /\ position' = position + Move(processed + 1)
  /\ UNCHANGED <<name, profile, before, step, failed, report, runs, rewritten>>

(* step_v3_to_v4: every move is by batchSize. *)
MigrateLessonRecordToV4 ==
  /\ step = "v3_to_v4" /\ position \in Lessons
  /\ lesson' = [lesson EXCEPT ![position].v4 = @ \/ lesson[position].valid]
  /\ processed' = processed + (IF lesson[position].valid THEN 1 ELSE 0)
  /\ failed' = failed + (IF lesson[position].valid THEN 0 ELSE 1)
  /\ position' = position + BatchSize
  /\ UNCHANGED <<name, profile, before, step, report, runs, rewritten>>

LessonsEnd ==
  /\ step \in {"v2_to_v3", "v3_to_v4"} /\ position \notin Lessons
  /\ End(IF report = "timeout" THEN "timeout" ELSE "completed")
  /\ UNCHANGED <<data, before, processed, failed, runs, rewritten>>

(* The time-out answers with the counts so far; the transaction goes on,   *)
(* and the next one on the store waits for it.                             *)
TimesOut == /\ step = "v3_to_v4" /\ report = "none" /\ report' = "timeout"
            /\ UNCHANGED <<data, before, place, processed, failed, runs, rewritten>>

(* A failed request undoes the transaction. The step to version 4 returns  *)
(* its counts as if nothing had happened.                                  *)
TransactionFails ==
  /\ step \in {"v2_to_v3", "v3_to_v4"} /\ lesson' = before
  /\ End(IF step = "v3_to_v4" THEN "swallowed" ELSE "threw")
  /\ UNCHANGED <<name, profile, before, processed, failed, runs, rewritten>>

StepsNext == \/ \E s \in StepNames \ {"none"} : Start(s)
        \/ PutBatch \/ UsersEnd \/ UsersFail \/ MigrateLessonRecord \/ MigrateLessonRecordToV4
        \/ LessonsEnd \/ TimesOut \/ TransactionFails

StepsSpec == StepsInit /\ [][StepsNext]_steps_vars

(* step_v1_to_v2.js keeps the name of a user it rewrote once;              *)
(* step_v2_to_v3.js passes over no lesson before the end of its first      *)
(* batch; step_v3_to_v4.js has counted the lessons it migrated, in an      *)
(* aborted transaction too; what is marked as migrated was valid.          *)
RecordsAreKept ==
  /\ \A u \in Users : rewritten[u] = 1 => profile[u] = "named"
  /\ step = "v2_to_v3" => \A i \in Lessons :
       i < position /\ i <= BatchSize /\ lesson[i].valid => lesson[i].v3
  /\ step = "v3_to_v4" =>
       Cardinality({i \in Lessons : i < position /\ lesson[i].v4 /\ ~before[i].v4}) <= processed
  /\ \A i \in Lessons : lesson[i].v3 \/ lesson[i].v4 => lesson[i].valid

-----------------------------------------------------------------------------
(* The values of the variables of every machine. *)
TypeOK == ManagerTypeOK /\ StoreTypeOK /\ QueueTypeOK /\ TrackerTypeOK /\ StepsTypeOK
=============================================================================
