------------------------------ MODULE Database ------------------------------
(***************************************************************************)
(* What stands between the application and IndexedDB: the wrapper with its *)
(* pool and cache, the first data, and the runner of the steps of the      *)
(* schema. The machines share no state.                                    *)
(***************************************************************************)
EXTENDS Sequences, FiniteSets, Integers

-----------------------------------------------------------------------------
(***************************************************************************)
(* core/db/indexeddb_wrapper.js: a pool of connections whose size is       *)
(* counted before they are made, reads and writes of keys with a cache of  *)
(* values, transactions tried again after a delay, and bulk writes that    *)
(* leave the cache alone. Requests are served in order.                    *)
(***************************************************************************)

CONSTANTS
  Keys,         \* store and key
  Values,       \* values of rows
  Calls,        \* calls of get, put, delete and bulk
  Connects,     \* calls of connect()
  MaxSize,      \* size of the pool
  MaxTries,     \* tries of a transaction
  NoValue

VARIABLES rows, cache, requests, call, bypassed, current_size, connect
pool == <<current_size, connect>>
wrapper_vars == <<rows, cache, requests, call, bypassed, current_size, connect>>

Ops == {"get", "put", "delete", "bulk"}
Ats == {"idle", "waiting", "delay", "done", "failed"}
WrapperTypeOK ==
  /\ rows \in [Keys -> Values \cup {NoValue}] /\ cache \in [Keys -> Values \cup {NoValue}]
  /\ requests \in Seq(Calls) /\ bypassed \subseteq Keys
  /\ call \in [Calls -> [op : Ops \cup {"none"}, key : Keys \cup {NoValue}, value : Values \cup {NoValue},
                         at : Ats, tries : 0..MaxTries]]
  /\ current_size \in 0..MaxSize
  /\ connect \in [Connects -> {"idle", "creating", "polling", "open", "failed"}]

\* bypassed is a history variable: keys whose row changed behind the cache.
WrapperInit ==
  /\ rows = [k \in Keys |-> NoValue] /\ cache = [k \in Keys |-> NoValue]
  /\ requests = <<>> /\ bypassed = {} /\ current_size = 0
  /\ call = [c \in Calls |-> [op |-> "none", key |-> NoValue, value |-> NoValue, at |-> "idle", tries |-> 0]]
  /\ connect = [c \in Connects |-> "idle"]

Connected == \E c \in Connects : connect[c] = "open"

(* connection_pool.acquire: nothing is ever released by the wrapper. *)
Acquire(c) ==
  /\ connect[c] \in {"idle", "polling"}
  /\ \/ /\ current_size < MaxSize /\ current_size' = current_size + 1
        /\ connect' = [connect EXCEPT ![c] = "creating"]
     \/ /\ current_size = MaxSize /\ connect[c] = "idle"
        /\ connect' = [connect EXCEPT ![c] = "polling"] /\ UNCHANGED current_size
  /\ UNCHANGED <<rows, cache, requests, call, bypassed>>

CreateEnds(c, ok) ==
  /\ connect[c] = "creating"
  /\ connect' = [connect EXCEPT ![c] = IF ok THEN "open" ELSE "failed"]
  /\ UNCHANGED <<rows, cache, requests, call, bypassed, current_size>>

(* get: a cached value is returned; put, delete, bulk open a transaction. *)
Call(c, op, k, v) ==
  /\ Connected /\ call[c].at = "idle"
  /\ LET hit == op = "get" /\ cache[k] # NoValue
     IN /\ call' = [call EXCEPT ![c] = [op |-> op, key |-> k, value |-> v, tries |-> 1,
                                        at |-> IF hit THEN "done" ELSE "waiting"]]
        /\ requests' = IF hit THEN requests ELSE Append(requests, c)
  /\ UNCHANGED <<rows, cache, bypassed, pool>>

\* The cache and the rows after a request of call c succeeded.
CacheAfter(c) ==
  LET k == call[c].key IN
  CASE call[c].op = "get" -> IF rows[k] = NoValue THEN cache ELSE [cache EXCEPT ![k] = rows[k]]
    [] call[c].op = "put" -> [cache EXCEPT ![k] = call[c].value]
    [] call[c].op = "delete" -> [d \in Keys |-> NoValue]
    [] call[c].op = "bulk" -> cache
Succeeds ==
  /\ requests # <<>> /\ requests' = Tail(requests)
  /\ LET c == Head(requests)  k == call[c].key IN
     /\ cache' = CacheAfter(c)
     /\ rows' = IF call[c].op = "get" THEN rows ELSE [rows EXCEPT ![k] = call[c].value]
     /\ bypassed' = IF call[c].op = "bulk" THEN bypassed \cup {k}
                    ELSE IF call[c].op = "put" THEN bypassed \ {k}
                    ELSE IF call[c].op = "delete" THEN {}
                    ELSE IF rows[k] # NoValue THEN bypassed \ {k} ELSE bypassed
     /\ call' = [call EXCEPT ![c].at = "done"]
  /\ UNCHANGED pool

(* The transaction of a write that was answered is aborted after all. *)
CommitFails ==
  /\ requests # <<>> /\ call[Head(requests)].op \in {"put", "delete"}
  /\ LET c == Head(requests) IN
     /\ cache' = CacheAfter(c) /\ call' = [call EXCEPT ![c].at = "done"]
     /\ bypassed' = bypassed \cup {call[c].key}
  /\ requests' = Tail(requests) /\ UNCHANGED <<rows, pool>>

(* run_in_transaction: abort, and again after a delay. *)
RequestFails ==
  /\ requests # <<>> /\ requests' = Tail(requests)
  /\ LET c == Head(requests) IN
     call' = [call EXCEPT ![c].at = IF call[c].op = "get" \/ call[c].tries = MaxTries THEN "failed" ELSE "delay"]
  /\ UNCHANGED <<rows, cache, bypassed, pool>>

DelayEnds(c) ==
  /\ call[c].at = "delay"
  /\ call' = [call EXCEPT ![c].at = "waiting", ![c].tries = @ + 1]
  /\ requests' = Append(requests, c) /\ UNCHANGED <<rows, cache, bypassed, pool>>

CacheExpires(k) == /\ cache[k] # NoValue /\ cache' = [cache EXCEPT ![k] = NoValue]
                   /\ UNCHANGED <<rows, requests, call, bypassed, pool>>

Arguments == [op : {"get", "delete"}, value : {NoValue}] \cup [op : {"put"}, value : Values]
             \cup [op : {"bulk"}, value : Values \cup {NoValue}]
WrapperNext == \/ \E c \in Connects : \/ Acquire(c)
                               \/ \E ok \in BOOLEAN : CreateEnds(c, ok)
        \/ \E c \in Calls : \/ DelayEnds(c)
                            \/ \E k \in Keys, a \in Arguments : Call(c, a.op, k, a.value)
        \/ Succeeds \/ CommitFails \/ RequestFails
        \/ \E k \in Keys : CacheExpires(k)

WrapperSpec == WrapperInit /\ [][WrapperNext]_wrapper_vars

(* indexeddb_wrapper.js: a cached value is the row, unless bulk or a       *)
(* transaction that was aborted after its answer changed the row behind    *)
(* the cache; and every place of the pool belongs to a connect() that      *)
(* creates, has or failed to create its connection.                        *)
CacheIsRow ==
  /\ \A k \in Keys : cache[k] # NoValue /\ k \notin bypassed => cache[k] = rows[k]
  /\ current_size = Cardinality({c \in Connects : connect[c] \in {"creating", "open", "failed"}})

-----------------------------------------------------------------------------
(***************************************************************************)
(* core/db/data_seeder.js: seeds stores in the order of their              *)
(* dependencies, each with retries, through a pipeline into db.put, after  *)
(* a backup and with a restore when it fails.  The rows a seeder makes are *)
(* put as one row, under the name of the store; db is external.  A store   *)
(* is the set of what is in it: rows of before, seeded rows.               *)
(* The backup is made before the try (:818): when it fails the seeder      *)
(* stays seeding.                                                          *)
(***************************************************************************)

CONSTANTS Stores,     \* names of registered seeders
          Uses,       \* pairs <<a, b>>: the seeder of a depends on b
          Unsaved_stores,   \* settings: not part of a snapshot
          NoBackup

VARIABLES store,        \* store -> subset of {"before", "seeded"}
          seeding,      \* #is_seeding
          phase,        \* progress_stream
          options,      \* of the seed: [backup, dry_run, stop, rollback]
          done, failed, \* stores of this seed
          trying,       \* tries of the current store, with its name
          snapshots,    \* the backup of this seed, or NoBackup
          restoring     \* stores still to restore

seeder_vars == <<store, seeding, phase, options, done, failed, trying, snapshots, restoring>>

Tries == 3   \* retry_count
NoStore == [name |-> NoBackup, tries |-> 0]
Options == [backup : BOOLEAN, dry_run : BOOLEAN, stop : BOOLEAN, rollback : BOOLEAN]

SeederInit ==
  /\ store \in [Stores -> {{}, {"before"}}]
  /\ seeding = FALSE /\ phase = "idle"
  /\ options \in Options
  /\ done = {} /\ failed = {} /\ trying = NoStore
  /\ snapshots = NoBackup /\ restoring = {}

-----------------------------------------------------------------------------
(* seed, to its first await. *)
Seed(o) ==
  /\ ~seeding /\ phase # "backup"
  /\ seeding' = TRUE /\ options' = o
  /\ phase' = IF o.backup THEN "backup" ELSE "seeding"
  /\ done' = {} /\ failed' = {} /\ snapshots' = NoBackup
  /\ UNCHANGED <<store, trying, restoring>>

(* snapshot_manager.create, which passes over a store it cannot read, or   *)
(* its failure.                                                            *)
BackedUp(read) ==
  /\ seeding /\ phase = "backup" /\ phase' = "seeding"
  /\ snapshots' = [n \in Stores |-> IF n \in read THEN store[n] ELSE {}]
  /\ UNCHANGED <<store, seeding, options, done, failed, trying, restoring>>

BackupFails ==
  /\ seeding /\ phase = "backup" /\ phase' = "stuck"
  /\ UNCHANGED <<store, seeding, options, done, failed, trying, snapshots, restoring>>

(* dependency_graph: any order in which what a store uses comes before it. *)
Ready(n) ==
  /\ n \notin done \cup failed
  /\ \A m \in Stores : <<n, m>> \in Uses => m \in done \cup failed

Try(n) ==
  /\ phase = "seeding" /\ trying = NoStore /\ Ready(n)
  /\ trying' = [name |-> n, tries |-> 1]
  /\ UNCHANGED <<store, seeding, options, done, failed, phase, snapshots, restoring>>

(* The seeder, the pipeline and the write.  Only stores that use none have *)
(* rows: the others read their lessons and users from the wrong object.    *)
Seeded ==
  /\ trying # NoStore
  /\ LET n == trying.name IN
     /\ store' = IF options.dry_run THEN store ELSE [store EXCEPT ![n] = @ \cup {"seeded"}]
     /\ done' = done \cup {n}
  /\ trying' = NoStore
  /\ UNCHANGED <<seeding, options, failed, phase, snapshots, restoring>>

(* #execute_with_retry: a failure or a time-out. *)
TryFails ==
  /\ trying # NoStore /\ trying.tries < Tries
  /\ trying' = [trying EXCEPT !.tries = @ + 1]
  /\ UNCHANGED <<store, seeding, options, done, failed, phase, snapshots, restoring>>

(* The last try failed, a validator refused, or the write failed. *)
SeederFails ==
  /\ trying # NoStore
  /\ failed' = failed \cup {trying.name} /\ trying' = NoStore
  /\ IF ~options.stop THEN UNCHANGED <<seeding, phase, restoring>>
     ELSE IF snapshots # NoBackup /\ options.rollback
     THEN /\ phase' = "restoring" /\ UNCHANGED seeding
          /\ restoring' = {n \in Stores \ Unsaved_stores : snapshots[n] # {}}
     ELSE phase' = "error" /\ seeding' = FALSE /\ UNCHANGED restoring
  /\ UNCHANGED <<store, options, done, snapshots>>

(* snapshot_manager.restore: a store that had rows is cleared and gets     *)
(* them back; its failure ends the restore where it is.                    *)
Restore(n) ==
  /\ phase = "restoring" /\ n \in restoring
  /\ store' = [store EXCEPT ![n] = snapshots[n]]
  /\ restoring' = restoring \ {n}
  /\ UNCHANGED <<seeding, options, done, failed, trying, phase, snapshots>>

RestoreFails(n) ==
  /\ phase = "restoring" /\ n \in restoring
  /\ store' \in {store, [store EXCEPT ![n] = {}]}
  /\ restoring' = {} /\ phase' = "lost" /\ seeding' = FALSE
  /\ UNCHANGED <<options, done, failed, trying, snapshots>>

Restored ==
  /\ phase = "restoring" /\ restoring = {}
  /\ phase' = "error" /\ seeding' = FALSE
  /\ UNCHANGED <<store, options, done, failed, trying, snapshots, restoring>>

Complete ==
  /\ phase = "seeding" /\ trying = NoStore /\ done \cup failed = Stores
  /\ phase' = "complete" /\ seeding' = FALSE
  /\ UNCHANGED <<store, options, done, failed, trying, snapshots, restoring>>

SeederNext ==
  \/ \E o \in Options : Seed(o)
  \/ (\E read \in SUBSET Stores : BackedUp(read)) \/ BackupFails \/ Seeded \/ TryFails \/ SeederFails \/ Restored \/ Complete
  \/ \E n \in Stores : Try(n) \/ Restore(n) \/ RestoreFails(n)

SeederSpec == SeederInit /\ [][SeederNext]_seeder_vars

-----------------------------------------------------------------------------
SeederTypeOK ==
  /\ \A n \in Stores : store[n] \subseteq {"before", "seeded"}
  /\ options \in Options /\ done \cup failed \cup restoring \subseteq Stores
  /\ trying.tries \in 0..Tries

(* A seed that failed and was rolled back leaves every store of whose rows *)
(* it has a backup as it was, none is seeded before what it uses, and no   *)
(* seed loses rows of its backup unless its restore failed.                *)
SeedingIsUndone ==
  /\ (phase = "error" /\ snapshots # NoBackup /\ options.rollback) =>
       \A n \in Stores \ Unsaved_stores : snapshots[n] # {} => store[n] = snapshots[n]
  /\ (phase # "lost" /\ snapshots # NoBackup) => \A n \in Stores : snapshots[n] \subseteq store[n]
  /\ \A n \in done : \A m \in Stores : <<n, m>> \in Uses => m \in done \cup failed

-----------------------------------------------------------------------------
(***************************************************************************)
(* core/db/db_migrator.js: migrate() runs the registered steps in order    *)
(* and, when one fails, rolls back every step executed so far, the latest  *)
(* first. #executed_steps is shared by all calls and never shortened.      *)
(***************************************************************************)

CONSTANTS
  Migrates,     \* calls of migrate()
  StepCount,    \* registered steps, run in the order 1..StepCount
  Reversible    \* the steps that have a rollback function

VARIABLES executed_steps, migrate, undone, inDb, stop_on_rollback_error, blocked
migrator_vars == <<executed_steps, migrate, undone, inDb, stop_on_rollback_error, blocked>>

Steps == 1..StepCount
Phases == {"idle", "migrating", "rolling", "migrated", "failed"}
MigratorTypeOK ==
  /\ executed_steps \in Seq(Steps) /\ inDb \in [Steps -> Int] /\ blocked \subseteq Steps
  /\ migrate \in [Migrates -> [at : Phases, step : 0..StepCount]]
  /\ undone \in [Migrates -> Seq(Steps)] /\ stop_on_rollback_error \in BOOLEAN

\* undone[k]: the steps call k still has to roll back. inDb: how often a step
\* took effect less how often it was undone. blocked: rollbacks that failed.
MigratorInit ==
  /\ executed_steps = <<>> /\ inDb = [s \in Steps |-> 0] /\ blocked = {}
  /\ migrate = [k \in Migrates |-> [at |-> "idle", step |-> 0]]
  /\ undone = [k \in Migrates |-> <<>>] /\ stop_on_rollback_error \in BOOLEAN

Migrate(k) ==
  /\ migrate[k].at = "idle"
  /\ migrate' = [migrate EXCEPT ![k] = [at |-> "migrating", step |-> 1]]
  /\ UNCHANGED <<executed_steps, undone, inDb, stop_on_rollback_error, blocked>>

(* #execute_step: the step took effect and is remembered. *)
StepSucceeds(k) ==
  LET s == migrate[k].step IN
  /\ migrate[k].at = "migrating"
  /\ inDb' = [inDb EXCEPT ![s] = @ + 1] /\ executed_steps' = Append(executed_steps, s)
  /\ migrate' = [migrate EXCEPT ![k] = IF s = StepCount THEN [at |-> "migrated", step |-> 0]
                                       ELSE [@ EXCEPT !.step = s + 1]]
  /\ UNCHANGED <<undone, stop_on_rollback_error, blocked>>

(* #rollback_from: steps without a rollback function are passed over. *)
ToUndo(executed) ==
  LET upTo[n \in 0..Len(executed)] == IF n = 0 THEN <<>> ELSE IF executed[n] \notin Reversible THEN upTo[n - 1]
                                     ELSE <<executed[n]>> \o upTo[n - 1]
  IN upTo[Len(executed)]
Rolling(k, rest) ==
  /\ undone' = [undone EXCEPT ![k] = rest]
  /\ migrate' = [migrate EXCEPT ![k] = [at |-> IF rest = <<>> THEN "failed" ELSE "rolling", step |-> 0]]

StepFails(k) ==
  /\ migrate[k].at = "migrating" /\ Rolling(k, ToUndo(executed_steps))
  /\ UNCHANGED <<executed_steps, inDb, stop_on_rollback_error, blocked>>

RolledBack(k) ==
  /\ migrate[k].at = "rolling" /\ Rolling(k, Tail(undone[k]))
  /\ inDb' = [inDb EXCEPT ![Head(undone[k])] = @ - 1]
  /\ UNCHANGED <<executed_steps, stop_on_rollback_error, blocked>>

RollbackFails(k) ==
  /\ migrate[k].at = "rolling" /\ blocked' = blocked \cup {Head(undone[k])}
  /\ Rolling(k, IF stop_on_rollback_error THEN <<>> ELSE Tail(undone[k]))
  /\ UNCHANGED <<executed_steps, inDb, stop_on_rollback_error>>

MigratorNext == \E k \in Migrates : \/ Migrate(k) \/ StepSucceeds(k) \/ StepFails(k)
                            \/ RolledBack(k) \/ RollbackFails(k)

MigratorSpec == MigratorInit /\ [][MigratorNext]_migrator_vars

Started == {k \in Migrates : migrate[k].at # "idle"}

(* db_migrator.js: a call that is alone and fails leaves nothing behind    *)
(* but the steps that cannot be undone or whose rollback failed or was     *)
(* given up, and a call that is alone and ends has run every step once.    *)
FailureLeavesNothing ==
  Cardinality(Started) = 1 => \A k \in Started :
    /\ migrate[k].at = "migrated" => \A s \in Steps : inDb[s] = 1
    /\ migrate[k].at = "failed" => \A s \in Reversible :
         inDb[s] = 0 \/ s \in blocked \/ (stop_on_rollback_error /\ blocked # {})

-----------------------------------------------------------------------------
(* The values of the variables of every machine. *)
TypeOK == WrapperTypeOK /\ SeederTypeOK /\ MigratorTypeOK
=============================================================================
