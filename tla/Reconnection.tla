---------------------------- MODULE Reconnection ----------------------------
(***************************************************************************)
(* Loops that try again: two that bring a connection back, and those that  *)
(* repeat an operation or a step of a migration. The machines share no     *)
(* state: each class keeps its own counters and timers.                    *)
(***************************************************************************)
EXTENDS Naturals, FiniteSets

-----------------------------------------------------------------------------
(***************************************************************************)
(* core/db/connection/reconnect.js: loops that create a connection, with   *)
(* one attempt counter, one stopped flag and one timer id for all of them. *)
(* A wait whose timer is cleared never settles its promise.                *)
(***************************************************************************)

CONSTANTS
  Starts,        \* calls of start()
  MaxTries,      \* max_attempts
  NoStart

VARIABLES tries, stopped, timerOf, start
manager_vars == <<tries, stopped, timerOf, start>>

ManagerTypeOK ==
  /\ tries \in 0..MaxTries + Cardinality(Starts) /\ stopped \in BOOLEAN
  /\ timerOf \in Starts \cup {NoStart}
  /\ start \in [Starts -> {"idle", "creating", "waiting", "lost", "connected", "stopped", "failed"}]

ManagerInit == /\ tries = 0 /\ stopped = FALSE /\ timerOf = NoStart
        /\ start = [k \in Starts |-> "idle"]

(* #try_reconnect of loop k, with n tries made and the given stopped flag. *)
Outcome(n, isStopped) ==
  IF isStopped THEN "stopped" ELSE IF n + 1 > MaxTries THEN "failed" ELSE "creating"
TryReconnect(k, n, isStopped) ==
  /\ start' = [start EXCEPT ![k] = Outcome(n, isStopped)]
  /\ tries' = IF isStopped THEN n ELSE n + 1

(* start(): it clears the flag and the counter of the loops that still run. *)
Start(k) == /\ start[k] = "idle"
            /\ stopped' = FALSE /\ TryReconnect(k, 0, FALSE) /\ UNCHANGED timerOf

(* A connection is returned, also after a stop; the id of any timer is lost. *)
Created(k) == /\ start[k] = "creating"
              /\ start' = [start EXCEPT ![k] = "connected"]
              /\ tries' = 0 /\ timerOf' = NoStart /\ UNCHANGED stopped

CreateFails(k) ==
  /\ start[k] = "creating"
  /\ start' = [start EXCEPT ![k] = IF stopped THEN "stopped" ELSE "waiting"]
  /\ timerOf' = IF stopped THEN timerOf ELSE k
  /\ UNCHANGED <<tries, stopped>>

WaitEnds(k) == /\ start[k] = "waiting" /\ timerOf' = NoStart
               /\ TryReconnect(k, tries, stopped) /\ UNCHANGED stopped

(* stop(): only the wait whose id is remembered is cleared. *)
Stop == /\ \E k \in Starts : start[k] # "idle"
        /\ stopped' = TRUE /\ timerOf' = NoStart
        /\ start' = [k \in Starts |-> IF k = timerOf THEN "lost" ELSE start[k]]
        /\ UNCHANGED tries

ManagerNext == Stop \/ \E k \in Starts : Start(k) \/ Created(k) \/ CreateFails(k) \/ WaitEnds(k)

ManagerSpec == ManagerInit /\ [][ManagerNext]_manager_vars

(* reconnect.js: the id names a wait that still goes on, and the wait of a *)
(* loop that is alone is named by it, so that a stop ends it; no id is     *)
(* left behind a stop. A loop that is not alone may go on waiting, and a   *)
(* later start takes it up again.                                          *)
StopIsObeyed ==
  /\ stopped => timerOf = NoStart
  /\ timerOf # NoStart => start[timerOf] = "waiting"
  /\ \A k \in Starts : start[k] = "waiting" =>
       timerOf = k \/ \E j \in Starts \ {k} : start[j] # "idle"

-----------------------------------------------------------------------------
(***************************************************************************)
(* core/db/connection/reconnect_tracker.js: loops that share the attempt   *)
(* counter, the connected flag and the controller that cancel_reconnect    *)
(* aborts. An "error" that nobody listens to is thrown by the emitter.     *)
(***************************************************************************)

CONSTANTS
  Loops,         \* calls of start_reconnect
  MaxAttempts,   \* max_attempts, at least 1
  NoLoop

VARIABLES attempt_count, is_connected, abort_controller, loop, cancelled, heard, lateAttempt
tracker_vars == <<attempt_count, is_connected, abort_controller, loop, cancelled, heard, lateAttempt>>

TrackerTypeOK ==
  /\ attempt_count \in 0..MaxAttempts /\ is_connected \in BOOLEAN
  /\ abort_controller \in Loops \cup {NoLoop}
  /\ loop \in [Loops -> {"idle", "refused", "connecting", "delaying", "done", "threw"}]
  /\ cancelled \subseteq Loops /\ heard \in BOOLEAN /\ lateAttempt \in BOOLEAN

\* heard: somebody listens to "error". lateAttempt is a history variable: a
\* loop began an attempt after it was cancelled.
TrackerInit ==
  /\ attempt_count = 0 /\ is_connected = FALSE /\ abort_controller = NoLoop
  /\ loop = [k \in Loops |-> "idle"] /\ cancelled = {} /\ lateAttempt = FALSE
  /\ heard \in BOOLEAN

StartReconnect(k) ==
  /\ loop[k] = "idle"
  /\ \/ /\ abort_controller # NoLoop
        /\ loop' = [loop EXCEPT ![k] = "refused"]
        /\ UNCHANGED <<attempt_count, is_connected, abort_controller>>
     \/ /\ abort_controller = NoLoop /\ abort_controller' = k
        /\ loop' = [loop EXCEPT ![k] = "connecting"]
        /\ attempt_count' = 1 /\ is_connected' = FALSE
  /\ UNCHANGED <<cancelled, heard, lateAttempt>>

(* The end of the loop forgets the controller, whoever it belongs to. *)
Leave(k) == loop' = [loop EXCEPT ![k] = "done"] /\ abort_controller' = NoLoop

Connected(k) ==
  /\ loop[k] = "connecting" /\ is_connected' = TRUE /\ Leave(k)
  /\ UNCHANGED <<attempt_count, cancelled, heard, lateAttempt>>

ConnectFails(k) ==
  /\ loop[k] = "connecting"
  /\ \/ loop' = [loop EXCEPT ![k] = "delaying"] /\ UNCHANGED abort_controller
     \/ heard /\ Leave(k)
     \/ ~heard /\ loop' = [loop EXCEPT ![k] = "threw"] /\ UNCHANGED abort_controller
  /\ UNCHANGED <<attempt_count, is_connected, cancelled, heard, lateAttempt>>

(* Mutant: the loop does not look at its signal. *)
M_GoesOn(k) == ~is_connected /\ attempt_count < MaxAttempts

(* The head of the loop: the signal is looked at before each attempt. *)
GoesOn(k) == ~is_connected /\ attempt_count < MaxAttempts /\ k \notin cancelled
TrackerDelayEnds(k) ==
  /\ loop[k] = "delaying"
  /\ \/ /\ GoesOn(k) /\ loop' = [loop EXCEPT ![k] = "connecting"]
        /\ attempt_count' = attempt_count + 1 /\ UNCHANGED abort_controller
        /\ lateAttempt' = (lateAttempt \/ k \in cancelled)
     \/ ~GoesOn(k) /\ Leave(k) /\ UNCHANGED <<attempt_count, lateAttempt>>
  /\ UNCHANGED <<is_connected, cancelled, heard>>

(* A delay that began before the abort is rejected; a connect goes on. *)
CancelReconnect ==
  /\ abort_controller # NoLoop /\ abort_controller' = NoLoop
  /\ cancelled' = cancelled \cup {abort_controller}
  /\ loop' = [k \in Loops |-> IF k = abort_controller /\ loop[k] = "delaying" THEN "threw" ELSE loop[k]]
  /\ UNCHANGED <<attempt_count, is_connected, heard, lateAttempt>>

TrackerNext == CancelReconnect \/ \E k \in Loops : StartReconnect(k) \/ Connected(k) \/ ConnectFails(k) \/ TrackerDelayEnds(k)

TrackerSpec == TrackerInit /\ [][TrackerNext]_tracker_vars

Running == {k \in Loops : loop[k] \in {"connecting", "delaying"}}

(* reconnect_tracker.js: a cancelled loop makes no new attempt, two loops  *)
(* run together only after a cancellation, and the controller names no     *)
(* loop that ended in order.                                               *)
CancelIsObeyed ==
  /\ ~lateAttempt
  /\ Cardinality(Running) > 1 => cancelled # {}
  /\ abort_controller # NoLoop => loop[abort_controller] \in {"connecting", "delaying"}
                                  \/ (loop[abort_controller] = "threw" /\ ~heard)

-----------------------------------------------------------------------------
(***************************************************************************)
(* core/db/migration_retry.js, core/db/migration_circuit.js and            *)
(* core/db/connection/connection_retry.js. Steps are tried while the       *)
(* attempts do not pass options that update_retry_options may change in    *)
(* between; connections have options of their own; the circuit breaker     *)
(* refuses operations until its timer closes it.                           *)
(***************************************************************************)

CONSTANTS
  StepCalls,        \* execute_with_retry
  ConnectCalls,     \* retry_connection, safe_retry_connection
  Operations,       \* MigrationCircuit.execute
  MaxRetry,         \* the largest value of retries; max_attempts of a connection
  FailureThreshold  \* failure_threshold

VARIABLES retries, try, lowered, failure_count, circuit_open, reset_timer, operation
loops == <<retries, try, lowered>>
circuit == <<failure_count, circuit_open, reset_timer, operation>>
retry_vars == <<retries, try, lowered, failure_count, circuit_open, reset_timer, operation>>

Calls == StepCalls \cup ConnectCalls
RetryTypeOK ==
  /\ retries \in 0..MaxRetry /\ lowered \in BOOLEAN
  /\ try \in [Calls -> [at : {"idle", "trying", "waiting", "ok", "error", "nothing"}, n : 0..MaxRetry + 1]]
  /\ failure_count \in Nat /\ circuit_open \in BOOLEAN /\ reset_timer \in BOOLEAN
  /\ operation \in [Operations -> {"idle", "running", "refused", "ok", "error"}]

\* try[k].n: the tries that failed. lowered is a history variable: the
\* options were lowered.
RetryInit ==
  /\ retries = MaxRetry /\ try = [k \in Calls |-> [at |-> "idle", n |-> 0]] /\ lowered = FALSE
  /\ failure_count = 0 /\ circuit_open = FALSE /\ reset_timer = FALSE
  /\ operation = [o \in Operations |-> "idle"]

At(k, at) == try' = [try EXCEPT ![k].at = at]
Begin(k) == try[k].at = "idle" /\ At(k, "trying") /\ UNCHANGED <<retries, lowered, circuit>>
Succeeds(k) == try[k].at = "trying" /\ At(k, "ok") /\ UNCHANGED <<retries, lowered, circuit>>

(* The catch of a try, with n failures so far. *)
GivenUp(k, n) == IF k \in StepCalls THEN n > retries ELSE n >= MaxRetry
TryFails(k) ==
  /\ try[k].at = "trying"
  /\ LET n == try[k].n + 1 IN
     try' = [try EXCEPT ![k] = [at |-> IF GivenUp(k, n) THEN "error" ELSE "waiting", n |-> n]]
  /\ UNCHANGED <<retries, lowered, circuit>>

(* After the delay: the head of the loop; a step whose retries were        *)
(* lowered leaves it without a result and without an error.                *)
RetryDelayEnds(k) ==
  /\ try[k].at = "waiting"
  /\ At(k, IF k \in StepCalls /\ try[k].n > retries THEN "nothing" ELSE "trying")
  /\ UNCHANGED <<retries, lowered, circuit>>

UpdateRetryOptions(n) ==
  /\ n # retries /\ retries' = n /\ lowered' = (lowered \/ n < retries)
  /\ UNCHANGED <<try, circuit>>

(* MigrationCircuit.execute. *)
Execute(o) ==
  /\ operation[o] = "idle"
  /\ operation' = [operation EXCEPT ![o] = IF circuit_open THEN "refused" ELSE "running"]
  /\ UNCHANGED <<loops, failure_count, circuit_open, reset_timer>>

(* record_success: an open circuit starts its timer anew. *)
RecordSuccess(o) ==
  /\ operation[o] = "running" /\ operation' = [operation EXCEPT ![o] = "ok"]
  /\ failure_count' = 0 /\ UNCHANGED <<loops, circuit_open, reset_timer>>

(* #open_circuit, #schedule_reset. *)
Opens(n) == n >= FailureThreshold
RecordFailure(o) ==
  /\ operation[o] = "running" /\ operation' = [operation EXCEPT ![o] = "error"]
  /\ failure_count' = failure_count + 1
  /\ circuit_open' = (circuit_open \/ Opens(failure_count + 1))
  /\ reset_timer' = (reset_timer \/ Opens(failure_count + 1)) /\ UNCHANGED loops

ResetTimer == /\ reset_timer /\ circuit_open' = FALSE /\ failure_count' = 0 /\ reset_timer' = FALSE
              /\ UNCHANGED <<loops, operation>>

RetryNext == \/ \E k \in Calls : Begin(k) \/ Succeeds(k) \/ TryFails(k) \/ RetryDelayEnds(k)
        \/ \E n \in 0..MaxRetry : UpdateRetryOptions(n)
        \/ \E o \in Operations : Execute(o) \/ RecordSuccess(o) \/ RecordFailure(o)
        \/ ResetTimer

RetrySpec == RetryInit /\ [][RetryNext]_retry_vars

(* migration_retry.js, connection_retry.js, migration_circuit.js: as long  *)
(* as nobody lowers the options a call ends with a result or with the      *)
(* error of its last allowed try; the circuit is open from the threshold   *)
(* on, and only while a timer will close it.                               *)
RetriesEnd ==
  /\ \A k \in Calls : try[k].at = "nothing" => lowered
  /\ \A k \in Calls : try[k].at = "error" /\ ~lowered =>
       try[k].n = IF k \in StepCalls THEN MaxRetry + 1 ELSE MaxRetry
  /\ failure_count >= FailureThreshold => circuit_open
  /\ circuit_open = reset_timer

-----------------------------------------------------------------------------
(* The values of the variables of every machine. *)
TypeOK == ManagerTypeOK /\ TrackerTypeOK /\ RetryTypeOK
=============================================================================
