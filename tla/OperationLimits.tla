-------------------------- MODULE OperationLimits ---------------------------
(***************************************************************************)
(* Limits of what runs at once and for how long: the flows of a lesson,    *)
(* the operations of a connection and the watchdog of one. The machines    *)
(* share no state: each class keeps its own counters.                      *)
(***************************************************************************)
EXTENDS Naturals, Sequences, FiniteSets, Functions

-----------------------------------------------------------------------------
(***************************************************************************)
(* features/lesson/lesson_orchestrator.js: flows that start one lesson, at *)
(* most Limit at a time and the others queued, each with a time limit,     *)
(* retries, a circuit breaker shared by all, and a rollback.  A flow whose *)
(* time is over gives its place back while its attempts go on behind it.   *)
(* The lesson and exercise services are external: they answer or fail.     *)
(***************************************************************************)

CONSTANTS Flows, Limit, Retries, Threshold   \* 10, 3 and 5 in the code

VARIABLES flow,       \* "free", "pending", "running"
          attempt,    \* what goes on for the flow: [at, tries]
          active, pending_operations,
          circuit, failure_count,
          started     \* the lesson is started

flow_vars == <<flow, attempt, active, pending_operations, circuit, failure_count, started>>

None == [at |-> "none", tries |-> 0]
First == [at |-> "call", tries |-> 1]

FlowInit ==
  /\ flow = [f \in Flows |-> "free"]
  /\ attempt = [f \in Flows |-> None]
  /\ active = 0 /\ pending_operations = <<>>
  /\ circuit = "CLOSED" /\ failure_count = 0
  /\ started = FALSE

Goes(f, at) == attempt' = [attempt EXCEPT ![f].at = at]

-----------------------------------------------------------------------------
(* start_lesson_flow, #with_concurrency_limit *)
StartFlow(f) ==
  /\ flow[f] = "free" /\ attempt[f] = None
  /\ IF active < Limit
     THEN /\ flow' = [flow EXCEPT ![f] = "running"]
          /\ attempt' = [attempt EXCEPT ![f] = First]
          /\ active' = active + 1
          /\ UNCHANGED pending_operations
     ELSE /\ flow' = [flow EXCEPT ![f] = "pending"]
          /\ pending_operations' = Append(pending_operations, f)
          /\ UNCHANGED <<attempt, active>>
  /\ UNCHANGED <<circuit, failure_count, started>>

(* Mutant: the next one waiting is forgotten. *)
M_GiveUpPlace(f, left) ==
  /\ active' = active - 1
  /\ flow' = [flow EXCEPT ![f] = "free"]
  /\ attempt' = [attempt EXCEPT ![f] = left]
  /\ UNCHANGED pending_operations

(* The finally of a place, #process_pending: the first that waits takes    *)
(* it.  left is what becomes of the attempts of the flow that gives it up. *)
GiveUpPlace(f, left) ==
  IF pending_operations = <<>>
  THEN /\ active' = active - 1
       /\ flow' = [flow EXCEPT ![f] = "free"]
       /\ attempt' = [attempt EXCEPT ![f] = left]
       /\ UNCHANGED pending_operations
  ELSE LET next == Head(pending_operations) IN
       /\ flow' = [flow EXCEPT ![f] = "free", ![next] = "running"]
       /\ attempt' = [attempt EXCEPT ![f] = left, ![next] = First]
       /\ pending_operations' = Tail(pending_operations)
       /\ UNCHANGED active

(* CircuitBreaker.call: an open circuit is tried again when its time is    *)
(* over; while it is half open everybody goes through.                     *)
Call(f) ==
  /\ attempt[f].at = "call" /\ circuit # "OPEN"
  /\ Goes(f, "get_lesson")
  /\ UNCHANGED <<flow, active, pending_operations, circuit, failure_count, started>>

TestRequest(f) ==
  /\ attempt[f].at = "call" /\ circuit = "OPEN"
  /\ circuit' = "HALF_OPEN"
  /\ Goes(f, "test_lesson")
  /\ UNCHANGED <<flow, active, pending_operations, failure_count, started>>

(* The services answer one call after the other. *)
Testing(f) == attempt[f].at \in {"test_lesson", "test_start", "test_exercises"}
Following(at) ==
  CASE at = "get_lesson" -> "get_start"   [] at = "get_start" -> "get_exercises"
    [] at = "test_lesson" -> "test_start" [] at = "test_start" -> "test_exercises"

Answered(f) ==
  /\ attempt[f].at \in {"get_lesson", "get_start", "test_lesson", "test_start"}
  /\ Goes(f, Following(attempt[f].at))
  /\ started' = (started \/ attempt[f].at \in {"get_start", "test_start"})
  /\ UNCHANGED <<flow, active, pending_operations, circuit, failure_count>>

Ends(f, left) ==
  IF flow[f] = "running" THEN GiveUpPlace(f, left)
  ELSE attempt' = [attempt EXCEPT ![f] = left] /\ UNCHANGED <<flow, active, pending_operations>>

FlowSucceeds(f) ==
  /\ attempt[f].at \in {"get_exercises", "test_exercises"}
  /\ IF Testing(f) \/ circuit = "HALF_OPEN"
     THEN circuit' = "CLOSED" /\ failure_count' = 0
     ELSE UNCHANGED <<circuit, failure_count>>
  /\ Ends(f, None)
  /\ UNCHANGED started

(* #with_retry after a failure; the last one ends the flow, which rolls    *)
(* the start of the lesson back, whoever started it.                       *)
Retry(f) ==
  IF attempt[f].tries < Retries
  THEN /\ attempt' = [attempt EXCEPT ![f] = [at |-> "call", tries |-> @.tries + 1]]
       /\ UNCHANGED <<flow, active, pending_operations, started>>
  ELSE /\ Ends(f, None)
       /\ started' = (started /\ flow[f] # "running")

Refused(f) ==
  /\ attempt[f].at = "call" /\ circuit = "OPEN"
  /\ Retry(f)
  /\ UNCHANGED <<circuit, failure_count>>

CallFails(f) ==
  /\ attempt[f].at \notin {"none", "call"}
  /\ failure_count' = IF Testing(f) \/ failure_count = Threshold THEN failure_count
                      ELSE failure_count + 1
  /\ circuit' = IF Testing(f) \/ failure_count' >= Threshold THEN "OPEN" ELSE circuit
  /\ Retry(f)

(* #with_timeout: the flow fails and rolls back; its attempts go on. *)
Timeout(f) ==
  /\ flow[f] = "running"
  /\ GiveUpPlace(f, attempt[f])
  /\ started' = FALSE
  /\ UNCHANGED <<circuit, failure_count>>

Proceeds(f) == Call(f) \/ TestRequest(f) \/ Answered(f) \/ FlowSucceeds(f) \/ Refused(f) \/ CallFails(f)

FlowNext == \E f \in Flows : StartFlow(f) \/ Proceeds(f) \/ Timeout(f)

FlowSpec == FlowInit /\ [][FlowNext]_flow_vars

-----------------------------------------------------------------------------
FlowTypeOK ==
  /\ active \in 0..Limit /\ failure_count \in 0..Threshold
  /\ circuit \in {"CLOSED", "OPEN", "HALF_OPEN"}
  /\ \A f \in Flows : attempt[f].tries \in 0..Retries

(* The places taken are the flows that run, and no flow waits while a      *)
(* place is free, whatever fails or runs out of time.                      *)
PlacesAreUsed ==
  /\ active = Cardinality({f \in Flows : flow[f] = "running"})
  /\ pending_operations # <<>> => active = Limit
  /\ {f \in Flows : flow[f] = "pending"}
       = {pending_operations[i] : i \in 1..Len(pending_operations)}

-----------------------------------------------------------------------------
(***************************************************************************)
(* core/db/connection/timeout_handler.js: operations with a time limit,    *)
(* retries and hooks, at most MaxOperations at a time, the others queued.  *)
(* An operation that fails keeps its place (:103 throws past :108), one    *)
(* whose time is over goes on unseen, and a queued one that is woken takes *)
(* its place only in the next microtask.                                   *)
(***************************************************************************)

CONSTANTS Operations, MaxOperations, RetryCount   \* 5 and 1 in the code

VARIABLES operation,     \* "new", "queued", "woken", "forgotten", "running", "done", "failed"
          tries,
          active_operations, waiting,
          metrics,       \* [total, success, failed]
          hooked,        \* operations whose success is counted, the hooks after it go on
          twice,         \* successes that were counted and then thrown away by a hook
          down           \* shutdown: "no", "waits", "done"

handler_vars == <<operation, tries, active_operations, waiting, metrics, hooked, twice, down>>

In(s) == {o \in Operations : operation[o] = s}

HandlerInit ==
  /\ operation = [o \in Operations |-> "new"]
  /\ tries = [o \in Operations |-> 0]
  /\ active_operations = 0 /\ waiting = <<>>
  /\ metrics = [total |-> 0, success |-> 0, failed |-> 0]
  /\ hooked = {} /\ twice = 0
  /\ down = "no"

(* run after it has, or need not, wait. *)
Enters(o) ==
  /\ operation' = [operation EXCEPT ![o] = "running"]
  /\ tries' = [tries EXCEPT ![o] = 1]
  /\ active_operations' = active_operations + 1
  /\ metrics' = [metrics EXCEPT !.total = @ + 1]
  /\ UNCHANGED <<hooked, twice>>

-----------------------------------------------------------------------------
Run(o) ==
  /\ operation[o] = "new"
  /\ IF active_operations < MaxOperations
     THEN Enters(o) /\ UNCHANGED waiting
     ELSE /\ operation' = [operation EXCEPT ![o] = "queued"]
          /\ waiting' = Append(waiting, o)
          /\ UNCHANGED <<tries, active_operations, metrics, hooked, twice>>
  /\ UNCHANGED down

Woken(o) ==
  /\ operation[o] = "woken" /\ Enters(o)
  /\ UNCHANGED <<waiting, down>>

(* The operation succeeds, which is counted before the hooks after it. *)
HandlerSucceeds(o) ==
  /\ operation[o] = "running" /\ o \notin hooked
  /\ metrics' = [metrics EXCEPT !.success = @ + 1]
  /\ hooked' = hooked \cup {o}
  /\ UNCHANGED <<operation, tries, active_operations, waiting, twice, down>>

(* The hooks end: its place is free, #process_queue wakes the first that   *)
(* waits.                                                                  *)
HandlerEnds(o) ==
  /\ o \in hooked /\ hooked' = hooked \ {o}
  /\ active_operations' = active_operations - 1
  /\ IF waiting # <<>> /\ active_operations - 1 < MaxOperations
     THEN /\ operation' = [operation EXCEPT ![o] = "done", ![Head(waiting)] = "woken"]
          /\ waiting' = Tail(waiting)
     ELSE operation' = [operation EXCEPT ![o] = "done"] /\ UNCHANGED waiting
  /\ UNCHANGED <<tries, metrics, twice, down>>

(* A hook or a listener throws after the success was counted. *)
Unhooked(o) ==
  /\ hooked' = hooked \ {o}
  /\ twice' = IF o \in hooked THEN twice + 1 ELSE twice

(* A time-out is tried again if the options say so, be it a hook's. *)
RetryTimeout(o) ==
  /\ operation[o] = "running" /\ tries[o] <= RetryCount
  /\ tries' = [tries EXCEPT ![o] = @ + 1]
  /\ Unhooked(o)
  /\ UNCHANGED <<operation, active_operations, waiting, metrics, down>>

(* It fails, or a hook after its success: run throws, after its hooks,     *)
(* which change nothing, and its place is lost.                            *)
Fails(o) ==
  /\ operation[o] = "running"
  /\ operation' = [operation EXCEPT ![o] = "failed"]
  /\ metrics' = [metrics EXCEPT !.failed = @ + 1]
  /\ Unhooked(o)
  /\ UNCHANGED <<tries, active_operations, waiting, down>>

(* shutdown forgets the queue and waits until nothing is active. *)
Shutdown ==
  /\ down = "no" /\ down' = "waits"
  /\ waiting' = <<>>
  /\ operation' = [o \in Operations |-> IF operation[o] = "queued" THEN "forgotten" ELSE operation[o]]
  /\ UNCHANGED <<tries, active_operations, metrics, hooked, twice>>

ShutdownEnds ==
  /\ down = "waits" /\ active_operations = 0
  /\ down' = "done"
  /\ UNCHANGED <<operation, tries, active_operations, waiting, metrics, hooked, twice>>

HandlerNext ==
  \/ \E o \in Operations : \/ Run(o) \/ Woken(o) \/ HandlerSucceeds(o) \/ HandlerEnds(o)
                           \/ RetryTimeout(o) \/ Fails(o)
  \/ Shutdown \/ ShutdownEnds

HandlerSpec == HandlerInit /\ [][HandlerNext]_handler_vars

-----------------------------------------------------------------------------
HandlerTypeOK ==
  /\ active_operations \in 0..Cardinality(Operations)
  /\ \A o \in Operations : tries[o] \in 0..RetryCount + 1
  /\ down \in {"no", "waits", "done"}

(* Places are those of running and failed operations, and an operation     *)
(* waits only while somebody who will wake it runs or every place was lost *)
(* to a failure.  A success is counted twice, as such and as a failure or  *)
(* as a success again, only if a hook threw after it.                      *)
PlacesAreAccounted ==
  /\ active_operations = Cardinality(In("running")) + Cardinality(In("failed"))
  /\ Range(waiting) = In("queued") /\ IsInjective(waiting)
  /\ In("queued") # {} =>
       In("running") \cup In("woken") # {} \/ Cardinality(In("failed")) >= MaxOperations
  /\ metrics.failed = Cardinality(In("failed"))
  /\ metrics.total + twice + Cardinality(hooked)
       = metrics.success + metrics.failed + Cardinality(In("running"))
  /\ hooked \subseteq In("running")

-----------------------------------------------------------------------------
(***************************************************************************)
(* core/db/connection/timeout_watchdog.js: a watchdog that ticks until the *)
(* time of its connection is over.  Its listeners are called in the midst  *)
(* of a tick and may start, stop or clear it there.                        *)
(***************************************************************************)

CONSTANT TimeoutTicks

VARIABLES start_ts, elapsed, timer_id, stopped,
          ticking,      \* what is left of a tick: "none", "tick", "timeout"
          timeouts      \* the watch was told its time is over

watchdog_vars == <<start_ts, elapsed, timer_id, stopped, ticking, timeouts>>

WatchdogInit ==
  /\ start_ts = FALSE /\ elapsed = 0 /\ timer_id = FALSE /\ stopped = TRUE
  /\ ticking = "none" /\ timeouts = 0

(* start; stop; clear: calls of the application or of a listener. *)
Start ==
  /\ stopped
  /\ stopped' = FALSE /\ start_ts' = TRUE /\ elapsed' = 0 /\ timer_id' = TRUE /\ timeouts' = 0
  /\ UNCHANGED ticking

Stopping == stopped' = TRUE /\ timer_id' = FALSE

Stop ==
  /\ ~stopped /\ Stopping
  /\ UNCHANGED <<start_ts, elapsed, ticking, timeouts>>

Clear ==
  /\ start_ts /\ Stopping
  /\ start_ts' = FALSE /\ elapsed' = 0
  /\ UNCHANGED <<ticking, timeouts>>

(* The interval: the state is read, the listeners of the tick are called,  *)
(* and with no time left those of the time-out and stop.                   *)
Tick ==
  /\ timer_id /\ ticking = "none"
  /\ elapsed' = IF elapsed < TimeoutTicks THEN elapsed + 1 ELSE elapsed
  /\ ticking' = IF elapsed' = TimeoutTicks THEN "timeout" ELSE "tick"
  /\ UNCHANGED <<start_ts, timer_id, stopped, timeouts>>

TickEnds ==
  /\ ticking # "none" /\ ticking' = "none"
  /\ IF ticking = "timeout" /\ ~stopped
     THEN Stopping /\ timeouts' = 1
     ELSE /\ timeouts' = IF ticking = "timeout" THEN 1 ELSE timeouts
          /\ UNCHANGED <<timer_id, stopped>>
  /\ UNCHANGED <<start_ts, elapsed>>

WatchdogNext == Start \/ Stop \/ Clear \/ Tick \/ TickEnds

WatchdogSpec == WatchdogInit /\ [][WatchdogNext]_watchdog_vars

-----------------------------------------------------------------------------
WatchdogTypeOK == elapsed \in 0..TimeoutTicks /\ ticking \in {"none", "tick", "timeout"} /\ timeouts \in 0..1

(* The interval runs exactly while the watchdog is started, and a watch    *)
(* whose time is over does not go on ticking.                              *)
WatchEnds ==
  /\ timer_id <=> ~stopped
  /\ ~stopped => start_ts
  /\ ~stopped /\ ticking = "none" => elapsed < TimeoutTicks

-----------------------------------------------------------------------------
(* The values of the variables of every machine. *)
TypeOK == FlowTypeOK /\ HandlerTypeOK /\ WatchdogTypeOK
=============================================================================
