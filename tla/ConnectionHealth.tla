-------------------------- MODULE ConnectionHealth --------------------------
(***************************************************************************)
(* Whether connections are well: rounds of pings with their repairs, and   *)
(* checks of the pool. The machines share no state: each keeps its own     *)
(* counters of failures.                                                   *)
(***************************************************************************)
EXTENDS Naturals, FiniteSets, Functions

-----------------------------------------------------------------------------
(***************************************************************************)
(* core/db/connection/health_monitor.js: rounds of pings with a time-out,  *)
(* and reconnects after a back-off for the connections that failed. A      *)
(* repair that waits or reconnects knows its connection and nothing of     *)
(* what was removed meanwhile.                                             *)
(***************************************************************************)

CONSTANTS
  Watched,       \* connections that may be watched
  Repairless,    \* those of them that have no reconnect
  MaxRetries,    \* max_retries
  MaxRepairs     \* bound on the repairs of one connection that overlap

VARIABLES auto_remove_failed, connections, retry_counts, interval, pings, repairs, givenUp, orphans,
          reconnects
state == <<auto_remove_failed, connections, retry_counts, interval>>
monitor_vars == <<auto_remove_failed, connections, retry_counts, interval, pings, repairs, givenUp,
                  orphans, reconnects>>

\* pings: the round that is under way. repairs[c]: for every phase, how many
\* #handle_failure wait. givenUp, orphans: history variables, the connections
\* reported as failed, and those removed while a repair went on. reconnects:
\* as a history, the reconnects begun since one succeeded, to MaxRetries.
MonitorTypeOK ==
  /\ auto_remove_failed \in BOOLEAN /\ connections \subseteq Watched /\ interval \in BOOLEAN
  /\ \E D \in SUBSET Watched : retry_counts \in [D -> 0..MaxRetries]
  /\ \E D \in SUBSET Watched : pings \in [D -> {"sent", "healthy", "failed"}]
  /\ repairs \in [Watched -> [waiting : 0..MaxRepairs, reconnecting : 0..MaxRepairs]]
  /\ givenUp \subseteq Watched /\ orphans \subseteq Watched
  /\ reconnects \in [Watched -> 0..MaxRetries]

NoRound == [c \in {} |-> "sent"]
MonitorInit ==
  /\ auto_remove_failed \in BOOLEAN
  /\ connections = Watched /\ retry_counts = [c \in {} |-> 0] /\ interval = FALSE /\ pings = NoRound
  /\ repairs = [c \in Watched |-> [waiting |-> 0, reconnecting |-> 0]]
  /\ givenUp = {} /\ orphans = {} /\ reconnects = [c \in Watched |-> 0]

RetriesOf(c) == IF c \in DOMAIN retry_counts THEN retry_counts[c] ELSE 0
Repaired(c) == repairs[c].waiting + repairs[c].reconnecting

MonitorStart == ~interval /\ interval' = TRUE /\ UNCHANGED <<auto_remove_failed, connections, retry_counts, pings, repairs, givenUp, orphans, reconnects>>
MonitorStop == interval /\ interval' = FALSE /\ UNCHANGED <<auto_remove_failed, connections, retry_counts, pings, repairs, givenUp, orphans, reconnects>>

(* #check_all_connections; a round that lasts longer than the interval is  *)
(* left out.                                                               *)
CheckAllConnections ==
  /\ interval /\ pings = NoRound /\ connections # {}
  /\ pings' = [c \in connections |-> "sent"]
  /\ UNCHANGED <<state, repairs, givenUp, orphans, reconnects>>

(* The answer, the error or the time-out of a ping, the first one counts. *)
CheckConnection(c) ==
  /\ c \in DOMAIN pings /\ pings[c] = "sent"
  /\ \E r \in {"healthy", "failed"} : pings' = [pings EXCEPT ![c] = r]
  /\ UNCHANGED <<state, repairs, givenUp, orphans, reconnects>>

(* #handle_failure of a set of connections: those that used their retries  *)
(* are given up, the others wait for a reconnect.                          *)
Exhausted(F) == {c \in F : RetriesOf(c) >= MaxRetries}
HandleFailure(F, ended) ==
  LET up == Exhausted(F)  kept == IF auto_remove_failed THEN connections \ up ELSE connections
      D == (DOMAIN retry_counts \cup F) \ (IF auto_remove_failed THEN up ELSE {})
  IN /\ connections' = kept
     /\ retry_counts' = Restrict([c \in Watched |-> IF c \in F \ up THEN RetriesOf(c) + 1 ELSE RetriesOf(c)],
                                 IF auto_remove_failed THEN D ELSE DOMAIN retry_counts \cup (F \ up))
     /\ repairs' = [c \in Watched |->
          [waiting |-> repairs[c].waiting + (IF c \in F \ up THEN 1 ELSE 0),
           reconnecting |-> repairs[c].reconnecting - (IF c \in ended THEN 1 ELSE 0)]]
     /\ givenUp' = IF auto_remove_failed THEN givenUp ELSE givenUp \cup up
     /\ orphans' = orphans \cup {c \in connections \ kept :
          repairs'[c].waiting + repairs'[c].reconnecting > 0 \/ c \in DOMAIN pings'}

RoundEnds ==
  /\ pings # NoRound /\ \A c \in DOMAIN pings : pings[c] # "sent"
  /\ \A c \in DOMAIN pings : Repaired(c) < MaxRepairs
  /\ pings' = NoRound
  /\ HandleFailure({c \in DOMAIN pings : pings[c] = "failed"}, {}) /\ UNCHANGED <<auto_remove_failed, interval, reconnects>>

BackoffEnds(c) ==
  /\ repairs[c].waiting > 0 /\ c \notin Repairless
  /\ repairs' = [repairs EXCEPT ![c] = [waiting |-> @.waiting - 1, reconnecting |-> @.reconnecting + 1]]
  /\ reconnects' = [reconnects EXCEPT ![c] = IF @ < MaxRetries THEN @ + 1 ELSE @]
  /\ UNCHANGED <<state, pings, givenUp, orphans>>

(* Without a reconnect the repair ends here, and the count stays. *)
NotRepaired(c) ==
  /\ repairs[c].waiting > 0 /\ c \in Repairless
  /\ repairs' = [repairs EXCEPT ![c].waiting = @ - 1]
  /\ UNCHANGED <<state, pings, givenUp, orphans, reconnects>>

(* A reconnect that succeeds sets the count, also of a removed connection. *)
Recovered(c) ==
  /\ repairs[c].reconnecting > 0
  /\ repairs' = [repairs EXCEPT ![c].reconnecting = @ - 1]
  /\ retry_counts' = [d \in DOMAIN retry_counts \cup {c} |-> IF d = c THEN 0 ELSE retry_counts[d]]
  /\ reconnects' = [reconnects EXCEPT ![c] = 0]
  /\ givenUp' = givenUp \ {c} /\ UNCHANGED <<auto_remove_failed, connections, interval, pings, orphans>>

ReconnectFails(c) == /\ repairs[c].reconnecting > 0 /\ UNCHANGED <<auto_remove_failed, interval, pings, reconnects>>
                     /\ HandleFailure({c}, {c})

AddConnection(c) ==
  /\ c \notin connections /\ connections' = connections \cup {c}
  /\ retry_counts' = [d \in DOMAIN retry_counts \cup {c} |-> IF d = c THEN 0 ELSE retry_counts[d]]
  /\ givenUp' = givenUp \ {c} /\ UNCHANGED <<auto_remove_failed, interval, pings, repairs, orphans, reconnects>>

RemoveConnections(R) ==
  /\ connections' = connections \ R
  /\ retry_counts' = Restrict(retry_counts, DOMAIN retry_counts \ R)
  /\ givenUp' = givenUp \ R
  /\ orphans' = orphans \cup {c \in R : Repaired(c) > 0 \/ c \in DOMAIN pings}

RemoveConnection(c) == /\ c \in connections /\ RemoveConnections({c})
                       /\ UNCHANGED <<auto_remove_failed, interval, pings, repairs, reconnects>>

Destroy == /\ RemoveConnections(Watched) /\ interval' = FALSE /\ UNCHANGED <<auto_remove_failed, pings, repairs, reconnects>>

MonitorNext == \/ MonitorStart \/ MonitorStop \/ CheckAllConnections \/ RoundEnds \/ Destroy
        \/ \E c \in Watched : \/ CheckConnection(c) \/ BackoffEnds(c) \/ NotRepaired(c) \/ Recovered(c)
                              \/ ReconnectFails(c) \/ AddConnection(c) \/ RemoveConnection(c)

MonitorSpec == MonitorInit /\ [][MonitorNext]_monitor_vars

(* health_monitor.js: a connection reported as failed has used its         *)
(* retries, and if it has a reconnect that was tried as often or waits to  *)
(* be; a repair has a count, and what is counted but not watched was       *)
(* removed while a round or a repair still worked on it.                   *)
FailuresAreTried ==
  /\ \A c \in givenUp : c \in DOMAIN retry_counts /\ retry_counts[c] = MaxRetries
  /\ \A c \in givenUp \ Repairless : reconnects[c] + repairs[c].waiting >= MaxRetries
  /\ \A c \in DOMAIN retry_counts \ connections : c \in orphans
  /\ \A c \in connections \ orphans : Repaired(c) > 0 => c \in DOMAIN retry_counts

-----------------------------------------------------------------------------
(***************************************************************************)
(* core/db/connection/health_checker.js, connection_health.js and          *)
(* connection_manager.js: checks take a connection of the pool within a    *)
(* time limit. The connection of a check that was late is not given back,  *)
(* nor is one that has no release function; the periodic pings of          *)
(* connection_health mark copies of what it watches.                       *)
(***************************************************************************)

CONSTANTS
  Checks,       \* calls of check_health
  PoolSize,     \* connections of the pool
  MaxFailures   \* max_failures

VARIABLES check, free, leaked, failure_count, bound, running, healthy, pinging
checker == <<check, free, leaked, failure_count>>
watch == <<bound, running, healthy, pinging>>
checker_vars == <<check, free, leaked, failure_count, bound, running, healthy, pinging>>

Health == {"unknown", "yes", "no"}
CheckerTypeOK ==
  /\ check \in [Checks -> {"idle", "acquiring", "late", "ok", "failed", "degraded", "gone"}]
  /\ free \in 0..PoolSize /\ leaked \in 0..PoolSize
  /\ failure_count \in Nat
  /\ bound \in BOOLEAN /\ running \in BOOLEAN /\ healthy \in Health
  /\ pinging \in {"none", "own", "copy"}

\* late: answered, while the pool still looks for a connection.
CheckerInit == /\ check = [c \in Checks |-> "idle"] /\ free = PoolSize /\ leaked = 0
        /\ failure_count = 0
        /\ bound = FALSE /\ running = FALSE /\ healthy = "unknown" /\ pinging = "none"

CheckHealth(c) == /\ check[c] = "idle" /\ check' = [check EXCEPT ![c] = "acquiring"]
                  /\ UNCHANGED <<free, leaked, failure_count, watch>>

(* The connection is given back when it knows how to release itself. *)
Acquired(c, releases) ==
  /\ check[c] = "acquiring" /\ free > 0
  /\ check' = [check EXCEPT ![c] = "ok"] /\ failure_count' = 0
  /\ free' = (IF releases THEN free ELSE free - 1)
  /\ leaked' = (IF releases THEN leaked ELSE leaked + 1) /\ UNCHANGED watch

(* A time-out, or an error of the pool. *)
Degraded(n) == n >= MaxFailures
Fails(c, times_out) ==
  /\ check[c] = "acquiring" /\ failure_count' = failure_count + 1
  /\ check' = [check EXCEPT ![c] = IF times_out THEN "late"
                                   ELSE IF Degraded(failure_count + 1) THEN "degraded" ELSE "failed"]
  /\ UNCHANGED <<free, leaked, watch>>

(* What the pool finds after the time-out belongs to nobody. *)
AcquiredLate(c) == /\ check[c] = "late" /\ free > 0 /\ free' = free - 1 /\ leaked' = leaked + 1
                   /\ check' = [check EXCEPT ![c] = "gone"]
                   /\ UNCHANGED <<failure_count, watch>>

Reset == /\ failure_count > 0 /\ failure_count' = 0
         /\ UNCHANGED <<check, free, leaked, watch>>

(* ConnectionManager.start, stop; ConnectionHealth.start_health_checks,    *)
(* shutdown.                                                               *)
CheckerStart == /\ ~running /\ running' = TRUE /\ bound' = TRUE /\ UNCHANGED <<checker, healthy, pinging>>
CheckerStop == /\ running /\ running' = FALSE /\ UNCHANGED <<checker, bound, healthy, pinging>>

(* check_connection of a wrapper, or of the copies check_all made. *)
Ping(whose) == /\ pinging = "none" /\ (whose = "own" \/ running) /\ pinging' = whose
               /\ UNCHANGED <<checker, bound, running, healthy>>
Pinged(r) == /\ pinging # "none" /\ pinging' = "none"
             /\ healthy' = IF pinging = "own" THEN r ELSE healthy
             /\ UNCHANGED <<checker, bound, running>>

CheckerNext == \/ \E c \in Checks : \/ CheckHealth(c) \/ AcquiredLate(c)
                             \/ \E b \in BOOLEAN : Acquired(c, b) \/ Fails(c, b)
        \/ Reset \/ CheckerStart \/ CheckerStop
        \/ \E w \in {"own", "copy"} : Ping(w)
        \/ \E r \in {"yes", "no"} : Pinged(r)

CheckerSpec == CheckerInit /\ [][CheckerNext]_checker_vars

(* health_checker.js: a connection is free or was lost by a check, a       *)
(* degraded answer follows as many failures as the limit with no success   *)
(* between them.                                                           *)
ChecksAreAccounted ==
  /\ free + leaked = PoolSize
  /\ leaked <= Cardinality({c \in Checks : check[c] \in {"ok", "gone"}})
  /\ failure_count >= MaxFailures =>
       Cardinality({c \in Checks : check[c] \in {"late", "failed", "degraded", "gone"}}) >= MaxFailures
  /\ (\A c \in Checks : check[c] # "late" /\ check[c] # "gone") /\ failure_count >= MaxFailures =>
       \E c \in Checks : check[c] = "degraded"

-----------------------------------------------------------------------------
(* The values of the variables of every machine. *)
TypeOK == MonitorTypeOK /\ CheckerTypeOK
=============================================================================
