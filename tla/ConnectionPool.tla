--------------------------- MODULE ConnectionPool ---------------------------
(***************************************************************************)
(* core/db/connection/connection_pool.js, class Pool.  Requests are calls   *)
(* of acquire, each followed by one release of what it got; a connection is *)
(* named after the request that created it.  create_connection and          *)
(* destroy_connection are awaited, so everything else may happen meanwhile. *)
(* #active_connections always is #connections.length and is left out, and   *)
(* so is #start_idle_cleanup, which nothing calls.                          *)
(***************************************************************************)
EXTENDS Integers, Sequences, FiniteSets

CONSTANTS Requests, NoConnection,
          Shutdowns,       \* the calls of shutdown, which may overlap
          MaxConnections,  \* options.max_connections
          MaxAttempts      \* options.retry_max_attempts

ASSUME PoolAssumption ==
  /\ MaxConnections \in Nat \ {0}
  /\ MaxAttempts \in Nat \ {0}
  /\ NoConnection \notin Requests
  /\ IsFiniteSet(Requests)

VARIABLES
  connections,  \* the connections of the wrappers in #connections
  inUse,        \* those whose wrapper says in_use
  queue,        \* #queue: requests, first in front
  timers,       \* queue entries whose acquire timeout is pending
  status,       \* request -> how far its acquire has come
  held,         \* request -> the connection it holds
  attempts,     \* request -> failed create_connection calls
  loop,         \* shutdown -> how far its loop over #connections has come
  todo,         \* shutdown -> the connections its loop still comes to
  openAtDb,     \* connections created and not destroyed
  refused       \* those whose destroy_connection failed

vars == <<connections, inUse, queue, timers, status, held, attempts, loop,
          todo, openAtDb, refused>>
pool == <<connections, inUse, openAtDb, refused>>
waiting == <<queue, timers>>
closing == <<loop, todo>>

Statuses == {"new", "creating", "backoff", "waiting", "holding", "rejected",
             "released"}
Idle == connections \ inUse

(* A loop is "overtaken" once another shutdown has replaced the array it    *)
(* iterates; it has ended "late" when it then dropped the new one.          *)
Loops == {"new", "closing", "overtaken", "ended", "late"}
Up == \A s \in Shutdowns : loop[s] = "new"
Down == \E s \in Shutdowns : loop[s] \in {"ended", "late"}

Init ==
  /\ connections = {} /\ inUse = {} /\ openAtDb = {} /\ refused = {}
  /\ queue = <<>> /\ timers = {}
  /\ status = [r \in Requests |-> "new"]
  /\ held = [r \in Requests |-> NoConnection]
  /\ attempts = [r \in Requests |-> 0]
  /\ loop = [s \in Shutdowns |-> "new"]
  /\ todo = [s \in Shutdowns |-> {}]
-----------------------------------------------------------------------------
AcquireRefused(r) ==
  /\ status[r] = "new" /\ ~Up
  /\ status' = [status EXCEPT ![r] = "rejected"]
  /\ UNCHANGED <<pool, waiting, held, attempts, closing>>

M_AcquireIdle(r) ==
  /\ status[r] = "new" /\ Up
  /\ \E c \in Idle : held' = [held EXCEPT ![r] = c]
  /\ status' = [status EXCEPT ![r] = "holding"]
  /\ UNCHANGED <<pool, waiting, attempts, closing>>
AcquireIdle(r) ==
  /\ status[r] = "new" /\ Up
  /\ \E c \in Idle : /\ inUse' = inUse \cup {c}
                     /\ held' = [held EXCEPT ![r] = c]
  /\ status' = [status EXCEPT ![r] = "holding"]
  /\ UNCHANGED <<connections, openAtDb, refused, waiting, attempts, closing>>

AcquireCreate(r) ==
  /\ status[r] = "new" /\ Up
  /\ Idle = {} /\ Cardinality(connections) < MaxConnections
  /\ status' = [status EXCEPT ![r] = "creating"]
  /\ UNCHANGED <<pool, waiting, held, attempts, closing>>

M_AcquireQueue(r) ==
  /\ status[r] = "new" /\ Up
  /\ Idle = {} /\ Cardinality(connections) >= MaxConnections
  /\ queue' = Append(queue, r)
  /\ status' = [status EXCEPT ![r] = "waiting"]
  /\ UNCHANGED <<pool, timers, held, attempts, closing>>
AcquireQueue(r) ==
  /\ status[r] = "new" /\ Up
  /\ Idle = {} /\ Cardinality(connections) >= MaxConnections
  /\ queue' = Append(queue, r)
  /\ timers' = timers \cup {r}
  /\ status' = [status EXCEPT ![r] = "waiting"]
  /\ UNCHANGED <<pool, held, attempts, closing>>

(* The entry of the rejected request stays in the queue. *)
AcquireTimeout(r) ==
  /\ r \in timers
  /\ timers' = timers \ {r}
  /\ status' = [status EXCEPT ![r] = "rejected"]
  /\ UNCHANGED <<pool, queue, held, attempts, closing>>

(* create_connection answers, whatever has become of the pool meanwhile; a  *)
(* loop over #connections comes to the new one too.                        *)
CreateSucceeds(r) ==
  /\ status[r] = "creating"
  /\ connections' = connections \cup {r}
  /\ inUse' = inUse \cup {r}
  /\ openAtDb' = openAtDb \cup {r}
  /\ todo' = [s \in Shutdowns |-> IF loop[s] = "closing" THEN todo[s] \cup {r}
                                  ELSE todo[s]]
  /\ held' = [held EXCEPT ![r] = r]
  /\ status' = [status EXCEPT ![r] = "holding"]
  /\ UNCHANGED <<refused, waiting, attempts, loop>>

CreateFails(r) ==
  /\ status[r] = "creating"
  /\ attempts' = [attempts EXCEPT ![r] = @ + 1]
  /\ status' = [status EXCEPT ![r] = "backoff"]
  /\ UNCHANGED <<pool, waiting, held, closing>>

BackoffEnds(r) ==
  /\ status[r] = "backoff"
  /\ status' = [status EXCEPT ![r] = IF attempts[r] < MaxAttempts
                                       THEN "creating" ELSE "rejected"]
  /\ UNCHANGED <<pool, waiting, held, attempts, closing>>
-----------------------------------------------------------------------------
(* #process_queue, with `idle` free: the first n entries are taken off the  *)
(* queue and get a connection each; an entry that timed out wastes its own. *)
ProcessQueue(r, idle) ==
  \E n \in 0..Len(queue) :
    \E c \in [1..n -> idle] :
      LET Served == {queue[i] : i \in 1..n}
          Settled == {s \in Served : status[s] = "waiting"}
          Gets(s) == c[CHOOSE i \in 1..n : queue[i] = s]
      IN
      /\ \A i, j \in 1..n : c[i] = c[j] => i = j
      /\ n = Len(queue) \/ Cardinality(idle) = n
      /\ queue' = SubSeq(queue, n + 1, Len(queue))
      /\ timers' = timers \ Served
      /\ inUse' = (connections \ idle) \cup {c[i] : i \in 1..n}
      /\ status' = [s \in Requests |-> IF s = r THEN "released"
                                       ELSE IF s \in Settled THEN "holding"
                                       ELSE status[s]]
      /\ held' = [s \in Requests |-> IF s = r THEN NoConnection
                                     ELSE IF s \in Settled THEN Gets(s)
                                     ELSE held[s]]

Release(r) ==
  /\ status[r] = "holding"
  /\ IF held[r] \in connections
       THEN ProcessQueue(r, Idle \cup {held[r]})
       ELSE /\ status' = [status EXCEPT ![r] = "released"]
            /\ held' = [held EXCEPT ![r] = NoConnection]
            /\ UNCHANGED <<inUse, waiting>>
  /\ UNCHANGED <<connections, openAtDb, refused, attempts, closing>>
-----------------------------------------------------------------------------
Shutdown(s) ==
  /\ loop[s] = "new"
  /\ loop' = [loop EXCEPT ![s] = "closing"]
  /\ todo' = [todo EXCEPT ![s] = connections]
  /\ UNCHANGED <<pool, waiting, status, held, attempts>>

(* One turn of the loop, over connections in use or not; a failure of       *)
(* destroy_connection is caught.                                           *)
ShutdownDestroys(s) ==
  /\ \E c \in todo[s] :
       /\ todo' = [todo EXCEPT ![s] = @ \ {c}]
       /\ \/ openAtDb' = openAtDb \ {c} /\ UNCHANGED refused
          \/ refused' = refused \cup {c} /\ UNCHANGED openAtDb
  /\ UNCHANGED <<connections, inUse, waiting, status, held, attempts, loop>>

(* Both arrays are dropped, whichever of them the loop was over; the        *)
(* promises of those still queued are not settled.                         *)
M_ShutdownEnds(s) ==
  /\ loop[s] \in {"closing", "overtaken"}
  /\ loop' = [o \in Shutdowns |->
                IF o = s THEN "ended"
                ELSE IF loop[o] = "closing" THEN "overtaken" ELSE loop[o]]
  /\ connections' = {} /\ inUse' = {} /\ queue' = <<>> /\ timers' = {}
  /\ UNCHANGED <<openAtDb, refused, status, held, attempts, todo>>
ShutdownEnds(s) ==
  /\ loop[s] \in {"closing", "overtaken"} /\ todo[s] = {}
  /\ loop' = [o \in Shutdowns |->
                IF o = s THEN IF loop[s] = "overtaken" /\ connections # {}
                                THEN "late" ELSE "ended"
                ELSE IF loop[o] = "closing" THEN "overtaken" ELSE loop[o]]
  /\ connections' = {} /\ inUse' = {} /\ queue' = <<>> /\ timers' = {}
  /\ UNCHANGED <<openAtDb, refused, status, held, attempts, todo>>

Step(r) ==
  \/ AcquireRefused(r) \/ AcquireIdle(r) \/ AcquireCreate(r)
  \/ AcquireQueue(r) \/ AcquireTimeout(r)
  \/ CreateSucceeds(r) \/ CreateFails(r) \/ BackoffEnds(r)
  \/ Release(r)

Close(s) == Shutdown(s) \/ ShutdownDestroys(s) \/ ShutdownEnds(s)

Next == (\E r \in Requests : Step(r)) \/ (\E s \in Shutdowns : Close(s))

Spec == Init /\ [][Next]_vars

(* Timers fire, the database answers every call, and shutdown's loop goes   *)
(* on; callers need neither acquire nor release nor shut down.              *)
Fairness ==
  /\ \A r \in Requests :
       WF_vars(AcquireTimeout(r)) /\ WF_vars(BackoffEnds(r))
       /\ WF_vars(CreateSucceeds(r) \/ CreateFails(r))
  /\ \A s \in Shutdowns : WF_vars(ShutdownDestroys(s) \/ ShutdownEnds(s))

FairSpec == Spec /\ Fairness
-----------------------------------------------------------------------------
TypeOK ==
  /\ connections \subseteq Requests /\ inUse \subseteq connections
  /\ openAtDb \subseteq Requests /\ refused \subseteq Requests
  /\ queue \in Seq(Requests) /\ timers \subseteq Requests
  /\ status \in [Requests -> Statuses]
  /\ held \in [Requests -> Requests \cup {NoConnection}]
  /\ attempts \in [Requests -> 0..MaxAttempts]
  /\ loop \in [Shutdowns -> Loops]
  /\ todo \in [Shutdowns -> SUBSET Requests]

(* The pool keeps the promise of Leases: acquire and #process_queue settle  *)
(* each promise once and never hand out a connection that is in use.        *)
Answer(r) ==
  CASE status[r] = "holding" -> "held"
    [] status[r] = "rejected" -> "refused"
    [] status[r] = "released" -> "returned"
    [] OTHER -> "open"
Promise == INSTANCE Leases WITH Connections <- Requests,
                                answer <- [r \in Requests |-> Answer(r)]
PromiseSpec == Promise!Spec

(* Two callers never hold one connection, over any order of acquisitions,   *)
(* timeouts and releases, also during and after shutdown.                   *)
ExclusiveUse ==
  \A r, s \in Requests :
    status[r] = "holding" /\ status[s] = "holding" /\ held[r] = held[s] => r = s

(* No lost wakeup: nobody waits in the queue beside an idle connection, so  *)
(* a newcomer cannot overtake the queue either.                            *)
NoIdleWhileWaiting == queue # <<>> => Idle = {}

(* A connection open at the database is one the pool still knows or one it  *)
(* failed to destroy: whatever was pushed while the others were destroyed,  *)
(* a shutdown drops nothing untried, unless another one replaced the array  *)
(* its loop was over.                                                      *)
NoForgottenConnection ==
  (\A s \in Shutdowns : loop[s] # "late")
    => openAtDb \subseteq connections \cup refused

(* The books of acquire, release, #process_queue and shutdown are right.    *)
PoolIsSound ==
  TypeOK /\ ExclusiveUse /\ NoIdleWhileWaiting /\ NoForgottenConnection

(* Every acquire that is not answered at once is answered, through a         *)
(* release, the end of the attempts or the acquire timeout, unless shutdown *)
(* drops the queue it waits in.                                            *)
AcquireSettles ==
  \A r \in Requests :
    status[r] \in {"creating", "backoff", "waiting"}
      ~> status[r] \notin {"creating", "backoff", "waiting"} \/ Down

=============================================================================
