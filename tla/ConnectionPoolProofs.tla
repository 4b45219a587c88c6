------------------------ MODULE ConnectionPoolProofs ------------------------
(***************************************************************************)
(* Proofs about ConnectionPool for any set of requests and any limits.      *)
(* Everything follows from one inductive invariant, IInv: what is in use,   *)
(* held and queued hang together such that a release finds at most one      *)
(* connection to hand on, the one released.                                 *)
(***************************************************************************)
EXTENDS ConnectionPool, FiniteSetTheorems, SequenceTheorems, TLAPS

(* A request that has not been given a connection never created one.        *)
Created(c) == status[c] \in {"holding", "released"}

HeldAgrees ==
  \A r \in Requests : status[r] = "holding" <=> held[r] # NoConnection
HeldInUse ==
  \A r \in Requests : held[r] \in connections => held[r] \in inUse
HeldCreated ==
  \A r \in Requests : held[r] # NoConnection => Created(held[r])
ConnectionsCreated == \A c \in connections : Created(c)
QueueOnce ==
  \A i, j \in 1..Len(queue) : queue[i] = queue[j] => i = j
QueueStatus == \A i \in 1..Len(queue) : status[queue[i]] \in {"waiting", "rejected"}
TimersWait == \A r \in timers : status[r] = "waiting"
AttemptsLeft ==
  \A r \in Requests : status[r] \in {"new", "creating", "waiting"}
                        => attempts[r] < MaxAttempts
(* The loop of a shutdown that is over the array in use still comes to what *)
(* is open in it and was not refused.                                      *)
LoopsCome ==
  \A s \in Shutdowns :
    loop[s] = "closing" => connections \cap openAtDb \subseteq todo[s] \cup refused

IInv == /\ TypeOK
        /\ HeldAgrees /\ HeldInUse /\ HeldCreated /\ ConnectionsCreated
        /\ QueueOnce /\ QueueStatus /\ TimersWait /\ AttemptsLeft /\ LoopsCome
        /\ ExclusiveUse /\ NoIdleWhileWaiting /\ NoForgottenConnection

(* The initial state satisfies the invariant: nothing is held or queued.    *)
LEMMA InitIInv == Init => IInv BY PoolAssumption, Z3T(30)
  DEF Init, IInv, TypeOK, Statuses, HeldAgrees, HeldInUse, HeldCreated,
      ConnectionsCreated, QueueOnce, QueueStatus, TimersWait, AttemptsLeft,
      LoopsCome, Loops, ExclusiveUse, NoIdleWhileWaiting, NoForgottenConnection, Idle

(* What #process_queue amounts to on a release under the invariant: nobody  *)
(* is queued and the connection becomes idle, or it goes to the first entry *)
(* of the queue, which is a caller still waiting or one that timed out.     *)
ToIdle(r) ==
  /\ queue = <<>> /\ queue' = <<>> /\ timers' = timers
  /\ inUse' = inUse \ {held[r]}
  /\ status' = [status EXCEPT ![r] = "released"]
  /\ held' = [held EXCEPT ![r] = NoConnection]
ToNext(r) ==
  /\ queue # <<>> /\ queue' = Tail(queue) /\ timers' = timers \ {Head(queue)}
  /\ inUse' = inUse
  /\ Head(queue) # r
  /\ IF status[Head(queue)] = "waiting"
       THEN /\ status' = [status EXCEPT ![r] = "released",
                                        ![Head(queue)] = "holding"]
            /\ held' = [held EXCEPT ![r] = NoConnection,
                                    ![Head(queue)] = held[r]]
       ELSE /\ status' = [status EXCEPT ![r] = "released"]
            /\ held' = [held EXCEPT ![r] = NoConnection]

LEMMA ReleaseCases ==
  ASSUME IInv, NEW r \in Requests, status[r] = "holding",
         held[r] \in connections, ProcessQueue(r, Idle \cup {held[r]})
  PROVE  ToIdle(r) \/ ToNext(r)
<1> DEFINE idle == Idle \cup {held[r]}
<1>1. PICK n \in 0..Len(queue) : \E c \in [1..n -> idle] :
        LET Served == {queue[i] : i \in 1..n}
            Settled == {s \in Served : status[s] = "waiting"}
            Gets(s) == c[CHOOSE i \in 1..n : queue[i] = s]
        IN
        /\ \A i, j \in 1..n : c[i] = c[j] => i = j
        /\ n = Len(queue) \/ Cardinality(idle) = n
        /\ queue' = SubSeq(queue, n + 1, Len(queue))
        /\ timers' = timers \ Served
        /\ inUse' = (connections \ idle) \cup {c[i] : i \in 1..n}
        /\ status' = [s \in Requests |-> IF s = r THEN "released"
                                         ELSE IF s \in Settled THEN "holding"
                                         ELSE status[s]]
        /\ held' = [s \in Requests |-> IF s = r THEN NoConnection
                                       ELSE IF s \in Settled THEN Gets(s)
                                       ELSE held[s]] BY DEF ProcessQueue
<1>2. PICK c \in [1..n -> idle] :
        /\ \A i, j \in 1..n : c[i] = c[j] => i = j
        /\ n = Len(queue) \/ Cardinality(idle) = n
        /\ queue' = SubSeq(queue, n + 1, Len(queue))
        /\ timers' = timers \ {queue[i] : i \in 1..n}
        /\ inUse' = (connections \ idle) \cup {c[i] : i \in 1..n}
        /\ status' = [s \in Requests |->
             IF s = r THEN "released"
             ELSE IF s \in {q \in {queue[i] : i \in 1..n} : status[q] = "waiting"}
                    THEN "holding" ELSE status[s]]
        /\ held' = [s \in Requests |->
             IF s = r THEN NoConnection
             ELSE IF s \in {q \in {queue[i] : i \in 1..n} : status[q] = "waiting"}
                    THEN c[CHOOSE i \in 1..n : queue[i] = s] ELSE held[s]] BY <1>1
<1>3. queue \in Seq(Requests) /\ Len(queue) \in Nat BY DEF IInv, TypeOK
<1>4. CASE queue = <<>>
  <2>1. n = 0 BY <1>4
  <2>2. queue' = <<>> BY <1>2, <1>4, <2>1
  <2>3. {queue[i] : i \in 1..n} = {} /\ {c[i] : i \in 1..n} = {} BY <2>1
  <2>4. inUse' = inUse \ {held[r]} BY <1>2, <2>3 DEF Idle, IInv, TypeOK
  <2>5. status' = [status EXCEPT ![r] = "released"] BY <1>2, <2>3 DEF IInv, TypeOK
  <2>6. held' = [held EXCEPT ![r] = NoConnection] BY <1>2, <2>3 DEF IInv, TypeOK
  <2> QED BY <1>2, <1>4, <2>2, <2>3, <2>4, <2>5, <2>6 DEF ToIdle
<1>5. CASE queue # <<>>
  <2>1. idle = {held[r]} BY <1>5 DEF IInv, NoIdleWhileWaiting
  <2>2. Cardinality(idle) = 1 BY <2>1, FS_Singleton
  <2>3. n <= 1
    <3>1. \A i \in 1..n : c[i] = held[r] BY <2>1
    <3>2. 1 \in 1..n /\ 2 \in 1..n => FALSE BY <1>2, <3>1
    <3> QED BY <3>2, <1>3
  <2>4. n = 1 BY <1>2, <1>3, <1>5, <2>2, <2>3, EmptySeq
  <2>5. {queue[i] : i \in 1..n} = {Head(queue)} BY <1>3, <1>5, <2>4
  <2>6. {c[i] : i \in 1..n} = {held[r]} /\ c[1] = held[r] BY <2>1, <2>4
  <2>7. (CHOOSE i \in 1..n : queue[i] = Head(queue)) = 1 BY <1>3, <1>5, <2>4
  <2>8. queue' = Tail(queue) BY <1>2, <1>3, <1>5, <2>4
  <2>9. inUse' = inUse
    <3>1. inUse' = (connections \ {held[r]}) \cup {held[r]} BY <1>2, <2>1, <2>6
    <3>2. inUse \subseteq connections /\ held[r] \in inUse BY DEF IInv, TypeOK, HeldInUse
    <3>3. connections \ inUse \subseteq {held[r]} BY <2>1 DEF Idle
    <3> QED BY <3>1, <3>2, <3>3
  <2>10. Head(queue) \in Requests /\ Head(queue) # r BY <1>3, <1>5 DEF IInv, QueueStatus
  <2>11. CASE status[Head(queue)] = "waiting"
    <3>1. status' = [status EXCEPT ![r] = "released", ![Head(queue)] = "holding"]
      BY <1>2, <2>5, <2>10, <2>11 DEF IInv, TypeOK
    <3>2. held' = [held EXCEPT ![r] = NoConnection, ![Head(queue)] = held[r]]
      <4> DEFINE taker == {q \in {queue[i] : i \in 1..n} : status[q] = "waiting"}
      <4>1. taker = {Head(queue)} BY <2>5, <2>11
      <4>2. held' = [s \in Requests |->
                      IF s = r THEN NoConnection
                      ELSE IF s \in taker
                             THEN c[CHOOSE i \in 1..n : queue[i] = s] ELSE held[s]] BY <1>2
      <4> HIDE DEF taker
      <4>3. held' = [s \in Requests |-> IF s = r THEN NoConnection
                                        ELSE IF s = Head(queue) THEN held[r]
                                        ELSE held[s]] BY <2>6, <2>7, <4>1, <4>2, Zenon
      <4>4. held \in [Requests -> Requests \cup {NoConnection}] BY DEF IInv, TypeOK
      <4> QED BY <2>10, <4>3, <4>4
    <3> QED BY <1>2, <1>5, <2>5, <2>8, <2>9, <2>10, <2>11, <3>1, <3>2 DEF ToNext
  <2>12. CASE status[Head(queue)] # "waiting"
    <3>1. status' = [status EXCEPT ![r] = "released"] BY <1>2, <2>5, <2>12 DEF IInv, TypeOK
    <3>2. held' = [held EXCEPT ![r] = NoConnection] BY <1>2, <2>5, <2>12 DEF IInv, TypeOK
    <3> QED BY <1>2, <1>5, <2>5, <2>8, <2>9, <2>10, <2>12, <3>1, <3>2 DEF ToNext
  <2> QED BY <2>11, <2>12
<1> QED BY <1>4, <1>5

-----------------------------------------------------------------------------
(* The invariant is inductive: one step per action, every conjunct at once  *)
(* where the action disturbs little, one by one for a release.             *)
LEMMA ReleaseIInv ==
  ASSUME IInv, NEW r \in Requests, Release(r) PROVE IInv'
<1>1. /\ status[r] = "holding"
      /\ UNCHANGED <<connections, openAtDb, refused, attempts, loop, todo>> BY DEF Release, closing
<1>2. TypeOK /\ held[r] \in Requests /\ held[r] # NoConnection
  BY <1>1, PoolAssumption DEF IInv, TypeOK, HeldAgrees
<1>3. CASE held[r] \notin connections
  <2>1. /\ status' = [status EXCEPT ![r] = "released"]
        /\ held' = [held EXCEPT ![r] = NoConnection]
        /\ UNCHANGED <<inUse, queue, timers>> BY <1>3 DEF Release, waiting
    <2>2. TypeOK' BY <1>1, <1>2, <2>1 DEF TypeOK, Statuses
    <2>3. HeldAgrees' BY <1>1, <1>2, <2>1 DEF IInv, TypeOK, HeldAgrees
    <2>4. HeldInUse' BY <1>1, <1>2, <2>1, PoolAssumption DEF IInv, TypeOK, HeldInUse
    <2>5. HeldCreated' BY <1>1, <1>2, <2>1 DEF IInv, TypeOK, HeldCreated, Created
    <2>6. ConnectionsCreated' BY <1>1, <1>2, <2>1 DEF IInv, TypeOK, ConnectionsCreated, Created
    <2>7. ExclusiveUse' BY <1>1, <1>2, <2>1 DEF IInv, TypeOK, ExclusiveUse, HeldAgrees
    <2>8. QueueOnce' BY <1>1, <1>2, <2>1 DEF IInv, QueueOnce
    <2>9. QueueStatus' BY <1>1, <1>2, <2>1 DEF IInv, QueueStatus, TypeOK
    <2>10. TimersWait' BY <1>1, <1>2, <2>1 DEF IInv, TypeOK, TimersWait
    <2>11. AttemptsLeft' BY <1>1, <1>2, <2>1 DEF IInv, TypeOK, AttemptsLeft
    <2>12. NoIdleWhileWaiting' BY <1>1, <1>2, <2>1 DEF IInv, NoIdleWhileWaiting, Idle
    <2>13. NoForgottenConnection' /\ LoopsCome'
      BY <1>1, <1>2, <2>1 DEF IInv, NoForgottenConnection, LoopsCome
    <2> QED BY <2>2, <2>3, <2>4, <2>5, <2>6, <2>7, <2>8, <2>9, <2>10, <2>11, <2>12, <2>13 DEF IInv
<1>4. CASE held[r] \in connections
  <2>1. ToIdle(r) \/ ToNext(r) BY <1>1, <1>4, ReleaseCases DEF Release
  <2>2. CASE ToIdle(r)
    <3>1. /\ status' = [status EXCEPT ![r] = "released"]
          /\ held' = [held EXCEPT ![r] = NoConnection]
          /\ inUse' = inUse \ {held[r]} /\ queue = <<>> /\ UNCHANGED <<queue, timers>>
      BY <2>2 DEF ToIdle
      <3>2. TypeOK' BY <1>1, <1>2, <3>1 DEF TypeOK, Statuses
      <3>3. HeldAgrees' BY <1>1, <1>2, <3>1 DEF IInv, TypeOK, HeldAgrees
      <3>4. HeldInUse'
        <4>1. \A q \in Requests : held[q] = held[r] => q = r
        BY <1>1, <1>2 DEF IInv, HeldAgrees, ExclusiveUse
      <4> QED BY <1>1, <1>2, <3>1, <4>1, PoolAssumption DEF IInv, TypeOK, HeldInUse
      <3>5. HeldCreated' BY <1>1, <1>2, <3>1 DEF IInv, TypeOK, HeldCreated, Created
      <3>6. ConnectionsCreated' BY <1>1, <1>2, <3>1 DEF IInv, TypeOK, ConnectionsCreated, Created
      <3>7. ExclusiveUse' BY <1>1, <1>2, <3>1 DEF IInv, TypeOK, ExclusiveUse, HeldAgrees
      <3>8. QueueOnce' BY <1>1, <1>2, <3>1 DEF IInv, QueueOnce
      <3>9. QueueStatus' BY <1>1, <1>2, <3>1 DEF IInv, QueueStatus, TypeOK
      <3>10. TimersWait' BY <1>1, <1>2, <3>1 DEF IInv, TypeOK, TimersWait
      <3>11. AttemptsLeft' BY <1>1, <1>2, <3>1 DEF IInv, TypeOK, AttemptsLeft
      <3>12. NoIdleWhileWaiting' BY <1>1, <1>2, <3>1 DEF IInv, NoIdleWhileWaiting, Idle
      <3>13. NoForgottenConnection' /\ LoopsCome'
        BY <1>1, <1>2, <3>1 DEF IInv, NoForgottenConnection, LoopsCome
      <3> QED BY <3>2, <3>3, <3>4, <3>5, <3>6, <3>7, <3>8, <3>9, <3>10, <3>11, <3>12, <3>13 DEF IInv
  <2>3. CASE ToNext(r)
    <3> DEFINE h == Head(queue)
    <3>1. /\ h \in Requests /\ h # r /\ queue[1] = h
          /\ Len(queue') = Len(queue) - 1
          /\ queue' \in Seq(Requests)
          /\ \A i \in 1..Len(queue') : queue'[i] = queue[i + 1] /\ i + 1 \in 1..Len(queue)
      BY <1>2, <2>3 DEF ToNext, TypeOK
    <3>2. 1 \in 1..Len(queue) /\ status[h] \in {"waiting", "rejected"}
      BY <1>2, <2>3, <3>1 DEF ToNext, TypeOK, IInv, QueueStatus
    <3>3. \A i \in 1..Len(queue') : queue'[i] # h BY <3>1, <3>2 DEF IInv, QueueOnce
    <3>4. held[h] = NoConnection BY <3>1, <3>2 DEF IInv, HeldAgrees
    <3>5. \A s \in Requests : held[s] = held[r] => s = r
      BY <1>1, <1>2 DEF IInv, HeldAgrees, ExclusiveUse
    <3> HIDE DEF h
    <3>6. CASE status[h] = "waiting"
      <4>1. /\ status' = [status EXCEPT ![r] = "released", ![h] = "holding"]
            /\ held' = [held EXCEPT ![r] = NoConnection, ![h] = held[r]]
            /\ inUse' = inUse /\ timers' = timers \ {h} BY <2>3, <3>6 DEF ToNext, h
      <4>2. TypeOK' BY <1>1, <1>2, <3>1, <4>1 DEF TypeOK, Statuses
      <4>3. HeldAgrees' /\ HeldInUse' /\ HeldCreated' /\ ConnectionsCreated' /\ ExclusiveUse'
        BY <1>1, <1>2, <3>1, <3>4, <3>5, <4>1
        DEF IInv, TypeOK, HeldAgrees, HeldInUse, HeldCreated, ConnectionsCreated,
            Created, ExclusiveUse
      <4>4. QueueOnce' BY <3>1 DEF IInv, QueueOnce
      <4>5. QueueStatus'
        <5> SUFFICES ASSUME NEW i \in 1..Len(queue')
                     PROVE  status'[queue'[i]] \in {"waiting", "rejected"} BY DEF QueueStatus
        <5>1. queue'[i] # h /\ queue'[i] \in Requests BY <1>2, <3>1, <3>3 DEF TypeOK
        <5>2. status[queue'[i]] \in {"waiting", "rejected"} BY <3>1 DEF IInv, QueueStatus
        <5>3. queue'[i] # r BY <1>1, <5>2
        <5> QED BY <1>2, <4>1, <5>1, <5>2, <5>3 DEF TypeOK
      <4>6. TimersWait' /\ AttemptsLeft' /\ NoForgottenConnection' /\ LoopsCome'
        BY <1>1, <1>2, <3>1, <4>1
        DEF IInv, TypeOK, TimersWait, AttemptsLeft, NoForgottenConnection, LoopsCome
      <4>7. NoIdleWhileWaiting' BY <1>1, <2>3, <4>1 DEF ToNext, IInv, NoIdleWhileWaiting, Idle
      <4> QED BY <4>2, <4>3, <4>4, <4>5, <4>6, <4>7 DEF IInv
    <3>7. CASE status[h] # "waiting"
      <4>1. /\ status' = [status EXCEPT ![r] = "released"]
            /\ held' = [held EXCEPT ![r] = NoConnection]
            /\ inUse' = inUse /\ timers' = timers \ {h} BY <2>3, <3>7 DEF ToNext, h
      <4>2. TypeOK' BY <1>1, <1>2, <3>1, <4>1 DEF TypeOK, Statuses
      <4>3. HeldAgrees' /\ HeldCreated' /\ ConnectionsCreated' BY <1>1, <1>2, <3>1, <4>1
        DEF IInv, TypeOK, HeldAgrees, HeldCreated, ConnectionsCreated, Created
      <4>8. HeldInUse' /\ ExclusiveUse' BY <1>1, <1>2, <3>1, <3>5, <4>1, PoolAssumption
        DEF IInv, TypeOK, HeldInUse, ExclusiveUse
      <4>4. QueueOnce' BY <3>1 DEF IInv, QueueOnce
      <4>5. QueueStatus' BY <1>1, <1>2, <3>1, <4>1 DEF IInv, QueueStatus, TypeOK
      <4>6. TimersWait' /\ AttemptsLeft' /\ NoForgottenConnection' /\ LoopsCome'
        BY <1>1, <1>2, <3>1, <4>1
        DEF IInv, TypeOK, TimersWait, AttemptsLeft, NoForgottenConnection, LoopsCome
      <4>7. NoIdleWhileWaiting' BY <1>1, <2>3, <4>1 DEF ToNext, IInv, NoIdleWhileWaiting, Idle
      <4> QED BY <4>2, <4>3, <4>4, <4>5, <4>6, <4>7, <4>8 DEF IInv
    <3> QED BY <3>6, <3>7
  <2> QED BY <2>1, <2>2, <2>3
<1> QED BY <1>3, <1>4

(* A request that is not queued yet can be appended. *)
LEMMA AppendOnce ==
  ASSUME NEW S, NEW q \in Seq(S), NEW r \in S,
         \A i, j \in 1..Len(q) : q[i] = q[j] => i = j,
         \A i \in 1..Len(q) : q[i] # r
  PROVE  \A i, j \in 1..Len(Append(q, r)) :
           Append(q, r)[i] = Append(q, r)[j] => i = j
<1>1. /\ Len(q) \in Nat /\ Len(Append(q, r)) = Len(q) + 1
      /\ \A i \in 1..Len(q) : Append(q, r)[i] = q[i]
      /\ Append(q, r)[Len(q) + 1] = r
  OBVIOUS
<1> DEFINE p == Append(q, r)
<1> HIDE DEF p
<1> SUFFICES ASSUME NEW i \in 1..Len(p), NEW j \in 1..Len(p), p[i] = p[j] PROVE i = j BY DEF p
<1>2. i \in 1..Len(q) \/ i = Len(q) + 1 BY <1>1 DEF p
<1>3. j \in 1..Len(q) \/ j = Len(q) + 1 BY <1>1 DEF p
<1> QED BY <1>1, <1>2, <1>3 DEF p

LEMMA NextIInv == IInv /\ [Next]_vars => IInv'
<1> SUFFICES ASSUME IInv, [Next]_vars PROVE IInv' OBVIOUS
<1> USE DEF IInv, TypeOK, Statuses, HeldAgrees, HeldInUse, HeldCreated, Created,
        ConnectionsCreated, QueueStatus, TimersWait, AttemptsLeft, LoopsCome, Loops,
        ExclusiveUse, NoIdleWhileWaiting, NoForgottenConnection, Idle,
        pool, waiting, closing, Up
<1>1. ASSUME NEW r \in Requests, AcquireRefused(r) PROVE IInv' BY <1>1 DEF AcquireRefused, QueueOnce
<1>2. ASSUME NEW r \in Requests, AcquireIdle(r) PROVE IInv'
  BY <1>2, PoolAssumption DEF AcquireIdle, QueueOnce
<1>3. ASSUME NEW r \in Requests, AcquireCreate(r) PROVE IInv' BY <1>3 DEF AcquireCreate, QueueOnce
<1>4. ASSUME NEW r \in Requests, AcquireQueue(r) PROVE IInv'
  <2>1. /\ queue' \in Seq(Requests) /\ Len(queue') = Len(queue) + 1
        /\ \A i \in 1..Len(queue) : queue'[i] = queue[i] /\ queue[i] # r
        /\ queue'[Len(queue) + 1] = r BY <1>4 DEF AcquireQueue
  <2>2. QueueOnce'
    <3> HIDE DEF IInv, TypeOK
    <3>1. /\ queue \in Seq(Requests) /\ queue' = Append(queue, r)
          /\ \A i \in 1..Len(queue) : queue[i] # r BY <1>4, <2>1 DEF AcquireQueue, IInv, TypeOK
    <3>2. \A i, j \in 1..Len(queue) : queue[i] = queue[j] => i = j BY DEF IInv, QueueOnce
    <3>3. \A i, j \in 1..Len(Append(queue, r)) :
            Append(queue, r)[i] = Append(queue, r)[j] => i = j BY <3>1, <3>2, AppendOnce
    <3> QED BY <3>1, <3>3, Zenon DEF QueueOnce
  <2>3. QueueStatus' BY <1>4, <2>1 DEF AcquireQueue
  <2> QED BY <1>4, <2>1, <2>2, <2>3 DEF AcquireQueue
<1>5. ASSUME NEW r \in Requests, AcquireTimeout(r) PROVE IInv' BY <1>5 DEF AcquireTimeout, QueueOnce
<1>6. ASSUME NEW r \in Requests, CreateSucceeds(r) PROVE IInv'
  BY <1>6, PoolAssumption DEF CreateSucceeds, QueueOnce
<1>7. ASSUME NEW r \in Requests, CreateFails(r) PROVE IInv'
  BY <1>7, PoolAssumption DEF CreateFails, QueueOnce
<1>8. ASSUME NEW r \in Requests, BackoffEnds(r) PROVE IInv'
  BY <1>8, PoolAssumption DEF BackoffEnds, QueueOnce
<1>9. ASSUME NEW r \in Requests, Release(r) PROVE IInv' BY <1>9, ReleaseIInv
<1>10. ASSUME NEW s \in Shutdowns, Shutdown(s) PROVE IInv' BY <1>10 DEF Shutdown, QueueOnce
<1>11. ASSUME NEW s \in Shutdowns, ShutdownDestroys(s) PROVE IInv'
  BY <1>11 DEF ShutdownDestroys, QueueOnce
<1>12. ASSUME NEW s \in Shutdowns, ShutdownEnds(s) PROVE IInv' BY <1>12 DEF ShutdownEnds, QueueOnce
<1>13. CASE UNCHANGED vars BY <1>13 DEF vars, QueueOnce
<1> QED BY <1>1, <1>2, <1>3, <1>4, <1>5, <1>6, <1>7, <1>8, <1>9, <1>10, <1>11, <1>12,
     <1>13 DEF Next, Step, Close

LEMMA AlwaysIInv == Spec => []IInv BY InitIInv, NextIInv, PTL DEF Spec

(* Every variable of the pool stays in its type; in particular no request   *)
(* makes more than retry_max_attempts attempts.                            *)
THEOREM TypeCorrect == Spec => []TypeOK BY AlwaysIInv, PTL DEF IInv

(* Whatever the limits and the order of calls, timeouts and shutdown, two   *)
(* callers never hold the same connection.                                 *)
THEOREM UseIsExclusive == Spec => []ExclusiveUse BY AlwaysIInv, PTL DEF IInv

(* Nobody ever waits in the queue beside an idle connection.                *)
THEOREM NoLostWakeup == Spec => []NoIdleWhileWaiting BY AlwaysIInv, PTL DEF IInv

(* What is open at the database is known to the pool or could not be        *)
(* destroyed, until a shutdown drops an array its loop was not over.        *)
THEOREM NothingForgotten == Spec => []NoForgottenConnection BY AlwaysIInv, PTL DEF IInv

(* The books of the pool are right for every limit and every order.         *)
THEOREM PoolSound == Spec => []PoolIsSound
  BY TypeCorrect, UseIsExclusive, NoLostWakeup, NothingForgotten, PTL DEF PoolIsSound
-----------------------------------------------------------------------------
(* The pool implements Leases: each action is a step of it or a stutter.    *)
LEMMA InitPromise == Init => Promise!Init BY DEF Init, Promise!Init, Answer

(* A grant of the pool is one of Leases: the connection is in no other hand. *)
LEMMA IdleIsFree ==
  ASSUME IInv, NEW c \in Idle PROVE Promise!Holders(c) = {}
  BY DEF IInv, HeldInUse, Idle, Promise!Holders

LEMMA StepPromise == IInv /\ [Next]_vars => [Promise!Next]_(Promise!lvars)
<1> SUFFICES ASSUME IInv, [Next]_vars PROVE [Promise!Next]_(Promise!lvars) OBVIOUS
<1> DEFINE answer == [q \in Requests |-> Answer(q)]
<1>1. /\ status \in [Requests -> Statuses]
      /\ held \in [Requests -> Requests \cup {NoConnection}]
      /\ connections \subseteq Requests BY DEF IInv, TypeOK
<1>2. ASSUME NEW r \in Requests, AcquireRefused(r) PROVE Promise!Refuse(r)
  BY <1>1, <1>2 DEF AcquireRefused, Promise!Refuse, Answer, Statuses
<1>3. ASSUME NEW r \in Requests, AcquireIdle(r)
      PROVE  \E c \in Requests : Promise!Grant(r, c)
  <2>1. PICK c \in Idle : held' = [held EXCEPT ![r] = c] BY <1>3 DEF AcquireIdle
  <2>2. c \in Requests /\ Promise!Holders(c) = {} BY <1>1, <2>1, IdleIsFree DEF Idle
  <2>3. Promise!Grant(r, c)
    BY <1>1, <1>3, <2>1, <2>2 DEF AcquireIdle, Promise!Grant, Answer, Statuses
  <2> QED BY <2>2, <2>3
<1>4. ASSUME NEW r \in Requests,
             AcquireCreate(r) \/ AcquireQueue(r) \/ CreateFails(r)
      PROVE  UNCHANGED Promise!lvars
  BY <1>1, <1>4 DEF AcquireCreate, AcquireQueue, CreateFails, Promise!lvars, Answer, Statuses
<1>5. ASSUME NEW r \in Requests, AcquireTimeout(r) PROVE Promise!Refuse(r)
  BY <1>1, <1>5 DEF AcquireTimeout, Promise!Refuse, Answer, Statuses, IInv, TimersWait
<1>6. ASSUME NEW r \in Requests, CreateSucceeds(r) PROVE Promise!Grant(r, r)
  <2>1. Promise!Holders(r) = {} BY <1>1, <1>6, PoolAssumption
    DEF CreateSucceeds, Promise!Holders, IInv, HeldCreated, Created
  <2> QED BY <1>1, <1>6, <2>1 DEF CreateSucceeds, Promise!Grant, Answer, Statuses
<1>7. ASSUME NEW r \in Requests, BackoffEnds(r)
      PROVE  Promise!Refuse(r) \/ UNCHANGED Promise!lvars
  <2>1. CASE attempts[r] < MaxAttempts
    BY <1>1, <1>7, <2>1 DEF BackoffEnds, Promise!lvars, Answer, Statuses
  <2>2. CASE ~ (attempts[r] < MaxAttempts)
    BY <1>1, <1>7, <2>2 DEF BackoffEnds, Promise!Refuse, Answer, Statuses
  <2> QED BY <2>1, <2>2
<1>8. ASSUME NEW r \in Requests, Release(r)
      PROVE  \/ Promise!Return(r)
             \/ \E next \in Requests \ {r} : Promise!HandOver(r, next)
  <2>1. status[r] = "holding" BY <1>8 DEF Release
  <2>2. CASE /\ status' = [status EXCEPT ![r] = "released"]
             /\ held' = [held EXCEPT ![r] = NoConnection]
    BY <1>1, <2>1, <2>2 DEF Promise!Return, Answer, Statuses
  <2>3. CASE ToNext(r) /\ status[Head(queue)] = "waiting"
    <3>1. Head(queue) \in Requests \ {r} BY <2>3 DEF ToNext, IInv, TypeOK
    <3>2. /\ status' = [status EXCEPT ![r] = "released", ![Head(queue)] = "holding"]
          /\ held' = [held EXCEPT ![r] = NoConnection, ![Head(queue)] = held[r]] BY <2>3 DEF ToNext
    <3>3. Promise!HandOver(r, Head(queue))
      BY <1>1, <2>1, <2>3, <3>1, <3>2 DEF Promise!HandOver, Answer, Statuses
    <3> QED BY <3>1, <3>3
  <2> QED BY <1>8, <2>1, <2>2, <2>3, ReleaseCases DEF Release, ToIdle, ToNext
<1>9. CASE (\E s \in Shutdowns : Close(s)) \/ UNCHANGED vars
  BY <1>9 DEF Close, Shutdown, ShutdownDestroys, ShutdownEnds, vars, Promise!lvars, Answer
<1> QED BY <1>2, <1>3, <1>4, <1>5, <1>6, <1>7, <1>8, <1>9 DEF Next, Step, Promise!Next

(* The pool implements the lease promise for every set of requests, every   *)
(* limit and every number of attempts.                                     *)
THEOREM ImplementsLeases == Spec => PromiseSpec
  BY InitPromise, StepPromise, AlwaysIInv, PTL DEF Spec, PromiseSpec, Promise!Spec

=============================================================================
