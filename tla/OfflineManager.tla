-------------------------- MODULE OfflineManager --------------------------
(***************************************************************************)
(* core/offline/offline_manager.js: the connection as the manager sees it, *)
(* with chains of pings after the browser came online, and the queue of    *)
(* requests, kept in memory and saved whole after every change, which      *)
(* nothing waits for.  A chain does not end when the browser goes offline, *)
(* and a second one may run beside it.  A sync with requests in the queue  *)
(* calls a function that does not exist (:546), so it never ends and sends *)
(* nothing.  Storage and network are external; a reload of the page makes  *)
(* everything anew.                                                        *)
(***************************************************************************)
EXTENDS Naturals, Sequences, FiniteSets, Functions

CONSTANTS Queued,             \* requests
          ReconnectAttempts,  \* 5 in the code
          MaxChains           \* bound: chains of pings at once

VARIABLES status, chains,     \* attempts made by each chain, oldest first
          saves,              \* offline_queue in the storage, then the writes to come
          queue,              \* it in memory
          loading, read,      \* _init has not got yet what it read
          enqueuing,          \* requests in enqueue: [Queued -> step]
          syncInProgress,
          risked,             \* requests at risk: one entered while it loads,
                              \* a write failed, or the page was closed before
          cleared,            \* requests the queue was cleared of
          alive               \* the manager was not disposed of

vars == <<status, chains, saves, queue, loading, read, enqueuing, syncInProgress, risked, cleared, alive>>

Init ==
  /\ status \in {"online", "offline"} /\ chains = <<>>
  /\ saves = <<<<>>>> /\ queue = <<>> /\ loading = TRUE /\ read = <<>>
  /\ enqueuing = [r \in Queued |-> "new"]
  /\ syncInProgress = FALSE /\ risked = {} /\ cleared = {}
  /\ alive = TRUE

connection == <<status, chains>>
requests == <<saves, queue, loading, read, enqueuing, syncInProgress, risked, cleared>>

Stored == Range(saves[1])
\* A change, and the write that _persist asks for.
Persisted(q) == queue' = q /\ saves' = Append(saves, q)

-----------------------------------------------------------------------------
(* RequestQueue._init: what the storage had when the page was loaded       *)
(* replaces what is in memory.                                             *)
Load ==
  /\ loading /\ loading' = FALSE
  /\ queue' = read
  /\ UNCHANGED <<connection, saves, read, enqueuing, syncInProgress, risked, cleared, alive>>

(* IndexedDBStorage.save: the writes end in their order, or fail unheard.  *)
Written(ok) ==
  /\ Len(saves) > 1
  /\ \/ ok /\ saves' = Tail(saves) /\ UNCHANGED risked
     \/ /\ ~ok /\ saves' = <<saves[1]>> \o SubSeq(saves, 3, Len(saves))
        /\ risked' = risked \cup (Range(saves[2]) \ Stored)
  /\ UNCHANGED <<connection, queue, loading, read, enqueuing, syncInProgress, cleared, alive>>

(* enqueue: the plugins before, RequestQueue.enqueue, the plugins after.   *)
Enqueue(r) ==
  /\ enqueuing[r] = "new"
  /\ enqueuing' = [enqueuing EXCEPT ![r] = "before"]
  /\ UNCHANGED <<connection, saves, queue, loading, read, syncInProgress, risked, cleared, alive>>

Enqueued(r) ==
  /\ enqueuing[r] = "before"
  /\ enqueuing' = [enqueuing EXCEPT ![r] = "after"]
  /\ Persisted(Append(queue, r))
  /\ risked' = IF loading THEN risked \cup {r} \cup Stored ELSE risked
  /\ UNCHANGED <<connection, loading, read, syncInProgress, cleared, alive>>

(* Mutant: an empty queue does not end it. *)
M_SyncStarts == syncInProgress' = (syncInProgress \/ status = "online")

(* sync: an empty queue ends it, else it throws and stays in progress. *)
SyncStarts == syncInProgress' = (syncInProgress \/ (status = "online" /\ queue # <<>>))

EnqueueEnds(r) ==
  /\ enqueuing[r] = "after"
  /\ enqueuing' = [enqueuing EXCEPT ![r] = "done"]
  /\ SyncStarts
  /\ UNCHANGED <<connection, saves, queue, loading, read, risked, cleared, alive>>

Sync ==
  /\ status = "online" /\ SyncStarts
  /\ UNCHANGED <<connection, saves, queue, loading, read, enqueuing, risked, cleared, alive>>

ClearQueue ==
  /\ queue # <<>> \/ saves[Len(saves)] # <<>>
  /\ Persisted(<<>>) /\ cleared' = cleared \cup Stored \cup Range(queue)
  /\ UNCHANGED <<connection, loading, read, enqueuing, syncInProgress, risked, alive>>

(* The page is loaded again; what was not written yet is not.              *)
Reload ==
  /\ enqueuing # [r \in Queued |-> "new"]
  /\ queue' = <<>> /\ loading' = TRUE /\ read' = saves[1] /\ syncInProgress' = FALSE
  /\ LET gone == {r \in Queued : enqueuing[r] = "before"} IN
     enqueuing' = [r \in Queued |-> IF r \in gone THEN "new"
                                    ELSE IF enqueuing[r] = "after" THEN "done" ELSE enqueuing[r]]
  /\ chains' = <<>> /\ status' \in {"online", "offline"} /\ alive' = TRUE
  /\ saves' = <<saves[1]>> /\ risked' = risked \cup (Range(queue) \ Stored)
  /\ UNCHANGED cleared

-----------------------------------------------------------------------------
(* _changeStatus, _handleReconnect: the browser says that it is online; a  *)
(* chain of pings begins, beside those that still go on.                   *)
WindowOnline ==
  /\ status # "online" /\ Len(chains) < MaxChains
  /\ status' = "reconnecting"
  /\ chains' = Append(chains, 1)
  /\ UNCHANGED <<requests, alive>>

WindowOffline ==
  /\ status # "offline" /\ status' = "offline"
  /\ UNCHANGED <<chains, requests, alive>>

Ended(i) == SubSeq(chains, 1, i - 1) \o SubSeq(chains, i + 1, Len(chains))

PingAnswers(i) ==
  /\ status' = "online" /\ chains' = Ended(i)
  /\ UNCHANGED <<requests, alive>>

PingFails(i) ==
  /\ IF chains[i] < ReconnectAttempts
     THEN chains' = [chains EXCEPT ![i] = @ + 1] /\ UNCHANGED status
     ELSE chains' = Ended(i) /\ status' = "offline"
  /\ UNCHANGED <<requests, alive>>

(* dispose, disconnect: the timer set last ends, and a chain with it if it *)
(* still waited for this timer.                                            *)
Dispose ==
  /\ alive /\ alive' = FALSE
  /\ chains' \in {chains} \cup {Ended(i) : i \in DOMAIN chains}
  /\ UNCHANGED <<status, requests>>

Next ==
  \/ (\E ok \in BOOLEAN : Written(ok)) \/ Load \/ Sync \/ ClearQueue \/ Reload
  \/ \E r \in Queued : Enqueue(r) \/ Enqueued(r) \/ EnqueueEnds(r)
  \/ WindowOnline \/ WindowOffline \/ Dispose
  \/ \E i \in DOMAIN chains : PingAnswers(i) \/ PingFails(i)

Spec == Init /\ [][Next]_vars

-----------------------------------------------------------------------------
TypeOK ==
  /\ status \in {"online", "offline", "reconnecting"}
  /\ \A i \in DOMAIN chains : chains[i] \in 1..ReconnectAttempts
  /\ saves # <<>> /\ \A i \in DOMAIN saves : Range(saves[i]) \subseteq Queued
  /\ Range(queue) \subseteq Queued
  /\ loading \in BOOLEAN /\ alive \in BOOLEAN

(* A request stays in the queue, and in the storage or in a write to come, *)
(* until the queue is cleared, also across reloads, unless one entered     *)
(* while the queue was loaded, its write failed, or the page was closed    *)
(* before the write; no write takes it out of the storage; and no sync     *)
(* holds the queue unless there was something to send.                     *)
RequestsAreKept ==
  /\ \A r \in Queued \ (risked \cup cleared) : enqueuing[r] \in {"after", "done"} =>
       /\ r \in Range(saves[Len(saves)]) /\ (loading \/ r \in Range(queue))
       /\ r \in Stored => \A i \in DOMAIN saves : r \in Range(saves[i])
  /\ syncInProgress => \E r \in Queued : enqueuing[r] \in {"after", "done"}

(* Who is reconnecting has a chain of pings that will say how it ended. *)
ReconnectingIsTried == status = "reconnecting" /\ alive => chains # <<>>
=============================================================================
