-------------------------- MODULE ChallengeService --------------------------
(***************************************************************************)
(* features/gamification/challenge_service.js: the challenges of a user in *)
(* the repository (external), generated at the first look, their progress, *)
(* the lists in #cache and the controllers of #activeRequests.  A list is  *)
(* cached under its filters, which the model keeps at one; rows are those  *)
(* of one challenge, and generated counts the sets that were made.         *)
(***************************************************************************)
EXTENDS Naturals

CONSTANTS Requests,   \* calls in flight
          Goal,       \* of the challenge
          MaxSets,    \* bound: sets of initial challenges
          No

VARIABLES challenge,        \* the row: [progress, isCompleted], or No
          generated,        \* sets of initial challenges in the repository
          announced,        \* challenge:completed was emitted
          cached_list,      \* the row a cached list shows, or No
          activeRequests,   \* the request whose controller is registered, or No
          request,          \* calls: [op, row, signal]
          overlapped        \* a row was written beside a call that had read it

vars == <<challenge, generated, announced, cached_list, activeRequests, request, overlapped>>

Idle == [op |-> "none", row |-> No, signal |-> "open"]
New == [progress |-> 0, isCompleted |-> FALSE]

Init ==
  /\ challenge = No /\ generated = 0 /\ announced = FALSE
  /\ cached_list = No /\ activeRequests = No
  /\ request = [r \in Requests |-> Idle]
  /\ overlapped = FALSE

Others(r, ops) == \E q \in Requests \ {r} : request[q].op \in ops

-----------------------------------------------------------------------------
(* getUserChallenges: no cached list, a controller is registered under the *)
(* user, over the one of a call that is still running.                     *)
GetUserChallenges(r) ==
  /\ request[r] = Idle /\ cached_list = No
  /\ activeRequests' = r
  /\ request' = [request EXCEPT ![r] = [Idle EXCEPT !.op = "find"]]
  /\ UNCHANGED <<challenge, generated, announced, cached_list, overlapped>>

(* findByUserId answers: no rows are generated first. *)
Found(r) ==
  /\ request[r].op = "find" /\ request[r].signal = "open"
  /\ request' = [request EXCEPT
       ![r].op = IF challenge = No THEN "generate" ELSE "list", ![r].row = challenge]
  /\ UNCHANGED <<challenge, generated, announced, cached_list, activeRequests, overlapped>>

(* #generateInitialChallenges, bulkCreate *)
Generated(r) ==
  /\ request[r].op = "generate" /\ generated < MaxSets
  /\ generated' = generated + 1
  /\ challenge' = IF challenge = No THEN New ELSE challenge
  /\ request' = [request EXCEPT ![r].op = "list", ![r].row = New]
  /\ overlapped' = (overlapped \/ Others(r, {"generate", "list"}))
  /\ UNCHANGED <<announced, cached_list, activeRequests>>

(* The finally of a look, #cleanupRequest: whatever controller is there. *)
CleanupRequest(r) ==
  /\ activeRequests' = No
  /\ request' = [request EXCEPT ![r] = Idle]

(* #applyFilters, #setCached, CHALLENGES_LOADED *)
Listed(r) ==
  /\ request[r].op = "list"
  /\ cached_list' = request[r].row
  /\ CleanupRequest(r)
  /\ UNCHANGED <<challenge, generated, announced, overlapped>>

(* The repository fails, or gives up because the signal was aborted. *)
GetFails(r) ==
  /\ request[r].op \in {"find", "generate"}
  /\ CleanupRequest(r)
  /\ UNCHANGED <<challenge, generated, announced, cached_list, overlapped>>

(* abortAllRequests: the controllers that are registered *)
AbortAllRequests ==
  /\ activeRequests # No
  /\ request' = [request EXCEPT ![activeRequests].signal = "aborted"]
  /\ activeRequests' = No
  /\ UNCHANGED <<challenge, generated, announced, cached_list, overlapped>>

Dispose ==
  /\ cached_list # No \/ activeRequests # No
  /\ IF activeRequests = No THEN UNCHANGED request
     ELSE request' = [request EXCEPT ![activeRequests].signal = "aborted"]
  /\ activeRequests' = No /\ cached_list' = No
  /\ UNCHANGED <<challenge, generated, announced, overlapped>>

(* #getCached of a list whose time is over *)
ListExpires ==
  /\ cached_list # No
  /\ cached_list' = No
  /\ UNCHANGED <<challenge, generated, announced, activeRequests, request, overlapped>>

-----------------------------------------------------------------------------
Least(a, b) == IF a < b THEN a ELSE b

(* updateProgress up to findById *)
FindForUpdate(r) ==
  /\ request[r] = Idle /\ challenge # No
  /\ request' = [request EXCEPT ![r] = [Idle EXCEPT !.op = "update", !.row = challenge]]
  /\ UNCHANGED <<challenge, generated, announced, cached_list, activeRequests, overlapped>>

(* updateProgress: a challenge that is not completed takes the progress, at *)
(* most its goal; completion is announced before the row is written.       *)
UpdateProgress(r, progress) ==
  /\ request[r].op = "update" /\ ~request[r].row.isCompleted
  /\ LET reached == Least(progress, Goal)
         done == reached >= Goal /\ request[r].row.progress < Goal IN
     /\ request' = [request EXCEPT ![r].op = "write",
          ![r].row = [progress |-> reached, isCompleted |-> done]]
     /\ announced' = (announced \/ done)
  /\ UNCHANGED <<challenge, generated, cached_list, activeRequests, overlapped>>

AlreadyCompleted(r) ==
  /\ request[r].op = "update" /\ request[r].row.isCompleted
  /\ request' = [request EXCEPT ![r] = Idle]
  /\ UNCHANGED <<challenge, generated, announced, cached_list, activeRequests, overlapped>>

(* update: the row is replaced and the lists of the user are dropped. *)
Written(r) ==
  /\ request[r].op = "write"
  /\ challenge' = request[r].row /\ cached_list' = No
  /\ request' = [request EXCEPT ![r] = Idle]
  /\ overlapped' = (overlapped \/ Others(r, {"list", "generate", "update", "write"}))
  /\ UNCHANGED <<generated, announced, activeRequests>>

WriteFails(r) ==
  /\ request[r].op \in {"update", "write"}
  /\ request' = [request EXCEPT ![r] = Idle]
  /\ UNCHANGED <<challenge, generated, announced, cached_list, activeRequests, overlapped>>

Next ==
  \/ \E r \in Requests :
       \/ GetUserChallenges(r) \/ Found(r) \/ Generated(r) \/ Listed(r) \/ GetFails(r)
       \/ FindForUpdate(r) \/ AlreadyCompleted(r) \/ Written(r) \/ WriteFails(r)
       \/ \E progress \in 0..Goal + 1 : UpdateProgress(r, progress)
  \/ AbortAllRequests \/ Dispose \/ ListExpires

Spec == Init /\ [][Next]_vars

-----------------------------------------------------------------------------
Rows == [progress : 0..Goal, isCompleted : BOOLEAN]

TypeOK ==
  /\ challenge \in Rows \cup {No} /\ cached_list \in Rows \cup {No}
  /\ generated \in 0..MaxSets /\ announced \in BOOLEAN /\ overlapped \in BOOLEAN
  /\ activeRequests \in Requests \cup {No}

(* A challenge at its goal is completed, one that is completed was         *)
(* announced with its points, and without overlapping calls one set of     *)
(* challenges exists and the cached list shows the row.                    *)
CompletionIsAnnounced ==
  /\ \A row \in {challenge, cached_list} \ {No} :
       /\ row.isCompleted <=> row.progress = Goal
       /\ row.isCompleted => announced
  /\ ~overlapped => generated <= 1 /\ cached_list \in {No, challenge}
=============================================================================
