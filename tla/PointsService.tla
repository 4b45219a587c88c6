---------------------------- MODULE PointsService ----------------------------
(***************************************************************************)
(* features/gamification/points_service.js: points for activities, awarded  *)
(* in batches, once per request id, with a queue for activities while the   *)
(* browser is offline.                                                     *)
(*                                                                         *)
(* calls are the executions of award_points, requests what they are about,  *)
(* by request id; items are the entries of the offline queue.  A reload     *)
(* loses what is in memory (calls, batch, results by request id) and keeps  *)
(* the offline queue (localStorage) and the database.                       *)
(*                                                                         *)
(* External: the transactions of the user repository, which take effect     *)
(* together and one after another or not at all.  Clocks are abstracted: a  *)
(* timer fires at any time, a rate limit or the anti-cheat check may refuse *)
(* any call; results are remembered for a day, longer than any behaviour    *)
(* here.  Left out: the two caches of points, events, statistics, the       *)
(* health check, and total_points_earned and version of a user.             *)
(***************************************************************************)
EXTENDS Integers, Sequences, FiniteSets

CONSTANTS
  Users,
  ActivityTypes, Numbers,   \* activities of callers, and the number in their context
  Multipliers,  \* time multipliers, in tenths
  BatchSize,    \* BATCH_SIZE
  MaxRetries,   \* MAX_RETRY_ATTEMPTS
  Failures,     \* may a transaction fail?
  NaN, Failed, NoAnswer,
  MaxRequests, MaxCalls, MaxReloads   \* bounds

Activities == [type : ActivityTypes, n : Numbers]

ASSUME PointsAssumption ==
  /\ BatchSize \in Nat \ {0} /\ MaxRetries \in Nat
  /\ Failures \in BOOLEAN /\ Multipliers \subseteq Nat
  /\ Activities \subseteq [type : STRING, n : Nat]
  /\ NaN \notin Nat /\ Failed \notin Nat \cup {NaN}
  /\ NoAnswer \notin [request : Nat, earned : Nat \cup {NaN, Failed}]
  /\ {MaxRequests, MaxCalls, MaxReloads} \subseteq Nat

VARIABLES
  points,    \* user -> points, as committed; 0 before the user is created
  history,   \* rows of the points history: the call that added it, its points
  requests,  \* request id -> user and activity
  calls,     \* executions of award_points
  results,   \* IdempotencyService: request id -> result saved
  batch,     \* #batch: the calls that wait in it
  timer,     \* is the timer of the batch set?
  flushes,   \* batches being processed: their calls, the results so far
  items,     \* entries of the offline queue, in order
  syncs,     \* sync_offline_activities in progress: item, call, items left
  backoffs,  \* timers of failed syncs that have not fired
  online,    \* navigator.onLine
  reloads    \* page loads so far

vars == <<points, history, requests, calls, results, batch, timer, flushes,
          items, syncs, backoffs, online, reloads>>

awarding == <<calls, results, batch, timer, flushes>>
syncing == <<items, syncs, backoffs>>

Bonus == [type |-> "LEVEL_UP_BONUS", n |-> 0]

Init ==
  /\ points = [u \in Users |-> 0] /\ history = {}
  /\ requests = <<>> /\ calls = <<>> /\ results = [r \in 1..MaxRequests |-> NoAnswer]
  /\ batch = <<>> /\ timer = FALSE /\ flushes = {}
  /\ items = <<>> /\ syncs = {} /\ backoffs = 0
  /\ online \in BOOLEAN /\ reloads = 0
-----------------------------------------------------------------------------
(* Points.                                                                 *)

(* #calculate_points: strategies that take an argument get it from the      *)
(* context for four types only; the others compute with undefined.          *)
Base(activity) ==
  CASE activity.type = "LESSON_COMPLETE" -> 10 * activity.n
    [] activity.type = "EXERCISE_CORRECT" -> 5 + 2 * activity.n
    [] activity.type = "EXERCISE_WRONG" -> 1
    [] activity.type = "STREAK_MILESTONE" -> 20 * activity.n
    [] activity.type = "DAILY_LOGIN" -> 3
    [] activity.type = "PERFECT_LESSON" -> 25
    [] activity.type = "QUICK_RESPONSE" -> IF activity.n < 3 THEN 5 ELSE 0
    [] activity.type = "SHARE_ACHIEVEMENT" -> 10
    [] activity.type = "INVITE_FRIEND" -> 50
    [] activity.type \in {"CHALLENGE_COMPLETE", "LEVEL_UP_BONUS"} -> NaN
    [] OTHER -> 0

Earned(activity, multiplier) ==
  IF Base(activity) = NaN THEN NaN ELSE (2 * Base(activity) * multiplier + 10) \div 20

(* user.points || 0: NaN is falsy. *)
Old(p) == IF p = NaN THEN 0 ELSE p
Plus(p, earned) == IF earned = NaN THEN NaN ELSE p + earned

Thresholds == {0, 100, 250, 500, 1000, 2000, 4000}
Level(p) == IF p = NaN THEN 1 ELSE Cardinality({t \in Thresholds : t <= p})
-----------------------------------------------------------------------------
(* award_points.                                                           *)

Answered(c) == calls[c].answer # NoAnswer
Pending(c) ==
  c \in DOMAIN calls /\ calls[c].at \in {"checked", "batched", "answered"}

(* A call of request r starts with a look at the saved results.  again says *)
(* whether an award of r has been answered on this page before.             *)
Call(r) ==
  [request |-> r, answer |-> results[r],
   at |-> IF results[r] = NoAnswer THEN "checked" ELSE "done",
   again |-> \E c \in DOMAIN calls :
                /\ calls[c].request = r /\ calls[c].at = "done"
                /\ calls[c].answer.earned \notin {0, Failed}]
Starts(r) == Len(calls) < MaxCalls /\ calls' = Append(calls, Call(r))

NewRequest(u, activity) ==
  /\ Len(requests) < MaxRequests
  /\ requests' = Append(requests, [user |-> u, activity |-> activity])

(* A caller, or an event while online. *)
Award(u, activity) ==
  /\ NewRequest(u, activity)
  /\ Starts(Len(requests) + 1)
  /\ UNCHANGED <<points, history, results, batch, timer, flushes, syncing, online,
                 reloads>>

(* A caller tries again under the same request id. *)
AwardAgain(r) ==
  /\ requests[r].activity # Bonus
  /\ \A i \in DOMAIN items : items[i].request # r
  /\ Starts(r)
  /\ UNCHANGED <<points, history, requests, results, batch, timer, flushes, syncing,
                 online, reloads>>

(* The rate limit or the anti-cheat check. *)
Refuse(c) ==
  /\ calls[c].at = "checked"
  /\ calls' = [calls EXCEPT ![c].at = "refused"]
  /\ UNCHANGED <<points, history, requests, results, batch, timer, flushes, syncing,
                 online, reloads>>

NoPoints(c) ==
  /\ calls[c].at = "checked"
  /\ Base(requests[calls[c].request].activity) = 0
  /\ calls' = [calls EXCEPT ![c].at = "done",
                 ![c].answer = [request |-> calls[c].request, earned |-> 0]]
  /\ UNCHANGED <<points, history, requests, results, batch, timer, flushes, syncing,
                 online, reloads>>
-----------------------------------------------------------------------------
(* BatchProcessorService.                                                  *)

(* #flush up to the first transaction. *)
Flush(calling) ==
  /\ timer' = FALSE /\ batch' = <<>>
  /\ flushes' = flushes \cup {[calls |-> calling, results |-> <<>>]}

Full(n) == n >= BatchSize

M_TimerStarts == flushes = {}
TimerStarts == TRUE

Add(c) ==
  /\ calls[c].at = "checked"
  /\ Base(requests[calls[c].request].activity) # 0
  /\ calls' = [calls EXCEPT ![c].at = "batched"]
  /\ IF Full(Len(batch) + 1)
       THEN Flush(Append(batch, c))
       ELSE /\ batch' = Append(batch, c)
            /\ timer' = (timer \/ TimerStarts)
            /\ UNCHANGED flushes
  /\ UNCHANGED <<points, history, requests, results, syncing, online, reloads>>

TimerFires ==
  /\ timer
  /\ Flush(batch)
  /\ UNCHANGED <<points, history, requests, calls, results, syncing, online, reloads>>

M_Current(f) == f.calls[1]
Current(f) == f.calls[Len(f.results) + 1]
Processed(f) == Len(f.results) = Len(f.calls)

WithResult(f, earned) ==
  (flushes \ {f})
    \cup {[f EXCEPT !.results =
             Append(@, [request |-> calls[Current(f)].request, earned |-> earned])]}

(* Within the bounds, a rise in level is followed by its bonus. *)
RoomForBonus == Len(requests) < MaxRequests /\ Len(calls) < MaxCalls

(* #execute_points_transaction; when the level rises, the commit handler    *)
(* awards a bonus under a request id of its own.                            *)
Commit(f) ==
  /\ ~ Processed(f)
  /\ LET c == Current(f)
         r == requests[calls[c].request]
     IN
     \E multiplier \in Multipliers :
       LET earned == Earned(r.activity, multiplier)
           old == Old(points[r.user])
           new == Plus(old, earned)
       IN
       /\ points' = [points EXCEPT ![r.user] = new]
       /\ history' = history \cup {[call |-> c, earned |-> earned]}
       /\ flushes' = WithResult(f, earned)
       /\ IF Level(new) > Level(old) /\ RoomForBonus
            THEN NewRequest(r.user, Bonus) /\ Starts(Len(requests) + 1)
            ELSE UNCHANGED <<requests, calls>>
  /\ UNCHANGED <<results, batch, timer, syncing, online, reloads>>

TransactionFails(f) ==
  /\ Failures /\ ~ Processed(f)
  /\ flushes' = WithResult(f, Failed)
  /\ UNCHANGED <<points, history, requests, calls, results, batch, timer, syncing,
                 online, reloads>>

(* The promises of a processed batch are resolved. *)
Resolve(f) ==
  /\ Processed(f)
  /\ flushes' = flushes \ {f}
  /\ calls' = [c \in DOMAIN calls |->
                 IF \E i \in DOMAIN f.calls : f.calls[i] = c
                 THEN [calls[c] EXCEPT !.at = "answered",
                         !.answer = f.results[CHOOSE i \in DOMAIN f.calls :
                                                f.calls[i] = c]]
                 ELSE calls[c]]
  /\ UNCHANGED <<points, history, requests, results, batch, timer, syncing, online,
                 reloads>>

(* save_result, and the return of award_points. *)
Save(c) ==
  /\ calls[c].at = "answered"
  /\ calls' = [calls EXCEPT ![c].at = "done"]
  /\ results' = [results EXCEPT ![calls[c].request] = calls[c].answer]
  /\ UNCHANGED <<points, history, requests, batch, timer, flushes, syncing, online,
                 reloads>>
-----------------------------------------------------------------------------
(* The offline queue.                                                      *)

(* award_points_offline without a connection: a request id of its own.      *)
Enqueue(u, activity) ==
  /\ ~ online
  /\ NewRequest(u, activity)
  /\ items' = Append(items, [request |-> Len(requests) + 1, retries |-> 0,
                             status |-> "queued"])
  /\ UNCHANGED <<points, history, awarding, syncs, backoffs, online, reloads>>

GoOffline ==
  /\ online
  /\ online' = FALSE
  /\ UNCHANGED <<points, history, requests, awarding, syncing, reloads>>

Queued == {i \in DOMAIN items : items[i].status = "queued"}

(* One sync among others goes on with the first of the items left to it.    *)
SyncOf(todo, others) ==
  \/ todo = {} /\ syncs' = others /\ UNCHANGED calls
  \/ \E i \in todo :
       /\ \A j \in todo : i <= j
       /\ Starts(items[i].request)
       /\ syncs' = others \cup {[item |-> i, todo |-> todo \ {i}, call |-> Len(calls) + 1]}

GoOnline ==
  /\ ~ online
  /\ online' = TRUE
  /\ SyncOf(Queued, syncs)
  /\ UNCHANGED <<points, history, requests, results, batch, timer, flushes, items,
                 backoffs, reloads>>

BackoffFires ==
  /\ backoffs > 0
  /\ backoffs' = backoffs - 1
  /\ SyncOf(Queued, syncs)
  /\ UNCHANGED <<points, history, requests, results, batch, timer, flushes, items,
                 online, reloads>>

(* The current award of sync s has returned. *)
SyncAwarded(s) ==
  /\ calls[s.call].at = "done"
  /\ items' = [items EXCEPT ![s.item].status = "gone"]
  /\ SyncOf(s.todo, syncs \ {s})
  /\ UNCHANGED <<points, history, requests, results, batch, timer, flushes, backoffs,
                 online, reloads>>

(* It has thrown: the item is retried later, or marked as failed and copied *)
(* to the dead letters.  An item another sync has removed is left alone.    *)
Abandoned(status) == IF status = "gone" THEN "gone" ELSE "failed"

GivesUp(item) == item.retries >= MaxRetries

SyncRefused(s) ==
  LET i == s.item IN
  /\ calls[s.call].at = "refused"
  /\ IF GivesUp(items[i])
       THEN /\ items' = [items EXCEPT ![i].status = Abandoned(@)]
            /\ UNCHANGED backoffs
       ELSE /\ items' = [items EXCEPT ![i].retries =
                           IF items[i].status = "gone" THEN @ ELSE @ + 1]
            /\ backoffs' = backoffs + 1
  /\ SyncOf(s.todo, syncs \ {s})
  /\ UNCHANGED <<points, history, requests, results, batch, timer, flushes, online,
                 reloads>>

(* A page load: what is in memory is lost. *)
Reload ==
  /\ reloads < MaxReloads
  /\ reloads' = reloads + 1
  /\ calls' = [c \in DOMAIN calls |-> [calls[c] EXCEPT !.at = "gone"]]
  /\ results' = [r \in 1..MaxRequests |-> NoAnswer]
  /\ batch' = <<>> /\ timer' = FALSE /\ flushes' = {}
  /\ syncs' = {} /\ backoffs' = 0
  /\ UNCHANGED <<points, history, requests, items, online>>
-----------------------------------------------------------------------------
Next ==
  \/ \E u \in Users, activity \in Activities : Award(u, activity) \/ Enqueue(u, activity)
  \/ \E r \in DOMAIN requests : AwardAgain(r)
  \/ \E c \in DOMAIN calls : Refuse(c) \/ NoPoints(c) \/ Add(c) \/ Save(c)
  \/ TimerFires
  \/ \E f \in flushes : Commit(f) \/ TransactionFails(f) \/ Resolve(f)
  \/ GoOffline \/ GoOnline \/ BackoffFires
  \/ \E s \in syncs : SyncAwarded(s) \/ SyncRefused(s)
  \/ Reload

Spec == Init /\ [][Next]_vars

(* Continuations run, the timer of the batch fires and every transaction    *)
(* ends.                                                                   *)
Continues(c) == c \in DOMAIN calls /\ (Refuse(c) \/ NoPoints(c) \/ Add(c) \/ Save(c))
Processes(c) ==
  \E f \in flushes : /\ f.calls[1] = c
                     /\ Commit(f) \/ TransactionFails(f) \/ Resolve(f)
FairSpec ==
  /\ Spec
  /\ WF_vars(TimerFires)
  /\ \A c \in 1..MaxCalls : WF_vars(Continues(c)) /\ WF_vars(Processes(c))
-----------------------------------------------------------------------------
Given == [request : 1..MaxRequests, earned : Nat \cup {NaN, Failed}]
Answer == Given \cup {NoAnswer}
Ids == 1..MaxCalls
Execution == [request : 1..MaxRequests, answer : Answer, again : BOOLEAN,
              at : {"checked", "batched", "answered", "done", "refused", "gone"}]
Item == [request : 1..MaxRequests, retries : 0..MaxRetries,
         status : {"queued", "failed", "gone"}]

TypeOK ==
  /\ points \in [Users -> Nat \cup {NaN}]
  /\ history \subseteq [call : Ids, earned : Nat \cup {NaN}]
  /\ requests \in Seq([user : Users, activity : Activities \cup {Bonus}])
  /\ calls \in Seq(Execution)
  /\ results \in [1..MaxRequests -> Answer]
  /\ batch \in Seq(Ids) /\ Len(batch) < BatchSize
  /\ timer \in BOOLEAN
  /\ \A f \in flushes : /\ f \in [calls : Seq(Ids), results : Seq(Given)]
                        /\ Len(f.results) <= Len(f.calls) /\ f.calls # <<>>
  /\ items \in Seq(Item)
  /\ syncs \subseteq [item : DOMAIN items, todo : SUBSET DOMAIN items,
                     call : DOMAIN calls]
  /\ backoffs \in Nat /\ online \in BOOLEAN /\ reloads \in 0..MaxReloads

(* No wake-up is lost: calls that wait in the batch have its timer to wake  *)
(* them, whichever batches are being processed meanwhile.                   *)
BatchHasTimer == batch # <<>> => timer

(* The answer of a call is about its own request, and says that points were *)
(* awarded only if the history of the database has the row, across batches  *)
(* whose other items fail and results saved by other calls.                 *)
AnswersAreTrue ==
  \A c \in DOMAIN calls :
    LET answer == calls[c].answer IN
    Answered(c) =>
      /\ answer.request = calls[c].request
      /\ answer.earned \notin {0, Failed} =>
           \E row \in history : /\ calls[row.call].request = answer.request
                                /\ row.earned = answer.earned

(* Idempotency: once an award has been answered, a call under the same      *)
(* request id awards nothing more, until the page is loaded again.          *)
AnsweredNotRepeated == \A row \in history : ~ calls[row.call].again

(* The offline queue is durable: an activity leaves it only when a call for *)
(* it has been answered, whatever is refused, retried by other syncs or     *)
(* lost with the page.                                                     *)
QueuedUntilAnswered ==
  \A i \in DOMAIN items :
    items[i].status = "gone" =>
      \E c \in DOMAIN calls : calls[c].request = items[i].request /\ Answered(c)

(* Syncs that overlap do not retry an item more often than allowed between  *)
(* them, and give it up only after that.                                    *)
GivenUpAfterRetries ==
  \A i \in DOMAIN items :
    /\ items[i].retries <= MaxRetries
    /\ items[i].status = "failed" => items[i].retries = MaxRetries

(* Batches, results, history and offline queue agree on what was awarded.   *)
PointsAreTrue ==
  /\ TypeOK /\ BatchHasTimer /\ AnswersAreTrue /\ AnsweredNotRepeated
  /\ QueuedUntilAnswered /\ GivenUpAfterRetries

(* Every call of award_points returns or throws, or its page is gone.       *)
AwardsSettle == \A c \in 1..MaxCalls : Pending(c) ~> ~ Pending(c)

(* "Idempotency": a request id is awarded at most once.                     *)
AwardedOnce ==
  \A row, other \in history :
    calls[row.call].request = calls[other.call].request => row = other

=============================================================================
