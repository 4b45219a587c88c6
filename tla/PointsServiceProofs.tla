------------------------- MODULE PointsServiceProofs -------------------------
(***************************************************************************)
(* What PointsService promises, for every value of its constants: its types *)
(* hold, waiting calls have a timer, answers are true, an answered award is *)
(* not repeated, and the offline queue keeps what has not been answered.    *)
(***************************************************************************)
EXTENDS PointsService, SequenceTheorems, TLAPS

(* What refers to a call or a request refers to one that exists.            *)
References ==
  /\ Len(requests) <= MaxRequests /\ Len(calls) <= MaxCalls
  /\ \A c \in DOMAIN calls : calls[c].request \in DOMAIN requests
  /\ \A i \in DOMAIN items : items[i].request \in DOMAIN requests
  /\ \A row \in history : row.call \in DOMAIN calls
  /\ \A i \in DOMAIN batch : batch[i] \in DOMAIN calls
  /\ \A f \in flushes : \A i \in DOMAIN f.calls : f.calls[i] \in DOMAIN calls

(* The timer of the batch is set exactly while calls wait in it.            *)
TimerWithBatch == timer <=> batch # <<>>

TypeInv == TypeOK /\ References /\ TimerWithBatch

(* Lengths and domains, for the provers' arithmetic.                        *)
LEMMA Lengths ==
  ASSUME TypeInv
  PROVE  /\ Len(calls) \in Nat /\ DOMAIN calls = 1..Len(calls)
         /\ Len(requests) \in Nat /\ DOMAIN requests = 1..Len(requests)
         /\ Len(items) \in Nat /\ DOMAIN items = 1..Len(items)
         /\ Len(batch) \in Nat /\ DOMAIN batch = 1..Len(batch)
         /\ DOMAIN requests \subseteq 1..MaxRequests
         /\ DOMAIN calls \subseteq Ids
         /\ MaxRequests \in Nat /\ MaxCalls \in Nat
  BY PointsAssumption DEF TypeInv, TypeOK, References, Ids

LEMMA CallFacts ==
  ASSUME TypeInv, NEW c \in DOMAIN calls
  PROVE  /\ calls[c] \in Execution
         /\ calls[c].request \in DOMAIN requests
         /\ requests[calls[c].request].user \in Users
         /\ requests[calls[c].request].activity \in Activities \cup {Bonus}
<1>1. calls[c] \in Execution BY Lengths, ElementOfSeq DEF TypeInv, TypeOK
<1>2. calls[c].request \in DOMAIN requests BY DEF TypeInv, References
<1> DEFINE R == [user : Users, activity : Activities \cup {Bonus}]
<1>3. \A r \in DOMAIN requests : requests[r] \in R
  <2>1. requests \in Seq(R) BY DEF TypeInv, TypeOK
  <2> HIDE DEF R
  <2> QED BY <2>1, Lengths, ElementOfSeq
<1> QED BY <1>1, <1>2, <1>3

(* The points of an activity, and of a user, are a number or NaN.           *)
LEMMA EarnedType ==
  ASSUME NEW activity \in Activities \cup {Bonus}, NEW multiplier \in Multipliers
  PROVE  Earned(activity, multiplier) \in Nat \cup {NaN}
<1>1. Base(activity) \in Nat \cup {NaN} BY PointsAssumption DEF Base, Bonus
<1> DEFINE base == Base(activity)
<1>2. ASSUME base # NaN PROVE (2 * base * multiplier + 10) \div 20 \in Nat
  <2>1. base \in Nat /\ multiplier \in Nat BY <1>1, <1>2, PointsAssumption
  <2> HIDE DEF base
  <2>2. 2 * base * multiplier \in Nat BY <2>1
  <2> QED BY <2>2
<1> QED BY <1>2 DEF Earned

LEMMA PlusType ==
  ASSUME NEW p \in Nat \cup {NaN}, NEW earned \in Nat \cup {NaN}
  PROVE  Plus(Old(p), earned) \in Nat \cup {NaN} BY PointsAssumption DEF Plus, Old

(* A new execution of award_points.                                         *)
LEMMA CallType ==
  ASSUME TypeInv, NEW r \in 1..MaxRequests
  PROVE  Call(r) \in Execution BY DEF TypeInv, TypeOK, Call, Execution

LEMMA StartsFacts ==
  ASSUME TypeInv, NEW r \in 1..MaxRequests, Starts(r)
  PROVE  /\ calls' \in Seq(Execution)
         /\ Len(calls') = Len(calls) + 1 /\ Len(calls') <= MaxCalls
         /\ DOMAIN calls' = 1..Len(calls) + 1
         /\ \A c \in DOMAIN calls : calls'[c] = calls[c]
         /\ calls'[Len(calls) + 1] = Call(r)
<1>1. Call(r) \in Execution BY CallType
<1>2. calls \in Seq(Execution) /\ calls' = Append(calls, Call(r)) /\ Len(calls) < MaxCalls
  BY DEF TypeInv, TypeOK, Starts
<1>3. /\ calls' \in Seq(Execution)
      /\ Len(calls') = Len(calls) + 1
      /\ \A c \in 1..Len(calls) : calls'[c] = calls[c]
      /\ calls'[Len(calls) + 1] = Call(r) BY <1>1, <1>2, AppendProperties
<1> QED BY <1>2, <1>3, Lengths

LEMMA NewRequestFacts ==
  ASSUME TypeInv, NEW u \in Users, NEW activity \in Activities \cup {Bonus},
         NewRequest(u, activity)
  PROVE  /\ requests' \in Seq([user : Users, activity : Activities \cup {Bonus}])
         /\ Len(requests') = Len(requests) + 1 /\ Len(requests') <= MaxRequests
         /\ DOMAIN requests' = 1..Len(requests) + 1
         /\ Len(requests) + 1 \in 1..MaxRequests
         /\ \A r \in DOMAIN requests : requests'[r] = requests[r]
<1> DEFINE R == [user : Users, activity : Activities \cup {Bonus}]
<1> DEFINE r == [user |-> u, activity |-> activity]
<1>1. r \in R /\ requests \in Seq(R) /\ requests' = Append(requests, r)
      /\ Len(requests) < MaxRequests BY DEF TypeInv, TypeOK, NewRequest
<1> HIDE DEF R, r
<1>2. /\ requests' \in Seq(R)
      /\ Len(requests') = Len(requests) + 1
      /\ \A i \in 1..Len(requests) : requests'[i] = requests[i] BY <1>1, AppendProperties
<1>3. Len(requests) \in Nat /\ MaxRequests \in Nat BY Lengths
<1> QED BY <1>1, <1>2, <1>3, Lengths DEF R
-----------------------------------------------------------------------------
(* Steps that touch neither the requests nor the queue and keep every call. *)
SameCalls ==
  /\ calls' \in Seq(Execution) /\ Len(calls') = Len(calls)
  /\ \A c \in DOMAIN calls : calls'[c].request = calls[c].request

LEMMA SameCallsFacts ==
  ASSUME TypeInv, NEW c \in DOMAIN calls, NEW e \in Execution,
         e.request = calls[c].request, calls' = [calls EXCEPT ![c] = e]
  PROVE  SameCalls
<1>1. calls \in Seq(Execution) /\ c \in 1..Len(calls) /\ Len(calls) \in Nat
  BY Lengths DEF TypeInv, TypeOK
<1>2. calls' \in Seq(Execution) /\ Len(calls') = Len(calls) BY <1>1, ExceptSeq
<1>3. \A d \in DOMAIN calls : calls'[d].request = calls[d].request BY <1>1
<1> QED BY <1>2, <1>3 DEF SameCalls

LEMMA TypeInit == Init => TypeInv
<1> SUFFICES ASSUME Init PROVE TypeInv OBVIOUS
<1>1. /\ requests = <<>> /\ calls = <<>> /\ batch = <<>> /\ items = <<>>
      /\ history = {} /\ flushes = {} /\ syncs = {} BY DEF Init
<1>2. requests \in Seq([user : Users, activity : Activities \cup {Bonus}]) BY <1>1
<1>3. calls \in Seq(Execution) /\ batch \in Seq(Ids) /\ items \in Seq(Item) BY <1>1
<1>4. /\ points \in [Users -> Nat \cup {NaN}]
      /\ results \in [1..MaxRequests -> Answer]
      /\ timer \in BOOLEAN /\ online \in BOOLEAN
      /\ backoffs \in Nat /\ reloads \in 0..MaxReloads
  <2>1. points \in [Users -> Nat \cup {NaN}] BY DEF Init
  <2>2. results \in [1..MaxRequests -> Answer] BY DEF Init, Answer
  <2>3. timer \in BOOLEAN /\ online \in BOOLEAN BY Zenon DEF Init
  <2>4. backoffs \in Nat /\ reloads \in 0..MaxReloads BY PointsAssumption DEF Init
  <2> QED BY <2>1, <2>2, <2>3, <2>4
<1>5. Len(batch) < BatchSize BY <1>1, PointsAssumption
<1>6. TypeOK BY <1>1, <1>2, <1>3, <1>4, <1>5 DEF TypeOK
<1>7. References BY <1>1, PointsAssumption DEF References
<1>8. TimerWithBatch BY DEF Init, TimerWithBatch
<1> QED BY <1>6, <1>7, <1>8 DEF TypeInv


(* What a step does to calls and requests: both only grow, a call keeps its *)
(* request, and every new call is about a request that exists.             *)
RequestsGrow ==
  /\ requests' \in Seq([user : Users, activity : Activities \cup {Bonus}])
  /\ Len(requests) <= Len(requests') /\ Len(requests') <= MaxRequests
Grows ==
  /\ RequestsGrow
  /\ calls' \in Seq(Execution) /\ Len(calls) <= Len(calls') /\ Len(calls') <= MaxCalls
  /\ \A c \in DOMAIN calls : calls'[c].request = calls[c].request
  /\ \A c \in DOMAIN calls' \ DOMAIN calls : calls'[c].request \in DOMAIN requests'

LEMMA GrowsFacts ==
  ASSUME TypeInv, Grows
  PROVE  /\ Len(calls') \in Nat /\ DOMAIN calls' = 1..Len(calls')
         /\ Len(requests') \in Nat /\ DOMAIN requests' = 1..Len(requests')
         /\ DOMAIN calls \subseteq DOMAIN calls'
         /\ DOMAIN requests \subseteq DOMAIN requests'
         /\ \A c \in DOMAIN calls' : calls'[c].request \in DOMAIN requests'
<1>1. /\ Len(calls') \in Nat /\ DOMAIN calls' = 1..Len(calls')
      /\ Len(requests') \in Nat /\ DOMAIN requests' = 1..Len(requests') BY DEF Grows, RequestsGrow
<1>2. DOMAIN calls \subseteq DOMAIN calls' /\ DOMAIN requests \subseteq DOMAIN requests'
  BY <1>1, Lengths DEF Grows, RequestsGrow
<1> QED BY <1>1, <1>2 DEF Grows, RequestsGrow, TypeInv, References

LEMMA NewRequestGrows ==
  ASSUME TypeInv, NEW u \in Users, NEW activity \in Activities \cup {Bonus},
         NewRequest(u, activity)
  PROVE  RequestsGrow
<1>1. requests' \in Seq([user : Users, activity : Activities \cup {Bonus}])
  BY NewRequestFacts, Zenon
<1>2. Len(requests') = Len(requests) + 1 /\ Len(requests') <= MaxRequests BY NewRequestFacts, Zenon
<1>3. Len(requests) <= Len(requests') BY <1>2, Lengths
<1> QED BY <1>1, <1>2, <1>3, Zenon DEF RequestsGrow

LEMMA UnchangedGrows ==
  ASSUME TypeInv, UNCHANGED <<calls, requests>> PROVE Grows
  BY Lengths DEF TypeInv, TypeOK, References, Grows, RequestsGrow

LEMMA ExceptGrows ==
  ASSUME TypeInv, NEW c \in DOMAIN calls, NEW e \in Execution,
         e.request = calls[c].request, calls' = [calls EXCEPT ![c] = e],
         UNCHANGED requests
  PROVE  Grows
<1>1. SameCalls BY SameCallsFacts
<1>2. DOMAIN calls' = DOMAIN calls BY <1>1, Lengths DEF SameCalls
<1>3. Len(requests) <= MaxRequests /\ Len(calls) <= MaxCalls
      /\ requests \in Seq([user : Users, activity : Activities \cup {Bonus}])
  BY DEF TypeInv, TypeOK, References
<1> QED BY <1>1, <1>2, <1>3, Lengths DEF SameCalls, Grows, RequestsGrow

LEMMA StartsGrows ==
  ASSUME TypeInv, NEW r \in DOMAIN requests, Starts(r), UNCHANGED requests
  PROVE  Grows
<1>1. r \in 1..MaxRequests BY Lengths
<1>2. Call(r).request = r BY DEF Call
<1>3. \A c \in DOMAIN calls' \ DOMAIN calls : c = Len(calls) + 1 BY <1>1, StartsFacts, Lengths
<1>4. Len(requests) <= MaxRequests
      /\ requests \in Seq([user : Users, activity : Activities \cup {Bonus}])
  BY DEF TypeInv, TypeOK, References
<1> QED BY <1>1, <1>2, <1>3, <1>4, StartsFacts, Lengths DEF Grows, RequestsGrow

LEMMA AwardGrows ==
  ASSUME TypeInv, NEW u \in Users, NEW activity \in Activities \cup {Bonus},
         NewRequest(u, activity), Starts(Len(requests) + 1)
  PROVE  Grows
<1>1. Call(Len(requests) + 1).request = Len(requests) + 1 BY DEF Call
<1>2. Len(requests) + 1 \in 1..MaxRequests /\ Len(requests) + 1 \in DOMAIN requests'
  BY NewRequestFacts, Lengths
<1>3. \A c \in DOMAIN calls' \ DOMAIN calls : c = Len(calls) + 1 BY <1>2, StartsFacts, Lengths
<1>4. \A c \in DOMAIN calls' \ DOMAIN calls : calls'[c].request \in DOMAIN requests'
  BY <1>1, <1>2, <1>3, StartsFacts
<1>5. /\ calls' \in Seq(Execution) /\ Len(calls') = Len(calls) + 1
      /\ Len(calls') <= MaxCalls
      /\ \A c \in DOMAIN calls : calls'[c] = calls[c] BY <1>2, StartsFacts
<1>6. Len(calls) <= Len(calls') BY <1>5, Lengths
<1>7. RequestsGrow BY NewRequestGrows
<1> QED BY <1>4, <1>5, <1>6, <1>7 DEF Grows

LEMMA EnqueueGrows ==
  ASSUME TypeInv, NEW u \in Users, NEW activity \in Activities \cup {Bonus},
         NewRequest(u, activity), UNCHANGED calls
  PROVE  Grows
<1>1. RequestsGrow BY NewRequestGrows
<1> QED BY <1>1, Lengths DEF TypeInv, TypeOK, References, Grows, RequestsGrow
-----------------------------------------------------------------------------
(* The two halves of the state apart from calls and requests.               *)
AwardTypes ==
  /\ points \in [Users -> Nat \cup {NaN}]
  /\ history \subseteq [call : Ids, earned : Nat \cup {NaN}]
  /\ results \in [1..MaxRequests -> Answer]
  /\ batch \in Seq(Ids) /\ Len(batch) < BatchSize
  /\ timer \in BOOLEAN
  /\ \A f \in flushes : /\ f \in [calls : Seq(Ids), results : Seq(Given)]
                        /\ Len(f.results) <= Len(f.calls) /\ f.calls # <<>>
QueueTypes ==
  /\ items \in Seq(Item)
  /\ syncs \subseteq [item : DOMAIN items, todo : SUBSET DOMAIN items,
                     call : DOMAIN calls]
  /\ backoffs \in Nat /\ online \in BOOLEAN /\ reloads \in 0..MaxReloads

LEMMA HalvesOfTypeOK ==
  /\ TypeInv => AwardTypes /\ QueueTypes
  /\ Grows /\ AwardTypes' /\ QueueTypes' => TypeOK'
<1>1. TypeInv => AwardTypes /\ QueueTypes BY DEF TypeInv, TypeOK, AwardTypes, QueueTypes
<1>2. Grows /\ AwardTypes' /\ QueueTypes' => TypeOK'
  BY DEF TypeOK, Grows, RequestsGrow, AwardTypes, QueueTypes
<1> QED BY <1>1, <1>2

LEMMA ReferencesKept ==
  ASSUME TypeInv, Grows,
         \A i \in DOMAIN items' : items'[i].request \in DOMAIN requests',
         \A row \in history' : row \in history \/ row.call \in DOMAIN calls,
         \A i \in DOMAIN batch' : batch'[i] \in DOMAIN calls,
         \A f \in flushes' : \A i \in DOMAIN f.calls : f.calls[i] \in DOMAIN calls
  PROVE  References'
<1>1. Len(requests') <= MaxRequests /\ Len(calls') <= MaxCalls BY DEF Grows, RequestsGrow
<1>2. \A c \in DOMAIN calls' : calls'[c].request \in DOMAIN requests' BY GrowsFacts
<1>3. DOMAIN calls \subseteq DOMAIN calls' BY GrowsFacts
<1>4. \A row \in history : row.call \in DOMAIN calls BY DEF TypeInv, References
<1> QED BY <1>1, <1>2, <1>3, <1>4 DEF References

(* Steps of award_points leave the queue alone, those of the queue leave    *)
(* the batches alone.                                                      *)
LEMMA QueueUntouched ==
  ASSUME TypeInv, Grows, UNCHANGED <<items, syncs, backoffs, online, reloads>>
  PROVE  /\ QueueTypes'
         /\ \A i \in DOMAIN items' : items'[i].request \in DOMAIN requests'
<1>1. QueueTypes BY HalvesOfTypeOK
<1>2. DOMAIN calls \subseteq DOMAIN calls' /\ DOMAIN requests \subseteq DOMAIN requests'
  BY GrowsFacts
<1>3. \A s \in syncs : s \in [item : DOMAIN items, todo : SUBSET DOMAIN items,
                             call : DOMAIN calls'] BY <1>1, <1>2 DEF QueueTypes
<1>4. QueueTypes' BY <1>1, <1>3 DEF QueueTypes
<1>5. \A i \in DOMAIN items' : items'[i].request \in DOMAIN requests'
  BY <1>2 DEF TypeInv, References
<1> QED BY <1>4, <1>5

LEMMA AwardsUntouched ==
  ASSUME TypeInv, Grows, UNCHANGED <<points, history, results, batch, timer, flushes>>
  PROVE  /\ AwardTypes'
         /\ \A row \in history' : row \in history \/ row.call \in DOMAIN calls
         /\ \A i \in DOMAIN batch' : batch'[i] \in DOMAIN calls
         /\ \A f \in flushes' : \A i \in DOMAIN f.calls : f.calls[i] \in DOMAIN calls
<1>1. AwardTypes BY HalvesOfTypeOK
<1>2. AwardTypes' BY <1>1 DEF AwardTypes
<1> QED BY <1>2 DEF TypeInv, References

LEMMA AwardStepType ==
  ASSUME TypeInv, Grows, UNCHANGED <<points, history, results, batch, timer, flushes>>,
         UNCHANGED <<items, syncs, backoffs, online, reloads>>
  PROVE  TypeInv'
<1>1. TypeOK' BY QueueUntouched, AwardsUntouched, HalvesOfTypeOK
<1>2. References'
  <2>1. \A i \in DOMAIN items' : items'[i].request \in DOMAIN requests' BY QueueUntouched
  <2> QED BY <2>1, AwardsUntouched, ReferencesKept
<1>3. TimerWithBatch' BY DEF TypeInv, TimerWithBatch
<1> QED BY <1>1, <1>2, <1>3 DEF TypeInv

LEMMA FlushFacts ==
  ASSUME TypeInv, NEW calling \in Seq(Ids), calling # <<>>, Flush(calling),
         \A i \in DOMAIN calling : calling[i] \in DOMAIN calls
  PROVE  /\ batch' \in Seq(Ids) /\ Len(batch') < BatchSize /\ timer' \in BOOLEAN
         /\ \A f \in flushes' : /\ f \in [calls : Seq(Ids), results : Seq(Given)]
                                /\ Len(f.results) <= Len(f.calls) /\ f.calls # <<>>
         /\ \A i \in DOMAIN batch' : batch'[i] \in DOMAIN calls
         /\ \A f \in flushes' : \A i \in DOMAIN f.calls : f.calls[i] \in DOMAIN calls
         /\ TimerWithBatch'
<1> DEFINE new == [calls |-> calling, results |-> <<>>]
<1>1. batch' = <<>> /\ timer' = FALSE /\ flushes' = flushes \cup {new} BY DEF Flush
<1>2. /\ new \in [calls : Seq(Ids), results : Seq(Given)]
      /\ Len(new.results) <= Len(new.calls) /\ new.calls # <<>>
  <2>1. <<>> \in Seq(Given) /\ Len(<<>>) = 0 /\ Len(calling) \in Nat OBVIOUS
  <2> QED BY <2>1
<1>3. \A i \in DOMAIN new.calls : new.calls[i] \in DOMAIN calls OBVIOUS
<1> HIDE DEF new
<1>4. \A f \in flushes' : /\ f \in [calls : Seq(Ids), results : Seq(Given)]
                         /\ Len(f.results) <= Len(f.calls) /\ f.calls # <<>>
  BY <1>1, <1>2, HalvesOfTypeOK DEF AwardTypes
<1>5. \A f \in flushes' : \A i \in DOMAIN f.calls : f.calls[i] \in DOMAIN calls
  BY <1>1, <1>3 DEF TypeInv, References
<1>6. batch' \in Seq(Ids) /\ Len(batch') < BatchSize BY <1>1, PointsAssumption
<1>7. timer' \in BOOLEAN /\ TimerWithBatch' BY <1>1, Zenon DEF TimerWithBatch
<1>8. \A i \in DOMAIN batch' : batch'[i] \in DOMAIN calls BY <1>1
<1> QED BY <1>4, <1>5, <1>6, <1>7, <1>8

LEMMA SyncOfFacts ==
  ASSUME TypeInv, NEW todo \in SUBSET DOMAIN items, NEW others \in SUBSET syncs,
         SyncOf(todo, others), UNCHANGED requests
  PROVE  /\ Grows
         /\ syncs' \subseteq [item : DOMAIN items, todo : SUBSET DOMAIN items,
                             call : DOMAIN calls']
<1>1. syncs \subseteq [item : DOMAIN items, todo : SUBSET DOMAIN items,
                      call : DOMAIN calls] BY DEF TypeInv, TypeOK
<1>2. CASE todo = {} /\ syncs' = others /\ UNCHANGED calls BY <1>1, <1>2, UnchangedGrows
<1>3. ASSUME NEW i \in todo, Starts(items[i].request),
             syncs' = others \cup {[item |-> i, todo |-> todo \ {i}, call |-> Len(calls) + 1]}
      PROVE  /\ Grows
             /\ syncs' \subseteq [item : DOMAIN items, todo : SUBSET DOMAIN items,
                                 call : DOMAIN calls']
  <2>1. items[i].request \in DOMAIN requests BY DEF TypeInv, References
  <2>2. Grows BY <1>3, <2>1, StartsGrows
  <2>3. DOMAIN calls' = 1..Len(calls) + 1 BY <1>3, <2>1, StartsFacts, Lengths
  <2>4. Len(calls) + 1 \in DOMAIN calls' /\ DOMAIN calls \subseteq DOMAIN calls' BY <2>3, Lengths
  <2>5. [item |-> i, todo |-> todo \ {i}, call |-> Len(calls) + 1]
          \in [item : DOMAIN items, todo : SUBSET DOMAIN items, call : DOMAIN calls'] BY <2>4
  <2>6. others \subseteq [item : DOMAIN items, todo : SUBSET DOMAIN items,
                         call : DOMAIN calls'] BY <1>1, <2>4
  <2> QED BY <1>3, <2>2, <2>5, <2>6
<1> QED BY <1>2, <1>3 DEF SyncOf

LEMMA ItemExceptFacts ==
  ASSUME TypeInv, NEW i \in DOMAIN items, NEW e \in Item,
         e.request = items[i].request, items' = [items EXCEPT ![i] = e]
  PROVE  /\ items' \in Seq(Item) /\ DOMAIN items' = DOMAIN items
         /\ \A j \in DOMAIN items' : items'[j].request \in DOMAIN requests
<1>1. items \in Seq(Item) /\ i \in 1..Len(items) /\ Len(items) \in Nat
  BY Lengths DEF TypeInv, TypeOK
<1>2. items' \in Seq(Item) /\ Len(items') = Len(items) BY <1>1, ExceptSeq
<1>3. DOMAIN items' = DOMAIN items BY <1>1, <1>2, Lengths
<1>4. \A j \in DOMAIN items : items'[j].request = items[j].request BY <1>1
<1> QED BY <1>2, <1>3, <1>4 DEF TypeInv, References

(* A step of the queue that leaves the batches alone.                       *)
LEMMA QueueStepType ==
  ASSUME TypeInv, Grows, UNCHANGED <<points, history, results, batch, timer, flushes>>,
         QueueTypes', \A i \in DOMAIN items' : items'[i].request \in DOMAIN requests'
  PROVE  TypeInv'
<1>1. TypeOK' BY AwardsUntouched, HalvesOfTypeOK
<1>2. References' BY AwardsUntouched, ReferencesKept
<1>3. TimerWithBatch' BY DEF TypeInv, TimerWithBatch
<1> QED BY <1>1, <1>2, <1>3 DEF TypeInv

LEMMA AwardType ==
  ASSUME TypeInv, NEW u \in Users, NEW activity \in Activities, Award(u, activity)
  PROVE  TypeInv' /\ Grows
<1>1. Grows BY AwardGrows DEF Award
<1> QED BY <1>1, AwardStepType DEF Award, syncing

LEMMA AwardAgainType ==
  ASSUME TypeInv, NEW r \in DOMAIN requests, AwardAgain(r)
  PROVE  TypeInv' /\ Grows
<1>1. Grows BY StartsGrows DEF AwardAgain
<1> QED BY <1>1, AwardStepType DEF AwardAgain, syncing

LEMMA RefuseType ==
  ASSUME TypeInv, NEW c \in DOMAIN calls, Refuse(c)
  PROVE  TypeInv' /\ Grows
<1> DEFINE e == [calls[c] EXCEPT !.at = "refused"]
<1>1. e \in Execution /\ e.request = calls[c].request BY CallFacts DEF Execution
<1>2. calls' = [calls EXCEPT ![c] = e] /\ UNCHANGED requests BY DEF Refuse
<1>3. Grows
  <2> HIDE DEF e
  <2> QED BY <1>1, <1>2, ExceptGrows
<1> QED BY <1>3, AwardStepType DEF Refuse, syncing

LEMMA NoPointsType ==
  ASSUME TypeInv, NEW c \in DOMAIN calls, NoPoints(c)
  PROVE  TypeInv' /\ Grows
<1> DEFINE given == [request |-> calls[c].request, earned |-> 0]
<1> DEFINE e == [calls[c] EXCEPT !.at = "done", !.answer = given]
<1>1. given \in Given BY CallFacts, Lengths DEF Given, Execution
<1>2. e \in Execution /\ e.request = calls[c].request
  <2> HIDE DEF given
  <2> QED BY <1>1, CallFacts DEF Execution, Answer
<1>3. calls' = [calls EXCEPT ![c] = e] /\ UNCHANGED requests BY DEF NoPoints
<1>4. Grows
  <2> HIDE DEF e
  <2> QED BY <1>2, <1>3, ExceptGrows
<1> QED BY <1>4, AwardStepType DEF NoPoints, syncing

(* A step of the batches that leaves the queue alone.                       *)
LEMMA BatchStepType ==
  ASSUME TypeInv, Grows, UNCHANGED <<items, syncs, backoffs, online, reloads>>,
         AwardTypes', TimerWithBatch',
         \A row \in history' : row \in history \/ row.call \in DOMAIN calls,
         \A i \in DOMAIN batch' : batch'[i] \in DOMAIN calls,
         \A f \in flushes' : \A i \in DOMAIN f.calls : f.calls[i] \in DOMAIN calls
  PROVE  TypeInv'
<1>1. TypeOK' BY QueueUntouched, HalvesOfTypeOK
<1>2. References'
  <2>1. \A i \in DOMAIN items' : items'[i].request \in DOMAIN requests' BY QueueUntouched
  <2> QED BY <2>1, ReferencesKept
<1> QED BY <1>1, <1>2 DEF TypeInv

LEMMA AddType ==
  ASSUME TypeInv, NEW c \in DOMAIN calls, Add(c)
  PROVE  TypeInv' /\ Grows
<1> DEFINE e == [calls[c] EXCEPT !.at = "batched"]
<1> DEFINE longer == Append(batch, c)
<1>1. e \in Execution /\ e.request = calls[c].request BY CallFacts DEF Execution
<1>2. calls' = [calls EXCEPT ![c] = e] /\ UNCHANGED <<points, history, requests, results>>
      /\ UNCHANGED <<items, syncs, backoffs, online, reloads>> BY DEF Add, syncing
<1>3. Grows
  <2> HIDE DEF e
  <2> QED BY <1>1, <1>2, ExceptGrows
<1>4. batch \in Seq(Ids) /\ Len(batch) \in Nat /\ c \in Ids BY Lengths DEF TypeInv, TypeOK
<1>5. /\ longer \in Seq(Ids) /\ longer # <<>> /\ Len(longer) = Len(batch) + 1
      /\ \A i \in 1..Len(batch) : longer[i] = batch[i]
      /\ longer[Len(batch) + 1] = c BY <1>4, AppendProperties
<1>6. DOMAIN longer = 1..Len(batch) + 1 /\ DOMAIN batch = 1..Len(batch) BY <1>4, <1>5
<1>7. \A i \in DOMAIN longer : longer[i] \in DOMAIN calls
  BY <1>4, <1>5, <1>6 DEF TypeInv, References
<1> HIDE DEF longer
<1>8. AwardTypes BY HalvesOfTypeOK
<1>9. CASE Full(Len(batch) + 1)
  <2>1. Flush(longer) BY <1>9 DEF Add, longer
  <2>2. AwardTypes' /\ TimerWithBatch' BY <1>2, <1>5, <1>7, <1>8, <2>1, FlushFacts DEF AwardTypes
  <2>3. /\ \A i \in DOMAIN batch' : batch'[i] \in DOMAIN calls
        /\ \A f \in flushes' : \A i \in DOMAIN f.calls : f.calls[i] \in DOMAIN calls
    BY <1>5, <1>7, <2>1, FlushFacts
  <2> QED BY <1>2, <1>3, <2>2, <2>3, BatchStepType
<1>10. CASE ~ Full(Len(batch) + 1)
  <2>1. batch' = longer /\ timer' = (timer \/ TimerStarts) /\ UNCHANGED flushes
    BY <1>10 DEF Add, longer
  <2>2. timer' = TRUE BY <2>1, Zenon DEF TimerStarts
  <2>3. Len(longer) < BatchSize BY <1>10, <1>4, <1>5, PointsAssumption DEF Full
  <2>4. batch' \in Seq(Ids) /\ Len(batch') < BatchSize /\ batch' # <<>> BY <1>5, <2>1, <2>3
  <2>5. timer' \in BOOLEAN /\ TimerWithBatch' BY <2>2, <2>4, Zenon DEF TimerWithBatch
  <2>6. AwardTypes' BY <1>2, <1>8, <2>1, <2>4, <2>5, Zenon DEF AwardTypes
  <2>7. /\ \A i \in DOMAIN batch' : batch'[i] \in DOMAIN calls
        /\ \A f \in flushes' : \A i \in DOMAIN f.calls : f.calls[i] \in DOMAIN calls
    BY <1>7, <2>1 DEF TypeInv, References
  <2> QED BY <1>2, <1>3, <2>5, <2>6, <2>7, BatchStepType
<1> QED BY <1>3, <1>9, <1>10

LEMMA TimerFiresType ==
  ASSUME TypeInv, TimerFires
  PROVE  TypeInv' /\ Grows
<1>1. /\ UNCHANGED <<points, history, requests, calls, results>>
      /\ UNCHANGED <<items, syncs, backoffs, online, reloads>>
      /\ Flush(batch) BY DEF TimerFires, syncing
<1>2. Grows BY <1>1, UnchangedGrows
<1>3. batch \in Seq(Ids) /\ batch # <<>>
      /\ \A i \in DOMAIN batch : batch[i] \in DOMAIN calls
  BY DEF TimerFires, TypeInv, TypeOK, References, TimerWithBatch
<1>4. AwardTypes' /\ TimerWithBatch' BY <1>1, <1>3, FlushFacts, HalvesOfTypeOK DEF AwardTypes
<1>5. /\ \A i \in DOMAIN batch' : batch'[i] \in DOMAIN calls
      /\ \A f \in flushes' : \A i \in DOMAIN f.calls : f.calls[i] \in DOMAIN calls
  BY <1>1, <1>3, FlushFacts
<1> QED BY <1>1, <1>2, <1>4, <1>5, BatchStepType

(* The call whose turn it is in a batch, and the batch with its result.     *)
LEMMA FlushIs ==
  ASSUME TypeInv, NEW f \in flushes
  PROVE  /\ f \in [calls : Seq(Ids), results : Seq(Given)]
         /\ Len(f.calls) \in Nat /\ DOMAIN f.calls = 1..Len(f.calls)
         /\ Len(f.results) \in Nat /\ DOMAIN f.results = 1..Len(f.results)
         /\ Len(f.results) <= Len(f.calls) /\ f.calls # <<>>
         /\ \A i \in DOMAIN f.calls : f.calls[i] \in DOMAIN calls
<1>1. /\ f \in [calls : Seq(Ids), results : Seq(Given)]
      /\ Len(f.results) <= Len(f.calls) /\ f.calls # <<>> BY DEF TypeInv, TypeOK
<1>2. f.calls \in Seq(Ids) /\ f.results \in Seq(Given) BY <1>1
<1>3. \A i \in DOMAIN f.calls : f.calls[i] \in DOMAIN calls BY DEF TypeInv, References
<1> QED BY <1>1, <1>2, <1>3

LEMMA CurrentFacts ==
  ASSUME TypeInv, NEW f \in flushes, ~ Processed(f)
  PROVE  Current(f) \in DOMAIN calls
<1>1. Len(f.results) + 1 \in DOMAIN f.calls BY FlushIs DEF Processed
<1> QED BY <1>1, FlushIs DEF Current

LEMMA ResultFacts ==
  ASSUME TypeInv, NEW f \in flushes, ~ Processed(f),
         NEW earned \in Nat \cup {NaN, Failed}
  PROVE  \E g :
           /\ WithResult(f, earned) = (flushes \ {f}) \cup {g}
           /\ g \in [calls : Seq(Ids), results : Seq(Given)]
           /\ g.calls = f.calls
           /\ Len(g.results) = Len(f.results) + 1 /\ Len(g.results) <= Len(g.calls)
           /\ \A i \in 1..Len(f.results) : g.results[i] = f.results[i]
           /\ g.results[Len(f.results) + 1] =
                [request |-> calls[Current(f)].request, earned |-> earned]
<1> DEFINE given == [request |-> calls[Current(f)].request, earned |-> earned]
<1> DEFINE longer == Append(f.results, given)
<1> DEFINE g == [f EXCEPT !.results = longer]
<1>1. given \in Given BY CurrentFacts, CallFacts DEF Given, Execution
<1>2. f.results \in Seq(Given) /\ f.calls \in Seq(Ids) BY FlushIs
<1> HIDE DEF given
<1>3. /\ longer \in Seq(Given) /\ Len(longer) = Len(f.results) + 1
      /\ \A i \in 1..Len(f.results) : longer[i] = f.results[i]
      /\ longer[Len(f.results) + 1] = given BY <1>1, <1>2, AppendProperties
<1>4. WithResult(f, earned) = (flushes \ {f}) \cup {g} BY DEF WithResult, given
<1> HIDE DEF longer
<1>5. g \in [calls : Seq(Ids), results : Seq(Given)] /\ g.calls = f.calls /\ g.results = longer
  BY <1>2, <1>3, FlushIs
<1>6. Len(g.results) <= Len(g.calls) BY <1>3, <1>5, FlushIs DEF Processed
<1> HIDE DEF g
<1> QED BY <1>3, <1>4, <1>5, <1>6 DEF given

LEMMA ResultType ==
  ASSUME TypeInv, NEW f \in flushes, ~ Processed(f),
         NEW earned \in Nat \cup {NaN, Failed}, flushes' = WithResult(f, earned)
  PROVE  /\ \A h \in flushes' : /\ h \in [calls : Seq(Ids), results : Seq(Given)]
                                /\ Len(h.results) <= Len(h.calls) /\ h.calls # <<>>
         /\ \A h \in flushes' : \A i \in DOMAIN h.calls : h.calls[i] \in DOMAIN calls
<1>1. PICK g :
        /\ WithResult(f, earned) = (flushes \ {f}) \cup {g}
        /\ g \in [calls : Seq(Ids), results : Seq(Given)]
        /\ g.calls = f.calls
        /\ Len(g.results) = Len(f.results) + 1 /\ Len(g.results) <= Len(g.calls)
        /\ \A i \in 1..Len(f.results) : g.results[i] = f.results[i]
        /\ g.results[Len(f.results) + 1] =
             [request |-> calls[Current(f)].request, earned |-> earned] BY ResultFacts, Zenon
<1>2. \A h \in flushes' : h \in flushes \/ h = g BY <1>1
<1> QED BY <1>1, <1>2, FlushIs

LEMMA TransactionFailsType ==
  ASSUME TypeInv, NEW f \in flushes, TransactionFails(f)
  PROVE  TypeInv' /\ Grows
<1>1. /\ UNCHANGED <<points, history, requests, calls, results, batch, timer>>
      /\ UNCHANGED <<items, syncs, backoffs, online, reloads>>
      /\ ~ Processed(f) /\ flushes' = WithResult(f, Failed) BY DEF TransactionFails, syncing
<1>2. Grows BY <1>1, UnchangedGrows
<1>3. AwardTypes' BY <1>1, ResultType, HalvesOfTypeOK DEF AwardTypes
<1>4. \A h \in flushes' : \A i \in DOMAIN h.calls : h.calls[i] \in DOMAIN calls BY <1>1, ResultType
<1>5. TimerWithBatch' /\ \A i \in DOMAIN batch' : batch'[i] \in DOMAIN calls
  BY <1>1 DEF TypeInv, TimerWithBatch, References
<1>6. \A row \in history' : row \in history \/ row.call \in DOMAIN calls BY <1>1
<1> QED BY <1>1, <1>2, <1>3, <1>4, <1>5, <1>6, BatchStepType

LEMMA CommitType ==
  ASSUME TypeInv, NEW f \in flushes, Commit(f)
  PROVE  TypeInv' /\ Grows
<1> DEFINE c == Current(f)
<1> DEFINE r == requests[calls[c].request]
<1>1. c \in DOMAIN calls /\ ~ Processed(f) BY CurrentFacts DEF Commit
<1>2. r.user \in Users /\ r.activity \in Activities \cup {Bonus} BY <1>1, CallFacts
<1>3. PICK multiplier \in Multipliers :
        LET earned == Earned(r.activity, multiplier)
            old == Old(points[r.user])
            new == Plus(old, earned)
        IN
        /\ points' = [points EXCEPT ![r.user] = new]
        /\ history' = history \cup {[call |-> c, earned |-> earned]}
        /\ flushes' = WithResult(f, earned)
        /\ IF Level(new) > Level(old) /\ RoomForBonus
             THEN NewRequest(r.user, Bonus) /\ Starts(Len(requests) + 1)
             ELSE UNCHANGED <<requests, calls>> BY DEF Commit
<1> DEFINE earned == Earned(r.activity, multiplier)
<1> DEFINE new == Plus(Old(points[r.user]), earned)
<1>4. UNCHANGED <<results, batch, timer>> /\ UNCHANGED <<items, syncs, backoffs, online, reloads>>
  BY DEF Commit, syncing
<1>5. earned \in Nat \cup {NaN} BY <1>2, EarnedType
<1>6. /\ points' = [points EXCEPT ![r.user] = new]
      /\ history' = history \cup {[call |-> c, earned |-> earned]}
      /\ flushes' = WithResult(f, earned) BY <1>3
<1>7. \/ NewRequest(r.user, Bonus) /\ Starts(Len(requests) + 1)
      \/ UNCHANGED <<requests, calls>> BY <1>3
<1>8. points \in [Users -> Nat \cup {NaN}] BY DEF TypeInv, TypeOK
<1> HIDE DEF r, c, earned
<1>9. new \in Nat \cup {NaN} BY <1>2, <1>5, <1>8, PlusType
<1> HIDE DEF new
<1>10. Grows BY <1>2, <1>7, AwardGrows, UnchangedGrows
<1>11. points' \in [Users -> Nat \cup {NaN}] BY <1>6, <1>8, <1>9
<1>12. history' \subseteq [call : Ids, earned : Nat \cup {NaN}]
  BY <1>1, <1>5, <1>6, Lengths DEF TypeInv, TypeOK
<1>13. AwardTypes'
  BY <1>1, <1>4, <1>5, <1>6, <1>11, <1>12, ResultType, HalvesOfTypeOK DEF AwardTypes
<1>14. \A h \in flushes' : \A i \in DOMAIN h.calls : h.calls[i] \in DOMAIN calls
  BY <1>1, <1>5, <1>6, ResultType
<1>15. TimerWithBatch' /\ \A i \in DOMAIN batch' : batch'[i] \in DOMAIN calls
  BY <1>4 DEF TypeInv, TimerWithBatch, References
<1>16. \A row \in history' : row \in history \/ row.call \in DOMAIN calls BY <1>1, <1>6
<1> QED BY <1>4, <1>10, <1>13, <1>14, <1>15, <1>16, BatchStepType

(* Steps that change every call at once.                                    *)
LEMMA AllCallsGrow ==
  ASSUME TypeInv, UNCHANGED requests,
         calls' \in [DOMAIN calls -> Execution],
         \A c \in DOMAIN calls : calls'[c].request = calls[c].request
  PROVE  Grows
<1>1. Len(calls) \in Nat /\ DOMAIN calls = 1..Len(calls) BY Lengths
<1>2. calls' \in [1..Len(calls) -> Execution] BY <1>1
<1>3. calls' \in Seq(Execution) BY <1>1, <1>2, SeqDef
<1>4. calls' \in Seq(Execution) /\ Len(calls') = Len(calls) BY <1>1, <1>2, <1>3, LenProperties
<1>5. RequestsGrow BY Lengths DEF TypeInv, TypeOK, References, RequestsGrow
<1>6. DOMAIN calls' = DOMAIN calls BY <1>1, <1>2
<1> QED BY <1>1, <1>4, <1>5, <1>6 DEF TypeInv, References, Grows

LEMMA ResolveType ==
  ASSUME TypeInv, NEW f \in flushes, Resolve(f)
  PROVE  TypeInv' /\ Grows
<1> DEFINE index(c) == CHOOSE i \in DOMAIN f.calls : f.calls[i] = c
<1> DEFINE e(c) == IF \E i \in DOMAIN f.calls : f.calls[i] = c
                     THEN [calls[c] EXCEPT !.at = "answered", !.answer = f.results[index(c)]]
                     ELSE calls[c]
<1>1. /\ UNCHANGED <<points, history, requests, results, batch, timer>>
      /\ UNCHANGED <<items, syncs, backoffs, online, reloads>>
      /\ Processed(f) /\ flushes' = flushes \ {f}
      /\ calls' = [c \in DOMAIN calls |-> e(c)] BY DEF Resolve, syncing
<1>2. ASSUME NEW c \in DOMAIN calls
      PROVE  e(c) \in Execution /\ e(c).request = calls[c].request
  <2>1. calls[c] \in Execution BY CallFacts
  <2>2. CASE \E i \in DOMAIN f.calls : f.calls[i] = c
    <3>1. index(c) \in DOMAIN f.calls BY <2>2
    <3>2. index(c) \in 1..Len(f.results) BY <1>1, <3>1, FlushIs DEF Processed
    <3>3. f.results \in Seq(Given) BY FlushIs
    <3>4. f.results[index(c)] \in Given
      <4> HIDE DEF index
      <4> QED BY <3>2, <3>3, ElementOfSeq
    <3> HIDE DEF index
    <3> QED BY <2>1, <2>2, <3>4 DEF Execution, Answer
  <2>3. CASE ~ \E i \in DOMAIN f.calls : f.calls[i] = c BY <2>1, <2>3
  <2> QED BY <2>2, <2>3
<1> HIDE DEF e
<1>3. Grows
  <2>1. calls' \in [DOMAIN calls -> Execution] BY <1>1, <1>2
  <2>2. \A c \in DOMAIN calls : calls'[c].request = calls[c].request BY <1>1, <1>2
  <2> QED BY <1>1, <2>1, <2>2, AllCallsGrow
<1>4. AwardTypes' BY <1>1, HalvesOfTypeOK DEF AwardTypes
<1>5. TimerWithBatch' /\ \A i \in DOMAIN batch' : batch'[i] \in DOMAIN calls
  BY <1>1 DEF TypeInv, TimerWithBatch, References
<1>6. \A h \in flushes' : \A i \in DOMAIN h.calls : h.calls[i] \in DOMAIN calls
  BY <1>1 DEF TypeInv, References
<1>7. \A row \in history' : row \in history \/ row.call \in DOMAIN calls BY <1>1
<1> QED BY <1>1, <1>3, <1>4, <1>5, <1>6, <1>7, BatchStepType

LEMMA SaveType ==
  ASSUME TypeInv, NEW c \in DOMAIN calls, Save(c)
  PROVE  TypeInv' /\ Grows
<1> DEFINE e == [calls[c] EXCEPT !.at = "done"]
<1>1. /\ UNCHANGED <<points, history, requests, batch, timer, flushes>>
      /\ UNCHANGED <<items, syncs, backoffs, online, reloads>>
      /\ results' = [results EXCEPT ![calls[c].request] = calls[c].answer]
      /\ calls' = [calls EXCEPT ![c] = e] BY DEF Save, syncing
<1>2. e \in Execution /\ e.request = calls[c].request BY CallFacts DEF Execution
<1>3. Grows
  <2> HIDE DEF e
  <2> QED BY <1>1, <1>2, ExceptGrows
<1>4. results' \in [1..MaxRequests -> Answer] BY <1>1, CallFacts DEF Execution, TypeInv, TypeOK
<1>5. AwardTypes' BY <1>1, <1>4, HalvesOfTypeOK DEF AwardTypes
<1>6. TimerWithBatch' /\ \A i \in DOMAIN batch' : batch'[i] \in DOMAIN calls
  BY <1>1 DEF TypeInv, TimerWithBatch, References
<1>7. /\ \A h \in flushes' : \A i \in DOMAIN h.calls : h.calls[i] \in DOMAIN calls
      /\ \A row \in history' : row \in history \/ row.call \in DOMAIN calls
  BY <1>1 DEF TypeInv, References
<1> QED BY <1>1, <1>3, <1>5, <1>6, <1>7, BatchStepType

LEMMA EnqueueType ==
  ASSUME TypeInv, NEW u \in Users, NEW activity \in Activities, Enqueue(u, activity)
  PROVE  TypeInv' /\ Grows
<1> DEFINE e == [request |-> Len(requests) + 1, retries |-> 0, status |-> "queued"]
<1>1. /\ UNCHANGED <<points, history, calls, results, batch, timer, flushes>>
      /\ UNCHANGED <<syncs, backoffs, online, reloads>>
      /\ NewRequest(u, activity) /\ items' = Append(items, e) BY DEF Enqueue, awarding
<1>2. Grows BY <1>1, EnqueueGrows
<1>3. e \in Item /\ Len(requests) + 1 \in DOMAIN requests'
  BY <1>1, NewRequestFacts, Lengths, PointsAssumption DEF Item
<1>4. items \in Seq(Item) /\ Len(items) \in Nat /\ DOMAIN items = 1..Len(items)
  BY Lengths DEF TypeInv, TypeOK
<1>5. e.request = Len(requests) + 1 OBVIOUS
<1> HIDE DEF e
<1>6. /\ items' \in Seq(Item) /\ Len(items') = Len(items) + 1
      /\ \A i \in 1..Len(items) : items'[i] = items[i]
      /\ items'[Len(items) + 1] = e BY <1>1, <1>3, <1>4, AppendProperties
<1>7. DOMAIN items' = 1..Len(items) + 1 BY <1>4, <1>6
<1>8. DOMAIN requests \subseteq DOMAIN requests' BY <1>2, GrowsFacts
<1>9. \A i \in DOMAIN items' : items'[i].request \in DOMAIN requests'
  BY <1>3, <1>4, <1>5, <1>6, <1>7, <1>8 DEF TypeInv, References
<1>10. QueueTypes'
  <2>1. DOMAIN items \subseteq DOMAIN items' BY <1>4, <1>7
  <2>2. QueueTypes BY HalvesOfTypeOK
  <2>3. syncs' \subseteq [item : DOMAIN items', todo : SUBSET DOMAIN items',
                         call : DOMAIN calls'] BY <1>1, <2>1, <2>2 DEF QueueTypes
  <2> QED BY <1>1, <1>6, <2>2, <2>3 DEF QueueTypes
<1> QED BY <1>1, <1>2, <1>9, <1>10, QueueStepType

LEMMA GoOfflineType ==
  ASSUME TypeInv, GoOffline
  PROVE  TypeInv' /\ Grows
<1>1. /\ UNCHANGED <<points, history, requests, calls, results, batch, timer, flushes>>
      /\ UNCHANGED <<items, syncs, backoffs, reloads>> /\ online' = FALSE
  BY DEF GoOffline, awarding, syncing
<1>2. Grows BY <1>1, UnchangedGrows
<1>3. QueueTypes'
  <2>1. online' \in BOOLEAN BY <1>1, Zenon
  <2> QED BY <1>1, <2>1, HalvesOfTypeOK DEF QueueTypes
<1>4. \A i \in DOMAIN items' : items'[i].request \in DOMAIN requests'
  BY <1>1 DEF TypeInv, References
<1> QED BY <1>1, <1>2, <1>3, <1>4, QueueStepType

(* A sync that starts. *)
LEMMA SyncStartsType ==
  ASSUME TypeInv, SyncOf(Queued, syncs), UNCHANGED requests,
         UNCHANGED <<points, history, results, batch, timer, flushes>>,
         UNCHANGED <<items, reloads>>, online' \in BOOLEAN, backoffs' \in Nat
  PROVE  TypeInv' /\ Grows
<1>1. Queued \subseteq DOMAIN items BY DEF Queued
<1>2. /\ Grows
      /\ syncs' \subseteq [item : DOMAIN items, todo : SUBSET DOMAIN items,
                          call : DOMAIN calls'] BY <1>1, SyncOfFacts
<1>3. QueueTypes' BY <1>2, HalvesOfTypeOK DEF QueueTypes
<1>4. \A i \in DOMAIN items' : items'[i].request \in DOMAIN requests' BY DEF TypeInv, References
<1> QED BY <1>2, <1>3, <1>4, QueueStepType

LEMMA GoOnlineType ==
  ASSUME TypeInv, GoOnline
  PROVE  TypeInv' /\ Grows
<1>1. online' \in BOOLEAN BY Zenon DEF GoOnline
<1>2. backoffs' \in Nat BY DEF GoOnline, TypeInv, TypeOK
<1> QED BY <1>1, <1>2, SyncStartsType DEF GoOnline

LEMMA BackoffFiresType ==
  ASSUME TypeInv, BackoffFires
  PROVE  TypeInv' /\ Grows
<1>1. online' \in BOOLEAN BY DEF BackoffFires, TypeInv, TypeOK
<1>2. backoffs' \in Nat BY DEF BackoffFires, TypeInv, TypeOK
<1> QED BY <1>1, <1>2, SyncStartsType DEF BackoffFires

(* A sync that goes on after its current item, whose entry became e.        *)
LEMMA SyncGoesOnType ==
  ASSUME TypeInv, NEW s \in syncs, SyncOf(s.todo, syncs \ {s}), UNCHANGED requests,
         UNCHANGED <<points, history, results, batch, timer, flushes>>,
         UNCHANGED <<online, reloads>>, backoffs' \in Nat,
         NEW e \in Item, e.request = items[s.item].request,
         items' = [items EXCEPT ![s.item] = e]
  PROVE  TypeInv' /\ Grows
<1>1. s.item \in DOMAIN items /\ s.todo \in SUBSET DOMAIN items BY DEF TypeInv, TypeOK
<1>2. /\ Grows
      /\ syncs' \subseteq [item : DOMAIN items, todo : SUBSET DOMAIN items,
                          call : DOMAIN calls'] BY <1>1, SyncOfFacts
<1>3. /\ items' \in Seq(Item) /\ DOMAIN items' = DOMAIN items
      /\ \A j \in DOMAIN items' : items'[j].request \in DOMAIN requests BY <1>1, ItemExceptFacts
<1>4. QueueTypes' BY <1>2, <1>3, HalvesOfTypeOK DEF QueueTypes
<1> QED BY <1>2, <1>3, <1>4, QueueStepType

LEMMA SyncFacts ==
  ASSUME TypeInv, NEW s \in syncs
  PROVE  /\ s.item \in DOMAIN items /\ s.call \in DOMAIN calls
         /\ s.todo \subseteq DOMAIN items /\ items[s.item] \in Item
<1>1. s.item \in DOMAIN items /\ s.call \in DOMAIN calls /\ s.todo \subseteq DOMAIN items
  BY DEF TypeInv, TypeOK
<1> QED BY <1>1, Lengths, ElementOfSeq DEF TypeInv, TypeOK

LEMMA SyncAwardedType ==
  ASSUME TypeInv, NEW s \in syncs, SyncAwarded(s)
  PROVE  TypeInv' /\ Grows
<1> DEFINE e == [items[s.item] EXCEPT !.status = "gone"]
<1>1. e \in Item /\ e.request = items[s.item].request BY SyncFacts DEF Item
<1>2. /\ items' = [items EXCEPT ![s.item] = e] /\ UNCHANGED requests
      /\ UNCHANGED <<points, history, results, batch, timer, flushes>>
      /\ UNCHANGED <<online, reloads>> /\ SyncOf(s.todo, syncs \ {s})
      /\ UNCHANGED backoffs BY DEF SyncAwarded
<1>3. backoffs' \in Nat BY <1>2 DEF TypeInv, TypeOK
<1> HIDE DEF e
<1> QED BY <1>1, <1>2, <1>3, SyncGoesOnType

LEMMA SyncRefusedType ==
  ASSUME TypeInv, NEW s \in syncs, SyncRefused(s)
  PROVE  TypeInv' /\ Grows
<1> DEFINE item == items[s.item]
<1> DEFINE abandoned == [item EXCEPT !.status = Abandoned(item.status)]
<1> DEFINE retried == [item EXCEPT !.retries = IF item.status = "gone" THEN item.retries
                                               ELSE item.retries + 1]
<1>1. /\ UNCHANGED requests
      /\ UNCHANGED <<points, history, results, batch, timer, flushes>>
      /\ UNCHANGED <<online, reloads>> /\ SyncOf(s.todo, syncs \ {s}) BY DEF SyncRefused
<1>2. item \in Item /\ item.retries \in Nat /\ MaxRetries \in Nat
  BY SyncFacts, PointsAssumption DEF Item
<1>3. CASE GivesUp(item)
  <2>1. items' = [items EXCEPT ![s.item] = abandoned] /\ UNCHANGED backoffs BY <1>3 DEF SyncRefused
  <2>2. abandoned \in Item /\ abandoned.request = items[s.item].request BY <1>2 DEF Item, Abandoned
  <2>3. backoffs' \in Nat BY <2>1 DEF TypeInv, TypeOK
  <2> HIDE DEF abandoned, item
  <2> QED BY <1>1, <2>1, <2>2, <2>3, SyncGoesOnType
<1>4. CASE ~ GivesUp(item)
  <2>1. items' = [items EXCEPT ![s.item] = retried] /\ backoffs' = backoffs + 1
    BY <1>4 DEF SyncRefused
  <2>2. item.retries + 1 \in 0..MaxRetries BY <1>2, <1>4 DEF GivesUp
  <2>3. retried \in Item /\ retried.request = items[s.item].request BY <1>2, <2>2 DEF Item
  <2>4. backoffs' \in Nat BY <2>1 DEF TypeInv, TypeOK
  <2> HIDE DEF retried, item
  <2> QED BY <1>1, <2>1, <2>3, <2>4, SyncGoesOnType
<1> QED BY <1>3, <1>4

LEMMA ReloadType ==
  ASSUME TypeInv, Reload
  PROVE  TypeInv' /\ Grows
<1>1. /\ UNCHANGED <<points, history, requests, items, online>>
      /\ calls' = [c \in DOMAIN calls |-> [calls[c] EXCEPT !.at = "gone"]]
      /\ results' = [r \in 1..MaxRequests |-> NoAnswer]
      /\ batch' = <<>> /\ timer' = FALSE /\ flushes' = {}
      /\ syncs' = {} /\ backoffs' = 0
      /\ reloads < MaxReloads /\ reloads' = reloads + 1 BY DEF Reload
<1>2. calls' \in [DOMAIN calls -> Execution]
      /\ \A c \in DOMAIN calls : calls'[c].request = calls[c].request
  BY <1>1, CallFacts DEF Execution
<1>3. Grows BY <1>1, <1>2, AllCallsGrow
<1>4. reloads' \in 0..MaxReloads BY <1>1, PointsAssumption DEF TypeInv, TypeOK
<1>5. QueueTypes' BY <1>1, <1>4, HalvesOfTypeOK DEF QueueTypes
<1>6. results' \in [1..MaxRequests -> Answer] BY <1>1 DEF Answer
<1>7. timer' \in BOOLEAN /\ TimerWithBatch' BY <1>1, Zenon DEF TimerWithBatch
<1>8. batch' \in Seq(Ids) /\ Len(batch') < BatchSize BY <1>1, PointsAssumption
<1>9. AwardTypes' BY <1>1, <1>6, <1>7, <1>8, HalvesOfTypeOK DEF AwardTypes
<1>10. TypeOK' BY <1>3, <1>5, <1>9, HalvesOfTypeOK
<1>11. References'
  <2>1. /\ \A i \in DOMAIN items' : items'[i].request \in DOMAIN requests'
        /\ \A row \in history' : row \in history \/ row.call \in DOMAIN calls
        /\ \A i \in DOMAIN batch' : batch'[i] \in DOMAIN calls
        /\ \A f \in flushes' : \A i \in DOMAIN f.calls : f.calls[i] \in DOMAIN calls
    BY <1>1 DEF TypeInv, References
  <2> QED BY <1>3, <2>1, ReferencesKept
<1> QED BY <1>3, <1>7, <1>10, <1>11 DEF TypeInv

(* Every step keeps the types, and lets calls and requests only grow.       *)
LEMMA TypeNext ==
  ASSUME TypeInv, [Next]_vars PROVE TypeInv' /\ Grows
<1>1. ASSUME NEW u \in Users, NEW activity \in Activities,
             Award(u, activity) \/ Enqueue(u, activity)
      PROVE  TypeInv' /\ Grows BY <1>1, AwardType, EnqueueType
<1>2. ASSUME NEW r \in DOMAIN requests, AwardAgain(r)
      PROVE  TypeInv' /\ Grows BY <1>2, AwardAgainType
<1>3. ASSUME NEW c \in DOMAIN calls, Refuse(c) \/ NoPoints(c) \/ Add(c) \/ Save(c)
      PROVE  TypeInv' /\ Grows BY <1>3, RefuseType, NoPointsType, AddType, SaveType
<1>4. CASE TimerFires BY <1>4, TimerFiresType
<1>5. ASSUME NEW f \in flushes, Commit(f) \/ TransactionFails(f) \/ Resolve(f)
      PROVE  TypeInv' /\ Grows BY <1>5, CommitType, TransactionFailsType, ResolveType
<1>6. CASE GoOffline \/ GoOnline \/ BackoffFires
  BY <1>6, GoOfflineType, GoOnlineType, BackoffFiresType
<1>7. ASSUME NEW s \in syncs, SyncAwarded(s) \/ SyncRefused(s)
      PROVE  TypeInv' /\ Grows BY <1>7, SyncAwardedType, SyncRefusedType
<1>8. CASE Reload BY <1>8, ReloadType
<1>9. CASE UNCHANGED vars
  <2>1. Grows BY <1>9, UnchangedGrows DEF vars
  <2> QED BY <1>9, <2>1, AwardStepType DEF vars
<1> QED BY <1>1, <1>2, <1>3, <1>4, <1>5, <1>6, <1>7, <1>8, <1>9 DEF Next

LEMMA AlwaysTypeInv == Spec => []TypeInv
<1>1. TypeInv /\ [Next]_vars => TypeInv' BY TypeNext
<1> QED BY TypeInit, <1>1, PTL DEF Spec

(* Every variable keeps its type.                                          *)
THEOREM TypeCorrect == Spec => []TypeOK BY AlwaysTypeInv, PTL DEF TypeInv

(* No wake-up is lost: calls that wait in the batch have a timer.           *)
THEOREM NoLostWakeup == Spec => []BatchHasTimer
<1>1. TypeInv => BatchHasTimer BY DEF TypeInv, TimerWithBatch, BatchHasTimer
<1> QED BY AlwaysTypeInv, <1>1, PTL
-----------------------------------------------------------------------------
(* Most steps leave the calls alone or start one.                           *)
CallsStart == UNCHANGED calls \/ \E r \in 1..MaxRequests : Starts(r)

LEMMA NoAnswerGiven == NoAnswer \notin Given
<1>1. Given \subseteq [request : Nat, earned : Nat \cup {NaN, Failed}] BY PointsAssumption DEF Given
<1> QED BY <1>1, PointsAssumption

LEMMA StartsAsCallsStart ==
  ASSUME TypeInv, NEW r \in DOMAIN requests, Starts(r) PROVE CallsStart BY Lengths DEF CallsStart

LEMMA SyncOfCallsStart ==
  ASSUME TypeInv, NEW todo \in SUBSET DOMAIN items, NEW others, SyncOf(todo, others)
  PROVE  CallsStart
<1>1. ASSUME NEW i \in todo, Starts(items[i].request) PROVE CallsStart
  <2>1. items[i].request \in DOMAIN requests BY DEF TypeInv, References
  <2> QED BY <1>1, <2>1, StartsAsCallsStart
<1> QED BY <1>1 DEF SyncOf, CallsStart

(* The steps that start a call or none, and change no batch, no result and  *)
(* no row of the history.                                                  *)
Starting ==
  \/ \E u \in Users, activity \in Activities : Award(u, activity) \/ Enqueue(u, activity)
  \/ \E r \in DOMAIN requests : AwardAgain(r)
  \/ GoOffline \/ GoOnline \/ BackoffFires
  \/ \E s \in syncs : SyncAwarded(s) \/ SyncRefused(s)
  \/ UNCHANGED vars

LEMMA StartingFacts ==
  ASSUME TypeInv, Starting
  PROVE  CallsStart /\ UNCHANGED <<points, history, results, batch, timer, flushes>>
<1> DEFINE Goal == CallsStart /\ UNCHANGED <<points, history, results, batch, timer, flushes>>
<1>1. ASSUME NEW u \in Users, NEW activity \in Activities, Award(u, activity) PROVE Goal
  <2>1. Len(requests) + 1 \in 1..MaxRequests BY <1>1, NewRequestFacts DEF Award
  <2> QED BY <1>1, <2>1 DEF Award, CallsStart
<1>2. ASSUME NEW u \in Users, NEW activity \in Activities, Enqueue(u, activity) PROVE Goal
  BY <1>2 DEF Enqueue, awarding, CallsStart
<1>3. ASSUME NEW r \in DOMAIN requests, AwardAgain(r) PROVE Goal
  BY <1>3, StartsAsCallsStart DEF AwardAgain
<1>4. CASE GoOffline BY <1>4 DEF GoOffline, awarding, CallsStart
<1>5. CASE GoOnline \/ BackoffFires
  <2>1. Queued \in SUBSET DOMAIN items BY DEF Queued
  <2> QED BY <1>5, <2>1, SyncOfCallsStart DEF GoOnline, BackoffFires
<1>6. ASSUME NEW s \in syncs, SyncAwarded(s) \/ SyncRefused(s) PROVE Goal
  <2>1. s.todo \in SUBSET DOMAIN items BY SyncFacts
  <2> QED BY <1>6, <2>1, SyncOfCallsStart DEF SyncAwarded, SyncRefused
<1>7. CASE UNCHANGED vars BY <1>7 DEF vars, CallsStart
<1> QED BY <1>1, <1>2, <1>3, <1>4, <1>5, <1>6, <1>7 DEF Starting

(* The shape of Next the invariants below are proved along.                 *)
LEMMA NextCases ==
  ASSUME [Next]_vars
  PROVE  \/ Starting
         \/ \E c \in DOMAIN calls : Refuse(c) \/ NoPoints(c) \/ Add(c) \/ Save(c)
         \/ TimerFires
         \/ \E f \in flushes : Commit(f) \/ TransactionFails(f) \/ Resolve(f)
         \/ Reload BY DEF Next, Starting

LEMMA CommitFacts ==
  ASSUME TypeInv, NEW f \in flushes, Commit(f)
  PROVE  /\ CallsStart /\ ~ Processed(f)
         /\ UNCHANGED <<results, batch, timer>>
         /\ \E earned \in Nat \cup {NaN} :
              /\ history' = history \cup {[call |-> Current(f), earned |-> earned]}
              /\ flushes' = WithResult(f, earned)
<1> DEFINE c == Current(f)
<1> DEFINE r == requests[calls[c].request]
<1>1. ~ Processed(f) /\ UNCHANGED <<results, batch, timer>> BY DEF Commit
<1>2. r.user \in Users /\ r.activity \in Activities \cup {Bonus} BY <1>1, CurrentFacts, CallFacts
<1>3. PICK multiplier \in Multipliers :
        LET earned == Earned(r.activity, multiplier)
            old == Old(points[r.user])
            new == Plus(old, earned)
        IN
        /\ points' = [points EXCEPT ![r.user] = new]
        /\ history' = history \cup {[call |-> c, earned |-> earned]}
        /\ flushes' = WithResult(f, earned)
        /\ IF Level(new) > Level(old) /\ RoomForBonus
             THEN NewRequest(r.user, Bonus) /\ Starts(Len(requests) + 1)
             ELSE UNCHANGED <<requests, calls>> BY DEF Commit
<1>4. \/ NewRequest(r.user, Bonus) /\ Starts(Len(requests) + 1)
      \/ UNCHANGED <<requests, calls>> BY <1>3
<1>5. Earned(r.activity, multiplier) \in Nat \cup {NaN} BY <1>2, EarnedType
<1> HIDE DEF r
<1>6. CallsStart
  <2>1. CASE NewRequest(r.user, Bonus) /\ Starts(Len(requests) + 1)
    <3>1. Len(requests) + 1 \in 1..MaxRequests BY <1>2, <2>1, NewRequestFacts
    <3> QED BY <2>1, <3>1 DEF CallsStart
  <2> QED BY <1>4, <2>1 DEF CallsStart
<1> QED BY <1>1, <1>3, <1>5, <1>6
-----------------------------------------------------------------------------
(* Answers are true.  The claim of an answer to request r must already hold *)
(* of the saved results, and of the results of a batch before they are      *)
(* handed out by position.                                                 *)
Backed(answer) ==
  answer.earned \notin {0, Failed} =>
    \E row \in history : /\ calls[row.call].request = answer.request
                         /\ row.earned = answer.earned
Claim(r, answer) == answer.request = r /\ Backed(answer)
FlushClaims(f) ==
  \A i \in DOMAIN f.results : Claim(calls[f.calls[i]].request, f.results[i])

TrueInv ==
  /\ \A c \in DOMAIN calls :
       calls[c].answer # NoAnswer => Claim(calls[c].request, calls[c].answer)
  /\ \A r \in 1..MaxRequests : results[r] # NoAnswer => Claim(r, results[r])
  /\ \A f \in flushes : FlushClaims(f)

LEMMA ClaimKept ==
  ASSUME TypeInv, Grows, history \subseteq history', NEW r, NEW answer, Claim(r, answer)
  PROVE  Claim(r, answer)'
<1>1. \A row \in history : calls'[row.call].request = calls[row.call].request
  BY DEF TypeInv, References, Grows
<1> QED BY <1>1 DEF Claim, Backed

LEMMA FlushClaimsKept ==
  ASSUME TypeInv, Grows, history \subseteq history', NEW f \in flushes, FlushClaims(f)
  PROVE  FlushClaims(f)'
<1>1. ASSUME NEW i \in DOMAIN f.results
      PROVE  Claim(calls[f.calls[i]].request, f.results[i])'
  <2>1. f.calls[i] \in DOMAIN calls BY FlushIs
  <2>2. calls'[f.calls[i]].request = calls[f.calls[i]].request BY <2>1 DEF Grows
  <2>3. Claim(calls[f.calls[i]].request, f.results[i]) BY DEF FlushClaims
  <2> QED BY <2>2, <2>3, ClaimKept
<1> QED BY <1>1 DEF FlushClaims

(* A step keeps TrueInv if every answer it stores was a true claim before.  *)
LEMMA TrueStep ==
  ASSUME TypeInv, Grows, TrueInv, history \subseteq history',
         \A c \in DOMAIN calls' :
           calls'[c].answer # NoAnswer => Claim(calls'[c].request, calls'[c].answer),
         \A r \in 1..MaxRequests : results'[r] # NoAnswer => Claim(r, results'[r]),
         \A f \in flushes' : f \in flushes \/ FlushClaims(f)'
  PROVE  TrueInv'
<1>0. \A row \in history : calls'[row.call].request = calls[row.call].request
  BY DEF TypeInv, References, Grows
<1>1. ASSUME NEW c \in DOMAIN calls', calls'[c].answer # NoAnswer
      PROVE  Claim(calls[c].request, calls[c].answer)'
  <2>1. Claim(calls'[c].request, calls'[c].answer) BY <1>1
  <2> QED BY <1>0, <2>1 DEF Claim, Backed
<1>2. ASSUME NEW r \in 1..MaxRequests, results'[r] # NoAnswer
      PROVE  Claim(r, results[r])'
  <2>1. Claim(r, results'[r]) BY <1>2
  <2> QED BY <1>0, <2>1 DEF Claim, Backed
<1>3. \A f \in flushes' : FlushClaims(f)' BY FlushClaimsKept DEF TrueInv
<1> QED BY <1>1, <1>2, <1>3 DEF TrueInv

LEMMA TrueCallsStart ==
  ASSUME TypeInv, TrueInv, CallsStart
  PROVE  \A c \in DOMAIN calls' :
           calls'[c].answer # NoAnswer => Claim(calls'[c].request, calls'[c].answer)
<1>1. CASE UNCHANGED calls BY <1>1 DEF TrueInv
<1>2. ASSUME NEW r \in 1..MaxRequests, Starts(r)
      PROVE  \A c \in DOMAIN calls' :
               calls'[c].answer # NoAnswer => Claim(calls'[c].request, calls'[c].answer)
  <2>1. /\ DOMAIN calls' = 1..Len(calls) + 1
        /\ \A c \in DOMAIN calls : calls'[c] = calls[c]
        /\ calls'[Len(calls) + 1] = Call(r) BY <1>2, StartsFacts
  <2>2. Call(r).answer # NoAnswer => Claim(Call(r).request, Call(r).answer) BY DEF Call, TrueInv
  <2>3. \A c \in DOMAIN calls' : c \in DOMAIN calls \/ c = Len(calls) + 1 BY <2>1, Lengths
  <2> QED BY <2>1, <2>2, <2>3 DEF TrueInv
<1> QED BY <1>1, <1>2 DEF CallsStart

(* The result of a transaction that has just ended is a true claim.         *)
LEMMA ResultClaims ==
  ASSUME TypeInv, Grows, TrueInv, NEW f \in flushes, ~ Processed(f),
         NEW earned \in Nat \cup {NaN, Failed}, flushes' = WithResult(f, earned),
         history \subseteq history',
         earned = Failed \/ [call |-> Current(f), earned |-> earned] \in history'
  PROVE  \A g \in flushes' : g \in flushes \/ FlushClaims(g)'
<1> DEFINE n == Len(f.results)
<1> DEFINE given == [request |-> calls[Current(f)].request, earned |-> earned]
<1>1. PICK g :
        /\ WithResult(f, earned) = (flushes \ {f}) \cup {g}
        /\ g \in [calls : Seq(Ids), results : Seq(Given)]
        /\ g.calls = f.calls
        /\ Len(g.results) = Len(f.results) + 1 /\ Len(g.results) <= Len(g.calls)
        /\ \A i \in 1..Len(f.results) : g.results[i] = f.results[i]
        /\ g.results[Len(f.results) + 1] =
             [request |-> calls[Current(f)].request, earned |-> earned] BY ResultFacts, Zenon
<1>2. n \in Nat /\ DOMAIN f.results = 1..n /\ DOMAIN g.results = 1..n + 1
  <2>1. g.results \in Seq(Given) BY <1>1
  <2> QED BY <1>1, <2>1, FlushIs
<1>3. FlushClaims(f)' BY FlushClaimsKept DEF TrueInv
<1>4. Current(f) = f.calls[n + 1] /\ Current(f) \in DOMAIN calls BY CurrentFacts DEF Current
<1>5. calls'[Current(f)].request = calls[Current(f)].request BY <1>4 DEF Grows
<1>6. Claim(calls[Current(f)].request, given)' BY <1>5 DEF Claim, Backed
<1>7. ASSUME NEW i \in DOMAIN g.results
      PROVE  Claim(calls[g.calls[i]].request, g.results[i])'
  <2>1. CASE i \in 1..n
    <3>1. Claim(calls[f.calls[i]].request, f.results[i])' BY <1>2, <1>3, <2>1 DEF FlushClaims
    <3> QED BY <1>1, <2>1, <3>1
  <2>2. CASE i = n + 1 BY <1>1, <1>4, <1>5, <1>6, <2>2
  <2> QED BY <1>2, <2>1, <2>2
<1>8. FlushClaims(g)' BY <1>7 DEF FlushClaims
<1> QED BY <1>1, <1>8

(* The promises of a batch are resolved with its results, by position.      *)
LEMMA ResolveFacts ==
  ASSUME TypeInv, NEW f \in flushes, Resolve(f), NEW d \in DOMAIN calls
  PROVE  \/ calls'[d] = calls[d] /\ ~ \E i \in DOMAIN f.calls : f.calls[i] = d
         \/ \E i \in DOMAIN f.results :
              /\ f.calls[i] = d
              /\ calls'[d] = [calls[d] EXCEPT !.at = "answered", !.answer = f.results[i]]
<1> DEFINE index == CHOOSE i \in DOMAIN f.calls : f.calls[i] = d
<1>1. Processed(f) BY DEF Resolve
<1>2. DOMAIN f.results = DOMAIN f.calls BY <1>1, FlushIs DEF Processed
<1>3. calls'[d] = IF \E i \in DOMAIN f.calls : f.calls[i] = d
                  THEN [calls[d] EXCEPT !.at = "answered", !.answer = f.results[index]]
                  ELSE calls[d] BY DEF Resolve
<1>4. CASE \E i \in DOMAIN f.calls : f.calls[i] = d
  <2>1. index \in DOMAIN f.calls /\ f.calls[index] = d BY <1>4
  <2>2. calls'[d] = [calls[d] EXCEPT !.at = "answered", !.answer = f.results[index]] BY <1>3, <1>4
  <2> HIDE DEF index
  <2> QED BY <1>2, <2>1, <2>2
<1> QED BY <1>3, <1>4

LEMMA TrueInit == Init => TrueInv BY DEF Init, TrueInv

LEMMA TrueNext ==
  ASSUME TypeInv, TrueInv, [Next]_vars PROVE TrueInv'
<1>0. TypeInv' /\ Grows BY TypeNext
<1>1. CASE Starting
  <2>1. CallsStart /\ UNCHANGED <<history, results, flushes>> BY <1>1, StartingFacts
  <2>2. \A r \in 1..MaxRequests : results'[r] # NoAnswer => Claim(r, results'[r])
    BY <2>1 DEF TrueInv
  <2>3. history \subseteq history' /\ \A f \in flushes' : f \in flushes BY <2>1
  <2> QED BY <1>0, <2>1, <2>2, <2>3, TrueCallsStart, TrueStep
<1>2. ASSUME NEW c \in DOMAIN calls, Refuse(c) \/ Add(c) \/ Save(c) PROVE TrueInv'
  <2>1. /\ DOMAIN calls' = DOMAIN calls
        /\ \A d \in DOMAIN calls : /\ calls'[d].answer = calls[d].answer
                                  /\ calls'[d].request = calls[d].request
    BY <1>2, CallFacts DEF Refuse, Add, Save, Execution
  <2>2. \A d \in DOMAIN calls' :
          calls'[d].answer # NoAnswer => Claim(calls'[d].request, calls'[d].answer)
    BY <2>1 DEF TrueInv
  <2>3. UNCHANGED history BY <1>2 DEF Refuse, Add, Save
  <2>4. UNCHANGED results \/ results' = [results EXCEPT ![calls[c].request] = calls[c].answer]
    BY <1>2 DEF Refuse, Add, Save
  <2>5. \A r \in 1..MaxRequests : results'[r] # NoAnswer => Claim(r, results'[r])
    BY <2>4 DEF TrueInv, TypeInv, TypeOK
  <2>6. \A f \in flushes' : f \in flushes \/ f.results = <<>> BY <1>2 DEF Refuse, Add, Save, Flush
  <2>7. \A f \in flushes' : f \in flushes \/ FlushClaims(f)' BY <2>6 DEF FlushClaims
  <2> QED BY <1>0, <2>2, <2>3, <2>5, <2>7, TrueStep
<1>3. ASSUME NEW c \in DOMAIN calls, NoPoints(c) PROVE TrueInv'
  <2> DEFINE given == [request |-> calls[c].request, earned |-> 0]
  <2>1. /\ DOMAIN calls' = DOMAIN calls
        /\ \A d \in DOMAIN calls : /\ d # c => calls'[d] = calls[d]
                                  /\ calls'[d].request = calls[d].request
        /\ calls'[c].answer = given BY <1>3, CallFacts DEF NoPoints, Execution
  <2>2. Claim(calls[c].request, given) BY DEF Claim, Backed
  <2> HIDE DEF given
  <2>3. \A d \in DOMAIN calls' :
          calls'[d].answer # NoAnswer => Claim(calls'[d].request, calls'[d].answer)
    BY <2>1, <2>2 DEF TrueInv
  <2>4. UNCHANGED <<history, results, flushes>> BY <1>3 DEF NoPoints
  <2>5. \A r \in 1..MaxRequests : results'[r] # NoAnswer => Claim(r, results'[r])
    BY <2>4 DEF TrueInv
  <2>6. history \subseteq history' /\ \A f \in flushes' : f \in flushes BY <2>4
  <2> QED BY <1>0, <2>3, <2>5, <2>6, TrueStep
<1>4. CASE TimerFires
  <2>1. UNCHANGED <<calls, history, results>> /\ \A f \in flushes' : f \in flushes \/ f.results = <<>>
    BY <1>4 DEF TimerFires, Flush
  <2>2. \A f \in flushes' : f \in flushes \/ FlushClaims(f)' BY <2>1 DEF FlushClaims
  <2>3. \A d \in DOMAIN calls' :
          calls'[d].answer # NoAnswer => Claim(calls'[d].request, calls'[d].answer)
    BY <2>1 DEF TrueInv
  <2>4. \A r \in 1..MaxRequests : results'[r] # NoAnswer => Claim(r, results'[r])
    BY <2>1 DEF TrueInv
  <2> QED BY <1>0, <2>1, <2>2, <2>3, <2>4, TrueStep
<1>5. ASSUME NEW f \in flushes, Commit(f) PROVE TrueInv'
  <2>1. CallsStart /\ ~ Processed(f) /\ UNCHANGED results BY <1>5, CommitFacts
  <2>2. PICK earned \in Nat \cup {NaN} :
          /\ history' = history \cup {[call |-> Current(f), earned |-> earned]}
          /\ flushes' = WithResult(f, earned) BY <1>5, CommitFacts
  <2>3. \A g \in flushes' : g \in flushes \/ FlushClaims(g)' BY <1>0, <2>1, <2>2, ResultClaims
  <2>4. \A r \in 1..MaxRequests : results'[r] # NoAnswer => Claim(r, results'[r])
    BY <2>1 DEF TrueInv
  <2>5. history \subseteq history' BY <2>2
  <2> QED BY <1>0, <2>1, <2>3, <2>4, <2>5, TrueCallsStart, TrueStep
<1>6. ASSUME NEW f \in flushes, TransactionFails(f) PROVE TrueInv'
  <2>1. ~ Processed(f) /\ flushes' = WithResult(f, Failed)
        /\ UNCHANGED <<calls, results, history>> BY <1>6 DEF TransactionFails
  <2>2. \A g \in flushes' : g \in flushes \/ FlushClaims(g)' BY <1>0, <2>1, ResultClaims
  <2>3. \A d \in DOMAIN calls' :
          calls'[d].answer # NoAnswer => Claim(calls'[d].request, calls'[d].answer)
    BY <2>1 DEF TrueInv
  <2>4. \A r \in 1..MaxRequests : results'[r] # NoAnswer => Claim(r, results'[r])
    BY <2>1 DEF TrueInv
  <2> QED BY <1>0, <2>1, <2>2, <2>3, <2>4, TrueStep
<1>7. ASSUME NEW f \in flushes, Resolve(f) PROVE TrueInv'
  <2>1. Processed(f) /\ UNCHANGED <<results, history>> /\ \A g \in flushes' : g \in flushes
    BY <1>7 DEF Resolve
  <2>2. DOMAIN calls' = DOMAIN calls BY <1>7 DEF Resolve
  <2>3. ASSUME NEW d \in DOMAIN calls', calls'[d].answer # NoAnswer
        PROVE  Claim(calls'[d].request, calls'[d].answer)
    <3>1. calls'[d].request = calls[d].request BY <1>0, <2>2 DEF Grows
    <3>2. \/ calls'[d].answer = calls[d].answer
          \/ \E i \in DOMAIN f.results : f.calls[i] = d /\ calls'[d].answer = f.results[i]
      <4>1. \/ calls'[d] = calls[d]
            \/ \E i \in DOMAIN f.results :
                 /\ f.calls[i] = d
                 /\ calls'[d] = [calls[d] EXCEPT !.at = "answered", !.answer = f.results[i]]
        BY <1>7, <2>2, ResolveFacts
      <4>2. calls[d] \in Execution BY <2>2, CallFacts
      <4>3. ASSUME NEW i \in DOMAIN f.results,
                   calls'[d] = [calls[d] EXCEPT !.at = "answered", !.answer = f.results[i]]
            PROVE  calls'[d].answer = f.results[i] BY <4>2, <4>3 DEF Execution
      <4> QED BY <4>1, <4>3
    <3>3. ASSUME NEW i \in DOMAIN f.results, f.calls[i] = d, calls'[d].answer = f.results[i]
          PROVE  Claim(calls'[d].request, calls'[d].answer) BY <3>1, <3>3 DEF TrueInv, FlushClaims
    <3> QED BY <2>2, <2>3, <3>1, <3>2, <3>3 DEF TrueInv
  <2>4. \A r \in 1..MaxRequests : results'[r] # NoAnswer => Claim(r, results'[r])
    BY <2>1 DEF TrueInv
  <2> QED BY <1>0, <2>1, <2>3, <2>4, TrueStep
<1>8. CASE Reload
  <2>1. /\ flushes' = {} /\ results' = [r \in 1..MaxRequests |-> NoAnswer]
        /\ UNCHANGED history
        /\ calls' = [c \in DOMAIN calls |-> [calls[c] EXCEPT !.at = "gone"]] BY <1>8 DEF Reload
  <2>2. \A d \in DOMAIN calls : /\ calls'[d].answer = calls[d].answer
                               /\ calls'[d].request = calls[d].request
    BY <2>1, CallFacts DEF Execution
  <2>3. \A d \in DOMAIN calls' :
          calls'[d].answer # NoAnswer => Claim(calls'[d].request, calls'[d].answer)
    BY <2>1, <2>2 DEF TrueInv
  <2> QED BY <1>0, <2>1, <2>3, TrueStep
<1> QED BY <1>1, <1>2, <1>3, <1>4, <1>5, <1>6, <1>7, <1>8, NextCases

(* An answer says that points were awarded only if the history has the row. *)
THEOREM AnswersTrue == Spec => []AnswersAreTrue
<1>1. TypeInv /\ TrueInv /\ [Next]_vars => TrueInv' BY TrueNext
<1>2. TrueInv => AnswersAreTrue BY DEF TrueInv, Claim, Backed, AnswersAreTrue, Answered
<1> QED BY AlwaysTypeInv, TrueInit, <1>1, <1>2, PTL DEF Spec
-----------------------------------------------------------------------------
(* No step forgets what a call found at its start, or its answer.           *)
CallsKeep ==
  \A c \in DOMAIN calls :
    /\ c \in DOMAIN calls' /\ calls'[c].again = calls[c].again
    /\ calls[c].answer # NoAnswer => calls'[c].answer # NoAnswer

LEMMA CallsStartKeeps ==
  ASSUME TypeInv, CallsStart PROVE CallsKeep
<1>1. ASSUME NEW r \in 1..MaxRequests, Starts(r) PROVE CallsKeep
  <2>1. /\ DOMAIN calls' = 1..Len(calls) + 1
        /\ \A c \in DOMAIN calls : calls'[c] = calls[c] BY <1>1, StartsFacts
  <2>2. DOMAIN calls \subseteq DOMAIN calls' BY <2>1, Lengths
  <2> QED BY <2>1, <2>2 DEF CallsKeep
<1> QED BY <1>1 DEF CallsStart, CallsKeep

(* Where the answers that a flush hands out come from.                      *)
LEMMA ResolvedAnswers ==
  ASSUME TypeInv, NEW f \in flushes, Resolve(f), NEW d \in DOMAIN calls
  PROVE  \/ calls'[d] = calls[d]
         \/ \E i \in DOMAIN f.calls :
              /\ f.calls[i] = d /\ calls'[d].answer # NoAnswer
              /\ calls'[d].at = "answered" /\ calls'[d].again = calls[d].again
<1>1. \/ calls'[d] = calls[d]
      \/ \E i \in DOMAIN f.results :
           /\ f.calls[i] = d
           /\ calls'[d] = [calls[d] EXCEPT !.at = "answered", !.answer = f.results[i]]
  BY ResolveFacts
<1>2. calls[d] \in Execution BY CallFacts
<1>3. ASSUME NEW i \in DOMAIN f.results, f.calls[i] = d,
             calls'[d] = [calls[d] EXCEPT !.at = "answered", !.answer = f.results[i]]
      PROVE  /\ i \in DOMAIN f.calls /\ calls'[d].answer # NoAnswer
             /\ calls'[d].at = "answered" /\ calls'[d].again = calls[d].again
  <2>1. f.results \in Seq(Given) /\ i \in 1..Len(f.results) BY FlushIs
  <2>2. f.results[i] \in Given BY <2>1, ElementOfSeq
  <2>3. i \in DOMAIN f.calls BY <2>1, FlushIs
  <2> QED BY <1>2, <1>3, <2>2, <2>3, NoAnswerGiven DEF Execution
<1> QED BY <1>1, <1>3

LEMMA KeepNext ==
  ASSUME TypeInv, [Next]_vars PROVE CallsKeep
<1>1. CASE Starting BY <1>1, StartingFacts, CallsStartKeeps
<1>2. ASSUME NEW c \in DOMAIN calls, Refuse(c) \/ NoPoints(c) \/ Add(c) \/ Save(c)
      PROVE  CallsKeep
  <2>1. DOMAIN calls' = DOMAIN calls BY <1>2 DEF Refuse, NoPoints, Add, Save
  <2>2. ASSUME NEW d \in DOMAIN calls
        PROVE  /\ calls'[d].again = calls[d].again
               /\ calls'[d].answer = calls[d].answer
                  \/ calls'[d].answer = [request |-> calls[c].request, earned |-> 0]
    BY <1>2, CallFacts DEF Refuse, NoPoints, Add, Save, Execution
  <2>3. [request |-> calls[c].request, earned |-> 0] \in Given
    BY CallFacts, PointsAssumption DEF Given, Execution
  <2> HIDE DEF Given
  <2> QED BY <2>1, <2>2, <2>3, NoAnswerGiven DEF CallsKeep
<1>3. CASE TimerFires BY <1>3 DEF TimerFires, CallsKeep
<1>4. ASSUME NEW f \in flushes, Commit(f) PROVE CallsKeep BY <1>4, CommitFacts, CallsStartKeeps
<1>5. ASSUME NEW f \in flushes, TransactionFails(f) PROVE CallsKeep
  BY <1>5 DEF TransactionFails, CallsKeep
<1>6. ASSUME NEW f \in flushes, Resolve(f) PROVE CallsKeep
  <2>1. DOMAIN calls' = DOMAIN calls BY <1>6 DEF Resolve
  <2> QED BY <1>6, <2>1, ResolvedAnswers DEF CallsKeep
<1>7. CASE Reload
  <2>1. calls' = [c \in DOMAIN calls |-> [calls[c] EXCEPT !.at = "gone"]] BY <1>7 DEF Reload
  <2> QED BY <2>1, CallFacts DEF CallsKeep, Execution
<1> QED BY <1>1, <1>2, <1>3, <1>4, <1>5, <1>6, <1>7, NextCases
-----------------------------------------------------------------------------
(* Idempotency.  A call that starts after an answer under its request id    *)
(* finds the saved result and is done at once, so it never gets into a      *)
(* batch.                                                                  *)
Sound(call, saved) ==
  /\ call.again => call.at \in {"done", "gone"}
  /\ call.at \in {"answered", "done"} => call.answer # NoAnswer
  /\ call.at = "done" /\ call.answer.earned \notin {0, Failed} =>
       saved[call.request] # NoAnswer

IdempotencyInv ==
  /\ \A c \in DOMAIN calls : Sound(calls[c], results)
  /\ \A i \in DOMAIN batch : ~ calls[batch[i]].again
  /\ \A f \in flushes : \A i \in DOMAIN f.calls : ~ calls[f.calls[i]].again
  /\ AnsweredNotRepeated

(* A step keeps the invariant if its calls are sound, and what it adds to   *)
(* the batch, to a flush or to the history is no repeat.                    *)
LEMMA IdempotencyStep ==
  ASSUME TypeInv, IdempotencyInv, CallsKeep,
         \A c \in DOMAIN calls' : Sound(calls'[c], results'),
         \A i \in DOMAIN batch' : batch'[i] \in DOMAIN calls /\ ~ calls[batch'[i]].again,
         \A f \in flushes' : \A i \in DOMAIN f.calls :
           f.calls[i] \in DOMAIN calls /\ ~ calls[f.calls[i]].again,
         \A row \in history' : row.call \in DOMAIN calls /\ ~ calls[row.call].again
  PROVE  IdempotencyInv'
<1>1. \A c \in DOMAIN calls : calls'[c].again = calls[c].again BY DEF CallsKeep
<1> QED BY <1>1 DEF IdempotencyInv, AnsweredNotRepeated

(* What waits, is processed or was awarded before the step is no repeat.    *)
LEMMA NoRepeats ==
  ASSUME TypeInv, IdempotencyInv
  PROVE  /\ \A i \in DOMAIN batch : batch[i] \in DOMAIN calls /\ ~ calls[batch[i]].again
         /\ \A f \in flushes : \A i \in DOMAIN f.calls :
              f.calls[i] \in DOMAIN calls /\ ~ calls[f.calls[i]].again
         /\ \A row \in history : row.call \in DOMAIN calls /\ ~ calls[row.call].again
  BY DEF IdempotencyInv, AnsweredNotRepeated, TypeInv, References

LEMMA NewCallSound ==
  ASSUME TypeInv, IdempotencyInv, CallsStart
  PROVE  \A c \in DOMAIN calls' : Sound(calls'[c], results)
<1>1. ASSUME NEW r \in 1..MaxRequests, Starts(r)
      PROVE  \A c \in DOMAIN calls' : Sound(calls'[c], results)
  <2>1. /\ DOMAIN calls' = 1..Len(calls) + 1
        /\ \A c \in DOMAIN calls : calls'[c] = calls[c]
        /\ calls'[Len(calls) + 1] = Call(r) BY <1>1, StartsFacts
  <2>2. Sound(Call(r), results)
    <3>1. ASSUME Call(r).again PROVE results[r] # NoAnswer
      <4>1. PICK c \in DOMAIN calls :
              /\ calls[c].request = r /\ calls[c].at = "done"
              /\ calls[c].answer.earned \notin {0, Failed} BY <3>1 DEF Call
      <4> QED BY <4>1 DEF IdempotencyInv, Sound
    <3>2. /\ Call(r).request = r /\ Call(r).answer = results[r]
          /\ Call(r).at = IF results[r] = NoAnswer THEN "checked" ELSE "done" BY DEF Call
    <3> QED BY <3>1, <3>2 DEF Sound
  <2>3. \A c \in DOMAIN calls' : c \in DOMAIN calls \/ c = Len(calls) + 1 BY <2>1, Lengths
  <2> QED BY <2>1, <2>2, <2>3 DEF IdempotencyInv
<1> QED BY <1>1 DEF CallsStart, IdempotencyInv

LEMMA IdempotencyInit == Init => IdempotencyInv BY DEF Init, IdempotencyInv, AnsweredNotRepeated

LEMMA IdempotencyNext ==
  ASSUME TypeInv, IdempotencyInv, [Next]_vars PROVE IdempotencyInv'
<1>0. CallsKeep BY KeepNext
<1>1. CASE Starting
  <2>1. CallsStart /\ UNCHANGED <<history, results, batch, flushes>> BY <1>1, StartingFacts
  <2> QED BY <1>0, <2>1, NewCallSound, NoRepeats, IdempotencyStep
<1>2. ASSUME NEW c \in DOMAIN calls, Refuse(c) \/ NoPoints(c) PROVE IdempotencyInv'
  <2>1. calls[c].at = "checked" /\ calls[c] \in Execution BY <1>2, CallFacts DEF Refuse, NoPoints
  <2>2. ~ calls[c].again BY <2>1 DEF IdempotencyInv, Sound
  <2>3. [request |-> calls[c].request, earned |-> 0] \in Given
    BY <2>1, PointsAssumption DEF Given, Execution
  <2>4. /\ DOMAIN calls' = DOMAIN calls
        /\ \A d \in DOMAIN calls : d # c => calls'[d] = calls[d]
        /\ calls'[c].again = calls[c].again
        /\ \/ calls'[c].at = "refused"
           \/ calls'[c].at = "done"
              /\ calls'[c].answer = [request |-> calls[c].request, earned |-> 0]
    <3>1. CASE Refuse(c) BY <2>1, <3>1 DEF Refuse, Execution
    <3>2. CASE NoPoints(c)
      <4>1. calls' = [calls EXCEPT ![c] =
                        [calls[c] EXCEPT !.at = "done",
                           !.answer = [request |-> calls[c].request, earned |-> 0]]]
        BY <3>2 DEF NoPoints
      <4> QED BY <2>1, <4>1 DEF Execution
    <3> QED BY <1>2, <3>1, <3>2
  <2>5. Sound(calls'[c], results) BY <2>2, <2>3, <2>4, NoAnswerGiven DEF Sound
  <2>6. \A d \in DOMAIN calls' : Sound(calls'[d], results) BY <2>4, <2>5 DEF IdempotencyInv
  <2>7. UNCHANGED <<history, results, batch, flushes>> BY <1>2 DEF Refuse, NoPoints
  <2> QED BY <1>0, <2>6, <2>7, NoRepeats, IdempotencyStep
<1>3. ASSUME NEW c \in DOMAIN calls, Add(c) PROVE IdempotencyInv'
  <2>1. calls[c].at = "checked" /\ calls[c] \in Execution BY <1>3, CallFacts DEF Add
  <2>2. ~ calls[c].again BY <2>1 DEF IdempotencyInv, Sound
  <2>3. /\ DOMAIN calls' = DOMAIN calls
        /\ \A d \in DOMAIN calls : d # c => calls'[d] = calls[d]
        /\ calls'[c].again = calls[c].again /\ calls'[c].at = "batched"
    BY <1>3, <2>1 DEF Add, Execution
  <2>4. \A d \in DOMAIN calls' : Sound(calls'[d], results) BY <2>2, <2>3 DEF IdempotencyInv, Sound
  <2> DEFINE longer == Append(batch, c)
  <2>5. \A i \in DOMAIN longer : longer[i] \in DOMAIN calls /\ ~ calls[longer[i]].again
    <3>1. batch \in Seq(DOMAIN calls) BY NoRepeats, Lengths, SeqDef DEF TypeInv, TypeOK
    <3>2. /\ DOMAIN longer = 1..Len(batch) + 1
          /\ \A i \in 1..Len(batch) : longer[i] = batch[i]
          /\ longer[Len(batch) + 1] = c BY <3>1, AppendProperties
    <3>3. \A i \in DOMAIN longer : i \in DOMAIN batch \/ i = Len(batch) + 1 BY <3>2, Lengths
    <3> HIDE DEF longer
    <3> QED BY <2>2, <3>2, <3>3, NoRepeats, Lengths
  <2> HIDE DEF longer
  <2>6. UNCHANGED <<history, results>> BY <1>3 DEF Add
  <2>7. \/ batch' = <<>> /\ flushes' = flushes \cup {[calls |-> longer, results |-> <<>>]}
        \/ batch' = longer /\ UNCHANGED flushes BY <1>3 DEF Add, Flush, longer
  <2>8. \A i \in DOMAIN batch' : batch'[i] \in DOMAIN calls /\ ~ calls[batch'[i]].again
    BY <2>5, <2>7
  <2>9. \A f \in flushes' : \A i \in DOMAIN f.calls :
          f.calls[i] \in DOMAIN calls /\ ~ calls[f.calls[i]].again BY <2>5, <2>7, NoRepeats
  <2> QED BY <1>0, <2>4, <2>6, <2>8, <2>9, NoRepeats, IdempotencyStep
<1>4. ASSUME NEW c \in DOMAIN calls, Save(c) PROVE IdempotencyInv'
  <2>1. calls[c].at = "answered" /\ calls[c] \in Execution BY <1>4, CallFacts DEF Save
  <2>2. ~ calls[c].again /\ calls[c].answer # NoAnswer BY <2>1 DEF IdempotencyInv, Sound
  <2>3. /\ DOMAIN calls' = DOMAIN calls
        /\ \A d \in DOMAIN calls : d # c => calls'[d] = calls[d]
        /\ calls'[c].again = calls[c].again /\ calls'[c].answer = calls[c].answer
        /\ calls'[c].request = calls[c].request /\ calls'[c].at = "done"
    BY <1>4, <2>1 DEF Save, Execution
  <2>4. results' = [results EXCEPT ![calls[c].request] = calls[c].answer]
        /\ UNCHANGED <<history, batch, flushes>> BY <1>4 DEF Save
  <2>5. \A d \in DOMAIN calls : calls[d].request \in 1..MaxRequests BY CallFacts DEF Execution
  <2>6. \A d \in DOMAIN calls' : Sound(calls'[d], results')
    BY <2>2, <2>3, <2>4, <2>5 DEF IdempotencyInv, Sound, TypeInv, TypeOK
  <2> QED BY <1>0, <2>4, <2>6, NoRepeats, IdempotencyStep
<1>5. CASE TimerFires
  <2>1. batch' = <<>> /\ flushes' = flushes \cup {[calls |-> batch, results |-> <<>>]}
        /\ UNCHANGED <<calls, results, history>> BY <1>5 DEF TimerFires, Flush
  <2>2. \A f \in flushes' : \A i \in DOMAIN f.calls :
          f.calls[i] \in DOMAIN calls /\ ~ calls[f.calls[i]].again BY <2>1, NoRepeats
  <2>3. \A c \in DOMAIN calls' : Sound(calls'[c], results') BY <2>1 DEF IdempotencyInv
  <2>4. \A i \in DOMAIN batch' : batch'[i] \in DOMAIN calls /\ ~ calls[batch'[i]].again BY <2>1
  <2> QED BY <1>0, <2>1, <2>2, <2>3, <2>4, NoRepeats, IdempotencyStep
<1>6. ASSUME NEW f \in flushes, Commit(f) \/ TransactionFails(f) PROVE IdempotencyInv'
  <2>1. ~ Processed(f) /\ CallsStart /\ UNCHANGED <<results, batch>>
    BY <1>6, CommitFacts DEF TransactionFails, CallsStart
  <2>2. \E earned \in Nat \cup {NaN, Failed} :
          /\ flushes' = WithResult(f, earned)
          /\ \/ UNCHANGED history
             \/ history' = history \cup {[call |-> Current(f), earned |-> earned]}
    <3>1. ASSUME Commit(f)
          PROVE  \E earned \in Nat \cup {NaN} :
                   /\ history' = history \cup {[call |-> Current(f), earned |-> earned]}
                   /\ flushes' = WithResult(f, earned) BY <3>1, CommitFacts, Zenon
    <3>2. ASSUME TransactionFails(f)
          PROVE  UNCHANGED history /\ flushes' = WithResult(f, Failed) BY <3>2 DEF TransactionFails
    <3> QED BY <1>6, <3>1, <3>2
  <2>3. PICK earned \in Nat \cup {NaN, Failed} :
          /\ flushes' = WithResult(f, earned)
          /\ \/ UNCHANGED history
             \/ history' = history \cup {[call |-> Current(f), earned |-> earned]} BY <2>2
  <2>4. PICK g : WithResult(f, earned) = (flushes \ {f}) \cup {g} /\ g.calls = f.calls
    <3>1. \E g :
            /\ WithResult(f, earned) = (flushes \ {f}) \cup {g}
            /\ g \in [calls : Seq(Ids), results : Seq(Given)]
            /\ g.calls = f.calls
            /\ Len(g.results) = Len(f.results) + 1 /\ Len(g.results) <= Len(g.calls)
            /\ \A i \in 1..Len(f.results) : g.results[i] = f.results[i]
            /\ g.results[Len(f.results) + 1] =
                 [request |-> calls[Current(f)].request, earned |-> earned]
      BY <2>1, ResultFacts, Zenon
    <3> QED BY <3>1, Zenon
  <2>5. \A h \in flushes' : \A i \in DOMAIN h.calls :
          h.calls[i] \in DOMAIN calls /\ ~ calls[h.calls[i]].again BY <2>3, <2>4, NoRepeats
  <2>6. Current(f) \in DOMAIN calls /\ ~ calls[Current(f)].again
    <3>1. Len(f.results) + 1 \in DOMAIN f.calls BY <2>1, FlushIs DEF Processed
    <3> QED BY <3>1, NoRepeats DEF Current
  <2>7. \A row \in history' : row.call \in DOMAIN calls /\ ~ calls[row.call].again
    BY <2>3, <2>6, NoRepeats
  <2> QED BY <1>0, <2>1, <2>5, <2>7, NewCallSound, NoRepeats, IdempotencyStep
<1>7. ASSUME NEW f \in flushes, Resolve(f) PROVE IdempotencyInv'
  <2>1. /\ DOMAIN calls' = DOMAIN calls /\ UNCHANGED <<history, results, batch>>
        /\ \A g \in flushes' : g \in flushes BY <1>7 DEF Resolve
  <2>2. ASSUME NEW d \in DOMAIN calls PROVE Sound(calls'[d], results)
    <3>1. CASE calls'[d] = calls[d] BY <3>1 DEF IdempotencyInv
    <3>2. ASSUME NEW i \in DOMAIN f.calls, f.calls[i] = d, calls'[d].answer # NoAnswer,
                 calls'[d].at = "answered", calls'[d].again = calls[d].again
          PROVE  Sound(calls'[d], results) BY <3>2, NoRepeats DEF Sound
    <3> QED BY <1>7, <3>1, <3>2, ResolvedAnswers
  <2> QED BY <1>0, <2>1, <2>2, NoRepeats, IdempotencyStep
<1>8. CASE Reload
  <2>1. /\ calls' = [c \in DOMAIN calls |-> [calls[c] EXCEPT !.at = "gone"]]
        /\ batch' = <<>> /\ flushes' = {} /\ UNCHANGED history BY <1>8 DEF Reload
  <2>2. \A c \in DOMAIN calls' : Sound(calls'[c], results') BY <2>1, CallFacts DEF Sound, Execution
  <2>3. \A i \in DOMAIN batch' : batch'[i] \in DOMAIN calls /\ ~ calls[batch'[i]].again BY <2>1
  <2> QED BY <1>0, <2>1, <2>2, <2>3, NoRepeats, IdempotencyStep
<1> QED BY <1>1, <1>2, <1>3, <1>4, <1>5, <1>6, <1>7, <1>8, NextCases

LEMMA AlwaysIdempotencyInv == Spec => []IdempotencyInv
<1>1. TypeInv /\ IdempotencyInv /\ [Next]_vars => IdempotencyInv' BY IdempotencyNext
<1> QED BY AlwaysTypeInv, IdempotencyInit, <1>1, PTL DEF Spec

(* Once an award has been answered, calls under its request id award        *)
(* nothing more on that page.                                              *)
THEOREM NotRepeated == Spec => []AnsweredNotRepeated
<1>1. IdempotencyInv => AnsweredNotRepeated BY DEF IdempotencyInv
<1> QED BY AlwaysIdempotencyInv, <1>1, PTL
-----------------------------------------------------------------------------
(* The offline queue.  The call of a sync is about the item the sync is at, *)
(* so when it has an answer, the item may go.                              *)
ItemAnswered(request) ==
  \E c \in DOMAIN calls : calls[c].request = request /\ calls[c].answer # NoAnswer

GivenUp == \A i \in DOMAIN items : items[i].status = "failed" => items[i].retries = MaxRetries

QueueInv ==
  /\ \A i \in DOMAIN items : items[i].status = "gone" => ItemAnswered(items[i].request)
  /\ GivenUp
  /\ \A s \in syncs : calls[s.call].request = items[s.item].request

(* A step keeps the invariant if an item goes only with an answer, is given *)
(* up only after its retries, and syncs stay at their items.                *)
LEMMA QueueStep ==
  ASSUME CallsKeep, Grows, QueueInv, GivenUp',
         \A i \in DOMAIN items' :
           \/ i \in DOMAIN items /\ items'[i].request = items[i].request
              /\ (items'[i].status = "gone" =>
                    items[i].status = "gone" \/ ItemAnswered(items[i].request))
           \/ items'[i].status = "queued",
         \A s \in syncs' : calls'[s.call].request = items'[s.item].request
  PROVE  QueueInv'
<1>1. ASSUME NEW i \in DOMAIN items', items'[i].status = "gone"
      PROVE  ItemAnswered(items[i].request)'
  <2>1. i \in DOMAIN items /\ items'[i].request = items[i].request BY <1>1
  <2>2. ItemAnswered(items[i].request) BY <1>1 DEF QueueInv
  <2> QED BY <2>1, <2>2 DEF CallsKeep, Grows, ItemAnswered
<1> QED BY <1>1 DEF QueueInv

LEMMA QueueUnchanged ==
  ASSUME TypeInv, CallsKeep, Grows, QueueInv, UNCHANGED items, syncs' \subseteq syncs
  PROVE  QueueInv'
<1>1. \A s \in syncs' : calls'[s.call].request = items'[s.item].request
  BY SyncFacts DEF QueueInv, Grows
<1>2. GivenUp' BY DEF QueueInv, GivenUp
<1> QED BY <1>1, <1>2, QueueStep DEF QueueInv

(* The next item of a sync gets a call of its own.                          *)
LEMMA SyncOfRequests ==
  ASSUME TypeInv, Grows, QueueInv, NEW todo \in SUBSET DOMAIN items,
         NEW others \in SUBSET syncs, SyncOf(todo, others)
  PROVE  \A s \in syncs' :
           s.item \in DOMAIN items /\ calls'[s.call].request = items[s.item].request
<1>1. \A s \in others :
        s.item \in DOMAIN items /\ calls'[s.call].request = items[s.item].request
  BY SyncFacts DEF QueueInv, Grows
<1>2. ASSUME NEW i \in todo, Starts(items[i].request),
             syncs' = others \cup {[item |-> i, todo |-> todo \ {i}, call |-> Len(calls) + 1]}
      PROVE  \A s \in syncs' :
               s.item \in DOMAIN items /\ calls'[s.call].request = items[s.item].request
  <2>1. items[i].request \in 1..MaxRequests BY Lengths DEF TypeInv, References
  <2>2. calls'[Len(calls) + 1] = Call(items[i].request) BY <1>2, <2>1, StartsFacts
  <2>3. calls'[Len(calls) + 1].request = items[i].request BY <2>2 DEF Call
  <2> DEFINE new == [item |-> i, todo |-> todo \ {i}, call |-> Len(calls) + 1]
  <2>4. new.item = i /\ new.call = Len(calls) + 1 /\ syncs' = others \cup {new} BY <1>2
  <2> HIDE DEF new
  <2> QED BY <1>1, <2>3, <2>4
<1> QED BY <1>1, <1>2 DEF SyncOf

LEMMA QueueInit == Init => QueueInv BY DEF Init, QueueInv, GivenUp

LEMMA EnqueueQueue ==
  ASSUME TypeInv, CallsKeep, Grows, QueueInv,
         NEW u \in Users, NEW activity \in Activities, Enqueue(u, activity)
  PROVE  QueueInv'
<1> DEFINE new == [request |-> Len(requests) + 1, retries |-> 0, status |-> "queued"]
<1>1. items' = Append(items, new) /\ UNCHANGED <<syncs, calls>> BY DEF Enqueue, awarding
<1>2. new.status = "queued" OBVIOUS
<1> HIDE DEF new
<1>3. /\ DOMAIN items' = 1..Len(items) + 1
      /\ \A i \in 1..Len(items) : items'[i] = items[i]
      /\ items'[Len(items) + 1] = new
  <2>1. items \in Seq(Item \cup {new}) /\ new \in Item \cup {new} BY SeqDef DEF TypeInv, TypeOK
  <2> HIDE DEF Item
  <2> QED BY <1>1, <2>1, AppendProperties
<1>4. \A i \in DOMAIN items' :
        (i \in DOMAIN items /\ items'[i] = items[i]) \/ items'[i].status = "queued"
  BY <1>2, <1>3, Lengths
<1>5. GivenUp' BY <1>4 DEF GivenUp, QueueInv
<1>6. \A s \in syncs' : calls'[s.call].request = items'[s.item].request
  BY <1>1, <1>3, SyncFacts, Lengths DEF QueueInv
<1> QED BY <1>4, <1>5, <1>6, QueueStep

(* A sync goes on after its item became e.                                  *)
LEMMA SyncGoesOnQueue ==
  ASSUME TypeInv, CallsKeep, Grows, QueueInv,
         NEW s \in syncs, SyncOf(s.todo, syncs \ {s}),
         NEW e \in Item, e.request = items[s.item].request,
         items' = [items EXCEPT ![s.item] = e],
         e.status = "gone" =>
           items[s.item].status = "gone" \/ ItemAnswered(items[s.item].request),
         e.status = "failed" => e.retries = MaxRetries
  PROVE  QueueInv'
<1>1. s.item \in DOMAIN items /\ s.todo \in SUBSET DOMAIN items BY SyncFacts
<1>2. /\ DOMAIN items' = DOMAIN items /\ items'[s.item] = e
      /\ \A i \in DOMAIN items : i # s.item => items'[i] = items[i] BY <1>1
<1>3. GivenUp' BY <1>2 DEF GivenUp, QueueInv
<1>4. \A r \in syncs' :
        r.item \in DOMAIN items /\ calls'[r.call].request = items[r.item].request
  BY <1>1, SyncOfRequests
<1>5. \A r \in syncs' : calls'[r.call].request = items'[r.item].request BY <1>2, <1>4
<1> QED BY <1>2, <1>3, <1>5, QueueStep

LEMMA SyncAwardedQueue ==
  ASSUME TypeInv, IdempotencyInv, CallsKeep, Grows, QueueInv,
         NEW s \in syncs, SyncAwarded(s)
  PROVE  QueueInv'
<1> DEFINE e == [items[s.item] EXCEPT !.status = "gone"]
<1>1. e \in Item /\ e.request = items[s.item].request /\ e.status = "gone" BY SyncFacts DEF Item
<1>2. /\ items' = [items EXCEPT ![s.item] = e] /\ SyncOf(s.todo, syncs \ {s})
      /\ calls[s.call].at = "done" BY DEF SyncAwarded
<1>3. s.call \in DOMAIN calls /\ calls[s.call].answer # NoAnswer
  BY <1>2, SyncFacts DEF IdempotencyInv, Sound
<1>4. ItemAnswered(items[s.item].request) BY <1>3 DEF ItemAnswered, QueueInv
<1> HIDE DEF e
<1> QED BY <1>1, <1>2, <1>4, SyncGoesOnQueue

LEMMA SyncRefusedQueue ==
  ASSUME TypeInv, CallsKeep, Grows, QueueInv, NEW s \in syncs, SyncRefused(s)
  PROVE  QueueInv'
<1> DEFINE item == items[s.item]
<1> DEFINE abandoned == [item EXCEPT !.status = Abandoned(item.status)]
<1> DEFINE retried == [item EXCEPT !.retries = IF item.status = "gone" THEN item.retries
                                               ELSE item.retries + 1]
<1>1. SyncOf(s.todo, syncs \ {s}) BY DEF SyncRefused
<1>2. item \in Item /\ item.retries \in Nat /\ MaxRetries \in Nat
      /\ item.retries <= MaxRetries /\ s.item \in DOMAIN items
  BY SyncFacts, PointsAssumption DEF Item
<1>3. CASE GivesUp(item)
  <2>1. items' = [items EXCEPT ![s.item] = abandoned] BY <1>3 DEF SyncRefused
  <2>2. /\ abandoned \in Item /\ abandoned.request = items[s.item].request
        /\ abandoned.retries = item.retries
        /\ abandoned.status = "gone" => items[s.item].status = "gone" BY <1>2 DEF Item, Abandoned
  <2>3. item.retries = MaxRetries BY <1>2, <1>3 DEF GivesUp
  <2> HIDE DEF abandoned
  <2> QED BY <1>1, <2>1, <2>2, <2>3, SyncGoesOnQueue
<1>4. CASE ~ GivesUp(item)
  <2>1. items' = [items EXCEPT ![s.item] = retried] BY <1>4 DEF SyncRefused
  <2>2. item.retries + 1 \in 0..MaxRetries BY <1>2, <1>4 DEF GivesUp
  <2>3. /\ retried \in Item /\ retried.request = items[s.item].request
        /\ retried.status = item.status BY <1>2, <2>2 DEF Item
  <2>4. item.status # "failed" BY <1>2, <1>4 DEF GivesUp, QueueInv, GivenUp
  <2> HIDE DEF retried
  <2> QED BY <1>1, <2>1, <2>3, <2>4, SyncGoesOnQueue
<1> QED BY <1>3, <1>4

LEMMA QueueNext ==
  ASSUME TypeInv, IdempotencyInv, QueueInv, [Next]_vars PROVE QueueInv'
<1>0. CallsKeep /\ Grows BY KeepNext, TypeNext
<1>1. ASSUME NEW u \in Users, NEW activity \in Activities,
             Award(u, activity) \/ Enqueue(u, activity)
      PROVE  QueueInv' BY <1>0, <1>1, EnqueueQueue, QueueUnchanged DEF Award, syncing
<1>2. ASSUME NEW r \in DOMAIN requests, AwardAgain(r) PROVE QueueInv'
  BY <1>0, <1>2, QueueUnchanged DEF AwardAgain, syncing
<1>3. ASSUME NEW c \in DOMAIN calls, Refuse(c) \/ NoPoints(c) \/ Add(c) \/ Save(c)
      PROVE  QueueInv' BY <1>0, <1>3, QueueUnchanged DEF Refuse, NoPoints, Add, Save, syncing
<1>4. CASE TimerFires BY <1>0, <1>4, QueueUnchanged DEF TimerFires, syncing
<1>5. ASSUME NEW f \in flushes, Commit(f) \/ TransactionFails(f) \/ Resolve(f)
      PROVE  QueueInv' BY <1>0, <1>5, QueueUnchanged DEF Commit, TransactionFails, Resolve, syncing
<1>6. CASE GoOffline BY <1>0, <1>6, QueueUnchanged DEF GoOffline, syncing
<1>7. CASE GoOnline \/ BackoffFires
  <2>1. SyncOf(Queued, syncs) /\ UNCHANGED items BY <1>7 DEF GoOnline, BackoffFires
  <2>2. Queued \in SUBSET DOMAIN items BY DEF Queued
  <2>3. \A s \in syncs' : calls'[s.call].request = items'[s.item].request
    BY <1>0, <2>1, <2>2, SyncOfRequests
  <2>4. GivenUp' BY <2>1 DEF QueueInv, GivenUp
  <2> QED BY <1>0, <2>1, <2>3, <2>4, QueueStep DEF QueueInv
<1>8. ASSUME NEW s \in syncs, SyncAwarded(s) \/ SyncRefused(s) PROVE QueueInv'
  BY <1>0, <1>8, SyncAwardedQueue, SyncRefusedQueue
<1>9. CASE Reload
  <2>1. UNCHANGED items /\ syncs' \subseteq syncs BY <1>9 DEF Reload
  <2> QED BY <1>0, <2>1, QueueUnchanged
<1>10. CASE UNCHANGED vars BY <1>0, <1>10, QueueUnchanged DEF vars
<1> QED BY <1>1, <1>2, <1>3, <1>4, <1>5, <1>6, <1>7, <1>8, <1>9, <1>10 DEF Next

LEMMA AlwaysQueueInv == Spec => []QueueInv
<1>1. TypeInv /\ IdempotencyInv /\ QueueInv /\ [Next]_vars => QueueInv' BY QueueNext
<1> QED BY AlwaysTypeInv, AlwaysIdempotencyInv, QueueInit, <1>1, PTL DEF Spec

(* An activity leaves the offline queue only with an answer.                *)
THEOREM QueueDurable == Spec => []QueuedUntilAnswered
<1>1. QueueInv => QueuedUntilAnswered BY DEF QueueInv, ItemAnswered, QueuedUntilAnswered, Answered
<1> QED BY AlwaysQueueInv, <1>1, PTL

(* Overlapping syncs together retry an item as often as allowed, no more    *)
(* and, before they give it up, no less.                                    *)
THEOREM RetriesBounded == Spec => []GivenUpAfterRetries
<1>1. TypeInv /\ QueueInv => GivenUpAfterRetries
  <2>1. ASSUME TypeInv, NEW i \in DOMAIN items PROVE items[i].retries <= MaxRetries
    <3>1. items[i] \in Item BY <2>1, Lengths, ElementOfSeq DEF TypeInv, TypeOK
    <3> QED BY <3>1, PointsAssumption DEF Item
  <2> QED BY <2>1 DEF QueueInv, GivenUp, GivenUpAfterRetries
<1> QED BY AlwaysTypeInv, AlwaysQueueInv, <1>1, PTL

(* Batches, results, history and queue agree, whatever overlaps or fails.   *)
THEOREM PointsTrue == Spec => []PointsAreTrue
  BY TypeCorrect, NoLostWakeup, AnswersTrue, NotRepeated, QueueDurable, RetriesBounded,
     PTL DEF PointsAreTrue
=============================================================================
