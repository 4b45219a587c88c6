--------------------------- MODULE MCPlatformProofs ---------------------------
(***************************************************************************)
(* The platform below the features does what it says, for any number of    *)
(* keys, calls, requests, pages, flows, loops, rows and connections.  Each *)
(* component has an inductive invariant of its own; a step of the platform *)
(* is a step of one component and leaves the others alone.                 *)
(***************************************************************************)
EXTENDS MCPlatformInvariants, FiniteSetTheorems, SequenceTheorems, WellFoundedInduction, TLAPS
-----------------------------------------------------------------------------
(***************************************************************************)
(* Counting what is in a state, when one of a finite set moves.            *)
(***************************************************************************)
LEMMA CountsOf ==
  ASSUME NEW X, IsFiniteSet(X), NEW A \in SUBSET X
  PROVE  IsFiniteSet(A) /\ Cardinality(A) \in Nat /\ Cardinality(A) <= Cardinality(X)
         /\ Cardinality(X) \in Nat BY FS_Subset, FS_CardinalityType

(* The modules count alike.                                                *)
LEMMA CountsAlike ==
  ASSUME NEW X
  PROVE  /\ L!Cardinality(X) = Cardinality(X) /\ E!Cardinality(X) = Cardinality(X)
         /\ M!Cardinality(X) = Cardinality(X) /\ R!Cardinality(X) = Cardinality(X)
         /\ S!Cardinality(X) = Cardinality(X) /\ C!Cardinality(X) = Cardinality(X)
         /\ D!Cardinality(X) = Cardinality(X) /\ V!Cardinality(X) = Cardinality(X)
  BY DEF L!Cardinality, E!Cardinality, M!Cardinality, R!Cardinality, S!Cardinality,
     C!Cardinality, D!Cardinality, V!Cardinality, Cardinality

LEMMA CountsOneMore ==
  ASSUME NEW X, IsFiniteSet(X), NEW A \in SUBSET X, NEW B \in SUBSET X, NEW x \in X,
         x \notin A, B = A \cup {x}
  PROVE  Cardinality(B) = Cardinality(A) + 1 BY CountsOf, FS_AddElement

LEMMA NoneCounts ==
  ASSUME NEW X, IsFiniteSet(X), NEW A \in SUBSET X
  PROVE  Cardinality(A) = 0 <=> A = {} BY CountsOf, FS_EmptySet

-----------------------------------------------------------------------------
(***************************************************************************)
(* Queues without doubles.                                                 *)
(***************************************************************************)
LEMMA QueueGrows ==
  ASSUME NEW X, NEW s \in Seq(X), NEW x \in X
  PROVE  /\ Append(s, x) \in Seq(X) /\ Append(s, x) # <<>>
         /\ Members(Append(s, x)) = Members(s) \cup {x}
         /\ Distinct(s) /\ x \notin Members(s) => Distinct(Append(s, x))
  <1> DEFINE t == Append(s, x)
  <1>1. t \in Seq(X) /\ Len(t) = Len(s) + 1 /\ t[Len(s) + 1] = x /\ Len(s) \in Nat
        /\ \A i \in 1..Len(s) : t[i] = s[i]
    OBVIOUS
  <1> HIDE DEF t
  <1>2. Members(t) = Members(s) \cup {x} BY <1>1 DEF Members
  <1>3. ASSUME Distinct(s), x \notin Members(s) PROVE Distinct(t) BY <1>1, <1>3 DEF Distinct, Members
  <1>4. t # <<>> BY <1>1
  <1> QED BY <1>1, <1>2, <1>3, <1>4 DEF t

LEMMA QueueShrinks ==
  ASSUME NEW X, NEW s \in Seq(X), s # <<>>
  PROVE  /\ Head(s) \in X /\ Tail(s) \in Seq(X) /\ Head(s) \in Members(s)
         /\ Members(s) = Members(Tail(s)) \cup {Head(s)}
         /\ Distinct(s) => Distinct(Tail(s)) /\ Head(s) \notin Members(Tail(s))
  <1> DEFINE t == Tail(s)
  <1>1. t \in Seq(X) /\ Len(t) = Len(s) - 1 /\ Head(s) = s[1] /\ Len(s) \in Nat /\ Len(s) # 0
        /\ s[1] \in X /\ \A i \in 1..Len(t) : t[i] = s[i + 1]
    OBVIOUS
  <1> HIDE DEF t
  <1>2. \A i \in 1..Len(s) : i = 1 \/ (i - 1 \in 1..Len(t) /\ t[i - 1] = s[i]) BY <1>1
  <1>3. Members(s) = Members(t) \cup {Head(s)} BY <1>1, <1>2 DEF Members
  <1>4. ASSUME Distinct(s) PROVE Distinct(t) /\ Head(s) \notin Members(t)
    BY <1>1, <1>4 DEF Distinct, Members
  <1> QED BY <1>1, <1>3, <1>4 DEF t

LEMMA EmptyQueue == Members(<<>>) = {} /\ Distinct(<<>>) BY DEF Members, Distinct

LEMMA LastIsCut ==
  ASSUME NEW X, NEW s \in Seq(X), s # <<>>
  PROVE  /\ WithoutLast(s) \in Seq(X) /\ Len(WithoutLast(s)) = Len(s) - 1
         /\ Len(WithoutLast(s)) \in Nat /\ Len(s) \in Nat /\ Len(s) # 0
         /\ LastOf(s) \in X /\ Len(s) \in 1..Len(s)
         /\ \A i \in 1..Len(WithoutLast(s)) : WithoutLast(s)[i] = s[i] /\ i \in 1..Len(s)
  <1>1. Len(s) \in Nat /\ Len(s) # 0 /\ \A i \in 1..Len(s) : s[i] \in X OBVIOUS
  <1> DEFINE l == Len(s) - 1
  <1>2. \A n \in Nat : n # 0 => n - 1 \in Nat /\ n - 1 <= n /\ (n - 1 = 0 \/ 1 <= n - 1)
                              /\ n \in 1..n /\ \A i \in 1..(n - 1) : i \in 1..n
    OBVIOUS
  <1>3. l \in Nat /\ l <= Len(s) /\ (l = 0 \/ 1 <= l) /\ s[Len(s)] \in X /\ Len(s) \in 1..Len(s)
        /\ \A i \in 1..l : s[i] \in X /\ i \in 1..Len(s) BY <1>1, <1>2
  <1> HIDE DEF l
  <1>4. SubSeq(s, 1, l) \in Seq(X) /\ Len(SubSeq(s, 1, l)) = l BY <1>3, SubSeqProperties
  <1>5. \A i \in 1..l : SubSeq(s, 1, l)[i] = s[1 + i - 1] /\ 1 + i - 1 = i BY <1>3, SubSeqProperties
  <1> QED BY <1>1, <1>3, <1>4, <1>5 DEF l, WithoutLast, LastOf

-----------------------------------------------------------------------------
(* lesson_orchestrator.js.                                                 *)
LEMMA FlowLimits == IsFiniteSet(Flows) /\ Limit \in Nat /\ Retries \in Nat \ {0} /\ Threshold \in Nat \ {0}
  BY LimitsAssumption

LEMMA FlowStarts == L!FlowInit => FlowInv
  <1> SUFFICES ASSUME L!FlowInit PROVE FlowInv OBVIOUS
  <1>1. FlowIs("running") = {} /\ FlowIs("pending") = {} BY DEF L!FlowInit, FlowIs
  <1>2. Cardinality(FlowIs("running")) = 0 BY <1>1, FS_EmptySet
  <1> QED BY <1>1, <1>2, EmptyQueue, FlowLimits DEF L!FlowInit, L!None, FlowInv, FlowAts

(* What a flow leaves when its place is given up is an attempt.            *)
LEMMA PlaceIsPassedOn ==
  ASSUME FlowInv, NEW f \in Flows, NEW left \in [at : FlowAts, tries : 0..Retries],
         flow[f] = "running", L!GiveUpPlace(f, left)
  PROVE  /\ flow' \in [Flows -> {"free", "pending", "running"}]
         /\ attempt' \in [Flows -> [at : FlowAts, tries : 0..Retries]]
         /\ active' \in 0..Limit /\ active' = Cardinality(FlowIs("running")')
         /\ pending_operations' \in Seq(Flows) /\ Distinct(pending_operations')
         /\ Members(pending_operations') = FlowIs("pending")'
         /\ pending_operations' # <<>> => active' = Limit
  <1> USE FlowLimits DEF FlowInv
  <1>1. CASE pending_operations = <<>>
    <2>1. /\ active' = active - 1 /\ flow' = [flow EXCEPT ![f] = "free"]
          /\ attempt' = [attempt EXCEPT ![f] = left] /\ UNCHANGED pending_operations
      BY <1>1 DEF L!GiveUpPlace
    <2>2. Cardinality(FlowIs("running")) = Cardinality(FlowIs("running")') + 1
      <3>1. FlowIs("running") \in SUBSET Flows /\ FlowIs("running")' \in SUBSET Flows
            /\ f \notin FlowIs("running")' /\ FlowIs("running") = FlowIs("running")' \cup {f}
        BY <2>1 DEF FlowIs
      <3> QED BY <3>1, CountsOneMore
    <2>3. Cardinality(FlowIs("running")') \in Nat BY CountsOf DEF FlowIs
    <2>4. FlowIs("pending")' = FlowIs("pending") BY <2>1 DEF FlowIs
    <2>5. flow' \in [Flows -> {"free", "pending", "running"}]
          /\ attempt' \in [Flows -> [at : FlowAts, tries : 0..Retries]] BY <2>1
    <2>6. active' \in 0..Limit /\ active' = Cardinality(FlowIs("running")') BY <2>1, <2>2, <2>3
    <2> QED BY <1>1, <2>1, <2>4, <2>5, <2>6
  <1>2. CASE pending_operations # <<>>
    <2> DEFINE h == Head(pending_operations)
    <2>0. /\ h \in Flows /\ h \in Members(pending_operations)
          /\ Tail(pending_operations) \in Seq(Flows) /\ Distinct(Tail(pending_operations))
          /\ h \notin Members(Tail(pending_operations))
          /\ Members(pending_operations) = Members(Tail(pending_operations)) \cup {h}
      BY <1>2, QueueShrinks
    <2>1. /\ flow' = [flow EXCEPT ![f] = "free", ![h] = "running"]
          /\ attempt' = [attempt EXCEPT ![f] = left, ![h] = L!First]
          /\ pending_operations' = Tail(pending_operations) /\ UNCHANGED active
      BY <1>2, Zenon DEF L!GiveUpPlace
    <2>2. flow[h] = "pending" /\ h # f BY <2>0 DEF FlowIs
    <2>3. L!First \in [at : FlowAts, tries : 0..Retries] BY DEF L!First, FlowAts
    <2> HIDE DEF h
    <2>4. /\ flow' \in [Flows -> {"free", "pending", "running"}]
          /\ attempt' \in [Flows -> [at : FlowAts, tries : 0..Retries]]
          /\ flow'[f] = "free" /\ flow'[h] = "running"
          /\ \A y \in Flows \ {f, h} : flow'[y] = flow[y] BY <2>0, <2>1, <2>2, <2>3
    <2>5. FlowIs("pending")' = Members(pending_operations') BY <2>0, <2>1, <2>2, <2>4 DEF FlowIs
    <2>6. Cardinality(FlowIs("running")') = Cardinality(FlowIs("running"))
      <3> DEFINE A == FlowIs("running") \ {f}
      <3>1. A \in SUBSET Flows /\ f \notin A /\ h \notin A
            /\ FlowIs("running") \in SUBSET Flows /\ FlowIs("running")' \in SUBSET Flows
            /\ FlowIs("running") = A \cup {f} /\ FlowIs("running")' = A \cup {h}
        BY <2>0, <2>2, <2>4 DEF FlowIs
      <3> HIDE DEF A
      <3>2. Cardinality(FlowIs("running")) = Cardinality(A) + 1 BY <3>1, CountsOneMore
      <3>3. Cardinality(FlowIs("running")') = Cardinality(A) + 1 BY <2>0, <3>1, CountsOneMore
      <3> QED BY <3>2, <3>3
    <2> QED BY <1>2, <2>0, <2>1, <2>4, <2>5, <2>6
  <1> QED BY <1>1, <1>2

(* The end of an attempt, whether its flow still holds a place or not.     *)
LEMMA AttemptEnds ==
  ASSUME FlowInv, NEW f \in Flows, L!Ends(f, L!None)
  PROVE  /\ flow' \in [Flows -> {"free", "pending", "running"}]
         /\ attempt' \in [Flows -> [at : FlowAts, tries : 0..Retries]]
         /\ active' \in 0..Limit /\ active' = Cardinality(FlowIs("running")')
         /\ pending_operations' \in Seq(Flows) /\ Distinct(pending_operations')
         /\ Members(pending_operations') = FlowIs("pending")'
         /\ pending_operations' # <<>> => active' = Limit
  <1>1. L!None \in [at : FlowAts, tries : 0..Retries] BY FlowLimits DEF L!None, FlowAts
  <1>2. CASE flow[f] = "running"
    <2>1. L!GiveUpPlace(f, L!None) BY <1>2 DEF L!Ends
    <2> QED BY <1>1, <1>2, <2>1, PlaceIsPassedOn
  <1>3. CASE flow[f] # "running"
    <2>1. attempt' = [attempt EXCEPT ![f] = L!None] /\ UNCHANGED <<flow, active, pending_operations>>
      BY <1>3 DEF L!Ends
    <2> QED BY <1>1, <2>1 DEF FlowInv, FlowIs
  <1> QED BY <1>2, <1>3

LEMMA AttemptGoesOn ==
  ASSUME FlowInv, NEW f \in Flows, NEW place \in FlowAts, L!Goes(f, place),
         UNCHANGED <<flow, active, pending_operations>>
  PROVE  /\ attempt' \in [Flows -> [at : FlowAts, tries : 0..Retries]]
         /\ active' = Cardinality(FlowIs("running")') /\ FlowIs("pending")' = FlowIs("pending")
  <1>1. attempt' = [attempt EXCEPT ![f].at = place] BY DEF L!Goes
  <1>2. attempt' \in [Flows -> [at : FlowAts, tries : 0..Retries]] BY <1>1 DEF FlowInv
  <1> QED BY <1>2 DEF FlowInv, FlowIs

LEMMA AttemptIsRetried ==
  ASSUME FlowInv, NEW f \in Flows, L!Retry(f)
  PROVE  /\ flow' \in [Flows -> {"free", "pending", "running"}]
         /\ attempt' \in [Flows -> [at : FlowAts, tries : 0..Retries]]
         /\ active' \in 0..Limit /\ active' = Cardinality(FlowIs("running")')
         /\ pending_operations' \in Seq(Flows) /\ Distinct(pending_operations')
         /\ Members(pending_operations') = FlowIs("pending")'
         /\ pending_operations' # <<>> => active' = Limit
  <1>1. CASE attempt[f].tries < Retries
    <2>1. /\ attempt' = [attempt EXCEPT ![f] = [at |-> "call", tries |-> attempt[f].tries + 1]]
          /\ UNCHANGED <<flow, active, pending_operations>> BY <1>1, Zenon DEF L!Retry
    <2>2. [at |-> "call", tries |-> attempt[f].tries + 1] \in [at : FlowAts, tries : 0..Retries]
      BY <1>1, FlowLimits DEF FlowInv, FlowAts
    <2> QED BY <2>1, <2>2 DEF FlowInv, FlowIs
  <1>2. CASE ~(attempt[f].tries < Retries) BY <1>2, AttemptEnds DEF L!Retry
  <1> QED BY <1>1, <1>2

LEMMA FlowKeeps == FlowInv /\ [L!FlowNext]_(L!flow_vars) => FlowInv'
  <1> SUFFICES ASSUME FlowInv, [L!FlowNext]_(L!flow_vars) PROVE FlowInv' OBVIOUS
  <1> USE FlowLimits
  <1>1. ASSUME NEW f \in Flows, L!StartFlow(f) PROVE FlowInv'
    <2>1. CASE active < Limit
      <3>1. /\ flow' = [flow EXCEPT ![f] = "running"] /\ attempt' = [attempt EXCEPT ![f] = L!First]
            /\ active' = active + 1 /\ UNCHANGED <<pending_operations, circuit, flow_failures>>
            /\ flow[f] = "free" BY <1>1, <2>1 DEF L!StartFlow
      <3>2. L!First \in [at : FlowAts, tries : 0..Retries] BY DEF L!First, FlowAts
      <3>3. flow' \in [Flows -> {"free", "pending", "running"}]
            /\ attempt' \in [Flows -> [at : FlowAts, tries : 0..Retries]] BY <3>1, <3>2 DEF FlowInv
      <3>4. Cardinality(FlowIs("running")') = Cardinality(FlowIs("running")) + 1
        <4>1. FlowIs("running") \in SUBSET Flows /\ FlowIs("running")' \in SUBSET Flows
              /\ f \notin FlowIs("running") /\ FlowIs("running")' = FlowIs("running") \cup {f}
          BY <3>1 DEF FlowIs, FlowInv
        <4> QED BY <4>1, CountsOneMore
      <3>5. FlowIs("pending")' = FlowIs("pending") /\ pending_operations = <<>>
        BY <2>1, <3>1 DEF FlowIs, FlowInv
      <3> QED BY <2>1, <3>1, <3>3, <3>4, <3>5 DEF FlowInv
    <2>2. CASE ~(active < Limit)
      <3>1. /\ flow' = [flow EXCEPT ![f] = "pending"]
            /\ pending_operations' = Append(pending_operations, f)
            /\ UNCHANGED <<attempt, active, circuit, flow_failures>> /\ flow[f] = "free"
        BY <1>1, <2>2 DEF L!StartFlow
      <3>2. f \notin Members(pending_operations) BY <3>1 DEF FlowInv, FlowIs
      <3>3. /\ pending_operations' \in Seq(Flows) /\ Distinct(pending_operations')
            /\ Members(pending_operations') = Members(pending_operations) \cup {f}
        BY <3>1, <3>2, QueueGrows DEF FlowInv
      <3>4. FlowIs("pending")' = FlowIs("pending") \cup {f} /\ FlowIs("running")' = FlowIs("running")
            /\ flow' \in [Flows -> {"free", "pending", "running"}] BY <3>1 DEF FlowIs, FlowInv
      <3> QED BY <2>2, <3>1, <3>3, <3>4 DEF FlowInv
    <2> QED BY <2>1, <2>2
  <1>2. ASSUME NEW f \in Flows, L!Call(f) PROVE FlowInv'
    <2>1. L!Goes(f, "get_lesson") /\ UNCHANGED <<flow, active, pending_operations, circuit, flow_failures>>
      BY <1>2 DEF L!Call
    <2>2. "get_lesson" \in FlowAts BY DEF FlowAts
    <2> QED BY <2>1, <2>2, AttemptGoesOn DEF FlowInv
  <1>3. ASSUME NEW f \in Flows, L!TestRequest(f) PROVE FlowInv'
    <2>1. L!Goes(f, "test_lesson") /\ UNCHANGED <<flow, active, pending_operations, flow_failures>>
          /\ circuit' = "HALF_OPEN" BY <1>3 DEF L!TestRequest
    <2>2. "test_lesson" \in FlowAts BY DEF FlowAts
    <2> QED BY <2>1, <2>2, AttemptGoesOn DEF FlowInv
  <1>4. ASSUME NEW f \in Flows, L!Answered(f) PROVE FlowInv'
    <2>1. /\ L!Goes(f, L!Following(attempt[f].at)) /\ UNCHANGED <<flow, active, pending_operations, circuit, flow_failures>>
          /\ attempt[f].at \in {"get_lesson", "get_start", "test_lesson", "test_start"}
      BY <1>4 DEF L!Answered
    <2>2. L!Following(attempt[f].at) \in FlowAts BY <2>1 DEF FlowAts, L!Following
    <2> QED BY <2>1, <2>2, AttemptGoesOn DEF FlowInv
  <1>5. ASSUME NEW f \in Flows, L!FlowSucceeds(f) PROVE FlowInv'
    <2>1. L!Ends(f, L!None) BY <1>5 DEF L!FlowSucceeds
    <2>2. circuit' \in {"CLOSED", "OPEN", "HALF_OPEN"} /\ flow_failures' \in 0..Threshold
      BY <1>5 DEF L!FlowSucceeds, FlowInv
    <2> QED BY <2>1, <2>2, AttemptEnds DEF FlowInv
  <1>6. ASSUME NEW f \in Flows, L!Refused(f) PROVE FlowInv'
    <2>1. L!Retry(f) /\ UNCHANGED <<circuit, flow_failures>> BY <1>6 DEF L!Refused
    <2> QED BY <2>1, AttemptIsRetried DEF FlowInv
  <1>7. ASSUME NEW f \in Flows, L!CallFails(f) PROVE FlowInv'
    <2>1. L!Retry(f) BY <1>7 DEF L!CallFails
    <2>2. circuit' \in {"CLOSED", "OPEN", "HALF_OPEN"} /\ flow_failures' \in 0..Threshold
      BY <1>7 DEF L!CallFails, FlowInv
    <2> QED BY <2>1, <2>2, AttemptIsRetried DEF FlowInv
  <1>8. ASSUME NEW f \in Flows, L!Timeout(f) PROVE FlowInv'
    <2>1. flow[f] = "running" /\ L!GiveUpPlace(f, attempt[f]) /\ UNCHANGED <<circuit, flow_failures>>
      BY <1>8 DEF L!Timeout
    <2>2. attempt[f] \in [at : FlowAts, tries : 0..Retries] BY DEF FlowInv
    <2> QED BY <2>1, <2>2, PlaceIsPassedOn DEF FlowInv
  <1>9. CASE UNCHANGED L!flow_vars BY <1>9 DEF L!flow_vars, FlowInv, FlowIs
  <1> QED BY <1>1, <1>2, <1>3, <1>4, <1>5, <1>6, <1>7, <1>8, <1>9 DEF L!FlowNext, L!Proceeds

LEMMA FlowImplies == FlowInv => L!FlowTypeOK /\ L!PlacesAreUsed
  <1> SUFFICES ASSUME FlowInv PROVE L!FlowTypeOK /\ L!PlacesAreUsed OBVIOUS
  <1>1. L!FlowTypeOK BY DEF FlowInv, L!FlowTypeOK
  <1>2. L!PlacesAreUsed
    <2>1. active = Cardinality({f \in Flows : flow[f] = "running"}) BY DEF FlowInv, FlowIs
    <2>2. {f \in Flows : flow[f] = "pending"}
            = {pending_operations[i] : i \in 1..Len(pending_operations)} BY DEF FlowInv, FlowIs, Members
    <2>3. pending_operations # <<>> => active = Limit BY DEF FlowInv
    <2>4. active = L!Cardinality({f \in Flows : flow[f] = "running"}) BY <2>1, CountsAlike, Zenon
    <2> QED BY <2>2, <2>3, <2>4, Zenon DEF L!PlacesAreUsed
  <1> QED BY <1>1, <1>2

-----------------------------------------------------------------------------
(* timeout_handler.js.                                                     *)
LEMMA OperationLimit == IsFiniteSet(Operations) /\ MaxOperations \in Nat /\ RetryCount \in Nat
  BY LimitsAssumption

LEMMA OperationsCount ==
  ASSUME NEW f, NEW s
  PROVE  IsFiniteSet(Doing(f, s)) /\ Cardinality(Doing(f, s)) \in Nat
         /\ Doing(f, s) \in SUBSET Operations
         /\ (Cardinality(Doing(f, s)) = 0 <=> Doing(f, s) = {})
  <1>1. Doing(f, s) \in SUBSET Operations BY DEF Doing
  <1> QED BY <1>1, OperationLimit, CountsOf, NoneCounts

LEMMA OperationMoves ==
  ASSUME NEW f \in [Operations -> OperationStates], NEW o \in Operations,
         NEW r, f[o] = r, NEW t \in OperationStates, t # r,
         NEW g, g = [f EXCEPT ![o] = t]
  PROVE  Moved(f, o, r, t, g)
  <1>1. g \in [Operations -> OperationStates] /\ g[o] = t
        /\ \A p \in Operations \ {o} : g[p] = f[p]
    OBVIOUS
  <1>2. ASSUME NEW s, s # t, s # r PROVE Doing(g, s) = Doing(f, s) BY <1>1, <1>2 DEF Doing
  <1>3. Doing(g, t) = Doing(f, t) \cup {o} /\ o \notin Doing(f, t) BY <1>1 DEF Doing
  <1>4. Doing(g, r) = Doing(f, r) \ {o} /\ o \in Doing(f, r) BY <1>1 DEF Doing
  <1>5. Doing(f, r) = Doing(g, r) \cup {o} /\ o \notin Doing(g, r) BY <1>4
  <1>6. \A h, s : Doing(h, s) \in SUBSET Operations BY OperationsCount
  <1>a. /\ Doing(f, t) \in SUBSET Operations /\ Doing(g, t) \in SUBSET Operations
        /\ Doing(f, r) \in SUBSET Operations /\ Doing(g, r) \in SUBSET Operations BY <1>6
  <1>7. Cardinality(Doing(g, t)) = Cardinality(Doing(f, t)) + 1
    BY <1>3, <1>a, OperationLimit, CountsOneMore
  <1>8. Cardinality(Doing(f, r)) = Cardinality(Doing(g, r)) + 1
    BY <1>5, <1>a, OperationLimit, CountsOneMore
  <1> QED BY <1>1, <1>2, <1>3, <1>4, <1>7, <1>8 DEF Moved

LEMMA HandlerStarts == L!HandlerInit => HandlerInv
  <1> SUFFICES ASSUME L!HandlerInit PROVE HandlerInv OBVIOUS
  <1> USE OperationLimit
  <1>1. /\ operation = [o \in Operations |-> "new"] /\ operation_tries = [o \in Operations |-> 0]
        /\ active_operations = 0 /\ waiting = <<>> /\ down = "no"
        /\ metrics = [total |-> 0, success |-> 0, failed |-> 0] /\ hooked = {} /\ twice = 0
    BY DEF L!HandlerInit
  <1>2. Doing(operation, "queued") = {} /\ Doing(operation, "running") = {} /\ Doing(operation, "failed") = {}
    BY <1>1 DEF Doing
  <1>3. Cardinality(Doing(operation, "running")) = 0 /\ Cardinality(Doing(operation, "failed")) = 0
        /\ Cardinality(hooked) = 0 BY <1>1, <1>2, OperationsCount
  <1>4. operation \in [Operations -> OperationStates] /\ operation_tries \in [Operations -> 0..RetryCount + 1]
    BY <1>1 DEF OperationStates
  <1>5. metrics \in [total : Nat, success : Nat, failed : Nat]
        /\ metrics.total = 0 /\ metrics.success = 0 /\ metrics.failed = 0 BY <1>1
  <1>6. waiting \in Seq(Operations) /\ Distinct(waiting) /\ Members(waiting) = {} BY <1>1, EmptyQueue
  <1>7. HandlerTypes BY <1>1, <1>4, <1>5, <1>6 DEF HandlerTypes
  <1>8. HandlerQueue /\ HandlerCounts /\ HandlerWakes
    <2>1. HandlerQueue BY <1>2, <1>6 DEF HandlerQueue
    <2>2. HandlerCounts BY <1>1, <1>3, <1>5 DEF HandlerCounts
    <2>3. HandlerWakes BY <1>2 DEF HandlerWakes
    <2> QED BY <2>1, <2>2, <2>3
  <1> QED BY <1>7, <1>8 DEF HandlerInv

(* An operation that goes to "running" is counted.                         *)
LEMMA OperationEnters ==
  ASSUME HandlerInv, NEW o \in Operations, operation[o] \in {"new", "woken"}, L!Enters(o),
         UNCHANGED <<waiting, down>>,
         operation[o] = "new" => active_operations < MaxOperations
  PROVE  HandlerInv'
  <1> USE OperationLimit
  <1>1. /\ operation' = [operation EXCEPT ![o] = "running"]
        /\ operation_tries' = [operation_tries EXCEPT ![o] = 1]
        /\ active_operations' = active_operations + 1
        /\ metrics' = [metrics EXCEPT !.total = metrics.total + 1] /\ UNCHANGED <<hooked, twice>>
    BY DEF L!Enters
  <1>2. operation_tries' \in [Operations -> 0..RetryCount + 1] BY <1>1 DEF HandlerInv, HandlerTypes
  <1>3. metrics' \in [total : Nat, success : Nat, failed : Nat] /\ metrics'.total = metrics.total + 1
        /\ metrics'.success = metrics.success /\ metrics'.failed = metrics.failed
    <2>1. metrics \in [total : Nat, success : Nat, failed : Nat] BY DEF HandlerInv, HandlerTypes
    <2> QED BY <1>1, <2>1
  <1>4. operation \in [Operations -> OperationStates] /\ "running" \in OperationStates
    BY DEF HandlerInv, HandlerTypes, OperationStates
  <1>n. active_operations \in Nat BY OperationsCount DEF HandlerInv, HandlerCounts
  <1>h. /\ metrics.total \in Nat /\ metrics.success \in Nat /\ metrics.failed \in Nat
        /\ twice \in Nat /\ Cardinality(hooked) \in Nat
        /\ hooked' \subseteq Doing(operation', "running")
    <2>1. hooked \subseteq Doing(operation, "running") BY DEF HandlerInv, HandlerTypes
    <2>2. Doing(operation, "running") \subseteq Doing(operation', "running") BY <1>1, <1>4 DEF Doing
    <2>3. hooked \in SUBSET Operations BY <2>1 DEF Doing
    <2> QED BY <1>1, <2>1, <2>2, <2>3, OperationLimit, CountsOf DEF HandlerInv, HandlerTypes
  <1>5. CASE operation[o] = "woken"
    <2>1. /\ operation' \in [Operations -> OperationStates]
          /\ Doing(operation', "failed") = Doing(operation, "failed") /\ Doing(operation', "queued") = Doing(operation, "queued")
          /\ Cardinality(Doing(operation', "running")) = Cardinality(Doing(operation, "running")) + 1
          /\ Cardinality(Doing(operation, "woken")) = Cardinality(Doing(operation', "woken")) + 1
      <3>1. Moved(operation, o, "woken", "running", operation') BY <1>1, <1>4, <1>5, OperationMoves
      <3> QED BY <3>1 DEF Moved
    <2>2. Cardinality(Doing(operation', "woken")) \in Nat /\ Cardinality(Doing(operation, "running")) \in Nat
          /\ Cardinality(Doing(operation, "failed")) \in Nat BY <2>1, OperationsCount
    <2> QED
      <3>1. HandlerTypes' BY <1>1, <1>2, <1>3, <1>h, <2>1, <2>2 DEF HandlerInv, HandlerTypes
      <3>2. HandlerQueue' BY <1>1, <1>2, <1>3, <2>1, <2>2 DEF HandlerInv, HandlerQueue
      <3>3. HandlerCounts'
        <4>1. Cardinality(Doing(operation', "failed")) = Cardinality(Doing(operation, "failed")) BY <2>1
        <4>2. metrics'.total + twice' + Cardinality(hooked')
                = metrics'.success + metrics'.failed + Cardinality(Doing(operation', "running"))
          BY <1>1, <1>3, <1>h, <2>1, <2>2 DEF HandlerInv, HandlerCounts
        <4> QED BY <1>1, <1>3, <2>1, <2>2, <4>1, <4>2 DEF HandlerInv, HandlerCounts
      <3>4. HandlerWakes'
        <4>1. active_operations + Cardinality(Doing(operation, "woken"))
                = active_operations' + Cardinality(Doing(operation', "woken")) BY <1>1, <1>n, <2>1, <2>2
        <4> QED BY <2>1, <4>1, Zenon DEF HandlerInv, HandlerWakes
      <3> QED BY <3>1, <3>2, <3>3, <3>4 DEF HandlerInv
  <1>6. CASE operation[o] = "new"
    <2>1. /\ operation' \in [Operations -> OperationStates]
          /\ Doing(operation', "failed") = Doing(operation, "failed") /\ Doing(operation', "queued") = Doing(operation, "queued")
          /\ Doing(operation', "woken") = Doing(operation, "woken")
          /\ Cardinality(Doing(operation', "running")) = Cardinality(Doing(operation, "running")) + 1
      <3>1. Moved(operation, o, "new", "running", operation') BY <1>1, <1>4, <1>6, OperationMoves
      <3> QED BY <3>1 DEF Moved
    <2>2. Cardinality(Doing(operation, "woken")) \in Nat /\ Cardinality(Doing(operation, "running")) \in Nat
          /\ Cardinality(Doing(operation, "failed")) \in Nat BY OperationsCount
    <2> QED
      <3>1. HandlerTypes' BY <1>1, <1>2, <1>3, <1>h, <2>1, <2>2 DEF HandlerInv, HandlerTypes
      <3>2. HandlerQueue' BY <1>1, <1>2, <1>3, <2>1, <2>2 DEF HandlerInv, HandlerQueue
      <3>3. HandlerCounts'
        <4>1. Cardinality(Doing(operation', "failed")) = Cardinality(Doing(operation, "failed")) BY <2>1
        <4>2. metrics'.total + twice' + Cardinality(hooked')
                = metrics'.success + metrics'.failed + Cardinality(Doing(operation', "running"))
          BY <1>1, <1>3, <1>h, <2>1, <2>2 DEF HandlerInv, HandlerCounts
        <4> QED BY <1>1, <1>3, <2>1, <2>2, <4>1, <4>2 DEF HandlerInv, HandlerCounts
      <3>4. HandlerWakes'
        <4>1. active_operations + Cardinality(Doing(operation, "woken")) >= MaxOperations
              => active_operations' + Cardinality(Doing(operation', "woken")) >= MaxOperations
          BY <1>1, <1>n, <2>1, <2>2
        <4> QED BY <2>1, <4>1, Zenon DEF HandlerInv, HandlerWakes
      <3> QED BY <3>1, <3>2, <3>3, <3>4 DEF HandlerInv
  <1> QED BY <1>5, <1>6

LEMMA HandlerKeeps == HandlerInv /\ [L!HandlerNext]_(L!handler_vars) => HandlerInv'
  <1> SUFFICES ASSUME HandlerInv, [L!HandlerNext]_(L!handler_vars) PROVE HandlerInv' OBVIOUS
  <1> USE OperationLimit
  <1>t. operation \in [Operations -> OperationStates]
        /\ {"queued", "woken", "running", "failed", "done", "forgotten"} \subseteq OperationStates
    BY DEF HandlerInv, HandlerTypes, OperationStates
  <1>n. /\ Cardinality(Doing(operation, "running")) \in Nat /\ Cardinality(Doing(operation, "failed")) \in Nat
        /\ Cardinality(Doing(operation, "woken")) \in Nat /\ active_operations \in Nat
    BY OperationsCount DEF HandlerInv, HandlerCounts
  <1>m. /\ metrics.total \in Nat /\ metrics.success \in Nat /\ metrics.failed \in Nat /\ twice \in Nat
        /\ hooked \subseteq Doing(operation, "running") /\ hooked \in SUBSET Operations
    BY DEF HandlerInv, HandlerTypes, Doing
  <1>h. IsFiniteSet(hooked) /\ Cardinality(hooked) \in Nat BY <1>m, OperationLimit, CountsOf
  <1>1. ASSUME NEW o \in Operations, L!Run(o) PROVE HandlerInv'
    <2>1. CASE active_operations < MaxOperations BY <1>1, <2>1, OperationEnters DEF L!Run
    <2>2. CASE ~(active_operations < MaxOperations)
      <3>1. /\ operation[o] = "new" /\ operation' = [operation EXCEPT ![o] = "queued"]
            /\ waiting' = Append(waiting, o)
            /\ UNCHANGED <<operation_tries, active_operations, metrics, hooked, twice, down>>
        BY <1>1, <2>2 DEF L!Run
      <3>2. /\ operation' \in [Operations -> OperationStates]
            /\ Doing(operation', "failed") = Doing(operation, "failed") /\ Doing(operation', "running") = Doing(operation, "running")
            /\ Doing(operation', "woken") = Doing(operation, "woken") /\ Doing(operation', "queued") = Doing(operation, "queued") \cup {o}
        <4>1. Moved(operation, o, "new", "queued", operation') BY <1>t, <3>1, OperationMoves
        <4> QED BY <4>1 DEF Moved
      <3>3. o \notin Members(waiting) /\ waiting \in Seq(Operations)
        BY <3>1 DEF HandlerInv, HandlerTypes, HandlerQueue, Doing
      <3>4. /\ waiting' \in Seq(Operations) /\ Distinct(waiting')
            /\ Members(waiting') = Members(waiting) \cup {o}
        BY <3>1, <3>3, QueueGrows DEF HandlerInv, HandlerQueue
      <3> QED
        <4>1. HandlerTypes' BY <1>n, <2>2, <3>1, <3>2, <3>4 DEF HandlerInv, HandlerTypes
        <4>2. HandlerQueue' BY <1>n, <2>2, <3>1, <3>2, <3>4 DEF HandlerInv, HandlerQueue
        <4>3. HandlerCounts' BY <1>n, <2>2, <3>1, <3>2, <3>4 DEF HandlerInv, HandlerCounts
        <4>4. HandlerWakes' BY <1>n, <2>2, <3>1, <3>2, <3>4 DEF HandlerInv, HandlerWakes
        <4> QED BY <4>1, <4>2, <4>3, <4>4 DEF HandlerInv
    <2> QED BY <2>1, <2>2
  <1>2. ASSUME NEW o \in Operations, L!Woken(o) PROVE HandlerInv' BY <1>2, OperationEnters DEF L!Woken
  <1>9. ASSUME NEW o \in Operations, L!HandlerSucceeds(o) PROVE HandlerInv'
    <2>1. /\ operation[o] = "running" /\ o \notin hooked /\ hooked' = hooked \cup {o}
          /\ metrics' = [metrics EXCEPT !.success = metrics.success + 1]
          /\ UNCHANGED <<operation, operation_tries, active_operations, waiting, twice, down>>
      BY <1>9 DEF L!HandlerSucceeds
    <2>2. metrics' \in [total : Nat, success : Nat, failed : Nat] /\ metrics'.total = metrics.total
          /\ metrics'.success = metrics.success + 1 /\ metrics'.failed = metrics.failed
      BY <2>1 DEF HandlerInv, HandlerTypes
    <2>3. hooked' \subseteq Doing(operation, "running") /\ hooked' \in SUBSET Operations
      BY <1>m, <2>1 DEF Doing
    <2>4. Cardinality(hooked') = Cardinality(hooked) + 1
      BY <1>m, <2>1, <2>3, OperationLimit, CountsOneMore
    <2>5. HandlerTypes' BY <2>1, <2>2, <2>3 DEF HandlerInv, HandlerTypes, Doing
    <2>6. HandlerQueue' BY <2>1 DEF HandlerInv, HandlerQueue, Doing
    <2>7. HandlerCounts' BY <1>n, <1>m, <1>h, <2>1, <2>2, <2>4 DEF HandlerInv, HandlerCounts, Doing
    <2>8. HandlerWakes' BY <2>1 DEF HandlerInv, HandlerWakes, Doing
    <2> QED BY <2>5, <2>6, <2>7, <2>8 DEF HandlerInv
  <1>u. ASSUME NEW o \in Operations, hooked' = hooked \ {o},
               twice' = IF o \in hooked THEN twice + 1 ELSE twice
        PROVE  twice' \in Nat /\ Cardinality(hooked') \in Nat
               /\ twice' + Cardinality(hooked') = twice + Cardinality(hooked)
    <2>1. hooked' \in SUBSET Operations BY <1>m, <1>u
    <2>2. Cardinality(hooked') \in Nat BY <2>1, OperationLimit, CountsOf
    <2>3. CASE o \in hooked
      <3>1. Cardinality(hooked) = Cardinality(hooked') + 1
        BY <1>m, <1>u, <2>1, <2>3, OperationLimit, CountsOneMore
      <3> QED BY <1>m, <1>u, <2>2, <2>3, <3>1
    <2>4. CASE o \notin hooked
      <3>1. hooked' = hooked BY <1>u, <2>4
      <3> QED BY <1>m, <1>u, <1>h, <2>4, <3>1
    <2> QED BY <2>3, <2>4
  <1>3. ASSUME NEW o \in Operations, L!HandlerEnds(o) PROVE HandlerInv'
    <2>1. /\ operation[o] = "running" /\ active_operations' = active_operations - 1
          /\ o \in hooked /\ hooked' = hooked \ {o}
          /\ UNCHANGED <<operation_tries, metrics, twice, down>> BY <1>3, <1>m DEF L!HandlerEnds, Doing
    <2>2. /\ Cardinality(hooked) = Cardinality(hooked') + 1 /\ Cardinality(hooked') \in Nat
      BY <1>m, <2>1, OperationLimit, CountsOf, CountsOneMore
    <2>3. CASE waiting # <<>> /\ active_operations - 1 < MaxOperations
      <3> DEFINE h == Head(waiting)
      <3>1. /\ operation' = [operation EXCEPT ![o] = "done", ![h] = "woken"]
            /\ waiting' = Tail(waiting) BY <1>3, <2>3, Zenon DEF L!HandlerEnds
      <3>2. /\ h \in Operations /\ h \in Members(waiting)
            /\ waiting' \in Seq(Operations) /\ Distinct(waiting')
            /\ h \notin Members(waiting')
            /\ Members(waiting) = Members(waiting') \cup {h}
        BY <2>3, <3>1, QueueShrinks DEF HandlerInv, HandlerTypes, HandlerQueue
      <3>3. operation[h] = "queued" /\ h # o BY <2>1, <3>2 DEF HandlerInv, HandlerQueue, Doing
      <3> HIDE DEF h
      <3>4. /\ operation' \in [Operations -> OperationStates]
            /\ operation'[o] = "done" /\ operation'[h] = "woken"
            /\ \A y \in Operations \ {o, h} : operation'[y] = operation[y] BY <1>t, <3>1, <3>2, <3>3
      <3>5. /\ Doing(operation', "queued") = Members(waiting') /\ Doing(operation', "failed") = Doing(operation, "failed")
            /\ Doing(operation, "running") = Doing(operation', "running") \cup {o} /\ o \notin Doing(operation', "running")
            /\ Doing(operation', "woken") = Doing(operation, "woken") \cup {h} /\ h \notin Doing(operation, "woken")
        BY <2>1, <3>2, <3>3, <3>4 DEF HandlerInv, HandlerQueue, Doing
      <3>6. Doing(operation', "running") \in SUBSET Operations /\ Doing(operation', "woken") \in SUBSET Operations
        BY DEF Doing
      <3>7. Cardinality(Doing(operation, "running")) = Cardinality(Doing(operation', "running")) + 1
        BY <3>5, <3>6, OperationsCount, CountsOneMore
      <3>8. Cardinality(Doing(operation', "woken")) = Cardinality(Doing(operation, "woken")) + 1
        BY <3>2, <3>5, <3>6, OperationsCount, CountsOneMore
      <3>9. Cardinality(Doing(operation', "running")) \in Nat BY <3>6, CountsOf
      <3>10. Doing(operation', "queued") # {} =>
               active_operations' + Cardinality(Doing(operation', "woken")) >= MaxOperations
        <4>1. Doing(operation, "queued") # {} BY <3>2 DEF HandlerInv, HandlerQueue
        <4> QED BY <1>n, <2>1, <3>8, <4>1 DEF HandlerInv, HandlerWakes
      <3> QED
        <4>1. HandlerTypes'
          BY <1>n, <2>1, <1>m, <3>2, <3>4, <3>5, <3>7, <3>9, <3>10 DEF HandlerInv, HandlerTypes
        <4>2. HandlerQueue'
          BY <1>n, <2>1, <2>2, <3>2, <3>4, <3>5, <3>7, <3>9, <3>10 DEF HandlerInv, HandlerQueue
        <4>3. HandlerCounts'
          BY <1>n, <1>m, <1>h, <2>1, <2>2, <3>5, <3>7, <3>9 DEF HandlerInv, HandlerCounts
        <4>4. HandlerWakes'
          BY <1>n, <2>1, <2>2, <3>2, <3>4, <3>5, <3>7, <3>9, <3>10 DEF HandlerInv, HandlerWakes
        <4> QED BY <4>1, <4>2, <4>3, <4>4 DEF HandlerInv
    <2>4. CASE ~(waiting # <<>> /\ active_operations - 1 < MaxOperations)
      <3>1. operation' = [operation EXCEPT ![o] = "done"] /\ UNCHANGED waiting
        BY <1>3, <2>4 DEF L!HandlerEnds
      <3>2. /\ operation' \in [Operations -> OperationStates]
            /\ Doing(operation', "failed") = Doing(operation, "failed") /\ Doing(operation', "queued") = Doing(operation, "queued")
            /\ Doing(operation', "woken") = Doing(operation, "woken") /\ Doing(operation', "running") = Doing(operation, "running") \ {o}
            /\ Cardinality(Doing(operation, "running")) = Cardinality(Doing(operation', "running")) + 1
        <4>1. Moved(operation, o, "running", "done", operation') BY <1>t, <2>1, <3>1, OperationMoves
        <4> QED BY <4>1 DEF Moved
      <3>3. Cardinality(Doing(operation', "running")) \in Nat
        BY <3>2, OperationsCount, FS_Subset, FS_CardinalityType
      <3>4. Doing(operation, "queued") # {} => active_operations - 1 >= MaxOperations
        BY <2>4, <1>n, EmptyQueue DEF HandlerInv, HandlerQueue
      <3> QED
        <4>1. HandlerTypes' BY <1>n, <1>m, <2>1, <3>1, <3>2, <3>3, <3>4 DEF HandlerInv, HandlerTypes
        <4>2. HandlerQueue' BY <1>n, <2>1, <2>2, <3>1, <3>2, <3>3, <3>4 DEF HandlerInv, HandlerQueue
        <4>3. HandlerCounts' BY <1>n, <1>m, <1>h, <2>1, <2>2, <3>2, <3>3 DEF HandlerInv, HandlerCounts
        <4>4. HandlerWakes' BY <1>n, <2>1, <3>2, <3>4, OperationLimit DEF HandlerWakes
        <4> QED BY <4>1, <4>2, <4>3, <4>4 DEF HandlerInv
    <2> QED BY <2>3, <2>4
  <1>4. ASSUME NEW o \in Operations, L!RetryTimeout(o) PROVE HandlerInv'
    <2>1. /\ operation_tries[o] <= RetryCount
          /\ operation_tries' = [operation_tries EXCEPT ![o] = operation_tries[o] + 1]
          /\ hooked' = hooked \ {o} /\ twice' = IF o \in hooked THEN twice + 1 ELSE twice
          /\ UNCHANGED <<operation, active_operations, waiting, metrics, down>>
      BY <1>4 DEF L!RetryTimeout, L!Unhooked
    <2>2. operation_tries' \in [Operations -> 0..RetryCount + 1] BY <2>1 DEF HandlerInv, HandlerTypes
    <2>3. twice' \in Nat /\ Cardinality(hooked') \in Nat
          /\ twice' + Cardinality(hooked') = twice + Cardinality(hooked) BY <1>u, <2>1
    <2>4. HandlerTypes' BY <1>m, <2>1, <2>2, <2>3 DEF HandlerInv, HandlerTypes, Doing
    <2>5. HandlerQueue' BY <2>1 DEF HandlerInv, HandlerQueue, Doing
    <2>6. HandlerCounts' BY <1>n, <1>m, <1>h, <2>1, <2>3 DEF HandlerInv, HandlerCounts, Doing
    <2>7. HandlerWakes' BY <2>1 DEF HandlerInv, HandlerWakes, Doing
    <2> QED BY <2>4, <2>5, <2>6, <2>7 DEF HandlerInv
  <1>5. ASSUME NEW o \in Operations, L!Fails(o) PROVE HandlerInv'
    <2>1. /\ operation[o] = "running" /\ operation' = [operation EXCEPT ![o] = "failed"]
          /\ metrics' = [metrics EXCEPT !.failed = metrics.failed + 1]
          /\ hooked' = hooked \ {o} /\ twice' = IF o \in hooked THEN twice + 1 ELSE twice
          /\ UNCHANGED <<operation_tries, active_operations, waiting, down>>
      BY <1>5 DEF L!Fails, L!Unhooked
    <2>h. twice' \in Nat /\ Cardinality(hooked') \in Nat
          /\ twice' + Cardinality(hooked') = twice + Cardinality(hooked) BY <1>u, <2>1
    <2>2. metrics' \in [total : Nat, success : Nat, failed : Nat] /\ metrics'.total = metrics.total
          /\ metrics'.success = metrics.success /\ metrics'.failed = metrics.failed + 1
      <3>1. metrics \in [total : Nat, success : Nat, failed : Nat] BY DEF HandlerInv, HandlerTypes
      <3> QED BY <2>1, <3>1
    <2>3. /\ operation' \in [Operations -> OperationStates]
          /\ Doing(operation', "queued") = Doing(operation, "queued") /\ Doing(operation', "woken") = Doing(operation, "woken")
          /\ Cardinality(Doing(operation', "failed")) = Cardinality(Doing(operation, "failed")) + 1
          /\ Cardinality(Doing(operation, "running")) = Cardinality(Doing(operation', "running")) + 1
          /\ Doing(operation', "running") = Doing(operation, "running") \ {o}
      <3>1. Moved(operation, o, "running", "failed", operation') BY <1>t, <2>1, OperationMoves
      <3> QED BY <3>1 DEF Moved
    <2>4. Cardinality(Doing(operation', "running")) \in Nat
      BY <2>3, OperationsCount, FS_Subset, FS_CardinalityType
    <2> QED
      <3>1. HandlerTypes' BY <1>m, <1>n, <2>1, <2>2, <2>3, <2>4, <2>h DEF HandlerInv, HandlerTypes
      <3>2. HandlerQueue' BY <1>n, <2>1, <2>2, <2>3, <2>4 DEF HandlerInv, HandlerQueue
      <3>3. HandlerCounts'
        <4>1. active_operations' = Cardinality(Doing(operation', "running")) + Cardinality(Doing(operation', "failed"))
          BY <1>n, <2>1, <2>3, <2>4 DEF HandlerInv, HandlerCounts
        <4>2. metrics'.failed = Cardinality(Doing(operation', "failed"))
          BY <1>n, <2>2, <2>3 DEF HandlerInv, HandlerCounts
        <4>3. metrics'.total + twice' + Cardinality(hooked')
                = metrics'.success + metrics'.failed + Cardinality(Doing(operation', "running"))
          BY <1>n, <1>m, <1>h, <2>2, <2>3, <2>4, <2>h DEF HandlerInv, HandlerCounts
        <4> QED BY <4>1, <4>2, <4>3 DEF HandlerCounts
      <3>4. HandlerWakes' BY <1>n, <2>1, <2>2, <2>3, <2>4 DEF HandlerInv, HandlerWakes
      <3> QED BY <3>1, <3>2, <3>3, <3>4 DEF HandlerInv
  <1>6. ASSUME L!Shutdown PROVE HandlerInv'
    <2>1. /\ waiting' = <<>> /\ down' = "waits"
          /\ operation' = [o \in Operations |-> IF operation[o] = "queued" THEN "forgotten" ELSE operation[o]]
          /\ UNCHANGED <<operation_tries, active_operations, metrics, hooked, twice>>
      BY <1>6 DEF L!Shutdown
    <2>2. operation' \in [Operations -> OperationStates] BY <1>t, <2>1
    <2>3. /\ Doing(operation', "queued") = {} /\ Doing(operation', "running") = Doing(operation, "running")
          /\ Doing(operation', "failed") = Doing(operation, "failed") BY <2>1 DEF Doing
    <2> QED
      <3>1. HandlerTypes'
        <4>1. waiting' \in Seq(Operations) BY <2>1, EmptyQueue
        <4>2. hooked' \subseteq Doing(operation', "running") BY <1>m, <2>1, <2>3
        <4>3. down' \in {"no", "waits", "done"} BY <2>1
        <4> QED BY <2>1, <2>2, <4>1, <4>2, <4>3, Zenon DEF HandlerInv, HandlerTypes
      <3>2. HandlerQueue' BY <2>1, <2>2, <2>3, EmptyQueue DEF HandlerInv, HandlerQueue
      <3>3. HandlerCounts' BY <2>1, <2>2, <2>3, EmptyQueue DEF HandlerInv, HandlerCounts
      <3>4. HandlerWakes' BY <2>1, <2>2, <2>3, EmptyQueue DEF HandlerInv, HandlerWakes
      <3> QED BY <3>1, <3>2, <3>3, <3>4 DEF HandlerInv
  <1>7. ASSUME L!ShutdownEnds PROVE HandlerInv'
    BY <1>7 DEF L!ShutdownEnds, HandlerInv, HandlerTypes, HandlerQueue, HandlerCounts, HandlerWakes, Doing
  <1>8. CASE UNCHANGED L!handler_vars
    BY <1>8 DEF L!handler_vars, HandlerInv, HandlerTypes, HandlerQueue, HandlerCounts, HandlerWakes, Doing
  <1> QED BY <1>1, <1>2, <1>3, <1>4, <1>5, <1>6, <1>7, <1>8, <1>9 DEF L!HandlerNext

LEMMA HandlerImplies == HandlerInv => L!HandlerTypeOK /\ L!PlacesAreAccounted
  <1> SUFFICES ASSUME HandlerInv PROVE L!HandlerTypeOK /\ L!PlacesAreAccounted OBVIOUS
  <1>n. /\ Cardinality(Doing(operation, "running")) \in Nat /\ Cardinality(Doing(operation, "failed")) \in Nat
        /\ Cardinality(Doing(operation, "woken")) \in Nat BY OperationsCount
  <1>1. active_operations \in 0..L!Cardinality(Operations)
    <2> DEFINE A == Doing(operation, "running")
               B == Doing(operation, "failed")
    <2>1. IsFiniteSet(A) /\ IsFiniteSet(B) /\ A \cap B = {} /\ A \cup B \in SUBSET Operations
      BY OperationsCount DEF Doing
    <2>2. Cardinality(A \cup B) = Cardinality(A) + Cardinality(B) - Cardinality(A \cap B)
      BY <2>1, FS_Union
    <2>3. Cardinality(A \cap B) = 0 BY <2>1, FS_EmptySet
    <2>4. Cardinality(A \cup B) \in Nat /\ Cardinality(A \cup B) <= Cardinality(Operations)
          /\ Cardinality(Operations) \in Nat BY <2>1, OperationLimit, CountsOf
    <2>5. active_operations = Cardinality(A) + Cardinality(B) BY DEF HandlerInv, HandlerCounts
    <2> HIDE DEF A, B
    <2>6. active_operations \in 0..Cardinality(Operations) BY <2>2, <2>3, <2>4, <2>5, <1>n DEF A, B
    <2> QED BY <2>6, CountsAlike
  <1>2. L!HandlerTypeOK BY <1>1 DEF HandlerInv, HandlerTypes, L!HandlerTypeOK
  <1>s. \A s : L!In(s) = Doing(operation, s) BY DEF L!In, Doing
  <1>3. L!Range(waiting) = Doing(operation, "queued") BY DEF L!Range, HandlerInv, HandlerQueue, Members
  <1>4. L!IsInjective(waiting) BY DEF L!IsInjective, HandlerInv, HandlerTypes, HandlerQueue, Distinct
  <1>5. Doing(operation, "queued") # {} =>
          Doing(operation, "running") \cup Doing(operation, "woken") # {} \/ Cardinality(Doing(operation, "failed")) >= MaxOperations
    BY <1>n, OperationsCount, OperationLimit DEF HandlerInv, HandlerCounts, HandlerWakes
  <1>6. L!PlacesAreAccounted
    <2>1. active_operations = L!Cardinality(Doing(operation, "running")) + L!Cardinality(Doing(operation, "failed"))
      BY CountsAlike DEF HandlerInv, HandlerCounts
    <2>2. /\ metrics.failed = L!Cardinality(Doing(operation, "failed"))
          /\ metrics.total + twice + L!Cardinality(hooked)
               = metrics.success + metrics.failed + L!Cardinality(Doing(operation, "running"))
          /\ hooked \subseteq Doing(operation, "running")
      BY CountsAlike, Zenon DEF HandlerInv, HandlerCounts, HandlerTypes
    <2>3. Doing(operation, "queued") # {} =>
            Doing(operation, "running") \cup Doing(operation, "woken") # {} \/ L!Cardinality(Doing(operation, "failed")) >= MaxOperations
      BY <1>5, CountsAlike
    <2> QED BY <1>3, <1>4, <1>s, <2>1, <2>2, <2>3 DEF L!PlacesAreAccounted
  <1> QED BY <1>2, <1>6

-----------------------------------------------------------------------------
(* timeout_watchdog.js.                                                    *)
LEMMA WatchdogStarts == L!WatchdogInit => WatchdogInv
  <1> SUFFICES ASSUME L!WatchdogInit PROVE WatchdogInv OBVIOUS
  <1>1. WatchIsTimed /\ WatchGoesOn BY LimitsAssumption DEF L!WatchdogInit, WatchIsTimed, WatchGoesOn
  <1>2. WatchIsOn BY DEF L!WatchdogInit, WatchIsOn
  <1> QED BY <1>1, <1>2 DEF WatchdogInv

LEMMA WatchdogKeeps == WatchdogInv /\ [L!WatchdogNext]_(L!watchdog_vars) => WatchdogInv'
  <1> SUFFICES ASSUME WatchdogInv, [L!WatchdogNext]_(L!watchdog_vars) PROVE WatchdogInv' OBVIOUS
  <1> TimeoutTicks \in Nat \ {0} BY LimitsAssumption
  <1>1. ASSUME L!Start PROVE WatchdogInv'
    <2>1. WatchIsTimed' BY <1>1 DEF L!Start, WatchdogInv, WatchIsTimed
    <2>2. WatchIsOn' BY <1>1 DEF L!Start, WatchdogInv, WatchIsOn
    <2>3. WatchGoesOn' BY <1>1 DEF L!Start, WatchdogInv, WatchIsTimed, WatchIsOn, WatchGoesOn
    <2> QED BY <2>1, <2>2, <2>3 DEF WatchdogInv
  <1>2. ASSUME L!Stop PROVE WatchdogInv'
    <2>1. WatchIsTimed' BY <1>2 DEF L!Stop, L!Stopping, WatchdogInv, WatchIsTimed
    <2>2. WatchIsOn' BY <1>2 DEF L!Stop, L!Stopping, WatchdogInv, WatchIsOn
    <2>3. WatchGoesOn' BY <1>2 DEF L!Stop, L!Stopping, WatchdogInv, WatchIsTimed, WatchIsOn, WatchGoesOn
    <2> QED BY <2>1, <2>2, <2>3 DEF WatchdogInv
  <1>3. ASSUME L!Clear PROVE WatchdogInv'
    <2>1. WatchIsTimed' BY <1>3 DEF L!Clear, L!Stopping, WatchdogInv, WatchIsTimed
    <2>2. WatchIsOn' BY <1>3 DEF L!Clear, L!Stopping, WatchdogInv, WatchIsOn
    <2>3. WatchGoesOn' BY <1>3 DEF L!Clear, L!Stopping, WatchdogInv, WatchIsTimed, WatchIsOn, WatchGoesOn
    <2> QED BY <2>1, <2>2, <2>3 DEF WatchdogInv
  <1>4. ASSUME L!Tick PROVE WatchdogInv'
    <2>1. WatchIsTimed' BY <1>4 DEF L!Tick, WatchdogInv, WatchIsTimed
    <2>2. WatchIsOn' BY <1>4 DEF L!Tick, WatchdogInv, WatchIsOn
    <2>3. WatchGoesOn' BY <1>4 DEF L!Tick, WatchdogInv, WatchIsTimed, WatchIsOn, WatchGoesOn
    <2> QED BY <2>1, <2>2, <2>3 DEF WatchdogInv
  <1>5. ASSUME L!TickEnds PROVE WatchdogInv'
    <2>1. WatchIsTimed' BY <1>5 DEF L!TickEnds, L!Stopping, WatchdogInv, WatchIsTimed
    <2>2. WatchIsOn' BY <1>5 DEF L!TickEnds, L!Stopping, WatchdogInv, WatchIsOn
    <2>3. WatchGoesOn'
      BY <1>5 DEF L!TickEnds, L!Stopping, WatchdogInv, WatchIsTimed, WatchIsOn, WatchGoesOn
    <2> QED BY <2>1, <2>2, <2>3 DEF WatchdogInv
  <1>6. CASE UNCHANGED L!watchdog_vars
    BY <1>6 DEF L!watchdog_vars, WatchdogInv, WatchIsTimed, WatchIsOn, WatchGoesOn
  <1> QED BY <1>1, <1>2, <1>3, <1>4, <1>5, <1>6 DEF L!WatchdogNext

LEMMA WatchdogImplies == WatchdogInv => L!WatchdogTypeOK /\ L!WatchEnds
  BY LimitsAssumption DEF WatchdogInv, WatchIsTimed, WatchIsOn, WatchGoesOn, L!WatchdogTypeOK, L!WatchEnds

-----------------------------------------------------------------------------
(* reconnect.js.                                                           *)
LEMMA StartLimits ==
  IsFiniteSet(Starts) /\ MaxTries \in Nat \ {0} /\ Nothing \notin Starts
  BY LimitsAssumption, NothingAssumption

LEMMA FailedStartsCount ==
  /\ Cardinality(FailedStarts) \in Nat /\ Cardinality(FailedStarts) <= Cardinality(Starts)
  /\ Cardinality(Starts) \in Nat BY StartLimits, CountsOf DEF FailedStarts

LEMMA ManagerStarts == E!ManagerInit => ManagerInv
  <1> SUFFICES ASSUME E!ManagerInit PROVE ManagerInv OBVIOUS
  <1>1. ManagerTypes BY DEF E!ManagerInit, ManagerTypes, StartStates
  <1>2. TriesAreBounded BY StartLimits, FailedStartsCount DEF E!ManagerInit, TriesAreBounded
  <1>3. ATimerWaits BY DEF E!ManagerInit, ATimerWaits
  <1> QED BY <1>1, <1>2, <1>3 DEF ManagerInv

(* A loop that goes on to a state keeps the others in theirs.              *)
LEMMA ALoopMoves ==
  ASSUME ManagerInv, NEW k \in Starts, NEW s \in StartStates,
         start' = [start EXCEPT ![k] = s], start[k] # "failed"
  PROVE  /\ start' \in [Starts -> StartStates] /\ start'[k] = s
         /\ \A j \in Starts \ {k} : start'[j] = start[j]
         /\ s # "failed" => FailedStarts' = FailedStarts
         /\ s = "failed" => Cardinality(FailedStarts') = Cardinality(FailedStarts) + 1
  <1>1. /\ start' \in [Starts -> StartStates] /\ start'[k] = s
        /\ \A j \in Starts \ {k} : start'[j] = start[j] BY DEF ManagerInv, ManagerTypes
  <1>2. ASSUME s # "failed" PROVE FailedStarts' = FailedStarts BY <1>1, <1>2 DEF FailedStarts
  <1>3. ASSUME s = "failed" PROVE Cardinality(FailedStarts') = Cardinality(FailedStarts) + 1
    <2>1. /\ FailedStarts \in SUBSET Starts /\ FailedStarts' \in SUBSET Starts
          /\ k \notin FailedStarts /\ FailedStarts' = FailedStarts \cup {k} BY <1>1, <1>3 DEF FailedStarts
    <2> QED BY <2>1, StartLimits, CountsOneMore
  <1> QED BY <1>1, <1>2, <1>3

(* #try_reconnect of a loop, with n tries made.                            *)
LEMMA ALoopTries ==
  ASSUME ManagerInv, NEW k \in Starts, NEW n \in Nat, NEW isStopped \in BOOLEAN,
         start[k] \in {"idle", "waiting"}, E!TryReconnect(k, n, isStopped),
         n <= MaxTries + Cardinality(FailedStarts)
  PROVE  /\ tries' \in Nat /\ TriesAreBounded'
         /\ start' \in [Starts -> StartStates]
         /\ start'[k] \notin {"idle", "waiting"}
         /\ \A j \in Starts \ {k} : start'[j] = start[j]
  <1> DEFINE s == E!Outcome(n, isStopped)
  <1>1. s \in {"stopped", "failed", "creating"} BY DEF E!Outcome
  <1>2. start' = [start EXCEPT ![k] = s] /\ start[k] # "failed"
        /\ tries' = (IF isStopped THEN n ELSE n + 1) BY DEF E!TryReconnect
  <1>3. /\ isStopped => s = "stopped"
        /\ ~isStopped /\ s # "failed" => n + 1 <= MaxTries BY StartLimits DEF E!Outcome
  <1> HIDE DEF s
  <1>4. s \in StartStates BY <1>1 DEF StartStates
  <1>5. /\ start' \in [Starts -> StartStates] /\ start'[k] = s
        /\ \A j \in Starts \ {k} : start'[j] = start[j]
        /\ s # "failed" => FailedStarts' = FailedStarts
        /\ s = "failed" => Cardinality(FailedStarts') = Cardinality(FailedStarts) + 1
    BY <1>2, <1>4, ALoopMoves
  <1>7. TriesAreBounded' /\ tries' \in Nat
    <2>1. CASE isStopped BY <1>2, <1>3, <1>5, <2>1 DEF TriesAreBounded
    <2>2. CASE ~isStopped /\ s # "failed"
      BY <1>2, <1>3, <1>5, <2>2, StartLimits, FailedStartsCount DEF TriesAreBounded
    <2>3. CASE ~isStopped /\ s = "failed"
      BY <1>2, <1>5, <2>3, StartLimits, FailedStartsCount DEF TriesAreBounded
    <2> QED BY <2>1, <2>2, <2>3
  <1> QED BY <1>1, <1>5, <1>7

LEMMA ManagerKeeps == ManagerInv /\ [E!ManagerNext]_(E!manager_vars) => ManagerInv'
  <1> SUFFICES ASSUME ManagerInv, [E!ManagerNext]_(E!manager_vars) PROVE ManagerInv' OBVIOUS
  <1> USE StartLimits
  <1>1. ASSUME E!Stop PROVE ManagerInv'
    <2>1. /\ stopped' = TRUE /\ timerOf' = Nothing /\ UNCHANGED tries
          /\ start' = [k \in Starts |-> IF k = timerOf THEN "lost" ELSE start[k]] BY <1>1 DEF E!Stop
    <2>2. ManagerTypes' BY <2>1 DEF ManagerInv, ManagerTypes, StartStates
    <2>3. FailedStarts' = FailedStarts BY <2>1 DEF FailedStarts, ManagerInv, ATimerWaits
    <2>4. TriesAreBounded' BY <2>1, <2>3 DEF ManagerInv, TriesAreBounded
    <2>5. ATimerWaits' BY <2>1 DEF ManagerInv, ATimerWaits
    <2> QED BY <2>2, <2>4, <2>5 DEF ManagerInv
  <1>2. ASSUME NEW k \in Starts, E!Start(k) PROVE ManagerInv'
    <2>1. /\ start[k] = "idle" /\ stopped' = FALSE /\ timerOf' = timerOf
          /\ E!TryReconnect(k, 0, FALSE) BY <1>2 DEF E!Start
    <2>2. /\ tries' \in Nat /\ TriesAreBounded'
          /\ start' \in [Starts -> StartStates]
          /\ start'[k] \notin {"idle", "waiting"}
          /\ \A j \in Starts \ {k} : start'[j] = start[j]
      <3>1. 0 \in Nat /\ FALSE \in BOOLEAN /\ 0 <= MaxTries + Cardinality(FailedStarts)
            /\ start[k] \in {"idle", "waiting"} BY <2>1, FailedStartsCount
      <3> QED BY <2>1, <3>1, ALoopTries
    <2>3. ManagerTypes' BY <2>1, <2>2 DEF ManagerInv, ManagerTypes
    <2>4. ATimerWaits' BY <2>1, <2>2 DEF ManagerInv, ManagerTypes, ATimerWaits
    <2> QED BY <2>2, <2>3, <2>4 DEF ManagerInv
  <1>3. ASSUME NEW k \in Starts, E!Created(k) PROVE ManagerInv'
    <2>1. /\ start[k] = "creating" /\ start' = [start EXCEPT ![k] = "connected"]
          /\ tries' = 0 /\ timerOf' = Nothing /\ UNCHANGED stopped BY <1>3 DEF E!Created
    <2>2. /\ start' \in [Starts -> StartStates] /\ start'[k] = "connected"
          /\ \A j \in Starts \ {k} : start'[j] = start[j] BY <2>1, ALoopMoves DEF StartStates
    <2>3. ManagerTypes' BY <2>1, <2>2 DEF ManagerInv, ManagerTypes
    <2>4. TriesAreBounded'
      <3>1. Cardinality(FailedStarts') \in Nat BY CountsOf DEF FailedStarts
      <3> QED BY <2>1, <3>1 DEF TriesAreBounded
    <2>5. ATimerWaits' BY <2>1, <2>2 DEF ManagerInv, ATimerWaits
    <2> QED BY <2>3, <2>4, <2>5 DEF ManagerInv
  <1>4. ASSUME NEW k \in Starts, E!CreateFails(k) PROVE ManagerInv'
    <2> DEFINE s == IF stopped THEN "stopped" ELSE "waiting"
    <2>1. /\ start[k] = "creating" /\ start' = [start EXCEPT ![k] = s]
          /\ timerOf' = IF stopped THEN timerOf ELSE k
          /\ UNCHANGED <<tries, stopped>> BY <1>4 DEF E!CreateFails
    <2>2. s \in StartStates /\ s # "failed" BY DEF StartStates
    <2>3. (stopped => s = "stopped") /\ (~stopped => s = "waiting") OBVIOUS
    <2> HIDE DEF s
    <2>4. /\ start' \in [Starts -> StartStates] /\ start'[k] = s
          /\ \A j \in Starts \ {k} : start'[j] = start[j]
          /\ FailedStarts' = FailedStarts BY <2>1, <2>2, ALoopMoves
    <2>5. ManagerTypes' BY <2>1, <2>4 DEF ManagerInv, ManagerTypes
    <2>6. TriesAreBounded' BY <2>1, <2>4 DEF ManagerInv, TriesAreBounded
    <2>7. ATimerWaits' BY <2>1, <2>3, <2>4 DEF ManagerInv, ManagerTypes, ATimerWaits
    <2> QED BY <2>5, <2>6, <2>7 DEF ManagerInv
  <1>5. ASSUME NEW k \in Starts, E!WaitEnds(k) PROVE ManagerInv'
    <2>1. /\ start[k] = "waiting" /\ timerOf' = Nothing /\ UNCHANGED stopped
          /\ E!TryReconnect(k, tries, stopped) BY <1>5 DEF E!WaitEnds
    <2>2. tries \in Nat /\ stopped \in BOOLEAN /\ tries <= MaxTries + Cardinality(FailedStarts)
      BY DEF ManagerInv, ManagerTypes, TriesAreBounded
    <2>3. /\ tries' \in Nat /\ TriesAreBounded'
          /\ start' \in [Starts -> StartStates]
          /\ start'[k] \notin {"idle", "waiting"}
          /\ \A j \in Starts \ {k} : start'[j] = start[j] BY <2>1, <2>2, ALoopTries
    <2>4. ManagerTypes' BY <2>1, <2>3 DEF ManagerInv, ManagerTypes
    <2>5. ATimerWaits' BY <2>1, <2>3 DEF ManagerInv, ManagerTypes, ATimerWaits
    <2> QED BY <2>3, <2>4, <2>5 DEF ManagerInv
  <1>6. CASE UNCHANGED E!manager_vars
    BY <1>6 DEF E!manager_vars, ManagerInv, ManagerTypes, TriesAreBounded, ATimerWaits, FailedStarts
  <1> QED BY <1>1, <1>2, <1>3, <1>4, <1>5, <1>6 DEF E!ManagerNext

LEMMA ManagerImplies == ManagerInv => E!ManagerTypeOK /\ E!StopIsObeyed
  <1> SUFFICES ASSUME ManagerInv PROVE E!ManagerTypeOK /\ E!StopIsObeyed OBVIOUS
  <1>1. tries \in 0..MaxTries + Cardinality(Starts)
    BY StartLimits, FailedStartsCount DEF ManagerInv, ManagerTypes, TriesAreBounded
  <1>2. tries \in 0..MaxTries + E!Cardinality(Starts) BY <1>1, CountsAlike
  <1>3. E!ManagerTypeOK BY <1>2, Zenon DEF ManagerInv, ManagerTypes, StartStates, E!ManagerTypeOK
  <1>4. E!StopIsObeyed BY DEF ManagerInv, ManagerTypes, ATimerWaits, E!StopIsObeyed
  <1> QED BY <1>3, <1>4

-----------------------------------------------------------------------------
(* reconnect_tracker.js.                                                   *)
LEMMA LoopLimits == MaxAttempts \in Nat \ {0} /\ Nothing \notin Starts /\ IsFiniteSet(Starts)
  BY LimitsAssumption, NothingAssumption

LEMMA TrackerStarts == E!TrackerInit => TrackerInv
  <1> SUFFICES ASSUME E!TrackerInit PROVE TrackerInv OBVIOUS
  <1>1. TrackerTypes
    <2>1. attempt_count \in 0..MaxAttempts BY LoopLimits DEF E!TrackerInit
    <2> QED BY <2>1 DEF E!TrackerInit, TrackerTypes, LoopStates
  <1>2. ControllersLoop /\ OneLoopRuns BY DEF E!TrackerInit, ControllersLoop, OneLoopRuns, LoopRuns
  <1> QED BY <1>1, <1>2 DEF TrackerInv

(* A loop that leaves, in order or with an error.                          *)
LEMMA ALoopLeaves ==
  ASSUME TrackerInv, NEW k \in Starts, NEW s \in LoopStates \ {"connecting", "delaying"}, LoopRuns(k),
         loop' = [loop EXCEPT ![k] = s], abort_controller' \in {Nothing, abort_controller},
         abort_controller' = Nothing \/ (s = "threw" /\ ~heard), UNCHANGED <<cancelled, heard>>
  PROVE  /\ loop' \in [Starts -> LoopStates]
         /\ abort_controller' \in Starts \cup {Nothing}
         /\ ControllersLoop' /\ OneLoopRuns'
  <1>1. /\ loop' \in [Starts -> LoopStates] /\ loop'[k] = s
        /\ \A j \in Starts \ {k} : loop'[j] = loop[j] BY DEF TrackerInv, TrackerTypes
  <1>2. abort_controller' \in Starts \cup {Nothing} BY DEF TrackerInv, TrackerTypes
  <1>3. ControllersLoop' BY <1>1, LoopLimits DEF TrackerInv, TrackerTypes, ControllersLoop, LoopRuns
  <1>4. OneLoopRuns' BY <1>1 DEF TrackerInv, OneLoopRuns, LoopRuns
  <1> QED BY <1>1, <1>2, <1>3, <1>4

(* A loop that goes on with its next attempt or its delay.                 *)
LEMMA ALoopGoesOn ==
  ASSUME TrackerInv, NEW k \in Starts, NEW s \in {"connecting", "delaying"}, LoopRuns(k),
         loop' = [loop EXCEPT ![k] = s], UNCHANGED <<abort_controller, cancelled, heard>>
  PROVE  /\ loop' \in [Starts -> LoopStates]
         /\ abort_controller' \in Starts \cup {Nothing}
         /\ ControllersLoop' /\ OneLoopRuns'
  <1>1. /\ loop' \in [Starts -> LoopStates] /\ loop'[k] = s
        /\ \A j \in Starts \ {k} : loop'[j] = loop[j] BY DEF TrackerInv, TrackerTypes, LoopStates
  <1>2. abort_controller' \in Starts \cup {Nothing} BY DEF TrackerInv, TrackerTypes
  <1>3. ControllersLoop' BY <1>1, LoopLimits DEF TrackerInv, TrackerTypes, ControllersLoop, LoopRuns
  <1>4. OneLoopRuns' BY <1>1 DEF TrackerInv, OneLoopRuns, LoopRuns
  <1> QED BY <1>1, <1>2, <1>3, <1>4

LEMMA TrackerKeeps == TrackerInv /\ [E!TrackerNext]_(E!tracker_vars) => TrackerInv'
  <1> SUFFICES ASSUME TrackerInv, [E!TrackerNext]_(E!tracker_vars) PROVE TrackerInv' OBVIOUS
  <1> USE LoopLimits
  <1>1. ASSUME E!CancelReconnect PROVE TrackerInv'
    <2>1. /\ abort_controller # Nothing /\ abort_controller' = Nothing
          /\ cancelled' = cancelled \cup {abort_controller}
          /\ loop' = [k \in Starts |-> IF k = abort_controller /\ loop[k] = "delaying" THEN "threw" ELSE loop[k]]
          /\ UNCHANGED <<attempt_count, is_connected, heard, lateAttempt>> BY <1>1 DEF E!CancelReconnect
    <2>2. TrackerTypes' BY <2>1 DEF TrackerInv, TrackerTypes, LoopStates
    <2>3. ControllersLoop' /\ OneLoopRuns' BY <2>1 DEF ControllersLoop, OneLoopRuns
    <2> QED BY <2>2, <2>3 DEF TrackerInv
  <1>2. ASSUME NEW k \in Starts, E!StartReconnect(k) PROVE TrackerInv'
    <2>0. loop[k] = "idle" /\ UNCHANGED <<cancelled, heard, lateAttempt>> BY <1>2 DEF E!StartReconnect
    <2>1. CASE /\ abort_controller # Nothing /\ loop' = [loop EXCEPT ![k] = "refused"]
               /\ UNCHANGED <<attempt_count, is_connected, abort_controller>>
      <3>1. /\ loop' \in [Starts -> LoopStates] /\ loop'[k] = "refused"
            /\ \A j \in Starts \ {k} : loop'[j] = loop[j] BY <2>1 DEF TrackerInv, TrackerTypes, LoopStates
      <3>2. TrackerTypes' BY <2>0, <2>1, <3>1 DEF TrackerInv, TrackerTypes
      <3>3. ControllersLoop' BY <2>0, <2>1, <3>1 DEF TrackerInv, TrackerTypes, ControllersLoop, LoopRuns
      <3>4. OneLoopRuns' BY <2>0, <2>1, <3>1 DEF TrackerInv, OneLoopRuns, LoopRuns
      <3> QED BY <3>2, <3>3, <3>4 DEF TrackerInv
    <2>2. CASE /\ abort_controller = Nothing /\ abort_controller' = k
               /\ loop' = [loop EXCEPT ![k] = "connecting"]
               /\ attempt_count' = 1 /\ is_connected' = FALSE
      <3>1. /\ loop' \in [Starts -> LoopStates] /\ loop'[k] = "connecting"
            /\ \A j \in Starts \ {k} : loop'[j] = loop[j] BY <2>2 DEF TrackerInv, TrackerTypes, LoopStates
      <3>2. TrackerTypes'
        <4>1. attempt_count' \in 0..MaxAttempts BY <2>2
        <4> QED BY <2>0, <2>2, <3>1, <4>1 DEF TrackerInv, TrackerTypes
      <3>3. ControllersLoop' BY <2>0, <2>2, <3>1 DEF ControllersLoop, LoopRuns
      <3>4. OneLoopRuns' BY <2>0, <2>2, <3>1 DEF TrackerInv, OneLoopRuns, LoopRuns
      <3> QED BY <3>2, <3>3, <3>4 DEF TrackerInv
    <2> QED BY <1>2, <2>1, <2>2 DEF E!StartReconnect
  <1>3. ASSUME NEW k \in Starts, E!Connected(k) PROVE TrackerInv'
    <2>1. /\ LoopRuns(k) /\ loop' = [loop EXCEPT ![k] = "done"] /\ abort_controller' = Nothing
          /\ is_connected' = TRUE /\ UNCHANGED <<attempt_count, cancelled, heard, lateAttempt>>
      BY <1>3 DEF E!Connected, E!Leave, LoopRuns
    <2>2. /\ loop' \in [Starts -> LoopStates] /\ abort_controller' \in Starts \cup {Nothing}
          /\ ControllersLoop' /\ OneLoopRuns' BY <2>1, ALoopLeaves DEF LoopStates
    <2>3. TrackerTypes' BY <2>1, <2>2 DEF TrackerInv, TrackerTypes
    <2> QED BY <2>2, <2>3 DEF TrackerInv
  <1>4. ASSUME NEW k \in Starts, E!ConnectFails(k) PROVE TrackerInv'
    <2>0. LoopRuns(k) /\ UNCHANGED <<attempt_count, is_connected, cancelled, heard, lateAttempt>>
      BY <1>4 DEF E!ConnectFails, LoopRuns
    <2>1. /\ loop' \in [Starts -> LoopStates] /\ abort_controller' \in Starts \cup {Nothing}
          /\ ControllersLoop' /\ OneLoopRuns'
      <3>1. CASE loop' = [loop EXCEPT ![k] = "delaying"] /\ UNCHANGED abort_controller
        BY <2>0, <3>1, ALoopGoesOn
      <3>2. CASE heard /\ E!Leave(k) BY <2>0, <3>2, ALoopLeaves DEF E!Leave, LoopStates
      <3>3. CASE ~heard /\ loop' = [loop EXCEPT ![k] = "threw"] /\ UNCHANGED abort_controller
        BY <2>0, <3>3, ALoopLeaves DEF LoopStates
      <3> QED BY <1>4, <3>1, <3>2, <3>3 DEF E!ConnectFails
    <2>2. TrackerTypes' BY <2>0, <2>1 DEF TrackerInv, TrackerTypes
    <2> QED BY <2>1, <2>2 DEF TrackerInv
  <1>5. ASSUME NEW k \in Starts, E!TrackerDelayEnds(k) PROVE TrackerInv'
    <2>0. LoopRuns(k) /\ UNCHANGED <<is_connected, cancelled, heard>>
      BY <1>5 DEF E!TrackerDelayEnds, LoopRuns
    <2>1. CASE /\ E!GoesOn(k) /\ loop' = [loop EXCEPT ![k] = "connecting"]
               /\ attempt_count' = attempt_count + 1 /\ UNCHANGED abort_controller
               /\ lateAttempt' = (lateAttempt \/ k \in cancelled)
      <3>1. /\ loop' \in [Starts -> LoopStates] /\ abort_controller' \in Starts \cup {Nothing}
            /\ ControllersLoop' /\ OneLoopRuns' BY <2>0, <2>1, ALoopGoesOn
      <3>2. attempt_count' \in 0..MaxAttempts BY <2>1 DEF E!GoesOn, TrackerInv, TrackerTypes
      <3>3. lateAttempt' = FALSE BY <2>1 DEF E!GoesOn, TrackerInv, TrackerTypes
      <3>4. TrackerTypes' BY <2>0, <3>1, <3>2, <3>3 DEF TrackerInv, TrackerTypes
      <3> QED BY <3>1, <3>4 DEF TrackerInv
    <2>2. CASE ~E!GoesOn(k) /\ E!Leave(k) /\ UNCHANGED <<attempt_count, lateAttempt>>
      <3>1. /\ loop' \in [Starts -> LoopStates] /\ abort_controller' \in Starts \cup {Nothing}
            /\ ControllersLoop' /\ OneLoopRuns' BY <2>0, <2>2, ALoopLeaves DEF E!Leave, LoopStates
      <3>2. TrackerTypes' BY <2>0, <2>2, <3>1 DEF TrackerInv, TrackerTypes
      <3> QED BY <3>1, <3>2 DEF TrackerInv
    <2> QED BY <1>5, <2>1, <2>2 DEF E!TrackerDelayEnds
  <1>6. CASE UNCHANGED E!tracker_vars
    BY <1>6 DEF E!tracker_vars, TrackerInv, TrackerTypes, ControllersLoop, OneLoopRuns, LoopRuns
  <1> QED BY <1>1, <1>2, <1>3, <1>4, <1>5, <1>6 DEF E!TrackerNext

LEMMA TrackerImplies == TrackerInv => E!TrackerTypeOK /\ E!CancelIsObeyed
  <1> SUFFICES ASSUME TrackerInv PROVE E!TrackerTypeOK /\ E!CancelIsObeyed OBVIOUS
  <1>1. E!TrackerTypeOK BY DEF TrackerInv, TrackerTypes, LoopStates, E!TrackerTypeOK
  <1>2. ASSUME cancelled = {} PROVE ~(E!Cardinality(E!Running) > 1)
    <2>1. E!Running \in SUBSET {abort_controller} BY <1>2 DEF TrackerInv, OneLoopRuns, LoopRuns, E!Running
    <2> DEFINE X == {abort_controller}
               R0 == E!Running
    <2>2. IsFiniteSet(X) /\ Cardinality(X) = 1 /\ R0 \in SUBSET X BY <2>1, FS_Singleton
    <2> HIDE DEF X, R0
    <2>3. Cardinality(R0) \in Nat /\ Cardinality(R0) <= 1 BY <2>2, CountsOf
    <2>4. E!Cardinality(R0) = Cardinality(R0) BY CountsAlike
    <2>5. ~(E!Cardinality(R0) > 1) BY <2>3, <2>4
    <2> QED BY <2>5 DEF R0
  <1>3. E!CancelIsObeyed BY <1>2 DEF TrackerInv, TrackerTypes, ControllersLoop, LoopRuns, E!CancelIsObeyed
  <1> QED BY <1>1, <1>3

-----------------------------------------------------------------------------
(* health_monitor.js.                                                      *)
LEMMA MonitorLimits == MaxRetries \in Nat \ {0} /\ MaxRepairs \in Nat BY LimitsAssumption

LEMMA MonitorStarts == M!MonitorInit => MonitorInv
  <1> SUFFICES ASSUME M!MonitorInit PROVE MonitorInv OBVIOUS
  <1>1. /\ auto_remove_failed \in BOOLEAN /\ interval = FALSE /\ connections = Watched
        /\ retry_counts = [c \in {} |-> 0] /\ pings = [c \in {} |-> "sent"]
        /\ repairs = [c \in Watched |-> [waiting |-> 0, reconnecting |-> 0]]
        /\ givenUp = {} /\ orphans = {} /\ reconnects = [c \in Watched |-> 0]
    BY DEF M!MonitorInit, M!NoRound
  <1>2. MonitorTypes /\ CountsAreTyped /\ PingsAreTyped
    BY <1>1 DEF MonitorTypes, CountsAreTyped, PingsAreTyped
  <1>3. RepairsAreTyped BY <1>1, MonitorLimits DEF RepairsAreTyped
  <1>4. GivenUpAreTried /\ RemovedAreOrphans BY <1>1 DEF GivenUpAreTried, RemovedAreOrphans
  <1>5. RepairsAreCounted BY <1>1 DEF RepairsAreCounted, Repairing
  <1>6. ReconnectsAreTyped /\ ReconnectsAreCounted
    BY <1>1, MonitorLimits DEF ReconnectsAreTyped, ReconnectsAreCounted, Tried
  <1> QED BY <1>2, <1>3, <1>4, <1>5, <1>6 DEF MonitorInv

LEMMA TriedIsBounded ==
  ASSUME CountsAreTyped, NEW c
  PROVE  Tried(c) \in 0..MaxRetries BY MonitorLimits DEF CountsAreTyped, Tried

(* #handle_failure of a set of connections.                                *)
LEMMA FailureIsHandled ==
  ASSUME MonitorInv, NEW F \in SUBSET Watched, NEW ended \in SUBSET F,
         F \subseteq connections \cup orphans,
         \A c \in ended : repairs[c].reconnecting > 0,
         \A c \in F \ ended : repairs[c].waiting + repairs[c].reconnecting < MaxRepairs,
         PingsAreTyped', DOMAIN pings' \subseteq DOMAIN pings,
         UNCHANGED <<auto_remove_failed, interval, reconnects>>,
         M!HandleFailure(F, ended)
  PROVE  MonitorInv'
  <1> USE MonitorLimits
  <1> DEFINE up == {c \in F : Tried(c) >= MaxRetries}
             after == IF auto_remove_failed THEN (DOMAIN retry_counts \cup F) \ up
                  ELSE DOMAIN retry_counts \cup (F \ up)
             more(c) == IF c \in F \ up THEN 1 ELSE 0
             less(c) == IF c \in ended THEN 1 ELSE 0
  <1>0. /\ connections \subseteq Watched /\ givenUp \subseteq Watched /\ orphans \subseteq Watched
        /\ DOMAIN retry_counts \subseteq Watched /\ auto_remove_failed \in BOOLEAN
        /\ \A c \in Watched : Tried(c) \in 0..MaxRetries
        /\ \A c \in DOMAIN retry_counts : Tried(c) = retry_counts[c]
        /\ \A c : Tried(c) # 0 => c \in DOMAIN retry_counts
    BY TriedIsBounded DEF MonitorInv, MonitorTypes, CountsAreTyped, Tried
  <1>a. \A c : M!RetriesOf(c) = Tried(c) BY DEF M!RetriesOf, Tried
  <1>b. M!Exhausted(F) = up BY <1>a DEF M!Exhausted
  <1>1. /\ connections' = IF auto_remove_failed THEN connections \ up ELSE connections
        /\ givenUp' = IF auto_remove_failed THEN givenUp ELSE givenUp \cup up
        /\ repairs' = [c \in Watched |->
             [waiting |-> repairs[c].waiting + more(c), reconnecting |-> repairs[c].reconnecting - less(c)]]
    BY <1>b DEF M!HandleFailure
  <1>2. orphans' = orphans \cup {c \in connections \ connections' :
          repairs'[c].waiting + repairs'[c].reconnecting > 0 \/ c \in DOMAIN pings'}
    BY <1>b DEF M!HandleFailure
  <1>3. retry_counts' = [c \in after |-> IF c \in F \ up THEN Tried(c) + 1 ELSE Tried(c)]
    <2>1. retry_counts' = M!Restrict([c \in Watched |-> IF c \in F \ up THEN M!RetriesOf(c) + 1 ELSE M!RetriesOf(c)], after)
      BY <1>b DEF M!HandleFailure
    <2>2. after \subseteq Watched BY <1>0
    <2> HIDE DEF after, up
    <2> QED BY <1>a, <2>1, <2>2 DEF M!Restrict
  <1>4. /\ up \subseteq F
        /\ \A c \in up : Tried(c) = MaxRetries /\ c \in DOMAIN retry_counts
        /\ \A c \in F \ up : Tried(c) < MaxRetries BY <1>0
  <1>5. /\ after \subseteq Watched /\ after \subseteq DOMAIN retry_counts \cup F
        /\ (F \ up) \subseteq after
        /\ auto_remove_failed => after \cap up = {} /\ (DOMAIN retry_counts \ up) \subseteq after
        /\ ~auto_remove_failed => DOMAIN retry_counts \subseteq after BY <1>0, <1>4
  <1> HIDE DEF up, after
  <1>6. /\ repairs' \in [Watched -> [waiting : Nat, reconnecting : Nat]]
        /\ \A c \in Watched :
             /\ repairs'[c].waiting = repairs[c].waiting + more(c)
             /\ repairs'[c].reconnecting = repairs[c].reconnecting - less(c)
    <2>1. repairs \in [Watched -> [waiting : Nat, reconnecting : Nat]] BY DEF MonitorInv, RepairsAreTyped
    <2>2. \A c \in Watched : more(c) \in Nat /\ repairs[c].reconnecting - less(c) \in Nat BY <2>1
    <2> HIDE DEF more, less
    <2> QED BY <1>1, <2>1, <2>2
  <1>7. RepairsAreTyped'
    <2>1. ASSUME NEW c \in Watched
          PROVE  repairs'[c].waiting + repairs'[c].reconnecting <= MaxRepairs
      <3>1. repairs[c].waiting \in Nat /\ repairs[c].reconnecting \in Nat
            /\ repairs[c].waiting + repairs[c].reconnecting <= MaxRepairs
        BY DEF MonitorInv, RepairsAreTyped
      <3>2. CASE c \in ended BY <1>6, <3>1, <3>2
      <3>3. CASE c \in F \ ended BY <1>6, <3>1, <3>3
      <3>4. CASE c \notin F BY <1>6, <3>1, <3>4
      <3> QED BY <3>2, <3>3, <3>4
    <2> QED BY <1>6, <2>1 DEF RepairsAreTyped
  <1>8. ASSUME NEW c \in Watched, Repairing(c)' PROVE Repairing(c) \/ c \in F \ up
    <2>1. repairs[c].waiting \in Nat /\ repairs[c].reconnecting \in Nat BY DEF MonitorInv, RepairsAreTyped
    <2>2. CASE c \in F \ up BY <2>2
    <2>3. CASE c \notin F \ up BY <1>6, <1>8, <2>1, <2>3 DEF Repairing
    <2> QED BY <2>2, <2>3
  <1>c. ASSUME NEW c \in Watched \ Repairless
        PROVE  Tried(c)' <= reconnects'[c] + repairs'[c].waiting
    <2>1. /\ repairs[c].waiting \in Nat /\ reconnects[c] \in Nat /\ Tried(c) \in Nat
          /\ Tried(c) <= reconnects[c] + repairs[c].waiting /\ reconnects' = reconnects
      BY <1>0 DEF MonitorInv, RepairsAreTyped, ReconnectsAreTyped, ReconnectsAreCounted
    <2>2. Tried(c)' = IF c \in after THEN IF c \in F \ up THEN Tried(c) + 1 ELSE Tried(c) ELSE 0
      BY <1>3 DEF Tried
    <2>3. CASE c \in F \ up BY <1>5, <1>6, <2>1, <2>2, <2>3
    <2>4. CASE c \notin F \ up BY <1>6, <2>1, <2>2, <2>4
    <2> QED BY <2>3, <2>4
  <1>d. ReconnectsAreTyped' /\ ReconnectsAreCounted'
    BY <1>c DEF MonitorInv, ReconnectsAreTyped, ReconnectsAreCounted
  <1> HIDE DEF more, less
  <1>9. MonitorTypes' BY <1>0, <1>1, <1>2, <1>4 DEF MonitorInv, MonitorTypes
  <1>10. CountsAreTyped' BY <1>0, <1>3, <1>4, <1>5 DEF CountsAreTyped
  <1>11. GivenUpAreTried'
    <2>1. CASE auto_remove_failed BY <1>1, <2>1 DEF MonitorInv, MonitorTypes, GivenUpAreTried
    <2>2. CASE ~auto_remove_failed
      <3>1. ASSUME NEW c \in givenUp' PROVE c \in DOMAIN retry_counts' /\ retry_counts'[c] = MaxRetries
        <4>1. c \in DOMAIN retry_counts /\ Tried(c) = MaxRetries
          BY <1>0, <1>1, <1>4, <2>2, <3>1 DEF MonitorInv, GivenUpAreTried
        <4>2. c \in after /\ c \notin F \ up BY <1>4, <1>5, <2>2, <4>1
        <4> QED BY <1>3, <4>1, <4>2
      <3> QED BY <3>1 DEF GivenUpAreTried
    <2> QED BY <1>0, <2>1, <2>2
  <1>12. connections \ up \subseteq connections' /\ connections' \subseteq connections
         /\ (auto_remove_failed => connections' = connections \ up)
         /\ (~auto_remove_failed => connections' = connections)
         /\ orphans \subseteq orphans' /\ DOMAIN retry_counts' = after
         /\ \A c \in connections \ connections' : Repairing(c)' \/ c \in DOMAIN pings' => c \in orphans'
    BY <1>1, <1>2, <1>3 DEF Repairing
  <1>13. RemovedAreOrphans'
    <2>0. DOMAIN retry_counts \ connections \subseteq orphans /\ DOMAIN pings \ connections \subseteq orphans
          /\ \A c \in Watched \ connections : Repairing(c) => c \in orphans
      BY DEF MonitorInv, RemovedAreOrphans
    <2>1. ASSUME NEW c \in DOMAIN retry_counts' \ connections' PROVE c \in orphans'
      <3>1. (c \in after /\ c \notin up) \/ ~auto_remove_failed BY <1>5, <1>12, <2>1
      <3>2. c \notin connections BY <1>0, <1>12, <2>1, <3>1
      <3> QED BY <1>5, <1>12, <2>0, <2>1, <3>2
    <2>2. DOMAIN pings' \ connections' \subseteq orphans' BY <1>12, <2>0
    <2>3. ASSUME NEW c \in Watched \ connections', Repairing(c)' PROVE c \in orphans'
      BY <1>8, <1>12, <2>0, <2>3
    <2> QED BY <2>1, <2>2, <2>3 DEF RemovedAreOrphans
  <1>14. RepairsAreCounted'
    <2>1. ASSUME NEW c \in connections' \ orphans', Repairing(c)' PROVE c \in DOMAIN retry_counts'
      <3>1. c \in connections \ orphans /\ c \in Watched BY <1>0, <1>12, <2>1
      <3>2. c \in DOMAIN retry_counts \/ c \in F \ up
        BY <1>8, <2>1, <3>1 DEF MonitorInv, RepairsAreCounted
      <3> QED BY <1>0, <1>5, <1>12, <2>1, <3>2
    <2> QED BY <2>1 DEF RepairsAreCounted
  <1> QED BY <1>7, <1>9, <1>10, <1>11, <1>13, <1>14, <1>d DEF MonitorInv

(* A connection that is counted anew.                                      *)
LEMMA CountIsReset ==
  ASSUME MonitorInv, NEW c \in Watched, c \in connections' \/ c \in orphans,
         retry_counts' = [d \in DOMAIN retry_counts \cup {c} |-> IF d = c THEN 0 ELSE retry_counts[d]],
         givenUp' = givenUp \ {c}, connections' \in {connections, connections \cup {c}},
         RepairsAreTyped', \A d \in Watched : Repairing(d)' => Repairing(d),
         ReconnectsAreTyped', \A d \in Watched : repairs'[d].waiting = repairs[d].waiting,
         \A d \in Watched \ {c} : reconnects'[d] = reconnects[d],
         UNCHANGED <<auto_remove_failed, interval, pings, orphans>>
  PROVE  MonitorInv'
  <1>1. MonitorTypes' BY DEF MonitorInv, MonitorTypes
  <1>2. DOMAIN retry_counts' = DOMAIN retry_counts \cup {c} /\ DOMAIN retry_counts \subseteq Watched
        /\ \A d \in DOMAIN retry_counts' : retry_counts'[d] = IF d = c THEN 0 ELSE retry_counts[d]
    BY DEF MonitorInv, CountsAreTyped
  <1>3. CountsAreTyped' BY MonitorLimits DEF MonitorInv, CountsAreTyped
  <1>4. PingsAreTyped' BY DEF MonitorInv, PingsAreTyped
  <1>5. GivenUpAreTried' BY <1>2 DEF MonitorInv, GivenUpAreTried
  <1>6. RemovedAreOrphans' BY <1>2 DEF MonitorInv, RemovedAreOrphans
  <1>7. RepairsAreCounted' BY <1>2 DEF MonitorInv, MonitorTypes, RepairsAreCounted
  <1>8. ReconnectsAreCounted'
    <2>1. \A d \in Watched : Tried(d)' = IF d = c THEN 0 ELSE Tried(d) BY <1>2 DEF Tried
    <2>2. \A d \in Watched : repairs'[d].waiting \in Nat /\ reconnects'[d] \in Nat
      BY DEF RepairsAreTyped, ReconnectsAreTyped
    <2> QED BY <2>1, <2>2 DEF MonitorInv, ReconnectsAreCounted
  <1> QED BY <1>1, <1>3, <1>4, <1>5, <1>6, <1>7, <1>8 DEF MonitorInv

(* Connections that are removed.                                           *)
LEMMA ConnectionsAreRemoved ==
  ASSUME MonitorInv, NEW gone \in SUBSET Watched, M!RemoveConnections(gone),
         interval' \in BOOLEAN, UNCHANGED <<auto_remove_failed, pings, repairs, reconnects>>
  PROVE  MonitorInv'
  <1>1. /\ connections' = connections \ gone /\ givenUp' = givenUp \ gone
        /\ retry_counts' = [d \in DOMAIN retry_counts \ gone |-> retry_counts[d]]
        /\ orphans' = orphans \cup {c \in gone : M!Repaired(c) > 0 \/ c \in DOMAIN pings}
    BY DEF M!RemoveConnections, M!Restrict
  <1>2. \A c \in gone : Repairing(c) \/ c \in DOMAIN pings => c \in orphans'
    BY <1>1 DEF Repairing, M!Repaired
  <1>3. \A c : Repairing(c)' = Repairing(c) BY DEF Repairing
  <1>4. DOMAIN retry_counts' = DOMAIN retry_counts \ gone
        /\ \A d \in DOMAIN retry_counts' : retry_counts'[d] = retry_counts[d] BY <1>1
  <1>5. MonitorTypes' BY <1>1 DEF MonitorInv, MonitorTypes
  <1>6. CountsAreTyped' /\ PingsAreTyped' BY <1>1 DEF MonitorInv, CountsAreTyped, PingsAreTyped
  <1>7. RepairsAreTyped' BY DEF MonitorInv, RepairsAreTyped
  <1>8. GivenUpAreTried' BY <1>1, <1>4 DEF MonitorInv, GivenUpAreTried
  <1>9. orphans \subseteq orphans' BY <1>1
  <1>10. RemovedAreOrphans' BY <1>1, <1>2, <1>3, <1>4, <1>9 DEF MonitorInv, RemovedAreOrphans
  <1>11. RepairsAreCounted' BY <1>1, <1>3, <1>4, <1>9 DEF MonitorInv, RepairsAreCounted
  <1>12. ReconnectsAreTyped' /\ ReconnectsAreCounted'
    <2>1. \A d \in Watched : Tried(d)' = Tried(d) \/ Tried(d)' = 0 BY <1>4 DEF Tried
    <2>2. \A d \in Watched : repairs[d].waiting \in Nat /\ reconnects[d] \in Nat
      BY DEF MonitorInv, RepairsAreTyped, ReconnectsAreTyped
    <2> QED BY <2>1, <2>2 DEF MonitorInv, ReconnectsAreTyped, ReconnectsAreCounted
  <1> QED BY <1>5, <1>6, <1>7, <1>8, <1>10, <1>11, <1>12 DEF MonitorInv

(* What changes neither the connections nor their counts and repairs.      *)
LEMMA RestIsKept ==
  ASSUME MonitorInv, interval' \in BOOLEAN, PingsAreTyped', DOMAIN pings' \ connections \subseteq orphans,
         UNCHANGED <<auto_remove_failed, connections, retry_counts, repairs, givenUp, orphans, reconnects>>
  PROVE  MonitorInv' BY DEF MonitorInv, MonitorTypes, CountsAreTyped, RepairsAreTyped, GivenUpAreTried,
     RemovedAreOrphans, RepairsAreCounted, Repairing, ReconnectsAreTyped, ReconnectsAreCounted, Tried

LEMMA MonitorKeeps == MonitorInv /\ [M!MonitorNext]_(M!monitor_vars) => MonitorInv'
  <1> SUFFICES ASSUME MonitorInv, [M!MonitorNext]_(M!monitor_vars) PROVE MonitorInv' OBVIOUS
  <1> USE MonitorLimits
  <1>t. /\ interval \in BOOLEAN /\ connections \subseteq Watched
        /\ DOMAIN pings \subseteq Watched /\ pings \in [DOMAIN pings -> {"sent", "healthy", "failed"}]
        /\ DOMAIN pings \ connections \subseteq orphans
    BY DEF MonitorInv, MonitorTypes, PingsAreTyped, RemovedAreOrphans
  <1>r. \A c \in Watched : repairs[c].waiting \in Nat /\ repairs[c].reconnecting \in Nat
          /\ repairs[c].waiting + repairs[c].reconnecting <= MaxRepairs BY DEF MonitorInv, RepairsAreTyped
  <1>o. ASSUME NEW c \in Watched, repairs[c].reconnecting > 0
        PROVE  c \in connections \cup orphans BY <1>o, <1>r DEF MonitorInv, RemovedAreOrphans, Repairing
  <1>1. CASE M!MonitorStart \/ M!MonitorStop
    BY <1>1, <1>t, RestIsKept DEF M!MonitorStart, M!MonitorStop, PingsAreTyped
  <1>2. CASE M!CheckAllConnections
    <2>1. pings' = [c \in connections |-> "sent"]
          /\ UNCHANGED <<auto_remove_failed, connections, retry_counts, interval, repairs, givenUp, orphans, reconnects>>
      BY <1>2 DEF M!CheckAllConnections, M!state
    <2>2. PingsAreTyped' /\ DOMAIN pings' \ connections \subseteq orphans BY <1>t, <2>1 DEF PingsAreTyped
    <2> QED BY <1>t, <2>1, <2>2, RestIsKept
  <1>3. ASSUME NEW c \in Watched, M!CheckConnection(c) PROVE MonitorInv'
    <2>1. PICK r \in {"healthy", "failed"} : pings' = [pings EXCEPT ![c] = r]
      BY <1>3 DEF M!CheckConnection
    <2>2. UNCHANGED <<auto_remove_failed, connections, retry_counts, interval, repairs, givenUp, orphans, reconnects>>
      BY <1>3 DEF M!CheckConnection, M!state
    <2>3. PingsAreTyped' /\ DOMAIN pings' = DOMAIN pings BY <1>t, <2>1 DEF PingsAreTyped
    <2> QED BY <1>t, <2>2, <2>3, RestIsKept
  <1>4. ASSUME M!RoundEnds PROVE MonitorInv'
    <2> DEFINE F == {c \in DOMAIN pings : pings[c] = "failed"}
    <2>1. /\ pings' = [c \in {} |-> "sent"] /\ M!HandleFailure(F, {})
          /\ UNCHANGED <<auto_remove_failed, interval, reconnects>>
          /\ \A c \in DOMAIN pings : M!Repaired(c) < MaxRepairs BY <1>4 DEF M!RoundEnds, M!NoRound
    <2>2. F \in SUBSET Watched /\ F \subseteq connections \cup orphans BY <1>t
    <2>3. \A c \in F \ {} : repairs[c].waiting + repairs[c].reconnecting < MaxRepairs
      BY <2>1 DEF M!Repaired
    <2>4. PingsAreTyped' /\ DOMAIN pings' \subseteq DOMAIN pings BY <2>1 DEF PingsAreTyped
    <2> HIDE DEF F
    <2>5. {} \in SUBSET F /\ \A c \in {} : repairs[c].reconnecting > 0 OBVIOUS
    <2> QED BY <2>1, <2>2, <2>3, <2>4, <2>5, FailureIsHandled
  <1>5. ASSUME NEW c \in Watched, M!BackoffEnds(c) PROVE MonitorInv'
    <2>1. /\ repairs[c].waiting > 0
          /\ repairs' = [repairs EXCEPT ![c] = [waiting |-> repairs[c].waiting - 1,
                                                reconnecting |-> repairs[c].reconnecting + 1]]
          /\ reconnects' = [reconnects EXCEPT ![c] = IF reconnects[c] < MaxRetries THEN reconnects[c] + 1 ELSE reconnects[c]]
          /\ UNCHANGED <<auto_remove_failed, connections, retry_counts, interval, pings, givenUp, orphans>>
      BY <1>5 DEF M!BackoffEnds, M!state
    <2>2. [waiting |-> repairs[c].waiting - 1, reconnecting |-> repairs[c].reconnecting + 1]
            \in [waiting : Nat, reconnecting : Nat] BY <1>r, <2>1
    <2>3. repairs \in [Watched -> [waiting : Nat, reconnecting : Nat]] BY DEF MonitorInv, RepairsAreTyped
    <2>4. /\ repairs' \in [Watched -> [waiting : Nat, reconnecting : Nat]]
          /\ \A d \in Watched : repairs'[d].waiting + repairs'[d].reconnecting
                                  = repairs[d].waiting + repairs[d].reconnecting BY <1>r, <2>1, <2>2, <2>3
    <2>5. RepairsAreTyped' /\ \A d \in Watched : Repairing(d)' = Repairing(d)
      BY <1>r, <2>4 DEF RepairsAreTyped, Repairing
    <2>6. reconnects \in [Watched -> 0..MaxRetries] /\ repairs'[c].waiting = repairs[c].waiting - 1
          /\ \A d \in Watched \ {c} : repairs'[d] = repairs[d]
      BY <2>1, <2>3 DEF MonitorInv, ReconnectsAreTyped
    <2>7. ReconnectsAreTyped' BY <2>1, <2>6 DEF ReconnectsAreTyped
    <2>8. ReconnectsAreCounted'
      <3>1. \A d \in Watched : Tried(d)' = Tried(d) /\ Tried(d) \in 0..MaxRetries
        BY <2>1, TriedIsBounded DEF MonitorInv, Tried
      <3>2. reconnects'[c] = (IF reconnects[c] < MaxRetries THEN reconnects[c] + 1 ELSE reconnects[c])
            /\ \A d \in Watched \ {c} : reconnects'[d] = reconnects[d] BY <2>1, <2>6
      <3>3. c \notin Repairless => Tried(c) <= reconnects'[c] + repairs'[c].waiting
        BY <1>r, <2>1, <2>6, <3>1, <3>2 DEF MonitorInv, ReconnectsAreCounted
      <3> QED BY <2>6, <3>1, <3>2, <3>3 DEF MonitorInv, ReconnectsAreCounted
    <2> QED
      BY <2>1, <2>5, <2>7, <2>8 DEF MonitorInv, MonitorTypes, CountsAreTyped, PingsAreTyped, GivenUpAreTried,
         RemovedAreOrphans, RepairsAreCounted
  <1>n. ASSUME NEW c \in Watched, M!NotRepaired(c) PROVE MonitorInv'
    <2>1. /\ repairs[c].waiting > 0 /\ c \in Repairless
          /\ repairs' = [repairs EXCEPT ![c].waiting = repairs[c].waiting - 1]
          /\ UNCHANGED <<auto_remove_failed, connections, retry_counts, interval, pings, givenUp, orphans, reconnects>>
      BY <1>n DEF M!NotRepaired, M!state
    <2>2. repairs \in [Watched -> [waiting : Nat, reconnecting : Nat]] BY DEF MonitorInv, RepairsAreTyped
    <2>3. /\ repairs' \in [Watched -> [waiting : Nat, reconnecting : Nat]]
          /\ repairs'[c].reconnecting = repairs[c].reconnecting
          /\ repairs'[c].waiting = repairs[c].waiting - 1
          /\ \A d \in Watched \ {c} : repairs'[d] = repairs[d] BY <1>r, <2>1, <2>2
    <2>4. RepairsAreTyped' BY <1>r, <2>3 DEF RepairsAreTyped
    <2>5. \A d \in Watched : Repairing(d)' => Repairing(d) BY <1>r, <2>3 DEF Repairing
    <2>6. ReconnectsAreTyped' /\ ReconnectsAreCounted'
      BY <2>1, <2>3 DEF MonitorInv, ReconnectsAreTyped, ReconnectsAreCounted, Tried
    <2> QED
      BY <2>1, <2>4, <2>5, <2>6 DEF MonitorInv, MonitorTypes, CountsAreTyped, PingsAreTyped, GivenUpAreTried,
         RemovedAreOrphans, RepairsAreCounted
  <1>6. ASSUME NEW c \in Watched, M!Recovered(c) PROVE MonitorInv'
    <2>1. /\ repairs[c].reconnecting > 0
          /\ repairs' = [repairs EXCEPT ![c].reconnecting = repairs[c].reconnecting - 1]
          /\ retry_counts' = [d \in DOMAIN retry_counts \cup {c} |-> IF d = c THEN 0 ELSE retry_counts[d]]
          /\ givenUp' = givenUp \ {c} /\ reconnects' = [reconnects EXCEPT ![c] = 0]
          /\ UNCHANGED <<auto_remove_failed, connections, interval, pings, orphans>>
      BY <1>6 DEF M!Recovered
    <2>2. repairs \in [Watched -> [waiting : Nat, reconnecting : Nat]] BY DEF MonitorInv, RepairsAreTyped
    <2>3. /\ repairs' \in [Watched -> [waiting : Nat, reconnecting : Nat]]
          /\ repairs'[c].waiting = repairs[c].waiting
          /\ repairs'[c].reconnecting = repairs[c].reconnecting - 1
          /\ \A d \in Watched \ {c} : repairs'[d] = repairs[d] BY <1>r, <2>1, <2>2
    <2>4. RepairsAreTyped' BY <1>r, <2>3 DEF RepairsAreTyped
    <2>5. \A d \in Watched : Repairing(d)' => Repairing(d) BY <1>r, <2>3 DEF Repairing
    <2>6. ReconnectsAreTyped' /\ \A d \in Watched \ {c} : reconnects'[d] = reconnects[d]
      BY <2>1 DEF MonitorInv, ReconnectsAreTyped
    <2>7. \A d \in Watched : repairs'[d].waiting = repairs[d].waiting BY <2>3
    <2> QED BY <1>o, <2>1, <2>4, <2>5, <2>6, <2>7, CountIsReset
  <1>7. ASSUME NEW c \in Watched, M!ReconnectFails(c) PROVE MonitorInv'
    <2>1. /\ repairs[c].reconnecting > 0 /\ UNCHANGED <<auto_remove_failed, interval, pings, reconnects>>
          /\ M!HandleFailure({c}, {c}) BY <1>7 DEF M!ReconnectFails
    <2>2. PingsAreTyped' /\ DOMAIN pings' \subseteq DOMAIN pings BY <1>t, <2>1 DEF PingsAreTyped
    <2>3. /\ {c} \in SUBSET Watched /\ {c} \in SUBSET {c} /\ {c} \subseteq connections \cup orphans
          /\ \A d \in {c} : repairs[d].reconnecting > 0
          /\ \A d \in {c} \ {c} : repairs[d].waiting + repairs[d].reconnecting < MaxRepairs BY <1>o, <2>1
    <2> QED BY <2>1, <2>2, <2>3, FailureIsHandled
  <1>8. ASSUME NEW c \in Watched, M!AddConnection(c) PROVE MonitorInv'
    <2>1. /\ connections' = connections \cup {c}
          /\ retry_counts' = [d \in DOMAIN retry_counts \cup {c} |-> IF d = c THEN 0 ELSE retry_counts[d]]
          /\ givenUp' = givenUp \ {c}
          /\ UNCHANGED <<auto_remove_failed, interval, pings, repairs, orphans, reconnects>>
      BY <1>8 DEF M!AddConnection
    <2>2. RepairsAreTyped' /\ \A d \in Watched : Repairing(d)' = Repairing(d)
      BY <2>1 DEF MonitorInv, RepairsAreTyped, Repairing
    <2>3. ReconnectsAreTyped' BY <2>1 DEF MonitorInv, ReconnectsAreTyped
    <2> QED BY <2>1, <2>2, <2>3, CountIsReset
  <1>9. ASSUME NEW c \in Watched, M!RemoveConnection(c) PROVE MonitorInv'
    BY <1>9, <1>t, ConnectionsAreRemoved DEF M!RemoveConnection
  <1>10. ASSUME M!Destroy PROVE MonitorInv' BY <1>10, ConnectionsAreRemoved DEF M!Destroy
  <1>11. CASE UNCHANGED M!monitor_vars BY <1>11, <1>t, RestIsKept DEF M!monitor_vars, PingsAreTyped
  <1> QED BY <1>1, <1>2, <1>3, <1>4, <1>5, <1>6, <1>7, <1>8, <1>9, <1>10, <1>11, <1>n DEF M!MonitorNext

LEMMA MonitorImplies == MonitorInv => M!MonitorTypeOK /\ M!FailuresAreTried
  <1> SUFFICES ASSUME MonitorInv PROVE M!MonitorTypeOK /\ M!FailuresAreTried OBVIOUS
  <1>1. repairs \in [Watched -> [waiting : 0..MaxRepairs, reconnecting : 0..MaxRepairs]]
    <2>1. /\ repairs \in [Watched -> [waiting : Nat, reconnecting : Nat]]
          /\ \A c \in Watched : repairs[c].waiting + repairs[c].reconnecting <= MaxRepairs
      BY DEF MonitorInv, RepairsAreTyped
    <2>2. \A c \in Watched : repairs[c] \in [waiting : 0..MaxRepairs, reconnecting : 0..MaxRepairs]
      <3>1. TAKE c \in Watched
      <3>2. repairs[c] \in [waiting : Nat, reconnecting : Nat] BY <2>1
      <3>3. repairs[c].waiting \in 0..MaxRepairs /\ repairs[c].reconnecting \in 0..MaxRepairs
        BY <2>1, <3>2, MonitorLimits
      <3> QED BY <3>2, <3>3
    <2> QED BY <2>1, <2>2
  <1>2. M!MonitorTypeOK
    BY <1>1 DEF MonitorInv, MonitorTypes, CountsAreTyped, PingsAreTyped, ReconnectsAreTyped, M!MonitorTypeOK
  <1>c. \A c \in givenUp \ Repairless : reconnects[c] + repairs[c].waiting >= MaxRetries
    <2>1. ASSUME NEW c \in givenUp \ Repairless PROVE reconnects[c] + repairs[c].waiting >= MaxRetries
      <3>1. c \in Watched /\ Tried(c) = MaxRetries BY DEF MonitorInv, MonitorTypes, GivenUpAreTried, Tried
      <3>2. repairs[c].waiting \in Nat /\ reconnects[c] \in Nat
        BY <3>1 DEF MonitorInv, RepairsAreTyped, ReconnectsAreTyped
      <3> QED BY <3>1, <3>2, MonitorLimits DEF MonitorInv, ReconnectsAreCounted
    <2> QED BY <2>1
  <1>3. M!FailuresAreTried
    BY <1>c DEF MonitorInv, GivenUpAreTried, RemovedAreOrphans, RepairsAreCounted, Repairing,
       M!FailuresAreTried, M!Repaired
  <1> QED BY <1>2, <1>3

-----------------------------------------------------------------------------
(* health_checker.js.                                                      *)
LEMMA CheckerLimits ==
  IsFiniteSet(Starts) /\ PoolSize \in Nat /\ MaxFailures \in Nat \ {0} BY LimitsAssumption

LEMMA EndedCount ==
  ASSUME NEW f, NEW T
  PROVE  Ended(f, T) \in SUBSET Starts /\ IsFiniteSet(Ended(f, T)) /\ Cardinality(Ended(f, T)) \in Nat
  <1>1. Ended(f, T) \in SUBSET Starts BY DEF Ended
  <1> QED BY <1>1, CheckerLimits, CountsOf

LEMMA CheckMoves ==
  ASSUME NEW f \in [Starts -> CheckStates], NEW c \in Starts, NEW s \in CheckStates, NEW T,
         NEW g, g = [f EXCEPT ![c] = s], f[c] \in T => s \in T
  PROVE  CheckMoved(f, c, s, T, g)
  <1>1. g \in [Starts -> CheckStates] /\ g[c] = s /\ \A d \in Starts \ {c} : g[d] = f[d] OBVIOUS
  <1>2. ASSUME s \in T, f[c] \notin T PROVE Cardinality(Ended(g, T)) = Cardinality(Ended(f, T)) + 1
    <2>1. Ended(g, T) = Ended(f, T) \cup {c} /\ c \notin Ended(f, T) BY <1>1, <1>2 DEF Ended
    <2>2. Ended(g, T) \in SUBSET Starts /\ Ended(f, T) \in SUBSET Starts BY EndedCount
    <2> QED BY <2>1, <2>2, CheckerLimits, CountsOneMore
  <1>3. ASSUME s \in T <=> f[c] \in T PROVE Ended(g, T) = Ended(f, T) BY <1>1, <1>3 DEF Ended
  <1> QED BY <1>1, <1>2, <1>3 DEF CheckMoved

LEMMA CheckerStarts == M!CheckerInit => CheckerInv
  <1> SUFFICES ASSUME M!CheckerInit PROVE CheckerInv OBVIOUS
  <1>1. CheckerTypes BY DEF M!CheckerInit, CheckerTypes, CheckStates
  <1>2. PoolIsShared /\ FullCountIsTold BY CheckerLimits DEF M!CheckerInit, PoolIsShared, FullCountIsTold
  <1>3. LeaksAreOwned /\ FailuresAreOwned BY EndedCount DEF M!CheckerInit, LeaksAreOwned, FailuresAreOwned
  <1> QED BY <1>1, <1>2, <1>3 DEF CheckerInv

LEMMA CheckerKeeps == CheckerInv /\ [M!CheckerNext]_(M!checker_vars) => CheckerInv'
  <1> SUFFICES ASSUME CheckerInv, [M!CheckerNext]_(M!checker_vars) PROVE CheckerInv' OBVIOUS
  <1> USE CheckerLimits
  <1>t. check \in [Starts -> CheckStates] /\ free \in Nat /\ leaked \in Nat /\ free + leaked = PoolSize
        /\ failure_count \in Nat BY DEF CheckerInv, CheckerTypes, PoolIsShared, FailuresAreOwned
  <1>n. \A f, T : Cardinality(Ended(f, T)) \in Nat BY EndedCount
  <1>1. ASSUME NEW c \in Starts, M!CheckHealth(c) PROVE CheckerInv'
    <2>1. /\ check[c] = "idle" /\ check' = [check EXCEPT ![c] = "acquiring"]
          /\ UNCHANGED <<free, leaked, failure_count, bound, running, healthy, pinging>>
      BY <1>1 DEF M!CheckHealth, M!watch
    <2>2. "acquiring" \in CheckStates /\ "acquiring" \notin Keepers /\ "acquiring" \notin Failures
          /\ "idle" \notin Keepers /\ "idle" \notin Failures BY DEF CheckStates, Keepers, Failures
    <2>3. Ended(check', Keepers) = Ended(check, Keepers)
      <3>1. CheckMoved(check, c, "acquiring", Keepers, check') BY <1>t, <2>1, <2>2, CheckMoves
      <3> QED BY <2>1, <2>2, <3>1 DEF CheckMoved
    <2>4. Ended(check', Failures) = Ended(check, Failures)
          /\ check' \in [Starts -> CheckStates] /\ \A d \in Starts \ {c} : check'[d] = check[d]
      <3>1. CheckMoved(check, c, "acquiring", Failures, check') BY <1>t, <2>1, <2>2, CheckMoves
      <3> QED BY <2>1, <2>2, <3>1 DEF CheckMoved
    <2>5. CheckerTypes' /\ PoolIsShared' BY <2>1, <2>4 DEF CheckerInv, CheckerTypes, PoolIsShared
    <2>6. LeaksAreOwned' /\ FailuresAreOwned'
      BY <2>1, <2>3, <2>4 DEF CheckerInv, LeaksAreOwned, FailuresAreOwned
    <2>7. FullCountIsTold' BY <2>1, <2>4 DEF CheckerInv, FullCountIsTold
    <2> QED BY <2>5, <2>6, <2>7 DEF CheckerInv
  <1>2. ASSUME NEW c \in Starts, NEW releases \in BOOLEAN, M!Acquired(c, releases) PROVE CheckerInv'
    <2>1. /\ check[c] = "acquiring" /\ check' = [check EXCEPT ![c] = "ok"]
          /\ failure_count' = 0 /\ free > 0
          /\ free' = (IF releases THEN free ELSE free - 1)
          /\ leaked' = (IF releases THEN leaked ELSE leaked + 1)
          /\ UNCHANGED <<bound, running, healthy, pinging>> BY <1>2 DEF M!Acquired, M!watch
    <2>2. "ok" \in CheckStates /\ "ok" \in Keepers /\ "acquiring" \notin Keepers
      BY DEF CheckStates, Keepers
    <2>3. Cardinality(Ended(check', Keepers)) = Cardinality(Ended(check, Keepers)) + 1
          /\ check' \in [Starts -> CheckStates]
      <3>1. CheckMoved(check, c, "ok", Keepers, check') BY <1>t, <2>1, <2>2, CheckMoves
      <3> QED BY <2>1, <2>2, <3>1 DEF CheckMoved
    <2>4. CheckerTypes' BY <2>1, <2>3 DEF CheckerInv, CheckerTypes
    <2>5. PoolIsShared' BY <1>t, <2>1 DEF PoolIsShared
    <2>6. LeaksAreOwned' BY <1>t, <1>n, <2>1, <2>3 DEF CheckerInv, LeaksAreOwned
    <2>7. FailuresAreOwned' BY <2>1, EndedCount DEF FailuresAreOwned
    <2>8. FullCountIsTold' BY <2>1 DEF FullCountIsTold
    <2> QED BY <2>4, <2>5, <2>6, <2>7, <2>8 DEF CheckerInv
  <1>3. ASSUME NEW c \in Starts, NEW times_out \in BOOLEAN, M!Fails(c, times_out) PROVE CheckerInv'
    <2> DEFINE s == IF times_out THEN "late"
                    ELSE IF failure_count + 1 >= MaxFailures THEN "degraded" ELSE "failed"
    <2>1. /\ check[c] = "acquiring" /\ check' = [check EXCEPT ![c] = s]
          /\ failure_count' = failure_count + 1
          /\ UNCHANGED <<free, leaked, bound, running, healthy, pinging>>
      BY <1>3 DEF M!Fails, M!Degraded, M!watch
    <2>2. s \in CheckStates /\ s \notin Keepers /\ s \in Failures
          /\ "acquiring" \notin Keepers /\ "acquiring" \notin Failures
      BY DEF CheckStates, Keepers, Failures
    <2>s. failure_count + 1 >= MaxFailures => s \in {"late", "degraded"} BY <1>t
    <2> HIDE DEF s
    <2>3. Cardinality(Ended(check', Failures)) = Cardinality(Ended(check, Failures)) + 1
          /\ check' \in [Starts -> CheckStates] /\ check'[c] = s
      <3>1. CheckMoved(check, c, s, Failures, check') BY <1>t, <2>1, <2>2, CheckMoves
      <3> QED BY <2>1, <2>2, <3>1 DEF CheckMoved
    <2>4. Ended(check', Keepers) = Ended(check, Keepers)
      <3>1. CheckMoved(check, c, s, Keepers, check') BY <1>t, <2>1, <2>2, CheckMoves
      <3> QED BY <2>1, <2>2, <3>1 DEF CheckMoved
    <2>5. CheckerTypes' /\ PoolIsShared' BY <2>1, <2>3 DEF CheckerInv, CheckerTypes, PoolIsShared
    <2>6. LeaksAreOwned' BY <2>1, <2>4 DEF CheckerInv, LeaksAreOwned
    <2>7. FailuresAreOwned' BY <1>t, <1>n, <2>1, <2>3 DEF CheckerInv, FailuresAreOwned
    <2>8. FullCountIsTold' BY <1>t, <2>1, <2>3, <2>s DEF FullCountIsTold
    <2> QED BY <2>5, <2>6, <2>7, <2>8 DEF CheckerInv
  <1>4. ASSUME NEW c \in Starts, M!AcquiredLate(c) PROVE CheckerInv'
    <2>1. /\ check[c] = "late" /\ check' = [check EXCEPT ![c] = "gone"]
          /\ free > 0 /\ free' = free - 1 /\ leaked' = leaked + 1
          /\ UNCHANGED <<failure_count, bound, running, healthy, pinging>>
      BY <1>4 DEF M!AcquiredLate, M!watch
    <2>2. "gone" \in CheckStates /\ "gone" \in Keepers /\ "late" \notin Keepers
          /\ "gone" \in Failures /\ "late" \in Failures BY DEF CheckStates, Keepers, Failures
    <2>3. Cardinality(Ended(check', Keepers)) = Cardinality(Ended(check, Keepers)) + 1
          /\ check' \in [Starts -> CheckStates] /\ check'[c] = "gone"
          /\ \A d \in Starts \ {c} : check'[d] = check[d]
      <3>1. CheckMoved(check, c, "gone", Keepers, check') BY <1>t, <2>1, <2>2, CheckMoves
      <3> QED BY <2>1, <2>2, <3>1 DEF CheckMoved
    <2>4. Ended(check', Failures) = Ended(check, Failures)
      <3>1. CheckMoved(check, c, "gone", Failures, check') BY <1>t, <2>1, <2>2, CheckMoves
      <3> QED BY <2>1, <2>2, <3>1 DEF CheckMoved
    <2>5. CheckerTypes' BY <2>1, <2>3 DEF CheckerInv, CheckerTypes
    <2>6. PoolIsShared' BY <1>t, <2>1 DEF PoolIsShared
    <2>7. LeaksAreOwned' BY <1>t, <1>n, <2>1, <2>3 DEF CheckerInv, LeaksAreOwned
    <2>8. FailuresAreOwned' BY <2>1, <2>4 DEF CheckerInv, FailuresAreOwned
    <2>9. FullCountIsTold' BY <2>3 DEF FullCountIsTold
    <2> QED BY <2>5, <2>6, <2>7, <2>8, <2>9 DEF CheckerInv
  <1>5. ASSUME M!Reset PROVE CheckerInv'
    <2>1. failure_count' = 0 /\ UNCHANGED <<check, free, leaked, bound, running, healthy, pinging>>
      BY <1>5 DEF M!Reset, M!watch
    <2>2. FailuresAreOwned' /\ FullCountIsTold' BY <2>1, EndedCount DEF FailuresAreOwned, FullCountIsTold
    <2> QED BY <2>1, <2>2 DEF CheckerInv, CheckerTypes, PoolIsShared, LeaksAreOwned
  <1>6. ASSUME UNCHANGED <<check, free, leaked, failure_count>>, CheckerTypes' PROVE CheckerInv'
    BY <1>6 DEF CheckerInv, PoolIsShared, LeaksAreOwned, FailuresAreOwned, FullCountIsTold
  <1>7. CASE M!CheckerStart \/ M!CheckerStop
    BY <1>6, <1>7 DEF M!CheckerStart, M!CheckerStop, M!checker, CheckerInv, CheckerTypes
  <1>8. ASSUME NEW w \in {"own", "copy"}, M!Ping(w) PROVE CheckerInv'
    BY <1>6, <1>8 DEF M!Ping, M!checker, CheckerInv, CheckerTypes
  <1>9. ASSUME NEW r \in {"yes", "no"}, M!Pinged(r) PROVE CheckerInv'
    BY <1>6, <1>9 DEF M!Pinged, M!checker, CheckerInv, CheckerTypes
  <1>10. CASE UNCHANGED M!checker_vars BY <1>6, <1>10 DEF M!checker_vars, CheckerInv, CheckerTypes
  <1> QED BY <1>1, <1>2, <1>3, <1>4, <1>5, <1>7, <1>8, <1>9, <1>10 DEF M!CheckerNext

LEMMA CheckerImplies == CheckerInv => M!CheckerTypeOK /\ M!ChecksAreAccounted
  <1> SUFFICES ASSUME CheckerInv PROVE M!CheckerTypeOK /\ M!ChecksAreAccounted OBVIOUS
  <1>1. free \in 0..PoolSize /\ leaked \in 0..PoolSize /\ failure_count \in Nat
    BY CheckerLimits DEF CheckerInv, PoolIsShared, FailuresAreOwned
  <1>2. M!CheckerTypeOK BY <1>1 DEF CheckerInv, CheckerTypes, CheckStates, M!Health, M!CheckerTypeOK
  <1>3. leaked <= M!Cardinality({c \in Starts : check[c] \in {"ok", "gone"}})
    BY CountsAlike DEF CheckerInv, LeaksAreOwned, Ended, Keepers
  <1>4. failure_count >= MaxFailures =>
          M!Cardinality({c \in Starts : check[c] \in {"late", "failed", "degraded", "gone"}}) >= MaxFailures
    <2>1. failure_count >= MaxFailures => Cardinality(Ended(check, Failures)) >= MaxFailures
      BY CheckerLimits, EndedCount DEF CheckerInv, FailuresAreOwned
    <2> QED BY <2>1, CountsAlike DEF Ended, Failures
  <1>5. (\A c \in Starts : check[c] # "late" /\ check[c] # "gone") /\ failure_count >= MaxFailures =>
          \E c \in Starts : check[c] = "degraded" BY DEF CheckerInv, FullCountIsTold
  <1>6. free + leaked = PoolSize BY DEF CheckerInv, PoolIsShared
  <1> QED BY <1>2, <1>3, <1>4, <1>5, <1>6 DEF M!ChecksAreAccounted

-----------------------------------------------------------------------------
(* migration_retry.js, connection_retry.js, migration_circuit.js.          *)
LEMMA RetryLimits == MaxRetry \in Nat \ {0} /\ Threshold \in Nat \ {0} BY LimitsAssumption

LEMMA RetryStarts == E!RetryInit => RetryInv
  <1> SUFFICES ASSUME E!RetryInit PROVE RetryInv OBVIOUS
  <1> USE RetryLimits
  <1>1. /\ allowed = MaxRetry /\ lowered = FALSE
        /\ try = [k \in RetryCalls |-> [at |-> "idle", n |-> 0]]
        /\ circuit_failures = 0 /\ circuit_open = FALSE /\ reset_timer = FALSE
        /\ guarded = [o \in Operations |-> "idle"] BY DEF E!RetryInit, E!Calls, RetryCalls
  <1>2. [at |-> "idle", n |-> 0] \in [at : TryStates, n : 0..MaxRetry + 1] BY DEF TryStates
  <1>3. RetryTypes
    <2>1. try \in [RetryCalls -> [at : TryStates, n : 0..MaxRetry + 1]] BY <1>1, <1>2
    <2>2. allowed \in 0..MaxRetry BY <1>1
    <2> QED BY <1>1, <2>1, <2>2 DEF RetryTypes
  <1>4. TriesGoOn BY <1>1 DEF TriesGoOn, TriesAllowed
  <1>5. OptionsAreLowered /\ CircuitIsTimed BY <1>1 DEF OptionsAreLowered, CircuitIsTimed
  <1>6. CircuitTypes /\ CircuitOpens
    <2>1. CircuitOpens BY <1>1 DEF CircuitOpens
    <2>2. circuit_failures \in Nat BY <1>1
    <2> QED BY <1>1, <2>1, <2>2 DEF CircuitTypes, GuardedStates
  <1> QED BY <1>3, <1>4, <1>5, <1>6 DEF RetryInv, CircuitInv

(* A call that goes on to the next state of its tries.                     *)
LEMMA TryGoesOn ==
  ASSUME RetryInv, NEW k \in RetryCalls, NEW r \in [at : TryStates, n : 0..MaxRetry + 1],
         try' = [try EXCEPT ![k] = r], UNCHANGED <<allowed, lowered, circuit_failures, circuit_open, reset_timer, guarded>>,
         r.at \in {"idle", "trying", "waiting"} => r.n < TriesAllowed(k),
         r.at = "error" /\ ~lowered => r.n = TriesAllowed(k),
         r.at = "nothing" => lowered
  PROVE  RetryInv'
  <1>1. try \in [RetryCalls -> [at : TryStates, n : 0..MaxRetry + 1]] BY DEF RetryInv, RetryTypes
  <1>2. try' \in [RetryCalls -> [at : TryStates, n : 0..MaxRetry + 1]]
        /\ try'[k] = r /\ \A j \in RetryCalls \ {k} : try'[j] = try[j] BY <1>1
  <1>3. RetryTypes' BY <1>2 DEF RetryInv, RetryTypes
  <1>4. TriesGoOn' BY <1>2 DEF RetryInv, TriesGoOn, TriesAllowed
  <1>5. OptionsAreLowered' /\ CircuitInv'
    BY DEF RetryInv, OptionsAreLowered, CircuitInv, CircuitTypes, CircuitIsTimed, CircuitOpens
  <1> QED BY <1>3, <1>4, <1>5 DEF RetryInv

(* What happens to the circuit does not change the calls.                  *)
LEMMA CircuitGoesOn ==
  ASSUME RetryInv, UNCHANGED <<allowed, try, lowered>>, CircuitInv'
  PROVE  RetryInv' BY DEF RetryInv, RetryTypes, TriesGoOn, OptionsAreLowered

LEMMA RetryKeeps == RetryInv /\ [E!RetryNext]_(E!retry_vars) => RetryInv'
  <1> SUFFICES ASSUME RetryInv, [E!RetryNext]_(E!retry_vars) PROVE RetryInv' OBVIOUS
  <1> USE RetryLimits
  <1>t. /\ try \in [RetryCalls -> [at : TryStates, n : 0..MaxRetry + 1]]
        /\ allowed \in 0..MaxRetry /\ lowered \in BOOLEAN /\ (~lowered => allowed = MaxRetry)
        /\ {"trying", "waiting", "ok", "error", "nothing"} \subseteq TryStates
    BY DEF RetryInv, RetryTypes, OptionsAreLowered, TryStates
  <1>g. \A k \in RetryCalls : /\ try[k].at \in TryStates /\ try[k].n \in 0..MaxRetry + 1
                              /\ try[k].at \in {"idle", "trying", "waiting"} => try[k].n < TriesAllowed(k)
    BY <1>t DEF RetryInv, TriesGoOn
  <1>c. CircuitTypes /\ CircuitIsTimed /\ CircuitOpens BY DEF RetryInv, CircuitInv
  <1>1. ASSUME NEW k \in RetryCalls, E!Begin(k) PROVE RetryInv'
    <2> DEFINE r == [at |-> "trying", n |-> try[k].n]
    <2>1. try' = [try EXCEPT ![k] = r] /\ try[k].at = "idle"
          /\ UNCHANGED <<allowed, lowered, circuit_failures, circuit_open, reset_timer, guarded>>
      <3>1. [try[k] EXCEPT !.at = "trying"] = r BY <1>t
      <3>2. try' = [try EXCEPT ![k] = [try[k] EXCEPT !.at = "trying"]] BY <1>1 DEF E!Begin, E!At
      <3> QED BY <1>1, <3>1, <3>2 DEF E!Begin, E!circuit
    <2>2. r \in [at : TryStates, n : 0..MaxRetry + 1] /\ r.n < TriesAllowed(k) /\ r.at = "trying"
      BY <1>t, <1>g, <2>1
    <2> HIDE DEF r
    <2> QED BY <2>1, <2>2, TryGoesOn
  <1>2. ASSUME NEW k \in RetryCalls, E!Succeeds(k) PROVE RetryInv'
    <2> DEFINE r == [at |-> "ok", n |-> try[k].n]
    <2>1. try' = [try EXCEPT ![k] = r]
          /\ UNCHANGED <<allowed, lowered, circuit_failures, circuit_open, reset_timer, guarded>>
      <3>1. [try[k] EXCEPT !.at = "ok"] = r BY <1>t
      <3>2. try' = [try EXCEPT ![k] = [try[k] EXCEPT !.at = "ok"]] BY <1>2 DEF E!Succeeds, E!At
      <3> QED BY <1>2, <3>1, <3>2 DEF E!Succeeds, E!circuit
    <2>2. r \in [at : TryStates, n : 0..MaxRetry + 1] /\ r.at = "ok" BY <1>t, <1>g
    <2> HIDE DEF r
    <2> QED BY <2>1, <2>2, TryGoesOn
  <1>3. ASSUME NEW k \in RetryCalls, E!TryFails(k) PROVE RetryInv'
    <2> DEFINE n == try[k].n + 1
               place == IF E!GivenUp(k, n) THEN "error" ELSE "waiting"
               r == [at |-> place, n |-> n]
    <2>1. try' = [try EXCEPT ![k] = r] /\ try[k].at = "trying"
          /\ UNCHANGED <<allowed, lowered, circuit_failures, circuit_open, reset_timer, guarded>>
      BY <1>3 DEF E!TryFails, E!circuit
    <2>2. n \in 0..MaxRetry + 1 /\ n <= TriesAllowed(k) BY <1>g, <2>1 DEF TriesAllowed
    <2>3. place = "waiting" => n < TriesAllowed(k) BY <1>t, <2>2 DEF E!GivenUp, TriesAllowed
    <2>4. place = "error" /\ ~lowered => n = TriesAllowed(k) BY <1>t, <2>2 DEF E!GivenUp, TriesAllowed
    <2>5. place \in {"error", "waiting"} OBVIOUS
    <2> HIDE DEF n, place
    <2>6. r \in [at : TryStates, n : 0..MaxRetry + 1] /\ r.at = place /\ r.n = n BY <1>t, <2>2, <2>5
    <2> HIDE DEF r
    <2> QED BY <2>1, <2>3, <2>4, <2>5, <2>6, TryGoesOn
  <1>4. ASSUME NEW k \in RetryCalls, E!RetryDelayEnds(k) PROVE RetryInv'
    <2> DEFINE place == IF k \in LowCalls /\ try[k].n > allowed THEN "nothing" ELSE "trying"
               r == [at |-> place, n |-> try[k].n]
    <2>1. try' = [try EXCEPT ![k] = r] /\ try[k].at = "waiting"
          /\ UNCHANGED <<allowed, lowered, circuit_failures, circuit_open, reset_timer, guarded>>
      <3>1. [try[k] EXCEPT !.at = place] = r BY <1>t
      <3>2. try' = [try EXCEPT ![k] = [try[k] EXCEPT !.at = place]] BY <1>4 DEF E!RetryDelayEnds, E!At
      <3> QED BY <1>4, <3>1, <3>2 DEF E!RetryDelayEnds, E!circuit
    <2>2. place \in {"nothing", "trying"} /\ try[k].n < TriesAllowed(k) /\ try[k].n \in 0..MaxRetry + 1
      BY <1>g, <2>1
    <2>3. place = "nothing" => lowered BY <1>t, <2>2 DEF TriesAllowed
    <2> HIDE DEF place
    <2>4. r \in [at : TryStates, n : 0..MaxRetry + 1] /\ r.at = place /\ r.n = try[k].n BY <1>t, <2>2
    <2> HIDE DEF r
    <2> QED BY <2>1, <2>2, <2>3, <2>4, TryGoesOn
  <1>5. ASSUME NEW n \in 0..MaxRetry, E!UpdateRetryOptions(n) PROVE RetryInv'
    <2>1. /\ n # allowed /\ allowed' = n /\ lowered' = (lowered \/ n < allowed)
          /\ UNCHANGED <<try, circuit_failures, circuit_open, reset_timer, guarded>>
      BY <1>5 DEF E!UpdateRetryOptions, E!circuit
    <2>2. lowered => lowered' BY <2>1
    <2>3. RetryTypes' BY <2>1 DEF RetryInv, RetryTypes
    <2>4. TriesGoOn' BY <2>1, <2>2 DEF RetryInv, TriesGoOn, TriesAllowed
    <2>5. OptionsAreLowered'
      <3>1. ~lowered => n < allowed BY <1>t, <2>1
      <3> QED BY <2>1, <3>1 DEF OptionsAreLowered
    <2>6. CircuitInv' BY <1>c, <2>1 DEF CircuitInv, CircuitTypes, CircuitIsTimed, CircuitOpens
    <2> QED BY <2>3, <2>4, <2>5, <2>6 DEF RetryInv
  <1>6. ASSUME NEW o \in Operations, E!Execute(o) PROVE RetryInv'
    <2>1. /\ UNCHANGED <<allowed, try, lowered, circuit_failures, circuit_open, reset_timer>>
          /\ guarded' = [guarded EXCEPT ![o] = IF circuit_open THEN "refused" ELSE "running"]
      BY <1>6 DEF E!Execute, E!loops
    <2>2. guarded' \in [Operations -> GuardedStates] BY <1>c, <2>1 DEF CircuitTypes, GuardedStates
    <2>3. CircuitInv' BY <1>c, <2>1, <2>2 DEF CircuitInv, CircuitTypes, CircuitIsTimed, CircuitOpens
    <2> QED BY <2>1, <2>3, CircuitGoesOn
  <1>7. ASSUME NEW o \in Operations, E!RecordSuccess(o) PROVE RetryInv'
    <2>1. /\ UNCHANGED <<allowed, try, lowered, circuit_open, reset_timer>> /\ circuit_failures' = 0
          /\ guarded' = [guarded EXCEPT ![o] = "ok"] BY <1>7 DEF E!RecordSuccess, E!loops
    <2>2. guarded' \in [Operations -> GuardedStates] BY <1>c, <2>1 DEF CircuitTypes, GuardedStates
    <2>3. CircuitTypes' /\ CircuitIsTimed' BY <1>c, <2>1, <2>2 DEF CircuitTypes, CircuitIsTimed
    <2>4. CircuitOpens' BY <2>1 DEF CircuitOpens
    <2> QED BY <2>1, <2>3, <2>4, CircuitGoesOn DEF CircuitInv
  <1>8. ASSUME NEW o \in Operations, E!RecordFailure(o) PROVE RetryInv'
    <2> DEFINE opens == circuit_failures + 1 >= Threshold
    <2>1. /\ UNCHANGED <<allowed, try, lowered>> /\ circuit_failures' = circuit_failures + 1
          /\ circuit_open' = (circuit_open \/ opens) /\ reset_timer' = (reset_timer \/ opens)
          /\ guarded' = [guarded EXCEPT ![o] = "error"] BY <1>8 DEF E!RecordFailure, E!Opens, E!loops
    <2>2. guarded' \in [Operations -> GuardedStates] BY <1>c, <2>1 DEF CircuitTypes, GuardedStates
    <2>3. circuit_failures' \in Nat BY <1>c, <2>1 DEF CircuitTypes
    <2>4. CircuitOpens' BY <2>1 DEF CircuitOpens
    <2>5. opens \in BOOLEAN OBVIOUS
    <2> HIDE DEF opens
    <2>6. CircuitTypes' BY <1>c, <2>1, <2>2, <2>3, <2>5 DEF CircuitTypes
    <2>7. CircuitIsTimed' BY <1>c, <2>1, Zenon DEF CircuitIsTimed
    <2> QED BY <2>1, <2>4, <2>6, <2>7, CircuitGoesOn DEF CircuitInv
  <1>9. ASSUME E!ResetTimer PROVE RetryInv'
    <2>1. /\ UNCHANGED <<allowed, try, lowered, guarded>> /\ circuit_failures' = 0
          /\ circuit_open' = FALSE /\ reset_timer' = FALSE BY <1>9 DEF E!ResetTimer, E!loops
    <2>2. CircuitTypes' /\ CircuitIsTimed' BY <1>c, <2>1 DEF CircuitTypes, CircuitIsTimed
    <2>3. CircuitOpens' BY <2>1 DEF CircuitOpens
    <2> QED BY <2>1, <2>2, <2>3, CircuitGoesOn DEF CircuitInv
  <1>10. CASE UNCHANGED E!retry_vars
    BY <1>10, <1>c, CircuitGoesOn DEF E!retry_vars, CircuitInv, CircuitTypes, CircuitIsTimed, CircuitOpens
  <1> QED
    BY <1>1, <1>2, <1>3, <1>4, <1>5, <1>6, <1>7, <1>8, <1>9, <1>10 DEF E!RetryNext, E!Calls, RetryCalls

LEMMA RetryImplies == RetryInv => E!RetryTypeOK /\ E!RetriesEnd
  <1> SUFFICES ASSUME RetryInv PROVE E!RetryTypeOK /\ E!RetriesEnd OBVIOUS
  <1>1. E!RetryTypeOK
    BY DEF RetryInv, RetryTypes, CircuitInv, CircuitTypes, RetryCalls, TryStates, GuardedStates,
       E!RetryTypeOK, E!Calls
  <1>2. \A k \in E!Calls : try[k].at = "nothing" => lowered
    BY DEF RetryInv, TriesGoOn, RetryCalls, E!Calls
  <1>3. \A k \in E!Calls : try[k].at = "error" /\ ~lowered =>
          try[k].n = IF k \in LowCalls THEN MaxRetry + 1 ELSE MaxRetry
    BY DEF RetryInv, TriesGoOn, TriesAllowed, RetryCalls, E!Calls
  <1>4. (circuit_failures >= Threshold => circuit_open) /\ circuit_open = reset_timer
    BY DEF RetryInv, CircuitInv, CircuitOpens, CircuitIsTimed
  <1> QED BY <1>2, <1>3, <1>4, <1>1 DEF E!RetriesEnd

-----------------------------------------------------------------------------
(* router.js.                                                              *)
LEMMA RouterLimits == IsFiniteSet(Navigations) /\ MaxNavigation \in Nat /\ MaxAborts \in Nat
  BY LimitsAssumption

LEMMA UnderWayCount ==
  ASSUME NEW f
  PROVE  UnderWay(f) \in SUBSET Navigations /\ IsFiniteSet(UnderWay(f)) /\ Cardinality(UnderWay(f)) \in Nat
  <1>1. UnderWay(f) \in SUBSET Navigations BY DEF UnderWay
  <1> QED BY <1>1, RouterLimits, CountsOf

(* A navigation that begins, goes on and ends.                             *)
LEMMA NavigationMoves ==
  ASSUME NEW f \in [Navigations -> NavigationStates], NEW n \in Navigations, NEW r \in NavigationStates,
         NEW g, g = [f EXCEPT ![n] = r]
  PROVE  /\ g \in [Navigations -> NavigationStates]
         /\ f[n] = IdleNavigation /\ r # IdleNavigation =>
              Cardinality(UnderWay(g)) = Cardinality(UnderWay(f)) + 1
         /\ f[n] # IdleNavigation /\ r # IdleNavigation => UnderWay(g) = UnderWay(f)
         /\ f[n] # IdleNavigation /\ r = IdleNavigation =>
              Cardinality(UnderWay(f)) = Cardinality(UnderWay(g)) + 1
  <1>1. g \in [Navigations -> NavigationStates] /\ g[n] = r /\ \A m \in Navigations \ {n} : g[m] = f[m]
    OBVIOUS
  <1>2. UnderWay(f) \in SUBSET Navigations /\ UnderWay(g) \in SUBSET Navigations BY UnderWayCount
  <1>3. ASSUME f[n] = IdleNavigation, r # IdleNavigation
        PROVE  Cardinality(UnderWay(g)) = Cardinality(UnderWay(f)) + 1
    <2>1. UnderWay(g) = UnderWay(f) \cup {n} /\ n \notin UnderWay(f) BY <1>1, <1>3 DEF UnderWay
    <2> QED BY <1>2, <2>1, RouterLimits, CountsOneMore
  <1>4. ASSUME f[n] # IdleNavigation, r # IdleNavigation PROVE UnderWay(g) = UnderWay(f)
    BY <1>1, <1>4 DEF UnderWay
  <1>5. ASSUME f[n] # IdleNavigation, r = IdleNavigation
        PROVE  Cardinality(UnderWay(f)) = Cardinality(UnderWay(g)) + 1
    <2>1. UnderWay(f) = UnderWay(g) \cup {n} /\ n \notin UnderWay(g) BY <1>1, <1>5 DEF UnderWay
    <2> QED BY <1>2, <2>1, RouterLimits, CountsOneMore
  <1> QED BY <1>1, <1>3, <1>4, <1>5

LEMMA AnEntryIsAdded ==
  ASSUME NEW X, NEW h \in Seq(X), NEW x \in X, NEW c, NEW g, g = Append(h, x)
  PROVE  EntryAdded(h, x, c, g)
  <1>1. g \in Seq(X) /\ Len(g) = Len(h) + 1 /\ Len(h) \in Nat /\ g[Len(h) + 1] = x
        /\ \A i \in 1..Len(h) : g[i] = h[i]
    OBVIOUS
  <1>2. ASSUME x.cached = c PROVE Cardinality(EntriesOf(g, c)) = Cardinality(EntriesOf(h, c)) + 1
    <2> DEFINE X0 == 1..Len(g)
    <2>1. EntriesOf(g, c) = EntriesOf(h, c) \cup {Len(h) + 1} /\ Len(h) + 1 \notin EntriesOf(h, c)
      BY <1>1, <1>2 DEF EntriesOf
    <2>2. EntriesOf(g, c) \in SUBSET X0 /\ EntriesOf(h, c) \in SUBSET X0 /\ Len(h) + 1 \in X0
      BY <1>1 DEF EntriesOf
    <2>3. IsFiniteSet(X0) BY <1>1, FS_Interval
    <2> HIDE DEF X0
    <2> QED BY <2>1, <2>2, <2>3, CountsOneMore
  <1>3. ASSUME x.cached # c PROVE EntriesOf(g, c) = EntriesOf(h, c) BY <1>1, <1>3 DEF EntriesOf
  <1> QED BY <1>2, <1>3 DEF EntryAdded

LEMMA RouterStarts == R!Init => RouterInv
  <1> SUFFICES ASSUME R!Init PROVE RouterInv OBVIOUS
  <1> USE RouterLimits
  <1>1. /\ routes = {} /\ signal = 0 /\ navigation = [n \in Navigations |-> IdleNavigation]
        /\ history = <<>> /\ path_attempts = [p \in Paths |-> 0]
        /\ route_metrics = [hits |-> 0, misses |-> 0, navigations |-> 0, errors |-> 0]
        /\ prefetch_queue = <<>> /\ prefetching = FALSE /\ served = Nothing
    BY DEF R!Init, R!Idle, IdleNavigation
  <1>2. IdleNavigation \in NavigationStates BY DEF IdleNavigation, NavigationStates
  <1>3. signal \in 0..MaxAborts /\ path_attempts \in [Paths -> 0..MaxNavigation] BY <1>1
  <1>4. navigation \in [Navigations -> NavigationStates]
        /\ history \in Seq([path : Paths \cup {Nothing}, cached : BOOLEAN]) /\ prefetch_queue \in Seq(Paths)
    BY <1>1, <1>2
  <1>5. RouterTypes BY <1>1, <1>3, <1>4 DEF RouterTypes
  <1>6. UnderWay(navigation) = {} /\ EntriesOf(history, TRUE) = {} /\ EntriesOf(history, FALSE) = {}
    BY <1>1 DEF UnderWay, EntriesOf
  <1>7. Cardinality({}) = 0 BY FS_EmptySet
  <1>8. /\ route_metrics \in [hits : Nat, misses : Nat, navigations : Nat, errors : Nat]
        /\ route_metrics.hits = 0 /\ route_metrics.misses = 0
        /\ route_metrics.navigations = 0 /\ route_metrics.errors = 0 BY <1>1
  <1>9. MetricsAreTyped /\ MissesAreCounted /\ HistoryIsCounted
    <2>1. MetricsAreTyped BY <1>8 DEF MetricsAreTyped
    <2>2. MissesAreCounted BY <1>6, <1>7, <1>8 DEF MissesAreCounted
    <2>3. HistoryIsCounted BY <1>6, <1>7, <1>8 DEF HistoryIsCounted
    <2> QED BY <2>1, <2>2, <2>3
  <1>10. ServedIsValid /\ PathsArePrefetched BY <1>1 DEF ServedIsValid, PathsArePrefetched
  <1> QED BY <1>5, <1>9, <1>10 DEF RouterInv

(* What leaves the metrics, the navigations and the history alone.         *)
LEMMA CountersAreKept ==
  ASSUME RouterInv, UNCHANGED <<navigation, history, route_metrics>>, RouterTypes',
         ServedIsValid', PathsArePrefetched'
  PROVE  RouterInv' BY DEF RouterInv, MetricsAreTyped, MissesAreCounted, HistoryIsCounted

LEMMA RouterKeeps == RouterInv /\ [R!Next]_(R!vars) => RouterInv'
  <1> SUFFICES ASSUME RouterInv, [R!Next]_(R!vars) PROVE RouterInv' OBVIOUS
  <1> USE RouterLimits
  <1>t. /\ routes \subseteq Paths /\ signal \in 0..MaxAborts
        /\ path_attempts \in [Paths -> 0..MaxNavigation]
        /\ navigation \in [Navigations -> NavigationStates]
        /\ history \in Seq([path : Paths \cup {Nothing}, cached : BOOLEAN])
        /\ prefetch_queue \in Seq(Paths) /\ prefetching \in BOOLEAN BY DEF RouterInv, RouterTypes
  <1>m. route_metrics \in [hits : Nat, misses : Nat, navigations : Nat, errors : Nat]
    BY DEF RouterInv, MetricsAreTyped
  <1>n. /\ route_metrics.hits \in Nat /\ route_metrics.misses \in Nat
        /\ route_metrics.navigations \in Nat /\ route_metrics.errors \in Nat
        /\ Cardinality(UnderWay(navigation)) \in Nat BY <1>m, UnderWayCount
  <1>i. IdleNavigation \in NavigationStates BY DEF IdleNavigation, NavigationStates
  <1>1. ASSUME NEW p \in Paths, R!AddRoute(p) PROVE RouterInv'
    <2>1. routes' = routes \cup {p} /\ UNCHANGED <<signal, navigation, history, path_attempts, route_metrics, prefetch_queue, prefetching, served>>
      BY <1>1 DEF R!AddRoute, R!prefetches
    <2>2. RouterTypes' /\ ServedIsValid' /\ PathsArePrefetched'
      BY <2>1 DEF RouterInv, RouterTypes, ServedIsValid, PathsArePrefetched
    <2> QED BY <2>1, <2>2, CountersAreKept
  <1>2. ASSUME NEW p \in Paths, R!WindowEnds(p) PROVE RouterInv'
    <2>1. /\ path_attempts[p] > 0 /\ path_attempts' = [path_attempts EXCEPT ![p] = path_attempts[p] - 1]
          /\ UNCHANGED <<routes, signal, navigation, history, route_metrics, prefetch_queue, prefetching, served>>
      BY <1>2 DEF R!WindowEnds, R!prefetches
    <2>2. path_attempts' \in [Paths -> 0..MaxNavigation] BY <1>t, <2>1
    <2>3. RouterTypes' BY <1>t, <2>1, <2>2 DEF RouterTypes
    <2>4. ServedIsValid' /\ PathsArePrefetched' BY <2>1 DEF RouterInv, ServedIsValid, PathsArePrefetched
    <2> QED BY <2>1, <2>3, <2>4, CountersAreKept
  <1>3. ASSUME NEW p \in Paths, R!CacheExpires(p) PROVE RouterInv'
    <2>1. UNCHANGED <<routes, signal, navigation, history, path_attempts, route_metrics, prefetch_queue, prefetching, served>>
      BY <1>3 DEF R!CacheExpires, R!prefetches
    <2>2. RouterTypes' /\ ServedIsValid' /\ PathsArePrefetched'
      BY <2>1 DEF RouterInv, RouterTypes, ServedIsValid, PathsArePrefetched
    <2> QED BY <2>1, <2>2, CountersAreKept
  <1>4. ASSUME NEW p \in Paths, R!PrefetchRoutes(p) PROVE RouterInv'
    <2>1. /\ prefetch_queue' = (IF prefetching THEN Append(prefetch_queue, p) ELSE prefetch_queue)
          /\ prefetching' = TRUE
          /\ UNCHANGED <<routes, signal, navigation, history, path_attempts, route_metrics, served>>
      BY <1>4 DEF R!PrefetchRoutes
    <2>2. prefetch_queue' \in Seq(Paths) BY <1>t, <2>1
    <2>3. RouterTypes' /\ ServedIsValid' /\ PathsArePrefetched'
      BY <1>t, <2>1, <2>2 DEF RouterInv, RouterTypes, ServedIsValid, PathsArePrefetched
    <2> QED BY <2>1, <2>3, CountersAreKept
  <1>5. ASSUME NEW n \in Navigations, NEW p \in Paths, R!NavigateTo(n, p) PROVE RouterInv'
    <2>0. /\ navigation[n] = IdleNavigation /\ path_attempts[p] < MaxNavigation
          /\ path_attempts' = [path_attempts EXCEPT ![p] = path_attempts[p] + 1]
          /\ UNCHANGED <<routes, signal, prefetch_queue, prefetching>>
      BY <1>5 DEF R!NavigateTo, R!prefetches, R!Idle, IdleNavigation
    <2>1. path_attempts' \in [Paths -> 0..MaxNavigation] BY <1>t, <2>0
    <2>2. PathsArePrefetched' BY <2>0 DEF RouterInv, PathsArePrefetched
    <2>3. CASE page[p] = signal
      <3> DEFINE e == [path |-> p, cached |-> TRUE]
      <3>1. /\ route_metrics' = [route_metrics EXCEPT !.hits = route_metrics.hits + 1]
            /\ history' = Append(history, e) /\ served' = signal /\ UNCHANGED navigation
        BY <1>5, <2>3 DEF R!NavigateTo, R!Valid
      <3>2. e \in [path : Paths \cup {Nothing}, cached : BOOLEAN] /\ e.cached = TRUE OBVIOUS
      <3> HIDE DEF e
      <3>3. /\ Cardinality(EntriesOf(history', TRUE)) = Cardinality(EntriesOf(history, TRUE)) + 1
            /\ EntriesOf(history', FALSE) = EntriesOf(history, FALSE)
        <4>1. EntryAdded(history, e, TRUE, history') /\ EntryAdded(history, e, FALSE, history')
          BY <1>t, <3>1, <3>2, AnEntryIsAdded
        <4> QED BY <4>1, <3>2 DEF EntryAdded
      <3>4. /\ route_metrics' \in [hits : Nat, misses : Nat, navigations : Nat, errors : Nat]
            /\ route_metrics'.hits = route_metrics.hits + 1
            /\ route_metrics'.misses = route_metrics.misses
            /\ route_metrics'.navigations = route_metrics.navigations
            /\ route_metrics'.errors = route_metrics.errors BY <1>m, <3>1
      <3>5. RouterTypes' BY <1>t, <2>0, <2>1, <3>1, <3>2 DEF RouterTypes
      <3>6. MetricsAreTyped' /\ MissesAreCounted'
        BY <3>1, <3>4 DEF RouterInv, MetricsAreTyped, MissesAreCounted
      <3>7. HistoryIsCounted' BY <3>3, <3>4 DEF RouterInv, HistoryIsCounted
      <3>8. ServedIsValid' BY <2>0, <3>1 DEF ServedIsValid
      <3> QED BY <2>2, <3>5, <3>6, <3>7, <3>8 DEF RouterInv
    <2>4. CASE page[p] # signal
      <3>1. UNCHANGED <<history, served>> BY <1>5, <2>4 DEF R!NavigateTo, R!Valid
      <3>2. ServedIsValid' BY <2>0, <3>1 DEF RouterInv, ServedIsValid
      <3>3. CASE p \in routes
        <4> DEFINE r == [at |-> "middlewares", path |-> p, signal |-> signal]
        <4>1. /\ navigation' = [navigation EXCEPT ![n] = r]
              /\ route_metrics' = [route_metrics EXCEPT !.misses = route_metrics.misses + 1]
          BY <1>5, <2>4, <3>3 DEF R!NavigateTo, R!Valid
        <4>2. r \in NavigationStates BY <1>t DEF NavigationStates
        <4>3. r # IdleNavigation
          <5>1. r.at = "middlewares" /\ IdleNavigation.at = "none" BY DEF IdleNavigation
          <5> QED BY <5>1
        <4> HIDE DEF r
        <4>4. /\ navigation' \in [Navigations -> NavigationStates]
              /\ Cardinality(UnderWay(navigation')) = Cardinality(UnderWay(navigation)) + 1
          BY <1>t, <2>0, <4>1, <4>2, <4>3, NavigationMoves
        <4>5. /\ route_metrics' \in [hits : Nat, misses : Nat, navigations : Nat, errors : Nat]
              /\ route_metrics'.hits = route_metrics.hits
              /\ route_metrics'.misses = route_metrics.misses + 1
              /\ route_metrics'.navigations = route_metrics.navigations
              /\ route_metrics'.errors = route_metrics.errors BY <1>m, <4>1
        <4>6. RouterTypes' BY <1>t, <2>0, <2>1, <3>1, <4>4 DEF RouterTypes
        <4>7. MetricsAreTyped' /\ MissesAreCounted'
          BY <1>n, <4>4, <4>5 DEF RouterInv, MetricsAreTyped, MissesAreCounted
        <4>8. HistoryIsCounted' BY <3>1, <4>5 DEF RouterInv, HistoryIsCounted
        <4> QED BY <2>2, <3>2, <4>6, <4>7, <4>8 DEF RouterInv
      <3>4. CASE p \notin routes
        <4>1. /\ UNCHANGED navigation
              /\ route_metrics' = [route_metrics EXCEPT !.misses = route_metrics.misses + 1, !.errors = route_metrics.errors + 1]
          BY <1>5, <2>4, <3>4 DEF R!NavigateTo, R!Valid
        <4>5. /\ route_metrics' \in [hits : Nat, misses : Nat, navigations : Nat, errors : Nat]
              /\ route_metrics'.hits = route_metrics.hits
              /\ route_metrics'.misses = route_metrics.misses + 1
              /\ route_metrics'.navigations = route_metrics.navigations
              /\ route_metrics'.errors = route_metrics.errors + 1
          <5> DEFINE s == [route_metrics EXCEPT !.misses = route_metrics.misses + 1]
          <5>1. /\ s \in [hits : Nat, misses : Nat, navigations : Nat, errors : Nat]
                /\ s.hits = route_metrics.hits /\ s.misses = route_metrics.misses + 1
                /\ s.navigations = route_metrics.navigations /\ s.errors = route_metrics.errors BY <1>m
          <5>2. route_metrics' = [s EXCEPT !.errors = route_metrics.errors + 1] BY <4>1
          <5> HIDE DEF s
          <5> QED BY <1>n, <5>1, <5>2
        <4>6. RouterTypes' BY <1>t, <2>0, <2>1, <3>1, <4>1 DEF RouterTypes
        <4>7. MetricsAreTyped' /\ MissesAreCounted'
          BY <1>n, <4>1, <4>5 DEF RouterInv, MetricsAreTyped, MissesAreCounted
        <4>8. HistoryIsCounted' BY <3>1, <4>5 DEF RouterInv, HistoryIsCounted
        <4> QED BY <2>2, <3>2, <4>6, <4>7, <4>8 DEF RouterInv
      <3> QED BY <3>3, <3>4
    <2> QED BY <2>3, <2>4
  <1>6. ASSUME NEW n \in Navigations, R!Proceed(n) PROVE RouterInv'
    <2> DEFINE r == [navigation[n] EXCEPT !.at = "component"]
    <2>1. /\ navigation[n].at = "middlewares" /\ navigation' = [navigation EXCEPT ![n] = r]
          /\ UNCHANGED <<routes, signal, history, path_attempts, route_metrics, prefetch_queue, prefetching, served>>
      BY <1>6 DEF R!Proceed, R!prefetches
    <2>2. navigation[n] \in NavigationStates BY <1>t
    <2>3. r \in NavigationStates /\ r.at = "component" BY <2>2 DEF NavigationStates
    <2> HIDE DEF r
    <2>4. r # IdleNavigation /\ navigation[n] # IdleNavigation
      <3>1. IdleNavigation.at = "none" BY DEF IdleNavigation
      <3> QED BY <2>1, <2>3, <3>1
    <2>5. navigation' \in [Navigations -> NavigationStates] /\ UnderWay(navigation') = UnderWay(navigation)
      BY <1>t, <2>1, <2>3, <2>4, NavigationMoves
    <2>6. RouterTypes' BY <1>t, <2>1, <2>5 DEF RouterTypes
    <2>7. MetricsAreTyped' /\ MissesAreCounted' /\ HistoryIsCounted'
      BY <2>1, <2>5 DEF RouterInv, MetricsAreTyped, MissesAreCounted, HistoryIsCounted
    <2>8. ServedIsValid' /\ PathsArePrefetched' BY <2>1 DEF RouterInv, ServedIsValid, PathsArePrefetched
    <2> QED BY <2>6, <2>7, <2>8 DEF RouterInv
  <1>7. ASSUME NEW n \in Navigations, R!Fails(n) PROVE RouterInv'
    <2>1. /\ navigation[n].at # "none" /\ navigation' = [navigation EXCEPT ![n] = IdleNavigation]
          /\ route_metrics' = [route_metrics EXCEPT !.errors = route_metrics.errors + 1]
          /\ UNCHANGED <<routes, signal, history, path_attempts, prefetch_queue, prefetching, served>>
      BY <1>7 DEF R!Fails, R!prefetches, R!Idle, IdleNavigation
    <2>2. navigation[n] # IdleNavigation BY <2>1 DEF IdleNavigation
    <2>3. /\ navigation' \in [Navigations -> NavigationStates]
          /\ Cardinality(UnderWay(navigation)) = Cardinality(UnderWay(navigation')) + 1
      BY <1>t, <1>i, <2>1, <2>2, NavigationMoves
    <2>4. /\ route_metrics' \in [hits : Nat, misses : Nat, navigations : Nat, errors : Nat]
          /\ route_metrics'.hits = route_metrics.hits
          /\ route_metrics'.misses = route_metrics.misses
          /\ route_metrics'.navigations = route_metrics.navigations
          /\ route_metrics'.errors = route_metrics.errors + 1 BY <1>m, <2>1
    <2>5. RouterTypes' BY <1>t, <2>1, <2>3 DEF RouterTypes
    <2>6. MetricsAreTyped' /\ MissesAreCounted'
      BY <1>n, <2>3, <2>4, UnderWayCount DEF RouterInv, MetricsAreTyped, MissesAreCounted
    <2>7. HistoryIsCounted' BY <2>1, <2>4 DEF RouterInv, HistoryIsCounted
    <2>8. ServedIsValid' /\ PathsArePrefetched' BY <2>1 DEF RouterInv, ServedIsValid, PathsArePrefetched
    <2> QED BY <2>5, <2>6, <2>7, <2>8 DEF RouterInv
  <1>8. ASSUME NEW n \in Navigations, R!Navigated(n) PROVE RouterInv'
    <2> DEFINE e == [path |-> navigation[n].path, cached |-> FALSE]
    <2>1. /\ navigation[n].at = "component" /\ navigation' = [navigation EXCEPT ![n] = IdleNavigation]
          /\ history' = Append(history, e)
          /\ route_metrics' = [route_metrics EXCEPT !.navigations = route_metrics.navigations + 1]
          /\ UNCHANGED <<routes, signal, path_attempts, prefetch_queue, prefetching, served>>
      BY <1>8 DEF R!Navigated, R!prefetches, R!Idle, IdleNavigation
    <2>2. navigation[n] # IdleNavigation BY <2>1 DEF IdleNavigation
    <2>3. /\ navigation' \in [Navigations -> NavigationStates]
          /\ Cardinality(UnderWay(navigation)) = Cardinality(UnderWay(navigation')) + 1
      BY <1>t, <1>i, <2>1, <2>2, NavigationMoves
    <2>4. /\ route_metrics' \in [hits : Nat, misses : Nat, navigations : Nat, errors : Nat]
          /\ route_metrics'.hits = route_metrics.hits
          /\ route_metrics'.misses = route_metrics.misses
          /\ route_metrics'.navigations = route_metrics.navigations + 1
          /\ route_metrics'.errors = route_metrics.errors BY <1>m, <2>1
    <2>e. e \in [path : Paths \cup {Nothing}, cached : BOOLEAN] /\ e.cached = FALSE
      BY <1>t DEF NavigationStates
    <2> HIDE DEF e
    <2>h. /\ Cardinality(EntriesOf(history', FALSE)) = Cardinality(EntriesOf(history, FALSE)) + 1
          /\ EntriesOf(history', TRUE) = EntriesOf(history, TRUE)
      <3>1. EntryAdded(history, e, TRUE, history') /\ EntryAdded(history, e, FALSE, history')
        BY <1>t, <2>1, <2>e, AnEntryIsAdded
      <3> QED BY <3>1, <2>e DEF EntryAdded
    <2>5. RouterTypes' BY <1>t, <2>1, <2>3, <2>e DEF RouterTypes
    <2>6. MetricsAreTyped' /\ MissesAreCounted'
      BY <1>n, <2>3, <2>4, UnderWayCount DEF RouterInv, MetricsAreTyped, MissesAreCounted
    <2>7. HistoryIsCounted' BY <2>4, <2>h DEF RouterInv, HistoryIsCounted
    <2>8. ServedIsValid' /\ PathsArePrefetched' BY <2>1 DEF RouterInv, ServedIsValid, PathsArePrefetched
    <2> QED BY <2>5, <2>6, <2>7, <2>8 DEF RouterInv
  <1>9. ASSUME R!AbortAll PROVE RouterInv'
    <2>1. /\ signal < MaxAborts /\ signal' = signal + 1 /\ served' = Nothing
          /\ UNCHANGED <<routes, navigation, history, path_attempts, route_metrics, prefetch_queue, prefetching>>
      BY <1>9 DEF R!AbortAll, R!prefetches
    <2>2. signal' \in 0..MaxAborts BY <1>t, <2>1
    <2>3. RouterTypes' /\ ServedIsValid' /\ PathsArePrefetched'
      BY <1>t, <2>1, <2>2 DEF RouterInv, RouterTypes, ServedIsValid, PathsArePrefetched
    <2> QED BY <2>1, <2>3, CountersAreKept
  <1>10. ASSUME R!Prefetched PROVE RouterInv'
    <2>1. /\ prefetching /\ IF prefetch_queue = <<>> THEN prefetching' = FALSE /\ UNCHANGED prefetch_queue
                            ELSE prefetch_queue' = Tail(prefetch_queue) /\ UNCHANGED prefetching
          /\ UNCHANGED <<routes, signal, navigation, history, path_attempts, route_metrics, served>>
      BY <1>10 DEF R!Prefetched
    <2>2. prefetch_queue' \in Seq(Paths) /\ prefetching' \in BOOLEAN
      <3>1. CASE prefetch_queue = <<>> BY <1>t, <2>1, <3>1
      <3>2. CASE prefetch_queue # <<>>
        <4>1. prefetch_queue' = Tail(prefetch_queue) /\ prefetching' = prefetching BY <2>1, <3>2
        <4>2. Tail(prefetch_queue) \in Seq(Paths) BY <1>t, <3>2, QueueShrinks
        <4> QED BY <1>t, <4>1, <4>2
      <3> QED BY <3>1, <3>2
    <2>3. RouterTypes' /\ ServedIsValid' BY <1>t, <2>1, <2>2 DEF RouterInv, RouterTypes, ServedIsValid
    <2>4. PathsArePrefetched' BY <2>1 DEF PathsArePrefetched
    <2> QED BY <2>1, <2>3, <2>4, CountersAreKept
  <1>11. CASE UNCHANGED R!vars
    <2>1. RouterTypes' /\ ServedIsValid' /\ PathsArePrefetched'
      BY <1>11 DEF R!vars, RouterInv, RouterTypes, ServedIsValid, PathsArePrefetched
    <2> QED BY <1>11, <2>1, CountersAreKept DEF R!vars
  <1> QED BY <1>1, <1>2, <1>3, <1>4, <1>5, <1>6, <1>7, <1>8, <1>9, <1>10, <1>11 DEF R!Next

LEMMA RouterImplies == RouterInv => R!TypeOK /\ R!NavigationIsAccounted
  <1> SUFFICES ASSUME RouterInv PROVE R!TypeOK /\ R!NavigationIsAccounted OBVIOUS
  <1>1. R!TypeOK BY DEF RouterInv, RouterTypes, R!TypeOK
  <1>2. route_metrics.misses = route_metrics.navigations + route_metrics.errors
          + R!Cardinality({n \in Navigations : navigation[n] # R!Idle})
    <2>1. {n \in Navigations : navigation[n] # R!Idle} = UnderWay(navigation)
      BY DEF UnderWay, R!Idle, IdleNavigation
    <2> QED BY <2>1, CountsAlike DEF RouterInv, MissesAreCounted
  <1>3. ASSUME NEW c \in BOOLEAN
        PROVE  R!Cardinality({i \in DOMAIN history : history[i].cached = c})
                 = IF c THEN route_metrics.hits ELSE route_metrics.navigations
    <2>1. DOMAIN history = 1..Len(history) BY DEF RouterInv, RouterTypes
    <2>2. {i \in DOMAIN history : history[i].cached = c} = EntriesOf(history, c) BY <2>1 DEF EntriesOf
    <2>3. Cardinality(EntriesOf(history, c)) = IF c THEN route_metrics.hits ELSE route_metrics.navigations
      BY DEF RouterInv, HistoryIsCounted
    <2> QED BY <2>2, <2>3, CountsAlike
  <1>4. served \in {Nothing, signal} /\ (prefetch_queue # <<>> => prefetching)
    BY DEF RouterInv, ServedIsValid, PathsArePrefetched
  <1> QED BY <1>1, <1>2, <1>3, <1>4 DEF R!NavigationIsAccounted

-----------------------------------------------------------------------------
(* state_manager.js.                                                       *)
LEMMA StateLimits == IsFiniteSet(Actions) /\ Kept \in Nat BY LimitsAssumption

(* The last of a queue is taken back.                                      *)
LEMMA QueueIsUndone ==
  ASSUME NEW X, NEW s \in Seq(X), s # <<>>, NEW t, t = WithoutLast(s)
  PROVE  /\ LastOf(s) \in X /\ t \in Seq(X) /\ Len(t) = Len(s) - 1
         /\ Members(s) = Members(t) \cup {LastOf(s)}
         /\ Distinct(s) => Distinct(t) /\ LastOf(s) \notin Members(t)
  <1>1. t \in Seq(X) /\ Len(t) = Len(s) - 1 /\ Len(s) \in Nat /\ Len(s) # 0
        /\ LastOf(s) \in X /\ LastOf(s) = s[Len(s)] /\ \A i \in 1..Len(t) : t[i] = s[i]
    BY LastIsCut DEF LastOf
  <1>2. \A i \in 1..Len(s) : i = Len(s) \/ i \in 1..Len(t) BY <1>1
  <1>3. Members(s) = Members(t) \cup {LastOf(s)} BY <1>1, <1>2 DEF Members
  <1>4. ASSUME Distinct(s) PROVE Distinct(t) /\ LastOf(s) \notin Members(t)
    BY <1>1, <1>4 DEF Distinct, Members
  <1> QED BY <1>1, <1>3, <1>4

LEMMA StateStarts == S!Init => StateInv
  <1> SUFFICES ASSUME S!Init PROVE StateInv OBVIOUS
  <1> USE StateLimits
  <1>1. /\ state = {} /\ action_history = <<>> /\ forgotten = {}
        /\ dispatching = [a \in Actions |-> "new"] /\ snapshot = Nothing
        /\ transaction = [at |-> "none", initial_state |-> {}, changes |-> <<>>]
    BY DEF S!Init, S!NoTransaction
  <1>2. StateTypes BY <1>1 DEF StateTypes
  <1>3. TransactionIsTyped BY <1>1 DEF TransactionIsTyped, Transactions
  <1>4. HistoryCarries
    <2>1. Cardinality(state) = 0 /\ Cardinality(forgotten) = 0 /\ Len(action_history) = 0
      BY <1>1, FS_EmptySet
    <2> QED BY <1>1, <2>1, EmptyQueue DEF HistoryCarries, Carries
  <1> QED BY <1>2, <1>3, <1>4 DEF StateInv

LEMMA HistoryIsTyped ==
  ASSUME NEW h \in Seq(Actions), Len(h) <= Kept, NEW dropped \in SUBSET Actions, NEW a \in Actions,
         NEW g, NEW left, Remembered(h, dropped, a, g, left)
  PROVE  g \in Seq(Actions) /\ Len(g) <= Kept /\ left \in SUBSET Actions
  <1> DEFINE b == Append(h, a)
  <1>1. b \in Seq(Actions) /\ b # <<>> /\ Len(b) = Len(h) + 1 /\ Len(h) \in Nat BY QueueGrows
  <1> HIDE DEF b
  <1>2. Head(b) \in Actions /\ Tail(b) \in Seq(Actions) BY <1>1, QueueShrinks
  <1>3. CASE Len(b) > Kept
    <2>1. g = Tail(b) /\ left = dropped \cup {Head(b)} BY <1>3 DEF Remembered, b
    <2>2. Len(Tail(b)) = Len(b) - 1 BY <1>1
    <2> QED BY <1>1, <1>2, <2>1, <2>2, StateLimits
  <1>4. CASE ~(Len(b) > Kept)
    <2>1. g = b /\ left = dropped BY <1>4 DEF Remembered, b
    <2> QED BY <1>1, <1>4, <2>1, StateLimits
  <1> QED BY <1>3, <1>4

LEMMA HistoryRemembers ==
  ASSUME NEW h \in Seq(Actions), NEW dropped \in SUBSET Actions, NEW a \in Actions,
         Carries(h, dropped), a \notin Members(h) \cup dropped,
         NEW g, NEW left, Remembered(h, dropped, a, g, left)
  PROVE  /\ Carries(g, left) /\ Members(g) \cup left = (Members(h) \cup dropped) \cup {a}
         /\ Len(g) + Cardinality(left) = Len(h) + Cardinality(dropped) + 1
  <1> DEFINE b == Append(h, a)
  <1>1. b \in Seq(Actions) /\ b # <<>> /\ Len(b) = Len(h) + 1 /\ Len(h) \in Nat
        /\ Members(b) = Members(h) \cup {a} /\ Distinct(b) BY QueueGrows DEF Carries
  <1>n. Cardinality(dropped) \in Nat BY StateLimits, CountsOf
  <1> HIDE DEF b
  <1>2. /\ Head(b) \in Actions /\ Members(b) = Members(Tail(b)) \cup {Head(b)}
        /\ Distinct(Tail(b)) /\ Head(b) \notin Members(Tail(b)) BY <1>1, QueueShrinks
  <1>3. CASE Len(b) > Kept
    <2>1. g = Tail(b) /\ left = dropped \cup {Head(b)} BY <1>3 DEF Remembered, b
    <2>2. Head(b) \notin dropped BY <1>1, <1>2 DEF Carries
    <2>3. Cardinality(left) = Cardinality(dropped) + 1
      <3>1. left \in SUBSET Actions BY <1>2, <2>1
      <3> QED BY <1>2, <2>1, <2>2, <3>1, StateLimits, CountsOneMore
    <2>4. Carries(g, left) BY <1>1, <1>2, <2>1, <2>2 DEF Carries
    <2>5. Members(g) \cup left = (Members(h) \cup dropped) \cup {a} BY <1>1, <1>2, <2>1
    <2>6. Len(g) = Len(b) - 1 BY <1>1, <2>1
    <2> QED BY <1>1, <1>n, <2>3, <2>4, <2>5, <2>6
  <1>4. CASE ~(Len(b) > Kept)
    <2>1. g = b /\ left = dropped BY <1>4 DEF Remembered, b
    <2> QED BY <1>1, <1>n, <2>1 DEF Carries
  <1> QED BY <1>3, <1>4

(* What leaves the state and its history alone.                            *)
LEMMA HistoryIsKept ==
  ASSUME StateInv, StateTypes', TransactionIsTyped',
         UNCHANGED <<state, action_history, forgotten, restored>>,
         \A a \in Actions : dispatching[a] = "over" => dispatching'[a] = "over"
  PROVE  StateInv' BY DEF StateInv, HistoryCarries

LEMMA StateKeeps == StateInv /\ [S!Next]_(S!vars) => StateInv'
  <1> SUFFICES ASSUME StateInv, [S!Next]_(S!vars) PROVE StateInv' OBVIOUS
  <1> USE StateLimits
  <1>t. /\ state \subseteq Actions /\ forgotten \subseteq Actions
        /\ action_history \in Seq(Actions) /\ Len(action_history) <= Kept
        /\ dispatching \in [Actions -> {"new", "middlewares", "over"}]
        /\ transaction \in Transactions
        /\ TransactionIsTyped BY DEF StateInv, StateTypes, TransactionIsTyped
  <1>c. ASSUME S!Closed
        PROVE  /\ TransactionIsTyped' /\ dispatching' \in [Actions -> {"new", "middlewares", "over"}]
               /\ \A a \in Actions : dispatching[a] = "over" => dispatching'[a] = "over"
    <2>1. /\ transaction' = [at |-> "none", initial_state |-> {}, changes |-> <<>>]
          /\ dispatching' = [a \in Actions |-> IF a \in S!Range(transaction.changes) THEN "over"
                                               ELSE dispatching[a]] BY <1>c DEF S!Closed, S!NoTransaction
    <2>2. TransactionIsTyped' BY <2>1 DEF TransactionIsTyped, Transactions
    <2> QED BY <1>t, <2>1, <2>2
  <1>1. ASSUME NEW a \in Actions, S!Dispatch(a) PROVE StateInv'
    <2>1. /\ dispatching[a] = "new"
          /\ dispatching' = [dispatching EXCEPT ![a] = IF time_travel THEN "over" ELSE "middlewares"]
          /\ UNCHANGED <<state, action_history, forgotten, transaction, snapshot, restored>>
      BY <1>1 DEF S!Dispatch, S!others
    <2>2. StateTypes' /\ TransactionIsTyped' BY <2>1 DEF StateInv, StateTypes, TransactionIsTyped
    <2>3. \A b \in Actions : dispatching[b] = "over" => dispatching'[b] = "over" BY <1>t, <2>1
    <2> QED BY <2>1, <2>2, <2>3, HistoryIsKept
  <1>2. ASSUME NEW a \in Actions, S!Dispatched(a) PROVE StateInv'
    <2>1. /\ dispatching[a] = "middlewares"
          /\ dispatching' = [dispatching EXCEPT ![a] = "over"]
          /\ state' = state \cup {a}
          /\ UNCHANGED <<transaction, snapshot, restored>> BY <1>2 DEF S!Dispatched, S!Reduced, S!others
    <2>2. Remembered(action_history, forgotten, a, action_history', forgotten')
      BY <1>2 DEF S!Dispatched, S!Reduced, Remembered
    <2>3. action_history' \in Seq(Actions) /\ Len(action_history') <= Kept /\ forgotten' \in SUBSET Actions
      BY <1>t, <2>2, HistoryIsTyped
    <2>4. StateTypes' /\ TransactionIsTyped' BY <2>1, <2>3 DEF StateInv, StateTypes, TransactionIsTyped
    <2>5. ASSUME ~restored'
          PROVE  /\ Carries(action_history', forgotten')
                 /\ \A b \in Actions : b \in Members(action_history') \cup forgotten' => dispatching'[b] = "over"
                 /\ state' = Members(action_history') \cup forgotten'
                 /\ Len(action_history') + Cardinality(forgotten') = Cardinality(state')
      <3>1. /\ Carries(action_history, forgotten)
            /\ \A b \in Actions : b \in Members(action_history) \cup forgotten => dispatching[b] = "over"
            /\ state = Members(action_history) \cup forgotten
            /\ Len(action_history) + Cardinality(forgotten) = Cardinality(state)
        BY <2>1, <2>5 DEF StateInv, HistoryCarries
      <3>2. a \notin Members(action_history) \cup forgotten BY <2>1, <3>1
      <3>3. /\ Carries(action_history', forgotten')
            /\ Members(action_history') \cup forgotten' = (Members(action_history) \cup forgotten) \cup {a}
            /\ Len(action_history') + Cardinality(forgotten') = Len(action_history) + Cardinality(forgotten) + 1
        BY <1>t, <2>2, <3>1, <3>2, HistoryRemembers
      <3>4. Cardinality(state') = Cardinality(state) + 1
        <4>1. state \in SUBSET Actions /\ state' \in SUBSET Actions /\ a \notin state
          BY <1>t, <2>1, <3>1, <3>2
        <4> QED BY <2>1, <4>1, CountsOneMore
      <3> QED BY <1>t, <2>1, <3>1, <3>3, <3>4
    <2> QED BY <2>4, <2>5 DEF StateInv, HistoryCarries
  <1>3. ASSUME NEW a \in Actions, S!DispatchFails(a) PROVE StateInv'
    <2>1. /\ dispatching' = [dispatching EXCEPT ![a] = "over"]
          /\ UNCHANGED <<state, action_history, forgotten, transaction, snapshot, restored>>
      BY <1>3 DEF S!DispatchFails, S!others
    <2>2. StateTypes' /\ TransactionIsTyped' BY <2>1 DEF StateInv, StateTypes, TransactionIsTyped
    <2>3. \A b \in Actions : dispatching[b] = "over" => dispatching'[b] = "over" BY <1>t, <2>1
    <2> QED BY <2>1, <2>2, <2>3, HistoryIsKept
  <1>4. ASSUME NEW a \in Actions, S!AddChange(a) PROVE StateInv'
    <2>1. /\ transaction.at = "open" /\ dispatching[a] = "new"
          /\ dispatching' = [dispatching EXCEPT ![a] = "middlewares"]
          /\ transaction' = [transaction EXCEPT !.changes = Append(transaction.changes, a)]
          /\ UNCHANGED <<state, action_history, forgotten, snapshot, restored>>
      BY <1>4 DEF S!AddChange, S!looks
    <2>2. transaction.changes \in Seq(Actions) BY <1>t DEF Transactions
    <2>3. Append(transaction.changes, a) \in Seq(Actions) BY <2>2
    <2>4. transaction' \in Transactions /\ transaction'.at = "open" BY <1>t, <2>1, <2>3 DEF Transactions
    <2>5. StateTypes' /\ TransactionIsTyped' BY <2>1, <2>4 DEF StateInv, StateTypes, TransactionIsTyped
    <2>6. \A b \in Actions : dispatching[b] = "over" => dispatching'[b] = "over" BY <1>t, <2>1
    <2> QED BY <2>1, <2>5, <2>6, HistoryIsKept
  <1>5. ASSUME S!Undo PROVE StateInv'
    <2> DEFINE l == LastOf(action_history)
    <2>1. /\ action_history # <<>> /\ state' = state \ {l} /\ action_history' = WithoutLast(action_history)
          /\ UNCHANGED <<forgotten, dispatching, transaction, snapshot, restored>>
      BY <1>5 DEF S!Undo, S!others, LastOf, WithoutLast
    <2>2. /\ l \in Actions /\ action_history' \in Seq(Actions) /\ Len(action_history') = Len(action_history) - 1
          /\ Members(action_history) = Members(action_history') \cup {l}
          /\ Distinct(action_history) => Distinct(action_history') /\ l \notin Members(action_history')
      BY <1>t, <2>1, QueueIsUndone
    <2> HIDE DEF l
    <2>3. Len(action_history) \in Nat /\ Len(action_history') <= Kept BY <1>t, <2>2
    <2>4. StateTypes' /\ TransactionIsTyped'
      BY <2>1, <2>2, <2>3 DEF StateInv, StateTypes, TransactionIsTyped
    <2>5. ASSUME ~restored'
          PROVE  /\ Carries(action_history', forgotten')
                 /\ \A b \in Actions : b \in Members(action_history') \cup forgotten' => dispatching'[b] = "over"
                 /\ state' = Members(action_history') \cup forgotten'
                 /\ Len(action_history') + Cardinality(forgotten') = Cardinality(state')
      <3>1. /\ Carries(action_history, forgotten)
            /\ \A b \in Actions : b \in Members(action_history) \cup forgotten => dispatching[b] = "over"
            /\ state = Members(action_history) \cup forgotten
            /\ Len(action_history) + Cardinality(forgotten) = Cardinality(state)
        BY <2>1, <2>5 DEF StateInv, HistoryCarries
      <3>2. Cardinality(state) = Cardinality(state') + 1
        <4>1. state \in SUBSET Actions /\ state' \in SUBSET Actions /\ l \notin state' /\ state = state' \cup {l}
          BY <1>t, <2>1, <2>2, <3>1
        <4> QED BY <2>2, <4>1, CountsOneMore
      <3>3. state' = Members(action_history') \cup forgotten' BY <2>1, <2>2, <3>1 DEF Carries
      <3>4. Carries(action_history', forgotten') BY <2>1, <2>2, <3>1 DEF Carries
      <3>5. Len(action_history') + Cardinality(forgotten') = Cardinality(state')
        <4>1. Cardinality(forgotten) \in Nat /\ Cardinality(state') \in Nat BY <1>t, <2>1, CountsOf
        <4>2. Len(action_history) + Cardinality(forgotten) = Cardinality(state') + 1 BY <3>1, <3>2
        <4>3. Len(action_history') = Len(action_history) - 1 /\ forgotten' = forgotten BY <2>1, <2>2
        <4> QED BY <2>3, <4>1, <4>2, <4>3
      <3> QED BY <2>1, <2>2, <3>1, <3>3, <3>4, <3>5
    <2> QED BY <2>4, <2>5 DEF StateInv, HistoryCarries
  <1>6. ASSUME S!BeginTransaction PROVE StateInv'
    <2>1. /\ transaction' = [at |-> "open", initial_state |-> state, changes |-> <<>>]
          /\ UNCHANGED <<state, action_history, forgotten, dispatching, snapshot, restored>>
      BY <1>6 DEF S!BeginTransaction, S!looks, S!NoTransaction
    <2>2. TransactionIsTyped' BY <1>t, <2>1 DEF TransactionIsTyped, Transactions
    <2>3. StateTypes' BY <2>1 DEF StateInv, StateTypes
    <2> QED BY <2>1, <2>2, <2>3, HistoryIsKept
  <1>7. ASSUME S!Commit PROVE StateInv'
    <2>0. /\ transaction.at = "open" /\ snapshot' = state
          /\ UNCHANGED <<state, action_history, forgotten, restored>> BY <1>7 DEF S!Commit
    <2>1. /\ TransactionIsTyped' /\ dispatching' \in [Actions -> {"new", "middlewares", "over"}]
          /\ \A a \in Actions : dispatching[a] = "over" => dispatching'[a] = "over"
      <3>1. CASE transaction.changes = <<>> \/ time_travel BY <1>7, <1>c, <3>1 DEF S!Commit
      <3>2. CASE ~(transaction.changes = <<>> \/ time_travel)
        <4>1. transaction' = [transaction EXCEPT !.at = "commit"] /\ UNCHANGED dispatching
          BY <1>7, <3>2 DEF S!Commit
        <4>2. transaction' \in Transactions /\ transaction'.changes = transaction.changes
          BY <1>t, <4>1 DEF Transactions
        <4> QED BY <1>t, <3>2, <4>1, <4>2 DEF TransactionIsTyped
      <3> QED BY <3>1, <3>2
    <2>2. StateTypes' BY <1>t, <2>0, <2>1 DEF StateTypes
    <2> QED BY <2>0, <2>1, <2>2, HistoryIsKept
  <1>8. ASSUME S!Rollback PROVE StateInv'
    <2> DEFINE a == Head(transaction.changes)
    <2>0. /\ transaction.at = "commit" /\ state' = transaction.initial_state /\ restored' = TRUE
          /\ S!Closed /\ UNCHANGED snapshot BY <1>8 DEF S!Rollback, S!looks
    <2>1. transaction.changes \in Seq(Actions) /\ transaction.changes # <<>>
      BY <1>t, <2>0 DEF TransactionIsTyped, Transactions
    <2>2. a \in Actions BY <2>1
    <2>3. \/ Remembered(action_history, forgotten, a, action_history', forgotten')
          \/ UNCHANGED <<action_history, forgotten>> BY <1>8 DEF S!Rollback, Remembered
    <2> HIDE DEF a
    <2>4. action_history' \in Seq(Actions) /\ Len(action_history') <= Kept /\ forgotten' \subseteq Actions
      <3>1. CASE Remembered(action_history, forgotten, a, action_history', forgotten')
        <4>1. forgotten \in SUBSET Actions BY <1>t
        <4>2. action_history' \in Seq(Actions) /\ Len(action_history') <= Kept /\ forgotten' \in SUBSET Actions
          BY <1>t, <2>2, <3>1, <4>1, HistoryIsTyped
        <4> QED BY <4>2
      <3>2. CASE UNCHANGED <<action_history, forgotten>> BY <1>t, <3>2
      <3> QED BY <2>3, <3>1, <3>2
    <2>5. state' \subseteq Actions BY <1>t, <2>0 DEF Transactions
    <2>6. StateTypes' /\ TransactionIsTyped' BY <1>c, <2>0, <2>4, <2>5 DEF StateInv, StateTypes
    <2>7. HistoryCarries' BY <2>0 DEF HistoryCarries
    <2> QED BY <2>6, <2>7 DEF StateInv
  <1>9. ASSUME UNCHANGED <<state, action_history, forgotten, dispatching, transaction, restored>>,
               snapshot' \in {snapshot, Nothing}
        PROVE  StateInv'
    <2>1. StateTypes' /\ TransactionIsTyped' BY <1>9 DEF StateInv, StateTypes, TransactionIsTyped
    <2> QED BY <1>9, <2>1, HistoryIsKept
  <1>10. CASE (\E with \in BOOLEAN : S!Select(with)) \/ S!SnapshotExpires \/ S!StartTimeTravel
    BY <1>9, <1>10 DEF S!Select, S!SnapshotExpires, S!StartTimeTravel
  <1>11. CASE UNCHANGED S!vars BY <1>9, <1>11 DEF S!vars
  <1> QED BY <1>1, <1>2, <1>3, <1>4, <1>5, <1>6, <1>7, <1>8, <1>10, <1>11 DEF S!Next

LEMMA StateImplies == StateInv => S!TypeOK /\ S!HistoryExplainsState
  <1> SUFFICES ASSUME StateInv PROVE S!TypeOK /\ S!HistoryExplainsState OBVIOUS
  <1>1. S!Range(action_history) = Members(action_history) BY DEF StateInv, StateTypes, S!Range, Members
  <1>2. Members(action_history) \subseteq Actions BY DEF StateInv, StateTypes, Members
  <1>3. S!TypeOK BY <1>1, <1>2 DEF StateInv, StateTypes, S!TypeOK
  <1>4. S!HistoryExplainsState BY <1>1, CountsAlike DEF StateInv, HistoryCarries, S!HistoryExplainsState
  <1> QED BY <1>3, <1>4

-----------------------------------------------------------------------------
(* offline_manager.js.                                                     *)
LEMMA MembersAre ==
  ASSUME NEW X, NEW s \in Seq(X)
  PROVE  /\ O!Range(s) = Members(s) /\ Members(s) \subseteq X
         /\ s # <<>> => \E x \in X : x \in Members(s)
  <1>1. O!Range(s) = Members(s) /\ Members(s) \subseteq X BY DEF O!Range, Members
  <1>2. ASSUME s # <<>> PROVE \E x \in X : x \in Members(s) BY <1>2, QueueShrinks
  <1> QED BY <1>1, <1>2

LEMMA ChainEnds ==
  ASSUME NEW X, NEW s \in Seq(X), NEW i \in DOMAIN s
  PROVE  Cut(s, i) \in Seq(X)
  <1>1. i \in 1..Len(s) /\ Len(s) \in Nat /\ \A j \in 1..Len(s) : s[j] \in X OBVIOUS
  <1>2. SubSeq(s, 1, i - 1) \in Seq(X)
    <2>1. 1 \in Int /\ i - 1 \in Int /\ \A j \in 1..(i - 1) : s[j] \in X BY <1>1
    <2> QED BY <2>1, SubSeqProperties
  <1>3. SubSeq(s, i + 1, Len(s)) \in Seq(X)
    <2>1. i + 1 \in Int /\ Len(s) \in Int /\ \A j \in (i + 1)..Len(s) : s[j] \in X BY <1>1
    <2> QED BY <2>1, SubSeqProperties
  <1> QED BY <1>2, <1>3 DEF Cut

LEMMA WriteComes ==
  ASSUME NEW w \in Seq(Seq(Queued)), w # <<>>, NEW q \in Seq(Queued), NEW v, Asks(v, w, q)
  PROVE  /\ v \in Seq(Seq(Queued)) /\ v # <<>> /\ v[1] = w[1]
         /\ \A i \in 1..Len(v) : v[i] = q \/ \E j \in 1..Len(w) : v[i] = w[j]
         /\ \A r \in Members(q) :
              Held(r, w) \/ (\A i \in 1..Len(w) : r \notin Members(w[i])) => Held(r, v)
  <1>1. /\ v \in Seq(Seq(Queued)) /\ Len(v) = Len(w) + 1 /\ Len(w) \in Nat /\ 1 \in 1..Len(w)
        /\ v[Len(v)] = q /\ \A i \in 1..Len(w) : v[i] = w[i] BY DEF Asks
  <1>2. \A i \in 1..Len(v) : i \in 1..Len(w) \/ i = Len(v) BY <1>1
  <1>3. \A i, j \in 1..Len(v) : i <= j /\ j # Len(v) => i \in 1..Len(w) /\ j \in 1..Len(w) BY <1>1
  <1>4. v # <<>> BY <1>1
  <1> QED BY <1>1, <1>2, <1>3, <1>4 DEF Held

LEMMA WriteEnds ==
  ASSUME NEW w \in Seq(Seq(Queued)), Len(w) > 1, NEW v, Ends(v, w)
  PROVE  /\ v \in Seq(Seq(Queued)) /\ v # <<>> /\ \A i \in 1..Len(v) : \E j \in 1..Len(w) : v[i] = w[j]
         /\ \A r : Held(r, w) /\ (v = Tail(w) \/ (r \in Members(w[2]) => r \in Members(w[1]))) =>
              Held(r, v) /\ (r \in Members(w[1]) => r \in Members(v[1]))
  <1>1. Len(w) \in Nat /\ 1 \in 1..Len(w) /\ 2 \in 1..Len(w) OBVIOUS
  <1>2. /\ v \in Seq(Seq(Queued)) /\ Len(v) = Len(w) - 1 /\ (v[1] = w[2] \/ v[1] = w[1])
        /\ v = Tail(w) => v[1] = w[2]
        /\ \A i \in 1..Len(v) : i # 1 => v[i] = w[i + 1]
    <2>1. CASE v = Tail(w) BY <1>1, <2>1
    <2>2. CASE v # Tail(w) /\ v = <<w[1]>> \o SubSeq(w, 3, Len(w))
      <3> DEFINE a == <<w[1]>>
                 b == SubSeq(w, 3, Len(w))
      <3>1. w[1] \in Seq(Queued) /\ a \in Seq(Seq(Queued)) /\ Len(a) = 1 /\ a[1] = w[1] BY <1>1
      <3>2. /\ b \in Seq(Seq(Queued)) /\ Len(b) = Len(w) - 2
            /\ \A i \in 1..(Len(w) - 2) : b[i] = w[i + 2]
        <4>1. 3 \in Int /\ Len(w) \in Int /\ \A i \in 3..Len(w) : w[i] \in Seq(Queued) BY <1>1
        <4>2. /\ b \in Seq(Seq(Queued)) /\ Len(b) = IF 3 <= Len(w) THEN Len(w) - 3 + 1 ELSE 0
              /\ \A i \in 1..(Len(w) - 3 + 1) : b[i] = w[3 + i - 1] BY <4>1, SubSeqProperties
        <4> HIDE DEF b
        <4>3. Len(b) = Len(w) - 2
          <5>1. CASE 3 <= Len(w) BY <1>1, <4>2, <5>1
          <5>2. CASE ~(3 <= Len(w))
            <6>1. Len(w) = 2
              <7>1. \A n \in Nat : n > 1 /\ ~(3 <= n) => n = 2 OBVIOUS
              <7> QED BY <1>1, <5>2, <7>1, Zenon
            <6>2. Len(b) = 0 BY <4>2, <5>2, Zenon
            <6> QED BY <6>1, <6>2
          <5> QED BY <5>1, <5>2
        <4>4. ASSUME NEW i \in 1..(Len(w) - 2) PROVE b[i] = w[i + 2]
          <5>1. i \in 1..(Len(w) - 3 + 1) /\ 3 + i - 1 = i + 2 BY <1>1
          <5> QED BY <4>2, <5>1
        <4> QED BY <4>2, <4>3, <4>4
      <3> HIDE DEF a, b
      <3>3. /\ a \o b \in Seq(Seq(Queued)) /\ Len(a \o b) = Len(a) + Len(b)
            /\ \A i \in 1..(Len(a) + Len(b)) : (a \o b)[i] = IF i <= Len(a) THEN a[i] ELSE b[i - Len(a)]
        BY <3>1, <3>2, ConcatProperties
      <3> DEFINE c == a \o b
      <3> HIDE DEF c
      <3>4. /\ c \in Seq(Seq(Queued)) /\ Len(c) = Len(w) - 1 /\ c[1] = w[1]
            /\ \A i \in 1..Len(c) : i # 1 => c[i] = w[i + 1]
        <4>0. Len(a) + Len(b) = Len(w) - 1 BY <1>1, <3>1, <3>2
        <4>1. /\ c \in Seq(Seq(Queued)) /\ Len(c) = Len(w) - 1
              /\ \A i \in 1..(Len(w) - 1) : c[i] = IF i <= 1 THEN a[i] ELSE b[i - 1]
          <5>1. Len(a) = 1 BY <3>1
          <5> QED BY <3>3, <4>0, <5>1, Zenon DEF c
        <4>2. c[1] = w[1] BY <1>1, <3>1, <4>1
        <4>3. ASSUME NEW i \in 1..Len(c), i # 1 PROVE c[i] = w[i + 1]
          <5>1. i - 1 \in 1..(Len(w) - 2) /\ ~(i <= 1) /\ i - 1 + 2 = i + 1 BY <1>1, <4>1, <4>3
          <5> QED BY <3>2, <4>1, <5>1
        <4> QED BY <4>1, <4>2, <4>3
      <3> QED BY <2>2, <3>4, Zenon DEF a, b, c
    <2> QED BY <2>1, <2>2 DEF Ends
  <1>3. v # <<>> /\ 1 \in 1..Len(v) /\ \A i \in 1..Len(v) : i \in 1..Len(w) /\ i + 1 \in 1..Len(w)
    BY <1>1, <1>2
  <1>4. ASSUME NEW r, Held(r, w), v = Tail(w) \/ (r \in Members(w[2]) => r \in Members(w[1]))
        PROVE  Held(r, v) /\ (r \in Members(w[1]) => r \in Members(v[1]))
    <2>1. r \in Members(w[Len(w)]) /\ (r \in Members(w[1]) => r \in Members(w[2])) BY <1>1, <1>4 DEF Held
    <2>2. r \in Members(v[Len(v)])
      <3>1. r \in Members(w[2]) => r \in Members(v[1]) BY <1>2, <1>4, Zenon
      <3>2. Len(v) \in 1..Len(v) /\ Len(w) = Len(v) + 1 BY <1>1, <1>2
      <3> QED BY <1>2, <2>1, <3>1, <3>2
    <2>3. ASSUME NEW i \in 1..Len(v), NEW j \in 1..Len(v), i <= j, r \in Members(v[i]) PROVE r \in Members(v[j])
      <3>1. CASE j = 1 BY <2>3, <3>1
      <3>2. CASE j # 1
        <4>1. v[j] = w[j + 1] /\ j + 1 \in 1..Len(w) /\ i + 1 \in 1..Len(w) BY <1>2, <1>3, <3>2
        <4>2. \E n \in 1..Len(w) : n <= j + 1 /\ r \in Members(w[n])
          <5>1. CASE i = 1 /\ v[1] = w[2] BY <1>1, <2>3, <5>1
          <5>2. CASE i = 1 /\ v[1] = w[1] BY <1>1, <2>3, <5>2
          <5>3. CASE i # 1
            <6>1. v[i] = w[i + 1] BY <1>2, <5>3
            <6>2. i + 1 <= j + 1 BY <2>3
            <6> QED BY <2>3, <4>1, <6>1, <6>2
          <5> QED BY <1>2, <5>1, <5>2, <5>3
        <4> QED BY <1>4, <4>1, <4>2 DEF Held
      <3> QED BY <3>1, <3>2
    <2> QED BY <1>2, <1>4, <2>1, <2>2, <2>3 DEF Held
  <1>5. ASSUME NEW i \in 1..Len(v) PROVE \E j \in 1..Len(w) : v[i] = w[j]
    <2>1. CASE i = 1 BY <1>1, <1>2, <2>1
    <2>2. CASE i # 1 BY <1>2, <1>3, <2>2
    <2> QED BY <2>1, <2>2
  <1>6. v \in Seq(Seq(Queued)) BY <1>2
  <1> QED BY <1>3, <1>4, <1>5, <1>6

LEMMA OfflineStarts == O!Init => OfflineInv
  <1> SUFFICES ASSUME O!Init PROVE OfflineInv OBVIOUS
  <1>0. \A i \in 1..1 : i = 1 OBVIOUS
  <1>1. /\ saves = <<<<>>>> /\ queue = <<>> /\ read = <<>> /\ chains = <<>> /\ ~syncInProgress
        /\ status \in {"online", "offline"} /\ enqueuing = [r \in Queued |-> "new"]
        /\ loading = TRUE /\ alive = TRUE /\ syncInProgress = FALSE BY DEF O!Init
  <1>2. OfflineTypes
    <2>1. loading \in BOOLEAN /\ alive \in BOOLEAN /\ syncInProgress \in BOOLEAN BY <1>1
    <2>2. enqueuing \in [Queued -> {"new", "before", "after", "done"}] BY <1>1
    <2>3. status \in {"online", "offline", "reconnecting"} BY <1>1
    <2>4. chains \in Seq(1..ReconnectAttempts) /\ saves \in Seq(Seq(Queued)) /\ saves # <<>> /\ queue \in Seq(Queued) /\ read \in Seq(Queued)
      BY <1>1
    <2> QED BY <2>1, <2>2, <2>3, <2>4 DEF OfflineTypes
  <1>3. QueuesWereEntered
    <2>1. saves[1] = <<>> /\ Len(saves) = 1 BY <1>1
    <2> QED BY <1>0, <1>1, <2>1, EmptyQueue DEF QueuesWereEntered
  <1>4. RequestsAreHeld BY <1>1 DEF RequestsAreHeld, Entered
  <1>5. SyncsHadRequests /\ O!ReconnectingIsTried BY <1>1 DEF SyncsHadRequests, O!ReconnectingIsTried
  <1> QED BY <1>2, <1>3, <1>4, <1>5 DEF OfflineInv

(* The requests stay as they are while the connection changes.             *)
LEMMA ConnectionChanges ==
  ASSUME OfflineInv, UNCHANGED O!requests,
         status' \in {"online", "offline", "reconnecting"}, chains' \in Seq(1..ReconnectAttempts),
         alive' \in BOOLEAN, status' = "reconnecting" /\ alive' => chains' # <<>>
  PROVE  OfflineInv'
  <1>1. UNCHANGED <<saves, queue, loading, read, enqueuing, syncInProgress, risked, cleared>>
    BY DEF O!requests
  <1>2. OfflineTypes' BY <1>1 DEF OfflineInv, OfflineTypes
  <1>3. QueuesWereEntered' /\ RequestsAreHeld' /\ SyncsHadRequests'
    BY <1>1 DEF OfflineInv, QueuesWereEntered, RequestsAreHeld, SyncsHadRequests, Entered, Members, Held
  <1> QED BY <1>2, <1>3 DEF OfflineInv, O!ReconnectingIsTried

LEMMA OfflineKeeps == OfflineInv /\ [O!Next]_(O!vars) => OfflineInv'
  <1> SUFFICES ASSUME OfflineInv, [O!Next]_(O!vars) PROVE OfflineInv' OBVIOUS
  <1>t. /\ OfflineTypes /\ QueuesWereEntered /\ RequestsAreHeld /\ SyncsHadRequests
        /\ O!ReconnectingIsTried BY DEF OfflineInv
  <1>n. ReconnectAttempts \in Nat \ {0} BY LimitsAssumption
  <1>m. /\ saves[1] \in Seq(Queued) /\ 1 \in 1..Len(saves) /\ Len(saves) \in Nat
        /\ O!Stored = Members(saves[1]) /\ O!Range(queue) = Members(queue)
        /\ \A i \in 1..Len(saves) : saves[i] \in Seq(Queued) /\ Members(saves[i]) \subseteq Queued
    <2>1. saves \in Seq(Seq(Queued)) /\ saves # <<>> /\ queue \in Seq(Queued) BY <1>t DEF OfflineTypes
    <2>2. /\ 1 \in 1..Len(saves) /\ Len(saves) \in Nat
          /\ \A i \in 1..Len(saves) : saves[i] \in Seq(Queued) BY <2>1
    <2> QED BY <2>1, <2>2, MembersAre DEF O!Stored
  <1>r. ASSUME UNCHANGED <<saves, queue, loading, read, risked, cleared>>,
               \A q \in Queued : Entered(q)' <=> Entered(q)
        PROVE  QueuesWereEntered' /\ RequestsAreHeld'
    <2>1. Members(queue) \cup Members(read) \subseteq Queued BY <1>t, MembersAre DEF OfflineTypes
    <2> QED BY <1>m, <1>r, <1>t, <2>1 DEF QueuesWereEntered, RequestsAreHeld
  <1>0. ASSUME NEW ok \in BOOLEAN, O!Written(ok) PROVE OfflineInv'
    <2>1. /\ saves' = Tail(saves) \/ saves' = <<saves[1]>> \o SubSeq(saves, 3, Len(saves))
          /\ risked \subseteq risked' /\ Len(saves) > 1
          /\ saves' # Tail(saves) => \A q : q \notin risked' /\ q \in Members(saves[2]) => q \in Members(saves[1])
          /\ UNCHANGED <<status, chains, queue, loading, read, enqueuing, syncInProgress, cleared, alive>>
      <3>1. O!Range(saves[2]) = Members(saves[2]) BY DEF O!Range, Members
      <3> QED BY <1>0, <1>m, <3>1 DEF O!Written, O!connection
    <2>2. saves \in Seq(Seq(Queued)) BY <1>t DEF OfflineTypes
    <2>3. /\ saves' \in Seq(Seq(Queued)) /\ saves' # <<>>
          /\ \A i \in 1..Len(saves') : \E j \in 1..Len(saves) : saves'[i] = saves[j]
          /\ \A q : Held(q, saves) /\ q \notin risked' =>
               Held(q, saves') /\ (q \in Members(saves[1]) => q \in Members(saves'[1]))
      <3>1. Ends(saves', saves) BY <2>1 DEF Ends
      <3>2. /\ saves' \in Seq(Seq(Queued)) /\ saves' # <<>>
            /\ \A i \in 1..Len(saves') : \E j \in 1..Len(saves) : saves'[i] = saves[j]
            /\ \A q : Held(q, saves) /\ (saves' = Tail(saves) \/ (q \in Members(saves[2]) => q \in Members(saves[1]))) =>
                 Held(q, saves') /\ (q \in Members(saves[1]) => q \in Members(saves'[1]))
        BY <2>1, <2>2, <3>1, WriteEnds
      <3> QED BY <2>1, <3>2, Zenon
    <2>4. OfflineTypes' BY <1>t, <2>1, <2>3 DEF OfflineTypes
    <2>5. QueuesWereEntered' BY <1>t, <2>1, <2>3 DEF QueuesWereEntered, Entered
    <2>6. RequestsAreHeld' BY <1>t, <2>1, <2>3 DEF RequestsAreHeld, Entered
    <2>7. SyncsHadRequests' /\ O!ReconnectingIsTried'
      BY <1>t, <2>1 DEF SyncsHadRequests, O!ReconnectingIsTried, Entered
    <2> QED BY <2>4, <2>5, <2>6, <2>7 DEF OfflineInv
  <1>1. CASE O!Load
    <2>1. /\ loading /\ ~loading' /\ loading' = FALSE /\ queue' = read
          /\ UNCHANGED <<status, chains, saves, read, enqueuing, syncInProgress, risked, cleared, alive>>
      BY <1>1 DEF O!Load, O!connection
    <2>2. OfflineTypes' BY <1>t, <2>1 DEF OfflineTypes
    <2>3. QueuesWereEntered' BY <1>t, <2>1 DEF QueuesWereEntered, Entered
    <2>4. RequestsAreHeld' BY <1>t, <2>1 DEF RequestsAreHeld, Entered, Held
    <2>5. SyncsHadRequests' /\ O!ReconnectingIsTried'
      BY <1>t, <2>1 DEF SyncsHadRequests, O!ReconnectingIsTried, Entered
    <2> QED BY <2>2, <2>3, <2>4, <2>5 DEF OfflineInv
  <1>2. ASSUME NEW r \in Queued, O!Enqueue(r) PROVE OfflineInv'
    <2>1. /\ enqueuing[r] = "new" /\ enqueuing' = [enqueuing EXCEPT ![r] = "before"]
          /\ UNCHANGED <<status, chains, saves, queue, loading, read, syncInProgress, risked, cleared, alive>>
      BY <1>2 DEF O!Enqueue, O!connection
    <2>2. OfflineTypes' BY <1>t, <2>1 DEF OfflineTypes
    <2>3. \A q \in Queued : Entered(q)' <=> Entered(q) BY <1>t, <2>1 DEF Entered, OfflineTypes
    <2>4. QueuesWereEntered' /\ RequestsAreHeld' BY <1>r, <2>1, <2>3
    <2>6. SyncsHadRequests' /\ O!ReconnectingIsTried'
      BY <1>t, <2>1, <2>3 DEF SyncsHadRequests, O!ReconnectingIsTried
    <2> QED BY <2>2, <2>4, <2>6 DEF OfflineInv
  <1>3. ASSUME NEW r \in Queued, O!Enqueued(r) PROVE OfflineInv'
    <2>1. /\ enqueuing[r] = "before" /\ enqueuing' = [enqueuing EXCEPT ![r] = "after"]
          /\ queue' = Append(queue, r) /\ saves' = Append(saves, queue')
          /\ risked' = IF loading THEN risked \cup {r} \cup Members(saves[1]) ELSE risked
          /\ UNCHANGED <<status, chains, loading, read, syncInProgress, cleared, alive>>
      BY <1>3, <1>m DEF O!Enqueued, O!connection, O!Persisted
    <2>2. queue' \in Seq(Queued) /\ Members(queue') = Members(queue) \cup {r}
      <3>1. queue \in Seq(Queued) BY <1>t DEF OfflineTypes
      <3> QED BY <2>1, <3>1, QueueGrows
    <2>w. /\ saves' \in Seq(Seq(Queued)) /\ saves' # <<>> /\ saves'[1] = saves[1]
          /\ \A i \in 1..Len(saves') : saves'[i] = queue' \/ \E j \in 1..Len(saves) : saves'[i] = saves[j]
          /\ \A q \in Members(queue') :
               Held(q, saves) \/ (\A i \in 1..Len(saves) : q \notin Members(saves[i])) => Held(q, saves')
      <3>1. saves \in Seq(Seq(Queued)) /\ saves # <<>> BY <1>t DEF OfflineTypes
      <3>2. Asks(saves', saves, queue') BY <2>1 DEF Asks
      <3> QED BY <2>2, <3>1, <3>2, WriteComes, Zenon
    <2>3. OfflineTypes' BY <1>t, <2>1, <2>2, <2>w DEF OfflineTypes
    <2>4. Entered(r)' /\ ~Entered(r) /\ \A q \in Queued \ {r} : Entered(q)' <=> Entered(q)
      BY <1>t, <2>1 DEF Entered, OfflineTypes
    <2>e. Members(queue) \cup Members(read) \subseteq Queued BY <1>t, MembersAre DEF OfflineTypes
    <2>5. QueuesWereEntered'
      <3>1. \A q \in Queued : Entered(q) => Entered(q)' BY <2>4
      <3> QED BY <1>m, <1>t, <2>1, <2>2, <2>4, <2>e, <2>w, <3>1 DEF QueuesWereEntered
    <2>6. RequestsAreHeld'
      <3> SUFFICES ASSUME NEW q \in Queued, q \notin risked', q \notin cleared', Entered(q)'
                   PROVE  ~loading /\ q \in Members(queue') /\ Held(q, saves') BY <2>1 DEF RequestsAreHeld
      <3>1. q \notin risked /\ q \notin cleared BY <2>1
      <3>2. ~loading BY <1>t, <2>1, <2>4, <3>1 DEF RequestsAreHeld
      <3>3. q # r => Held(q, saves) /\ q \in Members(queue) BY <1>t, <2>4, <3>1, <3>2 DEF RequestsAreHeld
      <3>4. q = r => \A i \in 1..Len(saves) : q \notin Members(saves[i])
        BY <1>t, <2>4 DEF QueuesWereEntered
      <3> QED BY <2>2, <2>w, <3>2, <3>3, <3>4
    <2>7. SyncsHadRequests' /\ O!ReconnectingIsTried'
      BY <1>t, <2>1, <2>4 DEF SyncsHadRequests, O!ReconnectingIsTried
    <2> QED BY <2>3, <2>5, <2>6, <2>7 DEF OfflineInv
  (* What a sync does, with the queue as it is.                            *)
  <1>s. ASSUME O!SyncStarts, UNCHANGED queue, \A q \in Queued : Entered(q) => Entered(q)'
        PROVE  SyncsHadRequests' /\ syncInProgress' \in BOOLEAN
    <2>1. syncInProgress' = (syncInProgress \/ (status = "online" /\ queue # <<>>))
      BY <1>s DEF O!SyncStarts
    <2>2. ASSUME queue # <<>> PROVE \E q \in Queued : Entered(q)
      <3>1. queue \in Seq(Queued) BY <1>t DEF OfflineTypes
      <3>2. PICK q \in Queued : q \in Members(queue) BY <2>2, <3>1, MembersAre
      <3> QED BY <1>t, <3>2 DEF QueuesWereEntered
    <2>3. syncInProgress' => \E q \in Queued : Entered(q) BY <1>t, <2>1, <2>2 DEF SyncsHadRequests
    <2> QED BY <1>s, <2>1, <2>3 DEF SyncsHadRequests
  <1>4. ASSUME NEW r \in Queued, O!EnqueueEnds(r) PROVE OfflineInv'
    <2>1. /\ enqueuing[r] = "after" /\ enqueuing' = [enqueuing EXCEPT ![r] = "done"] /\ O!SyncStarts
          /\ UNCHANGED <<status, chains, saves, queue, loading, read, risked, cleared, alive>>
      BY <1>4 DEF O!EnqueueEnds, O!connection
    <2>2. \A q \in Queued : Entered(q)' <=> Entered(q) BY <1>t, <2>1 DEF Entered, OfflineTypes
    <2>3. SyncsHadRequests' /\ syncInProgress' \in BOOLEAN BY <1>s, <2>1, <2>2
    <2>4. OfflineTypes' BY <1>t, <2>1, <2>3 DEF OfflineTypes
    <2>5. QueuesWereEntered' /\ RequestsAreHeld' BY <1>r, <2>1, <2>2
    <2>7. O!ReconnectingIsTried' BY <1>t, <2>1 DEF O!ReconnectingIsTried
    <2> QED BY <2>3, <2>4, <2>5, <2>7 DEF OfflineInv
  <1>5. CASE O!Sync
    <2>1. /\ O!SyncStarts
          /\ UNCHANGED <<status, chains, saves, queue, loading, read, enqueuing, risked, cleared, alive>>
      BY <1>5 DEF O!Sync, O!connection
    <2>2. \A q \in Queued : Entered(q)' <=> Entered(q) BY <2>1 DEF Entered
    <2>3. SyncsHadRequests' /\ syncInProgress' \in BOOLEAN BY <1>s, <2>1, <2>2
    <2>4. OfflineTypes' BY <1>t, <2>1, <2>3 DEF OfflineTypes
    <2>5. QueuesWereEntered' /\ RequestsAreHeld' BY <1>r, <2>1, <2>2
    <2>6. O!ReconnectingIsTried' BY <1>t, <2>1 DEF O!ReconnectingIsTried
    <2> QED BY <2>3, <2>4, <2>5, <2>6 DEF OfflineInv
  <1>6. CASE O!ClearQueue
    <2> DEFINE none == <<>>
    <2>1. /\ queue' = none /\ saves' = Append(saves, none)
          /\ cleared' = cleared \cup Members(saves[1]) \cup Members(queue)
          /\ UNCHANGED <<status, chains, loading, read, enqueuing, syncInProgress, risked, alive>>
      BY <1>6, <1>m DEF O!ClearQueue, O!connection, O!Persisted
    <2>2. none \in Seq(Queued) /\ Members(none) = {} BY EmptyQueue
    <2> HIDE DEF none
    <2>w. /\ saves' \in Seq(Seq(Queued)) /\ saves' # <<>>
          /\ \A i \in 1..Len(saves') : saves'[i] = none \/ \E j \in 1..Len(saves) : saves'[i] = saves[j]
      <3>1. saves \in Seq(Seq(Queued)) /\ saves # <<>> BY <1>t DEF OfflineTypes
      <3>2. Asks(saves', saves, none) BY <2>1 DEF Asks
      <3> QED BY <2>2, <3>1, <3>2, WriteComes
    <2>3. OfflineTypes' BY <1>t, <2>1, <2>2, <2>w DEF OfflineTypes
    <2>4. QueuesWereEntered' BY <1>t, <2>1, <2>2, <2>w DEF QueuesWereEntered, Entered
    <2>5. RequestsAreHeld'
      <3>1. ASSUME NEW q \in Queued, q \notin risked', q \notin cleared' PROVE ~Entered(q)'
        BY <1>t, <2>1, <3>1 DEF RequestsAreHeld, Entered
      <3> QED BY <3>1 DEF RequestsAreHeld
    <2>6. SyncsHadRequests' /\ O!ReconnectingIsTried'
      BY <1>t, <2>1 DEF SyncsHadRequests, O!ReconnectingIsTried, Entered
    <2> QED BY <2>3, <2>4, <2>5, <2>6 DEF OfflineInv
  <1>7. CASE O!Reload
    <2>1. /\ queue' = <<>> /\ loading' = TRUE /\ read' = saves[1] /\ syncInProgress' = FALSE
          /\ enqueuing' = [q \in Queued |-> IF q \in {r \in Queued : enqueuing[r] = "before"} THEN "new"
                             ELSE IF enqueuing[q] = "after" THEN "done" ELSE enqueuing[q]]
          /\ chains' = <<>> /\ status' \in {"online", "offline"} /\ alive' = TRUE
          /\ saves' = <<saves[1]>> /\ risked' = risked \cup (Members(queue) \ Members(saves[1]))
          /\ UNCHANGED cleared BY <1>7, <1>m DEF O!Reload
    <2>2. enqueuing' \in [Queued -> {"new", "before", "after", "done"}]
          /\ \A q \in Queued : Entered(q)' <=> Entered(q) BY <1>t, <2>1 DEF OfflineTypes, Entered
    <2>w. /\ saves' \in Seq(Seq(Queued)) /\ saves' # <<>> /\ saves'[1] = saves[1]
          /\ Len(saves') = 1 /\ \A i \in 1..Len(saves') : i = 1 BY <1>m, <2>1
    <2>3. OfflineTypes'
      <3>1. loading' \in BOOLEAN /\ alive' \in BOOLEAN /\ syncInProgress' \in BOOLEAN BY <2>1
      <3>2. status' \in {"online", "offline", "reconnecting"} BY <2>1
      <3>3. chains' \in Seq(1..ReconnectAttempts) /\ queue' \in Seq(Queued) /\ read' \in Seq(Queued)
        BY <1>m, <2>1
      <3> QED BY <2>2, <2>w, <3>1, <3>2, <3>3 DEF OfflineTypes
    <2>4. QueuesWereEntered' BY <1>m, <1>t, <2>1, <2>2, <2>w, EmptyQueue DEF QueuesWereEntered
    <2>5. RequestsAreHeld'
      <3> SUFFICES ASSUME NEW q \in Queued, q \notin risked', q \notin cleared', Entered(q)'
                   PROVE  q \in Members(saves[1]) BY <2>1, <2>w DEF RequestsAreHeld, Held
      <3> QED BY <1>t, <2>1, <2>2 DEF RequestsAreHeld
    <2>6. SyncsHadRequests' /\ O!ReconnectingIsTried' BY <2>1 DEF SyncsHadRequests, O!ReconnectingIsTried
    <2> QED BY <2>3, <2>4, <2>5, <2>6 DEF OfflineInv
  <1>8. CASE O!WindowOnline
    <2>1. /\ status' = "reconnecting" /\ chains' = Append(chains, 1) /\ UNCHANGED O!requests /\ alive' = alive
      BY <1>8 DEF O!WindowOnline
    <2>2. chains' \in Seq(1..ReconnectAttempts) /\ chains' # <<>>
      <3>1. chains \in Seq(1..ReconnectAttempts) /\ 1 \in 1..ReconnectAttempts
        BY <1>t, <1>n DEF OfflineTypes
      <3> QED BY <2>1, <3>1, QueueGrows
    <2> QED BY <1>t, <2>1, <2>2, ConnectionChanges DEF OfflineTypes
  <1>9. CASE O!WindowOffline
    <2>1. status' = "offline" /\ UNCHANGED O!requests /\ chains' = chains /\ alive' = alive
      BY <1>9 DEF O!WindowOffline
    <2> QED BY <1>t, <2>1, ConnectionChanges DEF OfflineTypes
  <1>10. CASE O!Dispose
    <2>1. /\ alive' = FALSE /\ chains' \in {chains} \cup {O!Ended(i) : i \in DOMAIN chains}
          /\ UNCHANGED O!requests /\ status' = status BY <1>10 DEF O!Dispose
    <2>2. chains' \in Seq(1..ReconnectAttempts)
      <3>1. chains \in Seq(1..ReconnectAttempts) BY <1>t DEF OfflineTypes
      <3> QED BY <2>1, <3>1, ChainEnds DEF O!Ended, Cut
    <2> QED BY <1>t, <2>1, <2>2, ConnectionChanges DEF OfflineTypes
  <1>11. ASSUME NEW i \in DOMAIN chains, O!PingAnswers(i) PROVE OfflineInv'
    <2>1. status' = "online" /\ chains' = Cut(chains, i) /\ UNCHANGED O!requests /\ alive' = alive
      BY <1>11 DEF O!PingAnswers, O!Ended, Cut
    <2>2. chains' \in Seq(1..ReconnectAttempts)
      <3>1. chains \in Seq(1..ReconnectAttempts) BY <1>t DEF OfflineTypes
      <3> QED BY <2>1, <3>1, ChainEnds
    <2> QED BY <1>t, <2>1, <2>2, ConnectionChanges DEF OfflineTypes
  <1>12. ASSUME NEW i \in DOMAIN chains, O!PingFails(i) PROVE OfflineInv'
    <2>0. UNCHANGED O!requests /\ alive' = alive BY <1>12 DEF O!PingFails
    <2>t. chains \in Seq(1..ReconnectAttempts) /\ alive \in BOOLEAN
          /\ status \in {"online", "offline", "reconnecting"} BY <1>t DEF OfflineTypes
    <2>1. CASE chains[i] < ReconnectAttempts
      <3>1. chains' = [chains EXCEPT ![i] = @ + 1] /\ status' = status BY <1>12, <2>1 DEF O!PingFails
      <3>2. chains[i] + 1 \in 1..ReconnectAttempts BY <1>n, <2>t, <2>1
      <3>3. chains' \in Seq(1..ReconnectAttempts) /\ chains' # <<>> BY <2>t, <3>1, <3>2
      <3> QED BY <2>0, <2>t, <3>1, <3>3, ConnectionChanges
    <2>2. CASE ~(chains[i] < ReconnectAttempts)
      <3>1. chains' = Cut(chains, i) /\ status' = "offline" BY <1>12, <2>2 DEF O!PingFails, O!Ended, Cut
      <3>2. chains' \in Seq(1..ReconnectAttempts) BY <2>t, <3>1, ChainEnds
      <3> QED BY <2>0, <2>t, <3>1, <3>2, ConnectionChanges
    <2> QED BY <2>1, <2>2
  <1>13. CASE UNCHANGED O!vars
    <2>1. UNCHANGED <<status, chains, saves, queue, loading, read, enqueuing, syncInProgress, risked, cleared, alive>>
      BY <1>13 DEF O!vars
    <2> QED BY <2>1 DEF OfflineInv, OfflineTypes, QueuesWereEntered, RequestsAreHeld, SyncsHadRequests,
         O!ReconnectingIsTried, Entered, Members, Held
  <1> QED
    BY <1>0, <1>1, <1>2, <1>3, <1>4, <1>5, <1>6, <1>7, <1>8, <1>9, <1>10, <1>11, <1>12, <1>13 DEF O!Next

LEMMA OfflineImplies == OfflineInv => O!TypeOK /\ O!RequestsAreKept /\ O!ReconnectingIsTried
  <1> SUFFICES ASSUME OfflineInv PROVE O!TypeOK /\ O!RequestsAreKept BY DEF OfflineInv
  <1>1. /\ saves # <<>> /\ O!Range(queue) = Members(queue) /\ Members(queue) \subseteq Queued
        /\ DOMAIN saves = 1..Len(saves) /\ 1 \in 1..Len(saves) /\ Len(saves) \in 1..Len(saves)
        /\ \A i \in 1..Len(saves) : O!Range(saves[i]) = Members(saves[i]) /\ Members(saves[i]) \subseteq Queued
    <2>1. saves \in Seq(Seq(Queued)) /\ saves # <<>> /\ queue \in Seq(Queued) BY DEF OfflineInv, OfflineTypes
    <2>2. /\ DOMAIN saves = 1..Len(saves) /\ 1 \in 1..Len(saves) /\ Len(saves) \in 1..Len(saves)
          /\ \A i \in 1..Len(saves) : saves[i] \in Seq(Queued) BY <2>1
    <2> QED BY <2>1, <2>2, MembersAre
  <1>2. O!TypeOK
    <2>1. \A i \in DOMAIN chains : chains[i] \in 1..ReconnectAttempts
      <3>1. chains \in Seq(1..ReconnectAttempts) BY DEF OfflineInv, OfflineTypes
      <3>2. ASSUME NEW X, NEW s \in Seq(X), NEW i \in DOMAIN s PROVE s[i] \in X OBVIOUS
      <3> QED BY <3>1, <3>2
    <2>2. loading \in BOOLEAN /\ alive \in BOOLEAN BY Zenon DEF OfflineInv, OfflineTypes
    <2>3. status \in {"online", "offline", "reconnecting"} BY Zenon DEF OfflineInv, OfflineTypes
    <2> QED BY <1>1, <2>1, <2>2, <2>3 DEF O!TypeOK
  <1>3. O!RequestsAreKept
    <2>1. \A i \in 1..Len(saves) : 1 <= i OBVIOUS
    <2> QED
      BY <1>1, <2>1 DEF OfflineInv, RequestsAreHeld, SyncsHadRequests, Entered, Held, O!RequestsAreKept, O!Stored
  <1> QED BY <1>2, <1>3

-----------------------------------------------------------------------------
(* data_seeder.js.                                                         *)
LEMMA SeederStarts == D!SeederInit => SeederInv
  <1> SUFFICES ASSUME D!SeederInit PROVE SeederInv OBVIOUS
  <1>1. /\ store \in [Stores -> {{}, {"before"}}] /\ ~seeding /\ phase = "idle"
        /\ options \in [backup : BOOLEAN, dry_run : BOOLEAN, stop : BOOLEAN, rollback : BOOLEAN]
        /\ seed_done = {} /\ seed_failed = {} /\ trying = D!NoStore
        /\ seed_snapshots = Nothing /\ restoring = {} BY DEF D!SeederInit, D!Options
  <1>2. store \in Contents BY <1>1 DEF Contents
  <1>3. SeederTypes BY <1>1, <1>2 DEF SeederTypes
  <1>4. SeedingIsUnderWay BY <1>1 DEF SeedingIsUnderWay
  <1>5. TriedIsReady /\ DoneIsReady BY <1>1 DEF TriedIsReady, DoneIsReady
  <1>6. BackupIsHeld /\ RestoredIsBackup BY <1>1 DEF BackupIsHeld, RestoredIsBackup
  <1> QED BY <1>3, <1>4, <1>5, <1>6 DEF SeederInv

LEMMA SeederKeeps == SeederInv /\ [D!SeederNext]_(D!seeder_vars) => SeederInv'
  <1> SUFFICES ASSUME SeederInv, [D!SeederNext]_(D!seeder_vars) PROVE SeederInv' OBVIOUS
  <1>t. /\ SeederTypes /\ SeedingIsUnderWay /\ TriedIsReady /\ DoneIsReady
        /\ BackupIsHeld /\ RestoredIsBackup BY DEF SeederInv
  <1>1. ASSUME NEW o \in D!Options, D!Seed(o) PROVE SeederInv'
    <2>1. /\ ~seeding /\ seeding' /\ options' = o
          /\ o \in [backup : BOOLEAN, dry_run : BOOLEAN, stop : BOOLEAN, rollback : BOOLEAN]
          /\ phase' \in {"backup", "seeding"}
          /\ seed_done' = {} /\ seed_failed' = {} /\ seed_snapshots' = Nothing
          /\ UNCHANGED <<store, trying, restoring>> BY <1>1 DEF D!Seed, D!Options
    <2>2. trying = D!NoStore /\ restoring = {}
      BY <1>t, <2>1 DEF SeedingIsUnderWay, TriedIsReady, RestoredIsBackup
    <2>3. trying' = D!NoStore BY <2>1, <2>2
    <2>4. SeederTypes' BY <1>t, <2>1 DEF SeederTypes
    <2>5. SeedingIsUnderWay' BY <2>1 DEF SeedingIsUnderWay
    <2>6. TriedIsReady' /\ DoneIsReady' BY <2>1, <2>3 DEF TriedIsReady, DoneIsReady, D!NoStore
    <2>7. BackupIsHeld' /\ RestoredIsBackup' BY <2>1, <2>2 DEF BackupIsHeld, RestoredIsBackup
    <2> QED BY <2>4, <2>5, <2>6, <2>7 DEF SeederInv
  <1>2. ASSUME NEW stores \in SUBSET Stores, D!BackedUp(stores) PROVE SeederInv'
    <2>1. /\ seeding /\ phase = "backup" /\ phase' = "seeding"
          /\ seed_snapshots' = [n \in Stores |-> IF n \in stores THEN store[n] ELSE {}]
          /\ UNCHANGED <<store, seeding, options, seed_done, seed_failed, trying, restoring>>
      BY <1>2 DEF D!BackedUp
    <2>2. trying = D!NoStore /\ trying' = D!NoStore BY <1>t, <2>1 DEF TriedIsReady
    <2>3. SeederTypes'
      <3>1. seed_snapshots' \in Contents BY <1>t, <2>1 DEF SeederTypes, Contents
      <3> QED BY <1>t, <2>1, <3>1 DEF SeederTypes
    <2>4. SeedingIsUnderWay' BY <2>1 DEF SeedingIsUnderWay
    <2>5. TriedIsReady' /\ DoneIsReady'
      BY <1>t, <2>1, <2>2 DEF TriedIsReady, DoneIsReady, UsesAreOver, D!NoStore
    <2>6. BackupIsHeld' BY <1>t, <2>1 DEF BackupIsHeld, SeederTypes
    <2>7. RestoredIsBackup' BY <1>t, <2>1 DEF RestoredIsBackup
    <2> QED BY <2>3, <2>4, <2>5, <2>6, <2>7 DEF SeederInv
  <1>3. CASE D!BackupFails
    <2>1. /\ seeding /\ phase = "backup" /\ phase' = "stuck"
          /\ UNCHANGED <<store, seeding, options, seed_done, seed_failed, trying, seed_snapshots, restoring>>
      BY <1>3 DEF D!BackupFails
    <2>2. trying = D!NoStore /\ trying' = D!NoStore BY <1>t, <2>1 DEF TriedIsReady
    <2>3. SeederTypes' BY <1>t, <2>1 DEF SeederTypes
    <2>4. SeedingIsUnderWay' BY <2>1 DEF SeedingIsUnderWay
    <2>5. TriedIsReady' /\ DoneIsReady'
      BY <1>t, <2>1, <2>2 DEF TriedIsReady, DoneIsReady, UsesAreOver, D!NoStore
    <2>6. BackupIsHeld' /\ RestoredIsBackup' BY <1>t, <2>1 DEF BackupIsHeld, RestoredIsBackup
    <2> QED BY <2>3, <2>4, <2>5, <2>6 DEF SeederInv
  <1>4. CASE D!Seeded
    <2>1. /\ trying # D!NoStore /\ seed_done' = seed_done \cup {trying.name} /\ trying' = D!NoStore
          /\ UNCHANGED <<seeding, options, seed_failed, phase, seed_snapshots, restoring>>
      BY <1>4 DEF D!Seeded, D!NoStore
    <2>2. phase = "seeding" /\ trying.name \in Stores /\ UsesAreOver(trying.name)
      BY <1>t, <2>1 DEF TriedIsReady
    <2>3. store' \in Contents /\ \A n \in Stores : store[n] \subseteq store'[n]
      <3>1. store' = store \/ store' = [store EXCEPT ![trying.name] = @ \cup {"seeded"}]
        BY <1>4 DEF D!Seeded
      <3> QED BY <1>t, <2>2, <3>1 DEF SeederTypes, Contents
    <2>4. SeederTypes' BY <1>t, <2>1, <2>2, <2>3 DEF SeederTypes
    <2>5. SeedingIsUnderWay' /\ TriedIsReady' BY <1>t, <2>1 DEF SeedingIsUnderWay, TriedIsReady, D!NoStore
    <2>6. DoneIsReady' BY <1>t, <2>1, <2>2 DEF DoneIsReady, UsesAreOver
    <2>7. BackupIsHeld' BY <1>t, <2>1, <2>3 DEF BackupIsHeld
    <2>8. RestoredIsBackup' BY <1>t, <2>1, <2>2 DEF RestoredIsBackup
    <2> QED BY <2>4, <2>5, <2>6, <2>7, <2>8 DEF SeederInv
  <1>5. CASE D!TryFails
    <2>1. /\ trying # D!NoStore /\ trying.tries < 3 /\ trying' = [trying EXCEPT !.tries = @ + 1]
          /\ UNCHANGED <<store, seeding, options, seed_done, seed_failed, phase, seed_snapshots, restoring>>
      BY <1>5 DEF D!TryFails, D!Tries
    <2>2. trying \in [name : Stores, tries : 1..3] /\ phase = "seeding" /\ UsesAreOver(trying.name)
      BY <1>t, <2>1 DEF TriedIsReady
    <2>3. trying' \in [name : Stores, tries : 1..3] /\ trying'.name = trying.name BY <2>1, <2>2
    <2>4. TriedIsReady' /\ DoneIsReady'
      BY <1>t, <2>1, <2>2, <2>3 DEF TriedIsReady, DoneIsReady, UsesAreOver
    <2>5. SeederTypes' /\ SeedingIsUnderWay' /\ BackupIsHeld' /\ RestoredIsBackup'
      BY <1>t, <2>1 DEF SeederTypes, SeedingIsUnderWay, BackupIsHeld, RestoredIsBackup
    <2> QED BY <2>4, <2>5 DEF SeederInv
  <1>6. CASE D!SeederFails
    <2>1. /\ trying # D!NoStore /\ seed_failed' = seed_failed \cup {trying.name} /\ trying' = D!NoStore
          /\ UNCHANGED <<store, options, seed_done, seed_snapshots>> BY <1>6 DEF D!SeederFails, D!NoStore
    <2>2. phase = "seeding" /\ trying.name \in Stores /\ restoring = {}
      BY <1>t, <2>1 DEF TriedIsReady, RestoredIsBackup
    <2>3. \/ UNCHANGED <<seeding, phase, restoring>>
          \/ /\ phase' = "restoring" /\ seeding' = seeding /\ seed_snapshots # Nothing
             /\ restoring' = {n \in Stores \ Unsaved_stores : seed_snapshots[n] # {}}
          \/ /\ phase' = "error" /\ ~seeding' /\ restoring' = restoring
             /\ (seed_snapshots = Nothing \/ ~options.rollback) BY <1>6 DEF D!SeederFails
    <2>4. TriedIsReady' BY <2>1 DEF TriedIsReady, D!NoStore
    <2>5. DoneIsReady' BY <1>t, <2>1 DEF DoneIsReady, UsesAreOver
    <2>6. SeederTypes' BY <1>t, <2>1, <2>2, <2>3 DEF SeederTypes
    <2>7. SeedingIsUnderWay' BY <1>t, <2>2, <2>3 DEF SeedingIsUnderWay
    <2>8. BackupIsHeld' BY <1>t, <2>1, <2>2 DEF BackupIsHeld
    <2>9. RestoredIsBackup' BY <1>t, <2>1, <2>2, <2>3 DEF RestoredIsBackup
    <2> QED BY <2>4, <2>5, <2>6, <2>7, <2>8, <2>9 DEF SeederInv
  <1>7. CASE D!Restored
    <2>1. /\ phase = "restoring" /\ restoring = {} /\ phase' = "error" /\ ~seeding'
          /\ UNCHANGED <<store, options, seed_done, seed_failed, trying, seed_snapshots, restoring>>
      BY <1>7 DEF D!Restored
    <2>2. trying = D!NoStore /\ trying' = D!NoStore BY <1>t, <2>1 DEF TriedIsReady
    <2>3. SeederTypes' /\ SeedingIsUnderWay' BY <1>t, <2>1 DEF SeederTypes, SeedingIsUnderWay
    <2>4. TriedIsReady' /\ DoneIsReady'
      BY <1>t, <2>1, <2>2 DEF TriedIsReady, DoneIsReady, UsesAreOver, D!NoStore
    <2>5. BackupIsHeld' /\ RestoredIsBackup' BY <1>t, <2>1 DEF BackupIsHeld, RestoredIsBackup
    <2> QED BY <2>3, <2>4, <2>5 DEF SeederInv
  <1>8. CASE D!Complete
    <2>1. /\ phase = "seeding" /\ trying = D!NoStore /\ phase' = "complete" /\ ~seeding'
          /\ UNCHANGED <<store, options, seed_done, seed_failed, trying, seed_snapshots, restoring>>
      BY <1>8 DEF D!Complete
    <2>2. trying' = D!NoStore BY <2>1
    <2>3. SeederTypes' /\ SeedingIsUnderWay' BY <1>t, <2>1 DEF SeederTypes, SeedingIsUnderWay
    <2>4. TriedIsReady' /\ DoneIsReady'
      BY <1>t, <2>1, <2>2 DEF TriedIsReady, DoneIsReady, UsesAreOver, D!NoStore
    <2>5. BackupIsHeld' /\ RestoredIsBackup' BY <1>t, <2>1 DEF BackupIsHeld, RestoredIsBackup
    <2> QED BY <2>3, <2>4, <2>5 DEF SeederInv
  <1>9. ASSUME NEW n \in Stores, D!Try(n) PROVE SeederInv'
    <2>1. /\ phase = "seeding" /\ UsesAreOver(n) /\ trying' = [name |-> n, tries |-> 1]
          /\ UNCHANGED <<store, seeding, options, seed_done, seed_failed, phase, seed_snapshots, restoring>>
      BY <1>9 DEF D!Try, D!Ready, UsesAreOver
    <2>2. trying' \in [name : Stores, tries : 1..3] /\ trying'.name = n BY <2>1
    <2>3. TriedIsReady' /\ DoneIsReady' BY <1>t, <2>1, <2>2 DEF TriedIsReady, DoneIsReady, UsesAreOver
    <2>4. SeederTypes' /\ SeedingIsUnderWay' /\ BackupIsHeld' /\ RestoredIsBackup'
      BY <1>t, <2>1 DEF SeederTypes, SeedingIsUnderWay, BackupIsHeld, RestoredIsBackup
    <2> QED BY <2>3, <2>4 DEF SeederInv
  <1>10. ASSUME NEW n \in Stores, D!Restore(n) PROVE SeederInv'
    <2>1. /\ phase = "restoring" /\ n \in restoring /\ store' = [store EXCEPT ![n] = seed_snapshots[n]]
          /\ restoring' = restoring \ {n}
          /\ UNCHANGED <<seeding, options, seed_done, seed_failed, trying, phase, seed_snapshots>>
      BY <1>10 DEF D!Restore
    <2>2. trying = D!NoStore /\ trying' = D!NoStore BY <1>t, <2>1 DEF TriedIsReady
    <2>3. seed_snapshots # Nothing /\ seed_snapshots \in Contents
      BY <1>t, <2>1 DEF SeederTypes, RestoredIsBackup
    <2>4. /\ store' \in Contents /\ store'[n] = seed_snapshots[n]
          /\ \A m \in Stores \ {n} : store'[m] = store[m] BY <1>t, <2>1, <2>3 DEF SeederTypes, Contents
    <2>5. SeederTypes' /\ SeedingIsUnderWay' BY <1>t, <2>1, <2>4 DEF SeederTypes, SeedingIsUnderWay
    <2>6. TriedIsReady' /\ DoneIsReady'
      BY <1>t, <2>1, <2>2 DEF TriedIsReady, DoneIsReady, UsesAreOver, D!NoStore
    <2>7. BackupIsHeld' BY <1>t, <2>1, <2>4 DEF BackupIsHeld
    <2>8. RestoredIsBackup' BY <1>t, <2>1, <2>4 DEF RestoredIsBackup
    <2> QED BY <2>5, <2>6, <2>7, <2>8 DEF SeederInv
  <1>11. ASSUME NEW n \in Stores, D!RestoreFails(n) PROVE SeederInv'
    <2>1. /\ phase = "restoring" /\ store' \in {store, [store EXCEPT ![n] = {}]}
          /\ restoring' = {} /\ phase' = "lost" /\ ~seeding'
          /\ UNCHANGED <<options, seed_done, seed_failed, trying, seed_snapshots>>
      BY <1>11 DEF D!RestoreFails
    <2>2. trying = D!NoStore /\ trying' = D!NoStore BY <1>t, <2>1 DEF TriedIsReady
    <2>3. store' \in Contents BY <1>t, <2>1 DEF SeederTypes, Contents
    <2>4. SeederTypes' /\ SeedingIsUnderWay' BY <1>t, <2>1, <2>3 DEF SeederTypes, SeedingIsUnderWay
    <2>5. TriedIsReady' /\ DoneIsReady'
      BY <1>t, <2>1, <2>2 DEF TriedIsReady, DoneIsReady, UsesAreOver, D!NoStore
    <2>6. BackupIsHeld' /\ RestoredIsBackup' BY <2>1 DEF BackupIsHeld, RestoredIsBackup
    <2> QED BY <2>4, <2>5, <2>6 DEF SeederInv
  <1>12. CASE UNCHANGED D!seeder_vars
    <2>1. UNCHANGED <<store, seeding, phase, options, seed_done, seed_failed, trying, seed_snapshots, restoring>>
      BY <1>12 DEF D!seeder_vars
    <2> QED
      BY <1>t, <2>1 DEF SeederInv, SeederTypes, SeedingIsUnderWay, TriedIsReady, DoneIsReady, BackupIsHeld,
         RestoredIsBackup, UsesAreOver, D!NoStore
  <1> QED BY <1>1, <1>2, <1>3, <1>4, <1>5, <1>6, <1>7, <1>8, <1>9, <1>10, <1>11, <1>12 DEF D!SeederNext

LEMMA SeederImplies == SeederInv => D!SeederTypeOK /\ D!SeedingIsUndone
  <1> SUFFICES ASSUME SeederInv PROVE D!SeederTypeOK /\ D!SeedingIsUndone OBVIOUS
  <1>t. /\ SeederTypes /\ TriedIsReady /\ DoneIsReady /\ BackupIsHeld /\ RestoredIsBackup BY DEF SeederInv
  <1>1. trying.tries \in 0..D!Tries BY <1>t DEF TriedIsReady, D!NoStore, D!Tries
  <1>2. D!SeederTypeOK BY <1>t, <1>1 DEF SeederTypes, Contents, D!SeederTypeOK, D!Options
  <1>3. ASSUME phase = "error", seed_snapshots # Nothing, options.rollback, NEW n \in Stores \ Unsaved_stores,
               seed_snapshots[n] # {}
        PROVE  store[n] = seed_snapshots[n] BY <1>t, <1>3 DEF RestoredIsBackup
  <1> QED BY <1>t, <1>2, <1>3 DEF DoneIsReady, BackupIsHeld, UsesAreOver, D!SeedingIsUndone

-----------------------------------------------------------------------------
(* cache_strategy.js.                                                      *)
LEMMA CacheSizes ==
  /\ IsFiniteSet(CacheKeys) /\ IsFiniteSet(CacheCalls) /\ CacheLimit \in Nat \ {0}
  /\ Nothing \notin Entries /\ C!Idle \in SetCalls /\ C!Idle.at = "none"
  /\ \A c : C!Size(c) = IF c \in LowCalls THEN 1 ELSE 3 BY LimitsAssumption, NothingAssumption
  DEF Entries, Lives, C!Idle, SetCalls, SetAts, C!Size

LEMMA CountsWith ==
  ASSUME NEW X, IsFiniteSet(X), NEW A \in SUBSET X, NEW k \in X
  PROVE  /\ k \in A => Cardinality(A \cup {k}) = Cardinality(A) /\ Cardinality(A \ {k}) = Cardinality(A) - 1
         /\ k \notin A => Cardinality(A \cup {k}) = Cardinality(A) + 1 /\ Cardinality(A \ {k}) = Cardinality(A)
         /\ Cardinality(A) \in Nat /\ (k \in A => Cardinality(A) > 0)
  <1>1. IsFiniteSet(A) /\ Cardinality(A) \in Nat BY CountsOf
  <1>2. /\ k \in A => Cardinality(A \cup {k}) = Cardinality(A) /\ Cardinality(A \ {k}) = Cardinality(A) - 1
        /\ k \notin A => Cardinality(A \cup {k}) = Cardinality(A) + 1 /\ Cardinality(A \ {k}) = Cardinality(A)
    <2>1. Cardinality(A \cup {k}) = IF k \in A THEN Cardinality(A) ELSE Cardinality(A) + 1
      BY <1>1, FS_AddElement
    <2>2. Cardinality(A \ {k}) = IF k \in A THEN Cardinality(A) - 1 ELSE Cardinality(A)
      BY <1>1, FS_RemoveElement
    <2> QED BY <1>1, <2>1, <2>2
  <1>3. k \in A => Cardinality(A) # 0 BY <1>1, FS_EmptySet
  <1> QED BY <1>1, <1>2, <1>3

LEMMA KeysWith ==
  ASSUME NEW A \in SUBSET CacheKeys, NEW k \in CacheKeys
  PROVE  /\ k \in A => Cardinality(A \cup {k}) = Cardinality(A) /\ Cardinality(A \ {k}) = Cardinality(A) - 1
         /\ k \notin A => Cardinality(A \cup {k}) = Cardinality(A) + 1 /\ Cardinality(A \ {k}) = Cardinality(A)
         /\ Cardinality(A) \in Nat
  <1>1. k \in A => Cardinality(A \cup {k}) = Cardinality(A) /\ Cardinality(A \ {k}) = Cardinality(A) - 1
    BY CacheSizes, CountsWith
  <1>2. k \notin A => Cardinality(A \cup {k}) = Cardinality(A) + 1 BY CacheSizes, CountsWith
  <1>3. k \notin A => Cardinality(A \ {k}) = Cardinality(A) BY CacheSizes, CountsWith
  <1>4. Cardinality(A) \in Nat BY CacheSizes, CountsWith
  <1> QED BY <1>1, <1>2, <1>3, <1>4

LEMMA CallTurns ==
  ASSUME CacheTypes, NEW c \in CacheCalls, NEW a, NEW v
  PROVE  /\ TurnsVictim(c, a, v) => TurnsTo(c, a, set_call[c].key, v)
         /\ TurnsKey(c, a, v) => TurnsTo(c, a, v, set_call[c].victim)
  <1> DEFINE q == set_call[c]
  <1>1. q \in SetCalls BY DEF CacheTypes
  <1> HIDE DEF q
  <1>2. /\ [q EXCEPT !.at = a, !.victim = v] = [at |-> a, key |-> q.key, victim |-> v]
        /\ [q EXCEPT !.at = a, !.key = v] = [at |-> a, key |-> v, victim |-> q.victim]
    <2> DEFINE s == [q EXCEPT !.at = a]
    <2>1. s = [at |-> a, key |-> q.key, victim |-> q.victim] BY <1>1 DEF SetCalls
    <2>2. /\ [s EXCEPT !.victim = v] = [at |-> a, key |-> q.key, victim |-> v]
          /\ [s EXCEPT !.key = v] = [at |-> a, key |-> v, victim |-> q.victim]
      <3> HIDE DEF s
      <3> QED BY <2>1
    <2> QED BY <2>2
  <1> QED BY <1>2 DEF q, CacheTypes, TurnsVictim, TurnsKey, TurnsTo

(* A queue without one of its elements.                                    *)
LEMMA QueueLoses ==
  ASSUME NEW X, NEW s \in Seq(X), Distinct(s), NEW e
  PROVE  /\ C!RemoveFirst(s, e) \in Seq(X) /\ Distinct(C!RemoveFirst(s, e))
         /\ Members(C!RemoveFirst(s, e)) = Members(s) \ {e}
  <1>1. CASE e \notin Members(s)
    <2>1. ~\E i \in 1..Len(s) : s[i] = e BY <1>1 DEF Members
    <2>2. C!RemoveFirst(s, e) = s BY <2>1, Zenon DEF C!RemoveFirst
    <2> QED BY <1>1, <2>2
  <1>2. CASE e \in Members(s)
    <2>1. PICK i \in 1..Len(s) : s[i] = e BY <1>2 DEF Members
    <2> DEFINE I == {j \in 1..Len(s) : s[j] = e}
               a == SubSeq(s, 1, i - 1)
               b == SubSeq(s, i + 1, Len(s))
               t == a \o b
    <2>2. I = {i} BY <2>1 DEF Distinct
    <2>3. C!Min(I) = i
      <3>1. C!Min(I) = CHOOSE x \in I : \A y \in I : x <= y BY Zenon DEF C!Min
      <3> HIDE DEF I
      <3> QED BY <2>1, <2>2, <3>1
    <2>4. C!RemoveFirst(s, e) = t
      <3>1. C!RemoveFirst(s, e) = C!RemoveAt(s, C!Min(I)) BY <2>1, Zenon DEF C!RemoveFirst, C!SelectInSeq
      <3>2. C!RemoveAt(s, i) = t BY DEF C!RemoveAt
      <3> QED BY <2>3, <3>1, <3>2, Zenon
    <2>5. Len(s) \in Nat /\ i \in 1..Len(s) /\ \A j \in 1..Len(s) : s[j] \in X OBVIOUS
    <2>6. a \in Seq(X) /\ Len(a) = i - 1 /\ \A j \in 1..(i - 1) : a[j] = s[j]
      <3>1. 1 \in Int /\ i - 1 \in Int /\ \A j \in 1..(i - 1) : s[j] \in X BY <2>5
      <3> QED BY <2>5, <3>1, SubSeqProperties
    <2>7. b \in Seq(X) /\ Len(b) = Len(s) - i /\ \A j \in 1..Len(b) : b[j] = s[j + i]
      <3>1. i + 1 \in Int /\ Len(s) \in Int /\ \A j \in (i + 1)..Len(s) : s[j] \in X BY <2>5
      <3> QED BY <2>5, <3>1, SubSeqProperties
    <2>8. t \in Seq(X) /\ Len(t) = Len(s) - 1
          /\ \A j \in 1..Len(t) : t[j] = IF j < i THEN s[j] ELSE s[j + 1]
      <3> HIDE DEF a, b
      <3> QED BY <2>5, <2>6, <2>7
    <2> HIDE DEF t, a, b, I
    <2>9. Distinct(t) BY <2>5, <2>8 DEF Distinct
    <2>10. \A j \in 1..Len(s) : j # i => \E l \in 1..Len(t) : t[l] = s[j]
      <3> SUFFICES ASSUME NEW j \in 1..Len(s), j # i PROVE \E l \in 1..Len(t) : t[l] = s[j] OBVIOUS
      <3>1. CASE j < i
        <4>1. j \in 1..Len(t) /\ t[j] = s[j] BY <2>5, <2>8, <3>1
        <4> QED BY <4>1
      <3>2. CASE j > i
        <4>1. j - 1 \in 1..Len(t) /\ ~(j - 1 < i) /\ (j - 1) + 1 = j BY <2>5, <2>8, <3>2
        <4>2. t[j - 1] = s[j] BY <2>8, <4>1
        <4> QED BY <4>1, <4>2
      <3> QED BY <3>1, <3>2, <2>5
    <2>11. \A l \in 1..Len(t) : \E j \in 1..Len(s) : j # i /\ t[l] = s[j] BY <2>5, <2>8
    <2>12. Members(t) = Members(s) \ {e}
      <3>1. ASSUME NEW y \in Members(t) PROVE y \in Members(s) /\ y # e
        <4>1. PICK j \in 1..Len(s) : j # i /\ y = s[j] BY <2>11, <3>1 DEF Members
        <4> QED BY <2>1, <4>1 DEF Members, Distinct
      <3>2. ASSUME NEW y \in Members(s), y # e PROVE y \in Members(t)
        <4>1. PICK j \in 1..Len(s) : j # i /\ y = s[j] BY <2>1, <3>2 DEF Members
        <4> QED BY <2>10, <4>1 DEF Members
      <3> QED BY <3>1, <3>2
    <2> QED BY <2>4, <2>8, <2>9, <2>12
  <1> QED BY <1>1, <1>2

LEMMA CacheStarts == C!Init => CacheInv
  <1> SUFFICES ASSUME C!Init PROVE CacheInv OBVIOUS
  <1> USE CacheSizes
  <1>1. /\ cache = [k \in CacheKeys |-> Nothing] /\ accessOrder = <<>> /\ warmingKeys = {} /\ sweep = {}
        /\ cache_stats = [size |-> 0, memoryUsage |-> 0] /\ set_call = [c \in CacheCalls |-> C!Idle]
        /\ missed = FALSE /\ disposed = FALSE BY DEF C!Init
  <1>2. C!Cached = {} /\ C!Low = {} /\ Inserting = {} BY <1>1 DEF C!Cached, C!Low, Inserting
  <1>3. Cardinality({}) = 0 /\ Cardinality(CacheCalls) \in Nat BY FS_EmptySet, FS_CardinalityType
  <1>4. CacheTypes /\ CallsHaveKeys
    <2>1. set_call \in [CacheCalls -> SetCalls] /\ \A c \in CacheCalls : set_call[c].at = "none"
      BY <1>1, Zenon
    <2>2. CacheTypes
      <3>1. cache \in [CacheKeys -> Entries \cup {Nothing}]
        <4>1. Nothing \in Entries \cup {Nothing} OBVIOUS
        <4> QED BY <1>1, <4>1, Zenon
      <3>2. missed \in BOOLEAN /\ disposed \in BOOLEAN BY <1>1, Zenon
      <3>3. <<>> \in Seq(CacheKeys) OBVIOUS
      <3>4. accessOrder \in Seq(CacheKeys) BY <1>1, <3>3, Zenon
      <3> QED BY <1>1, <2>1, <3>1, <3>2, <3>4 DEF CacheTypes
    <2> QED BY <2>1, <2>2 DEF CallsHaveKeys
  <1>5. MemoryIsKept /\ CacheHasRoom
    <2>1. C!Cached \ C!Low = {} BY <1>2
    <2>2. MemoryIsKept BY <1>1, <1>2, <1>3, <2>1 DEF MemoryIsKept, StatsAre
    <2>3. CacheHasRoom BY <1>2, <1>3 DEF CacheHasRoom
    <2> QED BY <2>2, <2>3
  <1>6. OrderIsKept BY <1>1, <1>2, EmptyQueue DEF OrderIsKept
  <1> QED BY <1>4, <1>5, <1>6 DEF CacheInv

(* A key that goes, if it was there.                                       *)
LEMMA KeyGoes ==
  ASSUME CacheTypes, OrderIsKept, NEW k \in CacheKeys, C!Deleted(k)
  PROVE  /\ cache' \in [CacheKeys -> Entries \cup {Nothing}] /\ accessOrder' \in Seq(CacheKeys)
         /\ warmingKeys' \subseteq CacheKeys /\ OrderIsKept'
         /\ C!Cached' = C!Cached \ {k} /\ C!Cached \in SUBSET CacheKeys
         /\ MemoryIsKept => MemoryIsKept'
  <1> USE CacheSizes
  <1>1. /\ cache' = [cache EXCEPT ![k] = Nothing] /\ accessOrder' = C!RemoveFirst(accessOrder, k)
        /\ cache_stats' = IF cache[k] = Nothing THEN cache_stats
                          ELSE [size |-> C!Cardinality(C!Cached) - 1,
                                memoryUsage |-> C!Memory(cache_stats.memoryUsage - C!Size(cache[k].by))]
        /\ warmingKeys' = warmingKeys \ {k} BY DEF C!Deleted
  <1>2. cache' \in [CacheKeys -> Entries \cup {Nothing}] /\ \A j \in CacheKeys : cache'[j] = IF j = k THEN Nothing ELSE cache[j]
    BY <1>1 DEF CacheTypes
  <1>3. /\ C!Cached' = C!Cached \ {k} /\ C!Low' = C!Low \ {k} /\ C!Cached \in SUBSET CacheKeys
        /\ C!Low \in SUBSET CacheKeys /\ (C!Cached' \ C!Low') = (C!Cached \ C!Low) \ {k}
        /\ (k \in C!Low <=> k \in C!Cached /\ cache[k].by \in LowCalls) /\ (k \in C!Cached <=> cache[k] # Nothing)
    BY <1>2 DEF C!Cached, C!Low
  <1>4. accessOrder' \in Seq(CacheKeys) /\ OrderIsKept' /\ warmingKeys' \subseteq CacheKeys
    <2>1. accessOrder \in Seq(CacheKeys) /\ Distinct(accessOrder) /\ Members(accessOrder) = C!Cached
          /\ warmingKeys \subseteq C!Cached BY DEF CacheTypes, OrderIsKept
    <2>2. accessOrder' \in Seq(CacheKeys) /\ Members(accessOrder') = C!Cached \ {k} /\ Distinct(accessOrder')
      BY <1>1, <2>1, QueueLoses
    <2> QED BY <1>1, <1>3, <2>1, <2>2 DEF OrderIsKept
  <1>5. ASSUME MemoryIsKept PROVE MemoryIsKept'
    <2> DEFINE A == C!Low
               B == C!Cached \ C!Low
    <2>1. /\ k \in C!Cached => Cardinality(C!Cached \ {k}) = Cardinality(C!Cached) - 1
          /\ k \in A => Cardinality(A \ {k}) = Cardinality(A) - 1
          /\ k \notin A => Cardinality(A \ {k}) = Cardinality(A)
          /\ k \in B => Cardinality(B \ {k}) = Cardinality(B) - 1
          /\ k \notin B => Cardinality(B \ {k}) = Cardinality(B)
          /\ Cardinality(A) \in Nat /\ Cardinality(B) \in Nat
      <3>1. B \in SUBSET CacheKeys /\ A \in SUBSET CacheKeys BY <1>3
      <3> HIDE DEF A, B
      <3>2. k \in C!Cached => Cardinality(C!Cached \ {k}) = Cardinality(C!Cached) - 1 BY <1>3, CountsWith
      <3>3. /\ k \in A => Cardinality(A \ {k}) = Cardinality(A) - 1
            /\ k \notin A => Cardinality(A \ {k}) = Cardinality(A)
            /\ Cardinality(A) \in Nat BY <3>1, CountsWith
      <3>4. /\ k \in B => Cardinality(B \ {k}) = Cardinality(B) - 1
            /\ k \notin B => Cardinality(B \ {k}) = Cardinality(B)
            /\ Cardinality(B) \in Nat BY <3>1, CountsWith
      <3> QED BY <3>2, <3>3, <3>4
    <2>2. CASE cache_stats = [size |-> Cardinality(C!Cached), memoryUsage |-> Nothing]
      <3>1. C!Cardinality(C!Cached) = Cardinality(C!Cached) BY CountsAlike
      <3>2. CASE cache[k] = Nothing
        <4>1. C!Cached \ {k} = C!Cached BY <1>3, <3>2
        <4> QED BY <1>1, <1>3, <2>2, <3>2, <4>1 DEF MemoryIsKept, StatsAre
      <3>3. CASE cache[k] # Nothing
        <4>1. Cardinality(C!Cached \ {k}) = Cardinality(C!Cached) - 1 BY <1>3, <2>1, <3>3
        <4>2. C!Memory(cache_stats.memoryUsage - C!Size(cache[k].by)) = Nothing BY <2>2 DEF C!Memory
        <4> QED BY <1>1, <1>3, <3>1, <3>3, <4>1, <4>2 DEF MemoryIsKept, StatsAre
      <3> QED BY <3>2, <3>3
    <2>a. CASE cache_stats = [size |-> Cardinality(C!Cached), memoryUsage |-> Cardinality(A) + 3 * Cardinality(B)]
               /\ cache_stats.memoryUsage # Nothing
      <3>a. cache_stats' = [size |-> Cardinality(C!Cached \ {k}),
                            memoryUsage |-> Cardinality(A \ {k}) + 3 * Cardinality(B \ {k})]
        <4>1. CASE cache[k] = Nothing
          <5>1. C!Cached \ {k} = C!Cached /\ A \ {k} = A /\ B \ {k} = B BY <1>3, <4>1
          <5> QED BY <1>1, <2>a, <4>1, <5>1
        <4>2. CASE cache[k] # Nothing
          <5>1. cache_stats' = [size |-> Cardinality(C!Cached) - 1,
                                memoryUsage |-> cache_stats.memoryUsage - C!Size(cache[k].by)]
            BY <1>1, <2>a, <4>2, CountsAlike DEF C!Memory
          <5>2. cache_stats.memoryUsage = Cardinality(A) + 3 * Cardinality(B) BY <2>a
          <5>3. C!Size(cache[k].by) = IF k \in A THEN 1 ELSE 3 BY <1>3, <4>2
          <5>4. k \in C!Cached /\ (k \in A <=> k \notin B) BY <1>3, <4>2
          <5> HIDE DEF A, B
          <5>5. Cardinality(C!Cached \ {k}) = Cardinality(C!Cached) - 1 BY <2>1, <5>4
          <5>7. cache_stats.memoryUsage - C!Size(cache[k].by) = Cardinality(A \ {k}) + 3 * Cardinality(B \ {k})
            <6>1. CASE k \in A BY <2>1, <5>2, <5>3, <5>4, <6>1
            <6>2. CASE k \notin A BY <2>1, <5>2, <5>3, <5>4, <6>2
            <6> QED BY <6>1, <6>2
          <5> QED BY <5>1, <5>5, <5>7, Zenon
        <4> QED BY <4>1, <4>2
      <3> QED BY <1>3, <3>a DEF MemoryIsKept, StatsAre
    <2> QED BY <1>5, <2>2, <2>a DEF MemoryIsKept, StatsAre
  <1> QED BY <1>2, <1>3, <1>4, <1>5

(* A call moves, or none does; the entries may be fewer.                   *)
LEMMA RoomStays ==
  ASSUME CacheTypes, CacheHasRoom, NEW c \in CacheCalls, NEW r \in SetCalls,
         set_call' = [set_call EXCEPT ![c] = r],
         C!Cached' \in SUBSET C!Cached, missed' = missed,
         r.at = "insert" => set_call[c].at = "insert" \/ Cardinality(C!Cached') < CacheLimit
  PROVE  CacheHasRoom'
  <1> USE CacheSizes
  <1>1. C!Cached \in SUBSET CacheKeys /\ Inserting \in SUBSET CacheCalls BY DEF C!Cached, Inserting
  <1>2. /\ Cardinality(C!Cached) \in Nat /\ Cardinality(C!Cached') \in Nat
        /\ Cardinality(C!Cached') <= Cardinality(C!Cached) /\ IsFiniteSet(C!Cached) BY <1>1, CountsOf
  <1>3. Inserting' \in SUBSET CacheCalls
        /\ (Inserting' = Inserting \/ Inserting' = Inserting \ {c}
            \/ (Inserting' = Inserting \cup {c} /\ c \notin Inserting /\ r.at = "insert"))
    BY DEF CacheTypes, Inserting
  <1>4. /\ Cardinality(Inserting') <= Cardinality(CacheCalls) /\ Cardinality(Inserting') \in Nat
        /\ Cardinality(Inserting) \in Nat /\ Cardinality(CacheCalls) \in Nat BY <1>1, <1>3, CountsOf
  <1>5. ASSUME ~missed PROVE Cardinality(C!Cached') + Cardinality(Inserting') < CacheLimit + Cardinality(CacheCalls)
    <2>1. CASE Inserting' \subseteq Inserting
      <3>1. Cardinality(Inserting') <= Cardinality(Inserting) BY <1>1, <2>1, CountsOf, FS_Subset
      <3> QED BY <1>2, <1>4, <1>5, <3>1 DEF CacheHasRoom
    <2>2. CASE ~(Inserting' \subseteq Inserting)
      <3>1. Cardinality(C!Cached') < CacheLimit BY <1>3, <2>2 DEF Inserting
      <3> QED BY <1>2, <1>4, <3>1
    <2> QED BY <2>1, <2>2
  <1> QED BY <1>5 DEF CacheHasRoom

LEMMA NoCallMoves ==
  ASSUME CacheTypes, CacheHasRoom, UNCHANGED <<set_call, missed>>, C!Cached' \in SUBSET C!Cached
  PROVE  CacheHasRoom'
  <1> USE CacheSizes
  <1>1. C!Cached \in SUBSET CacheKeys /\ Inserting \in SUBSET CacheCalls /\ Inserting' = Inserting
    BY DEF C!Cached, Inserting
  <1>2. /\ Cardinality(C!Cached) \in Nat /\ Cardinality(C!Cached') \in Nat
        /\ Cardinality(C!Cached') <= Cardinality(C!Cached) /\ IsFiniteSet(C!Cached) BY <1>1, CountsOf
  <1>3. Cardinality(Inserting) \in Nat /\ Cardinality(CacheCalls) \in Nat BY <1>1, CountsOf
  <1> QED BY <1>1, <1>2, <1>3 DEF CacheHasRoom

(* The parts of the invariant that only entries disturb.                   *)
LEMMA EntriesStay ==
  ASSUME CacheInv, UNCHANGED <<cache, accessOrder, warmingKeys, cache_stats, disposed>>
  PROVE  /\ (disposed' \/ MemoryIsKept') /\ OrderIsKept' /\ C!Cached' \in SUBSET C!Cached
         /\ (sweep' \subseteq CacheKeys /\ missed' \in BOOLEAN /\ set_call' \in [CacheCalls -> SetCalls]
             => CacheTypes')
  <1>1. C!Cached' = C!Cached /\ C!Low' = C!Low BY DEF C!Cached, C!Low
  <1> QED BY <1>1 DEF CacheInv, CacheTypes, MemoryIsKept, StatsAre, OrderIsKept

LEMMA CallOfKey ==
  ASSUME CacheTypes, CallsHaveKeys, NEW c \in CacheCalls, NEW r \in SetCalls,
         set_call' = [set_call EXCEPT ![c] = r],
         r.at # "none" => r.key \in CacheKeys, r.at = "evict" => r.victim \in CacheKeys
  PROVE  set_call' \in [CacheCalls -> SetCalls] /\ CallsHaveKeys' BY DEF CacheTypes, CallsHaveKeys

(* A call moves and touches no entry.                                      *)
LEMMA OnlyTheCallMoves ==
  ASSUME CacheInv, NEW c \in CacheCalls, NEW r \in SetCalls,
         set_call' = [set_call EXCEPT ![c] = r],
         r.at # "none" => r.key \in CacheKeys, r.at = "evict" => r.victim \in CacheKeys,
         r.at = "insert" => set_call[c].at = "insert" \/ Cardinality(C!Cached) < CacheLimit,
         UNCHANGED <<cache, accessOrder, warmingKeys, cache_stats, sweep, missed, disposed>>
  PROVE  CacheInv'
  <1>1. CacheTypes /\ CallsHaveKeys /\ CacheHasRoom BY DEF CacheInv
  <1>2. set_call' \in [CacheCalls -> SetCalls] /\ CallsHaveKeys' BY <1>1, CallOfKey
  <1>3. (disposed' \/ MemoryIsKept') /\ OrderIsKept' /\ C!Cached' \in SUBSET C!Cached /\ CacheTypes'
    BY <1>1, <1>2, EntriesStay DEF CacheTypes
  <1>4. C!Cached' = C!Cached BY DEF C!Cached
  <1>5. CacheHasRoom' BY <1>1, <1>3, <1>4, RoomStays
  <1> QED BY <1>2, <1>3, <1>5 DEF CacheInv

(* Entries go, and no call moves.                                          *)
LEMMA OnlyAKeyGoes ==
  ASSUME CacheInv, NEW k \in CacheKeys, C!Deleted(k), sweep' \subseteq CacheKeys,
         UNCHANGED <<set_call, missed, disposed>>
  PROVE  CacheInv'
  <1>1. CacheTypes /\ CallsHaveKeys /\ CacheHasRoom /\ OrderIsKept BY DEF CacheInv
  <1>2. /\ cache' \in [CacheKeys -> Entries \cup {Nothing}] /\ accessOrder' \in Seq(CacheKeys)
        /\ warmingKeys' \subseteq CacheKeys /\ OrderIsKept'
        /\ C!Cached' = C!Cached \ {k} /\ C!Cached \in SUBSET CacheKeys
        /\ (MemoryIsKept => MemoryIsKept') BY <1>1, KeyGoes
  <1>3. CacheTypes' BY <1>1, <1>2 DEF CacheTypes
  <1>4. CacheHasRoom'
    <2>1. C!Cached' \in SUBSET C!Cached BY <1>2
    <2> QED BY <1>1, <2>1, NoCallMoves
  <1>5. CallsHaveKeys' BY <1>1 DEF CallsHaveKeys
  <1>6. disposed' \/ MemoryIsKept' BY <1>2 DEF CacheInv
  <1> QED BY <1>2, <1>3, <1>4, <1>5, <1>6 DEF CacheInv

(* set after its await.                                                    *)
LEMMA KeyIsInserted ==
  ASSUME CacheInv, NEW c \in CacheCalls, NEW sized \in BOOLEAN, C!Insert(c, sized)
  PROVE  CacheInv'
  <1> USE CacheSizes
  <1> DEFINE k == set_call[c].key
             e == [by |-> c, life |-> "fresh"]
             A == C!Low
             B == C!Cached \ C!Low
  <1>0. CacheTypes /\ CallsHaveKeys /\ OrderIsKept /\ CacheHasRoom /\ k \in CacheKeys
        /\ set_call[c].at = "insert" BY DEF CacheInv, CallsHaveKeys, C!Insert
  <1>1. /\ cache' = [cache EXCEPT ![k] = e]
        /\ accessOrder' = Append(C!RemoveFirst(accessOrder, k), k)
        /\ cache_stats' = [size |-> C!Cardinality(C!Cached \cup {k}),
                           memoryUsage |-> IF sized THEN Nothing ELSE C!Memory(cache_stats.memoryUsage
                             - (IF cache[k] = Nothing THEN 0 ELSE C!Size(cache[k].by)) + C!Size(c))]
        /\ warmingKeys' = IF c \in LowCalls THEN warmingKeys ELSE warmingKeys \cup {k}
        /\ sweep' = IF sweep # {} /\ cache[k] = Nothing THEN sweep \cup {k} ELSE sweep
        /\ set_call' = [set_call EXCEPT ![c] = C!Idle]
        /\ missed' = missed /\ disposed' = disposed BY DEF C!Insert, C!Touched
  <1>2. e \in Entries /\ e # Nothing /\ e.by = c BY DEF Entries, Lives
  <1> HIDE DEF k, e
  <1>3. cache' \in [CacheKeys -> Entries \cup {Nothing}]
        /\ \A j \in CacheKeys : cache'[j] = IF j = k THEN e ELSE cache[j]
    BY <1>0, <1>1, <1>2 DEF CacheTypes
  <1>4. /\ C!Cached' = C!Cached \cup {k} /\ C!Cached \in SUBSET CacheKeys
        /\ A \in SUBSET CacheKeys /\ B \in SUBSET CacheKeys /\ C!Cached' \in SUBSET CacheKeys
        /\ C!Low' = IF c \in LowCalls THEN A \cup {k} ELSE A \ {k}
        /\ C!Cached' \ C!Low' = IF c \in LowCalls THEN B \ {k} ELSE B \cup {k}
        /\ (k \in A <=> k \in C!Cached /\ cache[k].by \in LowCalls)
        /\ (k \in B <=> k \in C!Cached /\ cache[k].by \notin LowCalls) /\ (k \in C!Cached <=> cache[k] # Nothing)
    <2>1. C!Cached' = C!Cached \cup {k} /\ C!Cached \in SUBSET CacheKeys /\ (k \in C!Cached <=> cache[k] # Nothing)
      BY <1>0, <1>2, <1>3 DEF C!Cached
    <2>2. C!Low' = (IF c \in LowCalls THEN A \cup {k} ELSE A \ {k}) /\ A \in SUBSET CacheKeys
          /\ (k \in A <=> k \in C!Cached /\ cache[k].by \in LowCalls)
      BY <1>0, <1>2, <1>3 DEF C!Cached, C!Low
    <2> QED BY <1>0, <2>1, <2>2 DEF C!Low
  <1>5. CacheTypes' /\ CallsHaveKeys'
    <2>1. set_call' \in [CacheCalls -> SetCalls] /\ CallsHaveKeys' BY <1>0, <1>1, CallOfKey
    <2>2. accessOrder' \in Seq(CacheKeys) /\ sweep' \subseteq CacheKeys /\ warmingKeys' \subseteq CacheKeys
      <3>1. C!RemoveFirst(accessOrder, k) \in Seq(CacheKeys)
        BY <1>0, QueueLoses DEF CacheTypes, OrderIsKept
      <3> QED BY <1>0, <1>1, <3>1, QueueGrows DEF CacheTypes
    <2>3. missed' \in BOOLEAN /\ disposed' \in BOOLEAN BY <1>0, <1>1 DEF CacheTypes
    <2> QED BY <1>3, <2>1, <2>2, <2>3 DEF CacheTypes
  <1>6. OrderIsKept'
    <2> DEFINE s == C!RemoveFirst(accessOrder, k)
    <2>1. s \in Seq(CacheKeys) /\ Distinct(s) /\ Members(s) = C!Cached \ {k} /\ warmingKeys \subseteq C!Cached
      BY <1>0, QueueLoses DEF CacheTypes, OrderIsKept
    <2>2. accessOrder' = Append(s, k) BY <1>1
    <2> HIDE DEF s
    <2>3. Members(accessOrder') = (C!Cached \ {k}) \cup {k} /\ Distinct(accessOrder')
      BY <1>0, <2>1, <2>2, QueueGrows
    <2> QED BY <1>1, <1>4, <2>1, <2>3 DEF OrderIsKept
  <1>7. ASSUME MemoryIsKept PROVE MemoryIsKept'
    <2>0. CASE sized \/ cache_stats.memoryUsage = Nothing
      <3>1. C!Cardinality(C!Cached \cup {k}) = Cardinality(C!Cached') BY <1>4, CountsAlike
      <3> QED BY <1>1, <2>0, <3>1 DEF MemoryIsKept, StatsAre, C!Memory
    <2>a. CASE ~sized /\ cache_stats.memoryUsage # Nothing
      <3>1. /\ k \in A => Cardinality(A \cup {k}) = Cardinality(A) /\ Cardinality(A \ {k}) = Cardinality(A) - 1
            /\ k \notin A => Cardinality(A \cup {k}) = Cardinality(A) + 1 /\ Cardinality(A \ {k}) = Cardinality(A)
            /\ Cardinality(A) \in Nat
        <4>1. A \in SUBSET CacheKeys /\ k \in CacheKeys BY <1>0, <1>4
        <4> HIDE DEF A
        <4> QED BY <4>1, KeysWith, Zenon
      <3>2. /\ k \in B => Cardinality(B \cup {k}) = Cardinality(B) /\ Cardinality(B \ {k}) = Cardinality(B) - 1
            /\ k \notin B => Cardinality(B \cup {k}) = Cardinality(B) + 1 /\ Cardinality(B \ {k}) = Cardinality(B)
            /\ Cardinality(B) \in Nat
        <4>1. B \in SUBSET CacheKeys /\ k \in CacheKeys BY <1>0, <1>4
        <4> HIDE DEF B
        <4> QED BY <4>1, KeysWith, Zenon
      <3>3. cache_stats.memoryUsage = Cardinality(A) + 3 * Cardinality(B) BY <1>7, <2>a DEF MemoryIsKept, StatsAre
      <3> DEFINE old == IF cache[k] = Nothing THEN 0 ELSE C!Size(cache[k].by)
                 A2 == IF c \in LowCalls THEN A \cup {k} ELSE A \ {k}
                 B2 == IF c \in LowCalls THEN B \ {k} ELSE B \cup {k}
      <3>4. /\ (k \in A => old = 1 /\ k \notin B) /\ (k \in B => old = 3 /\ k \notin A)
            /\ (k \notin A /\ k \notin B => old = 0) /\ C!Size(c) = IF c \in LowCalls THEN 1 ELSE 3
        BY <1>4
      <3>5. cache_stats.memoryUsage - old + C!Size(c) = Cardinality(A2) + 3 * Cardinality(B2)
        <4> HIDE DEF A, B, old
        <4>1. CASE c \in LowCalls
          <5>1. A2 = A \cup {k} /\ B2 = B \ {k} /\ C!Size(c) = 1 BY <3>4, <4>1
          <5> HIDE DEF A2, B2
          <5> QED BY <3>1, <3>2, <3>3, <3>4, <5>1
        <4>2. CASE c \notin LowCalls
          <5>1. A2 = A \ {k} /\ B2 = B \cup {k} /\ C!Size(c) = 3 BY <3>4, <4>2
          <5> HIDE DEF A2, B2
          <5> QED BY <3>1, <3>2, <3>3, <3>4, <5>1
        <4> QED BY <4>1, <4>2
      <3>6. C!Low' = A2 /\ C!Cached' \ C!Low' = B2 /\ C!Cardinality(C!Cached \cup {k}) = Cardinality(C!Cached')
        BY <1>4, CountsAlike
      <3>7. cache_stats' = [size |-> C!Cardinality(C!Cached \cup {k}),
                            memoryUsage |-> cache_stats.memoryUsage - old + C!Size(c)]
        BY <1>1, <2>a DEF C!Memory
      <3> HIDE DEF A, B, old, A2, B2
      <3>8. cache_stats' = [size |-> Cardinality(C!Cached'), memoryUsage |-> Cardinality(A2) + 3 * Cardinality(B2)]
        BY <3>5, <3>6, <3>7, Zenon
      <3> QED BY <3>6, <3>8, Zenon DEF MemoryIsKept, StatsAre
    <2> QED BY <2>0, <2>a
  <1>8. CacheHasRoom'
    <2>1. Inserting' = Inserting \ {c} /\ c \in Inserting /\ Inserting \in SUBSET CacheCalls
      BY <1>0, <1>1 DEF Inserting, CacheTypes
    <2>2. Cardinality(Inserting') = Cardinality(Inserting) - 1 /\ Cardinality(Inserting) \in Nat
      BY <2>1, CountsWith
    <2>3. Cardinality(C!Cached') <= Cardinality(C!Cached) + 1 /\ Cardinality(C!Cached') \in Nat
          /\ Cardinality(C!Cached) \in Nat
      <3>1. Cardinality(C!Cached) \in Nat /\ Cardinality(C!Cached') \in Nat BY <1>4, CountsOf
      <3>2. Cardinality(C!Cached \cup {k}) = Cardinality(C!Cached) \/ Cardinality(C!Cached \cup {k}) = Cardinality(C!Cached) + 1
        <4>1. C!Cached \in SUBSET CacheKeys /\ k \in CacheKeys BY <1>0, <1>4
        <4> QED BY <4>1, KeysWith, Zenon
      <3> QED BY <1>4, <3>1, <3>2
    <2>4. Cardinality(CacheCalls) \in Nat BY FS_CardinalityType
    <2>5. ~missed => Cardinality(C!Cached) + Cardinality(Inserting) < CacheLimit + Cardinality(CacheCalls)
      BY <1>0 DEF CacheHasRoom
    <2>6. ~missed' => Cardinality(C!Cached') + Cardinality(Inserting') < CacheLimit + Cardinality(CacheCalls)
      BY <1>1, <2>2, <2>3, <2>4, <2>5
    <2> QED BY <2>6 DEF CacheHasRoom
  <1>9. disposed' \/ MemoryIsKept' BY <1>1, <1>7 DEF CacheInv
  <1> QED BY <1>5, <1>6, <1>8, <1>9 DEF CacheInv

LEMMA CacheSteps == CacheInv /\ C!Next => CacheInv'
  <1> SUFFICES ASSUME CacheInv, C!Next PROVE CacheInv' OBVIOUS
  <1> USE CacheSizes
  <1>0. CacheTypes /\ CallsHaveKeys /\ OrderIsKept /\ CacheHasRoom BY DEF CacheInv
  <1>f. /\ C!Cached \in SUBSET CacheKeys /\ Cardinality(C!Cached) \in Nat
        /\ \A X : C!Cardinality(X) = Cardinality(X)
    <2>1. C!Cached \in SUBSET CacheKeys BY DEF C!Cached
    <2> QED BY <2>1, CountsOf, CountsAlike
  <1>s. \A k \in CacheKeys : /\ C!Setting(k) \in SetCalls /\ C!Setting(k).key = k
                             /\ C!Setting(k).at \in {"victim", "insert"}
                             /\ C!Setting(k).at = "insert" => Cardinality(C!Cached) < CacheLimit
    BY <1>f DEF C!Setting, C!Full, SetCalls, SetAts
  <1>m. /\ \A c \in CacheCalls : set_call[c] \in SetCalls
        /\ \A r \in SetCalls : /\ \A a \in SetAts : [r EXCEPT !.at = a] \in SetCalls
                                                    /\ [r EXCEPT !.at = a].at = a
                                                    /\ [r EXCEPT !.at = a].key = r.key
    BY <1>0 DEF CacheTypes, SetCalls
  <1>1. ASSUME NEW c \in CacheCalls, NEW k \in CacheKeys, C!Set(c, k) PROVE CacheInv'
    BY <1>1, <1>s, OnlyTheCallMoves DEF C!Set
  <1>2. ASSUME NEW c \in CacheCalls, C!SelectVictim(c) PROVE CacheInv'
    <2>1. set_call[c].at = "victim" /\ set_call[c].key \in CacheKeys
          /\ UNCHANGED <<cache, accessOrder, warmingKeys, cache_stats, sweep, missed, disposed>>
      BY <1>0, <1>2 DEF C!SelectVictim, CallsHaveKeys
    <2>2. CASE C!Cached = {} /\ set_call' = [set_call EXCEPT ![c].at = "insert"]
      <3> DEFINE r == [set_call[c] EXCEPT !.at = "insert"]
      <3>1. set_call' = [set_call EXCEPT ![c] = r] BY <1>0, <2>2 DEF CacheTypes
      <3>2. r \in SetCalls /\ r.at = "insert" /\ r.key \in CacheKeys BY <1>m, <2>1 DEF SetAts
      <3>3. Cardinality(C!Cached) < CacheLimit BY <2>2, FS_EmptySet
      <3> HIDE DEF r
      <3> QED BY <2>1, <3>1, <3>2, <3>3, OnlyTheCallMoves
    <2>3. ASSUME NEW v \in C!Cached, set_call' = [set_call EXCEPT ![c].at = "evict", ![c].victim = v] PROVE CacheInv'
      <3> DEFINE r == [at |-> "evict", key |-> set_call[c].key, victim |-> v]
      <3>1. set_call' = [set_call EXCEPT ![c] = r]
        <4>1. TurnsVictim(c, "evict", v) BY <2>3, Zenon DEF TurnsVictim
        <4>2. TurnsTo(c, "evict", set_call[c].key, v) BY <1>0, <4>1, CallTurns
        <4> QED BY <4>2, Zenon DEF TurnsTo
      <3>2. r \in SetCalls /\ r.at = "evict" /\ r.key \in CacheKeys /\ r.victim \in CacheKeys
        BY <1>f, <2>1 DEF SetCalls, SetAts
      <3> HIDE DEF r
      <3> QED BY <2>1, <3>1, <3>2, OnlyTheCallMoves
    <2>4. C!Low \subseteq C!Cached BY DEF C!Low
    <2> QED BY <1>2, <2>2, <2>3, <2>4 DEF C!SelectVictim
  <1>3. ASSUME NEW c \in CacheCalls, C!Evict(c) PROVE CacheInv'
    <2> DEFINE v == set_call[c].victim
               r == [at |-> "insert", key |-> set_call[c].key, victim |-> Nothing]
    <2>1. v \in CacheKeys /\ set_call[c].key \in CacheKeys /\ set_call[c].at = "evict"
      BY <1>0, <1>3 DEF C!Evict, CallsHaveKeys
    <2>2. /\ C!Deleted(v) /\ missed' = (missed \/ cache[v] = Nothing)
          /\ sweep' = sweep /\ disposed' = disposed BY <1>3 DEF C!Evict
    <2>3. set_call' = [set_call EXCEPT ![c] = r]
      <3>1. TurnsVictim(c, "insert", Nothing) BY <1>3, Zenon DEF C!Evict, TurnsVictim
      <3>2. TurnsTo(c, "insert", set_call[c].key, Nothing) BY <1>0, <3>1, CallTurns
      <3> QED BY <3>2, Zenon DEF TurnsTo
    <2>4. r \in SetCalls /\ r.at = "insert" /\ r.key \in CacheKeys BY <2>1 DEF SetCalls, SetAts
    <2> HIDE DEF v, r
    <2>5. /\ cache' \in [CacheKeys -> Entries \cup {Nothing}] /\ accessOrder' \in Seq(CacheKeys)
          /\ warmingKeys' \subseteq CacheKeys /\ OrderIsKept'
          /\ C!Cached' = C!Cached \ {v} /\ (MemoryIsKept => MemoryIsKept') BY <1>0, <2>1, <2>2, KeyGoes
    <2>6. set_call' \in [CacheCalls -> SetCalls] /\ CallsHaveKeys' BY <1>0, <2>3, <2>4, CallOfKey
    <2>7. CacheTypes'
      <3>1. missed' \in BOOLEAN BY <2>2
      <3> QED BY <1>0, <2>2, <2>5, <2>6, <3>1 DEF CacheTypes
    <2>8. ASSUME ~missed' PROVE Cardinality(C!Cached') + Cardinality(Inserting') < CacheLimit + Cardinality(CacheCalls)
      <3>1. v \in C!Cached /\ ~missed BY <2>1, <2>2, <2>8 DEF C!Cached
      <3>2. Inserting' = Inserting \cup {c} /\ c \notin Inserting /\ Inserting \in SUBSET CacheCalls
        BY <1>0, <2>1, <2>3, <2>4 DEF Inserting, CacheTypes
      <3>3. Cardinality(Inserting') = Cardinality(Inserting) + 1 /\ Cardinality(Inserting) \in Nat
        BY <3>2, CountsWith
      <3>4. Cardinality(C!Cached') = Cardinality(C!Cached) - 1
        <4>1. Cardinality(C!Cached \ {v}) = Cardinality(C!Cached) - 1 BY <1>f, <2>1, <3>1, CountsWith
        <4> QED BY <2>5, <4>1
      <3>5. Cardinality(C!Cached) + Cardinality(Inserting) < CacheLimit + Cardinality(CacheCalls)
        BY <1>0, <3>1 DEF CacheHasRoom
      <3>6. Cardinality(CacheCalls) \in Nat BY FS_CardinalityType
      <3> QED BY <1>f, <3>3, <3>4, <3>5, <3>6
    <2>9. CacheHasRoom' BY <2>8 DEF CacheHasRoom
    <2>10. disposed' \/ MemoryIsKept' BY <2>2, <2>5 DEF CacheInv
    <2> QED BY <2>5, <2>6, <2>7, <2>9, <2>10 DEF CacheInv
  <1>4. ASSUME NEW c \in CacheCalls, NEW k \in CacheKeys, C!GetOrFetch(c, k) PROVE CacheInv'
    <2> DEFINE r == [at |-> "value", key |-> k, victim |-> Nothing]
    <2>1. set_call[c].at = "none" /\ C!Deleted(k) /\ sweep' = sweep /\ missed' = missed /\ disposed' = disposed
      BY <1>4 DEF C!GetOrFetch, C!Idle
    <2>2. set_call' = [set_call EXCEPT ![c] = r]
      <3>1. set_call[c].victim = Nothing BY <1>4 DEF C!GetOrFetch, C!Idle
      <3>2. TurnsKey(c, "value", k) BY <1>4, Zenon DEF C!GetOrFetch, TurnsKey
      <3>3. TurnsTo(c, "value", k, set_call[c].victim) BY <1>0, <3>2, CallTurns
      <3> QED BY <3>1, <3>3, Zenon DEF TurnsTo
    <2>3. r \in SetCalls /\ r.at = "value" /\ r.key = k BY DEF SetCalls, SetAts
    <2> HIDE DEF r
    <2>4. /\ cache' \in [CacheKeys -> Entries \cup {Nothing}] /\ accessOrder' \in Seq(CacheKeys)
          /\ warmingKeys' \subseteq CacheKeys /\ OrderIsKept'
          /\ C!Cached' = C!Cached \ {k} /\ (MemoryIsKept => MemoryIsKept') BY <1>0, <2>1, KeyGoes
    <2>5. set_call' \in [CacheCalls -> SetCalls] /\ CallsHaveKeys' BY <1>0, <2>2, <2>3, CallOfKey
    <2>6. CacheTypes' BY <1>0, <2>1, <2>4, <2>5 DEF CacheTypes
    <2>7. CacheHasRoom'
      <3>1. C!Cached' \in SUBSET C!Cached BY <2>4
      <3> QED BY <1>0, <2>1, <2>2, <2>3, <3>1, RoomStays
    <2>8. disposed' \/ MemoryIsKept' BY <2>1, <2>4 DEF CacheInv
    <2> QED BY <2>4, <2>5, <2>6, <2>7, <2>8 DEF CacheInv
  <1>5. ASSUME NEW c \in CacheCalls, NEW k \in CacheKeys, C!Update(c, k) PROVE CacheInv'
    <2> DEFINE r == [at |-> "value", key |-> k, victim |-> Nothing]
    <2>2. set_call' = [set_call EXCEPT ![c] = r]
      <3>1. set_call[c].victim = Nothing BY <1>5 DEF C!Update, C!Idle
      <3>2. TurnsKey(c, "value", k) BY <1>5, Zenon DEF C!Update, TurnsKey
      <3>3. TurnsTo(c, "value", k, set_call[c].victim) BY <1>0, <3>2, CallTurns
      <3> QED BY <3>1, <3>3, Zenon DEF TurnsTo
    <2>3. r \in SetCalls /\ r.at = "value" /\ r.key = k BY DEF SetCalls, SetAts
    <2> HIDE DEF r
    <2> QED BY <1>5, <2>2, <2>3, OnlyTheCallMoves DEF C!Update
  <1>6. ASSUME NEW c \in CacheCalls, C!ValueArrives(c) \/ C!ValueFails(c) PROVE CacheInv'
    <2>1. set_call[c].key \in CacheKeys BY <1>0, <1>6 DEF C!ValueArrives, C!ValueFails, CallsHaveKeys
    <2>2. CASE C!ValueArrives(c)
      <3>1. set_call' = [set_call EXCEPT ![c] = C!Setting(set_call[c].key)]
        BY <1>0, <2>2 DEF C!ValueArrives, CacheTypes
      <3> QED BY <1>s, <2>1, <2>2, <3>1, OnlyTheCallMoves DEF C!ValueArrives
    <2>3. CASE C!ValueFails(c) BY <2>3, OnlyTheCallMoves DEF C!ValueFails
    <2> QED BY <1>6, <2>2, <2>3
  <1>7. ASSUME NEW k \in CacheKeys, C!Get(k) PROVE CacheInv'
    <2>1. UNCHANGED <<set_call, sweep, missed, disposed>> /\ k \in C!Cached BY <1>7 DEF C!Get, C!Cached
    <2>2. CASE C!Deleted(k) BY <1>0, <2>1, <2>2, OnlyAKeyGoes DEF CacheTypes
    <2>3. CASE accessOrder' = C!Touched(k) /\ UNCHANGED <<cache, warmingKeys, cache_stats>>
      <3> DEFINE s == C!RemoveFirst(accessOrder, k)
      <3>1. s \in Seq(CacheKeys) /\ Distinct(s) /\ Members(s) = C!Cached \ {k} /\ warmingKeys \subseteq C!Cached
        BY <1>0, QueueLoses DEF CacheTypes, OrderIsKept
      <3>2. accessOrder' = Append(s, k) BY <2>3 DEF C!Touched
      <3> HIDE DEF s
      <3>3. Members(accessOrder') = (C!Cached \ {k}) \cup {k} /\ Distinct(accessOrder')
            /\ accessOrder' \in Seq(CacheKeys) BY <3>1, <3>2, QueueGrows
      <3>4. C!Cached' = C!Cached /\ C!Low' = C!Low /\ Inserting' = Inserting
        BY <2>1, <2>3 DEF C!Cached, C!Low, Inserting
      <3>5. CacheTypes' /\ CallsHaveKeys' BY <1>0, <2>1, <2>3, <3>3 DEF CacheTypes, CallsHaveKeys
      <3>6. OrderIsKept' BY <2>1, <2>3, <3>1, <3>3, <3>4 DEF OrderIsKept
      <3>7. CacheHasRoom' /\ (disposed' \/ MemoryIsKept')
        BY <1>0, <2>1, <2>3, <3>4 DEF CacheHasRoom, MemoryIsKept, StatsAre, CacheInv
      <3> QED BY <3>5, <3>6, <3>7 DEF CacheInv
    <2> QED BY <1>7, <2>2, <2>3 DEF C!Get
  <1>8. ASSUME NEW k \in CacheKeys, C!Delete(k) PROVE CacheInv'
    BY <1>0, <1>8, OnlyAKeyGoes DEF C!Delete, CacheTypes
  <1>9. ASSUME NEW k \in CacheKeys, C!WalkOn(k) PROVE CacheInv'
    <2>1. sweep' \subseteq CacheKeys /\ UNCHANGED <<set_call, missed, disposed>>
      BY <1>0, <1>9 DEF C!WalkOn, CacheTypes
    <2>2. CASE C!Deleted(k) BY <2>1, <2>2, OnlyAKeyGoes
    <2>3. CASE UNCHANGED <<cache, accessOrder, warmingKeys, cache_stats>>
      <3>1. (disposed' \/ MemoryIsKept') /\ OrderIsKept' /\ C!Cached' \in SUBSET C!Cached /\ CacheTypes'
        BY <1>0, <2>1, <2>3, EntriesStay DEF CacheTypes
      <3>2. CacheHasRoom' /\ CallsHaveKeys' BY <1>0, <2>1, <3>1, NoCallMoves DEF CallsHaveKeys
      <3> QED BY <3>1, <3>2 DEF CacheInv
    <2> QED BY <1>9, <2>2, <2>3 DEF C!WalkOn
  <1>10. ASSUME C!Walk PROVE CacheInv'
    <2>1. sweep' \subseteq CacheKeys
          /\ UNCHANGED <<cache, accessOrder, warmingKeys, cache_stats, set_call, missed, disposed>>
      BY <1>f, <1>10 DEF C!Walk
    <2>2. (disposed' \/ MemoryIsKept') /\ OrderIsKept' /\ C!Cached' \in SUBSET C!Cached /\ CacheTypes'
      BY <1>0, <2>1, EntriesStay DEF CacheTypes
    <2>3. CacheHasRoom' /\ CallsHaveKeys' BY <1>0, <2>1, <2>2, NoCallMoves DEF CallsHaveKeys
    <2> QED BY <2>2, <2>3 DEF CacheInv
  <1>11. ASSUME (\E k \in CacheKeys : C!Ages(k)) \/ C!WarmCache PROVE CacheInv'
    <2>1. UNCHANGED <<accessOrder, warmingKeys, cache_stats, set_call, sweep, missed, disposed>>
      BY <1>11 DEF C!Ages, C!WarmCache
    <2>2. cache' \in [CacheKeys -> Entries \cup {Nothing}]
          /\ \A k \in CacheKeys : /\ cache'[k] = Nothing <=> cache[k] = Nothing
                                  /\ cache[k] # Nothing => cache'[k].by = cache[k].by
      <3>1. \A e \in Entries : \A l \in Lives : [e EXCEPT !.life = l] \in Entries /\ [e EXCEPT !.life = l].by = e.by
        BY DEF Entries
      <3>2. ASSUME NEW k \in CacheKeys, C!Ages(k)
            PROVE  \E e \in Entries : cache' = [cache EXCEPT ![k] = e] /\ cache[k] # Nothing /\ e.by = cache[k].by
        <4> DEFINE l == IF cache[k].life = "fresh" THEN "stale" ELSE "expired"
                   e == [cache[k] EXCEPT !.life = l]
        <4>1. cache[k] \in Entries /\ cache[k] # Nothing BY <1>0, <3>2 DEF C!Ages, C!Live, CacheTypes
        <4>2. l \in Lives BY DEF Lives
        <4>3. cache' = [cache EXCEPT ![k] = e] BY <1>0, <3>2 DEF C!Ages, CacheTypes
        <4> HIDE DEF l
        <4>4. e \in Entries /\ e.by = cache[k].by BY <3>1, <4>1, <4>2
        <4> QED BY <4>1, <4>3, <4>4
      <3>3. ASSUME C!WarmCache, NEW k \in CacheKeys
            PROVE  /\ cache'[k] \in Entries \cup {Nothing} /\ (cache'[k] = Nothing <=> cache[k] = Nothing)
                   /\ cache[k] # Nothing => cache'[k].by = cache[k].by
        <4>1. cache[k] \in Entries \cup {Nothing} /\ "fresh" \in Lives BY <1>0 DEF CacheTypes, Lives
        <4>2. k \in warmingKeys => cache[k] \in Entries BY <1>0, <4>1 DEF OrderIsKept, C!Cached
        <4>3. cache'[k] = cache[k] \/ (k \in warmingKeys /\ cache'[k] = [cache[k] EXCEPT !.life = "fresh"])
          BY <3>3 DEF C!WarmCache
        <4> QED
          <5>1. CASE cache'[k] = cache[k] BY <4>1, <5>1
          <5>2. CASE k \in warmingKeys /\ cache'[k] = [cache[k] EXCEPT !.life = "fresh"]
            <6>1. cache[k] \in Entries /\ cache[k] # Nothing BY <4>2, <5>2
            <6>2. cache'[k] \in Entries /\ cache'[k].by = cache[k].by BY <3>1, <4>1, <5>2, <6>1
            <6> QED BY <6>1, <6>2
          <5> QED BY <4>3, <5>1, <5>2
      <3>4. CASE \E k \in CacheKeys : C!Ages(k) BY <1>0, <3>2, <3>4 DEF CacheTypes
      <3>5. CASE C!WarmCache
        <4>1. \E f : cache' = [k \in CacheKeys |-> f[k]]
          <5>1. cache' = [k \in CacheKeys |-> cache'[k]] BY <3>5 DEF C!WarmCache
          <5> QED BY <5>1
        <4> QED BY <3>3, <3>5, <4>1
      <3> QED BY <1>11, <3>4, <3>5
    <2>3. C!Cached' = C!Cached /\ C!Low' = C!Low /\ Inserting' = Inserting
      BY <2>1, <2>2 DEF C!Cached, C!Low, Inserting
    <2>4. CacheTypes' /\ CallsHaveKeys' BY <1>0, <2>1, <2>2 DEF CacheTypes, CallsHaveKeys
    <2>5. OrderIsKept' /\ CacheHasRoom' /\ (disposed' \/ MemoryIsKept')
      BY <1>0, <2>1, <2>3 DEF OrderIsKept, CacheHasRoom, MemoryIsKept, StatsAre, CacheInv
    <2> QED BY <2>4, <2>5 DEF CacheInv
  <1>12. ASSUME C!Clear \/ C!Dispose PROVE CacheInv'
    <2>1. /\ cache' = [k \in CacheKeys |-> Nothing] /\ accessOrder' = <<>> /\ warmingKeys' = {} /\ sweep' = {}
          /\ missed' = FALSE /\ set_call' = set_call
          /\ (disposed' = TRUE \/ (disposed' = disposed /\ cache_stats' = [size |-> 0, memoryUsage |-> 0]))
      BY <1>12 DEF C!Clear, C!Dispose, C!Emptied
    <2>2. C!Cached' = {} /\ C!Low' = {} /\ Cardinality({}) = 0 BY <2>1, FS_EmptySet DEF C!Cached, C!Low
    <2>3. CacheTypes'
      <3>1. cache' \in [CacheKeys -> Entries \cup {Nothing}]
        <4>1. Nothing \in Entries \cup {Nothing} OBVIOUS
        <4> QED BY <2>1, <4>1, Zenon
      <3>2. missed' \in BOOLEAN /\ disposed' \in BOOLEAN BY <1>0, <2>1, Zenon DEF CacheTypes
      <3>3. <<>> \in Seq(CacheKeys) OBVIOUS
      <3>4. accessOrder' \in Seq(CacheKeys) BY <2>1, <3>3, Zenon
      <3> QED BY <1>0, <2>1, <3>1, <3>2, <3>4 DEF CacheTypes
    <2>4. CallsHaveKeys' BY <1>0, <2>1 DEF CallsHaveKeys
    <2>5. OrderIsKept' BY <2>1, <2>2, EmptyQueue DEF OrderIsKept
    <2>6. disposed' \/ MemoryIsKept'
      <3>1. C!Cached' \ C!Low' = {} BY <2>2
      <3>2. 0 = 0 + 3 * 0 OBVIOUS
      <3>3. CASE disposed' = TRUE BY <3>3
      <3>4. CASE disposed' = disposed /\ cache_stats' = [size |-> 0, memoryUsage |-> 0]
        <4>1. MemoryIsKept' BY <2>2, <3>1, <3>2, <3>4, Zenon DEF MemoryIsKept, StatsAre
        <4> QED BY <4>1
      <3> QED BY <2>1, <3>3, <3>4
    <2>7. CacheHasRoom'
      <3>1. Inserting' \in SUBSET CacheCalls BY DEF Inserting
      <3>2. Cardinality(Inserting') <= Cardinality(CacheCalls) /\ Cardinality(Inserting') \in Nat
            /\ Cardinality(CacheCalls) \in Nat BY <3>1, CountsOf
      <3> QED BY <2>2, <3>2 DEF CacheHasRoom
    <2> QED BY <2>3, <2>4, <2>5, <2>6, <2>7 DEF CacheInv
  <1>13. ASSUME NEW c \in CacheCalls, NEW sized \in BOOLEAN, C!Insert(c, sized) PROVE CacheInv'
    BY <1>13, KeyIsInserted
  <1>14. ASSUME NEW c \in CacheCalls, C!InsertFails(c) PROVE CacheInv'
    BY <1>14, OnlyTheCallMoves DEF C!InsertFails
  <1> QED
    BY <1>1, <1>2, <1>3, <1>4, <1>5, <1>6, <1>7, <1>8, <1>9, <1>10, <1>11, <1>12, <1>13, <1>14 DEF C!Next

LEMMA CacheKeeps == CacheInv /\ [C!Next]_(C!vars) => CacheInv'
  <1>1. CacheInv /\ C!Next => CacheInv' BY CacheSteps
  <1>2. CacheInv /\ UNCHANGED C!vars => CacheInv'
    <2> SUFFICES ASSUME CacheInv, UNCHANGED C!vars PROVE CacheInv' OBVIOUS
    <2>1. UNCHANGED <<cache, accessOrder, warmingKeys, cache_stats, set_call, sweep, missed, disposed>>
      BY DEF C!vars
    <2>2. (disposed' \/ MemoryIsKept') /\ OrderIsKept' /\ C!Cached' \in SUBSET C!Cached /\ CacheTypes'
      BY <2>1, EntriesStay DEF CacheInv, CacheTypes
    <2>3. CacheHasRoom' /\ CallsHaveKeys' BY <2>1, <2>2, NoCallMoves DEF CacheInv, CallsHaveKeys
    <2> QED BY <2>2, <2>3 DEF CacheInv
  <1> QED BY <1>1, <1>2

LEMMA CacheImplies == CacheInv => C!TypeOK /\ C!CacheIsAccounted
  <1> SUFFICES ASSUME CacheInv PROVE C!TypeOK /\ C!CacheIsAccounted OBVIOUS
  <1> USE CacheSizes
  <1>0. CacheTypes /\ OrderIsKept /\ CacheHasRoom BY DEF CacheInv
  <1>1. C!ToSet(accessOrder) = Members(accessOrder) /\ Members(accessOrder) \subseteq CacheKeys
        /\ (C!IsInjective(accessOrder) <=> Distinct(accessOrder))
    <2>1. DOMAIN accessOrder = 1..Len(accessOrder) /\ \A i \in 1..Len(accessOrder) : accessOrder[i] \in CacheKeys
      BY <1>0 DEF CacheTypes
    <2> QED BY <2>1 DEF C!ToSet, Members, C!IsInjective, Distinct
  <1>2. C!TypeOK BY <1>0, <1>1 DEF C!TypeOK, CacheTypes, Entries
  <1>4. ASSUME ~disposed PROVE MemoryIsKept BY <1>4 DEF CacheInv
  <1>5. \A X : C!Cardinality(X) = Cardinality(X) BY CountsAlike
  <1>6. ~disposed => /\ cache_stats.size = C!Cardinality(C!Cached)
                     /\ cache_stats.memoryUsage = C!Memory(C!Cardinality(C!Low) + 3 * C!Cardinality(C!Cached \ C!Low))
    <2>1. /\ C!Cardinality(C!Cached) = Cardinality(C!Cached) /\ C!Cardinality(C!Low) = Cardinality(C!Low)
          /\ C!Cardinality(C!Cached \ C!Low) = Cardinality(C!Cached \ C!Low) BY <1>5
    <2> QED BY <1>4, <2>1 DEF MemoryIsKept, StatsAre, C!Memory
  <1>7. ~missed => C!Cardinality(C!Cached) + C!Cardinality(C!Inserting) < CacheLimit + C!Cardinality(CacheCalls)
    BY <1>0, <1>5, Zenon DEF CacheHasRoom, C!Inserting, Inserting
  <1>8. C!ToSet(accessOrder) = C!Cached /\ C!IsInjective(accessOrder) /\ warmingKeys \subseteq C!Cached
    BY <1>0, <1>1, Zenon DEF OrderIsKept
  <1> QED BY <1>2, <1>6, <1>7, <1>8, Zenon DEF C!CacheIsAccounted

-----------------------------------------------------------------------------
(* indexeddb_wrapper.js.                                                   *)
LEMMA WrapperLimits == IsFiniteSet(Connects) /\ MaxSize \in Nat /\ MaxTries \in Nat \ {0}
  BY LimitsAssumption

LEMMA WrapperStarts == D!WrapperInit => WrapperInv
  <1> SUFFICES ASSUME D!WrapperInit PROVE WrapperInv OBVIOUS
  <1> USE WrapperLimits
  <1>1. WrapperTypes /\ CachedAreRows BY DEF D!WrapperInit, WrapperTypes, CachedAreRows
  <1>2. row_requests = <<>> /\ Members(row_requests) = {} BY EmptyQueue DEF D!WrapperInit
  <1>3. CallsAreTyped /\ AskedAreKnown BY <1>2 DEF D!WrapperInit, CallsAreTyped, AskedAreKnown, RowCalls
  <1>4. Placed = {} /\ current_size = 0 /\ connect = [c \in Connects |-> "idle"]
    BY DEF D!WrapperInit, Placed
  <1>5. PlacesAreTaken BY <1>4, FS_EmptySet DEF PlacesAreTaken
  <1> QED BY <1>1, <1>3, <1>5 DEF WrapperInv

(* A call that goes on, and what is asked for it.                          *)
LEMMA ACallAsks ==
  ASSUME CallsAreTyped, AskedAreKnown, NEW c \in Starts, NEW r \in RowCalls,
         row_call' = [row_call EXCEPT ![c] = r],
         r.at # "idle", r.op # "none", r.key \in Keys, r.at = "delay" => r.tries # MaxTries,
         row_requests' \in Seq(Starts), Members(row_requests') \subseteq Members(row_requests) \cup {c}
  PROVE  CallsAreTyped' /\ AskedAreKnown'
  <1>1. /\ row_call' \in [Starts -> RowCalls] /\ row_call'[c] = r
        /\ \A d \in Starts \ {c} : row_call'[d] = row_call[d] BY DEF CallsAreTyped
  <1>2. Members(row_requests) \subseteq Starts BY DEF CallsAreTyped, Members
  <1> QED BY <1>1, <1>2 DEF CallsAreTyped, AskedAreKnown

LEMMA ACallAnswers ==
  ASSUME CallsAreTyped, AskedAreKnown, NEW c \in Starts, NEW a \in {"done", "failed", "delay"},
         AnswerIs(c, a), row_call[c].at # "idle", a = "delay" => row_call[c].tries # MaxTries,
         row_requests' \in Seq(Starts), Members(row_requests') \subseteq Members(row_requests)
  PROVE  CallsAreTyped' /\ AskedAreKnown'
  <1> DEFINE r == [row_call[c] EXCEPT !.at = a]
  <1>1. row_call' = [row_call EXCEPT ![c] = r] BY DEF CallsAreTyped, AnswerIs
  <1>2. row_call[c] \in RowCalls /\ row_call[c].op # "none" /\ row_call[c].key \in Keys
    BY DEF CallsAreTyped, AskedAreKnown
  <1>3. r \in RowCalls /\ r.at = a /\ r.op = row_call[c].op /\ r.key = row_call[c].key
        /\ r.tries = row_call[c].tries BY <1>2 DEF RowCalls
  <1> HIDE DEF r
  <1> QED BY <1>1, <1>2, <1>3, ACallAsks

LEMMA ACallTries ==
  ASSUME CallsAreTyped, AskedAreKnown, NEW c \in Starts, TriesAgain(c), row_call[c].at = "delay",
         row_requests' = Append(row_requests, c)
  PROVE  CallsAreTyped' /\ AskedAreKnown'
  <1> DEFINE q == row_call[c]
             n == q.tries + 1
             r == [op |-> q.op, key |-> q.key, value |-> q.value, at |-> "waiting", tries |-> n]
  <1>1. q \in RowCalls /\ q.op # "none" /\ q.key \in Keys /\ q.tries # MaxTries
    BY DEF CallsAreTyped, AskedAreKnown
  <1>2. n \in 0..MaxTries BY <1>1, WrapperLimits DEF RowCalls
  <1> HIDE DEF q, n
  <1>3. [q EXCEPT !.at = "waiting", !.tries = n] = r
    <2> DEFINE s == [q EXCEPT !.at = "waiting"]
    <2>1. s = [op |-> q.op, key |-> q.key, value |-> q.value, at |-> "waiting", tries |-> q.tries]
      BY <1>1 DEF RowCalls
    <2>2. [s EXCEPT !.tries = n] = r
      <3> HIDE DEF s
      <3> QED BY <2>1
    <2> QED BY <2>2
  <1>4. row_call' = [row_call EXCEPT ![c] = [q EXCEPT !.at = "waiting", !.tries = n]]
    BY DEF CallsAreTyped, TriesAgain, q, n
  <1>5. row_call' = [row_call EXCEPT ![c] = r] BY <1>3, <1>4
  <1>6. r \in RowCalls /\ r.at = "waiting" /\ r.op # "none" /\ r.key \in Keys BY <1>1, <1>2 DEF RowCalls
  <1>7. row_requests' \in Seq(Starts) /\ Members(row_requests') = Members(row_requests) \cup {c}
    BY QueueGrows DEF CallsAreTyped
  <1> HIDE DEF r
  <1> QED BY <1>5, <1>6, <1>7, ACallAsks

(* A request is the first of the queue.                                    *)
LEMMA ARequestIsFirst ==
  ASSUME CallsAreTyped, AskedAreKnown, row_requests # <<>>
  PROVE  /\ Head(row_requests) \in Starts /\ row_call[Head(row_requests)].at # "idle"
         /\ row_call[Head(row_requests)] \in RowCalls
         /\ row_call[Head(row_requests)].op # "none" /\ row_call[Head(row_requests)].key \in Keys
         /\ Tail(row_requests) \in Seq(Starts)
         /\ Members(Tail(row_requests)) \subseteq Members(row_requests)
  <1>1. /\ Head(row_requests) \in Starts /\ Head(row_requests) \in Members(row_requests)
        /\ Tail(row_requests) \in Seq(Starts)
        /\ Members(row_requests) = Members(Tail(row_requests)) \cup {Head(row_requests)}
    BY QueueShrinks DEF CallsAreTyped
  <1> QED BY <1>1 DEF CallsAreTyped, AskedAreKnown

LEMMA WrapperKeeps == WrapperInv /\ [D!WrapperNext]_(D!wrapper_vars) => WrapperInv'
  <1> SUFFICES ASSUME WrapperInv, [D!WrapperNext]_(D!wrapper_vars) PROVE WrapperInv' OBVIOUS
  <1>0. WrapperTypes /\ CallsAreTyped /\ AskedAreKnown /\ CachedAreRows /\ PlacesAreTaken
    BY DEF WrapperInv
  <1>p. UNCHANGED <<current_size, connect>> => PlacesAreTaken' BY <1>0 DEF PlacesAreTaken, Placed
  <1>r. UNCHANGED <<key_rows, row_cache, bypassed>> => WrapperTypes' /\ CachedAreRows'
    BY <1>0 DEF WrapperTypes, CachedAreRows
  <1>q. UNCHANGED <<row_requests, row_call>> => CallsAreTyped' /\ AskedAreKnown'
    BY <1>0 DEF CallsAreTyped, AskedAreKnown
  <1>1. ASSUME NEW c \in Connects, D!Acquire(c) \/ \E ok \in BOOLEAN : D!CreateEnds(c, ok)
        PROVE  WrapperInv'
    <2>1. UNCHANGED <<key_rows, row_cache, bypassed, row_requests, row_call>>
      BY <1>1 DEF D!Acquire, D!CreateEnds
    <2>2. PlacesAreTaken'
      <3> USE WrapperLimits
      <3>0. Placed \in SUBSET Connects /\ Cardinality(Placed) \in Nat BY CountsOf DEF Placed
      <3>1. CASE connect[c] = "creating"
        <4>1. current_size' = current_size /\ \E s \in {"open", "failed"} : connect' = [connect EXCEPT ![c] = s]
          BY <1>1, <3>1 DEF D!Acquire, D!CreateEnds
        <4>2. Placed' = Placed BY <1>0, <3>1, <4>1 DEF PlacesAreTaken, Placed
        <4> QED BY <1>0, <4>1, <4>2 DEF PlacesAreTaken
      <3>2. CASE connect[c] # "creating" /\ current_size < MaxSize
        <4>1. /\ current_size' = current_size + 1 /\ connect' = [connect EXCEPT ![c] = "creating"]
              /\ connect[c] \in {"idle", "polling"}
          BY <1>0, <1>1, <3>2 DEF D!Acquire, D!CreateEnds, PlacesAreTaken
        <4>2. Placed' = Placed \cup {c} /\ c \notin Placed /\ Placed' \in SUBSET Connects
          BY <1>0, <4>1 DEF PlacesAreTaken, Placed
        <4>3. Cardinality(Placed') = Cardinality(Placed) + 1 BY <3>0, <4>2, CountsOneMore
        <4> QED BY <1>0, <3>2, <4>1, <4>3 DEF PlacesAreTaken
      <3>3. CASE connect[c] # "creating" /\ ~(current_size < MaxSize)
        <4>1. /\ current_size' = current_size /\ connect' = [connect EXCEPT ![c] = "polling"]
              /\ connect[c] = "idle" BY <1>0, <1>1, <3>3 DEF D!Acquire, D!CreateEnds, PlacesAreTaken
        <4>2. Placed' = Placed BY <1>0, <4>1 DEF PlacesAreTaken, Placed
        <4> QED BY <1>0, <4>1, <4>2 DEF PlacesAreTaken
      <3> QED BY <3>1, <3>2, <3>3
    <2> QED BY <1>q, <1>r, <2>1, <2>2 DEF WrapperInv
  <1>2. ASSUME NEW c \in Starts, NEW k \in Keys, NEW a \in D!Arguments, D!Call(c, a.op, k, a.value)
        PROVE  WrapperInv'
    <2> DEFINE hit == a.op = "get" /\ row_cache[k] # Nothing
               r == [op |-> a.op, key |-> k, value |-> a.value, at |-> IF hit THEN "done" ELSE "waiting",
                     tries |-> 1]
    <2>1. a.op \in {"get", "put", "delete", "bulk"} /\ a.value \in Values \cup {Nothing}
      BY DEF D!Arguments
    <2>2. /\ row_call' = [row_call EXCEPT ![c] = r]
          /\ row_requests' = IF hit THEN row_requests ELSE Append(row_requests, c)
          /\ UNCHANGED <<key_rows, row_cache, bypassed, current_size, connect>> BY <1>2 DEF D!Call, D!pool
    <2>3. r \in RowCalls /\ r.at \in {"done", "waiting"} /\ r.op # "none" /\ r.key \in Keys
      BY <2>1, WrapperLimits DEF RowCalls
    <2>4. row_requests' \in Seq(Starts) /\ Members(row_requests') \subseteq Members(row_requests) \cup {c}
      BY <1>0, <2>2, QueueGrows DEF CallsAreTyped
    <2> HIDE DEF r
    <2>5. CallsAreTyped' /\ AskedAreKnown' BY <1>0, <2>2, <2>3, <2>4, ACallAsks
    <2> QED BY <1>p, <1>r, <2>2, <2>5 DEF WrapperInv
  <1>3. ASSUME NEW c \in Starts, D!DelayEnds(c) PROVE WrapperInv'
    <2>1. TriesAgain(c) BY <1>3, Zenon DEF D!DelayEnds, TriesAgain
    <2>2. /\ row_call[c].at = "delay" /\ row_requests' = Append(row_requests, c)
          /\ UNCHANGED <<key_rows, row_cache, bypassed, current_size, connect>>
      BY <1>3, Zenon DEF D!DelayEnds, D!pool
    <2>3. CallsAreTyped' /\ AskedAreKnown' BY <1>0, <2>1, <2>2, ACallTries
    <2> QED BY <1>p, <1>r, <2>2, <2>3 DEF WrapperInv
  <1>4. ASSUME D!Succeeds \/ D!CommitFails PROVE WrapperInv'
    <2> DEFINE c == Head(row_requests)
               k == row_call[c].key
    <2>1. row_requests # <<>> /\ row_requests' = Tail(row_requests) /\ UNCHANGED <<current_size, connect>>
      BY <1>4 DEF D!Succeeds, D!CommitFails, D!pool
    <2>2. /\ c \in Starts /\ row_call[c].at # "idle" /\ row_call[c] \in RowCalls
          /\ row_call[c].op # "none" /\ k \in Keys /\ row_requests' \in Seq(Starts)
          /\ Members(row_requests') \subseteq Members(row_requests) BY <1>0, <2>1, ARequestIsFirst
    <2>3. AnswerIs(c, "done") BY <1>4, Zenon DEF D!Succeeds, D!CommitFails, AnswerIs
    <2>4. row_cache' = D!CacheAfter(c) BY <1>4, Zenon DEF D!Succeeds, D!CommitFails
    <2>5. /\ row_call[c].op \in {"get", "put", "delete", "bulk"}
          /\ row_call[c].value \in Values \cup {Nothing} BY <2>2 DEF RowCalls
    <2>6. \/ /\ key_rows' = IF row_call[c].op = "get" THEN key_rows ELSE [key_rows EXCEPT ![k] = row_call[c].value]
             /\ bypassed' = IF row_call[c].op = "bulk" THEN bypassed \cup {k}
                            ELSE IF row_call[c].op = "put" THEN bypassed \ {k}
                            ELSE IF row_call[c].op = "delete" THEN {}
                            ELSE IF key_rows[k] # Nothing THEN bypassed \ {k} ELSE bypassed
          \/ /\ UNCHANGED key_rows /\ bypassed' = bypassed \cup {k} /\ row_call[c].op \in {"put", "delete"}
      BY <1>4, Zenon DEF D!Succeeds, D!CommitFails
    <2>7. CallsAreTyped' /\ AskedAreKnown' BY <1>0, <2>2, <2>3, ACallAnswers
    <2> HIDE DEF c, k
    <2>8. WrapperTypes' /\ CachedAreRows'
      <3>0. key_rows[k] \in Values \cup {Nothing} /\ WrapperTypes /\ CachedAreRows
        BY <1>0, <2>2 DEF WrapperTypes
      <3>1. CASE row_call[c].op = "get"
        <4>1. row_cache' = IF key_rows[k] = Nothing THEN row_cache ELSE [row_cache EXCEPT ![k] = key_rows[k]]
          BY <2>4, <3>1 DEF D!CacheAfter, k
        <4> QED BY <2>2, <2>6, <3>0, <3>1, <4>1 DEF WrapperTypes, CachedAreRows
      <3>2. CASE row_call[c].op = "put"
        <4>1. row_cache' = [row_cache EXCEPT ![k] = row_call[c].value] BY <2>4, <3>2 DEF D!CacheAfter, k
        <4> QED BY <2>2, <2>5, <2>6, <3>0, <3>2, <4>1 DEF WrapperTypes, CachedAreRows
      <3>3. CASE row_call[c].op = "delete"
        <4>1. row_cache' = [d \in Keys |-> Nothing] BY <2>4, <3>3 DEF D!CacheAfter
        <4> QED BY <2>2, <2>5, <2>6, <3>0, <3>3, <4>1 DEF WrapperTypes, CachedAreRows
      <3>4. CASE row_call[c].op = "bulk"
        <4>1. row_cache' = row_cache BY <2>4, <3>4 DEF D!CacheAfter
        <4> QED BY <2>2, <2>5, <2>6, <3>0, <3>4, <4>1 DEF WrapperTypes, CachedAreRows
      <3> QED BY <2>5, <3>1, <3>2, <3>3, <3>4
    <2> QED BY <1>p, <2>1, <2>7, <2>8 DEF WrapperInv
  <1>5. ASSUME D!RequestFails PROVE WrapperInv'
    <2> DEFINE c == Head(row_requests)
               a == IF row_call[c].op = "get" \/ row_call[c].tries = MaxTries THEN "failed" ELSE "delay"
    <2>1. /\ row_requests # <<>> /\ row_requests' = Tail(row_requests)
          /\ UNCHANGED <<key_rows, row_cache, bypassed, current_size, connect>>
      BY <1>5 DEF D!RequestFails, D!pool
    <2>2. AnswerIs(c, a) BY <1>5, Zenon DEF D!RequestFails, AnswerIs
    <2>3. /\ c \in Starts /\ row_call[c].at # "idle" /\ row_requests' \in Seq(Starts)
          /\ Members(row_requests') \subseteq Members(row_requests) BY <1>0, <2>1, ARequestIsFirst
    <2>4. a \in {"done", "failed", "delay"} /\ (a = "delay" => row_call[c].tries # MaxTries) OBVIOUS
    <2> HIDE DEF c, a
    <2>5. CallsAreTyped' /\ AskedAreKnown' BY <1>0, <2>2, <2>3, <2>4, ACallAnswers
    <2> QED BY <1>p, <1>r, <2>1, <2>5 DEF WrapperInv
  <1>6. ASSUME NEW k \in Keys, D!CacheExpires(k) PROVE WrapperInv'
    <2>1. /\ row_cache' = [row_cache EXCEPT ![k] = Nothing]
          /\ UNCHANGED <<key_rows, bypassed, row_requests, row_call, current_size, connect>>
      BY <1>6 DEF D!CacheExpires, D!pool
    <2>2. WrapperTypes' /\ CachedAreRows' BY <1>0, <2>1 DEF WrapperTypes, CachedAreRows
    <2> QED BY <1>p, <1>q, <2>1, <2>2 DEF WrapperInv
  <1>7. CASE UNCHANGED D!wrapper_vars BY <1>p, <1>q, <1>r, <1>7 DEF D!wrapper_vars, WrapperInv
  <1> QED BY <1>1, <1>2, <1>3, <1>4, <1>5, <1>6, <1>7 DEF D!WrapperNext

LEMMA WrapperImplies == WrapperInv => D!WrapperTypeOK /\ D!CacheIsRow
  <1> SUFFICES ASSUME WrapperInv PROVE D!WrapperTypeOK /\ D!CacheIsRow OBVIOUS
  <1>1. D!WrapperTypeOK
    BY DEF WrapperInv, WrapperTypes, CallsAreTyped, PlacesAreTaken, RowCalls, D!WrapperTypeOK,
       D!Ops, D!Ats
  <1>2. D!CacheIsRow BY CountsAlike DEF WrapperInv, CachedAreRows, PlacesAreTaken, Placed, D!CacheIsRow
  <1> QED BY <1>1, <1>2

-----------------------------------------------------------------------------
(* step_v1_to_v2.js, step_v2_to_v3.js, step_v3_to_v4.js.                   *)
LEMMA RowLimits ==
  /\ BatchSize \in Nat \ {0} /\ MaxRuns \in Nat /\ IsFiniteSet(LessonRows)
  /\ LessonRows \subseteq Nat \ {0} /\ Users \subseteq Nat \ {0}
  <1> DEFINE n == Cardinality(LessonRows)
             u == Cardinality(Users)
  <1>1. n \in Nat /\ u \in Nat /\ LessonRows = 1..n /\ Users = 1..u /\ IsFiniteSet(LessonRows)
    BY RowsAssumption, FS_CardinalityType
  <1> HIDE DEF n, u
  <1> QED BY <1>1, LimitsAssumption

(* A batch is what it moves the position by.                               *)
LEMMA BatchIsCounted ==
  ASSUME position \in Nat \ {0}
  PROVE  /\ Cardinality(V!Batch) \in Nat
         /\ \A u \in Users : position + Cardinality(V!Batch) <= u => position <= u /\ u \notin V!Batch
  <1> DEFINE n == Cardinality(Users)
  <1>1. n \in Nat /\ Users = 1..n BY RowsAssumption, FS_CardinalityType
  <1> HIDE DEF n
  <1> DEFINE last == IF position + BatchSize - 1 <= n THEN position + BatchSize - 1 ELSE n
  <1>2. V!Batch = position..last BY <1>1, RowLimits DEF V!Batch
  <1>3. last \in Int /\ (last = n \/ last = position + BatchSize - 1) BY <1>1, RowLimits
  <1> HIDE DEF last
  <1>4. Cardinality(V!Batch) = IF position > last THEN 0 ELSE last - position + 1
    BY <1>2, <1>3, FS_Interval
  <1>5. CASE position > last BY <1>1, <1>2, <1>3, <1>4, <1>5, RowLimits
  <1>6. CASE position <= last BY <1>1, <1>2, <1>3, <1>4, <1>6, RowLimits
  <1> QED BY <1>3, <1>5, <1>6

LEMMA BeforeTheBatchEnds ==
  ASSUME NEW n \in Nat, n + 1 < BatchSize
  PROVE  (n + 1) % BatchSize = n + 1 BY RowLimits

LEMMA RecordStarts == V!StepsInit => RecordInv
  <1> SUFFICES ASSUME V!StepsInit PROVE RecordInv OBVIOUS
  <1> USE RowLimits
  <1>0. /\ lesson \in [LessonRows -> [valid : BOOLEAN, v3 : {FALSE}, v4 : {FALSE}]]
        /\ [valid : BOOLEAN, v3 : {FALSE}, v4 : {FALSE}] \subseteq LessonTypes
    BY DEF V!StepsInit, LessonTypes
  <1>a. lesson \in [LessonRows -> LessonTypes] /\ before = lesson BY <1>0 DEF V!StepsInit
  <1>1. RecordTypes BY <1>a DEF V!StepsInit, RecordTypes
  <1>2. UserTypes /\ UsersAreRewritten BY DEF V!StepsInit, UserTypes, UsersAreRewritten
  <1>3. FirstBatchIsWhole /\ RestIsAsBefore BY DEF V!StepsInit, FirstBatchIsWhole, RestIsAsBefore
  <1>4. OnlyValid(lesson) /\ OnlyValid(before) BY DEF V!StepsInit, OnlyValid
  <1> QED BY <1>1, <1>2, <1>3, <1>4 DEF RecordInv

(* A step of the schema that no user's row is part of.                     *)
LEMMA UsersStay ==
  ASSUME UserTypes, UsersAreRewritten, UNCHANGED <<user_name, profile, rewritten>>, runs \in Nat,
         \/ step' = "none" /\ runs' = runs
         \/ runs' = runs + 1
         \/ step # "v1_to_v2" /\ step' = step /\ runs' = runs
         \/ UNCHANGED <<step, position, runs>>
  PROVE  UserTypes' /\ UsersAreRewritten'
  <1>1. UserTypes' BY DEF UserTypes
  <1>2. UsersAreRewritten' BY <1>1 DEF UserTypes, UsersAreRewritten
  <1> QED BY <1>1, <1>2

LEMMA RecordKeeps == RecordInv /\ [V!StepsNext]_(V!steps_vars) => RecordInv'
  <1> SUFFICES ASSUME RecordInv, [V!StepsNext]_(V!steps_vars) PROVE RecordInv' OBVIOUS
  <1>0. /\ RecordTypes /\ UserTypes /\ UsersAreRewritten /\ FirstBatchIsWhole /\ RestIsAsBefore
        /\ OnlyValid(lesson) /\ OnlyValid(before) BY DEF RecordInv
  <1>l. /\ lesson \in [LessonRows -> LessonTypes] /\ before \in [LessonRows -> LessonTypes]
        /\ position \in Nat \ {0} /\ processed \in Nat /\ step_failed \in Nat /\ runs \in 0..MaxRuns
        /\ runs \in Nat /\ MaxRuns \in Nat /\ BatchSize \in Nat \ {0} BY <1>0, RowLimits DEF RecordTypes
  <1>1. ASSUME NEW s \in V!StepNames \ {"none"}, V!Start(s) PROVE RecordInv'
    <2>1. /\ runs < MaxRuns /\ runs' = runs + 1 /\ step' = s /\ position' = 1 /\ processed' = 0
          /\ step_failed' = 0 /\ before' = lesson /\ report' = "none" /\ lesson' = lesson
          /\ UNCHANGED <<user_name, profile, rewritten>> /\ s \in {"v1_to_v2", "v2_to_v3", "v3_to_v4"}
      BY <1>1 DEF V!Start, V!data, V!StepNames
    <2>2. RecordTypes' BY <1>l, <2>1 DEF RecordTypes
    <2>3. UserTypes' /\ UsersAreRewritten' BY <1>0, <1>l, <2>1, UsersStay
    <2>4. FirstBatchIsWhole' BY <1>l, <2>1, RowLimits DEF FirstBatchIsWhole
    <2>5. Migrated' = {} BY <2>1 DEF Migrated
    <2>6. RestIsAsBefore' BY <2>1, <2>5, FS_EmptySet DEF RestIsAsBefore
    <2>7. OnlyValid(lesson') /\ OnlyValid(before') BY <1>0, <2>1
    <2> QED BY <2>2, <2>3, <2>4, <2>6, <2>7 DEF RecordInv, OnlyValid
  <1>e. ASSUME step' = "none", lesson' \in {lesson, before}, before' = before, RecordTypes',
               UserTypes', UsersAreRewritten'
        PROVE  RecordInv'
    <2>1. FirstBatchIsWhole' /\ RestIsAsBefore' BY <1>e DEF FirstBatchIsWhole, RestIsAsBefore
    <2>2. OnlyValid(lesson') /\ OnlyValid(before') BY <1>0, <1>e
    <2> QED BY <1>e, <2>1, <2>2 DEF RecordInv, OnlyValid
  <1>2. ASSUME V!PutBatch PROVE RecordInv'
    <2> DEFINE batch == V!Batch
               n == Cardinality(V!Batch)
    <2>1. /\ step = "v1_to_v2" /\ UNCHANGED <<lesson, before, step, step_failed, report, runs>>
          /\ profile' = [u \in Users |-> IF u \in batch THEN IF user_name[u] THEN "named" ELSE "empty" ELSE profile[u]]
          /\ user_name' = [u \in Users |-> user_name[u] /\ u \notin batch]
          /\ rewritten' = [u \in Users |-> rewritten[u] + (IF u \in batch THEN 1 ELSE 0)]
          /\ position' = position + n /\ processed' = processed + n BY <1>2, CountsAlike DEF V!PutBatch
    <2>2. \A u \in Users : u \in batch => position <= u BY DEF V!Batch
    <2>3. n \in Nat /\ \A u \in Users : position + n <= u => position <= u /\ u \notin batch
      BY <1>0, BatchIsCounted DEF RecordTypes
    <2> HIDE DEF batch, n
    <2>4. RecordTypes' BY <1>0, <2>1, <2>3 DEF RecordTypes
    <2>5. UserTypes' BY <1>0, <2>1 DEF UserTypes
    <2>6. UsersAreRewritten'
      <3> SUFFICES ASSUME NEW u \in Users
          PROVE  /\ rewritten'[u] <= runs'
                 /\ rewritten'[u] = 0 => user_name'[u]
                 /\ rewritten'[u] = 1 => profile'[u] = "named"
                 /\ step' = "v1_to_v2" /\ position' <= u => rewritten'[u] < runs' BY DEF UsersAreRewritten
      <3>1. /\ rewritten[u] \in Nat /\ rewritten[u] <= runs /\ (position <= u => rewritten[u] < runs)
            /\ (rewritten[u] = 0 => user_name[u]) /\ (rewritten[u] = 1 => profile[u] = "named")
            /\ runs' = runs BY <1>0, <2>1 DEF UserTypes, UsersAreRewritten
      <3>2. CASE u \in batch BY <1>l, <2>1, <2>2, <2>3, <3>1, <3>2
      <3>3. CASE u \notin batch
        <4>1. rewritten'[u] = rewritten[u] /\ profile'[u] = profile[u] /\ (user_name'[u] <=> user_name[u])
          <5>1. rewritten'[u] = rewritten[u] BY <2>1, <3>1, <3>3
          <5>2. profile'[u] = profile[u] BY <2>1, <3>3
          <5>3. user_name'[u] = (user_name[u] /\ u \notin batch) BY <2>1
          <5> QED BY <3>3, <5>1, <5>2, <5>3, Zenon
        <4> QED BY <2>1, <2>3, <3>1, <4>1, Zenon
      <3> QED BY <3>2, <3>3
    <2>7. FirstBatchIsWhole' /\ RestIsAsBefore' BY <2>1 DEF FirstBatchIsWhole, RestIsAsBefore
    <2> QED BY <1>0, <2>1, <2>4, <2>5, <2>6, <2>7 DEF RecordInv, OnlyValid
  <1>3. ASSUME V!UsersEnd \/ V!UsersFail \/ V!LessonsEnd \/ V!TransactionFails PROVE RecordInv'
    <2>1. /\ step' = "none" /\ position' = 1 /\ report' \in {"completed", "threw", "timeout", "swallowed"}
          /\ lesson' \in {lesson, before} /\ processed' \in {processed, 0}
          /\ UNCHANGED <<user_name, profile, before, step_failed, runs, rewritten>>
      BY <1>3 DEF V!UsersEnd, V!UsersFail, V!LessonsEnd, V!TransactionFails, V!End, V!data
    <2>2. RecordTypes' BY <1>0, <1>l, <2>1 DEF RecordTypes
    <2>3. UserTypes' /\ UsersAreRewritten' BY <1>0, <1>l, <2>1, UsersStay
    <2> QED BY <1>e, <2>1, <2>2, <2>3
  <1>4. ASSUME V!MigrateLessonRecord PROVE RecordInv'
    <2> DEFINE i0 == position
    <2>1. /\ step = "v2_to_v3" /\ position \in LessonRows /\ processed' = processed + 1
          /\ lesson' = [lesson EXCEPT ![position].v3 = @ \/ lesson[position].valid]
          /\ position' = position + V!Move(processed + 1)
          /\ UNCHANGED <<user_name, profile, before, step, step_failed, report, runs, rewritten>>
      BY <1>4, Zenon DEF V!MigrateLessonRecord
    <2>2. /\ lesson' \in [LessonRows -> LessonTypes]
          /\ \A i \in LessonRows : lesson'[i].valid = lesson[i].valid
          /\ \A i \in LessonRows \ {position} : lesson'[i] = lesson[i]
          /\ lesson'[position].v4 = lesson[position].v4
          /\ lesson'[position].v3 <=> (lesson[position].v3 \/ lesson[position].valid)
      <3>1. lesson[position] \in LessonTypes BY <1>l, <2>1
      <3> DEFINE r == [lesson[position] EXCEPT !.v3 = lesson[position].v3 \/ lesson[position].valid]
      <3>2. lesson' = [lesson EXCEPT ![position] = r] BY <1>l, <2>1
      <3>3. /\ r \in LessonTypes /\ r.valid = lesson[position].valid /\ r.v4 = lesson[position].v4
            /\ r.v3 = (lesson[position].v3 \/ lesson[position].valid) BY <3>1 DEF LessonTypes
      <3> HIDE DEF r
      <3> QED BY <1>l, <2>1, <3>2, <3>3
    <2>3. V!Move(processed + 1) \in Nat \ {0}
          /\ (processed + 1 < BatchSize => V!Move(processed + 1) = 1)
      <3>1. processed + 1 < BatchSize => (processed + 1) % BatchSize # 0 BY <1>l, BeforeTheBatchEnds
      <3> QED BY <1>l, <3>1 DEF V!Move
    <2>4. RecordTypes' BY <1>0, <1>l, <2>1, <2>2, <2>3 DEF RecordTypes
    <2>5. UserTypes' /\ UsersAreRewritten' BY <1>0, <1>l, <2>1, UsersStay
    <2>6. FirstBatchIsWhole'
      <3>1. \/ position = processed + 1 /\ processed < BatchSize
            \/ processed >= BatchSize /\ position > BatchSize BY <1>0, <2>1 DEF FirstBatchIsWhole
      <3>2. \/ position' = processed' + 1 /\ processed' < BatchSize
            \/ processed' >= BatchSize /\ position' > BatchSize BY <1>l, <2>1, <2>3, <3>1
      <3>3. \A i \in LessonRows : i < position' /\ i <= BatchSize => i <= position
        BY <1>l, <2>1, <2>3, <3>1, RowLimits
      <3>4. \A i \in LessonRows : i < position /\ i <= BatchSize /\ lesson[i].valid => lesson[i].v3
        BY <1>0, <2>1 DEF FirstBatchIsWhole
      <3>5. \A i \in LessonRows : i <= position => i < position \/ i = position BY <1>l, RowLimits
      <3>6. ASSUME NEW i \in LessonRows, i < position', i <= BatchSize, lesson'[i].valid
            PROVE  lesson'[i].v3
        <4>1. CASE i = position BY <2>1, <2>2, <3>6, <4>1, Zenon
        <4>2. CASE i # position BY <2>2, <3>3, <3>4, <3>5, <3>6, <4>2, Zenon
        <4> QED BY <4>1, <4>2
      <3> QED BY <2>1, <3>2, <3>6 DEF FirstBatchIsWhole
    <2>7. RestIsAsBefore' BY <2>1 DEF RestIsAsBefore
    <2>8. OnlyValid(lesson)' BY <1>0, <2>1, <2>2, Zenon DEF OnlyValid
    <2> QED BY <1>0, <2>1, <2>4, <2>5, <2>6, <2>7, <2>8 DEF RecordInv, OnlyValid
  <1>5. ASSUME V!MigrateLessonRecordToV4 PROVE RecordInv'
    <2>1. /\ step = "v3_to_v4" /\ position \in LessonRows
          /\ lesson' = [lesson EXCEPT ![position].v4 = @ \/ lesson[position].valid]
          /\ processed' = processed + (IF lesson[position].valid THEN 1 ELSE 0)
          /\ step_failed' = step_failed + (IF lesson[position].valid THEN 0 ELSE 1)
          /\ position' = position + BatchSize
          /\ UNCHANGED <<user_name, profile, before, step, report, runs, rewritten>>
      BY <1>5, Zenon DEF V!MigrateLessonRecordToV4
    <2>2. /\ lesson' \in [LessonRows -> LessonTypes]
          /\ \A i \in LessonRows : lesson'[i].valid = lesson[i].valid
          /\ \A i \in LessonRows \ {position} : lesson'[i] = lesson[i]
          /\ lesson'[position].v3 = lesson[position].v3
          /\ lesson'[position].v4 <=> (lesson[position].v4 \/ lesson[position].valid)
          /\ lesson'[position].v4 \in BOOLEAN /\ lesson[position].v4 \in BOOLEAN
      <3>1. lesson[position] \in LessonTypes BY <1>l, <2>1
      <3> DEFINE r == [lesson[position] EXCEPT !.v4 = lesson[position].v4 \/ lesson[position].valid]
      <3>2. lesson' = [lesson EXCEPT ![position] = r] BY <1>l, <2>1
      <3>3. /\ r \in LessonTypes /\ r.valid = lesson[position].valid /\ r.v3 = lesson[position].v3
            /\ r.v4 = (lesson[position].v4 \/ lesson[position].valid)
            /\ r.v4 \in BOOLEAN /\ lesson[position].v4 \in BOOLEAN BY <3>1 DEF LessonTypes
      <3> HIDE DEF r
      <3> QED BY <1>l, <2>1, <3>2, <3>3
    <2>3. processed' \in Nat /\ step_failed' \in Nat BY <1>l, <2>1
    <2>4. RecordTypes' BY <1>0, <1>l, <2>1, <2>2, <2>3 DEF RecordTypes
    <2>5. UserTypes' /\ UsersAreRewritten' BY <1>0, <1>l, <2>1, UsersStay
    <2>6. RestIsAsBefore'
      <3>1. /\ \A i \in LessonRows : i < position \/ lesson[i].v4 = before[i].v4
            /\ Cardinality(Migrated) <= processed BY <1>0, <2>1 DEF RestIsAsBefore
      <3>2. \A i \in LessonRows : i < position' \/ (~(i < position) /\ i # position)
        BY <1>l, <2>1, RowLimits
      <3>3. \A i \in LessonRows : i < position' \/ lesson'[i].v4 = before'[i].v4
        BY <2>1, <2>2, <3>1, <3>2, Zenon
      <3>4. Migrated' \subseteq Migrated \cup {position}
        <4>1. ASSUME NEW i \in Migrated', i # position PROVE i \in Migrated
          BY <2>1, <2>2, <3>1, <4>1, Zenon DEF Migrated
        <4> QED BY <4>1
      <3>5. ASSUME ~lesson[position].valid PROVE Migrated' \subseteq Migrated
        <4>1. lesson'[position].v4 => lesson[position].v4 BY <2>2, <3>5, Zenon
        <4>2. position \notin Migrated'
          <5>1. lesson[position].v4 = before[position].v4
            <6>1. ~(position < position) BY <1>l
            <6> QED BY <2>1, <3>1, <6>1, Zenon
          <5> QED BY <2>1, <4>1, <5>1, Zenon DEF Migrated
        <4> QED BY <3>4, <4>2
      <3>6. Migrated \in SUBSET LessonRows /\ Migrated' \in SUBSET LessonRows BY DEF Migrated
      <3>7. IsFiniteSet(Migrated) /\ Cardinality(Migrated \cup {position}) <= Cardinality(Migrated) + 1
            /\ IsFiniteSet(Migrated \cup {position}) /\ Cardinality(Migrated \cup {position}) \in Nat
            /\ Cardinality(Migrated) \in Nat
        <4>1. IsFiniteSet(Migrated) /\ Cardinality(Migrated) \in Nat BY <3>6, RowLimits, CountsOf
        <4>2. /\ IsFiniteSet(Migrated \cup {position})
              /\ Cardinality(Migrated \cup {position}) =
                   IF position \in Migrated THEN Cardinality(Migrated) ELSE Cardinality(Migrated) + 1
          BY <4>1, FS_AddElement
        <4> QED BY <4>1, <4>2
      <3>8. Cardinality(Migrated') <= processed'
        <4>1. CASE lesson[position].valid
          <5>1. Cardinality(Migrated') <= Cardinality(Migrated \cup {position}) /\ Cardinality(Migrated') \in Nat
            BY <3>4, <3>7, CountsOf
          <5> QED BY <1>l, <2>1, <3>1, <3>7, <4>1, <5>1
        <4>2. CASE ~lesson[position].valid
          <5>1. Cardinality(Migrated') <= Cardinality(Migrated) /\ Cardinality(Migrated') \in Nat
            BY <3>5, <3>7, <4>2, CountsOf
          <5> QED BY <1>l, <2>1, <3>1, <3>7, <4>2, <5>1
        <4> QED BY <4>1, <4>2
      <3> QED BY <3>3, <3>8 DEF RestIsAsBefore
    <2>7. FirstBatchIsWhole' BY <2>1 DEF FirstBatchIsWhole
    <2>8. OnlyValid(lesson)' BY <1>0, <2>1, <2>2, Zenon DEF OnlyValid
    <2> QED BY <1>0, <2>1, <2>4, <2>5, <2>6, <2>7, <2>8 DEF RecordInv, OnlyValid
  <1>6. ASSUME V!TimesOut \/ UNCHANGED V!steps_vars PROVE RecordInv'
    <2>1. /\ UNCHANGED <<user_name, profile, lesson, before, step, position, processed, step_failed,
                         runs, rewritten>>
          /\ report' \in {"timeout", report} BY <1>6 DEF V!TimesOut, V!data, V!place, V!steps_vars
    <2>2. RecordTypes' BY <1>0, <2>1 DEF RecordTypes
    <2>3. UserTypes' /\ UsersAreRewritten' BY <1>0, <1>l, <2>1, UsersStay
    <2>4. FirstBatchIsWhole' /\ RestIsAsBefore'
      BY <1>0, <2>1 DEF FirstBatchIsWhole, RestIsAsBefore, Migrated
    <2> QED BY <1>0, <2>1, <2>2, <2>3, <2>4 DEF RecordInv, OnlyValid
  <1> QED BY <1>1, <1>2, <1>3, <1>4, <1>5, <1>6 DEF V!StepsNext

LEMMA RecordImplies == RecordInv => V!StepsTypeOK /\ V!RecordsAreKept
  <1> SUFFICES ASSUME RecordInv PROVE V!StepsTypeOK /\ V!RecordsAreKept OBVIOUS
  <1>1. V!StepsTypeOK
    <2>1. rewritten \in [Users -> 0..MaxRuns]
      BY RowLimits DEF RecordInv, RecordTypes, UserTypes, UsersAreRewritten
    <2> QED BY <2>1 DEF RecordInv, RecordTypes, UserTypes, LessonTypes, V!StepsTypeOK, V!StepNames, V!Row
  <1>2. V!RecordsAreKept
    <2>1. \A u \in Users : rewritten[u] = 1 => profile[u] = "named" BY DEF RecordInv, UsersAreRewritten
    <2>2. step = "v2_to_v3" => \A i \in LessonRows :
            i < position /\ i <= BatchSize /\ lesson[i].valid => lesson[i].v3
      BY DEF RecordInv, FirstBatchIsWhole
    <2>3. step = "v3_to_v4" => V!Cardinality({i \in LessonRows : i < position /\ lesson[i].v4 /\ ~before[i].v4}) <= processed
      BY CountsAlike DEF RecordInv, RestIsAsBefore, Migrated
    <2> QED BY <2>1, <2>2, <2>3, Zenon DEF RecordInv, OnlyValid, V!RecordsAreKept
  <1> QED BY <1>1, <1>2

-----------------------------------------------------------------------------
(* migration_tracker.js, migration_guard.js.                               *)
LEMMA RunLimits == IsFiniteSet(CacheCalls) /\ MaxGuarded \in Nat BY LimitsAssumption

LEMMA RunsCount ==
  /\ Cardinality(FailedRuns) \in Nat /\ Cardinality(CopiedRuns) \in Nat
  /\ V!Failures = Cardinality(FailedRuns)
  BY RunLimits, CountsOf, CountsAlike DEF FailedRuns, CopiedRuns, V!Failures

(* A beginning of a list stays one when the list grows.                    *)
LEMMA BeginningsStay ==
  ASSUME NEW X, NEW s \in Seq(X), NEW t \in Seq(X), NEW x \in X
  PROVE  IsBeginning(t, t) /\ (IsBeginning(s, t) => IsBeginning(s, Append(t, x)))
  <1>1. \A q \in Seq(X) : Len(q) \in Nat OBVIOUS
  <1> DEFINE u == Append(t, x)
  <1>2. u \in Seq(X) /\ Len(u) = Len(t) + 1 /\ \A i \in 1..Len(t) : u[i] = t[i] OBVIOUS
  <1> HIDE DEF u
  <1>3. ASSUME NEW q \in Seq(X), NEW n \in 0..Len(q)
        PROVE  SubSeq(q, 1, n) \in Seq(X) /\ Len(SubSeq(q, 1, n)) = n /\ \A i \in 1..n : SubSeq(q, 1, n)[i] = q[i]
    <2>1. n \in Int /\ 1 \in Int /\ n \in Nat /\ Len(q) \in Nat /\ \A i \in 1..n : q[i] \in X /\ 1 + i - 1 = i
      BY <1>1
    <2>2. SubSeq(q, 1, n) \in Seq(X) /\ Len(SubSeq(q, 1, n)) = n BY <2>1, SubSeqProperties
    <2>3. \A i \in 1..n - 1 + 1 : SubSeq(q, 1, n)[i] = q[1 + i - 1] BY <2>1, SubSeqProperties
    <2> QED BY <2>1, <2>2, <2>3
  <1>4. IsBeginning(t, t)
    <2>1. Len(t) \in 0..Len(t) BY <1>1
    <2> QED BY <1>1, <1>3, <2>1 DEF IsBeginning
  <1>5. ASSUME IsBeginning(s, t) PROVE IsBeginning(s, u)
    <2>1. Len(s) \in 0..Len(t) /\ Len(s) \in 0..Len(u) /\ Len(s) <= Len(u)
      BY <1>1, <1>2, <1>5 DEF IsBeginning
    <2> DEFINE a == SubSeq(t, 1, Len(s))
               b == SubSeq(u, 1, Len(s))
    <2>2. a \in Seq(X) /\ Len(a) = Len(s) /\ \A i \in 1..Len(s) : a[i] = t[i] BY <1>3, <2>1
    <2>3. b \in Seq(X) /\ Len(b) = Len(s) /\ \A i \in 1..Len(s) : b[i] = u[i] BY <1>2, <1>3, <2>1
    <2>4. s = a BY <1>5 DEF IsBeginning
    <2> HIDE DEF a, b
    <2>5. \A i \in 1..Len(s) : i \in 1..Len(t) BY <1>1, <2>1
    <2>6. a = b BY <1>2, <2>2, <2>3, <2>5
    <2> QED BY <2>1, <2>4, <2>6 DEF IsBeginning, b
  <1> QED BY <1>4, <1>5 DEF u

LEMMA FlagStarts == V!TrackerInit => FlagInv
  <1> SUFFICES ASSUME V!TrackerInit PROVE FlagInv OBVIOUS
  <1>1. /\ known = {} /\ flags = {} /\ ran = {} /\ snapshots = <<>> /\ mixed = FALSE
        /\ run = [k \in CacheCalls |-> [id |-> "none", at |-> "idle", list |-> 0]]
        /\ initialized = FALSE /\ config = <<>> /\ config_history = <<>> /\ at = "idle" /\ next = 0 /\ undos = 0
    BY DEF V!TrackerInit
  <1>2. <<>> \in Seq(Copies) /\ <<>> \in Seq(Migrations) /\ <<>> \in Seq(Seq(Migrations)) /\ Len(<<>>) = 0
    OBVIOUS
  <1>3. run \in [CacheCalls -> RunTypes] BY <1>1 DEF RunTypes
  <1>4. FlagTypes BY <1>1, <1>2, <1>3 DEF FlagTypes
  <1>5. CopiesAreLists /\ HistoryBegins BY <1>1, <1>2 DEF CopiesAreLists, HistoryBegins
  <1>6. CopiedRuns = {} /\ \A k \in CacheCalls : run[k].at # "running" BY <1>1 DEF CopiedRuns
  <1>7. CopiesAreCounted BY <1>1, <1>2, <1>6, FS_EmptySet DEF CopiesAreCounted
  <1>8. RunningAreKnown /\ AloneIsTrue BY <1>1, <1>6 DEF RunningAreKnown, AloneIsTrue
  <1>9. GuardTypes
    <2>0. initialized \in BOOLEAN BY <1>1, Zenon
    <2>1. at \in {"idle", "running", "undoing"} /\ next \in Nat /\ undos \in 0..MaxGuarded
      BY <1>1, RunLimits
    <2>2. config \in Seq(Migrations) /\ config_history \in Seq(Seq(Migrations)) BY <1>1, <1>2, Zenon
    <2> QED BY <2>0, <2>1, <2>2, Zenon DEF GuardTypes
  <1> QED BY <1>4, <1>5, <1>7, <1>8, <1>9 DEF FlagInv

(* An execution goes on; the others stay where they are.                   *)
LEMMA ARunMoves ==
  ASSUME FlagTypes, NEW k \in CacheCalls, NEW r \in RunTypes, run' = [run EXCEPT ![k] = r]
  PROVE  /\ run' \in [CacheCalls -> RunTypes] /\ run'[k] = r
         /\ \A j \in CacheCalls \ {k} : run'[j] = run[j]
         /\ r.at # "failed" /\ run[k].at # "failed" => FailedRuns' = FailedRuns
         /\ r.at = "failed" /\ run[k].at # "failed" => Cardinality(FailedRuns') = Cardinality(FailedRuns) + 1
         /\ r.at \in {"running", "done"} /\ run[k].at \in {"running", "done"} => CopiedRuns' = CopiedRuns
         /\ r.at \in {"running", "done"} /\ run[k].at \notin {"running", "done"} =>
              Cardinality(CopiedRuns') = Cardinality(CopiedRuns) + 1
         /\ r.at \notin {"running", "done"} /\ run[k].at \in {"running", "done"} =>
              Cardinality(CopiedRuns) = Cardinality(CopiedRuns') + 1
  <1>1. /\ run' \in [CacheCalls -> RunTypes] /\ run'[k] = r
        /\ \A j \in CacheCalls \ {k} : run'[j] = run[j] BY DEF FlagTypes
  <1>2. /\ FailedRuns \in SUBSET CacheCalls /\ FailedRuns' \in SUBSET CacheCalls
        /\ CopiedRuns \in SUBSET CacheCalls /\ CopiedRuns' \in SUBSET CacheCalls
    BY DEF FailedRuns, CopiedRuns
  <1>3. r.at # "failed" /\ run[k].at # "failed" => FailedRuns' = FailedRuns BY <1>1 DEF FailedRuns
  <1>4. ASSUME r.at = "failed", run[k].at # "failed"
        PROVE  Cardinality(FailedRuns') = Cardinality(FailedRuns) + 1
    <2>1. FailedRuns' = FailedRuns \cup {k} /\ k \notin FailedRuns BY <1>1, <1>4 DEF FailedRuns
    <2> QED BY <1>2, <2>1, RunLimits, CountsOneMore
  <1>5. r.at \in {"running", "done"} /\ run[k].at \in {"running", "done"} => CopiedRuns' = CopiedRuns
    BY <1>1 DEF CopiedRuns
  <1>6. ASSUME r.at \in {"running", "done"}, run[k].at \notin {"running", "done"}
        PROVE  Cardinality(CopiedRuns') = Cardinality(CopiedRuns) + 1
    <2>1. CopiedRuns' = CopiedRuns \cup {k} /\ k \notin CopiedRuns BY <1>1, <1>6 DEF CopiedRuns
    <2> QED BY <1>2, <2>1, RunLimits, CountsOneMore
  <1>7. ASSUME r.at \notin {"running", "done"}, run[k].at \in {"running", "done"}
        PROVE  Cardinality(CopiedRuns) = Cardinality(CopiedRuns') + 1
    <2>1. CopiedRuns = CopiedRuns' \cup {k} /\ k \notin CopiedRuns' BY <1>1, <1>7 DEF CopiedRuns
    <2> QED BY <1>2, <2>1, RunLimits, CountsOneMore
  <1> QED BY <1>1, <1>3, <1>4, <1>5, <1>6, <1>7

LEMMA FlagKeeps == FlagInv /\ [V!TrackerNext]_(V!tracker_vars) => FlagInv'
  <1> SUFFICES ASSUME FlagInv, [V!TrackerNext]_(V!tracker_vars) PROVE FlagInv' OBVIOUS
  <1>0. /\ FlagTypes /\ CopiesAreLists /\ CopiesAreCounted /\ RunningAreKnown /\ AloneIsTrue
        /\ GuardTypes /\ HistoryBegins BY DEF FlagInv
  <1>g. UNCHANGED <<initialized, config, config_history, at, next, undos>> => GuardTypes' /\ HistoryBegins'
    BY <1>0 DEF GuardTypes, HistoryBegins
  <1>t. UNCHANGED <<known, flags, ran, snapshots, run, mixed>> =>
          FlagTypes' /\ CopiesAreLists' /\ CopiesAreCounted' /\ RunningAreKnown' /\ AloneIsTrue'
    <2> SUFFICES ASSUME UNCHANGED <<known, flags, ran, snapshots, run, mixed>>
        PROVE  FlagTypes' /\ CopiesAreLists' /\ CopiesAreCounted' /\ RunningAreKnown' /\ AloneIsTrue'
      OBVIOUS
    <2>1. FlagTypes' /\ CopiesAreLists' BY <1>0 DEF FlagTypes, CopiesAreLists
    <2>2. FailedRuns' = FailedRuns /\ CopiedRuns' = CopiedRuns BY DEF FailedRuns, CopiedRuns
    <2>3. CopiesAreCounted' /\ RunningAreKnown' BY <1>0, <2>2 DEF CopiesAreCounted, RunningAreKnown
    <2>4. AloneIsTrue' BY <1>0, <2>2 DEF AloneIsTrue
    <2> QED BY <2>1, <2>3, <2>4
  <1>r. \A k \in CacheCalls : run[k] \in RunTypes BY <1>0 DEF FlagTypes
  <1>1. ASSUME NEW m \in Migrations, V!TrackerAddMigration(m) PROVE FlagInv'
    <2>1. /\ known' = known \cup {m} /\ mixed' = (mixed \/ V!Running # {})
          /\ UNCHANGED <<flags, ran, snapshots, run, initialized, config, config_history, at, next, undos>>
      BY <1>1 DEF V!TrackerAddMigration, V!guard
    <2>2. FlagTypes' BY <1>0, <2>1 DEF FlagTypes
    <2>3. CopiesAreLists' /\ CopiesAreCounted'
      BY <1>0, <2>1 DEF CopiesAreLists, CopiesAreCounted, CopiedRuns
    <2>4. RunningAreKnown' /\ FailedRuns' = FailedRuns BY <1>0, <2>1 DEF RunningAreKnown, FailedRuns
    <2>5. AloneIsTrue'
      <3>1. ASSUME ~mixed' PROVE ~mixed /\ \A k \in CacheCalls : run[k].at # "running"
        BY <2>1, <3>1, Zenon DEF V!Running
      <3> QED BY <1>0, <2>1, <3>1 DEF AloneIsTrue
    <2> QED BY <1>g, <2>1, <2>2, <2>3, <2>4, <2>5 DEF FlagInv
  <1>2. ASSUME NEW k \in CacheCalls, NEW m \in Migrations, V!ExecuteMigration(k, m) PROVE FlagInv'
    <2> DEFINE r == [id |-> m, at |-> "running", list |-> V!Failures]
               c == [known |-> known, executed |-> flags]
    <2>1. /\ run[k].at = "idle" /\ m \in known /\ snapshots' = Append(snapshots, c)
          /\ run' = [run EXCEPT ![k] = r] /\ mixed' = (mixed \/ V!Running # {})
          /\ UNCHANGED <<known, flags, ran, initialized, config, config_history, at, next, undos>>
      BY <1>2 DEF V!ExecuteMigration, V!guard
    <2>2. r \in RunTypes /\ r.at = "running" /\ r.id = m /\ r.list = Cardinality(FailedRuns)
      BY RunsCount DEF RunTypes
    <2>3. c \in Copies /\ c.executed \subseteq c.known BY <1>0 DEF FlagTypes, Copies
    <2> HIDE DEF r, c
    <2>4. /\ run' \in [CacheCalls -> RunTypes] /\ run'[k] = r
          /\ \A j \in CacheCalls \ {k} : run'[j] = run[j]
          /\ FailedRuns' = FailedRuns /\ Cardinality(CopiedRuns') = Cardinality(CopiedRuns) + 1
      BY <1>0, <2>1, <2>2, ARunMoves
    <2>5. /\ snapshots' \in Seq(Copies) /\ Len(snapshots') = Len(snapshots) + 1 /\ Len(snapshots) \in Nat
          /\ snapshots'[Len(snapshots) + 1] = c
          /\ \A i \in 1..Len(snapshots) : snapshots'[i] = snapshots[i] BY <1>0, <2>1, <2>3 DEF FlagTypes
    <2>6. FlagTypes' BY <1>0, <2>1, <2>4, <2>5 DEF FlagTypes
    <2>7. CopiesAreLists' /\ CopiesAreCounted'
      <3>1. \A i \in 1..Len(snapshots') : i \in 1..Len(snapshots) \/ i = Len(snapshots) + 1 BY <2>5
      <3> QED BY <1>0, <2>3, <2>4, <2>5, <3>1 DEF CopiesAreLists, CopiesAreCounted
    <2>8. RunningAreKnown' BY <1>0, <2>1, <2>2, <2>4, RunsCount DEF RunningAreKnown
    <2>9. AloneIsTrue'
      <3>1. ASSUME ~mixed' PROVE ~mixed /\ \A j \in CacheCalls : run[j].at # "running"
        BY <2>1, <3>1, Zenon DEF V!Running
      <3> QED BY <1>0, <2>1, <2>2, <2>4, <2>5, <3>1 DEF AloneIsTrue, c
    <2> QED BY <1>g, <2>1, <2>6, <2>7, <2>8, <2>9 DEF FlagInv
  <1>3. ASSUME NEW k \in CacheCalls, V!TrackerExecuted(k) PROVE FlagInv'
    <2> DEFINE r == [run[k] EXCEPT !.at = "done"]
    <2>1. /\ run[k].at = "running" /\ run' = [run EXCEPT ![k] = r] /\ ran' = ran \cup {run[k].id}
          /\ flags' = IF run[k].list = Cardinality(FailedRuns) THEN flags \cup {run[k].id} ELSE flags
          /\ UNCHANGED <<known, snapshots, mixed, initialized, config, config_history, at, next, undos>>
      BY <1>0, <1>3, RunsCount DEF V!TrackerExecuted, V!guard, FlagTypes
    <2>2. r \in RunTypes /\ r.at = "done" BY <1>r DEF RunTypes
    <2> HIDE DEF r
    <2>3. /\ run' \in [CacheCalls -> RunTypes] /\ run'[k] = r
          /\ \A j \in CacheCalls \ {k} : run'[j] = run[j]
          /\ FailedRuns' = FailedRuns /\ CopiedRuns' = CopiedRuns BY <1>0, <2>1, <2>2, ARunMoves
    <2>4. run[k].id \in Migrations /\ (run[k].list = Cardinality(FailedRuns) => run[k].id \in known)
      BY <1>0, <2>1 DEF RunningAreKnown
    <2>5. FlagTypes' BY <1>0, <2>1, <2>3, <2>4 DEF FlagTypes
    <2>6. CopiesAreLists' /\ CopiesAreCounted' /\ RunningAreKnown'
      BY <1>0, <2>1, <2>2, <2>3 DEF CopiesAreLists, CopiesAreCounted, RunningAreKnown
    <2>7. AloneIsTrue'
      <3>1. ASSUME ~mixed
            PROVE  /\ flags = ran /\ run[k].list = Cardinality(FailedRuns)
                   /\ \A j \in CacheCalls : run[j].at = "running" => j = k
        BY <1>0, <2>1, <3>1 DEF AloneIsTrue
      <3>2. ASSUME ~mixed PROVE flags' = ran' /\ \A j \in CacheCalls : run'[j].at # "running"
        BY <2>1, <2>2, <2>3, <3>1, <3>2
      <3> QED BY <2>1, <3>2 DEF AloneIsTrue
    <2> QED BY <1>g, <2>1, <2>5, <2>6, <2>7 DEF FlagInv
  <1>4. ASSUME NEW k \in CacheCalls, V!ExecutionFails(k) PROVE FlagInv'
    <2> DEFINE r == [run[k] EXCEPT !.at = "failed"]
               c == snapshots[Len(snapshots)]
    <2>1. /\ run[k].at = "running" /\ run' = [run EXCEPT ![k] = r]
          /\ known' = c.known /\ flags' = c.executed
          /\ snapshots' = WithoutLast(snapshots)
          /\ UNCHANGED <<ran, mixed, initialized, config, config_history, at, next, undos>>
      BY <1>0, <1>4 DEF WithoutLast, V!ExecutionFails, V!Restored, V!guard, FlagTypes
    <2>2. r \in RunTypes /\ r.at = "failed" BY <1>r DEF RunTypes
    <2> HIDE DEF r
    <2>3. /\ run' \in [CacheCalls -> RunTypes] /\ run'[k] = r
          /\ \A j \in CacheCalls \ {k} : run'[j] = run[j]
          /\ Cardinality(FailedRuns') = Cardinality(FailedRuns) + 1
          /\ Cardinality(CopiedRuns) = Cardinality(CopiedRuns') + 1 BY <1>0, <2>1, <2>2, ARunMoves
    <2>4. Cardinality(CopiedRuns') \in Nat /\ Cardinality(CopiedRuns) \in Nat /\ Cardinality(FailedRuns) \in Nat
      <3>1. CopiedRuns' \in SUBSET CacheCalls BY DEF CopiedRuns
      <3> QED BY <3>1, RunLimits, CountsOf, RunsCount
    <2>5. Len(snapshots) \in Nat \ {0} /\ snapshots # <<>> BY <1>0, <2>3, <2>4 DEF CopiesAreCounted
    <2>6. c \in Copies /\ c.executed \subseteq c.known BY <1>0, <2>5 DEF FlagTypes, CopiesAreLists
    <2>7. /\ snapshots' \in Seq(Copies) /\ Len(snapshots') = Len(snapshots) - 1
          /\ \A i \in 1..Len(snapshots') : snapshots'[i] = snapshots[i] /\ i \in 1..Len(snapshots)
      <3>1. snapshots \in Seq(Copies) BY <1>0 DEF FlagTypes
      <3> QED BY <2>1, <2>5, <3>1, LastIsCut
    <2> HIDE DEF c
    <2>8. FlagTypes' BY <1>0, <2>1, <2>3, <2>6, <2>7 DEF FlagTypes, Copies
    <2>9. CopiesAreLists' /\ CopiesAreCounted'
      BY <1>0, <2>3, <2>4, <2>5, <2>7 DEF CopiesAreLists, CopiesAreCounted
    <2>10. RunningAreKnown'
      <3>1. \A j \in CacheCalls : run[j].list \in Nat BY <1>r DEF RunTypes
      <3>3. \A n \in Nat, f \in Nat : n <= f => n <= f + 1 /\ n # f + 1 OBVIOUS
      <3> QED BY <1>0, <2>2, <2>3, <2>4, <3>1, <3>3 DEF RunningAreKnown
    <2>11. AloneIsTrue'
      <3>1. ASSUME ~mixed
            PROVE  /\ flags = ran /\ c = [known |-> known, executed |-> flags]
                   /\ \A j \in CacheCalls : run[j].at = "running" => j = k
        BY <1>0, <2>1, <3>1 DEF AloneIsTrue, c
      <3>2. ASSUME ~mixed PROVE flags' = ran' /\ \A j \in CacheCalls : run'[j].at # "running"
        BY <2>1, <2>2, <2>3, <3>1, <3>2
      <3> QED BY <2>1, <3>2 DEF AloneIsTrue
    <2> QED BY <1>g, <2>1, <2>8, <2>9, <2>10, <2>11 DEF FlagInv
  <1>5. ASSUME NEW m \in Migrations, V!GuardAdd(m) PROVE FlagInv'
    <2>1. /\ config' = Append(config, m)
          /\ UNCHANGED <<known, flags, ran, snapshots, run, mixed, initialized, config_history, at, next, undos>>
      BY <1>5 DEF V!GuardAdd, V!tracker
    <2>2. \A i \in 1..Len(config_history) : config_history[i] \in Seq(Migrations) BY <1>0 DEF GuardTypes
    <2>3. \A i \in 1..Len(config_history) : IsBeginning(config_history[i], config')
      BY <1>0, <2>1, <2>2, BeginningsStay DEF GuardTypes, HistoryBegins
    <2>4. GuardTypes' /\ HistoryBegins' BY <1>0, <2>1, <2>3 DEF GuardTypes, HistoryBegins
    <2> QED BY <1>t, <2>1, <2>4 DEF FlagInv
  <1>6. ASSUME V!ExecuteAllMigrations PROVE FlagInv'
    <2>1. /\ config_history' = Append(config_history, config) /\ at' \in {"idle", "running"} /\ next' \in Nat
          /\ UNCHANGED <<known, flags, ran, snapshots, run, mixed, initialized, config, undos>>
      BY <1>6 DEF V!ExecuteAllMigrations, V!At, V!tracker
    <2>2. config \in Seq(Migrations) /\ config_history \in Seq(Seq(Migrations)) /\ IsBeginning(config, config)
      <3>1. \A m \in Migrations : IsBeginning(config, config) BY <1>0, BeginningsStay DEF GuardTypes
      <3>2. CASE Migrations = {}
        <4>1. config = <<>> BY <1>0, <3>2 DEF GuardTypes
        <4> QED BY <1>0, <4>1 DEF GuardTypes, IsBeginning
      <3> QED BY <1>0, <3>1, <3>2 DEF GuardTypes
    <2>3. /\ config_history' \in Seq(Seq(Migrations)) /\ Len(config_history') = Len(config_history) + 1
          /\ config_history'[Len(config_history) + 1] = config /\ Len(config_history) \in Nat
          /\ \A i \in 1..Len(config_history) : config_history'[i] = config_history[i] BY <2>1, <2>2
    <2>4. \A i \in 1..Len(config_history') : i \in 1..Len(config_history) \/ i = Len(config_history) + 1
      BY <2>3
    <2>5. GuardTypes' /\ HistoryBegins' BY <1>0, <2>1, <2>2, <2>3, <2>4 DEF GuardTypes, HistoryBegins
    <2> QED BY <1>t, <2>1, <2>5 DEF FlagInv
  <1>7. ASSUME V!TrackerUndoLastMigration PROVE FlagInv'
    <2>1. /\ config_history # <<>> /\ undos < MaxGuarded /\ undos' = undos + 1
          /\ config_history' = WithoutLast(config_history) /\ at' = "undoing"
          /\ UNCHANGED <<known, flags, ran, snapshots, run, mixed, initialized, config, next>>
      BY <1>7 DEF WithoutLast, V!TrackerUndoLastMigration, V!tracker
    <2>2. /\ config_history' \in Seq(Seq(Migrations))
          /\ \A i \in 1..Len(config_history') : config_history'[i] = config_history[i] /\ i \in 1..Len(config_history)
      BY <1>0, <2>1, LastIsCut DEF GuardTypes
    <2>3. undos' \in 0..MaxGuarded BY <1>0, <2>1, RunLimits DEF GuardTypes
    <2>4. GuardTypes' /\ HistoryBegins' BY <1>0, <2>1, <2>2, <2>3 DEF GuardTypes, HistoryBegins
    <2> QED BY <1>t, <2>1, <2>4 DEF FlagInv
  <1>8. ASSUME V!GuardInit \/ V!GuardExecuted \/ V!GuardFails \/ V!Undone \/ UNCHANGED V!tracker_vars
        PROVE  FlagInv'
    <2>1. /\ UNCHANGED <<known, flags, ran, snapshots, run, mixed, config, config_history, undos>>
          /\ initialized' \in {TRUE, initialized} /\ at' \in {"idle", "running", at} /\ next' \in {0, next + 1, next}
      BY <1>8 DEF V!GuardInit, V!GuardExecuted, V!GuardFails, V!Undone, V!At, V!tracker, V!tracker_vars
    <2>2. GuardTypes'
      <3>1. next' \in Nat /\ at' \in {"idle", "running", "undoing"} BY <1>0, <2>1 DEF GuardTypes
      <3>2. initialized' \in BOOLEAN BY <1>0, <2>1, Zenon DEF GuardTypes
      <3> QED BY <1>0, <2>1, <3>1, <3>2, Zenon DEF GuardTypes
    <2>3. HistoryBegins' BY <1>0, <2>1 DEF HistoryBegins
    <2> QED BY <1>t, <2>1, <2>2, <2>3 DEF FlagInv
  <1> QED BY <1>1, <1>2, <1>3, <1>4, <1>5, <1>6, <1>7, <1>8 DEF V!TrackerNext

LEMMA FlagImplies == FlagInv => V!TrackerTypeOK /\ V!FlagsAreTrue
  <1> SUFFICES ASSUME FlagInv PROVE V!TrackerTypeOK /\ V!FlagsAreTrue OBVIOUS
  <1>1. V!TrackerTypeOK BY DEF FlagInv, FlagTypes, GuardTypes, Copies, RunTypes, V!TrackerTypeOK, V!Lists
  <1>2. ~mixed => flags = ran BY DEF FlagInv, AloneIsTrue
  <1>3. Len(snapshots) = V!Cardinality({k \in CacheCalls : run[k].at \in {"running", "done"}})
    BY CountsAlike DEF FlagInv, CopiesAreCounted, CopiedRuns
  <1>4. \A i \in 1..Len(config_history) : config_history[i] = SubSeq(config, 1, Len(config_history[i]))
    BY DEF FlagInv, HistoryBegins, IsBeginning
  <1> QED BY <1>1, <1>2, <1>3, <1>4, Zenon DEF V!FlagsAreTrue

-----------------------------------------------------------------------------
(* migration_store.js, the queue.                                          *)
LEMMA QueueLimits == MaxRollbacks \in Nat BY LimitsAssumption

LEMMA QueueStarts == V!QueueInit => QueueInv
  <1> SUFFICES ASSUME V!QueueInit PROVE QueueInv OBVIOUS
  <1>1. /\ arrays = <<<<>>>> /\ added = {} /\ migration_history = <<>> /\ rollbacks = 0
        /\ apply = [k \in CacheCalls |-> [at |-> "idle", array |-> 0, i |-> 0]]
        /\ rollback = [at |-> "idle", i |-> 0, idx |-> 0]
        /\ stop_on_error \in BOOLEAN /\ overlapped = FALSE BY Zenon DEF V!QueueInit
  <1>2. <<>> \in Seq(Migrations) /\ <<>> \in Seq(Tries) /\ Len(<<>>) = 0 OBVIOUS
  <1>3. <<<<>>>> \in Seq(Seq(Migrations)) /\ <<<<>>>> # <<>> /\ Len(<<<<>>>>) = 1 /\ <<<<>>>>[1] = <<>>
    OBVIOUS
  <1>4. QueueTypes BY <1>1, <1>2, <1>3, Zenon DEF QueueTypes
  <1>5. QueueFlags BY <1>1, Zenon DEF QueueFlags
  <1>6. \A k \in CacheCalls : ~Executes(k) BY <1>1 DEF Executes
  <1>7. LoopsAreTyped BY <1>1, <1>6 DEF LoopsAreTyped, ApplyTypes
  <1>8. RollbackIsTyped /\ rollback.at # "rolling" BY <1>1, QueueLimits DEF RollbackIsTyped
  <1>9. QueueIsAlone BY <1>6, <1>8 DEF QueueIsAlone
  <1>10. Waiting = <<>>
    <2>1. Waiting = <<<<>>>>[1] BY <1>1, <1>3, Zenon DEF Waiting, LastOf
    <2> QED BY <1>3, <2>1, Zenon
  <1>11. \A m : TriesOf(migration_history, m) = {} BY <1>1, <1>2 DEF TriesOf
  <1>12. PassedAreTried(migration_history, Waiting, 1) BY <1>2, <1>10 DEF PassedAreTried
  <1>13. AddedAreTried BY <1>1, <1>6, <1>10, <1>11, <1>12, EmptyQueue DEF AddedAreTried
  <1> QED BY <1>4, <1>5, <1>7, <1>8, <1>9, <1>13 DEF QueueInv

(* A try is added to the history.                                          *)
LEMMA ATryIsKept ==
  ASSUME NEW tried \in Seq(Tries), NEW e \in Tries, NEW after, after = Append(tried, e)
  PROVE  /\ after \in Seq(Tries)
         /\ \A m : m # e.id => TriesOf(after, m) = TriesOf(tried, m)
         /\ TriesOf(tried, e.id) = {} => Cardinality(TriesOf(after, e.id)) = 1
  <1>1. /\ after \in Seq(Tries) /\ Len(tried) \in Nat /\ Len(after) = Len(tried) + 1
        /\ after[Len(tried) + 1] = e /\ \A i \in 1..Len(tried) : after[i] = tried[i]
    OBVIOUS
  <1>2. \A i \in 1..Len(after) : i \in 1..Len(tried) \/ i = Len(tried) + 1 BY <1>1
  <1>3. \A i \in 1..Len(tried) : i \in 1..Len(after) BY <1>1
  <1>4. \A m : m # e.id => TriesOf(after, m) = TriesOf(tried, m) BY <1>1, <1>2, <1>3 DEF TriesOf
  <1>5. ASSUME TriesOf(tried, e.id) = {} PROVE Cardinality(TriesOf(after, e.id)) = 1
    <2>1. Len(tried) + 1 \in 1..Len(after) BY <1>1
    <2>2. TriesOf(after, e.id) = {Len(tried) + 1} BY <1>1, <1>2, <1>5, <2>1 DEF TriesOf
    <2> QED BY <2>2, FS_Singleton
  <1> QED BY <1>1, <1>4, <1>5

LEMMA LoopContinues ==
  ASSUME QueueTypes, LoopsAreTyped, NEW k \in CacheCalls, NEW a \in 1..Len(arrays),
         NEW i \in Nat \ {0}, V!Continue(k, a, i)
  PROVE  /\ LoopGoesOn(k, a, i) \/ LoopEnds(k, a, i)
         /\ LoopsAreTyped' /\ arrays' \in Seq(Seq(Migrations)) /\ arrays' # <<>>
         /\ \A j \in CacheCalls \ {k} : apply'[j] = apply[j]
  <1>1. a \in Nat /\ i \in Nat /\ Len(arrays) \in Nat /\ \A b \in 1..Len(arrays) : arrays[b] \in Seq(Migrations)
    BY DEF QueueTypes
  <1>2. \A b \in 1..Len(arrays) : Len(arrays[b]) \in Nat BY <1>1
  <1>3. CASE i <= Len(arrays[a])
    <2> DEFINE r == [at |-> "executing", array |-> a, i |-> i]
    <2>1. arrays' = arrays /\ apply' = [apply EXCEPT ![k] = r] BY <1>1, <1>2, <1>3 DEF V!Continue
    <2>2. r \in ApplyTypes /\ r.at = "executing" /\ r.array = a /\ r.i = i BY <1>1 DEF ApplyTypes
    <2> HIDE DEF r
    <2>3. apply' \in [CacheCalls -> ApplyTypes] /\ apply'[k] = r /\ \A j \in CacheCalls \ {k} : apply'[j] = apply[j]
      BY <2>1, <2>2 DEF LoopsAreTyped
    <2>4. i \in 1..Len(arrays[a]) BY <1>1, <1>2, <1>3
    <2>5. LoopsAreTyped' BY <2>1, <2>2, <2>3, <2>4 DEF LoopsAreTyped, Executes
    <2> QED BY <1>3, <2>1, <2>2, <2>3, <2>5 DEF QueueTypes, LoopGoesOn, Executes
  <1>4. CASE ~(i <= Len(arrays[a]))
    <2> DEFINE r == [at |-> "done", array |-> a, i |-> i]
    <2>1. arrays' = Append(arrays, <<>>) /\ apply' = [apply EXCEPT ![k] = r] /\ i > Len(arrays[a])
      BY <1>1, <1>2, <1>4 DEF V!Continue
    <2>2. r \in ApplyTypes /\ r.at = "done" BY <1>1 DEF ApplyTypes
    <2> HIDE DEF r
    <2>3. apply' \in [CacheCalls -> ApplyTypes] /\ apply'[k] = r /\ \A j \in CacheCalls \ {k} : apply'[j] = apply[j]
      BY <2>1, <2>2 DEF LoopsAreTyped
    <2>4. /\ arrays' \in Seq(Seq(Migrations)) /\ arrays' # <<>> /\ Len(arrays') = Len(arrays) + 1
          /\ arrays'[Len(arrays) + 1] = <<>> /\ \A b \in 1..Len(arrays) : arrays'[b] = arrays[b]
      <3> DEFINE none == <<>>
      <3>1. none \in Seq(Migrations) OBVIOUS
      <3>2. arrays' = Append(arrays, none) /\ arrays \in Seq(Seq(Migrations)) BY <2>1 DEF QueueTypes
      <3> HIDE DEF none
      <3>3. /\ arrays' \in Seq(Seq(Migrations)) /\ Len(arrays') = Len(arrays) + 1
            /\ arrays'[Len(arrays) + 1] = none /\ \A b \in 1..Len(arrays) : arrays'[b] = arrays[b]
        BY <3>1, <3>2
      <3>4. arrays' # <<>> BY <1>1, <3>3
      <3> QED BY <3>3, <3>4 DEF none
    <2>5. \A b \in 1..Len(arrays) : b \in 1..Len(arrays') BY <1>1, <2>4
    <2>6. LoopsAreTyped' BY <2>2, <2>3, <2>4, <2>5 DEF LoopsAreTyped, Executes
    <2> QED BY <2>1, <2>2, <2>3, <2>4, <2>6 DEF LoopEnds, LastOf, Executes
  <1> QED BY <1>3, <1>4

LEMMA QueueKeeps == QueueInv /\ [V!QueueNext]_(V!queue_vars) => QueueInv'
  <1> SUFFICES ASSUME QueueInv, [V!QueueNext]_(V!queue_vars) PROVE QueueInv' OBVIOUS
  <1>0. QueueTypes /\ QueueFlags /\ LoopsAreTyped /\ RollbackIsTyped /\ QueueIsAlone /\ AddedAreTried
    BY DEF QueueInv
  <1>l. Len(arrays) \in 1..Len(arrays) /\ Waiting \in Seq(Migrations) /\ Len(Waiting) \in Nat
        /\ Waiting = arrays[Len(arrays)] /\ Len(arrays) \in Nat
    <2>1. arrays \in Seq(Seq(Migrations)) /\ arrays # <<>> BY <1>0 DEF QueueTypes
    <2>2. Waiting \in Seq(Migrations) /\ Len(arrays) \in 1..Len(arrays) /\ Len(arrays) \in Nat
      BY <2>1, LastIsCut DEF Waiting
    <2> QED BY <2>2 DEF Waiting, LastOf
  <1>1. ASSUME NEW m \in Migrations, V!QueueAddMigration(m) PROVE QueueInv'
    <2>1. /\ m \notin added /\ added' = added \cup {m}
          /\ UNCHANGED <<migration_history, apply, rollback, rollbacks, stop_on_error, overlapped>>
      BY <1>1 DEF V!QueueAddMigration
    <2>2. arrays' = [arrays EXCEPT ![Len(arrays)] = Append(Waiting, m)]
      BY <1>0, <1>1, <1>l DEF V!QueueAddMigration, QueueTypes
    <2>3. /\ Append(Waiting, m) \in Seq(Migrations)
          /\ Members(Append(Waiting, m)) = Members(Waiting) \cup {m}
          /\ Distinct(Waiting) /\ m \notin Members(Waiting) => Distinct(Append(Waiting, m))
          /\ Len(Append(Waiting, m)) = Len(Waiting) + 1 /\ Append(Waiting, m)[Len(Waiting) + 1] = m
          /\ \A n \in 1..Len(Waiting) : Append(Waiting, m)[n] = Waiting[n] BY <1>l, QueueGrows
    <2>4. /\ arrays' \in Seq(Seq(Migrations)) /\ arrays' # <<>> /\ Len(arrays') = Len(arrays)
          /\ arrays'[Len(arrays)] = Append(Waiting, m)
          /\ \A b \in 1..Len(arrays) : b # Len(arrays) => arrays'[b] = arrays[b]
      BY <1>0, <1>l, <2>2, <2>3 DEF QueueTypes
    <2>w. Waiting' = Append(Waiting, m) BY <2>4 DEF Waiting, LastOf
    <2>5. QueueTypes' /\ QueueFlags' BY <1>0, <2>1, <2>4 DEF QueueTypes, QueueFlags
    <2>6. LoopsAreTyped'
      <3>1. \A b \in 1..Len(arrays) : \A i \in 1..Len(arrays[b]) : i \in 1..Len(arrays'[b])
        <4>1. \A i \in 1..Len(Waiting) : i \in 1..(Len(Waiting) + 1) BY <1>l
        <4> QED BY <1>l, <2>3, <2>4, <4>1
      <3> QED BY <1>0, <2>1, <2>4, <3>1 DEF LoopsAreTyped, Executes
    <2>7. RollbackIsTyped' /\ QueueIsAlone'
      BY <1>0, <2>1, <2>4 DEF RollbackIsTyped, QueueIsAlone, Executes
    <2>8. AddedAreTried'
      <3> SUFFICES ASSUME ~overlapped, ~stop_on_error, rollbacks = 0
          PROVE  /\ \A x \in added' : x \notin Members(Waiting') => Cardinality(TriesOf(migration_history', x)) = 1
                 /\ Members(Waiting') \subseteq added' /\ Distinct(Waiting')
                 /\ \A x \in Migrations : x \notin added' => TriesOf(migration_history', x) = {}
                 /\ \A k \in CacheCalls : Executes(k)' => PassedAreTried(migration_history', Waiting', apply'[k].i)
                 /\ (\A k \in CacheCalls : ~Executes(k)') => PassedAreTried(migration_history', Waiting', 1)
        BY <2>1, Zenon DEF AddedAreTried
      <3>1. /\ \A x \in added : x \notin Members(Waiting) => Cardinality(TriesOf(migration_history, x)) = 1
            /\ Members(Waiting) \subseteq added /\ Distinct(Waiting)
            /\ \A x \in Migrations : x \notin added => TriesOf(migration_history, x) = {}
            /\ \A k \in CacheCalls : Executes(k) => PassedAreTried(migration_history, Waiting, apply[k].i)
            /\ (\A k \in CacheCalls : ~Executes(k)) => PassedAreTried(migration_history, Waiting, 1)
        BY <1>0, Zenon DEF AddedAreTried
      <3>2. TriesOf(migration_history, m) = {} BY <2>1, <3>1
      <3>3. ASSUME NEW i \in 1..(Len(Waiting) + 1), PassedAreTried(migration_history, Waiting, i)
            PROVE  PassedAreTried(migration_history, Append(Waiting, m), i)
        <4>1. \A n \in 1..Len(Append(Waiting, m)) : n \in 1..Len(Waiting) \/ (n = Len(Waiting) + 1 /\ ~(n < i))
          BY <1>l, <2>3
        <4> QED BY <2>3, <3>2, <3>3, <4>1, Zenon DEF PassedAreTried
      <3>4. \A k \in CacheCalls : Executes(k) => apply[k].i \in 1..(Len(Waiting) + 1)
        BY <1>0, <1>l DEF LoopsAreTyped, QueueIsAlone
      <3>5. 1 \in 1..(Len(Waiting) + 1) BY <1>l
      <3>6. /\ \A x \in added' : x \notin Members(Waiting') => Cardinality(TriesOf(migration_history', x)) = 1
            /\ Members(Waiting') \subseteq added' /\ Distinct(Waiting')
            /\ \A x \in Migrations : x \notin added' => TriesOf(migration_history', x) = {}
        BY <2>1, <2>3, <2>w, <3>1
      <3> QED BY <2>1, <2>w, <3>1, <3>3, <3>4, <3>5, <3>6, Zenon DEF Executes
    <2> QED BY <2>5, <2>6, <2>7, <2>8 DEF QueueInv
  <1>2. ASSUME NEW k \in CacheCalls, V!ApplyPendingMigrations(k) PROVE QueueInv'
    <2>1. /\ V!Continue(k, Len(arrays), 1) /\ ~Executes(k)
          /\ UNCHANGED <<added, migration_history, rollback, rollbacks, stop_on_error>>
      BY <1>2 DEF V!ApplyPendingMigrations, Executes
    <2>2. ~overlapped' => ~overlapped /\ rollback.at # "rolling" /\ \A j \in CacheCalls : ~Executes(j)
      BY <1>2, Zenon DEF V!ApplyPendingMigrations, V!Busy, Executes
    <2>3. /\ LoopGoesOn(k, Len(arrays), 1) \/ LoopEnds(k, Len(arrays), 1)
          /\ LoopsAreTyped' /\ arrays' \in Seq(Seq(Migrations)) /\ arrays' # <<>>
          /\ \A j \in CacheCalls \ {k} : apply'[j] = apply[j] BY <1>0, <1>l, <2>1, LoopContinues
    <2>f. overlapped' \in BOOLEAN BY <1>2, Zenon DEF V!ApplyPendingMigrations
    <2>4. QueueTypes' /\ QueueFlags' /\ RollbackIsTyped'
      BY <1>0, <2>1, <2>3, <2>f, Zenon DEF QueueTypes, QueueFlags, RollbackIsTyped
    <2>5. QueueIsAlone' BY <1>0, <2>1, <2>2, <2>3 DEF QueueIsAlone, LoopGoesOn, LoopEnds, Executes
    <2>6. AddedAreTried'
      <3> SUFFICES ASSUME ~overlapped', ~stop_on_error, rollbacks = 0 PROVE AddedAreTried'
        BY <2>1, Zenon DEF AddedAreTried
      <3>1. /\ \A x \in added : x \notin Members(Waiting) => Cardinality(TriesOf(migration_history, x)) = 1
            /\ Members(Waiting) \subseteq added /\ Distinct(Waiting)
            /\ \A x \in Migrations : x \notin added => TriesOf(migration_history, x) = {}
            /\ PassedAreTried(migration_history, Waiting, 1) BY <1>0, <2>2, Zenon DEF AddedAreTried
      <3>2. CASE LoopGoesOn(k, Len(arrays), 1)
        <4>1. Waiting' = Waiting /\ Executes(k)' /\ apply'[k].i = 1 BY <3>2, Zenon DEF LoopGoesOn, Waiting
        <4>2. \A j \in CacheCalls : Executes(j)' => j = k BY <2>2, <2>3, Zenon DEF Executes
        <4> QED BY <2>1, <3>1, <4>1, <4>2, Zenon DEF AddedAreTried
      <3>3. CASE LoopEnds(k, Len(arrays), 1)
        <4>1. Waiting' = <<>> /\ ~(1 <= Len(Waiting)) BY <1>l, <3>3 DEF LoopEnds, Waiting
        <4>2. Members(Waiting) = {} BY <1>l, <4>1 DEF Members
        <4>3. \A i : PassedAreTried(migration_history, <<>>, i) BY DEF PassedAreTried
        <4> QED BY <2>1, <3>1, <4>1, <4>2, <4>3, EmptyQueue, Zenon DEF AddedAreTried
      <3> QED BY <2>3, <3>2, <3>3
    <2> QED BY <2>3, <2>4, <2>5, <2>6 DEF QueueInv
  <1>3. ASSUME NEW k \in CacheCalls, NEW ok \in BOOLEAN, V!QueueExecuted(k, ok) PROVE QueueInv'
    <2> DEFINE a == apply[k].array
               i == apply[k].i
               m == arrays[a][i]
               e == [id |-> m, success |-> ok]
               n == V!After(k, ok)
    <2>1. /\ Executes(k) /\ migration_history' = Append(migration_history, e)
          /\ V!Continue(k, a, n) /\ UNCHANGED <<added, rollback, rollbacks, stop_on_error, overlapped>>
      BY <1>3 DEF V!QueueExecuted, V!Executing, Executes
    <2>2. /\ a \in 1..Len(arrays) /\ i \in 1..Len(arrays[a]) /\ arrays[a] \in Seq(Migrations)
          /\ Len(arrays[a]) \in Nat /\ i \in Nat BY <1>0, <2>1 DEF LoopsAreTyped, QueueTypes
    <2>3. m \in Migrations /\ n \in Nat \ {0} /\ (~stop_on_error => n = i + 1) BY <2>2 DEF V!After
    <2>e. e \in Tries /\ e.id = m BY <2>3 DEF Tries
    <2>4. migration_history \in Seq(Tries) BY <1>0 DEF QueueTypes
    <2> HIDE DEF e, n
    <2>5. /\ migration_history' \in Seq(Tries)
          /\ \A x : x # m => TriesOf(migration_history', x) = TriesOf(migration_history, x)
          /\ TriesOf(migration_history, m) = {} => Cardinality(TriesOf(migration_history', m)) = 1
      <3>1. migration_history' = Append(migration_history, e) /\ e \in Tries BY <2>1, <2>e, Zenon
      <3>2. /\ Append(migration_history, e) \in Seq(Tries)
            /\ \A x : x # e.id => TriesOf(Append(migration_history, e), x) = TriesOf(migration_history, x)
            /\ TriesOf(migration_history, e.id) = {} => Cardinality(TriesOf(Append(migration_history, e), e.id)) = 1
        BY <2>4, <3>1, ATryIsKept, Zenon
      <3> QED BY <2>e, <3>1, <3>2, Zenon
    <2>6. /\ LoopGoesOn(k, a, n) \/ LoopEnds(k, a, n)
          /\ LoopsAreTyped' /\ arrays' \in Seq(Seq(Migrations)) /\ arrays' # <<>>
          /\ \A j \in CacheCalls \ {k} : apply'[j] = apply[j] BY <1>0, <2>1, <2>2, <2>3, LoopContinues
    <2>7. QueueTypes' /\ QueueFlags' /\ RollbackIsTyped'
      BY <1>0, <2>1, <2>5, <2>6, Zenon DEF QueueTypes, QueueFlags, RollbackIsTyped
    <2>8. ~overlapped => a = Len(arrays) /\ rollback.at # "rolling" /\ \A j \in CacheCalls : Executes(j) => j = k
      BY <1>0, <2>1 DEF QueueIsAlone
    <2> HIDE DEF m, a, i
    <2>9. QueueIsAlone' BY <2>1, <2>6, <2>8 DEF QueueIsAlone, LoopGoesOn, LoopEnds, Executes
    <2>10. AddedAreTried'
      <3> SUFFICES ASSUME ~overlapped, ~stop_on_error, rollbacks = 0 PROVE AddedAreTried'
        BY <2>1, Zenon DEF AddedAreTried
      <3>1. /\ \A x \in added : x \notin Members(Waiting) => Cardinality(TriesOf(migration_history, x)) = 1
            /\ Members(Waiting) \subseteq added /\ Distinct(Waiting)
            /\ \A x \in Migrations : x \notin added => TriesOf(migration_history, x) = {}
            /\ PassedAreTried(migration_history, Waiting, i) BY <1>0, <2>1, Zenon DEF AddedAreTried, i
      <3>2. /\ a = Len(arrays) /\ i \in 1..Len(Waiting) /\ m = Waiting[i] /\ n = i + 1
        BY <1>l, <2>2, <2>3, <2>8 DEF m
      <3>3. m \in Members(Waiting) /\ TriesOf(migration_history, m) = {}
        <4>1. ~(i < i) BY <2>2
        <4> QED BY <3>1, <3>2, <4>1 DEF Members, PassedAreTried
      <3>4. Cardinality(TriesOf(migration_history', m)) = 1 BY <2>5, <3>3
      <3>5. PassedAreTried(migration_history', Waiting, n)
        <4> SUFFICES ASSUME NEW b \in 1..Len(Waiting)
            PROVE  /\ b < n => Cardinality(TriesOf(migration_history', Waiting[b])) = 1
                   /\ ~(b < n) => TriesOf(migration_history', Waiting[b]) = {} BY Zenon DEF PassedAreTried
        <4>1. b < n <=> (b < i \/ b = i) BY <1>l, <2>2, <3>2
        <4>2. b # i => Waiting[b] # m BY <3>1, <3>2 DEF Distinct
        <4>3. b < i => b # i BY <2>2
        <4> QED BY <2>5, <3>1, <3>2, <3>4, <4>1, <4>2, <4>3, Zenon DEF PassedAreTried
      <3>6. \A x \in Migrations : x \notin added => TriesOf(migration_history', x) = {}
        BY <2>5, <3>1, <3>3
      <3>7. \A x \in added : x \notin Members(Waiting) => Cardinality(TriesOf(migration_history', x)) = 1
        BY <2>5, <3>1, <3>3
      <3>8. CASE LoopGoesOn(k, a, n)
        <4>1. Waiting' = Waiting /\ Executes(k)' /\ apply'[k].i = n BY <3>8, Zenon DEF LoopGoesOn, Waiting
        <4>2. \A j \in CacheCalls : Executes(j)' => j = k BY <2>6, <2>8, Zenon DEF Executes
        <4> QED BY <2>1, <3>1, <3>5, <3>6, <3>7, <4>1, <4>2, Zenon DEF AddedAreTried
      <3>9. CASE LoopEnds(k, a, n)
        <4>1. Waiting' = <<>> /\ n > Len(Waiting) BY <1>l, <3>2, <3>9 DEF LoopEnds, Waiting
        <4>2. \A b \in 1..Len(Waiting) : b < n BY <1>l, <2>3, <4>1
        <4>3. \A x \in Members(Waiting) : Cardinality(TriesOf(migration_history', x)) = 1
          BY <3>5, <4>2 DEF PassedAreTried, Members
        <4>4. \A b : PassedAreTried(migration_history', <<>>, b) BY DEF PassedAreTried
        <4> QED BY <2>1, <3>6, <3>7, <4>1, <4>3, <4>4, EmptyQueue, Zenon DEF AddedAreTried
      <3> QED BY <2>6, <3>8, <3>9
    <2> QED BY <2>6, <2>7, <2>9, <2>10 DEF QueueInv
  <1>4. ASSUME NEW m \in Migrations, V!RollbackToVersion(m) PROVE QueueInv'
    <2>1. /\ rollbacks < MaxRollbacks /\ rollbacks' = rollbacks + 1
          /\ UNCHANGED <<arrays, added, migration_history, apply, stop_on_error>>
          /\ \E j \in 1..Len(migration_history) :
               rollback' = [at |-> "rolling", i |-> Len(migration_history), idx |-> j]
      BY <1>4 DEF V!RollbackToVersion
    <2>2. (~overlapped' => ~overlapped /\ \A j \in CacheCalls : ~Executes(j)) /\ overlapped' \in BOOLEAN
      BY <1>4, Zenon DEF V!RollbackToVersion, V!Busy, Executes
    <2>3. QueueTypes' /\ QueueFlags' BY <1>0, <2>1, <2>2, Zenon DEF QueueTypes, QueueFlags
    <2>4. LoopsAreTyped' BY <1>0, <2>1 DEF LoopsAreTyped, Executes
    <2>5. RollbackIsTyped' /\ rollback'.i = Len(migration_history') /\ rollbacks' # 0
      <3>1. Len(migration_history) \in Nat BY <1>0 DEF QueueTypes
      <3> QED BY <1>0, <2>1, <3>1, QueueLimits DEF RollbackIsTyped
    <2>6. QueueIsAlone' /\ AddedAreTried'
      BY <2>1, <2>2, <2>5, Zenon DEF QueueIsAlone, AddedAreTried, Executes
    <2> QED BY <2>3, <2>4, <2>5, <2>6 DEF QueueInv
  <1>w. ASSUME RollbackIsTyped, rollback.at = "rolling", V!Walk, rollbacks' = rollbacks
        PROVE  /\ RollbackIsTyped' /\ rollbacks # 0
               /\ rollback'.at = "rolling" => rollback'.i = rollback.i - 1
    <2>1. CASE rollback.i > rollback.idx /\ rollback' = [rollback EXCEPT !.i = @ - 1]
      BY <1>w, <2>1 DEF RollbackIsTyped
    <2>2. CASE rollback' = [at |-> "idle", i |-> 0, idx |-> 0] BY <1>w, <2>2 DEF RollbackIsTyped
    <2> QED BY <1>w, <2>1, <2>2, Zenon DEF V!Walk
  <1>5. ASSUME V!QueueRolledBack PROVE QueueInv'
    <2>1. /\ rollback.at = "rolling" /\ migration_history # <<>> /\ V!Walk
          /\ migration_history' = WithoutLast(migration_history)
          /\ UNCHANGED <<arrays, added, apply, rollbacks, stop_on_error, overlapped>>
      BY <1>5, Zenon DEF V!QueueRolledBack, WithoutLast
    <2>2. migration_history' \in Seq(Tries) /\ Len(migration_history') = Len(migration_history) - 1
      BY <1>0, <2>1, LastIsCut DEF QueueTypes
    <2>3. /\ RollbackIsTyped' /\ rollbacks # 0
          /\ rollback'.at = "rolling" => rollback'.i = rollback.i - 1 BY <1>0, <1>w, <2>1
    <2>4. QueueTypes' /\ QueueFlags' /\ LoopsAreTyped'
      BY <1>0, <2>1, <2>2, Zenon DEF QueueTypes, QueueFlags, LoopsAreTyped, Executes
    <2>5. QueueIsAlone' BY <1>0, <2>1, <2>2, <2>3 DEF QueueIsAlone, Executes
    <2>6. AddedAreTried' BY <2>1, <2>3 DEF AddedAreTried
    <2> QED BY <2>3, <2>4, <2>5, <2>6 DEF QueueInv
  <1>6. ASSUME V!QueueRollbackFails PROVE QueueInv'
    <2>1. /\ rollback.at = "rolling" /\ V!Walk /\ overlapped' = TRUE
          /\ UNCHANGED <<arrays, added, migration_history, apply, rollbacks, stop_on_error>>
      BY <1>6, Zenon DEF V!QueueRollbackFails
    <2>2. RollbackIsTyped' BY <1>0, <1>w, <2>1
    <2>3. QueueTypes' /\ QueueFlags' /\ LoopsAreTyped' /\ QueueIsAlone' /\ AddedAreTried'
      BY <1>0, <2>1, Zenon DEF QueueTypes, QueueFlags, LoopsAreTyped, Executes, QueueIsAlone, AddedAreTried
    <2> QED BY <2>2, <2>3 DEF QueueInv
  <1>8. ASSUME NEW k \in CacheCalls, NEW ok \in BOOLEAN, V!QueueListenerThrows(k, ok) PROVE QueueInv'
    <2> DEFINE a == apply[k].array
               n == V!After(k, FALSE)
               e == [i \in 1..(IF ok THEN 2 ELSE 1) |-> [id |-> arrays[a][apply[k].i], success |-> ok /\ i = 1]]
    <2>1. /\ Executes(k) /\ migration_history' = migration_history \o e /\ overlapped' = TRUE
          /\ UNCHANGED <<added, rollback, rollbacks, stop_on_error>>
          /\ V!Continue(k, a, n) \/ (apply' = [apply EXCEPT ![k].at = "done"] /\ UNCHANGED arrays)
      BY <1>8, Zenon DEF V!QueueListenerThrows, V!Executing, Executes
    <2>2. /\ a \in 1..Len(arrays) /\ apply[k].i \in 1..Len(arrays[a]) /\ arrays[a] \in Seq(Migrations)
          /\ Len(arrays[a]) \in Nat /\ apply[k].i \in Nat BY <1>0, <2>1 DEF LoopsAreTyped, QueueTypes
    <2>3. e \in Seq(Tries)
      <3>1. arrays[a][apply[k].i] \in Migrations BY <2>2
      <3>2. CASE ok BY <3>1, <3>2 DEF Tries
      <3>3. CASE ~ok BY <3>1, <3>3 DEF Tries
      <3> QED BY <3>2, <3>3
    <2>4. n \in Nat \ {0} BY <2>2 DEF V!After
    <2>5. migration_history \in Seq(Tries) BY <1>0 DEF QueueTypes
    <2> HIDE DEF e, n
    <2>6. migration_history' \in Seq(Tries) BY <2>1, <2>3, <2>5
    <2>7. LoopsAreTyped' /\ arrays' \in Seq(Seq(Migrations)) /\ arrays' # <<>>
      <3>1. CASE V!Continue(k, a, n) BY <1>0, <2>2, <2>4, <3>1, LoopContinues
      <3>2. CASE apply' = [apply EXCEPT ![k].at = "done"] /\ UNCHANGED arrays
        BY <1>0, <3>2 DEF LoopsAreTyped, QueueTypes, ApplyTypes, Executes
      <3> QED BY <2>1, <3>1, <3>2
    <2>8. QueueTypes' /\ QueueFlags' /\ RollbackIsTyped' /\ QueueIsAlone' /\ AddedAreTried'
      BY <1>0, <2>1, <2>6, <2>7, Zenon
      DEF QueueTypes, QueueFlags, RollbackIsTyped, QueueIsAlone, AddedAreTried
    <2> QED BY <2>7, <2>8 DEF QueueInv
  <1>7. CASE UNCHANGED V!queue_vars
    <2>1. UNCHANGED <<arrays, added, migration_history, apply, rollback, rollbacks, stop_on_error, overlapped>>
      BY <1>7 DEF V!queue_vars
    <2> QED
      BY <1>0, <2>1, Zenon DEF QueueInv, QueueTypes, QueueFlags, LoopsAreTyped, RollbackIsTyped, QueueIsAlone,
         AddedAreTried, Executes, Waiting
  <1> QED BY <1>1, <1>2, <1>3, <1>4, <1>5, <1>6, <1>7, <1>8 DEF V!QueueNext

LEMMA QueueImplies == QueueInv => V!QueueTypeOK /\ V!AddedIsTried
  <1> SUFFICES ASSUME QueueInv PROVE V!QueueTypeOK /\ V!AddedIsTried OBVIOUS
  <1>1. V!QueueTypeOK
    BY Zenon DEF QueueInv, QueueTypes, QueueFlags, LoopsAreTyped, RollbackIsTyped, Tries, ApplyTypes, V!QueueTypeOK
  <1>2. ASSUME ~overlapped, ~stop_on_error, rollbacks = 0, NEW m \in added
        PROVE  \/ m \in V!Range(arrays[Len(arrays)])
               \/ V!Cardinality({i \in 1..Len(migration_history) : migration_history[i].id = m}) = 1
    <2>1. m \in Members(Waiting) \/ Cardinality(TriesOf(migration_history, m)) = 1
      BY <1>2, Zenon DEF QueueInv, AddedAreTried
    <2>2. Waiting \in Seq(Migrations) BY LastIsCut DEF QueueInv, QueueTypes, Waiting
    <2>3. V!Range(Waiting) = Members(Waiting) BY <2>2 DEF V!Range, Members
    <2> QED BY <2>1, <2>3, CountsAlike DEF TriesOf, Waiting, LastOf
  <1>3. ~overlapped /\ rollback.at = "rolling" => rollback.i = Len(migration_history)
    BY DEF QueueInv, QueueIsAlone
  <1> QED BY <1>1, <1>2, <1>3, Zenon DEF V!AddedIsTried

-----------------------------------------------------------------------------
(***************************************************************************)
(* Sums over finite sets, as the folds of the library define them: a       *)
(* function on the subsets that adds the value of the element picked to    *)
(* the sum of the others.  The least number for which a statement fails    *)
(* stands for induction.                                                   *)
(***************************************************************************)

LEMMA LeastNumber ==
  ASSUME NEW T_ \in SUBSET Nat, T_ # {}
  PROVE  \E m \in T_ : \A k \in T_ : m <= k
  <1>1. PICK m \in T_ : \A k \in T_ : <<k, m>> \notin OpToRel(<, Nat)
    BY WFMin, NatLessThanWellFounded, Zenon
  <1>2. \A k \in T_ : ~(k < m)
    <2>1. \A k \in T_ : k \in Nat /\ m \in Nat OBVIOUS
    <2> QED BY <1>1, <2>1, Zenon DEF OpToRel
  <1>3. \A k \in T_ : m <= k BY <1>2
  <1> QED BY <1>3

LEMMA OneLess ==
  ASSUME NEW Whole, IsFiniteSet(Whole), NEW s \in SUBSET Whole, NEW x \in s
  PROVE  /\ s \ {x} \in SUBSET Whole /\ Cardinality(s) \in Nat /\ Cardinality(s) > 0
         /\ Cardinality(s \ {x}) = Cardinality(s) - 1
  <1>1. IsFiniteSet(s) /\ Cardinality(s) \in Nat BY FS_Subset, FS_CardinalityType
  <1>2. Cardinality(s \ {x}) = Cardinality(s) - 1 /\ IsFiniteSet(s \ {x}) BY <1>1, FS_RemoveElement
  <1>3. Cardinality(s \ {x}) \in Nat BY <1>2, FS_CardinalityType
  <1> QED BY <1>1, <1>2, <1>3

LEMMA SumExists ==
  ASSUME NEW Whole, IsFiniteSet(Whole), NEW val \in [Whole -> Int], NEW pick, Picks(pick, Whole)
  PROVE  \E g : IsSum(g, val, pick, Whole)
  <1> DEFINE Small(n) == {s \in SUBSET Whole : Cardinality(s) <= n}
             Body(h, s) == IF s = {} THEN 0 ELSE val[pick[s]] + h[s \ {pick[s]}]
             Good(n) == \E h \in [Small(n) -> Int] : \A s \in Small(n) : h[s] = Body(h, s)
             Bad == {n \in Nat : ~Good(n)}
  <1>f. \A s \in SUBSET Whole : Cardinality(s) \in Nat BY FS_Subset, FS_CardinalityType
  <1>1. Good(0)
    <2> DEFINE h == [s \in Small(0) |-> 0]
    <2>1. \A s \in Small(0) : s = {}
      <3> SUFFICES ASSUME NEW s \in SUBSET Whole, Cardinality(s) <= 0 PROVE s = {} OBVIOUS
      <3>1. IsFiniteSet(s) /\ Cardinality(s) = 0 BY <1>f, FS_Subset
      <3> QED BY <3>1, FS_EmptySet
    <2>2. h \in [Small(0) -> Int] OBVIOUS
    <2>3. \A s \in Small(0) : h[s] = Body(h, s) BY <2>1
    <2> QED BY <2>2, <2>3
  <1>2. ASSUME NEW n \in Nat, Good(n) PROVE Good(n + 1)
    <2>1. PICK h \in [Small(n) -> Int] : \A s \in Small(n) : h[s] = Body(h, s) BY <1>2
    <2> DEFINE h2 == [s \in Small(n + 1) |-> Body(h, s)]
    <2>2. \A s \in Small(n + 1) : s # {} => /\ pick[s] \in s /\ pick[s] \in Whole
                                            /\ s \ {pick[s]} \in Small(n)
                                            /\ s \ {pick[s]} \in Small(n + 1)
      <3> SUFFICES ASSUME NEW s \in SUBSET Whole, Cardinality(s) <= n + 1, s # {}
                   PROVE  /\ pick[s] \in s /\ pick[s] \in Whole
                          /\ s \ {pick[s]} \in SUBSET Whole /\ Cardinality(s \ {pick[s]}) <= n
                          /\ Cardinality(s \ {pick[s]}) <= n + 1
        OBVIOUS
      <3>1. pick[s] \in s BY DEF Picks
      <3>2. /\ s \ {pick[s]} \in SUBSET Whole /\ Cardinality(s) \in Nat
            /\ Cardinality(s \ {pick[s]}) = Cardinality(s) - 1 BY <3>1, OneLess
      <3> QED BY <3>1, <3>2
    <2>3. h2 \in [Small(n + 1) -> Int]
      <3> SUFFICES ASSUME NEW s \in Small(n + 1) PROVE Body(h, s) \in Int OBVIOUS
      <3>1. CASE s = {} BY <3>1
      <3>2. CASE s # {}
        <4>1. pick[s] \in Whole /\ s \ {pick[s]} \in Small(n) BY <2>2, <3>2
        <4>2. val[pick[s]] \in Int /\ h[s \ {pick[s]}] \in Int BY <4>1
        <4> QED BY <3>2, <4>2
      <3> QED BY <3>1, <3>2
    <2>4. \A s \in Small(n + 1) : h2[s] = Body(h2, s)
      <3> SUFFICES ASSUME NEW s \in Small(n + 1), s # {}
                   PROVE  h[s \ {pick[s]}] = h2[s \ {pick[s]}]
        OBVIOUS
      <3>1. s \ {pick[s]} \in Small(n) /\ s \ {pick[s]} \in Small(n + 1) BY <2>2
      <3> QED BY <2>1, <3>1
    <2> QED BY <2>3, <2>4
  <1>3. Bad = {}
    <2> SUFFICES ASSUME Bad # {} PROVE FALSE OBVIOUS
    <2>1. Bad \in SUBSET Nat OBVIOUS
    <2>2. PICK m \in Bad : \A k \in Bad : m <= k
      <3> HIDE DEF Bad
      <3> QED BY <2>1, LeastNumber
    <2> HIDE DEF Good
    <2>3. m \in Nat /\ ~Good(m) /\ m # 0 BY <1>1
    <2>4. m - 1 \in Nat /\ m - 1 \notin Bad BY <2>2, <2>3
    <2>5. Good(m - 1) BY <2>4
    <2>6. Good((m - 1) + 1) /\ (m - 1) + 1 = m BY <1>2, <2>3, <2>4, <2>5
    <2> QED BY <2>3, <2>6
  <1>4. Cardinality(Whole) \in Nat BY FS_CardinalityType
  <1>5. Good(Cardinality(Whole)) BY <1>3, <1>4
  <1>6. Small(Cardinality(Whole)) = SUBSET Whole
    <2>1. \A s \in SUBSET Whole : Cardinality(s) <= Cardinality(Whole) BY FS_Subset
    <2> QED BY <2>1
  <1> QED BY <1>5, <1>6 DEF IsSum

(* Two sums over the same elements differ by what one of them is changed.  *)
LEMMA SumsDiffer ==
  ASSUME NEW A, NEW B, A \subseteq B, IsFiniteSet(B), NEW pick, Picks(pick, B),
         NEW u \in [A -> Int], NEW v \in [B -> Int], NEW i, SameBut(u, v, i, A),
         NEW g, NEW h, IsSum(g, u, pick, A), IsSum(h, v, pick, B)
  PROVE  Shifted(h, g, u, v, i, A)
  <1> DEFINE Same(s) == h[s] = g[s] + IF i \in s THEN v[i] - u[i] ELSE 0
             Bad == {n \in Nat : \E s \in SUBSET A : Cardinality(s) = n /\ ~Same(s)}
  <1>f. IsFiniteSet(A) /\ \A s \in SUBSET A : s \in SUBSET B /\ Cardinality(s) \in Nat
    BY FS_Subset, FS_CardinalityType
  <1>1. Bad = {}
    <2> SUFFICES ASSUME Bad # {} PROVE FALSE OBVIOUS
    <2>1. Bad \in SUBSET Nat OBVIOUS
    <2>2. PICK m \in Bad : \A k \in Bad : m <= k
      <3> HIDE DEF Bad
      <3> QED BY <2>1, LeastNumber
    <2>3. PICK s \in SUBSET A : Cardinality(s) = m /\ ~Same(s) OBVIOUS
    <2>4. s # {}
      <3> SUFFICES ASSUME s = {} PROVE FALSE OBVIOUS
      <3>1. h[s] = 0 /\ g[s] = 0 /\ i \notin s BY <1>f DEF IsSum
      <3> QED BY <2>3, <3>1
    <2> DEFINE x == pick[s]
               t == s \ {x}
    <2>5. x \in s /\ x \in A /\ x \in B /\ t \in SUBSET A /\ Cardinality(t) = m - 1 /\ m \in Nat /\ m - 1 \in Nat
      <3>1. x \in s BY <1>f, <2>4 DEF Picks
      <3>2. t \in SUBSET A /\ Cardinality(t) = m - 1 /\ m \in Nat /\ m > 0 BY <1>f, <2>3, <3>1, OneLess
      <3> QED BY <3>1, <3>2
    <2>6. Same(t)
      <3>1. m - 1 \notin Bad BY <2>2, <2>5
      <3> QED BY <2>5, <3>1
    <2>7. h[s] = v[x] + h[t] /\ g[s] = u[x] + g[t] BY <1>f, <2>4 DEF IsSum
    <2>8. g[t] \in Int /\ h[t] \in Int /\ u[x] \in Int /\ v[x] \in Int BY <1>f, <2>5 DEF IsSum
    <2>9. CASE x = i
      <3>1. i \in s /\ i \notin t BY <2>5, <2>9
      <3>2. h[t] = g[t] BY <2>6, <2>8, <3>1
      <3>3. Same(s) BY <2>7, <2>8, <2>9, <3>1, <3>2
      <3> QED BY <2>3, <3>3
    <2>10. CASE x # i
      <3>1. (i \in s <=> i \in t) /\ u[x] = v[x] BY <2>5, <2>10 DEF SameBut
      <3>2. i \in s => u[i] \in Int /\ v[i] \in Int OBVIOUS
      <3> HIDE DEF x, t
      <3>3. CASE i \in s BY <2>3, <2>6, <2>7, <2>8, <3>1, <3>2, <3>3
      <3>4. CASE i \notin s BY <2>3, <2>6, <2>7, <2>8, <3>1, <3>4
      <3> QED BY <3>3, <3>4
    <2> QED BY <2>9, <2>10
  <1>2. \A s \in SUBSET A : Same(s) BY <1>1, <1>f
  <1> QED BY <1>2 DEF Shifted

(* A function that follows a sum from each set to the next is the sum.     *)
LEMMA SumIsUnique ==
  ASSUME NEW Whole, IsFiniteSet(Whole), NEW pick, Picks(pick, Whole),
         NEW g, NEW it, Follows(it, g, pick, Whole)
  PROVE  \A s \in SUBSET Whole : it[s] = g[s]
  <1> DEFINE Bad == {n \in Nat : \E s \in SUBSET Whole : Cardinality(s) = n /\ it[s] # g[s]}
  <1>f. \A s \in SUBSET Whole : Cardinality(s) \in Nat BY FS_Subset, FS_CardinalityType
  <1>1. Bad = {}
    <2> SUFFICES ASSUME Bad # {} PROVE FALSE OBVIOUS
    <2>1. Bad \in SUBSET Nat OBVIOUS
    <2>2. PICK m \in Bad : \A k \in Bad : m <= k
      <3> HIDE DEF Bad
      <3> QED BY <2>1, LeastNumber
    <2>3. PICK s \in SUBSET Whole : Cardinality(s) = m /\ it[s] # g[s] OBVIOUS
    <2>4. s # {} /\ pick[s] \in s BY <2>3 DEF Picks, Follows
    <2>5. /\ s \ {pick[s]} \in SUBSET Whole /\ m \in Nat /\ m - 1 \in Nat
          /\ Cardinality(s \ {pick[s]}) = m - 1
      <3>1. /\ s \ {pick[s]} \in SUBSET Whole /\ Cardinality(s) \in Nat /\ Cardinality(s) > 0
            /\ Cardinality(s \ {pick[s]}) = Cardinality(s) - 1 BY <2>4, OneLess
      <3> QED BY <2>3, <3>1
    <2>6. m - 1 \notin Bad BY <2>2, <2>5
    <2>7. it[s \ {pick[s]}] = g[s \ {pick[s]}] BY <2>5, <2>6
    <2> QED BY <2>3, <2>4, <2>7 DEF Follows
  <1> QED BY <1>1, <1>f

LEMMA ChosenPicks == Picks(Chosen, V!Steps) /\ IsFiniteSet(V!Steps)
  <1>1. IsFiniteSet(V!Steps) BY LimitsAssumption, FS_Interval DEF V!Steps
  <1>2. Picks(Chosen, V!Steps) BY DEF Picks, Chosen
  <1> QED BY <1>1, <1>2

LEMMA RowsAreSum ==
  ASSUME NEW f \in [V!Steps -> Int]
  PROVE  \E g : IsSum(g, f, Chosen, V!Steps) /\ V!SumFunction(f) = g[V!Steps]
  <1> DEFINE Body(g) == [s \in SUBSET V!Steps |-> IF s = {} THEN 0 ELSE
                           f[CHOOSE x \in s : TRUE] + g[s \ {CHOOSE x \in s : TRUE}]]
             it == CHOOSE g : g = Body(g)
  <1>1. V!SumFunction(f) = it[V!Steps]
    <2>1. DOMAIN f = V!Steps OBVIOUS
    <2>2. LET body(g) == [s \in SUBSET (DOMAIN f) |-> IF s = {} THEN 0 ELSE
                           f[CHOOSE x \in s : TRUE] + g[s \ {CHOOSE x \in s : TRUE}]]
              it_ == CHOOSE g : g = body(g)
          IN V!SumFunction(f) = it_[DOMAIN f]
      BY Zenon DEF V!SumFunction, V!SumFunctionOnSet, V!FoldFunctionOnSet, V!MapThenFoldSet
    <2> QED BY <2>1, <2>2, Zenon
  <1>3. PICK g : IsSum(g, f, Chosen, V!Steps) BY ChosenPicks, SumExists
  <1>4. \A s \in SUBSET V!Steps : s # {} =>
           /\ Chosen[s] = CHOOSE x \in s : TRUE
           /\ Chosen[s] \in V!Steps BY ChosenPicks DEF Picks, Chosen
  <1>5. g = Body(g)
    <2>1. \A s \in SUBSET V!Steps : g[s] = Body(g)[s]
      <3> SUFFICES ASSUME NEW s \in SUBSET V!Steps PROVE g[s] = Body(g)[s] OBVIOUS
      <3>1. CASE s = {} BY <1>3, <3>1 DEF IsSum
      <3>2. CASE s # {}
        <4>1. g[s] = f[Chosen[s]] + g[s \ {Chosen[s]}] BY <1>3, <1>4, <3>2 DEF IsSum
        <4> QED BY <1>4, <3>2, <4>1
      <3> QED BY <3>1, <3>2
    <2>2. g \in [SUBSET V!Steps -> Int] BY <1>3 DEF IsSum
    <2> QED BY <2>1, <2>2
  <1>6. it = Body(it)
    <2> HIDE DEF Body
    <2> QED BY <1>5, Zenon
  <1>7. \A s \in SUBSET V!Steps : it[s] = Body(it)[s]
    <2> HIDE DEF Body, it
    <2> QED BY <1>6
  <1>8. Follows(it, g, Chosen, V!Steps)
    <2> HIDE DEF it
    <2>1. it[{}] = g[{}] BY <1>3, <1>7 DEF IsSum
    <2>2. ASSUME NEW s \in SUBSET V!Steps, s # {}, it[s \ {Chosen[s]}] = g[s \ {Chosen[s]}]
          PROVE  it[s] = g[s]
      <3>1. g[s] = f[Chosen[s]] + g[s \ {Chosen[s]}] BY <1>3, <1>4, <2>2 DEF IsSum
      <3>2. it[s] = f[Chosen[s]] + it[s \ {Chosen[s]}] BY <1>4, <1>7, <2>2
      <3> QED BY <2>2, <3>1, <3>2
    <2> QED BY <2>1, <2>2 DEF Follows
  <1>9. it[V!Steps] = g[V!Steps]
    <2> HIDE DEF it
    <2> QED BY <1>8, ChosenPicks, SumIsUnique
  <1> QED BY <1>1, <1>3, <1>9

(* A step applied, or rolled back, moves the sum by one.                   *)
LEMMA RowsChange ==
  ASSUME NEW f \in [V!Steps -> Int], NEW h \in [V!Steps -> Int], NEW s \in V!Steps, NEW d \in Int,
         SameBut(f, h, s, V!Steps), h[s] = f[s] + d
  PROVE  V!SumFunction(f) \in Int /\ V!SumFunction(h) = V!SumFunction(f) + d
  <1>1. PICK u : IsSum(u, f, Chosen, V!Steps) /\ V!SumFunction(f) = u[V!Steps] BY RowsAreSum
  <1>2. PICK v : IsSum(v, h, Chosen, V!Steps) /\ V!SumFunction(h) = v[V!Steps] BY RowsAreSum
  <1>3. Shifted(v, u, f, h, s, V!Steps) BY <1>1, <1>2, ChosenPicks, SumsDiffer
  <1>4. v[V!Steps] = u[V!Steps] + (h[s] - f[s]) BY <1>3 DEF Shifted
  <1>5. u[V!Steps] \in Int /\ f[s] \in Int BY <1>1 DEF IsSum
  <1> QED BY <1>1, <1>2, <1>4, <1>5

LEMMA NoRowsSum == V!SumFunction([s \in V!Steps |-> 0]) = 0
  <1> DEFINE f == [s \in V!Steps |-> 0]
             z == [s \in SUBSET V!Steps |-> 0]
  <1>1. f \in [V!Steps -> Int] OBVIOUS
  <1>2. PICK g : IsSum(g, f, Chosen, V!Steps) /\ V!SumFunction(f) = g[V!Steps]
    <2> HIDE DEF f
    <2> QED BY <1>1, RowsAreSum
  <1>3. Follows(g, z, Chosen, V!Steps)
    <2>1. g[{}] = 0 /\ z[{}] = 0 BY <1>2 DEF IsSum
    <2>2. ASSUME NEW s \in SUBSET V!Steps, s # {}, g[s \ {Chosen[s]}] = z[s \ {Chosen[s]}]
          PROVE  g[s] = z[s]
      <3>1. Chosen[s] \in V!Steps /\ s \ {Chosen[s]} \in SUBSET V!Steps BY <2>2, ChosenPicks DEF Picks
      <3>2. g[s] = f[Chosen[s]] + g[s \ {Chosen[s]}] BY <1>2, <2>2 DEF IsSum
      <3>3. f[Chosen[s]] = 0 /\ z[s \ {Chosen[s]}] = 0 /\ z[s] = 0 BY <3>1
      <3> QED BY <2>2, <3>2, <3>3
    <2> QED BY <2>1, <2>2 DEF Follows
  <1>4. g[V!Steps] = z[V!Steps]
    <2> HIDE DEF f, z
    <2> QED BY <1>3, ChosenPicks, SumIsUnique
  <1> QED BY <1>2, <1>4

-----------------------------------------------------------------------------
(* migration_steps.js.                                                     *)
LEMMA VersionLimits ==
  /\ IsFiniteSet(Starts) /\ Cardinality(Starts) \in Nat /\ StepCount \in Nat
  /\ V!Steps \subseteq 1..StepCount /\ V!Steps \subseteq Int
  BY LimitsAssumption, FS_CardinalityType DEF V!Steps

LEMMA CallsAreCounted ==
  /\ Cardinality(EndedCalls) \in Nat /\ Cardinality(Rolling) \in Nat
  /\ Cardinality(EndedCalls) <= Cardinality(Starts) BY VersionLimits, CountsOf DEF EndedCalls, Rolling

LEMMA VersionStarts == V!ManagerInit => VersionInv
  <1> SUFFICES ASSUME V!ManagerInit PROVE VersionInv OBVIOUS
  <1>1. /\ version_history = <<>> /\ current_version = 0 /\ step_rows = [s \in V!Steps |-> 0]
        /\ version_call = [k \in Starts |-> V!NoCall] /\ lost = 0 /\ version_restored = FALSE
    BY DEF V!ManagerInit
  <1>2. V!NoCall \in VersionCall /\ V!NoCall.at = "idle" /\ V!NoCall.step = 0 /\ V!NoCall.saved = 0
    BY VersionLimits DEF V!NoCall, VersionCall
  <1>3. EndedCalls = {} /\ Rolling = {} BY <1>1, <1>2 DEF EndedCalls, Rolling
  <1>4. Cardinality(EndedCalls) = 0 /\ Cardinality(Rolling) = 0 BY <1>3, FS_EmptySet
  <1>5. VersionTypes BY <1>1 DEF VersionTypes
  <1>6. CallsAreBounded BY <1>1, <1>2, <1>4, VersionLimits DEF CallsAreBounded
  <1>7. VersionFloor BY <1>1, <1>4 DEF VersionFloor
  <1>8. VersionCounts BY <1>1, <1>4, NoRowsSum DEF VersionCounts
  <1> QED BY <1>1, <1>5, <1>6, <1>7, <1>8, Zenon DEF VersionInv

(* What a call that moves does to the counts.                              *)
LEMMA ACallMoves ==
  ASSUME CallsAreBounded, NEW k \in Starts, NEW r \in VersionCall,
         version_call' = [version_call EXCEPT ![k] = r],
         version_call[k].at \notin {"done", "failed"},
         r.step <= StepCount, -Cardinality(Starts) <= r.step,
         r.at = "rolling" => r.step \in V!Steps,
         r.at = "applying" => r.step <= r.target, -Cardinality(EndedCalls) <= r.saved
  PROVE  /\ CallsAreBounded'
         /\ Cardinality(EndedCalls') \in Nat /\ Cardinality(EndedCalls) <= Cardinality(EndedCalls')
         /\ r.at \in {"done", "failed"} => Cardinality(EndedCalls') = Cardinality(EndedCalls) + 1
         /\ Cardinality(Rolling') \in Nat
         /\ version_call[k].at # "rolling" /\ r.at # "rolling" => Cardinality(Rolling') = Cardinality(Rolling)
         /\ version_call[k].at # "rolling" /\ r.at = "rolling" => Cardinality(Rolling') = Cardinality(Rolling) + 1
         /\ version_call[k].at = "rolling" /\ r.at # "rolling" => Cardinality(Rolling) = Cardinality(Rolling') + 1
  <1>1. /\ version_call' \in [Starts -> VersionCall] /\ version_call'[k] = r
        /\ \A d \in Starts \ {k} : version_call'[d] = version_call[d] BY DEF CallsAreBounded
  <1>2. /\ EndedCalls \in SUBSET Starts /\ Rolling \in SUBSET Starts
        /\ EndedCalls' \in SUBSET Starts /\ Rolling' \in SUBSET Starts BY DEF EndedCalls, Rolling
  <1>3. Cardinality(EndedCalls') \in Nat /\ Cardinality(Rolling') \in Nat BY <1>2, VersionLimits, CountsOf
  <1>4. r.at \in {"done", "failed"} => Cardinality(EndedCalls') = Cardinality(EndedCalls) + 1
    <2> SUFFICES ASSUME r.at \in {"done", "failed"} PROVE Cardinality(EndedCalls') = Cardinality(EndedCalls) + 1
      OBVIOUS
    <2>1. EndedCalls' = EndedCalls \cup {k} /\ k \notin EndedCalls BY <1>1 DEF EndedCalls
    <2>2. Cardinality(EndedCalls') = Cardinality(EndedCalls) + 1
      BY <1>2, <2>1, VersionLimits, CountsOneMore
    <2> QED BY <2>2
  <1>5. r.at \notin {"done", "failed"} => EndedCalls' = EndedCalls BY <1>1 DEF EndedCalls
  <1>6. /\ Cardinality(EndedCalls) <= Cardinality(EndedCalls')
        /\ r.at \in {"done", "failed"} => Cardinality(EndedCalls') = Cardinality(EndedCalls) + 1
    BY <1>4, <1>5, CallsAreCounted
  <1>7. CallsAreBounded'
    <2> SUFFICES ASSUME NEW d \in Starts
        PROVE  /\ version_call'[d].step <= StepCount /\ -Cardinality(Starts) <= version_call'[d].step
               /\ version_call'[d].at = "rolling" => version_call'[d].step \in V!Steps
               /\ version_call'[d].at = "applying" => version_call'[d].step <= version_call'[d].target
               /\ -Cardinality(EndedCalls') <= version_call'[d].saved BY <1>1 DEF CallsAreBounded
    <2>1. CASE d = k
      <3>1. r.saved \in Int BY DEF VersionCall
      <3> QED BY <1>1, <1>3, <1>6, <2>1, <3>1, CallsAreCounted
    <2>2. CASE d # k
      <3>1. version_call'[d] = version_call[d] /\ version_call[d].saved \in Int
        BY <1>1, <2>2 DEF CallsAreBounded, VersionCall
      <3> QED BY <1>3, <1>6, <3>1, CallsAreCounted DEF CallsAreBounded
    <2> QED BY <2>1, <2>2
  <1>8. CASE version_call[k].at # "rolling" /\ r.at # "rolling"
    <2>1. Rolling' = Rolling BY <1>1, <1>8 DEF Rolling
    <2> QED BY <1>3, <1>6, <1>7, <1>8, <2>1
  <1>9. CASE version_call[k].at # "rolling" /\ r.at = "rolling"
    <2>1. Rolling' = Rolling \cup {k} /\ k \notin Rolling BY <1>1, <1>9 DEF Rolling
    <2>2. Cardinality(Rolling') = Cardinality(Rolling) + 1 BY <1>2, <2>1, VersionLimits, CountsOneMore
    <2> QED BY <1>3, <1>6, <1>7, <1>9, <2>2
  <1>10. CASE version_call[k].at = "rolling" /\ r.at # "rolling"
    <2>1. Rolling = Rolling' \cup {k} /\ k \notin Rolling' BY <1>1, <1>10 DEF Rolling
    <2>2. Cardinality(Rolling) = Cardinality(Rolling') + 1 BY <1>2, <2>1, VersionLimits, CountsOneMore
    <2> QED BY <1>3, <1>6, <1>7, <1>10, <2>2
  <1>11. CASE version_call[k].at = "rolling" /\ r.at = "rolling" BY <1>3, <1>6, <1>7, <1>11
  <1> QED BY <1>8, <1>9, <1>10, <1>11

LEMMA FieldsChange ==
  ASSUME CallsAreBounded, NEW k \in Starts, NEW a, NEW s, NEW f
  PROVE  LET q == version_call[k] IN
         /\ CallGoes(k, a, s) => version_call' = [version_call EXCEPT ![k] = CallTo(q, a, s, q.fails)]
         /\ CallPops(k, a, s, f) => version_call' = [version_call EXCEPT ![k] = CallTo(q, a, s, f)]
         /\ CallEnds(k, a) => version_call' = [version_call EXCEPT ![k] = CallTo(q, a, q.step, q.fails)]
  <1> DEFINE q == version_call[k]
             one == [q EXCEPT !.at = a]
             two == [one EXCEPT !.step = s]
             three == [two EXCEPT !.fails = f]
  <1>1. q \in VersionCall BY DEF CallsAreBounded
  <1> HIDE DEF q
  <1>2. one = CallTo(q, a, q.step, q.fails) BY <1>1 DEF VersionCall, CallTo
  <1> HIDE DEF one
  <1>3. two = CallTo(q, a, s, q.fails) BY <1>2 DEF CallTo
  <1> HIDE DEF two
  <1>4. three = CallTo(q, a, s, f) BY <1>3 DEF CallTo
  <1>5. CallGoes(k, a, s) => version_call' = [version_call EXCEPT ![k] = two]
    BY DEF q, one, two, CallGoes, CallsAreBounded
  <1>6. CallPops(k, a, s, f) => version_call' = [version_call EXCEPT ![k] = three]
    BY DEF q, one, two, CallPops, CallsAreBounded
  <1>7. CallEnds(k, a) => version_call' = [version_call EXCEPT ![k] = one]
    BY DEF q, one, CallEnds, CallsAreBounded
  <1> HIDE DEF three
  <1> QED BY <1>2, <1>3, <1>4, <1>5, <1>6, <1>7 DEF q

LEMMA ToIsCall ==
  ASSUME NEW q \in VersionCall, NEW a \in {"idle", "applying", "rolling", "done", "failed"},
         NEW s \in Int, NEW f \in BOOLEAN
  PROVE  /\ CallTo(q, a, s, f) \in VersionCall /\ CallTo(q, a, s, f).at = a
         /\ CallTo(q, a, s, f).step = s /\ CallTo(q, a, s, f).target = q.target
         /\ CallTo(q, a, s, f).saved = q.saved /\ q.fails \in BOOLEAN /\ q.step \in Int
         /\ q.saved \in Int /\ q.target \in 0..StepCount BY DEF VersionCall, CallTo

(* A call that goes on with another step.                                  *)
LEMMA ACallGoes ==
  ASSUME CallsAreBounded, NEW k \in Starts, NEW a \in {"applying", "rolling", "done", "failed"},
         NEW s \in Int, NEW f \in BOOLEAN,
         CallGoes(k, a, s) \/ CallPops(k, a, s, f) \/ (CallEnds(k, a) /\ s = version_call[k].step /\ a # "rolling"),
         version_call[k].at \notin {"done", "failed"},
         s <= StepCount, -Cardinality(Starts) <= s, a = "rolling" => s \in V!Steps,
         a = "applying" => s <= version_call[k].target
  PROVE  /\ CallsAreBounded'
         /\ Cardinality(EndedCalls') \in Nat /\ Cardinality(EndedCalls) <= Cardinality(EndedCalls')
         /\ a \in {"done", "failed"} => Cardinality(EndedCalls') = Cardinality(EndedCalls) + 1
         /\ Cardinality(Rolling') \in Nat
         /\ version_call[k].at # "rolling" /\ a # "rolling" => Cardinality(Rolling') = Cardinality(Rolling)
         /\ version_call[k].at # "rolling" /\ a = "rolling" => Cardinality(Rolling') = Cardinality(Rolling) + 1
         /\ version_call[k].at = "rolling" /\ a # "rolling" => Cardinality(Rolling) = Cardinality(Rolling') + 1
  <1> DEFINE q == version_call[k]
  <1>1. q \in VersionCall /\ -Cardinality(EndedCalls) <= q.saved BY DEF CallsAreBounded
  <1>2. q.fails \in BOOLEAN BY <1>1 DEF VersionCall
  <1>3. PICK g \in BOOLEAN : version_call' = [version_call EXCEPT ![k] = CallTo(q, a, s, g)]
    <2>1. CallGoes(k, a, s) => version_call' = [version_call EXCEPT ![k] = CallTo(q, a, s, q.fails)]
      BY FieldsChange
    <2>2. CallPops(k, a, s, f) => version_call' = [version_call EXCEPT ![k] = CallTo(q, a, s, f)]
      BY FieldsChange
    <2>3. CallEnds(k, a) => version_call' = [version_call EXCEPT ![k] = CallTo(q, a, q.step, q.fails)]
      BY FieldsChange
    <2> QED BY <1>2, <2>1, <2>2, <2>3, Zenon
  <1> DEFINE r == CallTo(q, a, s, g)
  <1>4. r \in VersionCall /\ r.at = a /\ r.step = s /\ r.target = q.target /\ r.saved = q.saved
    <2> HIDE DEF q
    <2> QED BY <1>1, ToIsCall
  <1>5. version_call' = [version_call EXCEPT ![k] = r] BY <1>3
  <1> HIDE DEF r
  <1> QED BY <1>1, <1>4, <1>5, ACallMoves

(* The end of a call with an error.                                        *)
LEMMA ACallThrows ==
  ASSUME VersionTypes, CallsAreBounded, NEW k \in Starts, NEW h \in Seq(V!Steps), NEW v \in Int,
         version_restored \in BOOLEAN, V!Throws(k, h, v),
         version_call[k].at \in {"applying", "rolling"}, -Cardinality(EndedCalls) - 1 <= v
  PROVE  /\ CallsAreBounded' /\ VersionFloor' /\ version_restored' \in BOOLEAN
         /\ version_history' \in Seq(V!Steps) /\ current_version' \in Int
         /\ Cardinality(Rolling') \in Nat
         /\ version_call[k].at # "rolling" => Cardinality(Rolling') = Cardinality(Rolling)
         /\ version_call[k].at = "rolling" => Cardinality(Rolling) = Cardinality(Rolling') + 1
         /\ ~version_restored' => ~version_restored /\ version_history' = h /\ current_version' = v
  <1> DEFINE back == version_call[k].backup
             old == version_call[k].saved
  <1>1. CallGoes(k, "failed", 0) BY Zenon DEF V!Throws, CallGoes
  <1>2. /\ version_history' = IF back THEN <<>> ELSE h
        /\ current_version' = IF back THEN old ELSE v
        /\ version_restored' = (version_restored \/ back) BY Zenon DEF V!Throws
  <1>3. version_call[k] \in VersionCall /\ -Cardinality(EndedCalls) <= old BY DEF CallsAreBounded
  <1>4. back \in BOOLEAN /\ old \in Int BY <1>3 DEF VersionCall
  <1>5. 0 \in Int /\ 0 <= StepCount /\ -Cardinality(Starts) <= 0 /\ FALSE \in BOOLEAN BY VersionLimits
  <1>6. /\ CallsAreBounded' /\ Cardinality(EndedCalls') \in Nat /\ Cardinality(EndedCalls') = Cardinality(EndedCalls) + 1
        /\ Cardinality(Rolling') \in Nat
        /\ version_call[k].at # "rolling" => Cardinality(Rolling') = Cardinality(Rolling)
        /\ version_call[k].at = "rolling" => Cardinality(Rolling) = Cardinality(Rolling') + 1
    BY <1>1, <1>5, ACallGoes
  <1> HIDE DEF back, old
  <1>7. version_restored' \in BOOLEAN BY <1>2, <1>4, Zenon
  <1>8. CASE back
    <2>1. version_history' = <<>> /\ current_version' = old /\ version_restored' BY <1>2, <1>8, Zenon
    <2>2. <<>> \in Seq(V!Steps) OBVIOUS
    <2>3. VersionFloor' BY <1>3, <1>4, <1>6, <2>1, CallsAreCounted DEF VersionFloor
    <2> QED BY <1>4, <1>6, <1>7, <2>1, <2>2, <2>3, Zenon
  <1>9. CASE ~back
    <2>1. version_history' = h /\ current_version' = v /\ (version_restored' <=> version_restored)
      BY <1>2, <1>9, Zenon
    <2>2. VersionFloor' BY <1>6, <2>1, CallsAreCounted DEF VersionFloor
    <2> QED BY <1>6, <1>7, <2>1, <2>2, Zenon
  <1> QED BY <1>8, <1>9, Zenon

(* A call that takes the last step of the history to roll it back.         *)
LEMMA ACallPops ==
  ASSUME VersionInv, NEW k \in Starts, NEW f \in BOOLEAN, V!Pop(k, f), version_history # <<>>,
         version_call[k].at \in {"idle", "applying"}, UNCHANGED <<step_rows, lost>>
  PROVE  VersionInv'
  <1> DEFINE s == LastOf(version_history)
  <1>1. VersionTypes /\ CallsAreBounded /\ VersionFloor BY DEF VersionInv
  <1>2. CallPops(k, "rolling", s, f) BY Zenon DEF V!Pop, CallPops, LastOf, s
  <1>3. /\ version_history' = WithoutLast(version_history) /\ current_version' = current_version
        /\ version_restored' = version_restored BY Zenon DEF V!Pop, V!Shorter, WithoutLast
  <1>4. /\ s \in V!Steps /\ WithoutLast(version_history) \in Seq(V!Steps)
        /\ Len(WithoutLast(version_history)) = Len(version_history) - 1 /\ Len(version_history) \in Nat
    BY <1>1, LastIsCut DEF VersionTypes
  <1> HIDE DEF s
  <1>5. s \in Int /\ s <= StepCount /\ -Cardinality(Starts) <= s BY <1>4, VersionLimits DEF V!Steps
  <1>6. /\ CallsAreBounded' /\ Cardinality(EndedCalls') \in Nat /\ Cardinality(EndedCalls) <= Cardinality(EndedCalls')
        /\ Cardinality(Rolling') \in Nat /\ Cardinality(Rolling') = Cardinality(Rolling) + 1
    BY <1>1, <1>2, <1>4, <1>5, ACallGoes
  <1>7. VersionTypes' BY <1>1, <1>3, <1>4 DEF VersionTypes
  <1>8. VersionFloor' BY <1>1, <1>3, <1>6, CallsAreCounted DEF VersionFloor, VersionTypes
  <1>9. VersionCounts => VersionCounts'
    <2>1. V!SumFunction(step_rows') = V!SumFunction(step_rows) BY Zenon
    <2> QED BY <1>1, <1>3, <1>4, <1>6, <2>1, CallsAreCounted DEF VersionCounts, VersionTypes
  <1> QED BY <1>3, <1>6, <1>7, <1>8, <1>9, Zenon DEF VersionInv

LEMMA VersionKeeps == VersionInv /\ [V!ManagerNext]_(V!manager_vars) => VersionInv'
  <1> SUFFICES ASSUME VersionInv, [V!ManagerNext]_(V!manager_vars) PROVE VersionInv' OBVIOUS
  <1>0. VersionTypes /\ CallsAreBounded /\ VersionFloor /\ version_restored \in BOOLEAN BY DEF VersionInv
  <1>t. /\ version_history \in Seq(V!Steps) /\ current_version \in Int /\ step_rows \in [V!Steps -> Int]
        /\ lost \in Nat /\ Len(version_history) \in Nat BY <1>0 DEF VersionTypes
  <1>1. ASSUME NEW k \in Starts, NEW target \in V!Steps, NEW whole \in BOOLEAN,
               V!MigrateToVersion(k, target, whole)
        PROVE  VersionInv'
    <2> DEFINE to == IF whole /\ version_history # <<>> THEN [at |-> "failed", step |-> 0]
                     ELSE V!Before(current_version + 1, target)
               r == [at |-> to.at, step |-> to.step, target |-> target, backup |-> whole,
                     saved |-> current_version, fails |-> FALSE]
    <2>1. /\ version_call[k].at = "idle" /\ version_call' = [version_call EXCEPT ![k] = r]
          /\ UNCHANGED <<version_history, current_version, step_rows, lost, version_restored>>
      BY <1>1, Zenon DEF V!MigrateToVersion
    <2>2. /\ to.at \in {"applying", "done", "failed"} /\ to.step \in Int
          /\ to.step = 0 \/ (to.step = current_version + 1 /\ current_version + 1 <= target)
          /\ to.at = "applying" => to.step <= target
      <3>1. V!Before(current_version + 1, target).at \in {"applying", "done"} BY DEF V!Before
      <3>3. \/ V!Before(current_version + 1, target).step = current_version + 1 /\ current_version + 1 <= target
            \/ V!Before(current_version + 1, target).step = 0 /\ V!Before(current_version + 1, target).at = "done"
        BY DEF V!Before
      <3>4. \/ to = [at |-> "failed", step |-> 0] \/ to = V!Before(current_version + 1, target) BY Zenon
      <3> HIDE DEF to
      <3>5. CASE to = [at |-> "failed", step |-> 0] BY <3>5
      <3>6. CASE to = V!Before(current_version + 1, target) BY <1>t, <3>1, <3>3, <3>6
      <3> QED BY <3>4, <3>5, <3>6
    <2> HIDE DEF to
    <2>3. target \in 0..StepCount /\ target <= StepCount /\ 0 \in Int BY VersionLimits DEF V!Steps
    <2>4. r \in VersionCall
      <3>1. to.at \in {"idle", "applying", "rolling", "done", "failed"} /\ FALSE \in BOOLEAN BY <2>2
      <3> QED BY <1>t, <2>2, <2>3, <3>1, Zenon DEF VersionCall
    <2>5. /\ r.at = to.at /\ r.step = to.step /\ r.target = target /\ r.saved = current_version BY Zenon
    <2>6. Cardinality(EndedCalls) < Cardinality(Starts)
      <3>1. k \in Starts /\ k \notin EndedCalls /\ EndedCalls \in SUBSET Starts BY <2>1 DEF EndedCalls
      <3>2. EndedCalls # Starts BY <3>1
      <3> QED BY <3>1, <3>2, VersionLimits, FS_Subset, CallsAreCounted
    <2>7. to.step <= StepCount /\ -Cardinality(Starts) <= to.step
      BY <1>t, <1>0, <2>2, <2>3, <2>6, VersionLimits, CallsAreCounted DEF VersionFloor, V!Steps
    <2> HIDE DEF r
    <2>8. /\ CallsAreBounded' /\ Cardinality(EndedCalls') \in Nat /\ Cardinality(EndedCalls) <= Cardinality(EndedCalls')
          /\ Cardinality(Rolling') = Cardinality(Rolling)
      <3>1. /\ version_call[k].at \notin {"done", "failed"} /\ r.at # "rolling" /\ r.step <= StepCount
            /\ -Cardinality(Starts) <= r.step /\ (r.at = "applying" => r.step <= r.target)
        BY <2>1, <2>2, <2>5, <2>7
      <3>2. -Cardinality(EndedCalls) <= r.saved BY <1>0, <2>5 DEF VersionFloor
      <3> QED BY <1>0, <2>1, <2>4, <3>1, <3>2, ACallMoves
    <2>9. VersionTypes' /\ VersionFloor'
      BY <1>0, <1>t, <2>1, <2>8, CallsAreCounted DEF VersionTypes, VersionFloor
    <2>10. VersionCounts => VersionCounts'
      <3>1. V!SumFunction(step_rows') = V!SumFunction(step_rows) BY <2>1, Zenon
      <3> QED BY <2>1, <2>8, <3>1 DEF VersionCounts
    <2> QED BY <1>0, <2>1, <2>8, <2>9, <2>10, Zenon DEF VersionInv
  <1>2. ASSUME NEW k \in Starts, V!Applied(k) PROVE VersionInv'
    <2> DEFINE s == version_call[k].step
               to == V!Before(s + 1, version_call[k].target)
    <2>1. /\ version_call[k].at = "applying" /\ s \in V!Steps /\ step_rows' = [step_rows EXCEPT ![s] = @ + 1]
          /\ version_history' = Append(version_history, s) /\ current_version' = current_version + 1
          /\ UNCHANGED <<lost, version_restored>> BY <1>2, Zenon DEF V!Applied
    <2>2. CallGoes(k, to.at, to.step) BY <1>2, Zenon DEF V!Applied, V!Goes, CallGoes
    <2>3. version_call[k].target \in 0..StepCount BY <1>0 DEF CallsAreBounded, VersionCall
    <2> HIDE DEF s
    <2>s. s \in Int /\ 1 <= s BY <2>1, VersionLimits DEF V!Steps
    <2>4. \/ to.at = "applying" /\ to.step = s + 1 /\ s + 1 <= version_call[k].target
          \/ to.at = "done" /\ to.step = 0 BY DEF V!Before
    <2> HIDE DEF to
    <2>5. /\ to.at \in {"applying", "rolling", "done", "failed"} /\ to.step \in Int /\ to.step <= StepCount
          /\ -Cardinality(Starts) <= to.step /\ to.at # "rolling" /\ FALSE \in BOOLEAN
          /\ to.at = "applying" => to.step <= version_call[k].target BY <2>3, <2>s, <2>4, VersionLimits
    <2>6. /\ CallsAreBounded' /\ Cardinality(EndedCalls') \in Nat /\ Cardinality(EndedCalls) <= Cardinality(EndedCalls')
          /\ Cardinality(Rolling') = Cardinality(Rolling)
      <3>1. version_call[k].at \notin {"done", "failed"} /\ version_call[k].at # "rolling" BY <2>1
      <3> QED BY <1>0, <2>2, <2>5, <3>1, ACallGoes
    <2>7. /\ step_rows' \in [V!Steps -> Int] /\ step_rows'[s] = step_rows[s] + 1
          /\ SameBut(step_rows, step_rows', s, V!Steps) /\ 1 \in Int BY <1>t, <2>1 DEF SameBut
    <2>8. V!SumFunction(step_rows) \in Int /\ V!SumFunction(step_rows') = V!SumFunction(step_rows) + 1
      BY <1>t, <2>1, <2>7, RowsChange
    <2>9. version_history' \in Seq(V!Steps) /\ Len(version_history') = Len(version_history) + 1
      BY <1>t, <2>1
    <2>10. VersionTypes' /\ VersionFloor'
      BY <1>0, <1>t, <2>1, <2>6, <2>7, <2>9, CallsAreCounted DEF VersionTypes, VersionFloor
    <2>11. VersionCounts => VersionCounts'
      BY <1>t, <2>1, <2>6, <2>8, <2>9, CallsAreCounted DEF VersionCounts
    <2> QED BY <1>0, <2>1, <2>6, <2>10, <2>11, Zenon DEF VersionInv
  <1>3. ASSUME NEW k \in Starts, V!ApplyFails(k) PROVE VersionInv'
    <2>1. version_call[k].at = "applying" /\ UNCHANGED <<step_rows, lost>> BY <1>3, Zenon DEF V!ApplyFails
    <2>2. CASE version_history # <<>>
      <3>1. V!Pop(k, TRUE) BY <1>3, <2>2, Zenon DEF V!ApplyFails
      <3>2. TRUE \in BOOLEAN /\ version_call[k].at \in {"idle", "applying"} BY <2>1
      <3> QED BY <2>1, <2>2, <3>1, <3>2, ACallPops
    <2>3. CASE version_history = <<>>
      <3>1. V!Throws(k, version_history, current_version) BY <1>3, <2>3, Zenon DEF V!ApplyFails
      <3>2. version_call[k].at \in {"applying", "rolling"} /\ -Cardinality(EndedCalls) - 1 <= current_version
        BY <1>0, <1>t, <2>1, CallsAreCounted DEF VersionFloor
      <3>3. /\ CallsAreBounded' /\ VersionFloor' /\ version_restored' \in BOOLEAN
            /\ version_history' \in Seq(V!Steps) /\ current_version' \in Int
            /\ Cardinality(Rolling') = Cardinality(Rolling)
            /\ ~version_restored' => ~version_restored /\ version_history' = version_history
                                     /\ current_version' = current_version
        BY <1>0, <1>t, <2>1, <3>1, <3>2, ACallThrows
      <3>4. VersionTypes' BY <1>t, <2>1, <3>3 DEF VersionTypes
      <3>5. VersionCounts /\ version_history' = version_history /\ current_version' = current_version => VersionCounts'
        <4>1. V!SumFunction(step_rows') = V!SumFunction(step_rows) BY <2>1, Zenon
        <4> QED BY <2>1, <3>3, <4>1 DEF VersionCounts
      <3> QED BY <3>3, <3>4, <3>5, Zenon DEF VersionInv
    <2> QED BY <2>2, <2>3
  <1>4. ASSUME NEW k \in Starts, V!NoSuchStep(k) PROVE VersionInv'
    <2>1. /\ version_call[k].at = "applying" /\ UNCHANGED <<step_rows, lost>>
          /\ V!Throws(k, version_history, current_version) BY <1>4, Zenon DEF V!NoSuchStep
    <2>2. version_call[k].at \in {"applying", "rolling"} /\ -Cardinality(EndedCalls) - 1 <= current_version
      BY <1>0, <1>t, <2>1, CallsAreCounted DEF VersionFloor
    <2>3. /\ CallsAreBounded' /\ VersionFloor' /\ version_restored' \in BOOLEAN
          /\ version_history' \in Seq(V!Steps) /\ current_version' \in Int
          /\ Cardinality(Rolling') = Cardinality(Rolling)
          /\ ~version_restored' => ~version_restored /\ version_history' = version_history
                                   /\ current_version' = current_version
      BY <1>0, <1>t, <2>1, <2>2, ACallThrows
    <2>4. VersionTypes' BY <1>t, <2>1, <2>3 DEF VersionTypes
    <2>5. VersionCounts /\ version_history' = version_history /\ current_version' = current_version => VersionCounts'
      <3>1. V!SumFunction(step_rows') = V!SumFunction(step_rows) BY <2>1, Zenon
      <3> QED BY <2>1, <2>3, <3>1 DEF VersionCounts
    <2> QED BY <2>3, <2>4, <2>5, Zenon DEF VersionInv
  <1>5. ASSUME NEW k \in Starts, V!ManagerUndoLastMigration(k) PROVE VersionInv'
    <2>1. version_call[k].at = "idle" /\ UNCHANGED <<step_rows, lost>>
      BY <1>5, Zenon DEF V!ManagerUndoLastMigration
    <2>2. CASE version_history # <<>>
      <3>1. V!Pop(k, FALSE) BY <1>5, <2>2, Zenon DEF V!ManagerUndoLastMigration
      <3>2. FALSE \in BOOLEAN /\ version_call[k].at \in {"idle", "applying"} BY <2>1
      <3> QED BY <2>1, <2>2, <3>1, <3>2, ACallPops
    <2>3. CASE version_history = <<>>
      <3> DEFINE s == version_call[k].step
      <3>1. CallEnds(k, "done") /\ UNCHANGED <<version_history, current_version, version_restored>>
        BY <1>5, <2>3, Zenon DEF V!ManagerUndoLastMigration, CallEnds
      <3>2. s \in Int /\ s <= StepCount /\ -Cardinality(Starts) <= s /\ FALSE \in BOOLEAN
        BY <1>0 DEF CallsAreBounded, VersionCall
      <3>3. version_call[k].at \notin {"done", "failed"} /\ version_call[k].at # "rolling" BY <2>1
      <3>4. /\ CallsAreBounded' /\ Cardinality(EndedCalls') \in Nat /\ Cardinality(EndedCalls) <= Cardinality(EndedCalls')
            /\ Cardinality(Rolling') = Cardinality(Rolling) BY <1>0, <3>1, <3>2, <3>3, ACallGoes
      <3>5. VersionTypes' /\ VersionFloor'
        BY <1>0, <1>t, <2>1, <3>1, <3>4, CallsAreCounted DEF VersionTypes, VersionFloor
      <3>6. VersionCounts => VersionCounts'
        <4>1. V!SumFunction(step_rows') = V!SumFunction(step_rows) BY <2>1, Zenon
        <4> QED BY <2>1, <3>1, <3>4, <4>1 DEF VersionCounts
      <3> QED BY <1>0, <3>1, <3>4, <3>5, <3>6, Zenon DEF VersionInv
    <2> QED BY <2>2, <2>3
  <1>6. ASSUME NEW k \in Starts, V!ManagerRolledBack(k) PROVE VersionInv'
    <2> DEFINE s == version_call[k].step
               v == V!VersionAfterRollback
    <2>1. /\ version_call[k].at = "rolling" /\ step_rows' = [step_rows EXCEPT ![s] = @ - 1] /\ lost' = lost
      BY <1>6, Zenon DEF V!ManagerRolledBack
    <2>2. s \in V!Steps BY <1>0, <2>1 DEF CallsAreBounded
    <2>v. v = current_version - 1 /\ v \in Int /\ -Cardinality(EndedCalls) - 1 <= v
      BY <1>0, <1>t, CallsAreCounted DEF VersionFloor, V!VersionAfterRollback
    <2> HIDE DEF s, v
    <2>3. /\ step_rows' \in [V!Steps -> Int] /\ step_rows'[s] = step_rows[s] + (-1)
          /\ SameBut(step_rows, step_rows', s, V!Steps) /\ -1 \in Int BY <1>t, <2>1, <2>2 DEF SameBut
    <2>4. V!SumFunction(step_rows) \in Int /\ V!SumFunction(step_rows') = V!SumFunction(step_rows) + (-1)
      BY <1>t, <2>2, <2>3, RowsChange
    <2>5. CASE version_call[k].fails
      <3>1. V!Throws(k, version_history, v)
        <4>1. version_call[k].fails = TRUE
          <5>1. version_call[k].fails \in BOOLEAN BY <1>0 DEF CallsAreBounded, VersionCall
          <5> QED BY <2>5, <5>1, Zenon
        <4> QED BY <1>6, <2>5, <4>1, Zenon DEF V!ManagerRolledBack, v
      <3>2. version_call[k].at \in {"applying", "rolling"} BY <2>1
      <3>3. /\ CallsAreBounded' /\ VersionFloor' /\ version_restored' \in BOOLEAN
            /\ version_history' \in Seq(V!Steps) /\ current_version' \in Int
            /\ Cardinality(Rolling') \in Nat /\ Cardinality(Rolling) = Cardinality(Rolling') + 1
            /\ ~version_restored' => ~version_restored /\ version_history' = version_history
                                     /\ current_version' = v
        BY <1>0, <1>t, <2>1, <2>v, <3>1, <3>2, ACallThrows
      <3>4. VersionTypes' BY <1>t, <2>1, <2>3, <3>3 DEF VersionTypes
      <3>5. VersionCounts /\ version_history' = version_history /\ current_version' = v => VersionCounts'
        BY <1>t, <2>1, <2>v, <2>4, <3>3, CallsAreCounted DEF VersionCounts
      <3> QED BY <3>3, <3>4, <3>5, Zenon DEF VersionInv
    <2>6. CASE ~version_call[k].fails
      <3>1. /\ CallGoes(k, "done", 0) /\ current_version' = v
            /\ UNCHANGED <<version_history, version_restored>>
        BY <1>6, <2>6, Zenon DEF V!ManagerRolledBack, CallGoes, v
      <3>2. 0 \in Int /\ 0 <= StepCount /\ -Cardinality(Starts) <= 0 /\ FALSE \in BOOLEAN
            /\ version_call[k].at \notin {"done", "failed"} BY <2>1, VersionLimits
      <3>3. /\ CallsAreBounded' /\ Cardinality(EndedCalls') \in Nat /\ Cardinality(EndedCalls') = Cardinality(EndedCalls) + 1
            /\ Cardinality(Rolling') \in Nat /\ Cardinality(Rolling) = Cardinality(Rolling') + 1
        BY <1>0, <2>1, <3>1, <3>2, ACallGoes
      <3>4. VersionTypes' /\ VersionFloor'
        BY <1>t, <2>1, <2>v, <2>3, <3>1, <3>3, CallsAreCounted DEF VersionTypes, VersionFloor
      <3>5. VersionCounts => VersionCounts'
        BY <1>t, <2>1, <2>v, <2>4, <3>1, <3>3, CallsAreCounted DEF VersionCounts
      <3> QED BY <1>0, <3>1, <3>3, <3>4, <3>5, Zenon DEF VersionInv
    <2> QED BY <2>5, <2>6, Zenon
  <1>7. ASSUME NEW k \in Starts, V!ManagerRollbackFails(k) PROVE VersionInv'
    <2>1. /\ version_call[k].at = "rolling" /\ V!Throws(k, version_history, current_version)
          /\ lost' = lost + 1 /\ step_rows' = step_rows BY <1>7, Zenon DEF V!ManagerRollbackFails
    <2>2. version_call[k].at \in {"applying", "rolling"} /\ -Cardinality(EndedCalls) - 1 <= current_version
      BY <1>0, <1>t, <2>1, CallsAreCounted DEF VersionFloor
    <2>3. /\ CallsAreBounded' /\ VersionFloor' /\ version_restored' \in BOOLEAN
          /\ version_history' \in Seq(V!Steps) /\ current_version' \in Int
          /\ Cardinality(Rolling') \in Nat /\ Cardinality(Rolling) = Cardinality(Rolling') + 1
          /\ ~version_restored' => ~version_restored /\ version_history' = version_history
                                   /\ current_version' = current_version
      BY <1>0, <1>t, <2>1, <2>2, ACallThrows
    <2>4. VersionTypes' BY <1>t, <2>1, <2>3 DEF VersionTypes
    <2>5. VersionCounts /\ version_history' = version_history /\ current_version' = current_version => VersionCounts'
      <3>1. V!SumFunction(step_rows') = V!SumFunction(step_rows) BY <2>1, Zenon
      <3> QED BY <1>t, <2>1, <2>3, <3>1, CallsAreCounted DEF VersionCounts
    <2> QED BY <2>3, <2>4, <2>5, Zenon DEF VersionInv
  <1>8. CASE UNCHANGED V!manager_vars
    <2>1. UNCHANGED <<version_history, current_version, version_call, step_rows, lost, version_restored>>
      BY <1>8 DEF V!manager_vars
    <2>2. EndedCalls' = EndedCalls /\ Rolling' = Rolling BY <2>1 DEF EndedCalls, Rolling
    <2>3. VersionTypes' /\ CallsAreBounded' /\ VersionFloor'
      BY <1>0, <2>1, <2>2 DEF VersionTypes, CallsAreBounded, VersionFloor
    <2>4. VersionCounts => VersionCounts' BY <2>1, <2>2, Zenon DEF VersionCounts
    <2> QED BY <1>0, <2>1, <2>3, <2>4, Zenon DEF VersionInv
  <1> QED BY <1>1, <1>2, <1>3, <1>4, <1>5, <1>6, <1>7, <1>8, Zenon DEF V!ManagerNext

LEMMA VersionImplies == VersionInv => V!ManagerTypeOK /\ V!VersionIsApplied
  <1> SUFFICES ASSUME VersionInv PROVE V!ManagerTypeOK /\ V!VersionIsApplied OBVIOUS
  <1>0. VersionTypes /\ CallsAreBounded /\ version_restored \in BOOLEAN BY DEF VersionInv
  <1> DEFINE least == -Cardinality(Starts)
             Fits == [at : V!Ats, step : least..StepCount, target : 0..StepCount,
                      backup : BOOLEAN, saved : Int, fails : BOOLEAN]
  <1>1. version_call \in [Starts -> Fits]
    <2> SUFFICES ASSUME NEW k \in Starts PROVE version_call[k] \in Fits BY <1>0 DEF CallsAreBounded
    <2>1. version_call[k] \in VersionCall /\ version_call[k].step <= StepCount /\ least <= version_call[k].step
      BY <1>0 DEF CallsAreBounded
    <2>2. least \in Int BY VersionLimits
    <2> HIDE DEF least
    <2>3. version_call[k].step \in least..StepCount BY <2>1, <2>2, VersionLimits DEF VersionCall
    <2> QED BY <2>1, <2>3 DEF VersionCall, V!Ats
  <1>2. V!Cardinality(Starts) = Cardinality(Starts) BY CountsAlike
  <1>3. V!ManagerTypeOK
    <2>1. version_call \in [Starts -> [at : V!Ats, step : -V!Cardinality(Starts)..StepCount, target : 0..StepCount,
                                       backup : BOOLEAN, saved : Int, fails : BOOLEAN]]
      BY <1>1, <1>2, Zenon
    <2> HIDE DEF Fits
    <2> QED BY <1>0, <2>1, Zenon DEF VersionTypes, V!ManagerTypeOK
  <1>4. V!Cardinality({k \in Starts : version_call[k].at = "rolling"}) = Cardinality(Rolling)
    BY CountsAlike DEF Rolling
  <1>5. V!VersionIsApplied
    <2>1. VersionCounts => /\ current_version = V!SumFunction(step_rows)
                           /\ current_version = Len(version_history) + lost
                                + V!Cardinality({k \in Starts : version_call[k].at = "rolling"})
      BY <1>4, Zenon DEF VersionCounts
    <2> QED BY <2>1, Zenon DEF VersionInv, V!VersionIsApplied
  <1> QED BY <1>3, <1>5

-----------------------------------------------------------------------------
(***************************************************************************)
(* Recursion over a queue: the least number for which a statement fails    *)
(* stands for induction, and shows that a function with the equations of a *)
(* recursive definition exists.                                            *)
(***************************************************************************)
LEMMA CountsUp ==
  ASSUME NEW N \in Nat, NEW Ok, 0 \in Ok, \A n \in 1..N : n - 1 \in Ok => n \in Ok
  PROVE  \A n \in 0..N : n \in Ok
  <1> SUFFICES ASSUME NEW b \in 0..N, b \notin Ok PROVE FALSE OBVIOUS
  <1> DEFINE Bad == {n \in 0..N : n \notin Ok}
  <1>1. Bad \in SUBSET Nat /\ Bad # {} OBVIOUS
  <1>2. PICK m \in Bad : \A k \in Bad : m <= k
    <2> HIDE DEF Bad
    <2> QED BY <1>1, LeastNumber
  <1>3. m \in 1..N /\ m - 1 \in 0..N /\ ~(m <= m - 1) BY <1>2
  <1>4. m - 1 \notin Bad BY <1>2, <1>3
  <1> QED BY <1>2, <1>3, <1>4

LEMMA RecursionExists ==
  ASSUME NEW N \in Nat, NEW X, NEW e \in X, NEW g \in [(1..N) \X X -> X]
  PROVE  \E f \in [0..N -> X] : Recurs(f, e, g, N)
  <1> DEFINE Good(m) == \E f \in [0..m -> X] : Recurs(f, e, g, m)
             Ok == {m \in 0..N : Good(m)}
  <1>1. 0 \in Ok
    <2>1. [n \in 0..0 |-> e] \in [0..0 -> X] /\ Recurs([n \in 0..0 |-> e], e, g, 0) BY DEF Recurs
    <2> QED BY <2>1
  <1>2. ASSUME NEW n \in 1..N, n - 1 \in Ok PROVE n \in Ok
    <2>1. PICK f \in [0..(n - 1) -> X] : Recurs(f, e, g, n - 1) BY <1>2
    <2> DEFINE h == [i \in 0..n |-> IF i = n THEN g[<<n, f[n - 1]>>] ELSE f[i]]
    <2>2. n - 1 \in 0..(n - 1) /\ \A i \in 0..n : i = n \/ i \in 0..(n - 1) OBVIOUS
    <2>3. f[n - 1] \in X /\ g[<<n, f[n - 1]>>] \in X BY <2>2
    <2>4. h \in [0..n -> X]
      <3> SUFFICES ASSUME NEW i \in 0..n PROVE h[i] \in X OBVIOUS
      <3> QED BY <2>2, <2>3
    <2>5. Recurs(h, e, g, n)
      <3>1. h[0] = f[0] /\ f[0] = e BY <2>1 DEF Recurs
      <3>2. ASSUME NEW i \in 1..n PROVE h[i] = g[<<i, h[i - 1]>>]
        <4>1. h[i - 1] = f[i - 1] /\ i \in 0..n /\ i - 1 \in 0..n OBVIOUS
        <4>2. CASE i = n BY <4>1, <4>2
        <4>3. CASE i # n
          <5>1. i \in 1..(n - 1) BY <4>3
          <5>2. f[i] = g[<<i, f[i - 1]>>] BY <2>1, <5>1 DEF Recurs
          <5>3. h[i] = f[i] BY <4>1, <4>3
          <5> QED BY <4>1, <5>2, <5>3
        <4> QED BY <4>2, <4>3
      <3> HIDE DEF h
      <3> QED BY <3>1, <3>2 DEF Recurs
    <2> HIDE DEF h
    <2> QED BY <2>4, <2>5
  <1>3. N \in Ok
    <2> HIDE DEF Ok
    <2>1. N \in 0..N OBVIOUS
    <2> QED BY <1>1, <1>2, <2>1, CountsUp
  <1> QED BY <1>3

(* A queue with one more in front.                                         *)
LEMMA QueueIsLed ==
  ASSUME NEW X, NEW s \in Seq(X), NEW x \in X
  PROVE  /\ <<x>> \o s \in Seq(X) /\ Members(<<x>> \o s) = Members(s) \cup {x}
         /\ Distinct(s) /\ x \notin Members(s) => Distinct(<<x>> \o s)
  <1> DEFINE t == <<x>> \o s
  <1>1. <<x>> \in Seq(X) /\ Len(<<x>>) = 1 /\ <<x>>[1] = x OBVIOUS
  <1>2. t \in Seq(X) /\ Len(t) = Len(s) + 1 /\ Len(s) \in Nat BY <1>1, ConcatProperties
  <1>3. t[1] = x /\ \A i \in 1..Len(s) : t[i + 1] = s[i]
    <2>1. \A i \in 1..(Len(<<x>>) + Len(s)) : t[i] = IF i <= Len(<<x>>) THEN <<x>>[i] ELSE s[i - Len(<<x>>)]
      BY <1>1, ConcatProperties
    <2> HIDE DEF t
    <2> QED BY <1>1, <1>2, <2>1
  <1> HIDE DEF t
  <1>4. \A i \in 1..Len(t) : i = 1 \/ (i - 1 \in 1..Len(s) /\ t[i] = s[i - 1]) BY <1>2, <1>3
  <1>5. Members(t) = Members(s) \cup {x}
    <2>1. \A y \in Members(t) : y \in Members(s) \cup {x} BY <1>3, <1>4 DEF Members
    <2>2. x \in Members(t) /\ \A i \in 1..Len(s) : s[i] \in Members(t) BY <1>2, <1>3 DEF Members
    <2> QED BY <2>1, <2>2 DEF Members
  <1>6. ASSUME Distinct(s), x \notin Members(s) PROVE Distinct(t)
    <2> SUFFICES ASSUME NEW i \in 1..Len(t), NEW j \in 1..Len(t), t[i] = t[j] PROVE i = j BY DEF Distinct
    <2>1. CASE i = 1 \/ j = 1 BY <1>2, <1>3, <1>4, <1>6, <2>1 DEF Members
    <2>2. CASE i # 1 /\ j # 1
      <3>1. i - 1 \in 1..Len(s) /\ j - 1 \in 1..Len(s) /\ s[i - 1] = s[j - 1] BY <1>4, <2>2
      <3>2. i - 1 = j - 1 BY <1>6, <3>1 DEF Distinct
      <3> QED BY <1>2, <3>2
    <2> QED BY <2>1, <2>2
  <1> QED BY <1>2, <1>5, <1>6 DEF t

(* The members of the start of a queue.                                    *)
LEMMA OneMoreMember ==
  ASSUME NEW X, NEW s \in Seq(X), NEW n \in 1..Len(s)
  PROVE  {s[i] : i \in 1..n} = {s[i] : i \in 1..(n - 1)} \cup {s[n]}
  <1>1. n \in Nat /\ \A i \in 1..n : i = n \/ i \in 1..(n - 1) OBVIOUS
  <1>2. \A i \in 1..(n - 1) : i \in 1..n OBVIOUS
  <1> QED BY <1>1, <1>2

(* db_migrator.js: what is left to undo.                                   *)
LEMMA OnlyReversible ==
  ASSUME NEW X, NEW s \in Seq(X)
  PROVE  /\ D!ToUndo(s) \in Seq(X) /\ Members(D!ToUndo(s)) = Members(s) \cap ReversibleSteps
         /\ Distinct(s) => Distinct(D!ToUndo(s))
  <1> DEFINE N == Len(s)
             Goes(n, r) == IF s[n] \notin ReversibleSteps THEN r ELSE <<s[n]>> \o r
             Body(f) == [n \in 0..N |-> IF n = 0 THEN <<>> ELSE IF s[n] \notin ReversibleSteps THEN f[n - 1]
                                        ELSE <<s[n]>> \o f[n - 1]]
             it == CHOOSE f : f = Body(f)
             g == [p \in (1..N) \X Seq(X) |-> Goes(p[1], p[2])]
             none == <<>>
  <1>1. D!ToUndo(s) = it[N] BY Zenon DEF D!ToUndo
  <1>2. N \in Nat /\ none \in Seq(X) /\ \A n \in 1..N : s[n] \in X OBVIOUS
  <1>3. \A n \in 1..N, r \in Seq(X) : Goes(n, r) \in Seq(X) BY <1>2, QueueIsLed
  <1>4. g \in [(1..N) \X Seq(X) -> Seq(X)] BY <1>3
  <1>5. PICK f \in [0..N -> Seq(X)] : Recurs(f, none, g, N)
    <2> HIDE DEF N, g, none
    <2> QED BY <1>2, <1>4, RecursionExists
  <1>6. f = Body(f)
    <2>1. \A n \in 0..N : f[n] = Body(f)[n]
      <3> SUFFICES ASSUME NEW n \in 0..N PROVE f[n] = Body(f)[n] OBVIOUS
      <3>1. CASE n = 0 BY <1>5, <3>1 DEF Recurs
      <3>2. CASE n # 0
        <4>1. n \in 1..N /\ n - 1 \in 0..N BY <3>2
        <4>2. f[n] = g[<<n, f[n - 1]>>] /\ f[n - 1] \in Seq(X) BY <1>5, <4>1 DEF Recurs
        <4>3. <<n, f[n - 1]>> \in (1..N) \X Seq(X) BY <4>1, <4>2
        <4>4. g[<<n, f[n - 1]>>] = Goes(n, f[n - 1]) BY <4>3
        <4> QED BY <3>2, <4>2, <4>4
      <3> QED BY <3>1, <3>2
    <2> QED BY <2>1
  <1>7. it = Body(it)
    <2> HIDE DEF Body
    <2> QED BY <1>6, Zenon
  <1>8. it[0] = none /\ \A n \in 1..N : it[n] = Goes(n, it[n - 1])
    <2>1. \A n \in 0..N : it[n] = Body(it)[n]
      <3> HIDE DEF Body, it
      <3> QED BY <1>7
    <2> HIDE DEF it
    <2>2. 0 \in 0..N /\ \A n \in 1..N : n \in 0..N /\ n # 0 BY <1>2
    <2>3. it[0] = none BY <2>1, <2>2, Zenon
    <2>4. ASSUME NEW n \in 1..N PROVE it[n] = Goes(n, it[n - 1]) BY <2>1, <2>2, Zenon
    <2> QED BY <2>3, <2>4
  <1> HIDE DEF it, g, Body
  <1> DEFINE Ok == {n \in 0..N : /\ it[n] \in Seq(X)
                                 /\ Members(it[n]) = {s[i] : i \in 1..n} \cap ReversibleSteps
                                 /\ Distinct(s) => Distinct(it[n])}
  <1>9. 0 \in Ok
    <2>1. {s[i] : i \in 1..0} = {} OBVIOUS
    <2>2. Members(none) = {} /\ Distinct(none) BY EmptyQueue
    <2> HIDE DEF none
    <2> QED BY <1>2, <1>8, <2>1, <2>2
  <1>10. ASSUME NEW n \in 1..N, n - 1 \in Ok PROVE n \in Ok
    <2> DEFINE r == it[n - 1]
               Old == {s[i] : i \in 1..(n - 1)}
    <2>1. r \in Seq(X) /\ Members(r) = Old \cap ReversibleSteps /\ (Distinct(s) => Distinct(r)) BY <1>10
    <2>2. {s[i] : i \in 1..n} = Old \cup {s[n]} BY <1>2, OneMoreMember
    <2>3. it[n] = IF s[n] \notin ReversibleSteps THEN r ELSE <<s[n]>> \o r BY <1>8
    <2>4. Distinct(s) => s[n] \notin Old
      <3> SUFFICES ASSUME Distinct(s), NEW i \in 1..(n - 1), s[n] = s[i] PROVE FALSE OBVIOUS
      <3>1. i \in 1..N /\ i # n BY <1>2
      <3> QED BY <3>1 DEF Distinct
    <2>5. s[n] \in X /\ n \in 0..N BY <1>2
    <2> HIDE DEF r, Old
    <2>6. CASE s[n] \notin ReversibleSteps BY <2>1, <2>2, <2>3, <2>5, <2>6
    <2>7. CASE s[n] \in ReversibleSteps
      <3>1. it[n] = <<s[n]>> \o r BY <2>3, <2>7
      <3>2. /\ it[n] \in Seq(X) /\ Members(it[n]) = Members(r) \cup {s[n]}
            /\ Distinct(r) /\ s[n] \notin Members(r) => Distinct(it[n]) BY <2>1, <2>5, <3>1, QueueIsLed
      <3> QED BY <2>1, <2>2, <2>4, <2>5, <2>7, <3>2
    <2> QED BY <2>6, <2>7
  <1>11. N \in Ok
    <2>1. N \in 0..N BY <1>2
    <2> HIDE DEF Ok, N
    <2> QED BY <1>2, <1>9, <1>10, <2>1, CountsUp
  <1> QED BY <1>1, <1>11 DEF Members

(* migration_store.js: the array without a step.                           *)
LEMMA IdIsRemoved ==
  ASSUME NEW X, NEW s \in Seq(X), NEW id
  PROVE  V!Without(s, id) \in Seq(X) /\ Members(V!Without(s, id)) = Members(s) \ {id}
  <1> DEFINE N == Len(s)
             Goes(n, r) == IF s[n] = id THEN r ELSE Append(r, s[n])
             Body(f) == [n \in 0..N |-> IF n = 0 THEN <<>> ELSE IF s[n] = id THEN f[n - 1]
                                        ELSE Append(f[n - 1], s[n])]
             it == CHOOSE f : f = Body(f)
             g == [p \in (1..N) \X Seq(X) |-> Goes(p[1], p[2])]
             none == <<>>
  <1>1. V!Without(s, id) = it[N] BY Zenon DEF V!Without
  <1>2. N \in Nat /\ none \in Seq(X) /\ \A n \in 1..N : s[n] \in X OBVIOUS
  <1>3. \A n \in 1..N, r \in Seq(X) : Goes(n, r) \in Seq(X) BY <1>2, QueueGrows
  <1>4. g \in [(1..N) \X Seq(X) -> Seq(X)] BY <1>3
  <1>5. PICK f \in [0..N -> Seq(X)] : Recurs(f, none, g, N)
    <2> HIDE DEF N, g, none
    <2> QED BY <1>2, <1>4, RecursionExists
  <1>6. f = Body(f)
    <2>1. \A n \in 0..N : f[n] = Body(f)[n]
      <3> SUFFICES ASSUME NEW n \in 0..N PROVE f[n] = Body(f)[n] OBVIOUS
      <3>1. CASE n = 0 BY <1>5, <3>1 DEF Recurs
      <3>2. CASE n # 0
        <4>1. n \in 1..N /\ n - 1 \in 0..N BY <3>2
        <4>2. f[n] = g[<<n, f[n - 1]>>] /\ f[n - 1] \in Seq(X) BY <1>5, <4>1 DEF Recurs
        <4>3. <<n, f[n - 1]>> \in (1..N) \X Seq(X) BY <4>1, <4>2
        <4>4. g[<<n, f[n - 1]>>] = Goes(n, f[n - 1]) BY <4>3
        <4> QED BY <3>2, <4>2, <4>4
      <3> QED BY <3>1, <3>2
    <2> QED BY <2>1
  <1>7. it = Body(it)
    <2> HIDE DEF Body
    <2> QED BY <1>6, Zenon
  <1>8. it[0] = none /\ \A n \in 1..N : it[n] = Goes(n, it[n - 1])
    <2>1. \A n \in 0..N : it[n] = Body(it)[n]
      <3> HIDE DEF Body, it
      <3> QED BY <1>7
    <2> HIDE DEF it
    <2> QED BY <1>2, <2>1
  <1> HIDE DEF it, g, Body
  <1> DEFINE Ok == {n \in 0..N : /\ it[n] \in Seq(X)
                                 /\ Members(it[n]) = {s[i] : i \in 1..n} \ {id}}
  <1>9. 0 \in Ok
    <2>1. {s[i] : i \in 1..0} = {} OBVIOUS
    <2>2. Members(none) = {} BY EmptyQueue
    <2> HIDE DEF none
    <2> QED BY <1>2, <1>8, <2>1, <2>2
  <1>10. ASSUME NEW n \in 1..N, n - 1 \in Ok PROVE n \in Ok
    <2> DEFINE r == it[n - 1]
               Old == {s[i] : i \in 1..(n - 1)}
    <2>1. r \in Seq(X) /\ Members(r) = Old \ {id} BY <1>10
    <2>2. {s[i] : i \in 1..n} = Old \cup {s[n]} BY <1>2, OneMoreMember
    <2>3. it[n] = IF s[n] = id THEN r ELSE Append(r, s[n]) BY <1>8
    <2>5. s[n] \in X /\ n \in 0..N BY <1>2
    <2> HIDE DEF r, Old
    <2>6. CASE s[n] = id BY <2>1, <2>2, <2>3, <2>5, <2>6
    <2>7. CASE s[n] # id
      <3>1. it[n] = Append(r, s[n]) BY <2>3, <2>7
      <3>2. it[n] \in Seq(X) /\ Members(it[n]) = Members(r) \cup {s[n]} BY <2>1, <2>5, <3>1, QueueGrows
      <3> QED BY <2>1, <2>2, <2>5, <2>7, <3>2
    <2> QED BY <2>6, <2>7
  <1>11. N \in Ok
    <2>1. N \in 0..N BY <1>2
    <2> HIDE DEF Ok, N
    <2> QED BY <1>2, <1>9, <1>10, <2>1, CountsUp
  <1> QED BY <1>1, <1>11 DEF Members

-----------------------------------------------------------------------------
(* migration_store.js.                                                     *)
LEMMA RangeIsMembers ==
  ASSUME NEW X, NEW s \in Seq(X)
  PROVE  V!Range(s) = Members(s)
  <1>1. DOMAIN s = 1..Len(s) OBVIOUS
  <1> QED BY <1>1, Zenon DEF V!Range, Members

LEMMA StoreStarts == V!StoreInit => StoreInv
  <1> SUFFICES ASSUME V!StoreInit PROVE StoreInv OBVIOUS
  <1>1. /\ store_connection = "none" /\ cache_dirty = TRUE /\ step_array = <<>>
        /\ step_table \in SUBSET CacheLimits /\ requests = <<>> /\ batched = {}
        /\ store_call = [k \in Starts |-> [op |-> "none", id |-> Nothing, at |-> "idle"]]
    BY DEF V!StoreInit
  <1>2. StoreTypes /\ ArrayAgrees BY <1>1 DEF StoreTypes, ArrayAgrees
  <1>3. StoreCalls BY <1>1 DEF StoreCalls, StoreCall
  <1>4. Members(requests) = {} BY <1>1, EmptyQueue
  <1>5. StoreRequests BY <1>1, <1>4 DEF StoreRequests
  <1> QED BY <1>2, <1>3, <1>5 DEF StoreInv

(* A call that goes on, and what is asked for it.                          *)
LEMMA AStoreCallGoes ==
  ASSUME StoreCalls, StoreRequests, NEW k \in Starts, NEW r \in StoreCall,
         store_call' = [store_call EXCEPT ![k] = r], r.at # "idle", IsAbout(r.op, r.id),
         store_call[k].at # "idle" => r.op = store_call[k].op /\ r.id = store_call[k].id,
         batched \subseteq batched', cache_dirty = FALSE => cache_dirty' = FALSE,
         requests' \in Seq(Asked),
         \A q \in Members(requests') :
           \/ q \in Members(requests)
           \/ q.call = k /\ (q.read = FALSE => /\ r.op # "load" /\ cache_dirty' = FALSE
                                              /\ (r.op = "add_steps" => r.id \in batched'))
  PROVE  StoreCalls' /\ StoreRequests'
  <1>1. /\ store_call' \in [Starts -> StoreCall] /\ store_call'[k] = r
        /\ \A d \in Starts \ {k} : store_call'[d] = store_call[d] BY DEF StoreCalls
  <1>2. StoreCalls' BY <1>1 DEF StoreCalls
  <1>3. \A q \in Members(requests) : q.call \in Starts
    <2>1. \A q \in Members(requests) : q \in Asked BY DEF StoreRequests, Members
    <2> QED BY <2>1 DEF Asked
  <1>4. ASSUME NEW q \in Members(requests') PROVE AskedFor(q)'
    <2>1. CASE q \in Members(requests)
      <3>1. AskedFor(q) /\ q.call \in Starts BY <1>3, <2>1 DEF StoreRequests
      <3>2. CASE q.call = k BY <1>1, <3>1, <3>2 DEF AskedFor
      <3>3. CASE q.call # k BY <1>1, <3>1, <3>3 DEF AskedFor
      <3> QED BY <3>2, <3>3
    <2>2. CASE q \notin Members(requests) BY <1>1, <2>2 DEF AskedFor
    <2> QED BY <2>1, <2>2
  <1> QED BY <1>2, <1>4 DEF StoreRequests

LEMMA AStoreCallEnds ==
  ASSUME StoreCalls, StoreRequests, NEW k \in Starts, NEW a \in {"done", "failed", "waiting"}, StoreCallIs(k, a),
         store_call[k].at # "idle", batched \subseteq batched', cache_dirty = FALSE => cache_dirty' = FALSE,
         requests' \in Seq(Asked), Members(requests') \subseteq Members(requests)
  PROVE  StoreCalls' /\ StoreRequests'
  <1> DEFINE r == [store_call[k] EXCEPT !.at = a]
  <1>1. store_call' = [store_call EXCEPT ![k] = r] BY DEF StoreCalls, StoreCallIs
  <1>2. store_call[k] \in StoreCall /\ IsAbout(store_call[k].op, store_call[k].id) BY DEF StoreCalls
  <1>3. r \in StoreCall /\ r.at = a /\ r.op = store_call[k].op /\ r.id = store_call[k].id
    BY <1>2 DEF StoreCall
  <1> HIDE DEF r
  <1> QED BY <1>1, <1>2, <1>3, AStoreCallGoes

(* The first request of the store.                                         *)
LEMMA AnAskedIsFirst ==
  ASSUME StoreCalls, StoreRequests, requests # <<>>
  PROVE  /\ Head(requests) \in Asked /\ AskedFor(Head(requests))
         /\ Head(requests).call \in Starts
         /\ Tail(requests) \in Seq(Asked) /\ Members(Tail(requests)) \subseteq Members(requests)
  <1>1. /\ Head(requests) \in Asked /\ Head(requests) \in Members(requests)
        /\ Tail(requests) \in Seq(Asked) /\ Members(Tail(requests)) \subseteq Members(requests)
    BY QueueShrinks DEF StoreRequests
  <1> QED BY <1>1 DEF StoreRequests, Asked

(* What a call does once the array is in step.                             *)
LEMMA ACallDecides ==
  ASSUME StoreTypes, StoreCalls, StoreRequests, NEW k \in Starts, NEW op, NEW id, IsAbout(op, id),
         NEW s \in Seq(CacheLimits), NEW t \in Seq(Asked), Members(t) \subseteq Members(requests),
         V!Decide(k, op, id, s, t), cache_dirty' = FALSE,
         store_call[k].at # "idle" => op = store_call[k].op /\ id = store_call[k].id,
         Members(s) \ batched = step_table \ batched, step_table' = step_table,
         store_connection' = store_connection
  PROVE  StoreInv'
  <1>1. CASE /\ store_call' = [store_call EXCEPT ![k] = [op |-> op, id |-> id, at |-> "done"]]
             /\ requests' = t /\ step_array' = s /\ batched' = batched
    <2> DEFINE r == [op |-> op, id |-> id, at |-> "done"]
    <2>1. r \in StoreCall /\ r.at # "idle" /\ r.op = op /\ r.id = id BY DEF IsAbout, StoreCall
    <2>2. store_call' = [store_call EXCEPT ![k] = r] BY <1>1
    <2> HIDE DEF r
    <2>3. StoreCalls' /\ StoreRequests' BY <1>1, <2>1, <2>2, AStoreCallGoes
    <2>4. StoreTypes' /\ ArrayAgrees' BY <1>1 DEF StoreTypes, ArrayAgrees
    <2> QED BY <2>3, <2>4 DEF StoreInv
  <1>2. CASE /\ op # "load"
             /\ store_call' = [store_call EXCEPT ![k] = [op |-> op, id |-> id, at |-> "waiting"]]
             /\ requests' = Append(t, [call |-> k, read |-> FALSE])
             /\ step_array' = IF op = "add_steps" THEN Append(s, id) ELSE s
             /\ batched' = IF op = "add_steps" THEN batched \cup {id} ELSE batched
    <2> DEFINE r == [op |-> op, id |-> id, at |-> "waiting"]
               q == [call |-> k, read |-> FALSE]
    <2>1. r \in StoreCall /\ r.at # "idle" /\ r.op = op /\ r.id = id BY DEF IsAbout, StoreCall
    <2>2. store_call' = [store_call EXCEPT ![k] = r] /\ requests' = Append(t, q) BY <1>2
    <2>3. q \in Asked /\ q.call = k BY DEF Asked
    <2> HIDE DEF r, q
    <2>4. requests' \in Seq(Asked) /\ Members(requests') = Members(t) \cup {q} BY <2>2, <2>3, QueueGrows
    <2>5. batched \subseteq batched' /\ (op = "add_steps" => id \in batched') BY <1>2
    <2>6. StoreCalls' /\ StoreRequests' BY <1>2, <2>1, <2>2, <2>3, <2>4, <2>5, AStoreCallGoes
    <2>7. CASE op = "add_steps"
      <3>1. id \in CacheLimits /\ step_array' = Append(s, id) /\ batched' = batched \cup {id}
        BY <1>2, <2>7 DEF IsAbout
      <3>2. step_array' \in Seq(CacheLimits) /\ Members(step_array') = Members(s) \cup {id}
        BY <3>1, QueueGrows
      <3>3. StoreTypes' /\ ArrayAgrees' BY <3>1, <3>2 DEF StoreTypes, ArrayAgrees
      <3> QED BY <2>6, <3>3 DEF StoreInv
    <2>8. CASE op # "add_steps"
      <3>1. StoreTypes' /\ ArrayAgrees' BY <1>2, <2>8 DEF StoreTypes, ArrayAgrees
      <3> QED BY <2>6, <3>1 DEF StoreInv
    <2> QED BY <2>7, <2>8
  <1> QED BY <1>1, <1>2, Zenon DEF V!Decide, V!Request

(* What a call does with an open database.                                 *)
LEMMA ACallSyncs ==
  ASSUME StoreInv, NEW k \in Starts, NEW op, NEW id, IsAbout(op, id), V!Sync(k, op, id),
         store_call[k].at # "idle" => op = store_call[k].op /\ id = store_call[k].id,
         cache_dirty' = cache_dirty, step_table' = step_table, store_connection' = store_connection
  PROVE  StoreInv'
  <1>0. StoreTypes /\ StoreCalls /\ StoreRequests /\ ArrayAgrees BY DEF StoreInv
  <1>1. CASE cache_dirty
    <2> DEFINE r == [op |-> op, id |-> id, at |-> "waiting"]
               q == [call |-> k, read |-> TRUE]
    <2>1. /\ store_call' = [store_call EXCEPT ![k] = r] /\ requests' = Append(requests, q)
          /\ step_array' = step_array /\ batched' = batched BY <1>1, Zenon DEF V!Sync, V!Request
    <2>2. r \in StoreCall /\ r.at # "idle" /\ r.op = op /\ r.id = id BY DEF IsAbout, StoreCall
    <2>3. q \in Asked /\ q.call = k /\ q.read = TRUE BY DEF Asked
    <2> HIDE DEF r, q
    <2>4. requests' \in Seq(Asked) /\ Members(requests') = Members(requests) \cup {q}
      BY <1>0, <2>1, <2>3, QueueGrows DEF StoreRequests
    <2>5. StoreCalls' /\ StoreRequests' BY <1>0, <2>1, <2>2, <2>3, <2>4, AStoreCallGoes
    <2>6. StoreTypes' /\ ArrayAgrees' BY <1>0, <2>1 DEF StoreTypes, ArrayAgrees
    <2> QED BY <2>5, <2>6 DEF StoreInv
  <1>2. CASE ~cache_dirty
    <2>1. V!Decide(k, op, id, step_array, requests) BY <1>2, Zenon DEF V!Sync
    <2>2. cache_dirty = FALSE BY <1>0, <1>2 DEF StoreTypes
    <2> QED BY <1>0, <2>1, <2>2, ACallDecides DEF StoreTypes, StoreRequests, ArrayAgrees
  <1> QED BY <1>1, <1>2

LEMMA StoreKeeps == StoreInv /\ [V!StoreNext]_(V!store_vars) => StoreInv'
  <1> SUFFICES ASSUME StoreInv, [V!StoreNext]_(V!store_vars) PROVE StoreInv' OBVIOUS
  <1>0. StoreTypes /\ StoreCalls /\ StoreRequests /\ ArrayAgrees BY DEF StoreInv
  <1>1. ASSUME NEW k \in Starts, V!Opened(k) PROVE StoreInv'
    <2>1. /\ store_call[k].at = "opening"
          /\ UNCHANGED <<store_connection, cache_dirty, step_table>> BY <1>1, Zenon DEF V!Opened
    <2>2. CASE V!Sync(k, store_call[k].op, store_call[k].id)
      <3>1. IsAbout(store_call[k].op, store_call[k].id) BY <1>0, <2>1 DEF StoreCalls
      <3> QED BY <2>1, <2>2, <3>1, ACallSyncs
    <2>3. CASE V!Set(k, "failed") /\ UNCHANGED <<step_array, requests, batched>>
      <3>1. StoreCallIs(k, "failed") BY <2>3, Zenon DEF V!Set, StoreCallIs
      <3>2. StoreCalls' /\ StoreRequests' BY <1>0, <2>1, <2>3, <3>1, AStoreCallEnds DEF StoreRequests
      <3>3. StoreTypes' /\ ArrayAgrees' BY <1>0, <2>1, <2>3 DEF StoreTypes, ArrayAgrees
      <3> QED BY <3>2, <3>3 DEF StoreInv
    <2> QED BY <1>1, <2>2, <2>3, Zenon DEF V!Opened
  <1>2. ASSUME NEW k \in Starts, NEW op \in V!Ops, NEW id \in V!Subjects(op), V!Call(k, op, id)
        PROVE  StoreInv'
    <2>1. store_call[k].at = "idle" /\ UNCHANGED <<cache_dirty, step_table>> BY <1>2, Zenon DEF V!Call
    <2>2. IsAbout(op, id) BY DEF IsAbout, V!Ops, V!Subjects
    <2>3. CASE store_connection = "open" /\ V!Sync(k, op, id) /\ store_connection' = store_connection
      BY <2>1, <2>2, <2>3, ACallSyncs
    <2>4. CASE /\ store_connection' \in {"opening", "failed"} /\ UNCHANGED <<step_array, requests, batched>>
               /\ \E a \in {"opening", "failed"} :
                    store_call' = [store_call EXCEPT ![k] = [op |-> op, id |-> id, at |-> a]]
      <3>1. PICK a \in {"opening", "failed"} :
                store_call' = [store_call EXCEPT ![k] = [op |-> op, id |-> id, at |-> a]] BY <2>4
      <3> DEFINE r == [op |-> op, id |-> id, at |-> a]
      <3>2. r \in StoreCall /\ r.at # "idle" /\ r.op = op /\ r.id = id BY <2>2 DEF IsAbout, StoreCall
      <3>3. store_call' = [store_call EXCEPT ![k] = r] BY <3>1
      <3> HIDE DEF r
      <3>4. StoreCalls' /\ StoreRequests'
        BY <1>0, <2>1, <2>2, <2>4, <3>2, <3>3, AStoreCallGoes DEF StoreRequests
      <3>5. StoreTypes' /\ ArrayAgrees' BY <1>0, <2>1, <2>4 DEF StoreTypes, ArrayAgrees
      <3> QED BY <3>4, <3>5 DEF StoreInv
    <2>5. \/ store_connection = "open" /\ V!Sync(k, op, id) /\ store_connection' = store_connection
          \/ /\ store_connection' \in {"opening", "failed"} /\ UNCHANGED <<step_array, requests, batched>>
             /\ \E a \in {"opening", "failed"} :
                  store_call' = [store_call EXCEPT ![k] = [op |-> op, id |-> id, at |-> a]]
      BY <1>2, Zenon DEF V!Call
    <2> QED BY <2>3, <2>4, <2>5
  <1>3. ASSUME NEW ok \in BOOLEAN, V!Opens(ok) PROVE StoreInv'
    <2>1. /\ store_connection' \in {"open", "failed"}
          /\ UNCHANGED <<cache_dirty, step_array, step_table, requests, store_call, batched>>
      BY <1>3 DEF V!Opens
    <2>2. StoreCalls' /\ StoreRequests' BY <1>0, <2>1 DEF StoreCalls, StoreRequests, AskedFor
    <2>3. StoreTypes' /\ ArrayAgrees' BY <1>0, <2>1 DEF StoreTypes, ArrayAgrees
    <2> QED BY <2>2, <2>3 DEF StoreInv
  <1>4. ASSUME V!ServeRead PROVE StoreInv'
    <2> DEFINE k == Head(requests).call
    <2>1. /\ requests # <<>> /\ cache_dirty' = FALSE /\ UNCHANGED <<store_connection, step_table>>
      BY <1>4, Zenon DEF V!ServeRead, V!Serving
    <2>2. PICK s \in V!Bijection(1..V!Cardinality(step_table), step_table) :
             V!Decide(k, store_call[k].op, store_call[k].id, s, Tail(requests))
      BY <1>4, Zenon DEF V!ServeRead
    <2>3. s \in Seq(CacheLimits) /\ Members(s) = step_table
      <3>1. /\ s \in [1..Cardinality(step_table) -> step_table]
            /\ \A t \in step_table : \E i \in 1..Cardinality(step_table) : s[i] = t
        BY CountsAlike DEF V!Bijection, V!Injection, V!Surjection
      <3>2. Cardinality(step_table) \in Nat
        BY <1>0, FS_Subset, FS_CardinalityType, FS_Singleton DEF StoreTypes, CacheLimits
      <3>3. s \in Seq(CacheLimits) /\ Len(s) = Cardinality(step_table) BY <1>0, <3>1, <3>2 DEF StoreTypes
      <3> QED BY <3>1, <3>3 DEF Members
    <2>4. /\ k \in Starts /\ AskedFor(Head(requests))
          /\ Tail(requests) \in Seq(Asked) /\ Members(Tail(requests)) \subseteq Members(requests)
      BY <1>0, <2>1, AnAskedIsFirst
    <2>5. store_call[k].at # "idle" /\ IsAbout(store_call[k].op, store_call[k].id)
      BY <1>0, <2>4 DEF StoreCalls, AskedFor
    <2> HIDE DEF k
    <2> QED BY <1>0, <2>1, <2>2, <2>3, <2>4, <2>5, ACallDecides
  <1>5. ASSUME NEW c \in BOOLEAN, V!ServeWrite(c) PROVE StoreInv'
    <2> DEFINE k == Head(requests).call
               op == store_call[k].op
               id == store_call[k].id
    <2>1. /\ requests # <<>> /\ Head(requests).read = FALSE
          /\ \/ step_table' = V!Stored(op, id) /\ batched' = batched
             \/ step_table' = step_table /\ batched' = batched \cup V!Changed(op, id)
          /\ step_array' = V!Array(op, id) /\ cache_dirty' = (cache_dirty /\ op \notin {"add", "clear"})
          /\ StoreCallIs(k, "done") \/ StoreCallIs(k, "waiting")
          /\ requests' = Tail(requests) /\ UNCHANGED store_connection
      BY <1>5, Zenon DEF V!ServeWrite, V!Serving, V!Set, StoreCallIs
    <2>2. /\ k \in Starts /\ AskedFor(Head(requests))
          /\ Tail(requests) \in Seq(Asked) /\ Members(Tail(requests)) \subseteq Members(requests)
      BY <1>0, <2>1, AnAskedIsFirst
    <2>3. /\ store_call[k].at # "idle" /\ IsAbout(op, id) /\ op # "load" /\ cache_dirty = FALSE
          /\ op = "add_steps" => id \in batched BY <1>0, <2>1, <2>2 DEF StoreCalls, AskedFor
    <2> HIDE DEF k, op, id
    <2>4. cache_dirty' = FALSE /\ batched \subseteq batched' BY <2>1, <2>3
    <2>5. StoreCalls' /\ StoreRequests' BY <1>0, <2>1, <2>2, <2>3, <2>4, AStoreCallEnds
    <2>6. /\ step_array \in Seq(CacheLimits) /\ step_table \subseteq CacheLimits /\ batched \subseteq CacheLimits
          /\ Members(step_array) \ batched = step_table \ batched
      BY <1>0, <2>3 DEF StoreTypes, ArrayAgrees
    <2>7. step_array' \in Seq(CacheLimits) /\ step_table' \subseteq CacheLimits /\ batched' \subseteq CacheLimits
          /\ Members(step_array') \ batched' = step_table' \ batched'
      <3>1. CASE op = "remove"
        <4>1. /\ step_array' = V!Without(step_array, id) /\ id \in CacheLimits
              /\ \/ step_table' = step_table \ {id} /\ batched' = batched
                 \/ step_table' = step_table /\ batched' = batched \cup {id}
          BY <2>1, <2>3, <3>1 DEF V!Stored, V!Array, V!Changed, IsAbout
        <4>2. step_array' \in Seq(CacheLimits) /\ Members(step_array') = Members(step_array) \ {id}
          BY <2>6, <4>1, IdIsRemoved
        <4> QED BY <2>6, <4>1, <4>2
      <3>2. CASE op = "clear"
        <4>1. /\ step_array' = <<>>
              /\ \/ step_table' = {} /\ batched' = batched
                 \/ step_table' = step_table /\ batched' = batched \cup step_table
          BY <2>1, <3>2 DEF V!Stored, V!Array, V!Changed
        <4>2. Members(step_array') = {} BY <4>1, EmptyQueue
        <4> QED BY <2>6, <4>1, <4>2
      <3>3. CASE op = "add"
        <4>1. /\ step_array' = Append(step_array, id) /\ id \in CacheLimits
              /\ \/ step_table' = step_table \cup {id} /\ batched' = batched
                 \/ step_table' = step_table /\ batched' = batched \cup {id}
          BY <2>1, <2>3, <3>3 DEF V!Stored, V!Array, V!Changed, IsAbout
        <4>2. step_array' \in Seq(CacheLimits) /\ Members(step_array') = Members(step_array) \cup {id}
          BY <2>6, <4>1, QueueGrows
        <4> QED BY <2>6, <4>1, <4>2
      <3>4. CASE op = "add_steps"
        <4>1. /\ step_array' = step_array /\ id \in CacheLimits
              /\ \/ step_table' = step_table \cup {id} /\ batched' = batched
                 \/ step_table' = step_table /\ batched' = batched \cup {id}
          BY <2>1, <2>3, <3>4 DEF V!Stored, V!Array, V!Changed, IsAbout
        <4> QED BY <2>3, <2>6, <3>4, <4>1
      <3> QED BY <2>3, <3>1, <3>2, <3>3, <3>4 DEF IsAbout
    <2>8. StoreTypes' /\ ArrayAgrees' BY <1>0, <2>1, <2>4, <2>7 DEF StoreTypes, ArrayAgrees
    <2> QED BY <2>5, <2>8 DEF StoreInv
  <1>6. ASSUME V!RequestFails PROVE StoreInv'
    <2> DEFINE k == Head(requests).call
    <2>1. /\ requests # <<>> /\ StoreCallIs(k, "failed") /\ requests' = Tail(requests)
          /\ UNCHANGED <<store_connection, cache_dirty, step_array, step_table, batched>>
      BY <1>6, Zenon DEF V!RequestFails, V!Set, StoreCallIs
    <2>2. /\ k \in Starts /\ AskedFor(Head(requests))
          /\ Tail(requests) \in Seq(Asked) /\ Members(Tail(requests)) \subseteq Members(requests)
      BY <1>0, <2>1, AnAskedIsFirst
    <2>3. store_call[k].at # "idle" BY <2>2 DEF AskedFor
    <2> HIDE DEF k
    <2>4. StoreCalls' /\ StoreRequests' BY <1>0, <2>1, <2>2, <2>3, AStoreCallEnds
    <2>5. StoreTypes' /\ ArrayAgrees' BY <1>0, <2>1 DEF StoreTypes, ArrayAgrees
    <2> QED BY <2>4, <2>5 DEF StoreInv
  <1>7. CASE UNCHANGED V!store_vars
    <2>1. UNCHANGED <<store_connection, cache_dirty, step_array, step_table, requests, store_call, batched>>
      BY <1>7 DEF V!store_vars
    <2> QED BY <1>0, <2>1 DEF StoreInv, StoreTypes, StoreCalls, StoreRequests, AskedFor, ArrayAgrees
  <1> QED BY <1>1, <1>2, <1>3, <1>4, <1>5, <1>6, <1>7, Zenon DEF V!StoreNext

LEMMA StoreImplies == StoreInv => V!StoreTypeOK /\ V!ArrayIsStored
  <1> SUFFICES ASSUME StoreInv PROVE V!StoreTypeOK /\ V!ArrayIsStored OBVIOUS
  <1>0. StoreTypes /\ StoreCalls /\ StoreRequests /\ ArrayAgrees BY DEF StoreInv
  <1>1. V!StoreTypeOK
    BY <1>0 DEF StoreTypes, StoreCalls, StoreRequests, StoreCall, Asked, V!StoreTypeOK, V!Ops
  <1>2. V!Range(step_array) = Members(step_array) BY <1>0, RangeIsMembers DEF StoreTypes
  <1>3. V!ArrayIsStored BY <1>0, <1>2 DEF StoreTypes, ArrayAgrees, V!ArrayIsStored
  <1> QED BY <1>1, <1>3

-----------------------------------------------------------------------------
(* db_migrator.js.                                                         *)
LEMMA StepsAre == D!Steps = 1..3 /\ AllSteps = 3 /\ ReversibleSteps = {1, 3} /\ ReversibleSteps \subseteq D!Steps
  BY DEF D!Steps, AllSteps, ReversibleSteps

LEMMA MigratorStarts == D!MigratorInit => MigratorInv
  <1> SUFFICES ASSUME D!MigratorInit PROVE MigratorInv OBVIOUS
  <1>1. /\ executed_steps = <<>> /\ inDb = [s \in D!Steps |-> 0] /\ blocked = {}
        /\ migrate = [k \in CacheCalls |-> [at |-> "idle", step |-> 0]]
        /\ undone = [k \in CacheCalls |-> <<>>] /\ stop_on_rollback_error \in BOOLEAN
    BY DEF D!MigratorInit
  <1>2. [at |-> "idle", step |-> 0] \in MigrateCall BY StepsAre DEF MigrateCall
  <1>3. MigratorTypes BY <1>1, <1>2 DEF MigratorTypes
  <1>4. Untouched BY <1>1 DEF Untouched
  <1>5. \A k \in CacheCalls : migrate[k].at = "idle" BY <1>1
  <1> QED BY <1>3, <1>4, <1>5 DEF MigratorInv

(* Only the call that moves can be alone once it moved, and then it was.   *)
LEMMA TheOneThatMoves ==
  ASSUME MigratorInv, NEW k \in CacheCalls, NEW r \in MigrateCall, migrate' = [migrate EXCEPT ![k] = r],
         r.at # "idle"
  PROVE  /\ migrate'[k] = r /\ migrate' \in [CacheCalls -> MigrateCall]
         /\ \A j \in CacheCalls \ {k} : migrate'[j] = migrate[j]
         /\ ~AllIdle' /\ (Alone(k)' <=> Alone(k))
         /\ \A j \in CacheCalls : Alone(j)' /\ migrate'[j].at # "idle" => j = k
         /\ Alone(k) /\ migrate[k].at = "idle" => AllIdle
  <1>1. /\ migrate'[k] = r /\ migrate' \in [CacheCalls -> MigrateCall]
        /\ \A j \in CacheCalls \ {k} : migrate'[j] = migrate[j] BY DEF MigratorInv, MigratorTypes
  <1> QED BY <1>1 DEF AllIdle, Alone

(* A call that rolls back, or is through with it.                          *)
LEMMA ACallRolls ==
  ASSUME MigratorInv, NEW k \in CacheCalls, NEW rest \in Seq(D!Steps), D!Rolling(k, rest),
         inDb' \in [D!Steps -> Int], blocked' \subseteq D!Steps, UNCHANGED <<executed_steps, stop_on_rollback_error>>,
         Alone(k) => \/ /\ Distinct(rest) /\ Members(rest) \subseteq ReversibleSteps
                        /\ \A t \in Members(rest) : inDb'[t] = 1
                        /\ \A t \in ReversibleSteps \ Members(rest) : inDb'[t] = 0 \/ t \in blocked'
                     \/ rest = <<>> /\ stop_on_rollback_error = TRUE /\ blocked' # {}
  PROVE  MigratorInv'
  <1> DEFINE r == [at |-> IF rest = <<>> THEN "failed" ELSE "rolling", step |-> 0]
  <1>1. migrate' = [migrate EXCEPT ![k] = r] /\ undone' = [undone EXCEPT ![k] = rest]
    BY Zenon DEF D!Rolling
  <1>2. /\ r \in MigrateCall /\ r.at # "idle" /\ r.at \in {"failed", "rolling"}
        /\ (r.at = "failed" <=> rest = <<>>) BY StepsAre DEF MigrateCall
  <1> HIDE DEF r
  <1>3. /\ migrate'[k] = r /\ migrate' \in [CacheCalls -> MigrateCall]
        /\ \A j \in CacheCalls \ {k} : migrate'[j] = migrate[j]
        /\ ~AllIdle' /\ (Alone(k)' <=> Alone(k))
        /\ \A j \in CacheCalls : Alone(j)' /\ migrate'[j].at # "idle" => j = k
    BY <1>1, <1>2, TheOneThatMoves
  <1>4. MigratorTypes BY DEF MigratorInv
  <1>5. /\ undone' \in [CacheCalls -> Seq(D!Steps)] /\ undone'[k] = rest
        /\ \A j \in CacheCalls \ {k} : undone'[j] = undone[j] BY <1>1, <1>4 DEF MigratorTypes
  <1>6. MigratorTypes' BY <1>2, <1>3, <1>4, <1>5 DEF MigratorTypes
  <1>7. Alone(k) => Explains(k)'
    <2> SUFFICES ASSUME Alone(k) PROVE Explains(k)' OBVIOUS
    <2>1. CASE rest = <<>>
      <3>1. migrate'[k].at = "failed" /\ Members(rest) = {} BY <1>2, <1>3, <2>1, EmptyQueue
      <3> QED BY <3>1, <2>1 DEF Explains
    <2>2. CASE rest # <<>>
      <3>1. migrate'[k].at = "rolling" BY <1>2, <1>3, <2>2
      <3>2. RollingBack(k)' BY <1>5, <2>2 DEF RollingBack
      <3> QED BY <3>1, <3>2 DEF Explains
    <2> QED BY <2>1, <2>2
  <1> QED BY <1>3, <1>6, <1>7 DEF MigratorInv

LEMMA MigratorKeeps == MigratorInv /\ [D!MigratorNext]_(D!migrator_vars) => MigratorInv'
  <1> SUFFICES ASSUME MigratorInv, [D!MigratorNext]_(D!migrator_vars) PROVE MigratorInv' OBVIOUS
  <1>0. MigratorTypes BY DEF MigratorInv
  <1>1. ASSUME NEW k \in CacheCalls, D!Migrate(k) PROVE MigratorInv'
    <2> DEFINE r == [at |-> "migrating", step |-> 1]
    <2>1. /\ migrate[k].at = "idle" /\ migrate' = [migrate EXCEPT ![k] = r]
          /\ UNCHANGED <<executed_steps, undone, inDb, stop_on_rollback_error, blocked>>
      BY <1>1, Zenon DEF D!Migrate
    <2>2. r \in MigrateCall /\ r.at = "migrating" /\ r.step = 1 /\ 1 \in D!Steps
      BY StepsAre DEF MigrateCall
    <2> HIDE DEF r
    <2>3. /\ migrate'[k] = r /\ migrate' \in [CacheCalls -> MigrateCall]
          /\ \A j \in CacheCalls \ {k} : migrate'[j] = migrate[j]
          /\ ~AllIdle' /\ (Alone(k)' <=> Alone(k))
          /\ \A j \in CacheCalls : Alone(j)' /\ migrate'[j].at # "idle" => j = k
          /\ Alone(k) => AllIdle BY <2>1, <2>2, TheOneThatMoves
    <2>4. MigratorTypes' BY <1>0, <2>1, <2>2, <2>3 DEF MigratorTypes
    <2>5. Alone(k) => Explains(k)'
      <3> SUFFICES ASSUME Alone(k) PROVE Explains(k)' OBVIOUS
      <3>1. executed_steps = <<>> /\ blocked = {} /\ \A t \in D!Steps : inDb[t] = 0
        BY <2>3 DEF MigratorInv, Untouched
      <3>2. \A t \in D!Steps : ~(t < 1) BY StepsAre
      <3>3. Len(executed_steps) = 0 /\ \A i \in 1..0 : executed_steps[i] = i BY <3>1
      <3>4. Migrating(k)' BY <2>1, <2>2, <2>3, <3>1, <3>2, <3>3 DEF Migrating
      <3> QED BY <2>2, <2>3, <3>4 DEF Explains
    <2> QED BY <2>3, <2>4, <2>5 DEF MigratorInv
  <1>2. ASSUME NEW k \in CacheCalls, D!StepSucceeds(k) PROVE MigratorInv'
    <2> DEFINE s == migrate[k].step
               r == IF s = AllSteps THEN [at |-> "migrated", step |-> 0] ELSE [at |-> "migrating", step |-> s + 1]
    <2>1. /\ migrate[k].at = "migrating" /\ inDb' = [inDb EXCEPT ![s] = @ + 1]
          /\ executed_steps' = Append(executed_steps, s)
          /\ UNCHANGED <<undone, stop_on_rollback_error, blocked>> BY <1>2, Zenon DEF D!StepSucceeds
    <2>2. s \in D!Steps /\ migrate[k] \in MigrateCall BY <1>0, <2>1 DEF MigratorTypes
    <2>3. migrate' = [migrate EXCEPT ![k] = r]
      <3>1. [migrate[k] EXCEPT !.step = s + 1] = [at |-> "migrating", step |-> s + 1]
        BY <2>1, <2>2 DEF MigrateCall
      <3>2. migrate' = [migrate EXCEPT ![k] = IF s = AllSteps THEN [at |-> "migrated", step |-> 0]
                                              ELSE [migrate[k] EXCEPT !.step = s + 1]]
        BY <1>2 DEF D!StepSucceeds
      <3> QED BY <3>1, <3>2, Zenon
    <2> HIDE DEF s
    <2>4. /\ r \in MigrateCall /\ r.at # "idle" /\ r.at \in {"migrated", "migrating"}
          /\ r.at = "migrated" => s = 3
          /\ r.at = "migrating" => r.step = s + 1 /\ s + 1 \in D!Steps BY <2>2, StepsAre DEF MigrateCall
    <2> HIDE DEF r
    <2>5. /\ migrate'[k] = r /\ migrate' \in [CacheCalls -> MigrateCall]
          /\ \A j \in CacheCalls \ {k} : migrate'[j] = migrate[j]
          /\ ~AllIdle' /\ (Alone(k)' <=> Alone(k))
          /\ \A j \in CacheCalls : Alone(j)' /\ migrate'[j].at # "idle" => j = k
      BY <2>3, <2>4, TheOneThatMoves
    <2>6. /\ executed_steps \in Seq(D!Steps) /\ inDb \in [D!Steps -> Int] /\ Len(executed_steps) \in Nat
          /\ executed_steps' \in Seq(D!Steps) /\ Len(executed_steps') = Len(executed_steps) + 1
          /\ executed_steps'[Len(executed_steps) + 1] = s
          /\ \A i \in 1..Len(executed_steps) : executed_steps'[i] = executed_steps[i]
      BY <1>0, <2>1, <2>2 DEF MigratorTypes
    <2>7. /\ inDb' \in [D!Steps -> Int] /\ inDb'[s] = inDb[s] + 1
          /\ \A t \in D!Steps \ {s} : inDb'[t] = inDb[t] BY <2>1, <2>2, <2>6
    <2>8. MigratorTypes' BY <1>0, <2>1, <2>4, <2>5, <2>6, <2>7 DEF MigratorTypes
    <2>9. Alone(k) => Explains(k)'
      <3> SUFFICES ASSUME Alone(k) PROVE Explains(k)' OBVIOUS
      <3>1. /\ Len(executed_steps) = s - 1 /\ \A i \in 1..Len(executed_steps) : executed_steps[i] = i
            /\ blocked = {} /\ \A t \in D!Steps : inDb[t] = IF t < s THEN 1 ELSE 0
        BY <2>1 DEF MigratorInv, Explains, Migrating, s
      <3>2. \A t \in D!Steps : inDb'[t] = IF t < s + 1 THEN 1 ELSE 0
        <4> SUFFICES ASSUME NEW t \in D!Steps PROVE inDb'[t] = IF t < s + 1 THEN 1 ELSE 0 OBVIOUS
        <4>1. CASE t = s BY <2>2, <2>7, <3>1, <4>1, StepsAre
        <4>2. CASE t # s
          <5>1. inDb'[t] = inDb[t] /\ (t < s + 1 <=> t < s) BY <2>2, <2>7, <4>2, StepsAre
          <5> QED BY <3>1, <5>1
        <4> QED BY <4>1, <4>2
      <3>3. CASE r.at = "migrated"
        <4>1. \A t \in D!Steps : inDb'[t] = 1 BY <2>4, <3>2, <3>3, StepsAre
        <4> QED BY <2>5, <3>3, <4>1 DEF Explains
      <3>4. CASE r.at = "migrating"
        <4>1. Len(executed_steps') = (s + 1) - 1 /\ \A i \in 1..Len(executed_steps') : executed_steps'[i] = i
          BY <2>2, <2>6, <3>1, StepsAre
        <4>2. Migrating(k)' BY <2>1, <2>4, <2>5, <3>1, <3>2, <3>4, <4>1 DEF Migrating
        <4> QED BY <2>5, <3>4, <4>2 DEF Explains
      <3> QED BY <2>4, <3>3, <3>4
    <2> QED BY <2>5, <2>8, <2>9 DEF MigratorInv
  <1>3. ASSUME NEW k \in CacheCalls, D!StepFails(k) PROVE MigratorInv'
    <2> DEFINE rest == D!ToUndo(executed_steps)
    <2>1. /\ migrate[k].at = "migrating" /\ D!Rolling(k, rest)
          /\ UNCHANGED <<executed_steps, inDb, stop_on_rollback_error, blocked>>
      BY <1>3, Zenon DEF D!StepFails
    <2>2. /\ rest \in Seq(D!Steps) /\ Members(rest) = Members(executed_steps) \cap ReversibleSteps
          /\ Distinct(executed_steps) => Distinct(rest) BY <1>0, OnlyReversible DEF MigratorTypes
    <2> HIDE DEF rest
    <2>3. ASSUME Alone(k)
          PROVE  /\ Distinct(rest) /\ Members(rest) \subseteq ReversibleSteps
                 /\ \A t \in Members(rest) : inDb'[t] = 1
                 /\ \A t \in ReversibleSteps \ Members(rest) : inDb'[t] = 0 \/ t \in blocked'
      <3> DEFINE s == migrate[k].step
      <3>1. /\ Len(executed_steps) = s - 1 /\ \A i \in 1..Len(executed_steps) : executed_steps[i] = i
            /\ \A t \in D!Steps : inDb[t] = IF t < s THEN 1 ELSE 0
        BY <2>1, <2>3 DEF MigratorInv, Explains, Migrating
      <3>2. s \in D!Steps BY <1>0, <2>1 DEF MigratorTypes
      <3> HIDE DEF s
      <3>3. Distinct(executed_steps) BY <3>1 DEF Distinct
      <3>4. \A t \in D!Steps : t \in Members(executed_steps) <=> t < s BY <3>1, <3>2, StepsAre DEF Members
      <3> QED BY <2>1, <2>2, <3>1, <3>3, <3>4, StepsAre
    <2>4. inDb' \in [D!Steps -> Int] /\ blocked' \subseteq D!Steps BY <1>0, <2>1 DEF MigratorTypes
    <2> QED BY <2>1, <2>2, <2>3, <2>4, ACallRolls
  <1>4. ASSUME NEW k \in CacheCalls, D!RolledBack(k) PROVE MigratorInv'
    <2> DEFINE h == Head(undone[k])
               rest == Tail(undone[k])
    <2>1. /\ migrate[k].at = "rolling" /\ D!Rolling(k, rest) /\ inDb' = [inDb EXCEPT ![h] = @ - 1]
          /\ UNCHANGED <<executed_steps, stop_on_rollback_error, blocked>> BY <1>4, Zenon DEF D!RolledBack
    <2>2. undone[k] \in Seq(D!Steps) /\ undone[k] # <<>> BY <1>0, <2>1 DEF MigratorTypes
    <2>3. /\ h \in D!Steps /\ rest \in Seq(D!Steps) /\ h \in Members(undone[k])
          /\ Members(undone[k]) = Members(rest) \cup {h}
          /\ Distinct(undone[k]) => Distinct(rest) /\ h \notin Members(rest) BY <2>2, QueueShrinks
    <2> HIDE DEF h, rest
    <2>4. /\ inDb' \in [D!Steps -> Int] /\ inDb'[h] = inDb[h] - 1 /\ blocked' \subseteq D!Steps
          /\ \A t \in D!Steps \ {h} : inDb'[t] = inDb[t] BY <1>0, <2>1, <2>3 DEF MigratorTypes
    <2>5. ASSUME Alone(k)
          PROVE  /\ Distinct(rest) /\ Members(rest) \subseteq ReversibleSteps
                 /\ \A t \in Members(rest) : inDb'[t] = 1
                 /\ \A t \in ReversibleSteps \ Members(rest) : inDb'[t] = 0 \/ t \in blocked'
      <3>1. /\ Distinct(undone[k]) /\ Members(undone[k]) \subseteq ReversibleSteps
            /\ \A t \in Members(undone[k]) : inDb[t] = 1
            /\ \A t \in ReversibleSteps \ Members(undone[k]) : inDb[t] = 0 \/ t \in blocked
        BY <2>1, <2>5 DEF MigratorInv, Explains, RollingBack
      <3>2. inDb'[h] = 0 BY <2>3, <2>4, <3>1
      <3>3. \A t \in ReversibleSteps : t # h => inDb'[t] = inDb[t] BY <2>4, StepsAre
      <3> QED BY <2>1, <2>3, <3>1, <3>2, <3>3
    <2> QED BY <2>1, <2>3, <2>4, <2>5, ACallRolls
  <1>5. ASSUME NEW k \in CacheCalls, D!RollbackFails(k) PROVE MigratorInv'
    <2> DEFINE h == Head(undone[k])
               tail == Tail(undone[k])
               rest == IF stop_on_rollback_error THEN <<>> ELSE tail
    <2>1. /\ migrate[k].at = "rolling" /\ D!Rolling(k, rest) /\ blocked' = blocked \cup {h}
          /\ UNCHANGED <<executed_steps, inDb, stop_on_rollback_error>> BY <1>5, Zenon DEF D!RollbackFails
    <2>2. undone[k] \in Seq(D!Steps) /\ undone[k] # <<>> /\ stop_on_rollback_error \in BOOLEAN
      BY <1>0, <2>1 DEF MigratorTypes
    <2>3. /\ h \in D!Steps /\ tail \in Seq(D!Steps) /\ h \in Members(undone[k])
          /\ Members(undone[k]) = Members(tail) \cup {h}
          /\ Distinct(undone[k]) => Distinct(tail) /\ h \notin Members(tail) BY <2>2, QueueShrinks
    <2> HIDE DEF h, tail
    <2>4. inDb' \in [D!Steps -> Int] /\ blocked' \subseteq D!Steps /\ h \in blocked'
      BY <1>0, <2>1, <2>3 DEF MigratorTypes
    <2>5. CASE stop_on_rollback_error
      <3>1. rest = <<>> /\ stop_on_rollback_error = TRUE /\ blocked' # {} BY <2>2, <2>4, <2>5
      <3>2. rest \in Seq(D!Steps) BY <3>1
      <3> HIDE DEF rest
      <3> QED BY <2>1, <2>4, <3>1, <3>2, ACallRolls
    <2>6. CASE ~stop_on_rollback_error
      <3>1. D!Rolling(k, tail)
        <4>1. rest = tail BY <2>6
        <4> QED BY <2>1, <4>1, Zenon
      <3> HIDE DEF rest
      <3>2. ASSUME Alone(k)
            PROVE  /\ Distinct(tail) /\ Members(tail) \subseteq ReversibleSteps
                   /\ \A t \in Members(tail) : inDb'[t] = 1
                   /\ \A t \in ReversibleSteps \ Members(tail) : inDb'[t] = 0 \/ t \in blocked'
        <4>1. /\ Distinct(undone[k]) /\ Members(undone[k]) \subseteq ReversibleSteps
              /\ \A t \in Members(undone[k]) : inDb[t] = 1
              /\ \A t \in ReversibleSteps \ Members(undone[k]) : inDb[t] = 0 \/ t \in blocked
          BY <2>1, <3>2 DEF MigratorInv, Explains, RollingBack
        <4> QED BY <2>1, <2>3, <4>1
      <3> QED BY <2>1, <2>3, <2>4, <3>1, <3>2, ACallRolls
    <2> QED BY <2>5, <2>6
  <1>6. CASE UNCHANGED D!migrator_vars
    <2>1. UNCHANGED <<executed_steps, migrate, undone, inDb, stop_on_rollback_error, blocked>>
      BY <1>6 DEF D!migrator_vars
    <2>2. MigratorTypes' /\ (AllIdle' <=> AllIdle) /\ (Untouched' <=> Untouched)
      BY <1>0, <2>1 DEF MigratorTypes, AllIdle, Untouched
    <2>3. \A k \in CacheCalls : (Alone(k)' <=> Alone(k)) /\ (Explains(k)' <=> Explains(k))
      BY <2>1 DEF Alone, Explains, Migrating, RollingBack
    <2> QED BY <2>1, <2>2, <2>3 DEF MigratorInv
  <1> QED BY <1>1, <1>2, <1>3, <1>4, <1>5, <1>6, Zenon DEF D!MigratorNext

LEMMA MigratorImplies == MigratorInv => D!MigratorTypeOK /\ D!FailureLeavesNothing
  <1> SUFFICES ASSUME MigratorInv PROVE D!MigratorTypeOK /\ D!FailureLeavesNothing OBVIOUS
  <1>0. MigratorTypes BY DEF MigratorInv
  <1>1. D!MigratorTypeOK BY <1>0 DEF MigratorTypes, MigrateCall, D!MigratorTypeOK, D!Phases
  <1>2. ASSUME D!Cardinality(D!Started) = 1, NEW k \in D!Started
        PROVE  /\ migrate[k].at = "migrated" => \A s \in D!Steps : inDb[s] = 1
               /\ migrate[k].at = "failed" => \A s \in ReversibleSteps :
                    inDb[s] = 0 \/ s \in blocked \/ (stop_on_rollback_error /\ blocked # {})
    <2>1. D!Started \in SUBSET CacheCalls /\ k \in CacheCalls /\ migrate[k].at # "idle" BY DEF D!Started
    <2>2. Cardinality(D!Started) = 1 /\ IsFiniteSet(D!Started)
      BY <1>2, <2>1, CountsAlike, CountsOf, LimitsAssumption
    <2>3. \A j \in D!Started : j = k
      <3>1. PICK x : D!Started = {x} BY <2>2, FS_Singleton
      <3> QED BY <3>1
    <2>4. Alone(k) BY <2>3 DEF Alone, D!Started
    <2>5. Explains(k) BY <2>1, <2>4 DEF MigratorInv
    <2> QED BY <2>5 DEF Explains
  <1>3. D!FailureLeavesNothing BY <1>2, Zenon DEF D!FailureLeavesNothing
  <1> QED BY <1>1, <1>3

-----------------------------------------------------------------------------
(***************************************************************************)
(* The components together: a step is one of one component, and leaves the *)
(* others where they were.                                                 *)
(***************************************************************************)
LEMMA InitOfEach ==
  Init =>
    /\ C!Init /\ O!Init /\ R!Init /\ S!Init
    /\ D!SeederInit /\ L!FlowInit /\ L!HandlerInit /\ L!WatchdogInit
    /\ E!ManagerInit /\ E!TrackerInit /\ M!MonitorInit /\ M!CheckerInit
    /\ D!WrapperInit /\ D!MigratorInit /\ E!RetryInit /\ V!ManagerInit
    /\ V!StoreInit /\ V!QueueInit /\ V!TrackerInit /\ V!StepsInit BY DEF Init

LEMMA Begins == Init => IInv
  <1> SUFFICES ASSUME Init PROVE IInv OBVIOUS
  <1> QED BY InitOfEach,
     CacheStarts, OfflineStarts, RouterStarts, StateStarts, SeederStarts, FlowStarts,
     HandlerStarts, WatchdogStarts, ManagerStarts, TrackerStarts, MonitorStarts, CheckerStarts,
     WrapperStarts, MigratorStarts, RetryStarts, VersionStarts, StoreStarts, QueueStarts,
     FlagStarts, RecordStarts DEF IInv

(* A step of the platform is one of each component, or leaves it alone.    *)
LEMMA StepOfEach ==
  ASSUME [Next]_vars
  PROVE  /\ (C!Next \/ UNCHANGED cached_vars)
        /\ (O!Next \/ UNCHANGED offline_vars)
        /\ (R!Next \/ UNCHANGED routed_vars)
        /\ (S!Next \/ UNCHANGED states_vars)
        /\ (D!SeederNext \/ UNCHANGED seeds_vars)
        /\ (L!FlowNext \/ UNCHANGED flows_vars)
        /\ (L!HandlerNext \/ UNCHANGED timed_vars)
        /\ (L!WatchdogNext \/ UNCHANGED watchdog_vars)
        /\ (E!ManagerNext \/ UNCHANGED reconnects_vars)
        /\ (E!TrackerNext \/ UNCHANGED tracked_vars)
        /\ (M!MonitorNext \/ UNCHANGED monitored_vars)
        /\ (M!CheckerNext \/ UNCHANGED checked_vars)
        /\ (D!WrapperNext \/ UNCHANGED wrapped_vars)
        /\ (D!MigratorNext \/ UNCHANGED migrated_vars)
        /\ (E!RetryNext \/ UNCHANGED retried_vars)
        /\ (V!ManagerNext \/ UNCHANGED versions_vars)
        /\ (V!StoreNext \/ UNCHANGED stored_vars)
        /\ (V!QueueNext \/ UNCHANGED pending_vars)
        /\ (V!TrackerNext \/ UNCHANGED flagged_vars)
        /\ (V!StepsNext \/ UNCHANGED steps_vars)
  <1> USE DEF Next, vars,
         CachedStep, OfflineStep, RoutedStep, StatesStep, SeedsStep, FlowsStep, TimedStep,
         WatchdogStep, ReconnectsStep, TrackedStep, MonitoredStep, CheckedStep, WrappedStep,
         MigratedStep, RetriedStep, VersionsStep, StoredStep, PendingStep, FlaggedStep,
         StepsStep
  <1>1. C!Next \/ UNCHANGED cached_vars BY Zenon
  <1>2. O!Next \/ UNCHANGED offline_vars BY Zenon
  <1>3. R!Next \/ UNCHANGED routed_vars BY Zenon
  <1>4. S!Next \/ UNCHANGED states_vars BY Zenon
  <1>5. D!SeederNext \/ UNCHANGED seeds_vars BY Zenon
  <1>6. L!FlowNext \/ UNCHANGED flows_vars BY Zenon
  <1>7. L!HandlerNext \/ UNCHANGED timed_vars BY Zenon
  <1>8. L!WatchdogNext \/ UNCHANGED watchdog_vars BY Zenon
  <1>9. E!ManagerNext \/ UNCHANGED reconnects_vars BY Zenon
  <1>10. E!TrackerNext \/ UNCHANGED tracked_vars BY Zenon
  <1>11. M!MonitorNext \/ UNCHANGED monitored_vars BY Zenon
  <1>12. M!CheckerNext \/ UNCHANGED checked_vars BY Zenon
  <1>13. D!WrapperNext \/ UNCHANGED wrapped_vars BY Zenon
  <1>14. D!MigratorNext \/ UNCHANGED migrated_vars BY Zenon
  <1>15. E!RetryNext \/ UNCHANGED retried_vars BY Zenon
  <1>16. V!ManagerNext \/ UNCHANGED versions_vars BY Zenon
  <1>17. V!StoreNext \/ UNCHANGED stored_vars BY Zenon
  <1>18. V!QueueNext \/ UNCHANGED pending_vars BY Zenon
  <1>19. V!TrackerNext \/ UNCHANGED flagged_vars BY Zenon
  <1>20. V!StepsNext \/ UNCHANGED steps_vars BY Zenon
  <1> QED BY <1>1, <1>2, <1>3, <1>4, <1>5, <1>6, <1>7, <1>8, <1>9, <1>10, <1>11, <1>12, <1>13, <1>14, <1>15, <1>16, <1>17, <1>18, <1>19, <1>20

LEMMA Steps ==
  [Next]_vars =>
    /\ [C!Next]_(C!vars) /\ [O!Next]_(O!vars)
    /\ [R!Next]_(R!vars) /\ [S!Next]_(S!vars)
    /\ [D!SeederNext]_(D!seeder_vars) /\ [L!FlowNext]_(L!flow_vars)
    /\ [L!HandlerNext]_(L!handler_vars) /\ [L!WatchdogNext]_(L!watchdog_vars)
    /\ [E!ManagerNext]_(E!manager_vars) /\ [E!TrackerNext]_(E!tracker_vars)
    /\ [M!MonitorNext]_(M!monitor_vars) /\ [M!CheckerNext]_(M!checker_vars)
    /\ [D!WrapperNext]_(D!wrapper_vars) /\ [D!MigratorNext]_(D!migrator_vars)
    /\ [E!RetryNext]_(E!retry_vars) /\ [V!ManagerNext]_(V!manager_vars)
    /\ [V!StoreNext]_(V!store_vars) /\ [V!QueueNext]_(V!queue_vars)
    /\ [V!TrackerNext]_(V!tracker_vars) /\ [V!StepsNext]_(V!steps_vars)
  <1>1. UNCHANGED cached_vars => UNCHANGED C!vars BY DEF cached_vars, C!vars
  <1>2. UNCHANGED offline_vars => UNCHANGED O!vars BY DEF offline_vars, O!vars
  <1>3. UNCHANGED routed_vars => UNCHANGED R!vars BY DEF routed_vars, R!vars
  <1>4. UNCHANGED states_vars => UNCHANGED S!vars BY DEF states_vars, S!vars
  <1>5. UNCHANGED seeds_vars => UNCHANGED D!seeder_vars BY DEF seeds_vars, D!seeder_vars
  <1>6. UNCHANGED flows_vars => UNCHANGED L!flow_vars BY DEF flows_vars, L!flow_vars
  <1>7. UNCHANGED timed_vars => UNCHANGED L!handler_vars BY DEF timed_vars, L!handler_vars
  <1>8. UNCHANGED watchdog_vars => UNCHANGED L!watchdog_vars BY DEF watchdog_vars, L!watchdog_vars
  <1>9. UNCHANGED reconnects_vars => UNCHANGED E!manager_vars BY DEF reconnects_vars, E!manager_vars
  <1>10. UNCHANGED tracked_vars => UNCHANGED E!tracker_vars BY DEF tracked_vars, E!tracker_vars
  <1>11. UNCHANGED monitored_vars => UNCHANGED M!monitor_vars BY DEF monitored_vars, M!monitor_vars
  <1>12. UNCHANGED checked_vars => UNCHANGED M!checker_vars BY DEF checked_vars, M!checker_vars
  <1>13. UNCHANGED wrapped_vars => UNCHANGED D!wrapper_vars BY DEF wrapped_vars, D!wrapper_vars
  <1>14. UNCHANGED migrated_vars => UNCHANGED D!migrator_vars BY DEF migrated_vars, D!migrator_vars
  <1>15. UNCHANGED retried_vars => UNCHANGED E!retry_vars BY DEF retried_vars, E!retry_vars
  <1>16. UNCHANGED versions_vars => UNCHANGED V!manager_vars BY DEF versions_vars, V!manager_vars
  <1>17. UNCHANGED stored_vars => UNCHANGED V!store_vars BY DEF stored_vars, V!store_vars
  <1>18. UNCHANGED pending_vars => UNCHANGED V!queue_vars BY DEF pending_vars, V!queue_vars
  <1>19. UNCHANGED flagged_vars => UNCHANGED V!tracker_vars BY DEF flagged_vars, V!tracker_vars
  <1>20. UNCHANGED steps_vars => UNCHANGED V!steps_vars BY DEF steps_vars, V!steps_vars
  <1> QED BY StepOfEach,
       <1>1, <1>2, <1>3, <1>4, <1>5, <1>6, <1>7, <1>8, <1>9, <1>10, <1>11, <1>12, <1>13, <1>14,
       <1>15, <1>16, <1>17, <1>18, <1>19, <1>20

LEMMA Keep == IInv /\ [Next]_vars => IInv'
  <1> SUFFICES ASSUME IInv, [Next]_vars PROVE IInv' OBVIOUS
  <1>1. CacheInv' BY Steps, CacheKeeps, Zenon DEF IInv
  <1>2. OfflineInv' BY Steps, OfflineKeeps, Zenon DEF IInv
  <1>3. RouterInv' BY Steps, RouterKeeps, Zenon DEF IInv
  <1>4. StateInv' BY Steps, StateKeeps, Zenon DEF IInv
  <1>5. SeederInv' BY Steps, SeederKeeps, Zenon DEF IInv
  <1>6. FlowInv' BY Steps, FlowKeeps, Zenon DEF IInv
  <1>7. HandlerInv' BY Steps, HandlerKeeps, Zenon DEF IInv
  <1>8. WatchdogInv' BY Steps, WatchdogKeeps, Zenon DEF IInv
  <1>9. ManagerInv' BY Steps, ManagerKeeps, Zenon DEF IInv
  <1>10. TrackerInv' BY Steps, TrackerKeeps, Zenon DEF IInv
  <1>11. MonitorInv' BY Steps, MonitorKeeps, Zenon DEF IInv
  <1>12. CheckerInv' BY Steps, CheckerKeeps, Zenon DEF IInv
  <1>13. WrapperInv' BY Steps, WrapperKeeps, Zenon DEF IInv
  <1>14. MigratorInv' BY Steps, MigratorKeeps, Zenon DEF IInv
  <1>15. RetryInv' BY Steps, RetryKeeps, Zenon DEF IInv
  <1>16. VersionInv' BY Steps, VersionKeeps, Zenon DEF IInv
  <1>17. StoreInv' BY Steps, StoreKeeps, Zenon DEF IInv
  <1>18. QueueInv' BY Steps, QueueKeeps, Zenon DEF IInv
  <1>19. FlagInv' BY Steps, FlagKeeps, Zenon DEF IInv
  <1>20. RecordInv' BY Steps, RecordKeeps, Zenon DEF IInv
  <1> QED
    BY <1>1, <1>2, <1>3, <1>4, <1>5, <1>6, <1>7, <1>8, <1>9, <1>10, <1>11, <1>12, <1>13, <1>14, <1>15, <1>16, <1>17, <1>18, <1>19, <1>20, Zenon DEF IInv

LEMMA Always == Spec => []IInv BY Begins, Keep, PTL DEF Spec

(* Every behaviour of the platform is one of each of its machines.         *)
THEOREM EachIsItself ==
  Spec => /\ C!Spec /\ O!Spec /\ R!Spec /\ S!Spec /\ D!WrapperSpec
          /\ D!SeederSpec /\ D!MigratorSpec /\ L!FlowSpec /\ L!HandlerSpec /\ L!WatchdogSpec
          /\ E!ManagerSpec /\ E!TrackerSpec /\ E!RetrySpec /\ M!MonitorSpec /\ M!CheckerSpec
          /\ V!ManagerSpec /\ V!StoreSpec /\ V!QueueSpec /\ V!TrackerSpec /\ V!StepsSpec
  BY InitOfEach, Steps, PTL DEF Spec, C!Spec, O!Spec, R!Spec, S!Spec, D!WrapperSpec, D!SeederSpec,
      D!MigratorSpec, L!FlowSpec, L!HandlerSpec, L!WatchdogSpec, E!ManagerSpec, E!TrackerSpec,
      E!RetrySpec, M!MonitorSpec, M!CheckerSpec, V!ManagerSpec, V!StoreSpec, V!QueueSpec,
      V!TrackerSpec, V!StepsSpec

(* offline_manager.js: a request stays in the queue and in the storage     *)
(* until the queue is cleared, and who is reconnecting has a chain of      *)
(* pings; data_seeder.js: what a failed seed wrote is undone.              *)
THEOREM RequestsKept == Spec => []RequestsAreKept
  <1>1. IInv => RequestsAreKept BY OfflineImplies, SeederImplies DEF IInv, RequestsAreKept
  <1> QED BY <1>1, Always, PTL

(* router.js, state_manager.js: each navigation is counted once and each   *)
(* entry of the history is a hit or a navigation; the state is what the    *)
(* history and what was dropped from it explain.                           *)
THEOREM NavigationExplained == Spec => []NavigationExplainsState
  <1>1. IInv => NavigationExplainsState BY RouterImplies, StateImplies DEF IInv, NavigationExplainsState
  <1> QED BY <1>1, Always, PTL

(* lesson_orchestrator.js, timeout_handler.js, timeout_watchdog.js: the    *)
(* places of a limit are used and given back, and a watch ends.            *)
THEOREM PlacesKept == Spec => []PlacesAreKept
  <1>1. IInv => PlacesAreKept BY FlowImplies, HandlerImplies, WatchdogImplies DEF IInv, PlacesAreKept
  <1> QED BY <1>1, Always, PTL

(* reconnect.js, reconnect_tracker.js, health_monitor.js,                  *)
(* health_checker.js: a stop ends the wait of a loop that is alone, a      *)
(* cancelled loop tries no more, a connection with a reconnect is given up *)
(* for reconnects that were begun or wait, checks are accounted for.       *)
THEOREM ConnectionsTended == Spec => []ConnectionsAreTended
  <1>1. IInv => ConnectionsAreTended
    BY ManagerImplies, TrackerImplies, MonitorImplies, CheckerImplies DEF IInv, ConnectionsAreTended
  <1> QED BY <1>1, Always, PTL

(* cache_strategy.js, indexeddb_wrapper.js, migration_store.js: what is    *)
(* counted is what is cached, and what is held in memory is what is        *)
(* stored.                                                                 *)
THEOREM CachesAccounted == Spec => []CachesAreAccounted
  <1>1. IInv => CachesAreAccounted
    BY CacheImplies, WrapperImplies, StoreImplies DEF IInv, CachesAreAccounted
  <1> QED BY <1>1, Always, PTL

(* db_migrator.js and core/db/migration: what the version, the history and *)
(* the flags say happened to the database happened; rows passed are kept.  *)
THEOREM MigrationsAccounted == Spec => []MigrationsAreAccounted
  <1>1. IInv => MigrationsAreAccounted
    BY MigratorImplies, VersionImplies, QueueImplies, FlagImplies, RecordImplies, RetryImplies
       DEF IInv, MigrationsAreAccounted
  <1> QED BY <1>1, Always, PTL

(* The variables of all the platform's files keep their types.             *)
THEOREM TypesKept == Spec => []TypeOK
  <1> SUFFICES IInv => TypeOK BY Always, PTL
  <1> SUFFICES ASSUME IInv PROVE TypeOK OBVIOUS
  <1>1. C!TypeOK /\ O!TypeOK /\ R!TypeOK /\ S!TypeOK
    BY CacheImplies, OfflineImplies, RouterImplies, StateImplies DEF IInv
  <1>2. D!TypeOK BY WrapperImplies, SeederImplies, MigratorImplies DEF IInv, D!TypeOK
  <1>3. L!TypeOK BY FlowImplies, HandlerImplies, WatchdogImplies DEF IInv, L!TypeOK
  <1>4. E!TypeOK BY ManagerImplies, TrackerImplies, RetryImplies DEF IInv, E!TypeOK
  <1>5. M!TypeOK BY MonitorImplies, CheckerImplies DEF IInv, M!TypeOK
  <1>6. V!TypeOK
    BY VersionImplies, StoreImplies, QueueImplies, FlagImplies, RecordImplies DEF IInv, V!TypeOK
  <1> QED BY <1>1, <1>2, <1>3, <1>4, <1>5, <1>6 DEF TypeOK
=============================================================================
