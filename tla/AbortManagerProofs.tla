------------------------ MODULE AbortManagerProofs --------------------------
(***************************************************************************)
(* Theorems about AbortManager for every set of ids and tags, every         *)
(* capacity and every depth of calls.  `onAbort` may do anything MayCall    *)
(* allows; the theorems on the registry assume that it does not dispose of  *)
(* the manager, without which they are false (see README.md).              *)
(***************************************************************************)
EXTENDS AbortManager, SequenceTheorems, FiniteSetTheorems, TLAPS

USE NumbersAssumption, NullsAssumption, IdsAssumption

LEMMA FunctionIsSeq ==
  ASSUME NEW S, NEW n \in Nat, NEW f \in [1..n -> S]
  PROVE  f \in Seq(S) /\ Len(f) = n
  <1>1. f \in Seq(S) BY SeqDef
  <1>2. Len(f) \in Nat /\ DOMAIN f = 1..Len(f) BY <1>1, LenProperties
  <1> QED BY <1>1, <1>2

(* The stack without its top frame. *)
LEMMA CallerFacts ==
  ASSUME stack \in Seq(Frame), stack # <<>>
  PROVE  /\ Len(stack) \in Nat \ {0}
         /\ Top \in Frame
         /\ Caller \in Seq(Frame)
         /\ Len(Caller) = Len(stack) - 1
         /\ \A i \in 1..Len(stack) - 1 : Caller[i] = stack[i]
  <1>1. Len(stack) \in Nat \ {0} BY EmptySeq
  <1>2. \A i \in 1..Len(stack) - 1 : stack[i] \in Frame BY <1>1, ElementOfSeq
  <1>3. /\ SubSeq(stack, 1, Len(stack) - 1) \in Seq(Frame)
        /\ Len(SubSeq(stack, 1, Len(stack) - 1)) =
             IF 1 <= Len(stack) - 1 THEN Len(stack) - 1 - 1 + 1 ELSE 0
        /\ \A i \in 1..Len(stack) - 1 - 1 + 1 :
             SubSeq(stack, 1, Len(stack) - 1)[i] = stack[1 + i - 1] BY <1>1, <1>2, SubSeqProperties
  <1>4. Top \in Frame BY <1>1, ElementOfSeq DEF Top
  <1>5. Caller \in Seq(Frame) BY <1>3 DEF Caller
  <1>6. Len(Caller) = Len(stack) - 1
    <2> DEFINE n == Len(stack) - 1
               L == Len(SubSeq(stack, 1, n))
    <2>1. n \in Nat /\ L = IF 1 <= n THEN n - 1 + 1 ELSE 0 BY <1>1, <1>3
    <2> HIDE DEF L, n
    <2>2. CASE 1 <= n
      <3>1. L = n - 1 + 1 BY <2>1, <2>2
      <3>2. L = n BY <3>1, <2>1
      <3> QED BY <3>2 DEF Caller, L, n
    <2>3. CASE ~ (1 <= n)
      <3>1. L = 0 /\ n = 0 BY <2>1, <2>3
      <3> QED BY <3>1 DEF Caller, L, n
    <2> QED BY <2>2, <2>3
  <1>7. \A i \in 1..Len(stack) - 1 : Caller[i] = stack[i]
    <2> DEFINE n == Len(stack) - 1
    <2> SUFFICES ASSUME NEW i \in 1..n
                 PROVE  SubSeq(stack, 1, n)[i] = stack[i] BY DEF Caller
    <2>1. n \in Nat /\ i \in 1..n - 1 + 1 /\ 1 + i - 1 = i BY <1>1
    <2> QED BY <2>1, <1>3
  <1>8. QED BY <1>1, <1>4, <1>5, <1>6, <1>7

(* The frames of a call stack after a loop's bookkeeping: same length, same *)
(* aborts and disposals in progress.                                       *)
SameFrame(f, g) ==
  f.op \in {"handle", "dispose"} \/ g.op \in {"handle", "dispose"} => f = g

SameCalls(calls, before) ==
  /\ Len(calls) = Len(before)
  /\ \A i \in 1..Len(before) : SameFrame(calls[i], before[i])

LEMMA ForgetInLoopsFacts ==
  ASSUME NEW calls \in Seq(Frame), NEW id, NEW tag,
         tagIndex \in [Tags -> SUBSET Ids]
  PROVE  /\ ForgetInLoops(calls, id, tag) \in Seq(Frame)
         /\ SameCalls(ForgetInLoops(calls, id, tag), calls)
  <1> DEFINE new == ForgetInLoops(calls, id, tag)
  <1>1. Len(calls) \in Nat /\ DOMAIN calls = 1..Len(calls) BY LenProperties
  <1>2. ASSUME NEW i \in 1..Len(calls)
        PROVE  /\ new[i] \in Frame
               /\ SameFrame(new[i], calls[i])
    <2>1. calls[i] \in Frame BY <1>1
    <2> QED BY <1>1, <2>1 DEF ForgetInLoops, Frame, SameFrame
  <1>3. new \in [1..Len(calls) -> Frame] BY <1>1, <1>2 DEF ForgetInLoops
  <1>4. new \in Seq(Frame) /\ Len(new) = Len(calls) BY <1>1, <1>3, FunctionIsSeq
  <1> QED BY <1>2, <1>4 DEF SameCalls

LEMMA DetachLoopsFacts ==
  ASSUME NEW calls \in Seq(Frame), tagIndex \in [Tags -> SUBSET Ids]
  PROVE  /\ DetachLoops(calls) \in Seq(Frame)
         /\ SameCalls(DetachLoops(calls), calls)
  <1> DEFINE new == DetachLoops(calls)
  <1>1. Len(calls) \in Nat /\ DOMAIN calls = 1..Len(calls) BY LenProperties
  <1>2. ASSUME NEW i \in 1..Len(calls)
        PROVE  /\ new[i] \in Frame
               /\ SameFrame(new[i], calls[i])
    <2>1. calls[i] \in Frame BY <1>1
    <2> QED BY <1>1, <2>1 DEF DetachLoops, Frame, SameFrame
  <1>3. new \in [1..Len(calls) -> Frame] BY <1>1, <1>2 DEF DetachLoops
  <1>4. new \in Seq(Frame) /\ Len(new) = Len(calls) BY <1>1, <1>3, FunctionIsSeq
  <1> QED BY <1>2, <1>4 DEF SameCalls
-----------------------------------------------------------------------------
HistoryRecord == [id : Ids, gen : Nat, reason : Reasons, at : Nat]

LEMMA RecordedType ==
  ASSUME NEW record \in HistoryRecord, abortHistory \in Seq(HistoryRecord)
  PROVE  Recorded(<<record>> \o abortHistory) \in Seq(HistoryRecord)
  <1> DEFINE longer == <<record>> \o abortHistory
  <1>1. longer \in Seq(HistoryRecord)
    <2>1. <<record>> \in Seq(HistoryRecord) OBVIOUS
    <2> QED BY <2>1, ConcatProperties
  <1> HIDE DEF longer
  <1>2. Len(longer) \in Nat /\ \A i \in 1..Len(longer) : longer[i] \in HistoryRecord
    BY <1>1, LenProperties, ElementOfSeq
  <1>3. SubSeq(longer, 1, Len(longer) - 1) \in Seq(HistoryRecord) BY <1>2, SubSeqProperties
  <1>4. QED BY <1>1, <1>3 DEF Recorded, longer

(* What a call of controller.abort can do to the state. *)
LEMMA StartAbortType ==
  ASSUME TypeOK, NEW id \in Ids, NEW reason \in Reasons,
         NEW calls \in Seq(Frame), StartAbort(id, reason, calls)
  PROVE  /\ signalled' \in SUBSET Nat
         /\ abortedCount' \in Nat
         /\ abortHistory' \in Seq(HistoryRecord)
         /\ stack' \in Seq(Frame)
  <1>1. CASE Registered(id) /\ controllers[id].gen \notin signalled
    <2> DEFINE entry == controllers[id]
               frame == [op |-> "handle", id |-> id, entry |-> entry,
                         tag |-> NoTag, ids |-> {}, reason |-> reason]
               record == [id |-> id, gen |-> entry.gen, reason |-> reason, at |-> now]
    <2>1. entry \in Entry BY <1>1 DEF TypeOK, Registered
    <2>2. entry.gen \in Nat BY <2>1 DEF Entry
    <2>3. frame \in Frame BY <2>1 DEF Frame
    <2>4. record \in HistoryRecord BY <2>2 DEF HistoryRecord, TypeOK
    <2>5. /\ signalled' = signalled \cup {entry.gen}
          /\ abortedCount' = abortedCount + 1
          /\ abortHistory' = Recorded(<<record>> \o abortHistory)
          /\ stack' = Append(calls, frame) BY <1>1 DEF StartAbort
    <2>6. abortHistory' \in Seq(HistoryRecord) BY <2>4, <2>5, RecordedType DEF TypeOK, HistoryRecord
    <2>7. stack' \in Seq(Frame) BY <2>3, <2>5
    <2>8. signalled' \in SUBSET Nat BY <2>2, <2>5 DEF TypeOK
    <2>9. abortedCount' \in Nat BY <2>5 DEF TypeOK
    <2> QED BY <2>6, <2>7, <2>8, <2>9
  <1>2. CASE ~ (Registered(id) /\ controllers[id].gen \notin signalled)
    BY <1>2 DEF StartAbort, TypeOK, aborts, HistoryRecord
  <1> QED BY <1>1, <1>2

(* Each loop frame is a frame. *)
LEMMA LoopFrameType ==
  ASSUME NEW op \in {"batch", "tag", "stale", "dispose"}, NEW tag \in Tags \cup {NoTag},
         NEW ids \in SUBSET Ids, NEW reason \in Reasons, op = "tag" => tag \in Tags
  PROVE  LoopFrame(op, tag, ids, reason) \in Frame BY DEF LoopFrame, Frame

LEMMA TypeInit == Init => TypeOK
  <1> SUFFICES ASSUME Init PROVE TypeOK OBVIOUS
  <1>1. abortHistory \in Seq(HistoryRecord) /\ stack \in Seq(Frame) BY EmptySeq DEF Init
  <1> QED BY <1>1 DEF Init, TypeOK, HistoryRecord, Timer

LEMMA TypeNext == TypeOK /\ [Next]_vars => TypeOK'
  <1> SUFFICES ASSUME TypeOK, [Next]_vars PROVE TypeOK' OBVIOUS
  <1> USE DEF registry, aborts
  <1>1. ASSUME NEW id \in Ids, NEW gen \in Nat, NEW after \in Nat,
               NEW reason \in Reasons, AddTimer(id, gen, after, reason)
        PROVE  timers' \in SUBSET Timer BY <1>1 DEF AddTimer, Timer, TypeOK
  <1>2. ASSUME NEW id \in Ids, NEW tag \in Tags \cup {NoTag},
               NEW timeout \in Timeouts, NEW onAbort \in BOOLEAN,
               CreateSignal(id, tag, timeout, onAbort)
        PROVE  TypeOK'
    <2>1. timers' \in SUBSET Timer BY <1>1, <1>2 DEF CreateSignal, TypeOK, Reasons
    <2>2. controllers' \in [Ids -> Entry \cup {NoEntry}] BY <1>2 DEF CreateSignal, TypeOK, Entry
    <2>3. tagIndex' \in [Tags -> SUBSET Ids] BY <1>2 DEF CreateSignal, IndexTag, TypeOK
    <2> QED BY <1>2, <2>1, <2>2, <2>3 DEF CreateSignal, TypeOK
  <1>3. ASSUME NEW id \in Ids, NEW reason \in Reasons, NEW calls \in Seq(Frame),
               StartAbort(id, reason, calls),
               UNCHANGED <<registry, nextGen, now>>, timers' \in SUBSET Timer
        PROVE  TypeOK' BY <1>3, StartAbortType DEF TypeOK, HistoryRecord
  <1>4. ASSUME NEW frame \in Frame, stack' = Push(frame),
               UNCHANGED <<registry, aborts, timers, nextGen, now>>
        PROVE  TypeOK' BY <1>4 DEF Push, TypeOK
  <1>5. ASSUME NEW id \in Ids, Abort(id)
        PROVE  TypeOK' BY <1>3, <1>5 DEF Abort, TypeOK, Reasons
  <1>6. ASSUME NEW ids \in SUBSET Ids, AbortByPattern(ids)
        PROVE  TypeOK'
    <2>1. LoopFrame("batch", NoTag, ids, "pattern-abort") \in Frame BY LoopFrameType DEF Reasons
    <2> QED BY <1>4, <1>6, <2>1 DEF AbortByPattern
  <1>7. CASE AbortAll
    <2>1. LoopFrame("batch", NoTag, Live, "global-abort") \in Frame
      BY LoopFrameType DEF Reasons, Live
    <2> QED BY <1>4, <1>7, <2>1 DEF AbortAll
  <1>8. ASSUME NEW tag \in Tags, AbortByTag(tag)
        PROVE  TypeOK'
    <2>1. LoopFrame("tag", tag, {}, "tag-abort") \in Frame BY LoopFrameType DEF Reasons
    <2> QED BY <1>4, <1>8, <2>1 DEF AbortByTag
  <1>9. CASE CleanupStaleControllers
    <2>1. LoopFrame("stale", NoTag, {}, "stale") \in Frame BY LoopFrameType DEF Reasons
    <2> QED BY <1>4, <1>9, <2>1 DEF CleanupStaleControllers
  <1>10. ASSUME NEW id \in Ids, NEW additionalTime \in Timeouts \ {0},
                ExtendTimeout(id, additionalTime)
         PROVE  TypeOK'
    <2>1. controllers[id].gen \in Nat BY <1>10 DEF ExtendTimeout, Registered, TypeOK, Entry
    <2>2. timers' \in SUBSET Timer BY <1>1, <1>10, <2>1 DEF ExtendTimeout, Reasons
    <2> QED BY <1>10, <2>2 DEF ExtendTimeout, TypeOK
  <1>11. CASE Dispose
    <2> DEFINE disposal == LoopFrame("dispose", NoTag, {}, "dispose")
               batch == LoopFrame("batch", NoTag, Live, "dispose")
    <2>1. disposal \in Frame /\ batch \in Frame BY LoopFrameType DEF Reasons, Live
    <2> HIDE DEF disposal, batch
    <2>2. Append(stack, disposal) \in Seq(Frame) BY <2>1 DEF TypeOK
    <2>3. Append(Append(stack, disposal), batch) \in Seq(Frame) BY <2>1, <2>2
    <2>4. stack' \in Seq(Frame) BY <1>11, <2>3 DEF Dispose, Push, disposal, batch
    <2> QED BY <1>11, <2>4 DEF Dispose, TypeOK
  <1>12. ASSUME stack # <<>>
         PROVE  Top \in Frame /\ Caller \in Seq(Frame) BY <1>12, CallerFacts DEF TypeOK
  <1>13. CASE HandleReturn
    <2>1. stack' \in Seq(Frame) BY <1>12, <1>13, ForgetInLoopsFacts DEF HandleReturn, TypeOK
    <2>2. /\ controllers' \in [Ids -> Entry \cup {NoEntry}]
          /\ tagIndex' \in [Tags -> SUBSET Ids] BY <1>13 DEF HandleReturn, Unregister, TypeOK
    <2> QED BY <1>13, <2>1, <2>2 DEF HandleReturn, TypeOK
  <1>14. ASSUME stack # <<>>, NEW ids \in SUBSET Ids, Top.op \in {"batch", "tag"},
                Top.op = "tag" => Top.tag \in Tags
         PROVE  Append(Caller, [Top EXCEPT !.ids = ids]) \in Seq(Frame)
    <2>1. [Top EXCEPT !.ids = ids] \in Frame BY <1>12, <1>14 DEF Frame
    <2> HIDE DEF Frame
    <2> QED BY <1>12, <1>14, <2>1
  <1>15. CASE BatchStep
    <2>1. stack # <<>> /\ Top \in Frame /\ Top.op = "batch" BY <1>12, <1>15 DEF BatchStep
    <2>2. PICK id \in Top.ids :
            StartAbort(id, Top.reason, Append(Caller, [Top EXCEPT !.ids = @ \ {id}]))
      BY <1>15 DEF BatchStep
    <2>3. id \in Ids /\ Top.reason \in Reasons /\ Top.ids \ {id} \in SUBSET Ids BY <2>1 DEF Frame
    <2>4. Append(Caller, [Top EXCEPT !.ids = Top.ids \ {id}]) \in Seq(Frame) BY <1>14, <2>1, <2>3
    <2> QED BY <1>3, <1>15, <2>2, <2>3, <2>4 DEF BatchStep, TypeOK
  <1>16. CASE TagStep
    <2>1. stack # <<>> /\ Top \in Frame /\ Top.op = "tag" BY <1>12, <1>16 DEF TagStep
    <2>2. Top.tag \in Tags /\ Top.ids \in SUBSET Ids /\ Top.reason \in Reasons BY <2>1 DEF Frame
    <2>3. PICK id \in tagIndex[Top.tag] \ Top.ids :
            StartAbort(id, Top.reason, Append(Caller, [Top EXCEPT !.ids = @ \cup {id}]))
      BY <1>16 DEF TagStep
    <2>4. id \in Ids /\ Top.ids \cup {id} \in SUBSET Ids BY <2>2 DEF TypeOK
    <2>5. Append(Caller, [Top EXCEPT !.ids = Top.ids \cup {id}]) \in Seq(Frame)
      BY <1>14, <2>1, <2>2, <2>4
    <2> QED BY <1>3, <1>16, <2>2, <2>3, <2>4, <2>5 DEF TagStep, TypeOK
  <1>17. CASE StaleStep
    <2>1. PICK id \in Stale : StartAbort(id, "stale", stack) BY <1>17 DEF StaleStep
    <2>2. id \in Ids BY DEF Stale, Live
    <2> QED BY <1>3, <1>17, <2>1, <2>2 DEF StaleStep, TypeOK, Reasons
  <1>18. CASE LoopReturn BY <1>12, <1>18 DEF LoopReturn, TypeOK
  <1>19. CASE DisposeReturn
    <2>1. stack' \in Seq(Frame) BY <1>12, <1>19, DetachLoopsFacts DEF DisposeReturn, TypeOK
    <2>2. abortHistory' \in Seq(HistoryRecord) BY <1>19 DEF DisposeReturn
    <2> QED BY <1>19, <2>1, <2>2 DEF DisposeReturn, TypeOK, HistoryRecord
  <1>20. ASSUME NEW timer \in timers, FireTimer(timer)
         PROVE  TypeOK'
    <2>1. timer.id \in Ids /\ timer.reason \in Reasons BY DEF TypeOK, Timer
    <2> QED BY <1>3, <1>20, <2>1 DEF FireTimer, TypeOK
  <1>21. CASE Tick BY <1>21 DEF Tick, TypeOK
  <1>22. CASE UNCHANGED vars BY <1>22 DEF vars, TypeOK
  <1> QED BY <1>2, <1>5, <1>6, <1>7, <1>8, <1>9, <1>10, <1>11, <1>13, <1>15, <1>16,
       <1>17, <1>18, <1>19, <1>20, <1>21, <1>22 DEF Next, Call, Running

(* Every variable keeps the shape the code gives it. *)
THEOREM TypeCorrect == Spec => []TypeOK BY TypeInit, TypeNext, PTL DEF Spec
-----------------------------------------------------------------------------
(* The inductive invariant of the registry.  An abort in progress still has *)
(* its own entry, with an aborted signal; an aborted entry has an abort in  *)
(* progress, and only one; dispose is never called from a callback.        *)
HandlesInv ==
  \A i \in 1..Len(stack) :
    stack[i].op = "handle" =>
      /\ controllers[stack[i].id] = stack[i].entry
      /\ stack[i].entry.gen \in signalled

OneHandlePerId ==
  \A i, j \in 1..Len(stack) :
    stack[i].op = "handle" /\ stack[j].op = "handle" /\ stack[i].id = stack[j].id
      => i = j

AbortedInProgress ==
  \A id \in Live :
    controllers[id].gen \in signalled =>
      \E i \in 1..Len(stack) : stack[i].op = "handle" /\ stack[i].id = id

DisposeOutermost ==
  \A i \in 1..Len(stack) : stack[i].op = "dispose" => i = 1

GensInv ==
  /\ \A id \in Live : controllers[id].gen < nextGen
  /\ \A gen \in signalled : gen < nextGen
  /\ \A x, y \in Live : controllers[x].gen = controllers[y].gen => x = y

RegistryInv ==
  /\ TypeOK
  /\ HandlesInv
  /\ OneHandlePerId
  /\ AbortedInProgress
  /\ DisposeOutermost
  /\ GensInv
  /\ TagIndexExact

NoDisposeInCallbacks == "dispose" \notin CallbackOps

LEMMA EntryFacts ==
  ASSUME TypeOK
  PROVE  /\ NoEntry \notin Entry
         /\ \A id \in Live : id \in Ids /\ controllers[id] \in Entry
         /\ \A i \in 1..Len(stack) :
              stack[i].op = "handle" => stack[i].id \in Ids /\ stack[i].entry \in Entry
         /\ Len(stack) \in Nat
  <1>1. NoEntry \notin Entry BY DEF NoEntry, Entry
  <1>2. \A id \in Live : id \in Ids /\ controllers[id] \in Entry BY DEF TypeOK, Live, Registered
  <1>3. Len(stack) \in Nat BY LenProperties DEF TypeOK
  <1>4. \A i \in 1..Len(stack) : stack[i] \in Frame BY ElementOfSeq DEF TypeOK
  <1> QED BY <1>1, <1>2, <1>3, <1>4 DEF Frame

(* A frame of a loop is pushed, popped or left in place: the registry and   *)
(* the signals are unchanged, and so are the frames of aborts.             *)
LEMMA LoopStep ==
  ASSUME RegistryInv, TypeOK', UNCHANGED <<controllers, tagIndex, signalled, nextGen>>,
         NEW n \in Nat, n <= Len(stack), n <= Len(stack'),
         \A i \in 1..n : SameFrame(stack'[i], stack[i]),
         \A i \in n + 1..Len(stack) : stack[i].op # "handle",
         \A i \in n + 1..Len(stack') :
           stack'[i].op # "handle" /\ (stack'[i].op = "dispose" => i = 1)
  PROVE  RegistryInv'
  <1>1. Len(stack) \in Nat /\ Len(stack') \in Nat BY LenProperties DEF RegistryInv, TypeOK
  <1>2. \A i \in 1..n : stack'[i].op = "handle" \/ stack[i].op = "handle" => stack'[i] = stack[i]
    BY DEF SameFrame
  <1>3. \A i \in 1..n : stack'[i].op = "dispose" => stack[i].op = "dispose" BY DEF SameFrame
  <1>4. HandlesInv' BY <1>1, <1>2 DEF RegistryInv, HandlesInv
  <1>5. OneHandlePerId' BY <1>1, <1>2 DEF RegistryInv, OneHandlePerId
  <1>6. AbortedInProgress' BY <1>1, <1>2 DEF RegistryInv, AbortedInProgress, Live, Registered
  <1>7. DisposeOutermost' BY <1>1, <1>3 DEF RegistryInv, DisposeOutermost
  <1>8. GensInv' /\ TagIndexExact' BY DEF RegistryInv, GensInv, TagIndexExact, Live, Registered
  <1> QED BY <1>4, <1>5, <1>6, <1>7, <1>8 DEF RegistryInv

(* controller.abort called from a loop, a caller or a timer. *)
LEMMA AbortStep ==
  ASSUME RegistryInv, TypeOK', UNCHANGED <<controllers, tagIndex, nextGen>>,
         NEW id \in Ids, NEW reason, NEW calls \in Seq(Frame),
         StartAbort(id, reason, calls), SameCalls(calls, stack)
  PROVE  RegistryInv'
  <1>1. Len(stack) \in Nat /\ Len(calls) = Len(stack)
    BY LenProperties DEF RegistryInv, TypeOK, SameCalls
  <1>2. CASE ~ (Registered(id) /\ controllers[id].gen \notin signalled)
    <2>1. stack' = calls /\ signalled' = signalled BY <1>2 DEF StartAbort, aborts
    <2>2. \A i \in 1..Len(stack) : SameFrame(stack'[i], stack[i]) BY <2>1 DEF SameCalls
    <2> QED BY <1>1, <2>1, <2>2, LoopStep
  <1>3. CASE Registered(id) /\ controllers[id].gen \notin signalled
    <2> DEFINE n == Len(stack)
               frame == [op |-> "handle", id |-> id, entry |-> controllers[id],
                         tag |-> NoTag, ids |-> {}, reason |-> reason]
    <2>1. /\ signalled' = signalled \cup {controllers[id].gen}
          /\ stack' = Append(calls, frame) BY <1>3 DEF StartAbort
    <2>2. /\ Len(stack') = n + 1
          /\ stack'[n + 1] = frame
          /\ \A i \in 1..n : stack'[i] = calls[i] BY <1>1, <2>1
    <2>3. frame.op = "handle" /\ frame.id = id /\ frame.entry = controllers[id] OBVIOUS
    <2> HIDE DEF frame
    <2>4. \A i \in 1..n : SameFrame(stack'[i], stack[i]) BY <2>2 DEF SameCalls
    <2>5. \A i \in 1..n : stack'[i].op = "handle" \/ stack[i].op = "handle" => stack'[i] = stack[i]
      BY <2>4 DEF SameFrame
    <2>6. \A i \in 1..n : stack[i].op = "handle" => stack[i].id # id
      BY <1>3 DEF RegistryInv, HandlesInv
    <2>7. HandlesInv' BY <1>1, <2>1, <2>2, <2>3, <2>5 DEF RegistryInv, HandlesInv
    <2>8. OneHandlePerId' BY <1>1, <2>2, <2>3, <2>5, <2>6 DEF RegistryInv, OneHandlePerId
    <2>9. AbortedInProgress'
      <3> SUFFICES ASSUME NEW x \in Live, controllers[x].gen \in signalled'
                   PROVE  \E i \in 1..n + 1 : stack'[i].op = "handle" /\ stack'[i].id = x
        BY <2>2 DEF AbortedInProgress, Live, Registered
      <3>1. CASE controllers[x].gen \in signalled
        <4>1. PICK i \in 1..n : stack[i].op = "handle" /\ stack[i].id = x
          BY <3>1 DEF RegistryInv, AbortedInProgress
        <4> QED BY <1>1, <4>1, <2>5
      <3>2. CASE controllers[x].gen = controllers[id].gen
        <4>1. x = id BY <1>3, <3>2 DEF RegistryInv, GensInv, Live
        <4> QED BY <1>1, <4>1, <2>2, <2>3
      <3> QED BY <2>1, <3>1, <3>2
    <2>10. DisposeOutermost'
      <3>1. \A i \in 1..n : stack'[i].op = "dispose" => stack[i].op = "dispose"
        BY <2>4 DEF SameFrame
      <3> QED BY <1>1, <2>2, <2>3, <3>1 DEF RegistryInv, DisposeOutermost
    <2>11. GensInv' BY <1>3, <2>1 DEF RegistryInv, GensInv, Live, Registered
    <2>12. TagIndexExact' BY DEF RegistryInv, TagIndexExact, Live, Registered
    <2> QED BY <2>7, <2>8, <2>9, <2>10, <2>11, <2>12 DEF RegistryInv
  <1> QED BY <1>2, <1>3

LEMMA CreateStep ==
  ASSUME RegistryInv, TypeOK', NEW id \in Ids, NEW tag \in Tags \cup {NoTag},
         NEW timeout \in Timeouts, NEW onAbort \in BOOLEAN,
         CreateSignal(id, tag, timeout, onAbort)
  PROVE  RegistryInv'
  <1> DEFINE entry == [gen |-> nextGen, createdAt |-> now, timeout |-> timeout,
                       tag |-> tag, onAbort |-> onAbort]
  <1>1. /\ id \notin Live
        /\ controllers' = [controllers EXCEPT ![id] = entry]
        /\ tagIndex' = [t \in Tags |-> IF t = tag THEN tagIndex[t] \cup {id}
                                                  ELSE tagIndex[t]]
        /\ nextGen' = nextGen + 1
        /\ stack' = stack /\ signalled' = signalled
    BY DEF CreateSignal, IdFree, IndexTag, aborts, Live
  <1>2. entry \in Entry /\ nextGen \in Nat BY DEF RegistryInv, TypeOK, Entry
  <1>3. entry # NoEntry /\ entry.gen = nextGen /\ entry.tag = tag
    BY <1>2, EntryFacts DEF RegistryInv
  <1>4. DOMAIN controllers = Ids /\ controllers'[id] = entry BY <1>1 DEF RegistryInv, TypeOK
  <1> HIDE DEF entry
  <1>5. \A x \in Ids : x # id => controllers'[x] = controllers[x] BY <1>1, <1>4
  <1>6. Live' = Live \cup {id} BY <1>3, <1>4, <1>5 DEF Live, Registered
  <1>7. \A i \in 1..Len(stack) : stack[i].op = "handle" => stack[i].id \in Ids \ {id}
    BY <1>1, EntryFacts DEF RegistryInv, HandlesInv, Live, Registered
  <1>8. HandlesInv' BY <1>1, <1>5, <1>7 DEF RegistryInv, HandlesInv
  <1>9. OneHandlePerId' /\ DisposeOutermost'
    BY <1>1 DEF RegistryInv, OneHandlePerId, DisposeOutermost
  <1>10. nextGen \notin signalled BY <1>2 DEF RegistryInv, GensInv, TypeOK
  <1>11. AbortedInProgress'
    BY <1>1, <1>3, <1>4, <1>5, <1>6, <1>10, EntryFacts DEF RegistryInv, AbortedInProgress
  <1>12. GensInv'
    <2>1. \A x \in Live : controllers'[x].gen = controllers[x].gen /\ controllers[x].gen \in Nat
      BY <1>1, <1>5, EntryFacts DEF RegistryInv, Entry
    <2>2. \A x \in Live' : controllers'[x].gen < nextGen'
      BY <1>1, <1>2, <1>3, <1>4, <1>6, <2>1 DEF RegistryInv, GensInv
    <2>3. \A gen \in signalled' : gen < nextGen' BY <1>1, <1>2 DEF RegistryInv, GensInv, TypeOK
    <2>4. \A x, y \in Live' : controllers'[x].gen = controllers'[y].gen => x = y
      BY <1>2, <1>3, <1>4, <1>6, <2>1 DEF RegistryInv, GensInv
    <2> QED BY <2>2, <2>3, <2>4 DEF GensInv
  <1>13. TagIndexExact'
    <2> SUFFICES ASSUME NEW t \in Tags
                 PROVE  tagIndex'[t] = {x \in Live' : controllers'[x].tag = t} BY DEF TagIndexExact
    <2>1. tagIndex[t] = {x \in Live : controllers[x].tag = t} BY DEF RegistryInv, TagIndexExact
    <2>2. \A x \in Live : controllers'[x].tag = controllers[x].tag
      BY <1>1, <1>5, EntryFacts DEF RegistryInv
    <2> QED BY <1>1, <1>3, <1>4, <1>6, <2>1, <2>2
  <1> QED BY <1>8, <1>9, <1>11, <1>12, <1>13 DEF RegistryInv

LEMMA HandleReturnStep ==
  ASSUME RegistryInv, TypeOK', HandleReturn
  PROVE  RegistryInv'
  <1> DEFINE n == Len(stack)
             id == Top.id
             tag == Top.entry.tag
  <1>1. /\ n \in Nat \ {0} /\ Top = stack[n] /\ Top.op = "handle"
        /\ Caller \in Seq(Frame) /\ Len(Caller) = n - 1
        /\ \A i \in 1..n - 1 : Caller[i] = stack[i]
    BY CallerFacts DEF RegistryInv, TypeOK, HandleReturn, Top
  <1>2. /\ id \in Live /\ controllers[id] = Top.entry
        /\ \A i \in 1..n - 1 : stack[i].op = "handle" => stack[i].id # id
    BY <1>1, EntryFacts DEF RegistryInv, HandlesInv, OneHandlePerId, Live, Registered
  <1>3. /\ controllers' = [controllers EXCEPT ![id] = NoEntry]
        /\ tagIndex' = [t \in Tags |-> IF t = tag THEN tagIndex[t] \ {id}
                                                  ELSE tagIndex[t]]
        /\ stack' = ForgetInLoops(Caller, id, tag)
        /\ signalled' = signalled /\ nextGen' = nextGen BY DEF HandleReturn, Unregister, aborts
  <1>4. Live' = Live \ {id} /\ \A x \in Ids : x # id => controllers'[x] = controllers[x]
    BY <1>2, <1>3 DEF Live, Registered, RegistryInv, TypeOK
  <1>5. Len(stack') = n - 1 /\ \A i \in 1..n - 1 : SameFrame(stack'[i], stack[i])
    <2>1. SameCalls(ForgetInLoops(Caller, id, tag), Caller)
      BY <1>1, ForgetInLoopsFacts DEF RegistryInv, TypeOK
    <2> QED BY <1>1, <1>3, <2>1 DEF SameCalls
  <1>6. \A i \in 1..n - 1 : stack'[i].op = "handle" \/ stack[i].op = "handle" => stack'[i] = stack[i]
    BY <1>5 DEF SameFrame
  <1> HIDE DEF id, tag
  <1>7. HandlesInv'
    <2> SUFFICES ASSUME NEW i \in 1..n - 1, stack'[i].op = "handle"
                 PROVE  /\ controllers'[stack'[i].id] = stack'[i].entry
                        /\ stack'[i].entry.gen \in signalled BY <1>3, <1>5 DEF HandlesInv
    <2>1. stack'[i] = stack[i] /\ stack[i].op = "handle" /\ i \in 1..n BY <1>1, <1>6
    <2>2. stack[i].id \in Ids /\ stack[i].id # id BY <1>2, <2>1, EntryFacts DEF RegistryInv
    <2> QED BY <1>4, <2>1, <2>2 DEF RegistryInv, HandlesInv
  <1>8. OneHandlePerId' BY <1>1, <1>5, <1>6 DEF RegistryInv, OneHandlePerId
  <1>9. AbortedInProgress'
    <2> SUFFICES ASSUME NEW x \in Live', controllers'[x].gen \in signalled
                 PROVE  \E i \in 1..n - 1 : stack'[i].op = "handle" /\ stack'[i].id = x
      BY <1>3, <1>5 DEF AbortedInProgress
    <2>1. x \in Live /\ x # id /\ controllers[x].gen \in signalled
      BY <1>4, EntryFacts DEF RegistryInv
    <2>2. PICK i \in 1..n : stack[i].op = "handle" /\ stack[i].id = x
      BY <2>1 DEF RegistryInv, AbortedInProgress
    <2>3. i \in 1..n - 1 BY <1>1, <2>1, <2>2 DEF id
    <2> QED BY <1>6, <2>2, <2>3
  <1>10. DisposeOutermost'
    <2>1. \A i \in 1..n - 1 : stack'[i].op = "dispose" => stack[i].op = "dispose"
      BY <1>5 DEF SameFrame
    <2> QED BY <1>1, <1>5, <2>1 DEF RegistryInv, DisposeOutermost
  <1>11. GensInv'
    <2>1. \A x \in Live' : x \in Live /\ controllers'[x] = controllers[x]
      BY <1>4, EntryFacts DEF RegistryInv
    <2> QED BY <1>3, <2>1 DEF RegistryInv, GensInv
  <1>12. TagIndexExact'
    <2> SUFFICES ASSUME NEW t \in Tags
                 PROVE  tagIndex'[t] = {x \in Live' : controllers'[x].tag = t} BY DEF TagIndexExact
    <2>1. tagIndex[t] = {x \in Live : controllers[x].tag = t} BY DEF RegistryInv, TagIndexExact
    <2>2. \A x \in Live' : controllers'[x].tag = controllers[x].tag
      BY <1>4, EntryFacts DEF RegistryInv
    <2>3. controllers[id].tag = tag BY <1>2 DEF tag, id
    <2> QED BY <1>3, <1>4, <2>1, <2>2, <2>3
  <1> QED BY <1>7, <1>8, <1>9, <1>10, <1>11, <1>12 DEF RegistryInv

LEMMA DisposeReturnStep ==
  ASSUME RegistryInv, TypeOK', DisposeReturn
  PROVE  RegistryInv'
  <1>1. Len(stack) = 1 /\ Caller \in Seq(Frame) /\ Len(Caller) = 0
    BY CallerFacts DEF RegistryInv, TypeOK, DisposeReturn, DisposeOutermost, Top
  <1>2. Len(stack') = 0 BY <1>1, DetachLoopsFacts DEF DisposeReturn, RegistryInv, TypeOK, SameCalls
  <1>3. Live' = {} /\ signalled' = signalled /\ nextGen' = nextGen
    BY DEF DisposeReturn, Live, Registered
  <1>4. HandlesInv' /\ OneHandlePerId' /\ AbortedInProgress' /\ DisposeOutermost'
    BY <1>2, <1>3 DEF HandlesInv, OneHandlePerId, AbortedInProgress, DisposeOutermost
  <1>5. GensInv' /\ TagIndexExact' BY <1>3 DEF RegistryInv, GensInv, TagIndexExact, DisposeReturn
  <1> QED BY <1>4, <1>5 DEF RegistryInv

LEMMA RegistryInit == Init => RegistryInv
  <1> SUFFICES ASSUME Init PROVE RegistryInv OBVIOUS
  <1>1. TypeOK BY TypeInit
  <1>2. Live = {} /\ Len(stack) = 0 /\ signalled = {} BY DEF Init, Live, Registered
  <1>3. HandlesInv /\ OneHandlePerId /\ AbortedInProgress /\ DisposeOutermost
    BY <1>2 DEF HandlesInv, OneHandlePerId, AbortedInProgress, DisposeOutermost
  <1>4. GensInv /\ TagIndexExact BY <1>2 DEF GensInv, TagIndexExact, Init
  <1> QED BY <1>1, <1>3, <1>4 DEF RegistryInv

LEMMA RegistryNext ==
  NoDisposeInCallbacks /\ RegistryInv /\ [Next]_vars => RegistryInv'
  <1> SUFFICES ASSUME NoDisposeInCallbacks, RegistryInv, [Next]_vars PROVE RegistryInv' OBVIOUS
  <1> USE DEF registry, aborts
  <1>t. TypeOK /\ TypeOK' BY TypeNext DEF RegistryInv
  <1>l. Len(stack) \in Nat /\ Len(stack') \in Nat BY <1>t, LenProperties DEF TypeOK
  <1>f. \A i \in 1..Len(stack) : SameFrame(stack[i], stack[i]) BY DEF SameFrame
  <1>1. ASSUME UNCHANGED <<registry, signalled, nextGen, stack>>
        PROVE  RegistryInv' BY <1>1, <1>t, <1>l, <1>f, LoopStep
  <1>2. ASSUME NEW frame, frame.op \in {"batch", "tag", "stale"},
               stack' = Push(frame), UNCHANGED <<registry, aborts, nextGen>>
        PROVE  RegistryInv'
    <2>1. /\ Len(stack') = Len(stack) + 1
          /\ stack'[Len(stack) + 1] = frame
          /\ \A i \in 1..Len(stack) : stack'[i] = stack[i] BY <1>2, <1>t, <1>l DEF Push, TypeOK
    <2>2. \A i \in 1..Len(stack) : SameFrame(stack'[i], stack[i]) BY <2>1 DEF SameFrame
    <2>3. \A i \in Len(stack) + 1..Len(stack') : stack'[i].op # "handle" /\ stack'[i].op # "dispose"
      BY <1>2, <1>l, <2>1
    <2> QED BY <1>2, <1>t, <1>l, <2>1, <2>2, <2>3, LoopStep
  <1>3. SameCalls(stack, stack) /\ stack \in Seq(Frame) BY <1>t, <1>f DEF SameCalls, TypeOK
  <1>4. ASSUME NEW ids, Top.op \in {"batch", "tag"}, stack # <<>>,
               Append(Caller, [Top EXCEPT !.ids = ids]) \in Seq(Frame)
        PROVE  SameCalls(Append(Caller, [Top EXCEPT !.ids = ids]), stack)
    <2> DEFINE n == Len(stack)
               frame == [Top EXCEPT !.ids = ids]
               calls == Append(Caller, frame)
    <2>1. /\ Caller \in Seq(Frame) /\ Len(Caller) = n - 1 /\ n \in Nat \ {0}
          /\ Top \in Frame /\ Top = stack[n]
          /\ \A i \in 1..n - 1 : Caller[i] = stack[i] BY <1>4, <1>t, CallerFacts DEF TypeOK, Top
    <2>2. frame.op = Top.op BY <2>1 DEF Frame
    <2> HIDE DEF frame
    <2>3. Len(calls) = n /\ calls[n] = frame /\ \A i \in 1..n - 1 : calls[i] = stack[i] BY <2>1
    <2>4. SameFrame(calls[n], stack[n]) BY <1>4, <2>1, <2>2, <2>3 DEF SameFrame
    <2>5. \A i \in 1..n : SameFrame(calls[i], stack[i]) BY <1>f, <2>1, <2>3, <2>4
    <2> QED BY <2>3, <2>5 DEF SameCalls, frame
  <1>5. ASSUME NEW id \in Ids, Abort(id)
        PROVE  RegistryInv' BY <1>3, <1>5, <1>t, AbortStep DEF Abort
  <1>6. ASSUME NEW ids \in SUBSET Ids, AbortByPattern(ids)
        PROVE  RegistryInv' BY <1>2, <1>6 DEF AbortByPattern, LoopFrame
  <1>7. CASE AbortAll BY <1>2, <1>7 DEF AbortAll, LoopFrame
  <1>8. ASSUME NEW tag \in Tags, AbortByTag(tag)
        PROVE  RegistryInv' BY <1>2, <1>8 DEF AbortByTag, LoopFrame
  <1>9. CASE CleanupStaleControllers BY <1>2, <1>9 DEF CleanupStaleControllers, LoopFrame
  <1>10. ASSUME NEW id \in Ids, NEW additionalTime \in Timeouts \ {0},
                ExtendTimeout(id, additionalTime)
         PROVE  RegistryInv' BY <1>1, <1>10 DEF ExtendTimeout
  <1>11. CASE Dispose
    <2> DEFINE disposal == LoopFrame("dispose", NoTag, {}, "dispose")
               batch == LoopFrame("batch", NoTag, Live, "dispose")
    <2>1. stack = <<>> BY <1>11 DEF Dispose, MayCall, NoDisposeInCallbacks
    <2>2. disposal.op = "dispose" /\ batch.op = "batch" BY DEF LoopFrame
    <2> HIDE DEF disposal, batch
    <2>3. stack' = Append(Append(<<>>, disposal), batch)
      BY <1>11, <2>1 DEF Dispose, Push, disposal, batch
    <2> DEFINE one == Append(<<>>, disposal)
    <2>4. one \in Seq({disposal, batch}) /\ Len(one) = 1 /\ one[1] = disposal OBVIOUS
    <2> HIDE DEF one
    <2>5. Len(stack') = 2 /\ stack'[1] = disposal /\ stack'[2] = batch /\ Len(stack) = 0
      BY <2>1, <2>3, <2>4 DEF one
    <2>6. \A i \in 1..2 : stack'[i].op # "handle" /\ (stack'[i].op = "dispose" => i = 1)
      BY <2>2, <2>5
    <2>7. UNCHANGED <<controllers, tagIndex, signalled, nextGen>> BY <1>11 DEF Dispose
    <2> QED BY <1>t, <2>5, <2>6, <2>7, LoopStep
  <1>12. CASE BatchStep
    <2>1. stack # <<>> /\ Top.op = "batch" /\ Top \in Frame /\ Caller \in Seq(Frame)
      BY <1>12, <1>t, CallerFacts DEF BatchStep, TypeOK
    <2>2. PICK id \in Top.ids :
            StartAbort(id, Top.reason, Append(Caller, [Top EXCEPT !.ids = @ \ {id}]))
      BY <1>12 DEF BatchStep
    <2>3. id \in Ids /\ [Top EXCEPT !.ids = Top.ids \ {id}] \in Frame BY <2>1 DEF Frame
    <2> DEFINE calls == Append(Caller, [Top EXCEPT !.ids = Top.ids \ {id}])
    <2>4. calls \in Seq(Frame)
      <3> HIDE DEF Frame
      <3> QED  BY <2>1, <2>3
    <2>5. SameCalls(calls, stack) BY <1>4, <2>1, <2>4
    <2>6. StartAbort(id, Top.reason, calls) BY <2>2
    <2> HIDE DEF calls
    <2> QED BY <1>12, <1>t, <2>3, <2>4, <2>5, <2>6, AbortStep DEF BatchStep
  <1>13. CASE TagStep
    <2>1. stack # <<>> /\ Top.op = "tag" /\ Top \in Frame /\ Caller \in Seq(Frame)
      BY <1>13, <1>t, CallerFacts DEF TagStep, TypeOK
    <2>2. Top.tag \in Tags /\ Top.ids \in SUBSET Ids BY <2>1 DEF Frame
    <2>3. PICK id \in tagIndex[Top.tag] \ Top.ids :
            StartAbort(id, Top.reason, Append(Caller, [Top EXCEPT !.ids = @ \cup {id}]))
      BY <1>13 DEF TagStep
    <2>4. id \in Ids BY <1>t, <2>2 DEF TypeOK
    <2>5. [Top EXCEPT !.ids = Top.ids \cup {id}] \in Frame BY <2>1, <2>2, <2>4 DEF Frame
    <2> DEFINE visited == Top.ids \cup {id}
               calls == Append(Caller, [Top EXCEPT !.ids = visited])
    <2>6. calls \in Seq(Frame)
      <3> HIDE DEF Frame
      <3> QED  BY <2>1, <2>5
    <2>7. SameCalls(calls, stack)
      <3>1. Append(Caller, [Top EXCEPT !.ids = visited]) \in Seq(Frame) BY <2>6
      <3> HIDE DEF visited, Frame
      <3>2. Top.op \in {"batch", "tag"} /\ stack # <<>> BY <2>1
      <3>3. SameCalls(Append(Caller, [Top EXCEPT !.ids = visited]), stack) BY <1>4, <3>1, <3>2
      <3> QED BY <3>3
    <2>8. StartAbort(id, Top.reason, calls) BY <2>3
    <2> HIDE DEF calls
    <2> QED BY <1>13, <1>t, <2>4, <2>6, <2>7, <2>8, AbortStep DEF TagStep
  <1>14. CASE StaleStep
    <2>1. PICK id \in Stale : StartAbort(id, "stale", stack) BY <1>14 DEF StaleStep
    <2>2. id \in Ids BY DEF Stale, Live
    <2> QED BY <1>3, <1>14, <1>t, <2>1, <2>2, AbortStep DEF StaleStep
  <1>15. CASE LoopReturn
    <2>1. /\ stack # <<>> /\ Top.op # "handle" /\ Top = stack[Len(stack)]
          /\ stack' = Caller /\ Len(stack') = Len(stack) - 1 /\ Len(stack) # 0
          /\ \A i \in 1..Len(stack) - 1 : stack'[i] = stack[i]
      BY <1>15, <1>t, CallerFacts DEF LoopReturn, TypeOK, Top
    <2> DEFINE n == Len(stack) - 1
    <2>2. n \in Nat /\ n <= Len(stack) /\ n <= Len(stack') BY <1>l, <2>1
    <2>3. \A i \in 1..n : SameFrame(stack'[i], stack[i]) BY <2>1 DEF SameFrame
    <2>4. \A i \in n + 1..Len(stack) : stack[i].op # "handle" BY <1>l, <2>1
    <2>5. \A i \in n + 1..Len(stack') : FALSE BY <1>l, <2>1
    <2>6. UNCHANGED <<controllers, tagIndex, signalled, nextGen>> BY <1>15 DEF LoopReturn
    <2> QED BY <1>t, <2>2, <2>3, <2>4, <2>5, <2>6, LoopStep
  <1>16. ASSUME NEW timer \in timers, FireTimer(timer)
         PROVE  RegistryInv'
    <2>1. timer.id \in Ids BY <1>t DEF TypeOK, Timer
    <2> QED BY <1>3, <1>16, <1>t, <2>1, AbortStep DEF FireTimer
  <1>17. CASE Tick BY <1>1, <1>17 DEF Tick
  <1>18. CASE UNCHANGED vars BY <1>1, <1>18 DEF vars
  <1>19. CASE HandleReturn BY <1>t, <1>19, HandleReturnStep
  <1>20. CASE DisposeReturn BY <1>t, <1>20, DisposeReturnStep
  <1>21. ASSUME NEW id \in Ids, NEW tag \in Tags \cup {NoTag},
                NEW timeout \in Timeouts, NEW onAbort \in BOOLEAN,
                CreateSignal(id, tag, timeout, onAbort)
         PROVE  RegistryInv' BY <1>t, <1>21, CreateStep
  <1> QED BY <1>5, <1>6, <1>7, <1>8, <1>9, <1>10, <1>11, <1>12, <1>13, <1>14, <1>15,
       <1>16, <1>17, <1>18, <1>19, <1>20, <1>21 DEF Next, Call, Running

(* However deep callbacks call the manager, dispose excepted: the tag index *)
(* mirrors the registry, an abort removes the request it was called for,    *)
(* and no aborted request stays registered after the calls have returned.   *)
THEOREM RegistryCorrect ==
  ASSUME NoDisposeInCallbacks
  PROVE  Spec => [](TagIndexExact /\ HandlesRemoveTheirOwn /\ NoAbortedLeftovers)
  <1>1. ASSUME RegistryInv
        PROVE  TagIndexExact /\ HandlesRemoveTheirOwn /\ NoAbortedLeftovers
    <2>1. DOMAIN stack = 1..Len(stack) /\ (stack = <<>> => Len(stack) = 0)
      BY <1>1, LenProperties DEF RegistryInv, TypeOK
    <2>2. HandlesRemoveTheirOwn BY <1>1, <2>1 DEF RegistryInv, HandlesInv, HandlesRemoveTheirOwn
    <2>3. NoAbortedLeftovers BY <1>1, <2>1 DEF RegistryInv, AbortedInProgress, NoAbortedLeftovers
    <2> QED BY <1>1, <2>2, <2>3 DEF RegistryInv
  <1>2. RegistryInv /\ [Next]_vars => RegistryInv' BY RegistryNext
  <1> QED BY <1>1, <1>2, RegistryInit, PTL DEF Spec
-----------------------------------------------------------------------------
LEMMA LiveFinite == IsFiniteSet(Live) /\ Cardinality(Live) \in Nat
  <1>1. Live \in SUBSET Ids BY DEF Live
  <1> QED BY <1>1, FS_Subset, FS_CardinalityType

(* A step in which no request is registered cannot exceed the capacity. *)
LEMMA FewerRequests ==
  ASSUME CapacityRespected, Live' \subseteq Live
  PROVE  CapacityRespected'
  <1>1. Cardinality(Live') <= Cardinality(Live) /\ Cardinality(Live') \in Nat
    BY LiveFinite, FS_Subset, FS_CardinalityType
  <1> QED BY <1>1, LiveFinite DEF CapacityRespected

(* Never more than maxConcurrent requests are registered, whatever callbacks *)
(* do, and for every capacity.                                             *)
THEOREM CapacityCorrect == Spec => []CapacityRespected
  <1>1. Init => CapacityRespected
    <2>1. Init => Live = {} BY DEF Init, Live, Registered
    <2> QED BY <2>1, FS_EmptySet DEF CapacityRespected
  <1>2. TypeOK /\ CapacityRespected /\ [Next]_vars => CapacityRespected'
    <2> SUFFICES ASSUME TypeOK, CapacityRespected, [Next]_vars
                 PROVE  CapacityRespected'
      OBVIOUS
    <2> USE DEF registry, Live, Registered
    <2>1. ASSUME NEW id \in Ids, NEW tag \in Tags \cup {NoTag},
                 NEW timeout \in Timeouts, NEW onAbort \in BOOLEAN,
                 CreateSignal(id, tag, timeout, onAbort)
          PROVE  CapacityRespected'
      <3>1. Live' \subseteq Live \cup {id} BY <2>1 DEF CreateSignal, TypeOK
      <3> USE LiveFinite
      <3> HIDE DEF Live
      <3>2. IsFiniteSet(Live \cup {id}) /\ Cardinality(Live \cup {id}) <= Cardinality(Live) + 1
        <4>1. /\ IsFiniteSet(Live \cup {id})
              /\ Cardinality(Live \cup {id}) =
                   IF id \in Live THEN Cardinality(Live) ELSE Cardinality(Live) + 1
          BY FS_AddElement, Zenon
        <4>2. Cardinality(Live) <= Cardinality(Live) + 1 BY Z3
        <4> QED BY <4>1, <4>2
      <3>3. Cardinality(Live') <= Cardinality(Live \cup {id}) /\ Cardinality(Live') \in Nat
        BY <3>1, <3>2, FS_Subset, FS_CardinalityType
      <3>4. Cardinality(Live) < MaxConcurrent BY <2>1 DEF CreateSignal, HasRoom
      <3>5. Cardinality(Live \cup {id}) \in Nat BY <3>2, FS_CardinalityType
      <3> QED BY <3>2, <3>3, <3>4, <3>5 DEF CapacityRespected
    <2>2. ASSUME HandleReturn PROVE Live' \subseteq Live
      BY <2>2 DEF HandleReturn, Unregister, TypeOK
    <2>3. ASSUME DisposeReturn PROVE Live' \subseteq Live BY <2>3 DEF DisposeReturn
    <2>4. ASSUME UNCHANGED controllers PROVE Live' \subseteq Live BY <2>4
    <2>5. \/ \E id \in Ids, tag \in Tags \cup {NoTag}, timeout \in Timeouts,
               onAbort \in BOOLEAN : CreateSignal(id, tag, timeout, onAbort)
          \/ HandleReturn
          \/ DisposeReturn
          \/ UNCHANGED controllers
      BY DEF Next, Call, Running, vars, Abort, AbortByPattern, AbortAll, AbortByTag,
             CleanupStaleControllers, ExtendTimeout, Dispose, BatchStep, TagStep,
             StaleStep, LoopReturn, FireTimer, Tick
    <2> HIDE DEF Live
    <2> QED BY <2>1, <2>2, <2>3, <2>4, <2>5, FewerRequests
  <1> QED BY <1>1, <1>2, TypeCorrect, PTL DEF Spec
-----------------------------------------------------------------------------
OwnTimer(id, entry) ==
  [id |-> id, gen |-> entry.gen, due |-> entry.createdAt + entry.timeout,
   reason |-> "timeout"]

(* A request created with a timeout keeps its timer until its signal has    *)
(* aborted, whatever is extended, reused, aborted or disposed of meanwhile. *)
THEOREM TimersCorrect == Spec => []TimedRequestsHaveTimers
  <1> USE DEF registry, aborts
  <1>1. Init => TimedRequestsHaveTimers BY DEF Init, TimedRequestsHaveTimers, Live, Registered
  <1>2. TypeOK /\ TimedRequestsHaveTimers /\ [Next]_vars => TimedRequestsHaveTimers'
    <2> SUFFICES ASSUME TypeOK, TimedRequestsHaveTimers, [Next]_vars,
                        NEW id \in Live', controllers'[id].timeout > 0,
                        controllers'[id].gen \notin signalled'
                 PROVE  OwnTimer(id, controllers'[id]) \in timers'
      BY DEF TimedRequestsHaveTimers, OwnTimer
    <2>1. id \in Ids /\ controllers'[id] # NoEntry BY DEF Live, Registered
    <2>2. ASSUME controllers'[id] = controllers[id], signalled \subseteq signalled',
                 timers \subseteq timers'
          PROVE  OwnTimer(id, controllers'[id]) \in timers'
      BY <2>1, <2>2 DEF TimedRequestsHaveTimers, OwnTimer, Live, Registered
    <2>3. ASSUME NEW x \in Ids, NEW gen, NEW after, NEW reason,
                 AddTimer(x, gen, after, reason)
          PROVE  timers \subseteq timers' BY <2>3 DEF AddTimer
    <2>4. ASSUME NEW x \in Ids, NEW reason, NEW calls, StartAbort(x, reason, calls)
          PROVE  /\ signalled \subseteq signalled'
                 /\ Registered(x) => controllers[x].gen \in signalled' BY <2>4 DEF StartAbort
    <2>5. ASSUME NEW x \in Ids, NEW tag \in Tags \cup {NoTag}, NEW timeout \in Timeouts,
                 NEW onAbort \in BOOLEAN, CreateSignal(x, tag, timeout, onAbort)
          PROVE  OwnTimer(id, controllers'[id]) \in timers'
      <3> DEFINE entry == [gen |-> nextGen, createdAt |-> now, timeout |-> timeout,
                           tag |-> tag, onAbort |-> onAbort]
      <3>1. controllers' = [controllers EXCEPT ![x] = entry] /\ signalled' = signalled
        BY <2>5 DEF CreateSignal
      <3>2. CASE id = x
        <4>1. controllers'[id] = entry BY <2>1, <3>1, <3>2 DEF TypeOK
        <4>2. HasTimeout(timeout) BY <4>1 DEF HasTimeout
        <4>3. AddTimer(x, nextGen, timeout, "timeout") BY <2>5, <4>2 DEF CreateSignal
        <4> QED BY <3>2, <4>1, <4>3 DEF AddTimer, OwnTimer
      <3>3. CASE id # x
        <4>1. timers \subseteq timers' BY <2>3, <2>5 DEF CreateSignal
        <4> QED BY <2>1, <2>2, <3>1, <3>3, <4>1 DEF TypeOK
      <3> QED BY <3>2, <3>3
    <2>6. CASE HandleReturn
      <3>1. controllers'[id] = controllers[id] BY <2>1, <2>6 DEF HandleReturn, Unregister, TypeOK
      <3> QED BY <2>2, <2>6, <3>1 DEF HandleReturn
    <2>7. CASE DisposeReturn BY <2>1, <2>7 DEF DisposeReturn
    <2>8. ASSUME NEW timer \in timers, FireTimer(timer)
          PROVE  OwnTimer(id, controllers'[id]) \in timers'
      <3>1. /\ timer.id \in Ids /\ timers' = timers \ {timer}
            /\ controllers' = controllers
            /\ StartAbort(timer.id, timer.reason, stack) BY <2>8 DEF FireTimer, TypeOK, Timer
      <3>2. signalled \subseteq signalled' BY <2>4, <3>1
      <3>3. OwnTimer(id, controllers[id]) \in timers
        BY <2>1, <3>1, <3>2 DEF TimedRequestsHaveTimers, OwnTimer, Live, Registered
      <3>4. OwnTimer(id, controllers[id]) # timer
        <4>1. timer.id = id => controllers[id].gen \in signalled' BY <2>1, <2>4, <3>1 DEF Registered
        <4> QED BY <3>1, <4>1 DEF OwnTimer
      <3> QED BY <3>1, <3>3, <3>4
    <2>9. CASE BatchStep
      <3>1. PICK x \in Top.ids :
               StartAbort(x, Top.reason, Append(Caller, [Top EXCEPT !.ids = @ \ {x}]))
        BY <2>9 DEF BatchStep
      <3>2. x \in Ids BY <2>9, CallerFacts DEF BatchStep, TypeOK, Frame
      <3> QED BY <2>2, <2>4, <2>9, <3>1, <3>2 DEF BatchStep
    <2>10. CASE TagStep
      <3>1. PICK x \in tagIndex[Top.tag] \ Top.ids :
               StartAbort(x, Top.reason, Append(Caller, [Top EXCEPT !.ids = @ \cup {x}]))
        BY <2>10 DEF TagStep
      <3>2. Top.tag \in Tags BY <2>10, CallerFacts DEF TagStep, TypeOK, Frame
      <3>3. x \in Ids BY <3>1, <3>2 DEF TypeOK
      <3> QED BY <2>2, <2>4, <2>10, <3>1, <3>3 DEF TagStep
    <2>11. CASE StaleStep
      <3>1. PICK x \in Stale : StartAbort(x, "stale", stack) BY <2>11 DEF StaleStep
      <3> QED BY <2>2, <2>4, <2>11, <3>1 DEF StaleStep, Stale, Live
    <2>12. ASSUME NEW x \in Ids, Abort(x)
           PROVE  OwnTimer(id, controllers'[id]) \in timers' BY <2>2, <2>4, <2>12 DEF Abort
    <2>13. ASSUME NEW x \in Ids, NEW additionalTime \in Timeouts \ {0},
                  ExtendTimeout(x, additionalTime)
           PROVE  OwnTimer(id, controllers'[id]) \in timers' BY <2>2, <2>3, <2>13 DEF ExtendTimeout
    <2>14. CASE UNCHANGED <<controllers, signalled, timers>> BY <2>2, <2>14
    <2>15. \/ \E ids \in SUBSET Ids : AbortByPattern(ids)
           \/ AbortAll \/ (\E tag \in Tags : AbortByTag(tag))
           \/ CleanupStaleControllers \/ Dispose \/ LoopReturn \/ Tick \/ UNCHANGED vars
           => UNCHANGED <<controllers, signalled, timers>>
      BY DEF AbortByPattern, AbortAll, AbortByTag, CleanupStaleControllers, Dispose,
             LoopReturn, Tick, vars
    <2> QED BY <2>5, <2>6, <2>7, <2>8, <2>9, <2>10, <2>11, <2>12, <2>13, <2>14, <2>15
      DEF Next, Call, Running
  <1> QED BY <1>1, <1>2, TypeCorrect, PTL DEF Spec

(* The registry is exact at every point a callback can observe it.          *)
THEOREM RegistryIsExact ==
  ASSUME NoDisposeInCallbacks
  PROVE  Spec => []RegistryExact
  BY RegistryCorrect, CapacityCorrect, TimersCorrect, PTL DEF RegistryExact

(* Every abort completes, for every nesting of callbacks.                   *)
THEOREM AbortsAreComplete ==
  ASSUME NoDisposeInCallbacks
  PROVE  Spec => []AbortsComplete BY RegistryCorrect, PTL DEF AbortsComplete
-----------------------------------------------------------------------------
(* No running request is dropped.  A callback that registers a request while *)
(* dispose runs would have it forgotten, so callbacks create none here; they  *)
(* may dispose of the manager, at any depth.                                 *)
NoCreateInCallbacks == "create" \notin CallbackOps

(* Every request of `entries` has aborted or is still ahead of a loop.       *)
Ended(entries, aborted, ids) ==
  \A id \in Ids : entries[id] = NoEntry \/ entries[id].gen \in aborted \/ id \in ids

(* A disposal in progress is followed by the loop over what was registered:  *)
(* whatever is still registered has aborted or is ahead of that loop.        *)
Covered(calls, entries, aborted) ==
  \A i \in 1..Len(calls) :
    calls[i].op = "dispose" =>
      IF i = Len(calls) THEN Ended(entries, aborted, {})
      ELSE calls[i + 1].op = "batch" /\ Ended(entries, aborted, calls[i + 1].ids)

(* The request of an abort in progress has aborted, and unless a disposal    *)
(* came in between it is still the one registered.                           *)
HandlesEnded(calls, entries, aborted) ==
  \A i \in 1..Len(calls) :
    calls[i].op = "handle" =>
      /\ calls[i].entry.gen \in aborted
      /\ entries[calls[i].id] \in {calls[i].entry, NoEntry}

Followed(calls, entries, aborted) ==
  Covered(calls, entries, aborted) /\ HandlesEnded(calls, entries, aborted)

DroppedInv ==
  TypeOK /\ Followed(stack, controllers, signalled) /\ NoRunningRequestDropped

(* The bookkeeping of loops changes frames of tag loops only.                *)
LEMMA OnlyTagLoopsChange ==
  ASSUME NEW calls \in Seq(Frame), NEW id, NEW tag, NEW i \in 1..Len(calls),
         calls[i].op # "tag"
  PROVE  /\ ForgetInLoops(calls, id, tag)[i] = calls[i]
         /\ DetachLoops(calls)[i] = calls[i] BY LenProperties DEF ForgetInLoops, DetachLoops

(* A call of controller.abort from a caller that has already taken the id    *)
(* off its loop: the id has aborted afterwards, or is not registered.        *)
LEMMA AbortEnds ==
  ASSUME TypeOK, NoRunningRequestDropped, NEW id \in Ids, NEW reason \in Reasons,
         NEW calls \in Seq(Frame), StartAbort(id, reason, calls),
         UNCHANGED <<registry, nextGen>>,
         HandlesEnded(calls, controllers, signalled),
         \A i \in 1..Len(calls) :
           calls[i].op = "dispose" =>
             /\ i # Len(calls)
             /\ calls[i + 1].op = "batch"
             /\ Ended(controllers, signalled, calls[i + 1].ids \cup {id})
  PROVE  Followed(stack', controllers', signalled') /\ NoRunningRequestDropped'
  <1> DEFINE entry == controllers[id]
             aborting == Registered(id) /\ entry.gen \notin signalled
             frame == [op |-> "handle", id |-> id, entry |-> entry,
                       tag |-> NoTag, ids |-> {}, reason |-> reason]
  <1>1. /\ controllers' = controllers
        /\ nextGen' = nextGen
        /\ Len(calls) \in Nat
        /\ signalled' = IF aborting THEN signalled \cup {entry.gen} ELSE signalled
        /\ stack' = IF aborting THEN Append(calls, frame) ELSE calls
    BY LenProperties DEF StartAbort, registry, aborts
  <1>2. NoRunningRequestDropped' BY <1>1 DEF NoRunningRequestDropped, Live, Registered
  <1>3. /\ Len(stack') \in {Len(calls), Len(calls) + 1}
        /\ \A i \in 1..Len(calls) : stack'[i] = calls[i]
        /\ Len(stack') = Len(calls) + 1 => aborting /\ stack'[Len(calls) + 1] = frame
    <2>1. CASE aborting
      <3>1. stack' = Append(calls, frame) BY <1>1, <2>1
      <3> HIDE DEF frame, aborting
      <3> QED BY <1>1, <2>1, <3>1, AppendProperties
    <2>2. CASE ~ aborting BY <1>1, <2>2
    <2> QED BY <2>1, <2>2
  <1>4. ASSUME NEW ids, Ended(controllers, signalled, ids \cup {id})
        PROVE  Ended(controllers', signalled', ids) BY <1>1, <1>4 DEF Ended, Registered
  <1>5. frame.op = "handle" /\ frame.id = id /\ frame.entry = entry OBVIOUS
  <1> HIDE DEF frame
  <1>6. Covered(stack', controllers', signalled')
    <2> SUFFICES ASSUME NEW i \in 1..Len(stack'), stack'[i].op = "dispose"
                 PROVE  /\ i # Len(stack') /\ stack'[i + 1].op = "batch"
                        /\ Ended(controllers', signalled', stack'[i + 1].ids) BY DEF Covered
    <2> HIDE DEF aborting
    <2>1. i \in 1..Len(calls) BY <1>1, <1>3, <1>5
    <2>2. calls[i].op = "dispose" /\ i # Len(calls) BY <1>3, <2>1
    <2>3. i + 1 \in 1..Len(calls) /\ i # Len(stack') BY <1>1, <1>3, <2>1, <2>2
    <2>4. stack'[i + 1] = calls[i + 1] BY <1>3, <2>3
    <2>5. calls[i + 1].op = "batch" /\ Ended(controllers, signalled, calls[i + 1].ids \cup {id})
      BY <2>1, <2>2
    <2> QED BY <1>4, <2>3, <2>4, <2>5
  <1>7. HandlesEnded(stack', controllers', signalled')
    <2> SUFFICES ASSUME NEW i \in 1..Len(stack'), stack'[i].op = "handle"
                 PROVE  /\ stack'[i].entry.gen \in signalled'
                        /\ controllers'[stack'[i].id] \in {stack'[i].entry, NoEntry}
      BY DEF HandlesEnded
    <2>1. CASE i \in 1..Len(calls)
      <3>1. stack'[i] = calls[i] BY <1>3, <2>1
      <3> QED BY <1>1, <2>1, <3>1 DEF HandlesEnded
    <2>2. CASE i \notin 1..Len(calls)
      <3>1. i = Len(calls) + 1 /\ Len(stack') = Len(calls) + 1 BY <1>1, <1>3, <2>2
      <3>2. stack'[i] = frame /\ aborting BY <1>3, <3>1
      <3> QED BY <1>1, <1>5, <3>2
    <2> QED BY <2>1, <2>2
  <1> QED BY <1>2, <1>6, <1>7 DEF Followed

(* A frame that is neither an abort nor a disposal is pushed above frames    *)
(* that are kept, and the top one of those is no disposal.                   *)
LEMMA PushFollowed ==
  ASSUME NEW calls \in Seq(Frame), Followed(calls, controllers, signalled),
         NEW frame \in Frame, frame.op \notin {"handle", "dispose"},
         calls # <<>> => calls[Len(calls)].op # "dispose"
  PROVE  Followed(Append(calls, frame), controllers, signalled)
  <1> DEFINE new == Append(calls, frame)
             n == Len(calls)
  <1>1. /\ n \in Nat /\ Len(new) = n + 1 /\ new[n + 1] = frame
        /\ \A i \in 1..n : new[i] = calls[i]
        /\ calls = <<>> => n = 0 BY LenProperties, AppendProperties
  <1> HIDE DEF new, n
  <1>2. Covered(new, controllers, signalled)
    <2> SUFFICES ASSUME NEW i \in 1..n + 1, new[i].op = "dispose"
                 PROVE  /\ i # n + 1 /\ new[i + 1].op = "batch"
                        /\ Ended(controllers, signalled, new[i + 1].ids) BY <1>1 DEF Covered
    <2>1. i \in 1..n /\ calls[i].op = "dispose" BY <1>1
    <2>2. i # n BY <1>1, <2>1 DEF n
    <2>3. i + 1 \in 1..n BY <1>1, <2>1, <2>2
    <2> QED BY <1>1, <2>1, <2>2, <2>3 DEF Followed, Covered, n
  <1>3. HandlesEnded(new, controllers, signalled)
    <2> SUFFICES ASSUME NEW i \in 1..n + 1, new[i].op = "handle"
                 PROVE  /\ new[i].entry.gen \in signalled
                        /\ controllers[new[i].id] \in {new[i].entry, NoEntry}
      BY <1>1 DEF HandlesEnded
    <2>1. i \in 1..n /\ calls[i].op = "handle" BY <1>1
    <2> QED BY <1>1, <2>1 DEF Followed, HandlesEnded, n
  <1> QED BY <1>2, <1>3 DEF Followed, new

(* The loop at the top of the stack goes on with other ids.                  *)
LEMMA TopReplaced ==
  ASSUME TypeOK, stack # <<>>, NEW ids \in SUBSET Ids, Top.op \in {"batch", "tag"}
  PROVE  LET calls == Append(Caller, [Top EXCEPT !.ids = ids])
             n == Len(stack)
         IN  /\ calls \in Seq(Frame)
             /\ Len(calls) = n
             /\ \A i \in 1..n - 1 : calls[i] = stack[i]
             /\ calls[n].op = Top.op /\ calls[n].ids = ids
             /\ calls[n].reason = Top.reason /\ calls[n].tag = Top.tag
  <1> DEFINE frame == [Top EXCEPT !.ids = ids]
  <1>1. /\ Len(stack) \in Nat \ {0} /\ Top \in Frame /\ Caller \in Seq(Frame)
        /\ Len(Caller) = Len(stack) - 1
        /\ \A i \in 1..Len(stack) - 1 : Caller[i] = stack[i] BY CallerFacts DEF TypeOK
  <1>2. /\ frame \in Frame /\ frame.op = Top.op /\ frame.ids = ids
        /\ frame.reason = Top.reason /\ frame.tag = Top.tag BY <1>1 DEF Frame
  <1> HIDE DEF frame, Frame
  <1>3. /\ Append(Caller, frame) \in Seq(Frame)
        /\ Len(Append(Caller, frame)) = Len(Caller) + 1
        /\ \A i \in 1..Len(Caller) : Append(Caller, frame)[i] = Caller[i]
        /\ Append(Caller, frame)[Len(Caller) + 1] = frame BY <1>1, <1>2, AppendProperties
  <1>4. Len(Caller) + 1 = Len(stack) BY <1>1
  <1>5. Append(Caller, frame)[Len(stack)] = frame BY <1>3, <1>4
  <1> QED BY <1>1, <1>2, <1>3, <1>4, <1>5 DEF frame

LEMMA DroppedInit == Init => DroppedInv
  <1> SUFFICES ASSUME Init PROVE DroppedInv OBVIOUS
  <1>1. stack = <<>> /\ Len(stack) = 0 /\ nextGen = 0 BY EmptySeq DEF Init
  <1> QED BY <1>1, TypeInit DEF DroppedInv, Followed, Covered, HandlesEnded, NoRunningRequestDropped

LEMMA DroppedNext ==
  ASSUME NoCreateInCallbacks, DroppedInv, [Next]_vars
  PROVE  DroppedInv'
  <1> DEFINE n == Len(stack)
             Goal == /\ Followed(stack', controllers', signalled')
                     /\ NoRunningRequestDropped'
  <1> USE DEF registry, aborts
  <1>1. TypeOK /\ TypeOK' /\ NoRunningRequestDropped BY TypeNext DEF DroppedInv
  <1>2. stack \in Seq(Frame) /\ n \in Nat /\ (stack = <<>> => n = 0)
    BY <1>1, LenProperties, EmptySeq DEF TypeOK
  <1>3. /\ Followed(stack, controllers, signalled)
        /\ Covered(stack, controllers, signalled)
        /\ HandlesEnded(stack, controllers, signalled) BY DEF DroppedInv, Followed
  <1>4. ASSUME UNCHANGED <<controllers, signalled, nextGen>>
        PROVE  NoRunningRequestDropped' BY <1>1, <1>4 DEF NoRunningRequestDropped, Live, Registered
  <1>5. ASSUME UNCHANGED <<controllers, signalled, stack, nextGen>>
        PROVE  Goal BY <1>3, <1>4, <1>5
  <1>6. ASSUME stack # <<>>
        PROVE  /\ n \in Nat \ {0} /\ Top \in Frame /\ Caller \in Seq(Frame)
               /\ Len(Caller) = n - 1
               /\ \A i \in 1..n - 1 : Caller[i] = stack[i]
               /\ Top = stack[n] BY <1>2, <1>6, CallerFacts DEF Top
  <1>7. ASSUME stack # <<>>, Top.op # "dispose", NEW i \in 1..n, stack[i].op = "dispose"
        PROVE  /\ i \in 1..n - 1 /\ i + 1 \in 1..n
               /\ stack[i + 1].op = "batch"
               /\ Ended(controllers, signalled, stack[i + 1].ids)
    <2>1. i # n BY <1>6, <1>7
    <2> QED BY <1>2, <1>3, <1>7, <2>1 DEF Covered
  <1>8. ASSUME NEW op, MayCall(op)
        PROVE  stack # <<>> => stack[n].op = "handle" /\ Top.op = "handle" BY <1>8 DEF MayCall, Top
  <1>9. ASSUME NEW ids, NEW x, Ended(controllers, signalled, ids)
        PROVE  Ended(controllers, signalled, ids \cup {x}) BY <1>9 DEF Ended
  <1> HIDE DEF n
  <1> SUFFICES Goal BY <1>1 DEF DroppedInv
  (* controller.abort by a call, by the sweep or by a timer. *)
  <1>10. ASSUME NEW id \in Ids, NEW reason \in Reasons, StartAbort(id, reason, stack),
                UNCHANGED <<registry, nextGen>>, stack # <<>> => Top.op # "dispose"
         PROVE  Goal
    <2>1. ASSUME NEW i \in 1..Len(stack), stack[i].op = "dispose"
          PROVE  /\ i # Len(stack) /\ stack[i + 1].op = "batch"
                 /\ Ended(controllers, signalled, stack[i + 1].ids \cup {id})
      <3>1. stack # <<>> BY <1>2, <2>1 DEF n
      <3>2. /\ i \in 1..n - 1 /\ stack[i + 1].op = "batch"
            /\ Ended(controllers, signalled, stack[i + 1].ids) BY <1>7, <1>10, <2>1, <3>1 DEF n
      <3>3. Ended(controllers, signalled, stack[i + 1].ids \cup {id}) BY <1>9, <3>2
      <3> QED BY <1>2, <3>2, <3>3 DEF n
    <2> QED BY <1>1, <1>2, <1>3, <1>10, <2>1, AbortEnds
  <1>11. ASSUME NEW frame \in Frame, frame.op \notin {"handle", "dispose"},
                stack # <<>> => Top.op # "dispose",
                stack' = Append(stack, frame), UNCHANGED <<controllers, signalled, nextGen>>
         PROVE  Goal BY <1>2, <1>3, <1>4, <1>6, <1>11, PushFollowed DEF n
  <1>12. ASSUME NEW id \in Ids, Abort(id)
         PROVE  Goal BY <1>8, <1>10, <1>12 DEF Abort, Reasons
  <1>13. ASSUME NEW op \in {"batch", "tag", "stale"}, NEW tag \in Tags \cup {NoTag},
                NEW ids \in SUBSET Ids, NEW reason \in Reasons, op = "tag" => tag \in Tags,
                NEW call, MayCall(call),
                stack' = Push(LoopFrame(op, tag, ids, reason)),
                UNCHANGED <<registry, aborts, nextGen>>
         PROVE  Goal
    <2>1. /\ LoopFrame(op, tag, ids, reason) \in Frame
          /\ LoopFrame(op, tag, ids, reason).op = op BY <1>13, LoopFrameType DEF LoopFrame
    <2> QED BY <1>8, <1>11, <1>13, <2>1 DEF Push
  <1>14. ASSUME NEW ids \in SUBSET Ids, AbortByPattern(ids)
         PROVE  Goal BY <1>13, <1>14 DEF AbortByPattern, Reasons
  <1>15. CASE AbortAll BY <1>13, <1>15 DEF AbortAll, Reasons, Live
  <1>16. ASSUME NEW tag \in Tags, AbortByTag(tag)
         PROVE  Goal BY <1>13, <1>16 DEF AbortByTag, Reasons
  <1>17. CASE CleanupStaleControllers BY <1>13, <1>17 DEF CleanupStaleControllers, Reasons
  <1>18. ASSUME NEW id \in Ids, NEW additionalTime, ExtendTimeout(id, additionalTime)
         PROVE  Goal BY <1>5, <1>18 DEF ExtendTimeout
  <1>19. ASSUME NEW id \in Ids, NEW tag, NEW timeout, NEW onAbort,
                CreateSignal(id, tag, timeout, onAbort)
         PROVE  Goal
    <2> DEFINE entry == [gen |-> nextGen, createdAt |-> now, timeout |-> timeout,
                         tag |-> tag, onAbort |-> onAbort]
    <2>1. /\ stack = <<>> /\ stack' = stack /\ signalled' = signalled
          /\ ~ Registered(id) /\ nextGen' = nextGen + 1
          /\ controllers' = [controllers EXCEPT ![id] = entry]
      BY <1>19 DEF CreateSignal, MayCall, NoCreateInCallbacks, IdFree
    <2>2. controllers'[id] = entry /\ \A x \in Ids : x # id => controllers'[x] = controllers[x]
      BY <1>1, <2>1 DEF TypeOK
    <2>3. entry # NoEntry /\ entry.gen = nextGen /\ nextGen \in Nat BY <1>1 DEF NoEntry, TypeOK
    <2> HIDE DEF entry
    <2>4. NoRunningRequestDropped'
      <3> SUFFICES ASSUME NEW gen \in 0..nextGen, gen \notin signalled
                   PROVE  \E x \in Ids : controllers'[x] # NoEntry /\ controllers'[x].gen = gen
        BY <2>1, <2>3 DEF NoRunningRequestDropped, Live, Registered
      <3>1. CASE gen = nextGen BY <2>2, <2>3, <3>1
      <3>2. CASE gen # nextGen
        <4>1. gen \in 0..nextGen - 1 BY <2>3, <3>2
        <4> QED BY <1>1, <2>1, <2>2, <4>1 DEF NoRunningRequestDropped, Live, Registered
      <3> QED BY <3>1, <3>2
    <2>5. Followed(stack', controllers', signalled')
      BY <1>2, <2>1 DEF Followed, Covered, HandlesEnded, n
    <2> QED BY <2>4, <2>5
  <1>20. CASE Dispose
    <2> DEFINE disposal == LoopFrame("dispose", NoTag, {}, "dispose")
               batch == LoopFrame("batch", NoTag, Live, "dispose")
    <2>1. /\ disposal \in Frame /\ disposal.op = "dispose"
          /\ batch \in Frame /\ batch.op = "batch" /\ batch.ids = Live
      BY LoopFrameType DEF Reasons, Live, LoopFrame
    <2>2. /\ stack' = Append(Append(stack, disposal), batch)
          /\ UNCHANGED <<controllers, signalled, nextGen>> BY <1>20 DEF Dispose, Push
    <2>3. Ended(controllers, signalled, Live) BY DEF Ended, Live, Registered
    <2>4. stack # <<>> => stack[n].op = "handle" BY <1>8, <1>20 DEF Dispose
    <2> HIDE DEF disposal, batch
    <2>5. /\ Append(stack, disposal) \in Seq(Frame)
          /\ Len(Append(stack, disposal)) = n + 1
          /\ Append(stack, disposal)[n + 1] = disposal
          /\ \A i \in 1..n : Append(stack, disposal)[i] = stack[i]
      BY <1>2, <2>1, AppendProperties DEF n
    <2>6. /\ Len(stack') = n + 2
          /\ stack'[n + 2] = batch /\ stack'[n + 1] = disposal
          /\ \A i \in 1..n : stack'[i] = stack[i] BY <1>2, <2>1, <2>2, <2>5, AppendProperties
    <2>7. Covered(stack', controllers', signalled')
      <3> SUFFICES ASSUME NEW i \in 1..n + 2, stack'[i].op = "dispose"
                   PROVE  /\ i # n + 2 /\ stack'[i + 1].op = "batch"
                          /\ Ended(controllers, signalled, stack'[i + 1].ids)
        BY <2>2, <2>6 DEF Covered
      <3>1. CASE i \in 1..n
        <4>1. stack # <<>> /\ stack[i].op = "dispose" /\ i # n BY <1>2, <2>4, <2>6, <3>1
        <4>2. /\ i + 1 \in 1..n /\ stack[i + 1].op = "batch"
              /\ Ended(controllers, signalled, stack[i + 1].ids)
          BY <1>2, <1>3, <3>1, <4>1 DEF Covered, n
        <4> QED BY <1>2, <2>6, <3>1, <4>2
      <3>2. CASE i = n + 1 BY <1>2, <2>1, <2>3, <2>6, <3>2
      <3>3. i # n + 2 BY <2>1, <2>6
      <3> QED BY <1>2, <3>1, <3>2, <3>3
    <2>8. HandlesEnded(stack', controllers', signalled')
      <3> SUFFICES ASSUME NEW i \in 1..n + 2, stack'[i].op = "handle"
                   PROVE  /\ stack'[i].entry.gen \in signalled
                          /\ controllers[stack'[i].id] \in {stack'[i].entry, NoEntry}
        BY <2>2, <2>6 DEF HandlesEnded
      <3>1. i \in 1..n BY <1>2, <2>1, <2>6
      <3> QED BY <1>3, <2>6, <3>1 DEF HandlesEnded, n
    <2> QED BY <1>4, <2>2, <2>7, <2>8 DEF Followed
  <1>21. CASE HandleReturn
    <2> DEFINE id == Top.id
               tag == Top.entry.tag
    <2>1. /\ stack # <<>> /\ Top.op = "handle"
          /\ controllers' = [controllers EXCEPT ![id] = NoEntry]
          /\ stack' = ForgetInLoops(Caller, id, tag)
          /\ signalled' = signalled /\ nextGen' = nextGen BY <1>21 DEF HandleReturn, Unregister
    <2>2. Top \in Frame /\ id \in Ids BY <1>6, <2>1 DEF Frame
    <2>3. /\ controllers'[id] = NoEntry
          /\ \A x \in Ids : x # id => controllers'[x] = controllers[x]
      BY <1>1, <2>1, <2>2 DEF TypeOK
    <2>4. /\ Top.entry.gen \in signalled
          /\ controllers[id] \in {Top.entry, NoEntry} BY <1>3, <1>6, <2>1 DEF HandlesEnded, n
    <2>5. /\ Caller \in Seq(Frame) /\ Len(Caller) = n - 1 /\ n \in Nat \ {0}
          /\ Len(stack') = n - 1
          /\ \A i \in 1..n - 1 : Caller[i] = stack[i] /\ SameFrame(stack'[i], stack[i])
          /\ \A i \in 1..n - 1 : stack[i].op # "tag" => stack'[i] = stack[i]
      BY <1>1, <1>6, <2>1, ForgetInLoopsFacts, OnlyTagLoopsChange DEF TypeOK, SameCalls
    <2> HIDE DEF id, tag
    <2>6. NoRunningRequestDropped'
      <3> SUFFICES ASSUME NEW gen \in 0..nextGen - 1, gen \notin signalled
                   PROVE  \E x \in Ids : controllers'[x] # NoEntry /\ controllers'[x].gen = gen
        BY <2>1 DEF NoRunningRequestDropped, Live, Registered
      <3>1. PICK x \in Ids : controllers[x] # NoEntry /\ controllers[x].gen = gen
        BY <1>1 DEF NoRunningRequestDropped, Live, Registered
      <3>2. x # id BY <2>4, <3>1
      <3> QED BY <2>3, <3>1, <3>2
    <2>7. Covered(stack', controllers', signalled')
      <3> SUFFICES ASSUME NEW i \in 1..n - 1, stack'[i].op = "dispose"
                   PROVE  /\ i # n - 1 /\ stack'[i + 1].op = "batch"
                          /\ Ended(controllers', signalled', stack'[i + 1].ids) BY <2>5 DEF Covered
      <3>1. stack[i].op = "dispose" BY <2>5 DEF SameFrame
      <3>2. /\ i \in 1..n /\ stack[i + 1].op = "batch"
            /\ Ended(controllers, signalled, stack[i + 1].ids) BY <1>7, <2>1, <2>5, <3>1
      <3>3. i # n - 1 /\ i + 1 \in 1..n - 1 BY <1>6, <2>1, <2>5, <3>2
      <3>4. stack'[i + 1] = stack[i + 1] BY <2>5, <3>2, <3>3
      <3> QED BY <2>1, <2>3, <3>2, <3>3, <3>4 DEF Ended
    <2>8. HandlesEnded(stack', controllers', signalled')
      <3> SUFFICES ASSUME NEW i \in 1..n - 1, stack'[i].op = "handle"
                   PROVE  /\ stack'[i].entry.gen \in signalled
                          /\ controllers'[stack'[i].id] \in {stack'[i].entry, NoEntry}
        BY <2>1, <2>5 DEF HandlesEnded
      <3>1. stack'[i] = stack[i] /\ i \in 1..n BY <2>5 DEF SameFrame
      <3>2. stack[i].id \in Ids BY <1>1, <3>1, EntryFacts DEF n
      <3> QED BY <1>3, <2>3, <3>1, <3>2 DEF HandlesEnded, n
    <2> QED BY <2>6, <2>7, <2>8 DEF Followed
  <1>22. CASE BatchStep
    <2>1. stack # <<>> /\ Top.op = "batch" /\ Top \in Frame BY <1>6, <1>22 DEF BatchStep
    <2>2. PICK id \in Top.ids :
            StartAbort(id, Top.reason, Append(Caller, [Top EXCEPT !.ids = @ \ {id}]))
      BY <1>22 DEF BatchStep
    <2> DEFINE ids == Top.ids \ {id}
               calls == Append(Caller, [Top EXCEPT !.ids = ids])
    <2>3. id \in Ids /\ ids \in SUBSET Ids /\ Top.reason \in Reasons /\ Top.ids = ids \cup {id}
      BY <2>1, <2>2 DEF Frame
    <2>4. /\ calls \in Seq(Frame) /\ Len(calls) = n
          /\ \A i \in 1..n - 1 : calls[i] = stack[i]
          /\ calls[n].op = "batch" /\ calls[n].ids = ids BY <1>1, <2>1, <2>3, TopReplaced DEF n
    <2>5. StartAbort(id, Top.reason, calls) /\ UNCHANGED <<registry, nextGen>>
      BY <1>22, <2>2 DEF BatchStep
    <2> HIDE DEF calls, ids
    <2>6. HandlesEnded(calls, controllers, signalled)
      <3> SUFFICES ASSUME NEW i \in 1..n, calls[i].op = "handle"
                   PROVE  /\ calls[i].entry.gen \in signalled
                          /\ controllers[calls[i].id] \in {calls[i].entry, NoEntry}
        BY <2>4 DEF HandlesEnded
      <3>1. i \in 1..n - 1 BY <1>2, <2>4
      <3> QED BY <1>3, <2>4, <3>1 DEF HandlesEnded, n
    <2>7. ASSUME NEW i \in 1..n, calls[i].op = "dispose"
          PROVE  /\ i # n /\ calls[i + 1].op = "batch"
                 /\ Ended(controllers, signalled, calls[i + 1].ids \cup {id})
      <3>1. i # n /\ i \in 1..n - 1 BY <1>2, <2>4, <2>7
      <3>2. /\ i + 1 \in 1..n /\ stack[i + 1].op = "batch"
            /\ Ended(controllers, signalled, stack[i + 1].ids) BY <1>7, <2>1, <2>4, <2>7, <3>1
      <3>3. CASE i + 1 = n
        <4>1. stack[i + 1].ids = ids \cup {id} BY <1>6, <2>1, <2>3, <3>3
        <4> QED BY <2>4, <3>1, <3>2, <3>3, <4>1
      <3>4. CASE i + 1 # n
        <4>1. calls[i + 1] = stack[i + 1] BY <1>2, <2>4, <3>2, <3>4
        <4> QED BY <1>9, <3>1, <3>2, <4>1
      <3> QED BY <3>3, <3>4
    <2> QED BY <1>1, <2>3, <2>4, <2>5, <2>6, <2>7, AbortEnds
  <1>23. CASE TagStep
    <2>1. stack # <<>> /\ Top.op = "tag" /\ Top \in Frame BY <1>6, <1>23 DEF TagStep
    <2>2. PICK id \in tagIndex[Top.tag] \ Top.ids :
            StartAbort(id, Top.reason, Append(Caller, [Top EXCEPT !.ids = @ \cup {id}]))
      BY <1>23 DEF TagStep
    <2> DEFINE ids == Top.ids \cup {id}
               calls == Append(Caller, [Top EXCEPT !.ids = ids])
    <2>3. id \in Ids /\ ids \in SUBSET Ids /\ Top.reason \in Reasons
      <3>1. Top.tag \in Tags /\ Top.ids \in SUBSET Ids /\ Top.reason \in Reasons BY <2>1 DEF Frame
      <3> QED BY <1>1, <2>2, <3>1 DEF TypeOK
    <2>4. /\ calls \in Seq(Frame) /\ Len(calls) = n
          /\ \A i \in 1..n - 1 : calls[i] = stack[i]
          /\ calls[n].op = "tag" BY <1>1, <2>1, <2>3, TopReplaced DEF n
    <2>5. StartAbort(id, Top.reason, calls) /\ UNCHANGED <<registry, nextGen>>
      BY <1>23, <2>2 DEF TagStep
    <2> HIDE DEF calls, ids
    <2>6. HandlesEnded(calls, controllers, signalled)
      <3> SUFFICES ASSUME NEW i \in 1..n, calls[i].op = "handle"
                   PROVE  /\ calls[i].entry.gen \in signalled
                          /\ controllers[calls[i].id] \in {calls[i].entry, NoEntry}
        BY <2>4 DEF HandlesEnded
      <3>1. i \in 1..n - 1 BY <1>2, <2>4
      <3> QED BY <1>3, <2>4, <3>1 DEF HandlesEnded, n
    <2>7. ASSUME NEW i \in 1..n, calls[i].op = "dispose"
          PROVE  /\ i # n /\ calls[i + 1].op = "batch"
                 /\ Ended(controllers, signalled, calls[i + 1].ids \cup {id})
      <3>1. i # n /\ i \in 1..n - 1 BY <1>2, <2>4, <2>7
      <3>2. /\ i + 1 \in 1..n /\ stack[i + 1].op = "batch"
            /\ Ended(controllers, signalled, stack[i + 1].ids) BY <1>7, <2>1, <2>4, <2>7, <3>1
      <3>3. i + 1 # n BY <1>6, <2>1, <3>2
      <3>4. calls[i + 1] = stack[i + 1] BY <1>2, <2>4, <3>2, <3>3
      <3> QED BY <1>9, <3>1, <3>2, <3>4
    <2> QED BY <1>1, <2>3, <2>4, <2>5, <2>6, <2>7, AbortEnds
  <1>24. CASE StaleStep
    <2>1. PICK id \in Stale : StartAbort(id, "stale", stack) BY <1>24 DEF StaleStep
    <2> QED BY <1>10, <1>24, <2>1 DEF StaleStep, Stale, Live, Reasons
  <1>25. CASE LoopReturn
    <2>1. /\ stack # <<>> /\ stack' = Caller
          /\ Top.op \in {"batch", "tag", "stale"}
          /\ Top.op = "batch" => Top.ids = {}
          /\ UNCHANGED <<controllers, signalled, nextGen>> BY <1>25 DEF LoopReturn
    <2>2. /\ n \in Nat \ {0} /\ Len(stack') = n - 1
          /\ \A i \in 1..n - 1 : stack'[i] = stack[i] BY <1>6, <2>1
    <2>3. Covered(stack', controllers', signalled')
      <3> SUFFICES ASSUME NEW i \in 1..n - 1, stack'[i].op = "dispose"
                   PROVE  IF i = n - 1 THEN Ended(controllers, signalled, {})
                          ELSE /\ stack'[i + 1].op = "batch"
                               /\ Ended(controllers, signalled, stack'[i + 1].ids)
        BY <2>1, <2>2 DEF Covered
      <3>1. /\ i \in 1..n /\ i + 1 \in 1..n /\ stack[i + 1].op = "batch"
            /\ Ended(controllers, signalled, stack[i + 1].ids) BY <1>7, <2>1, <2>2
      <3>2. CASE i = n - 1
        <4>1. stack[i + 1] = Top BY <1>6, <2>1, <2>2, <3>2
        <4> QED BY <2>1, <3>1, <3>2, <4>1
      <3>3. CASE i # n - 1 BY <2>2, <3>1, <3>3
      <3> QED BY <3>2, <3>3
    <2>4. HandlesEnded(stack', controllers', signalled') BY <1>3, <2>1, <2>2 DEF HandlesEnded, n
    <2> QED BY <1>4, <2>1, <2>3, <2>4 DEF Followed
  <1>26. CASE DisposeReturn
    <2>1. /\ stack # <<>> /\ Top.op = "dispose"
          /\ controllers' = [id \in Ids |-> NoEntry]
          /\ stack' = DetachLoops(Caller)
          /\ signalled' = signalled /\ nextGen' = nextGen BY <1>26 DEF DisposeReturn
    <2>2. Ended(controllers, signalled, {}) BY <1>3, <1>6, <2>1 DEF Covered, n
    <2>3. NoRunningRequestDropped'
      BY <1>1, <2>1, <2>2 DEF NoRunningRequestDropped, Live, Registered, Ended
    <2>4. /\ Caller \in Seq(Frame) /\ Len(Caller) = n - 1 /\ n \in Nat \ {0}
          /\ Len(stack') = n - 1
          /\ \A i \in 1..n - 1 : Caller[i] = stack[i] /\ SameFrame(stack'[i], stack[i])
          /\ \A i \in 1..n - 1 : stack[i].op # "tag" => stack'[i] = stack[i]
      <3>1. Caller \in Seq(Frame) /\ Len(Caller) = n - 1 /\ n \in Nat \ {0} BY <1>6, <2>1
      <3>2. SameCalls(stack', Caller) BY <1>1, <2>1, <3>1, DetachLoopsFacts DEF TypeOK
      <3>3. \A i \in 1..n - 1 : Caller[i].op # "tag" => stack'[i] = Caller[i]
        BY <2>1, <3>1, OnlyTagLoopsChange
      <3> QED BY <1>6, <2>1, <3>1, <3>2, <3>3 DEF SameCalls
    <2>5. ASSUME NEW ids PROVE Ended(controllers', signalled', ids) BY <2>1 DEF Ended
    <2>6. Covered(stack', controllers', signalled')
      <3> SUFFICES ASSUME NEW i \in 1..n - 1, stack'[i].op = "dispose"
                   PROVE  i # n - 1 /\ stack'[i + 1].op = "batch" BY <2>4, <2>5 DEF Covered
      <3>1. stack[i].op = "dispose" /\ i \in 1..n /\ i # n BY <2>4 DEF SameFrame
      <3>2. stack[i + 1].op = "batch" /\ i + 1 \in 1..n BY <1>2, <1>3, <2>4, <3>1 DEF Covered, n
      <3>3. i + 1 # n BY <1>6, <2>1, <3>2
      <3>4. i + 1 \in 1..n - 1 BY <2>4, <3>2, <3>3
      <3> QED BY <2>4, <3>2, <3>4
    <2>7. HandlesEnded(stack', controllers', signalled')
      <3> SUFFICES ASSUME NEW i \in 1..n - 1, stack'[i].op = "handle"
                   PROVE  /\ stack'[i].entry.gen \in signalled
                          /\ controllers'[stack'[i].id] \in {stack'[i].entry, NoEntry}
        BY <2>1, <2>4 DEF HandlesEnded
      <3>1. stack'[i] = stack[i] /\ i \in 1..n BY <2>4 DEF SameFrame
      <3>2. stack[i].id \in Ids BY <1>1, <3>1, EntryFacts DEF n
      <3> QED BY <1>3, <2>1, <3>1, <3>2 DEF HandlesEnded, n
    <2> QED BY <2>3, <2>6, <2>7 DEF Followed
  <1>27. ASSUME NEW timer \in timers, FireTimer(timer)
         PROVE  Goal
    <2>1. timer.id \in Ids /\ timer.reason \in Reasons BY <1>1 DEF TypeOK, Timer
    <2> QED BY <1>10, <1>27, <2>1 DEF FireTimer
  <1>28. CASE Tick \/ UNCHANGED vars BY <1>5, <1>28 DEF Tick, vars
  <1> QED BY <1>12, <1>14, <1>15, <1>16, <1>17, <1>18, <1>19, <1>20, <1>21, <1>22, <1>23,
       <1>24, <1>25, <1>26, <1>27, <1>28 DEF Next, Call, Running

(* dispose, at any depth of calls, forgets no request that still runs.       *)
THEOREM NothingRunningIsDropped ==
  ASSUME NoCreateInCallbacks
  PROVE  Spec => []NoRunningRequestDropped
  <1>1. DroppedInv => NoRunningRequestDropped BY DEF DroppedInv
  <1>2. DroppedInv /\ [Next]_vars => DroppedInv' BY DroppedNext
  <1> QED BY <1>1, <1>2, DroppedInit, PTL DEF Spec
-----------------------------------------------------------------------------
(* abortByTag empties the tag.  The invariant is about the outermost call:  *)
(* the ids its loop has visited are registered under the tag with an         *)
(* aborted signal, and if it has called anything it is the abort of such a   *)
(* request; a loop whose Set became empty has nothing above it.              *)
Visited(f, entries, aborted) ==
  \A id \in f.ids : /\ entries[id] # NoEntry
                    /\ entries[id].tag = f.tag /\ entries[id].gen \in aborted
Emptied(f) == f.op = "batch" /\ f.reason = "tag-abort"

TagLoop(calls, entries, aborted, index) ==
  Len(calls) >= 1 =>
    /\ calls[1].op = "tag" =>
         /\ Visited(calls[1], entries, aborted)
         /\ Len(calls) > 1 => calls[2].op = "handle" /\ calls[2].entry.tag = calls[1].tag
    /\ Emptied(calls[1]) =>
         Len(calls) = 1 /\ calls[1].ids = {} /\ index[calls[1].tag] = {}

TagInv == RegistryInv /\ TagLoop(stack, controllers, signalled, tagIndex)

(* A step that leaves the outermost frames alone, and forgets no request    *)
(* that was registered.                                                    *)
LEMMA OutermostKept ==
  ASSUME TagInv, Len(stack) >= 1, Len(stack') \in Nat, stack'[1] = stack[1],
         stack[1].op = "tag" => Len(stack) > 1 /\ Len(stack') > 1 /\ stack'[2] = stack[2],
         ~ Emptied(stack[1]),
         signalled \subseteq signalled',
         \A id \in Ids : controllers[id] # NoEntry => controllers'[id] = controllers[id]
  PROVE  TagLoop(stack', controllers', signalled', tagIndex')
  <1>1. TagLoop(stack, controllers, signalled, tagIndex) /\ TypeOK BY DEF TagInv, RegistryInv
  <1>2. CASE stack[1].op = "tag"
    <2>1. Visited(stack[1], controllers, signalled) /\ stack[1].ids \subseteq Ids
      <3>1. stack[1] \in Frame BY <1>1, ElementOfSeq DEF TypeOK
      <3> QED BY <1>1, <1>2, <3>1 DEF TagLoop, Frame
    <2>2. Visited(stack[1], controllers', signalled') BY <2>1 DEF Visited
    <2>3. stack[2].op = "handle" /\ stack[2].entry.tag = stack[1].tag BY <1>1, <1>2 DEF TagLoop
    <2> QED BY <1>2, <2>2, <2>3 DEF TagLoop, Emptied
  <1>3. CASE stack[1].op # "tag" BY <1>3 DEF TagLoop, Emptied
  <1> QED BY <1>2, <1>3

(* Above a loop over a tag there is always an abort, below it nothing.      *)
LEMMA BelowTop ==
  ASSUME TagInv, Len(stack) > 1
  PROVE  /\ ~ Emptied(stack[1])
         /\ stack[1].op = "tag" /\ Top.op # "handle" => Len(stack) > 2
  <1>1. Len(stack) \in Nat BY LenProperties DEF TagInv, RegistryInv, TypeOK
  <1>2. stack[1].op = "tag" => stack[2].op = "handle" BY <1>1 DEF TagInv, TagLoop
  <1>3. ~ Emptied(stack[1]) BY <1>1 DEF TagInv, TagLoop
  <1> QED BY <1>1, <1>2, <1>3 DEF Top

(* An abort returns to a loop over its tag: the loop goes on, or the Set    *)
(* has become empty.                                                       *)
LEMMA ReturnToTagLoop ==
  ASSUME TagInv, HandleReturn
  PROVE  TagLoop(stack', controllers', signalled', tagIndex')
  <1> DEFINE n == Len(stack)
             id == Top.id
             tag == Top.entry.tag
             f == stack[1]
             emptied == tagIndex[tag] \subseteq {id}
  <1>1. /\ RegistryInv /\ TypeOK /\ TagLoop(stack, controllers, signalled, tagIndex)
        /\ stack # <<>> /\ Top.op = "handle" /\ Top = stack[n]
        /\ controllers' = [controllers EXCEPT ![id] = NoEntry]
        /\ tagIndex' = [t \in Tags |-> IF t = tag THEN tagIndex[t] \ {id} ELSE tagIndex[t]]
        /\ stack' = ForgetInLoops(Caller, id, tag)
        /\ signalled' = signalled BY DEF HandleReturn, Unregister, aborts, TagInv, RegistryInv, Top
  <1>2. /\ n \in Nat \ {0} /\ Caller \in Seq(Frame) /\ Len(Caller) = n - 1
        /\ \A i \in 1..n - 1 : Caller[i] = stack[i]
        /\ \A i \in 1..n : stack[i] \in Frame BY <1>1, CallerFacts, ElementOfSeq DEF TypeOK
  <1>3. Len(stack') = n - 1 /\ DOMAIN Caller = 1..n - 1
    BY <1>1, <1>2, ForgetInLoopsFacts, LenProperties DEF TypeOK, SameCalls
  <1>4. id \in Ids /\ Top.entry \in Entry /\ controllers[id] = Top.entry
        /\ DOMAIN controllers = Ids /\ NoEntry \notin Entry
    BY <1>1, <1>2, EntryFacts DEF RegistryInv, HandlesInv, TypeOK
  <1>5. \A x \in Ids : x # id => controllers'[x] = controllers[x] BY <1>1, <1>4
  <1> SUFFICES ASSUME n > 1 PROVE TagLoop(stack', controllers', signalled', tagIndex')
    BY <1>2, <1>3 DEF TagLoop
  <1>6. 1 \in 1..n - 1 /\ f \in Frame /\ ~ Emptied(f) BY <1>2, BelowTop
  <1>7. f.op # "tag" => stack'[1] = f BY <1>1, <1>2, <1>6, OnlyTagLoopsChange
  <1>8. CASE f.op # "tag" BY <1>6, <1>7, <1>8 DEF TagLoop
  <1>9. CASE f.op = "tag"
    <2>1. /\ Visited(f, controllers, signalled) /\ f.ids \in SUBSET Ids /\ f.tag \in Tags
          /\ stack[2].op = "handle" /\ stack[2].entry.tag = f.tag
      BY <1>1, <1>6, <1>9 DEF TagLoop, Frame
    <2>2. stack'[1] = IF f.tag = tag
                        THEN IF emptied THEN [f EXCEPT !.op = "batch", !.ids = {}]
                             ELSE [f EXCEPT !.ids = f.ids \ {id}]
                        ELSE f BY <1>1, <1>2, <1>3, <1>6, <1>9 DEF ForgetInLoops
    <2>3. n > 2 => stack'[2] = stack[2]
      <3> SUFFICES ASSUME n > 2 PROVE stack'[2] = stack[2] OBVIOUS
      <3>1. 2 \in 1..n - 1 BY <1>2
      <3>2. Caller[2] = stack[2] /\ Caller[2].op # "tag" BY <1>2, <2>1, <3>1
      <3> QED BY <1>1, <1>2, <3>1, <3>2, OnlyTagLoopsChange
    <2>4. ASSUME f.tag = tag, emptied
          PROVE  n = 2
      <3> SUFFICES ASSUME n > 2 PROVE FALSE BY <1>2
      <3>1. 2 \in 1..n /\ n \in 1..n /\ n # 2 BY <1>2
      <3>2. stack[2].id \in Ids /\ stack[2].entry \in Entry
            /\ controllers[stack[2].id] = stack[2].entry
        BY <1>1, <2>1, <3>1, EntryFacts DEF RegistryInv, HandlesInv
      <3>3. stack[2].id \in tagIndex[f.tag]
        BY <1>1, <1>4, <2>1, <3>2 DEF RegistryInv, TagIndexExact, Live, Registered
      <3>4. stack[2].id # id BY <1>1, <2>1, <3>1 DEF RegistryInv, OneHandlePerId
      <3> QED BY <2>4, <3>3, <3>4
    <2>5. CASE f.tag = tag /\ emptied
      <3>1. stack'[1].op = "batch" /\ stack'[1].ids = {} /\ stack'[1].tag = f.tag
        BY <1>6, <2>2, <2>5 DEF Frame
      <3>2. Len(stack') = 1 BY <1>3, <2>4, <2>5
      <3>3. tagIndex'[f.tag] = {} BY <1>1, <2>1, <2>5
      <3> HIDE DEF emptied
      <3> QED BY <3>1, <3>2, <3>3 DEF TagLoop
    <2>6. CASE ~ (f.tag = tag /\ emptied)
      <3>1. /\ stack'[1].op = "tag" /\ stack'[1].tag = f.tag
            /\ stack'[1].ids \subseteq f.ids /\ id \notin stack'[1].ids
        <4>1. CASE f.tag = tag
          <5>1. stack'[1] = [f EXCEPT !.ids = f.ids \ {id}] BY <2>2, <2>6, <4>1
          <5> QED BY <1>6, <1>9, <5>1 DEF Frame
        <4>2. CASE f.tag # tag BY <1>4, <1>9, <2>1, <2>2, <4>2 DEF Visited
        <4> QED BY <4>1, <4>2
      <3>2. Visited(stack'[1], controllers', signalled') BY <1>1, <1>5, <2>1, <3>1 DEF Visited
      <3>3. Len(stack') > 1 => n > 2 BY <1>2, <1>3
      <3> QED BY <2>1, <2>3, <3>1, <3>2, <3>3 DEF TagLoop, Emptied
    <2> QED BY <2>5, <2>6
  <1> QED BY <1>8, <1>9

LEMMA TagInit == Init => TagInv
  <1>1. Init => stack = <<>> /\ Len(<<>>) = 0 BY DEF Init
  <1> QED BY <1>1, RegistryInit DEF TagInv, TagLoop

LEMMA TagNext == NoDisposeInCallbacks /\ TagInv /\ [Next]_vars => TagInv'
  <1> SUFFICES ASSUME NoDisposeInCallbacks, TagInv, [Next]_vars
               PROVE  TagLoop(stack', controllers', signalled', tagIndex')
    BY RegistryNext DEF TagInv
  <1> USE DEF registry, aborts
  <1> DEFINE n == Len(stack)
             Goal == TagLoop(stack', controllers', signalled', tagIndex')
  <1>1. TypeOK /\ TypeOK' /\ RegistryInv /\ TagLoop(stack, controllers, signalled, tagIndex)
    BY TypeNext DEF TagInv, RegistryInv
  <1>2. /\ n \in Nat /\ Len(stack') \in Nat /\ (stack = <<>> <=> n = 0)
        /\ (\A i \in 1..n : stack[i] \in Frame)
        /\ stack \in Seq(Frame) BY <1>1, LenProperties, EmptySeq, ElementOfSeq DEF TypeOK
  (* A call of the program: from nowhere, or from the callback on top.      *)
  <1>3. ASSUME stack = <<>> \/ Top.op = "handle",
               \A i \in 1..n : stack'[i] = stack[i], n <= Len(stack'),
               stack = <<>> /\ Len(stack') >= 1 =>
                 /\ stack'[1].op = "tag" => stack'[1].ids = {} /\ Len(stack') = 1
                 /\ ~ Emptied(stack'[1]),
               signalled \subseteq signalled',
               \A id \in Ids : controllers[id] # NoEntry => controllers'[id] = controllers[id]
        PROVE  Goal
    <2>1. CASE stack = <<>> BY <1>2, <1>3, <2>1 DEF TagLoop, Visited
    <2>2. CASE stack # <<>>
      <3>1. n >= 1 /\ Top = stack[n] /\ stack'[1] = stack[1] BY <1>2, <1>3, <2>2 DEF Top
      <3>2. stack[1].op = "tag" => n > 1 BY <1>2, <1>3, <2>2, <3>1
      <3>3. n > 1 => Len(stack') > 1 /\ stack'[2] = stack[2] BY <1>2, <1>3
      <3>4. ~ Emptied(stack[1]) BY <1>2, <1>3, <2>2, <3>1, BelowTop DEF Emptied
      <3> QED BY <1>2, <1>3, <3>1, <3>2, <3>3, <3>4, OutermostKept
    <2> QED BY <2>1, <2>2
  <1>4. ASSUME NEW op, MayCall(op)
        PROVE  stack = <<>> \/ Top.op = "handle" BY <1>4 DEF MayCall
  <1>5. ASSUME NEW op \in {"batch", "tag", "stale"}, NEW tag, NEW ids, NEW reason, NEW call,
               MayCall(call), stack' = Push(LoopFrame(op, tag, ids, reason)),
               op = "tag" => ids = {}, reason # "tag-abort" \/ op # "batch",
               UNCHANGED <<controllers, signalled>>
        PROVE  Goal
    <2> DEFINE frame == LoopFrame(op, tag, ids, reason)
    <2>1. frame.op = op /\ frame.ids = ids /\ frame.reason = reason BY DEF LoopFrame
    <2> HIDE DEF frame
    <2>2. /\ Len(stack') = n + 1 /\ stack'[n + 1] = frame
          /\ \A i \in 1..n : stack'[i] = stack[i] BY <1>2, <1>5 DEF Push, frame
    <2> QED BY <1>2, <1>3, <1>4, <1>5, <2>1, <2>2 DEF Emptied
  (* controller.abort from a caller or a timer.                             *)
  <1>6. ASSUME NEW id, NEW reason, StartAbort(id, reason, stack),
               stack = <<>> \/ Top.op = "handle", UNCHANGED registry
        PROVE  Goal
    <2> DEFINE frame == [op |-> "handle", id |-> id, entry |-> controllers[id],
                         tag |-> NoTag, ids |-> {}, reason |-> reason]
    <2>1. signalled \subseteq signalled' BY <1>6 DEF StartAbort
    <2>2. frame.op = "handle" OBVIOUS
    <2>3. stack' = stack \/ stack' = Append(stack, frame) BY <1>6 DEF StartAbort
    <2> HIDE DEF frame
    <2>4. /\ n <= Len(stack')
          /\ \A i \in 1..n : stack'[i] = stack[i]
          /\ stack = <<>> /\ Len(stack') >= 1 => stack'[1] = frame BY <1>2, <2>3
    <2> QED BY <1>3, <1>6, <2>1, <2>2, <2>4 DEF Emptied
  <1>7. ASSUME NEW id \in Ids, NEW tag \in Tags \cup {NoTag},
               NEW timeout \in Timeouts, NEW onAbort \in BOOLEAN,
               CreateSignal(id, tag, timeout, onAbort)
        PROVE  Goal
    <2>1. \A x \in Ids : controllers[x] # NoEntry => controllers'[x] = controllers[x]
      BY <1>1, <1>7 DEF CreateSignal, IdFree, Registered, TypeOK
    <2> QED BY <1>2, <1>3, <1>4, <1>7, <2>1 DEF CreateSignal
  <1>8. ASSUME NEW id \in Ids, Abort(id) PROVE Goal BY <1>4, <1>6, <1>8 DEF Abort
  <1>9. ASSUME NEW ids \in SUBSET Ids, AbortByPattern(ids) PROVE Goal
    BY <1>5, <1>9 DEF AbortByPattern
  <1>10. CASE AbortAll BY <1>5, <1>10 DEF AbortAll
  <1>11. ASSUME NEW tag \in Tags, AbortByTag(tag) PROVE Goal BY <1>5, <1>11 DEF AbortByTag
  <1>12. CASE CleanupStaleControllers BY <1>5, <1>12 DEF CleanupStaleControllers
  <1>13. ASSUME NEW id \in Ids, NEW additionalTime \in Timeouts \ {0},
                ExtendTimeout(id, additionalTime)
         PROVE  Goal BY <1>2, <1>3, <1>4, <1>13 DEF ExtendTimeout
  <1>14. CASE Dispose
    <2> DEFINE disposal == LoopFrame("dispose", NoTag, {}, "dispose")
               batch == LoopFrame("batch", NoTag, Live, "dispose")
    <2>1. stack = <<>> /\ stack' = Append(Append(stack, disposal), batch)
      BY <1>14 DEF Dispose, MayCall, NoDisposeInCallbacks, Push
    <2>2. disposal.op = "dispose" BY DEF LoopFrame
    <2> HIDE DEF disposal, batch
    <2>3. stack'[1] = disposal BY <2>1
    <2> QED BY <2>2, <2>3 DEF TagLoop, Emptied
  <1>15. CASE HandleReturn BY <1>15, ReturnToTagLoop
  (* Only a request that a loop reaches is aborted: one frame more, or none. *)
  <1>16. ASSUME stack # <<>>, Top.op \in {"batch", "tag", "stale"}, n > 1,
                \A i \in 1..n - 1 : stack'[i] = stack[i], n - 1 <= Len(stack'),
                signalled \subseteq signalled', controllers' = controllers
         PROVE  Goal
    <2>1. ~ Emptied(stack[1]) /\ (stack[1].op = "tag" => n > 2) BY <1>16, BelowTop
    <2>2. n > 2 => Len(stack') > 1 /\ stack'[2] = stack[2] BY <1>2, <1>16
    <2>3. n >= 1 /\ stack'[1] = stack[1] BY <1>2, <1>16
    <2> QED BY <1>2, <1>16, <2>1, <2>2, <2>3, OutermostKept
  <1>17. ASSUME NEW id, NEW reason, NEW calls \in Seq(Frame), StartAbort(id, reason, calls),
                Len(calls) = n, \A i \in 1..n - 1 : calls[i] = stack[i]
         PROVE  /\ \A i \in 1..n : stack'[i] = calls[i]
                /\ n <= Len(stack') /\ signalled \subseteq signalled'
                /\ Len(stack') > n => /\ stack'[n + 1].op = "handle"
                                      /\ stack'[n + 1].entry = controllers[id]
                /\ Registered(id) => controllers[id].gen \in signalled'
    <2> DEFINE frame == [op |-> "handle", id |-> id, entry |-> controllers[id],
                         tag |-> NoTag, ids |-> {}, reason |-> reason]
    <2>1. signalled \subseteq signalled' /\ (Registered(id) => controllers[id].gen \in signalled')
      BY <1>17 DEF StartAbort
    <2>2. frame.op = "handle" /\ frame.entry = controllers[id] OBVIOUS
    <2>3. stack' = calls \/ stack' = Append(calls, frame) BY <1>17 DEF StartAbort
    <2> HIDE DEF frame
    <2> QED BY <1>2, <1>17, <2>1, <2>2, <2>3
  <1>18. CASE BatchStep
    <2>1. stack # <<>> /\ Top.op = "batch" /\ Top = stack[n] /\ n >= 1 /\ Top \in Frame
      BY <1>2, <1>18 DEF BatchStep, Top
    <2>2. PICK id \in Top.ids :
            StartAbort(id, Top.reason, Append(Caller, [Top EXCEPT !.ids = @ \ {id}]))
      BY <1>18 DEF BatchStep
    <2> DEFINE ids == Top.ids \ {id}
               calls == Append(Caller, [Top EXCEPT !.ids = ids])
    <2>3. ids \in SUBSET Ids BY <2>1 DEF Frame
    <2>4. /\ calls \in Seq(Frame) /\ Len(calls) = n
          /\ \A i \in 1..n - 1 : calls[i] = stack[i]
          /\ calls[n].op = "batch" /\ calls[n].reason = Top.reason
      BY <1>1, <2>1, <2>3, TopReplaced DEF n
    <2>5. StartAbort(id, Top.reason, calls) /\ controllers' = controllers
      BY <1>18, <2>2 DEF BatchStep
    <2> HIDE DEF calls, ids
    <2>6. /\ \A i \in 1..n : stack'[i] = calls[i]
          /\ n <= Len(stack') /\ signalled \subseteq signalled' BY <1>17, <2>4, <2>5
    <2>7. CASE n = 1
      <3>1. Top.reason # "tag-abort" BY <1>1, <2>1, <2>2, <2>7 DEF TagLoop, Emptied
      <3>2. stack'[1].op = "batch" /\ stack'[1].reason # "tag-abort" BY <2>4, <2>6, <2>7, <3>1
      <3> QED BY <3>2 DEF TagLoop, Emptied
    <2>8. CASE n # 1 BY <1>2, <1>16, <2>1, <2>4, <2>5, <2>6, <2>8
    <2> QED BY <2>7, <2>8
  <1>19. CASE TagStep
    <2>1. stack # <<>> /\ Top.op = "tag" /\ Top = stack[n] /\ n >= 1 /\ Top \in Frame
      BY <1>2, <1>19 DEF TagStep, Top
    <2>2. PICK id \in tagIndex[Top.tag] \ Top.ids :
            StartAbort(id, Top.reason, Append(Caller, [Top EXCEPT !.ids = @ \cup {id}]))
      BY <1>19 DEF TagStep
    <2> DEFINE ids == Top.ids \cup {id}
               calls == Append(Caller, [Top EXCEPT !.ids = ids])
    <2>3. /\ id \in Ids /\ ids \in SUBSET Ids
          /\ controllers[id] # NoEntry /\ Registered(id) /\ controllers[id].tag = Top.tag
      <3>1. Top.tag \in Tags /\ Top.ids \in SUBSET Ids BY <2>1 DEF Frame
      <3> QED BY <1>1, <2>2, <3>1 DEF TypeOK, RegistryInv, TagIndexExact, Live, Registered
    <2>4. /\ calls \in Seq(Frame) /\ Len(calls) = n
          /\ \A i \in 1..n - 1 : calls[i] = stack[i]
          /\ calls[n].op = "tag" /\ calls[n].ids = ids /\ calls[n].tag = Top.tag
      BY <1>1, <2>1, <2>3, TopReplaced DEF n
    <2>5. StartAbort(id, Top.reason, calls) /\ controllers' = controllers BY <1>19, <2>2 DEF TagStep
    <2> HIDE DEF calls
    <2>6. /\ \A i \in 1..n : stack'[i] = calls[i]
          /\ n <= Len(stack') /\ signalled \subseteq signalled'
          /\ Len(stack') > n => /\ stack'[n + 1].op = "handle"
                                /\ stack'[n + 1].entry = controllers[id]
          /\ controllers[id].gen \in signalled' BY <1>17, <2>3, <2>4, <2>5
    <2>7. CASE n = 1
      <3>1. stack'[1].op = "tag" /\ stack'[1].ids = ids /\ stack'[1].tag = Top.tag
        BY <2>4, <2>6, <2>7
      <3>2. Visited(Top, controllers, signalled) BY <1>1, <2>1, <2>7 DEF TagLoop
      <3>3. Visited(stack'[1], controllers', signalled') BY <2>3, <2>5, <2>6, <3>1, <3>2 DEF Visited
      <3>4. Len(stack') > 1 => stack'[2].op = "handle" /\ stack'[2].entry.tag = Top.tag
        BY <2>3, <2>6, <2>7
      <3> HIDE DEF ids
      <3> QED BY <3>1, <3>3, <3>4 DEF TagLoop, Emptied
    <2>8. CASE n # 1 BY <1>2, <1>16, <2>1, <2>4, <2>5, <2>6, <2>8
    <2> QED BY <2>7, <2>8
  <1>20. CASE StaleStep
    <2>1. stack # <<>> /\ Top.op = "stale" /\ Top = stack[n] /\ n >= 1
          /\ controllers' = controllers BY <1>2, <1>20 DEF StaleStep, Top
    <2>2. PICK id \in Stale : StartAbort(id, "stale", stack) BY <1>20 DEF StaleStep
    <2>3. /\ \A i \in 1..n : stack'[i] = stack[i]
          /\ n <= Len(stack') /\ signalled \subseteq signalled' BY <1>2, <1>17, <2>2
    <2>4. CASE n = 1 BY <2>1, <2>3, <2>4 DEF TagLoop, Emptied
    <2>5. CASE n # 1
      <3>1. n > 1 /\ n - 1 <= Len(stack') /\ \A i \in 1..n - 1 : stack'[i] = stack[i]
        <4>1. n \in Nat /\ n >= 1 /\ Len(stack') \in Nat BY <1>2, <2>1
        <4> HIDE DEF n
        <4> QED BY <2>3, <2>5, <4>1
      <3> QED BY <1>16, <2>1, <2>3, <3>1
    <2> QED BY <2>4, <2>5
  <1>21. CASE LoopReturn
    <2>1. /\ stack # <<>> /\ Top.op \in {"batch", "tag", "stale"} /\ stack' = Caller
          /\ UNCHANGED <<controllers, signalled>> BY <1>21 DEF LoopReturn
    <2>2. Len(stack') = n - 1 /\ \A i \in 1..n - 1 : stack'[i] = stack[i]
      BY <1>1, <2>1, CallerFacts DEF TypeOK
    <2>3. CASE n > 1 BY <1>2, <1>16, <2>1, <2>2, <2>3
    <2>4. CASE ~ n > 1 BY <1>2, <2>2, <2>4 DEF TagLoop
    <2> QED BY <2>3, <2>4
  <1>22. CASE DisposeReturn
    <2>1. stack # <<>> /\ Top.op = "dispose" /\ stack' = DetachLoops(Caller)
      BY <1>22 DEF DisposeReturn
    <2>2. n = 1
      <3>1. n \in 1..n /\ stack[n].op = "dispose" BY <1>2, <2>1 DEF Top
      <3> QED BY <1>1, <3>1 DEF RegistryInv, DisposeOutermost
    <2>3. Len(stack') = n - 1 BY <1>1, <2>1, CallerFacts, DetachLoopsFacts DEF TypeOK, SameCalls
    <2> QED BY <2>2, <2>3 DEF TagLoop
  <1>23. ASSUME NEW timer \in timers, FireTimer(timer) PROVE Goal BY <1>6, <1>23 DEF FireTimer
  <1>24. CASE Tick \/ UNCHANGED vars BY <1>1, <1>24 DEF Tick, vars
  <1> QED BY <1>7, <1>8, <1>9, <1>10, <1>11, <1>12, <1>13, <1>14, <1>15, <1>18, <1>19, <1>20,
       <1>21, <1>22, <1>23, <1>24 DEF Next, Call, Running

(* abortByTag leaves no request registered under the tag, however many its   *)
(* callbacks add: the loop over the live Set comes round to them too.        *)
THEOREM TagsAreEmptied ==
  ASSUME NoDisposeInCallbacks
  PROVE  Spec => AbortByTagEmptiesTag
  <1> DEFINE Act ==
        Len(stack) = 1 /\ stack' = <<>>
        /\ Top.reason = "tag-abort" /\ Top.op \in {"tag", "batch"}
        => tagIndex'[Top.tag] = {}
  <1>1. TagInv /\ [Next]_vars => [Act]_vars
    <2> SUFFICES ASSUME TagInv, [Next]_vars, Len(stack) = 1, stack' = <<>>,
                        Top.reason = "tag-abort", Top.op \in {"tag", "batch"}
                 PROVE  tagIndex'[Top.tag] = {}
      OBVIOUS
    <2>1. /\ TypeOK /\ RegistryInv /\ TagLoop(stack, controllers, signalled, tagIndex)
          /\ Top = stack[1] /\ stack # <<>> /\ Top \in Frame
      <3>1. TypeOK /\ RegistryInv /\ TagLoop(stack, controllers, signalled, tagIndex)
        BY DEF TagInv, RegistryInv
      <3>2. stack \in Seq(Frame) /\ 1 \in 1..Len(stack) /\ Len(<<>>) = 0 BY <3>1 DEF TypeOK
      <3>3. stack[1] \in Frame BY <3>2, ElementOfSeq
      <3> QED BY <3>1, <3>2, <3>3 DEF Top
    <2>2. ASSUME LoopReturn PROVE tagIndex'[Top.tag] = {}
      <3>1. tagIndex' = tagIndex BY <2>2 DEF LoopReturn, registry
      <3>2. CASE Top.op = "batch" BY <2>1, <3>1, <3>2 DEF TagLoop, Emptied
      <3>3. CASE Top.op = "tag"
        <4>1. Top.tag \in Tags /\ tagIndex[Top.tag] \subseteq Top.ids
          BY <2>1, <2>2, <3>3 DEF LoopReturn, Frame
        <4> SUFFICES ASSUME NEW id \in tagIndex[Top.tag] PROVE FALSE BY <3>1
        <4>2. id \in Live /\ controllers[id].gen \in signalled
          BY <2>1, <3>3, <4>1 DEF TagLoop, Visited, RegistryInv, TagIndexExact
        <4>3. \E i \in 1..1 : stack[i].op = "handle"
          BY <2>1, <4>2 DEF RegistryInv, AbortedInProgress
        <4> QED BY <2>1, <3>3, <4>3
      <3> QED BY <3>2, <3>3
    <2>3. ASSUME NEW id, NEW reason, NEW calls \in Seq(Frame), Len(calls) = 1,
                 StartAbort(id, reason, calls)
          PROVE  FALSE
      <3> DEFINE frame == [op |-> "handle", id |-> id, entry |-> controllers[id],
                           tag |-> NoTag, ids |-> {}, reason |-> reason]
      <3>1. stack' = calls \/ stack' = Append(calls, frame) BY <2>3 DEF StartAbort
      <3> HIDE DEF frame
      <3>2. Len(<<>>) = 0 OBVIOUS
      <3>3. Len(Append(calls, frame)) = Len(calls) + 1 OBVIOUS
      <3> QED BY <2>3, <3>1, <3>2, <3>3
    <2>4. ~ BatchStep /\ ~ TagStep
      <3>1. ASSUME NEW ids \in SUBSET Ids
            PROVE  /\ Append(Caller, [Top EXCEPT !.ids = ids]) \in Seq(Frame)
                   /\ Len(Append(Caller, [Top EXCEPT !.ids = ids])) = 1 BY <2>1, TopReplaced
      <3>2. Top.ids \in SUBSET Ids /\ (Top.op = "tag" => Top.tag \in Tags) BY <2>1 DEF Frame
      <3>3. ~ BatchStep
        <4> SUFFICES ASSUME BatchStep PROVE FALSE OBVIOUS
        <4>1. PICK id \in Top.ids :
                StartAbort(id, Top.reason, Append(Caller, [Top EXCEPT !.ids = @ \ {id}]))
          BY DEF BatchStep
        <4>2. Top.ids \ {id} \in SUBSET Ids BY <3>2
        <4> QED BY <2>3, <3>1, <4>1, <4>2
      <3>4. ~ TagStep
        <4> SUFFICES ASSUME TagStep PROVE FALSE OBVIOUS
        <4>1. PICK id \in tagIndex[Top.tag] \ Top.ids :
                StartAbort(id, Top.reason, Append(Caller, [Top EXCEPT !.ids = @ \cup {id}]))
          BY DEF TagStep
        <4>2. Top.op = "tag" BY DEF TagStep
        <4>3. Top.ids \cup {id} \in SUBSET Ids BY <2>1, <3>2, <4>1, <4>2 DEF TypeOK
        <4> QED BY <2>3, <3>1, <4>1, <4>3
      <3> QED BY <3>3, <3>4
    <2>5. ~ HandleReturn /\ ~ StaleStep /\ ~ DisposeReturn
      BY DEF HandleReturn, StaleStep, DisposeReturn
    <2>6. \A op : ~ MayCall(op) BY <2>1 DEF MayCall
    <2>7. ~ Call BY <2>6 DEF Call, CreateSignal, Abort, AbortByPattern, AbortAll, AbortByTag,
                  CleanupStaleControllers, ExtendTimeout, Dispose
    <2>8. ~ Tick /\ (\A timer \in timers : ~ FireTimer(timer)) /\ ~ UNCHANGED vars
      BY <2>1 DEF Tick, FireTimer, vars
    <2> QED BY <2>2, <2>4, <2>5, <2>7, <2>8 DEF Next, Running
  <1>2. TagInv /\ [Next]_vars => TagInv' BY TagNext
  <1> QED BY <1>1, <1>2, TagInit, PTL DEF Spec, AbortByTagEmptiesTag, Act
=============================================================================
