---------------------------- MODULE AbortManager ----------------------------
(***************************************************************************)
(* core/abort/abort_manager.js: the singleton that owns the AbortController *)
(* of every request in flight.  A request is registered under a string id  *)
(* (#controllers), optionally grouped by a tag (#tagIndex), aborted by a    *)
(* timer, by a caller or by the hourly sweep, and told so through onAbort.  *)
(*                                                                         *)
(* Aborting is synchronous: controller.abort() runs #handleAbort, which     *)
(* calls the request's onAbort before it removes the request, and onAbort   *)
(* may call the manager again.  `stack` is that JavaScript call stack: a    *)
(* frame per abort whose callback is running and per loop over requests.    *)
(* Timers fire, and time passes, only when the stack is empty.             *)
(***************************************************************************)
EXTENDS Integers, Sequences, FiniteSets

CONSTANTS
  Ids,            \* request ids
  Tags,           \* group tags
  NoTag, NoId,    \* options.tag absent; a frame that is about no request
  Timeouts,       \* the timeouts callers pass, in ticks; 0 = no timer
  MaxConcurrent,  \* options.maxConcurrent
  MaxHistory,     \* #maxHistorySize
  MaxAge,         \* cleanupStaleControllers' maxAge
  CallbackOps,    \* what an onAbort callback may call
  MaxGen,         \* bound: requests created in a behaviour
  MaxTimers,      \* bound: timers pending at once
  MaxDepth,       \* bound: nested calls
  MaxTime         \* bound: the clock, and when a timer may be due

ASSUME NumbersAssumption ==
  /\ Timeouts \subseteq Nat
  /\ MaxConcurrent \in Nat
  /\ MaxHistory \in Nat \ {0}
  /\ MaxAge \in Nat
ASSUME NullsAssumption == NoTag \notin Tags /\ NoId \notin Ids
ASSUME IdsAssumption == IsFiniteSet(Ids)

Reasons == {"manual", "timeout", "extended-timeout", "pattern-abort",
            "tag-abort", "global-abort", "stale", "dispose"}

VARIABLES
  controllers,   \* id -> its entry, or NoEntry
  signalled,     \* AbortControllers (by creation number) whose signal aborted
  tagIndex,      \* tag -> ids of its Set; {} = no such key
  abortedCount,  \* #abortedCount
  abortHistory,  \* #abortHistory, newest first
  timers,        \* pending setTimeout callbacks
  stack,         \* active calls, innermost last
  nextGen,       \* creation number of the next AbortController
  now            \* Date.now()

vars == <<controllers, signalled, tagIndex, abortedCount, abortHistory,
          timers, stack, nextGen, now>>
registry == <<controllers, tagIndex>>
aborts == <<signalled, abortedCount, abortHistory>>

Entry == [gen : Nat, createdAt : Nat, timeout : Timeouts,
          tag : Tags \cup {NoTag}, onAbort : BOOLEAN]
NoEntry == [gen |-> -1, createdAt |-> 0, timeout |-> 0, tag |-> NoTag,
            onAbort |-> FALSE]

(* `gen` is the request the timer was armed for: the callback itself only   *)
(* remembers the id.                                                       *)
Timer == [id : Ids, gen : Nat, due : Nat, reason : Reasons]

(* handle: #handleAbort(id) inside entry.onAbort; batch: a loop over a      *)
(* snapshot of ids; tag: the loop over a live tag Set; stale: the loop of   *)
(* cleanupStaleControllers; dispose: the rest of dispose() after abortAll.  *)
Frame ==
  {f \in [op : {"handle", "batch", "tag", "stale", "dispose"},
          id : Ids \cup {NoId}, entry : Entry \cup {NoEntry},
          tag : Tags \cup {NoTag}, ids : SUBSET Ids, reason : Reasons] :
     /\ f.op = "tag" => f.tag \in Tags
     /\ f.op = "handle" => f.id \in Ids /\ f.entry \in Entry}

Registered(id) == controllers[id] # NoEntry
Live == {id \in Ids : Registered(id)}
Top == stack[Len(stack)]
Caller == SubSeq(stack, 1, Len(stack) - 1)
Push(frame) == Append(stack, frame)

LoopFrame(op, tag, ids, reason) ==
  [op |-> op, id |-> NoId, entry |-> NoEntry, tag |-> tag, ids |-> ids,
   reason |-> reason]

(* The program runs either no call at all or the onAbort of the top frame.  *)
MayCall(op) ==
  stack # <<>> => /\ Len(stack) < MaxDepth
                  /\ Top.op = "handle"
                  /\ Top.entry.onAbort
                  /\ op \in CallbackOps

Init ==
  /\ controllers = [id \in Ids |-> NoEntry]
  /\ signalled = {}
  /\ tagIndex = [t \in Tags |-> {}]
  /\ abortedCount = 0
  /\ abortHistory = <<>>
  /\ timers = {}
  /\ stack = <<>>
  /\ nextGen = 0
  /\ now = 0
-----------------------------------------------------------------------------
(* Operators named M_ are the definition below them with a bug planted.     *)

(* Two timers armed alike, in the same tick, are one. *)
AddTimer(id, gen, after, reason) ==
  /\ Cardinality(timers) < MaxTimers
  /\ now + after <= MaxTime
  /\ timers' = timers \cup
       {[id |-> id, gen |-> gen, due |-> now + after, reason |-> reason]}

IndexTag(id, tag) ==
  tagIndex' = [t \in Tags |-> IF t = tag THEN tagIndex[t] \cup {id}
                                         ELSE tagIndex[t]]

M_IdFree(id) == ~ Registered(id) \/ controllers[id].gen \in signalled
IdFree(id) == ~ Registered(id)

HasRoom == Cardinality(Live) < MaxConcurrent

HasTimeout(timeout) == timeout > 0

CreateSignal(id, tag, timeout, onAbort) ==
  /\ MayCall("create")
  /\ nextGen < MaxGen
  /\ IdFree(id)
  /\ HasRoom
  /\ controllers' = [controllers EXCEPT ![id] =
                       [gen |-> nextGen, createdAt |-> now, timeout |-> timeout,
                        tag |-> tag, onAbort |-> onAbort]]
  /\ IndexTag(id, tag)
  /\ IF HasTimeout(timeout)
       THEN AddTimer(id, nextGen, timeout, "timeout")
       ELSE UNCHANGED timers
  /\ nextGen' = nextGen + 1
  /\ UNCHANGED <<aborts, stack, now>>

Recorded(history) ==
  IF Len(history) > MaxHistory THEN SubSeq(history, 1, Len(history) - 1)
                               ELSE history

(* controller.abort(reason) as seen by the caller whose own frame, if it    *)
(* has one, is already the last of `calls`: the signal aborts and           *)
(* #handleAbort counts the abort, records it and enters onAbort.  A signal   *)
(* that has already aborted ignores the call.                              *)
StartAbort(id, reason, calls) ==
  LET entry == controllers[id] IN
  IF Registered(id) /\ entry.gen \notin signalled
    THEN /\ signalled' = signalled \cup {entry.gen}
         /\ abortedCount' = abortedCount + 1
         /\ abortHistory' =
              Recorded(<<[id |-> id, gen |-> entry.gen, reason |-> reason,
                          at |-> now]>> \o abortHistory)
         /\ stack' = Append(calls, [op |-> "handle", id |-> id, entry |-> entry,
                                    tag |-> NoTag, ids |-> {}, reason |-> reason])
    ELSE /\ stack' = calls
         /\ UNCHANGED aborts

(* The rest of #handleAbort once onAbort has returned or thrown.  A loop    *)
(* over the tag's Set no longer skips the id if it is added again; a loop   *)
(* over a Set that became empty and left the index sees no later member.    *)
ForgetInLoops(calls, id, tag) ==
  [i \in DOMAIN calls |->
     LET f == calls[i] IN
     IF f.op = "tag" /\ f.tag = tag
       THEN IF tagIndex[tag] \subseteq {id}
              THEN [f EXCEPT !.op = "batch", !.ids = {}]
              ELSE [f EXCEPT !.ids = @ \ {id}]
       ELSE f]

M_UnregisterOnly(id, tag) ==
  /\ controllers' = [controllers EXCEPT ![id] = NoEntry]
  /\ UNCHANGED tagIndex
Unregister(id, tag) ==
  /\ tagIndex' = [t \in Tags |-> IF t = tag THEN tagIndex[t] \ {id}
                                            ELSE tagIndex[t]]
  /\ controllers' = [controllers EXCEPT ![id] = NoEntry]

HandleReturn ==
  /\ stack # <<>> /\ Top.op = "handle"
  /\ Unregister(Top.id, Top.entry.tag)
  /\ stack' = ForgetInLoops(Caller, Top.id, Top.entry.tag)
  /\ UNCHANGED <<aborts, timers, nextGen, now>>
-----------------------------------------------------------------------------
Abort(id) ==
  /\ MayCall("abort")
  /\ Registered(id)
  /\ controllers[id].gen \notin signalled
  /\ StartAbort(id, "manual", stack)
  /\ UNCHANGED <<registry, timers, nextGen, now>>

(* `ids` are the registered ids the pattern matches. *)
AbortByPattern(ids) ==
  /\ MayCall("abortByPattern")
  /\ ids # {} /\ ids \subseteq Live
  /\ stack' = Push(LoopFrame("batch", NoTag, ids, "pattern-abort"))
  /\ UNCHANGED <<registry, aborts, timers, nextGen, now>>

AbortAll ==
  /\ MayCall("abortAll")
  /\ Live # {}
  /\ stack' = Push(LoopFrame("batch", NoTag, Live, "global-abort"))
  /\ UNCHANGED <<registry, aborts, timers, nextGen, now>>

M_AbortByTag(tag) ==
  /\ MayCall("abortByTag")
  /\ tagIndex[tag] # {}
  /\ stack' = Push(LoopFrame("batch", tag, tagIndex[tag], "tag-abort"))
  /\ UNCHANGED <<registry, aborts, timers, nextGen, now>>
AbortByTag(tag) ==
  /\ MayCall("abortByTag")
  /\ tagIndex[tag] # {}
  /\ stack' = Push(LoopFrame("tag", tag, {}, "tag-abort"))
  /\ UNCHANGED <<registry, aborts, timers, nextGen, now>>

(* One id of a loop: over a snapshot, `ids` is what is left of it; over a   *)
(* live tag Set, `ids` is what the loop has visited.                       *)
BatchStep ==
  /\ stack # <<>> /\ Top.op = "batch"
  /\ \E id \in Top.ids :
       StartAbort(id, Top.reason,
                  Append(Caller, [Top EXCEPT !.ids = @ \ {id}]))
  /\ UNCHANGED <<registry, timers, nextGen, now>>

TagStep ==
  /\ stack # <<>> /\ Top.op = "tag"
  /\ \E id \in tagIndex[Top.tag] \ Top.ids :
       StartAbort(id, Top.reason,
                  Append(Caller, [Top EXCEPT !.ids = @ \cup {id}]))
  /\ UNCHANGED <<registry, timers, nextGen, now>>

(* cleanupStaleControllers: registered, older than maxAge, signal not yet   *)
(* aborted.  The clock stands still while the loop runs.                   *)
Stale == {id \in Live : /\ now - controllers[id].createdAt > MaxAge
                        /\ controllers[id].gen \notin signalled}

CleanupStaleControllers ==
  /\ MayCall("cleanupStaleControllers")
  /\ Stale # {}
  /\ stack' = Push(LoopFrame("stale", NoTag, {}, "stale"))
  /\ UNCHANGED <<registry, aborts, timers, nextGen, now>>

StaleStep ==
  /\ stack # <<>> /\ Top.op = "stale"
  /\ \E id \in Stale : StartAbort(id, "stale", stack)
  /\ UNCHANGED <<registry, timers, nextGen, now>>

LoopReturn ==
  /\ stack # <<>>
  /\ \/ Top.op = "batch" /\ Top.ids = {}
     \/ Top.op = "tag" /\ tagIndex[Top.tag] \subseteq Top.ids
     \/ Top.op = "stale" /\ Stale = {}
  /\ stack' = Caller
  /\ UNCHANGED <<registry, aborts, timers, nextGen, now>>
-----------------------------------------------------------------------------
M_Dispose ==
  /\ MayCall("dispose")
  /\ stack' = Push(LoopFrame("dispose", NoTag, {}, "dispose"))
  /\ UNCHANGED <<registry, aborts, timers, nextGen, now>>
Dispose ==
  /\ MayCall("dispose")
  /\ stack' = Append(Push(LoopFrame("dispose", NoTag, {}, "dispose")),
                      LoopFrame("batch", NoTag, Live, "dispose"))
  /\ UNCHANGED <<registry, aborts, timers, nextGen, now>>

(* After abortAll: both maps, the counter and the history are dropped; the  *)
(* pending timers are not.  Clearing the index detaches the Sets that loops *)
(* further out iterate: they go on over the members they had.              *)
DetachLoops(calls) ==
  [i \in DOMAIN calls |->
     LET f == calls[i] IN
     IF f.op = "tag" THEN [f EXCEPT !.op = "batch", !.ids = tagIndex[f.tag] \ @]
                     ELSE f]

DisposeReturn ==
  /\ stack # <<>> /\ Top.op = "dispose"
  /\ controllers' = [id \in Ids |-> NoEntry]
  /\ tagIndex' = [t \in Tags |-> {}]
  /\ abortedCount' = 0
  /\ abortHistory' = <<>>
  /\ stack' = DetachLoops(Caller)
  /\ UNCHANGED <<signalled, timers, nextGen, now>>

(* A second timer is armed; the one of createSignal stays. *)
ExtendTimeout(id, additionalTime) ==
  /\ MayCall("extendTimeout")
  /\ Registered(id)
  /\ AddTimer(id, controllers[id].gen, additionalTime, "extended-timeout")
  /\ UNCHANGED <<registry, aborts, stack, nextGen, now>>

(* The callbacks of #setupAutoTimeout and extendTimeout: whatever request   *)
(* now has the id is aborted.                                              *)
M_FireTimer(timer) ==
  /\ stack = <<>>
  /\ timer.due <= now
  /\ timers' = timers \ {timer}
  /\ UNCHANGED <<registry, aborts, stack, nextGen, now>>
FireTimer(timer) ==
  /\ stack = <<>>
  /\ timer.due <= now
  /\ timers' = timers \ {timer}
  /\ StartAbort(timer.id, timer.reason, stack)
  /\ UNCHANGED <<registry, nextGen, now>>

Tick ==
  /\ stack = <<>>
  /\ now < MaxTime
  /\ now' = now + 1
  /\ UNCHANGED <<registry, aborts, timers, stack, nextGen>>

Call ==
  \/ \E id \in Ids, tag \in Tags \cup {NoTag}, timeout \in Timeouts,
        onAbort \in BOOLEAN : CreateSignal(id, tag, timeout, onAbort)
  \/ \E id \in Ids : Abort(id)
  \/ \E ids \in SUBSET Ids : AbortByPattern(ids)
  \/ AbortAll
  \/ \E tag \in Tags : AbortByTag(tag)
  \/ CleanupStaleControllers
  \/ \E id \in Ids, additionalTime \in Timeouts \ {0} :
       ExtendTimeout(id, additionalTime)
  \/ Dispose

Running == HandleReturn \/ BatchStep \/ TagStep \/ StaleStep \/ LoopReturn
           \/ DisposeReturn

Next == Call \/ Running \/ (\E timer \in timers : FireTimer(timer)) \/ Tick

Spec == Init /\ [][Next]_vars

(* A callback returns; a due timer fires; time passes; the interval of      *)
(* #startAutoCleanup keeps running.                                        *)
FairSpec ==
  /\ Spec
  /\ WF_vars(Running)
  /\ SF_vars(HandleReturn)
  /\ \A id \in Ids, gen \in 0..MaxGen - 1, due \in 0..MaxTime, reason \in Reasons :
       LET timer == [id |-> id, gen |-> gen, due |-> due, reason |-> reason]
       IN  WF_vars(timer \in timers /\ FireTimer(timer))
  /\ WF_vars(Tick)
  /\ WF_vars(stack = <<>> /\ CleanupStaleControllers)
-----------------------------------------------------------------------------
TypeOK ==
  /\ controllers \in [Ids -> Entry \cup {NoEntry}]
  /\ signalled \in SUBSET Nat
  /\ tagIndex \in [Tags -> SUBSET Ids]
  /\ abortedCount \in Nat
  /\ abortHistory \in Seq([id : Ids, gen : Nat, reason : Reasons, at : Nat])
  /\ timers \in SUBSET Timer
  /\ stack \in Seq(Frame)
  /\ nextGen \in Nat
  /\ now \in Nat

(* #tagIndex is exactly the index of #controllers by tag, at every point a  *)
(* callback can observe it: it is maintained by hand in createSignal and,   *)
(* after the callback, in #handleAbort.                                    *)
TagIndexExact ==
  \A t \in Tags : tagIndex[t] = {id \in Live : controllers[id].tag = t}

(* createSignal never lets more than maxConcurrent requests be registered,  *)
(* also when callbacks register requests in the middle of an abort.         *)
CapacityRespected == Cardinality(Live) <= MaxConcurrent

(* The request an active #handleAbort is about to remove is the one it was  *)
(* called for: no callback has replaced it under the same id.              *)
HandlesRemoveTheirOwn ==
  \A i \in DOMAIN stack :
    stack[i].op = "handle" => controllers[stack[i].id] = stack[i].entry

(* Once no call is active, an aborted request is no longer registered: it   *)
(* does not hold a slot or block its id.                                   *)
NoAbortedLeftovers ==
  stack = <<>> => \A id \in Live : controllers[id].gen \notin signalled

(* A request with a timeout that is still running has its timer pending, so *)
(* that it cannot outlive the timeout unnoticed.                           *)
TimedRequestsHaveTimers ==
  \A id \in Live :
    LET entry == controllers[id] IN
    entry.timeout > 0 /\ entry.gen \notin signalled =>
      [id |-> id, gen |-> entry.gen, due |-> entry.createdAt + entry.timeout,
       reason |-> "timeout"] \in timers

(* The registry is exact, within its limit and watched by its timers: the   *)
(* bookkeeping createSignal and #handleAbort do by hand around callbacks.   *)
RegistryExact == TagIndexExact /\ CapacityRespected /\ TimedRequestsHaveTimers

(* Aborts complete: #handleAbort removes the request it was called for,     *)
(* whatever its callback did, and leaves nothing aborted behind.            *)
AbortsComplete == HandlesRemoveTheirOwn /\ NoAbortedLeftovers

(* A request that is no longer registered has had its signal aborted: the   *)
(* manager never forgets a request that still runs.                        *)
NoRunningRequestDropped ==
  \A gen \in 0..nextGen - 1 :
    gen \in signalled \/ \E id \in Live : controllers[id].gen = gen

(* When abortByTag returns to its outermost caller, no request with the tag *)
(* is registered, the ones callbacks added under way included.             *)
AbortByTagEmptiesTag ==
  [][/\ Len(stack) = 1 /\ stack' = <<>>
     /\ Top.reason = "tag-abort" /\ Top.op \in {"tag", "batch"}
     => tagIndex'[Top.tag] = {}]_vars

(* Every request ends: with a timeout through its timer, without one        *)
(* through the sweep (if the clock of the model gets that far).            *)
RequestsEnd ==
  \A gen \in 0..MaxGen - 1 :
    (\E id \in Live :
       /\ controllers[id].gen = gen
       /\ \/ controllers[id].timeout > 0
          \/ controllers[id].createdAt + MaxAge < MaxTime)
    ~> (\A id \in Live : controllers[id].gen # gen)
=============================================================================
