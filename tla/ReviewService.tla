--------------------------- MODULE ReviewService ---------------------------
(***************************************************************************)
(* features/lesson_engine/review_service.js: reviews submitted and reset   *)
(* through the repository, the statistics kept in a cache, and the events  *)
(* of the emitter, shared by the instances of the service, that empty it.  *)
(* The instance that finds no listener adds its own; the one destroyed     *)
(* removes those of all.  A row is its version, statistics are the row     *)
(* they were counted from.  Lists of due cards have the time in their key  *)
(* and are never found again.                                              *)
(***************************************************************************)
EXTENDS Naturals

CONSTANTS Services,    \* instances
          Reviews,     \* calls in flight
          MaxVersion,  \* bound: versions of the row
          None

VARIABLES version,     \* repository: version of the row
          stats,       \* the version the cached statistics count, or None
          alive, listener,
          review,      \* calls: [op, by, seen]
          emptying,    \* requests to empty the cache, with failures so far
          stale        \* how old statistics were left: see StatsAgree

vars == <<version, stats, alive, listener, review, emptying, stale>>

Tries == 2             \* CACHE_RETRY_COUNT
Old(v) == v \notin {None, version}
NoReview == [op |-> "none", by |-> None, seen |-> 0]

Init ==
  /\ version = 0 /\ stats = None
  /\ alive = {} /\ listener = None
  /\ review = [r \in Reviews |-> NoReview]
  /\ emptying = {}
  /\ stale = FALSE

Set(r, v) == review' = [review EXCEPT ![r] = v]

(* constructor, _setupEventListeners *)
Create(s) ==
  /\ s \notin alive
  /\ alive' = alive \cup {s}
  /\ listener' = IF listener = None THEN s ELSE listener
  /\ UNCHANGED <<version, stats, review, emptying, stale>>

(* Mutant: the listener is left behind. *)
M_Destroy(s) ==
  /\ s \in alive
  /\ alive' = alive \ {s}
  /\ UNCHANGED <<version, stats, listener, review, emptying, stale>>

Destroy(s) ==
  /\ s \in alive
  /\ alive' = alive \ {s}
  /\ listener' = None
  /\ UNCHANGED <<version, stats, review, emptying, stale>>

-----------------------------------------------------------------------------
(* submitReview: the lesson exists, the version is read. *)
SubmitReview(r, s) ==
  /\ review[r] = NoReview /\ s \in alive
  /\ Set(r, [op |-> "submit", by |-> s, seen |-> version])
  /\ UNCHANGED <<version, stats, alive, listener, emptying, stale>>

ResetReview(r, s) ==
  /\ review[r] = NoReview /\ s \in alive
  /\ Set(r, [op |-> "reset", by |-> s, seen |-> 0])
  /\ UNCHANGED <<version, stats, alive, listener, emptying, stale>>

(* Mutant: a reset is not announced. *)
M_Stored(r) ==
  /\ \/ review[r].op = "submit" /\ review[r].seen = version
     \/ review[r].op = "reset"
  /\ version < MaxVersion
  /\ version' = version + 1
  /\ Set(r, IF review[r].op = "reset" THEN NoReview ELSE [review[r] EXCEPT !.op = "emit"])
  /\ UNCHANGED <<stats, alive, listener, emptying, stale>>

(* The repository takes a row whose version is the one that was read; a    *)
(* reset is taken as it is.                                                *)
Stored(r) ==
  /\ \/ review[r].op = "submit" /\ review[r].seen = version
     \/ review[r].op = "reset"
  /\ version < MaxVersion
  /\ version' = version + 1
  /\ Set(r, [review[r] EXCEPT !.op = "emit"])
  /\ UNCHANGED <<stats, alive, listener, emptying, stale>>

(* A conflict of versions or an error of the repository is thrown. *)
Refused(r) ==
  /\ review[r].op \in {"submit", "reset", "count"}
  /\ Set(r, NoReview)
  /\ UNCHANGED <<version, stats, alive, listener, emptying, stale>>

(* The event after the write: _handleReviewSubmitted and _handleReviewReset *)
(* start emptying the cache and do not wait. Nobody hears it when the      *)
(* listener went with another instance.                                    *)
Emitted(r) ==
  /\ review[r].op = "emit"
  /\ Set(r, NoReview)
  /\ emptying' = IF listener = None THEN emptying ELSE {0}
  /\ stale' = (stale \/ (listener = None /\ Old(stats)))
  /\ UNCHANGED <<version, stats, alive, listener>>

(* _safeCacheInvalidate *)
Emptied ==
  /\ emptying # {}
  /\ stats' = None /\ emptying' = {} /\ stale' = FALSE
  /\ UNCHANGED <<version, alive, listener, review>>

EmptyingFails ==
  /\ \E n \in emptying :
       /\ emptying' = IF n + 1 < Tries THEN {n + 1} ELSE {}
       /\ stale' = (stale \/ (n + 1 = Tries /\ Old(stats)))
  /\ UNCHANGED <<version, stats, alive, listener, review>>

-----------------------------------------------------------------------------
(* getReviewStats of a cache that has none *)
GetReviewStats(r, s) ==
  /\ review[r] = NoReview /\ s \in alive /\ stats = None
  /\ Set(r, [op |-> "count", by |-> s, seen |-> 0])
  /\ UNCHANGED <<version, stats, alive, listener, emptying, stale>>

RowsRead(r) ==
  /\ review[r].op = "count"
  /\ Set(r, [review[r] EXCEPT !.op = "stats", !.seen = version])
  /\ UNCHANGED <<version, stats, alive, listener, emptying, stale>>

(* The statistics are cached, or that fails and is logged. *)
StatsCounted(r) ==
  /\ review[r].op = "stats"
  /\ \/ stats' = review[r].seen /\ stale' = Old(review[r].seen)
     \/ UNCHANGED <<stats, stale>>
  /\ Set(r, NoReview)
  /\ UNCHANGED <<version, alive, listener, emptying>>

StatsExpire ==
  /\ stats # None
  /\ stats' = None /\ stale' = FALSE
  /\ UNCHANGED <<version, alive, listener, review, emptying>>

Next ==
  \/ \E s \in Services : Create(s) \/ Destroy(s)
  \/ \E r \in Reviews :
       \/ \E s \in Services : SubmitReview(r, s) \/ ResetReview(r, s) \/ GetReviewStats(r, s)
       \/ Stored(r) \/ Refused(r) \/ Emitted(r) \/ RowsRead(r) \/ StatsCounted(r)
  \/ Emptied \/ EmptyingFails \/ StatsExpire

Spec == Init /\ [][Next]_vars

-----------------------------------------------------------------------------
TypeOK ==
  /\ version \in 0..MaxVersion /\ stats \in 0..MaxVersion \cup {None}
  /\ alive \subseteq Services /\ listener \in alive \cup {None}
  /\ emptying \subseteq 0..(Tries - 1)

(* Cached statistics count the stored row, or are about to go.  Three      *)
(* things leave old ones, each until the cache is next emptied or filled:  *)
(* a row stored while they were counted, an event nobody heard because     *)
(* another instance was destroyed, a cache that twice could not be emptied. *)
StatsAgree ==
  stats \notin {None, version} =>
    stale \/ emptying # {} \/ \E r \in Reviews : review[r].op = "emit"
=============================================================================
