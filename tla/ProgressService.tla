-------------------------- MODULE ProgressService --------------------------
(***************************************************************************)
(* features/lesson_engine/progress_service.js: the progress rows of a user *)
(* with the cache in front of the repository.  Calls overlap at their      *)
(* awaits, and the repository works at its own moment.  A row is its count *)
(* of repetitions.  Events, metrics and error texts are left out; input is *)
(* valid.                                                                  *)
(***************************************************************************)
EXTENDS Naturals

CONSTANTS Rows,       \* lessons of the user
          Asks,       \* calls in flight
          MaxCount,   \* bound: repetitions that are followed
          None

VARIABLES stored,     \* the repository
          cache,
          asks,
          raced       \* a row was put in the cache that was stored no more

vars == <<stored, cache, asks, raced>>

Counts == 0..MaxCount
Idle == [kind |-> "none", at |-> "idle", row |-> None, val |-> None, todo |-> {}]
NoCache == [r \in Rows |-> None]

Init ==
  /\ stored \in [Rows -> {None, 0}]
  /\ cache = NoCache
  /\ asks = [a \in Asks |-> Idle]
  /\ raced = FALSE

To(a, r) == asks' = [asks EXCEPT ![a] = r]
Wants(a, at, kinds) == asks[a].at = at /\ asks[a].kind \in kinds
Begin(a, kind, at, r, v) ==
  /\ asks[a] = Idle
  /\ To(a, [Idle EXCEPT !.kind = kind, !.at = at, !.row = r, !.val = v])
  /\ UNCHANGED <<stored, cache, raced>>

(* calculate_srs on the row that was read *)
Reviewed(v) == v + 1

-----------------------------------------------------------------------------
GetProgress(a, r) == cache[r] = None /\ Begin(a, "get", "ask", r, None)
GetAllProgress(a) == Begin(a, "all", "ask", None, None)
GetDueLessons(a) == Begin(a, "due", "ask", None, None)
InitializeProgress(a, r) == Begin(a, "init", "write", r, 0)
SaveProgress(a, r, v) == Begin(a, "save", "write", r, v)
DeleteProgress(a, r) == Begin(a, "delete", "write", r, None)

(* get_progress inside: a cached row is taken as it is. *)
UpdateProgress(a, r) ==
  IF cache[r] = None THEN Begin(a, "update", "ask", r, None)
  ELSE cache[r] < MaxCount /\ Begin(a, "update", "write", r, Reviewed(cache[r]))

SaveBulk(a, v) ==
  /\ asks[a] = Idle
  /\ To(a, [Idle EXCEPT !.kind = "bulk", !.at = "write", !.val = v, !.todo = Rows])
  /\ UNCHANGED <<stored, cache, raced>>

-----------------------------------------------------------------------------
(* The repository reads the row; the answer is on its way. *)
RepositoryReads(a) ==
  /\ asks[a].at = "ask"
  /\ To(a, [asks[a] EXCEPT !.at = "hold", !.val = IF @ = None /\ asks[a].row # None
                                                  THEN stored[asks[a].row] ELSE None])
  /\ UNCHANGED <<stored, cache, raced>>

Listed(a) ==
  /\ Wants(a, "hold", {"all", "due"})
  /\ To(a, Idle)
  /\ UNCHANGED <<stored, cache, raced>>

Found(a) ==
  /\ Wants(a, "hold", {"get", "update"}) /\ asks[a].val # None
  /\ cache' = [cache EXCEPT ![asks[a].row] = asks[a].val]
  /\ raced' = (raced \/ asks[a].val # stored[asks[a].row])
  /\ IF asks[a].kind = "get" THEN To(a, Idle)
     ELSE /\ asks[a].val < MaxCount
          /\ To(a, [asks[a] EXCEPT !.at = "write", !.val = Reviewed(@)])
  /\ UNCHANGED stored

NotFound(a) ==
  /\ Wants(a, "hold", {"get", "update"}) /\ asks[a].val = None
  /\ IF asks[a].kind = "get" THEN To(a, Idle)
     ELSE To(a, [asks[a] EXCEPT !.kind = "first", !.at = "write", !.val = 0])
  /\ UNCHANGED <<stored, cache, raced>>

(* The rows a call writes with its next request. *)
Writes(a) == IF asks[a].kind = "bulk" THEN {CHOOSE r \in asks[a].todo : TRUE} ELSE {asks[a].row}

RepositoryWrites(a) ==
  /\ asks[a].at = "write"
  /\ stored' = [r \in Rows |-> IF r \in Writes(a) THEN asks[a].val ELSE stored[r]]
  /\ To(a, [asks[a] EXCEPT !.at = "done"])
  /\ UNCHANGED <<cache, raced>>

EmptyCache == cache' = NoCache /\ raced' = FALSE

(* A write is answered: the cached rows of the user go. *)
Written(a) ==
  /\ asks[a].at = "done" /\ asks[a].kind # "bulk"
  /\ EmptyCache
  /\ IF asks[a].kind = "first"
     THEN To(a, [asks[a] EXCEPT !.kind = "update", !.at = "write", !.val = Reviewed(0)])
     ELSE To(a, Idle)
  /\ UNCHANGED stored

(* save_bulk_progress goes on with the next batch, written or given up,    *)
(* and empties the cache after the last.                                   *)
NextBatch(a, rest) ==
  IF rest = {} THEN To(a, Idle) /\ EmptyCache
  ELSE To(a, [asks[a] EXCEPT !.at = "write", !.todo = rest]) /\ UNCHANGED <<cache, raced>>

BatchWritten(a) ==
  /\ Wants(a, "done", {"bulk"})
  /\ NextBatch(a, asks[a].todo \ Writes(a))
  /\ UNCHANGED stored

(* with_retry: a request that fails without effect is made again, which is *)
(* no step here, and given up at the third failure.                        *)
GivenUp(a) ==
  /\ asks[a].at \in {"ask", "write"}
  /\ IF asks[a].kind = "bulk" THEN NextBatch(a, asks[a].todo \ Writes(a))
     ELSE To(a, Idle) /\ UNCHANGED <<cache, raced>>
  /\ UNCHANGED stored

(* The five minutes of a row, or the place of a newer one. *)
Expire(r) ==
  /\ cache[r] # None
  /\ cache' = [cache EXCEPT ![r] = None]
  /\ UNCHANGED <<stored, asks, raced>>

(* clear_cache, dispose *)
ClearCache ==
  /\ EmptyCache
  /\ UNCHANGED <<stored, asks>>

Call(a) ==
  \/ GetAllProgress(a) \/ GetDueLessons(a)
  \/ \E v \in {0} : SaveBulk(a, v)
  \/ \E r \in Rows : \/ GetProgress(a, r) \/ InitializeProgress(a, r)
                     \/ SaveProgress(a, r, MaxCount) \/ DeleteProgress(a, r)
                     \/ UpdateProgress(a, r)

Proceed(a) ==
  \/ RepositoryReads(a) \/ Listed(a) \/ Found(a) \/ NotFound(a)
  \/ RepositoryWrites(a) \/ Written(a) \/ BatchWritten(a) \/ GivenUp(a)

Next ==
  \/ \E a \in Asks : Call(a) \/ Proceed(a)
  \/ \E r \in Rows : Expire(r)
  \/ ClearCache

Spec == Init /\ [][Next]_vars

-----------------------------------------------------------------------------
TypeOK ==
  /\ stored \in [Rows -> Counts \cup {None}] /\ cache \in [Rows -> Counts \cup {None}]
  /\ \A a \in Asks : asks[a].todo \subseteq Rows /\ asks[a].val \in Counts \cup {None}

(* A cached row is the stored one, unless a write is not yet answered or a *)
(* read that a write overtook put its row into the cache: only that race   *)
(* leaves a stale row, and with it a review that starts from an old count, *)
(* and no longer than until the next write is answered.                    *)
CacheAgreesWithoutRace ==
  \A r \in Rows : cache[r] \notin {None, stored[r]} =>
    raced \/ \E a \in Asks : asks[a].at = "done" \/ asks[a].kind = "bulk"

=============================================================================
