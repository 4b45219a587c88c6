--------------------------- MODULE CacheStrategy ---------------------------
(***************************************************************************)
(* core/cache/cache_strategy.js: a cache of at most MaxSize keys with      *)
(* priorities, tags, expiry and warming.  A call that inserts makes room   *)
(* first, a victim is chosen and removed two awaits before the insertion,  *)
(* and other calls come in between.  An entry is told by the call that set *)
(* it: those of LowCalls are small and of low priority, the others large   *)
(* and high.  Which victim of the lowest priority goes depends on the      *)
(* strategy and is left open, and so is which keys carry a tag.            *)
(***************************************************************************)
EXTENDS Naturals, Sequences, FiniteSets, SequencesExt

CONSTANTS Keys, CacheCalls, LowCalls, CacheLimit, Absent

VARIABLES cache,       \* key -> [by, life] or Absent
          accessOrder,
          warmingKeys,
          stats,       \* [size, memoryUsage]; not followed, the memory is Absent
          call,        \* calls that insert: [at, key, victim]
          sweep,       \* keys a walk over the cache still meets
          missed,      \* since it was empty, an eviction found its victim gone
          disposed

vars == <<cache, accessOrder, warmingKeys, stats, call, sweep, missed, disposed>>

Idle == [at |-> "none", key |-> Absent, victim |-> Absent]
Size(c) == IF c \in LowCalls THEN 1 ELSE 3

Init ==
  /\ cache = [k \in Keys |-> Absent]
  /\ accessOrder = <<>> /\ warmingKeys = {}
  /\ stats = [size |-> 0, memoryUsage |-> 0]
  /\ call = [c \in CacheCalls |-> Idle]
  /\ sweep = {} /\ missed = FALSE
  /\ disposed = FALSE

Cached == {k \in Keys : cache[k] # Absent}
Live(k) == cache[k] # Absent /\ cache[k].life # "expired"   \* has
Low == {k \in Cached : cache[k].by \in LowCalls}
Full == Cardinality(Cached) >= CacheLimit
Memory(m) == IF stats.memoryUsage = Absent THEN Absent ELSE m
Touched(k) == Append(RemoveFirst(accessOrder, k), k)   \* #updateAccessPatterns

(* Mutant: a key that is gone frees no memory. *)
M_Deleted(k) ==
  /\ cache' = [cache EXCEPT ![k] = Absent]
  /\ accessOrder' = RemoveFirst(accessOrder, k)
  /\ stats' = [stats EXCEPT !.size = IF cache[k] = Absent THEN @ ELSE @ - 1]
  /\ warmingKeys' = warmingKeys \ {k}

(* delete of a key that may be gone already. *)
Deleted(k) ==
  /\ cache' = [cache EXCEPT ![k] = Absent]
  /\ accessOrder' = RemoveFirst(accessOrder, k)
  /\ stats' = IF cache[k] = Absent THEN stats
              ELSE [size |-> Cardinality(Cached) - 1, memoryUsage |-> Memory(stats.memoryUsage - Size(cache[k].by))]
  /\ warmingKeys' = warmingKeys \ {k}

(* set up to its first await: #ensureCapacity. *)
Setting(k) == [at |-> IF Full THEN "victim" ELSE "insert", key |-> k, victim |-> Absent]

-----------------------------------------------------------------------------
Set(c, k) ==
  /\ call[c] = Idle
  /\ call' = [call EXCEPT ![c] = Setting(k)]
  /\ UNCHANGED <<cache, accessOrder, warmingKeys, stats, sweep, missed, disposed>>

(* #evictOne, #selectVictim: the low ones first. *)
SelectVictim(c) ==
  /\ call[c].at = "victim"
  /\ LET victims == IF Low # {} THEN Low ELSE Cached IN
     IF victims = {} THEN call' = [call EXCEPT ![c].at = "insert"]
     ELSE \E v \in victims : call' = [call EXCEPT ![c].at = "evict", ![c].victim = v]
  /\ UNCHANGED <<cache, accessOrder, warmingKeys, stats, sweep, missed, disposed>>

Evict(c) ==
  /\ call[c].at = "evict"
  /\ Deleted(call[c].victim)
  /\ call' = [call EXCEPT ![c].at = "insert", ![c].victim = Absent]
  /\ missed' = (missed \/ cache[call[c].victim] = Absent)
  /\ UNCHANGED <<sweep, disposed>>

(* set after its await; a walk meets a key that was not there before. An   *)
(* entry whose metadata names a size is counted by one size and goes by    *)
(* another: from then on the memory is not followed.                       *)
Insert(c, sized) ==
  /\ call[c].at = "insert"
  /\ LET k == call[c].key
         old == IF cache[k] = Absent THEN 0 ELSE Size(cache[k].by) IN
     /\ cache' = [cache EXCEPT ![k] = [by |-> c, life |-> "fresh"]]
     /\ accessOrder' = Touched(k)
     /\ stats' = [size |-> Cardinality(Cached \cup {k}),
                  memoryUsage |-> IF sized THEN Absent ELSE Memory(stats.memoryUsage - old + Size(c))]
     /\ warmingKeys' = IF c \in LowCalls THEN warmingKeys ELSE warmingKeys \cup {k}
     /\ sweep' = IF sweep # {} /\ cache[k] = Absent THEN sweep \cup {k} ELSE sweep
  /\ call' = [call EXCEPT ![c] = Idle]
  /\ UNCHANGED <<missed, disposed>>

(* The value cannot be serialized; what was evicted for it is gone. *)
InsertFails(c) ==
  /\ call[c].at = "insert"
  /\ call' = [call EXCEPT ![c] = Idle]
  /\ UNCHANGED <<cache, accessOrder, warmingKeys, stats, sweep, missed, disposed>>

(* get: a hit, or an expired entry that goes. *)
Get(k) ==
  /\ cache[k] # Absent
  /\ IF cache[k].life = "expired"
     THEN Deleted(k)
     ELSE accessOrder' = Touched(k) /\ UNCHANGED <<cache, warmingKeys, stats>>
  /\ UNCHANGED <<call, sweep, missed, disposed>>

(* getOrFetch after a miss, update before its updater: the value comes     *)
(* later and is set then, whatever happened to the key.                    *)
GetOrFetch(c, k) ==
  /\ call[c] = Idle /\ ~Live(k)
  /\ Deleted(k)
  /\ call' = [call EXCEPT ![c].at = "value", ![c].key = k]
  /\ UNCHANGED <<sweep, missed, disposed>>

Update(c, k) ==
  /\ call[c] = Idle /\ cache[k] # Absent
  /\ call' = [call EXCEPT ![c].at = "value", ![c].key = k]
  /\ UNCHANGED <<cache, accessOrder, warmingKeys, stats, sweep, missed, disposed>>

ValueArrives(c) ==
  /\ call[c].at = "value"
  /\ call' = [call EXCEPT ![c] = Setting(@.key)]
  /\ UNCHANGED <<cache, accessOrder, warmingKeys, stats, sweep, missed, disposed>>

(* The fetcher or the updater throws. *)
ValueFails(c) ==
  /\ call[c].at = "value"
  /\ call' = [call EXCEPT ![c] = Idle]
  /\ UNCHANGED <<cache, accessOrder, warmingKeys, stats, sweep, missed, disposed>>

Delete(k) ==
  /\ cache[k] # Absent
  /\ Deleted(k)
  /\ UNCHANGED <<call, sweep, missed, disposed>>

(* deleteByTag, #cleanupExpired: a delete, an await, the next one that has *)
(* the tag or is expired.                                                  *)
Walk ==
  /\ sweep = {} /\ Cached # {}
  /\ sweep' = Cached
  /\ UNCHANGED <<cache, accessOrder, warmingKeys, stats, call, missed, disposed>>

WalkOn(k) ==
  /\ k \in sweep
  /\ sweep' = sweep \ {k}
  /\ Deleted(k) \/ UNCHANGED <<cache, accessOrder, warmingKeys, stats>>
  /\ UNCHANGED <<call, missed, disposed>>

(* The clock. *)
Ages(k) ==
  /\ Live(k)
  /\ cache' = [cache EXCEPT ![k].life = IF @ = "fresh" THEN "stale" ELSE "expired"]
  /\ UNCHANGED <<accessOrder, warmingKeys, stats, call, sweep, missed, disposed>>

(* #warmCache: the entries of high priority start their time again. *)
WarmCache ==
  /\ \E k \in warmingKeys : cache[k].life = "stale"
  /\ cache' = [k \in Keys |-> IF k \in warmingKeys /\ cache[k].life = "stale"
                              THEN [cache[k] EXCEPT !.life = "fresh"] ELSE cache[k]]
  /\ UNCHANGED <<accessOrder, warmingKeys, stats, call, sweep, missed, disposed>>

Emptied ==
  /\ cache' = [k \in Keys |-> Absent]
  /\ accessOrder' = <<>> /\ warmingKeys' = {}
  /\ sweep' = {} /\ missed' = FALSE
  /\ UNCHANGED call

Clear ==
  /\ Cached # {} /\ Emptied
  /\ stats' = [size |-> 0, memoryUsage |-> 0]
  /\ UNCHANGED disposed

(* dispose leaves the statistics as they are. *)
Dispose == Cached # {} /\ Emptied /\ disposed' = TRUE /\ UNCHANGED stats

Next ==
  /\ ~disposed
  /\ \/ \E c \in CacheCalls : \/ SelectVictim(c) \/ Evict(c) \/ InsertFails(c)
                              \/ \E sized \in BOOLEAN : Insert(c, sized)
                              \/ ValueArrives(c) \/ ValueFails(c)
                              \/ \E k \in Keys : Set(c, k) \/ GetOrFetch(c, k) \/ Update(c, k)
     \/ \E k \in Keys : Get(k) \/ Delete(k) \/ Ages(k) \/ WalkOn(k)
     \/ Walk \/ WarmCache \/ Clear \/ Dispose

Spec == Init /\ [][Next]_vars

-----------------------------------------------------------------------------
TypeOK ==
  /\ \A k \in Keys : cache[k] = Absent \/ cache[k].by \in CacheCalls
  /\ ToSet(accessOrder) \subseteq Keys /\ warmingKeys \subseteq Keys
  /\ disposed \in BOOLEAN

Inserting == {c \in CacheCalls : call[c].at = "insert"}

(* What the cache keeps beside its entries agrees with them while calls    *)
(* overlap: the size and, as long as no caller names sizes, the memory it  *)
(* reports, the order of use, the keys it warms; and the limit is passed   *)
(* by fewer keys, those about to be inserted with them, than there are     *)
(* calls, unless an eviction found its victim gone: then one more stays.   *)
CacheIsAccounted ==
  ~disposed =>
    /\ stats.size = Cardinality(Cached)
    /\ stats.memoryUsage = Memory(Cardinality(Low) + 3 * Cardinality(Cached \ Low))
    /\ ToSet(accessOrder) = Cached /\ IsInjective(accessOrder)
    /\ warmingKeys \subseteq Cached
    /\ ~missed => Cardinality(Cached) + Cardinality(Inserting) < CacheLimit + Cardinality(CacheCalls)
=============================================================================
