------------------------------ MODULE Router ------------------------------
(***************************************************************************)
(* core/navigation/router.js: navigations to paths through the middlewares *)
(* and the component of the route, with a cache whose entries end with the *)
(* signal they were loaded under, a history, metrics, a limit of           *)
(* navigations per path and time, and prefetching.  Middlewares and        *)
(* components are external: they answer, refuse or throw, whatever became  *)
(* of the signal.                                                          *)
(***************************************************************************)
EXTENDS Naturals, Sequences, FiniteSets

CONSTANTS Paths, Navigations, MaxNavigation,   \* 30 in the code
          MaxAborts,                           \* bound
          MaxHistory, MaxMisses,               \* bounds
          NoPage

VARIABLES routes,
          page,        \* cached: path -> signal or NoPage
          signal,      \* the current controller
          navigation,  \* [at, path, signal]
          history,     \* [path, cached]
          attempts,    \* recent navigations of a path
          metrics,     \* [hits, misses, navigations, errors]
          prefetch_queue, prefetching,
          served       \* the last page from the cache: its signal, or NoPage

vars == <<routes, page, signal, navigation, history, attempts, metrics,
          prefetch_queue, prefetching, served>>

Idle == [at |-> "none", path |-> NoPage, signal |-> 0]

Init ==
  /\ routes = {} /\ page = [p \in Paths |-> NoPage] /\ signal = 0
  /\ navigation = [n \in Navigations |-> Idle]
  /\ history = <<>> /\ attempts = [p \in Paths |-> 0]
  /\ metrics = [hits |-> 0, misses |-> 0, navigations |-> 0, errors |-> 0]
  /\ prefetch_queue = <<>> /\ prefetching = FALSE /\ served = NoPage

prefetches == <<prefetch_queue, prefetching>>

-----------------------------------------------------------------------------
AddRoute(p) ==
  /\ p \notin routes /\ routes' = routes \cup {p}
  /\ UNCHANGED <<page, signal, navigation, history, attempts, metrics, prefetches, served>>

(* get_cache: an entry whose signal was aborted is not given. *)
Valid(p) == page[p] = signal

(* navigate_to up to its first await: the limit, the cache, the route. *)
NavigateTo(n, p) ==
  /\ navigation[n] = Idle /\ Len(history) < MaxHistory
  /\ attempts[p] < MaxNavigation /\ metrics.misses < MaxMisses
  /\ attempts' = [attempts EXCEPT ![p] = @ + 1]
  /\ IF Valid(p)
     THEN /\ metrics' = [metrics EXCEPT !.hits = @ + 1]
          /\ history' = Append(history, [path |-> p, cached |-> TRUE])
          /\ served' = page[p]
          /\ UNCHANGED <<page, navigation>>
     ELSE /\ page' = [page EXCEPT ![p] = NoPage]
          /\ IF p \in routes
             THEN /\ navigation' = [navigation EXCEPT ![n] =
                                      [at |-> "middlewares", path |-> p, signal |-> signal]]
                  /\ metrics' = [metrics EXCEPT !.misses = @ + 1]
             ELSE /\ metrics' = [metrics EXCEPT !.misses = @ + 1, !.errors = @ + 1]
                  /\ UNCHANGED navigation
          /\ UNCHANGED <<history, served>>
  /\ UNCHANGED <<routes, signal, prefetches>>

Proceed(n) ==
  /\ navigation[n].at = "middlewares"
  /\ navigation' = [navigation EXCEPT ![n].at = "component"]
  /\ UNCHANGED <<routes, page, signal, history, attempts, metrics, prefetches, served>>

(* A middleware blocks it or something throws. *)
Fails(n) ==
  /\ navigation[n].at # "none"
  /\ navigation' = [navigation EXCEPT ![n] = Idle]
  /\ metrics' = [metrics EXCEPT !.errors = @ + 1]
  /\ UNCHANGED <<routes, page, signal, history, attempts, prefetches, served>>

(* The component is there: the history, and the cache if it can be cloned. *)
Navigated(n) ==
  /\ navigation[n].at = "component" /\ Len(history) < MaxHistory
  /\ LET p == navigation[n].path IN
     /\ history' = Append(history, [path |-> p, cached |-> FALSE])
     /\ page' \in {page, [page EXCEPT ![p] = navigation[n].signal]}
  /\ metrics' = [metrics EXCEPT !.navigations = @ + 1]
  /\ navigation' = [navigation EXCEPT ![n] = Idle]
  /\ UNCHANGED <<routes, signal, attempts, prefetches, served>>

(* abort_all: a new controller; what runs goes on. *)
AbortAll ==
  /\ signal < MaxAborts /\ signal' = signal + 1 /\ served' = NoPage
  /\ UNCHANGED <<routes, page, navigation, history, attempts, metrics, prefetches>>

(* The minute of an attempt is over; an entry of the cache is too old. *)
WindowEnds(p) ==
  /\ attempts[p] > 0 /\ attempts' = [attempts EXCEPT ![p] = @ - 1]
  /\ UNCHANGED <<routes, page, signal, navigation, history, metrics, prefetches, served>>

CacheExpires(p) ==
  /\ page[p] # NoPage /\ page' = [page EXCEPT ![p] = NoPage]
  /\ UNCHANGED <<routes, signal, navigation, history, attempts, metrics, prefetches, served>>

(* prefetch_routes: one processor takes them one by one; its components    *)
(* are loaded and forgotten.                                               *)
PrefetchRoutes(p) ==
  /\ Len(prefetch_queue) < 1   \* bound
  /\ prefetch_queue' = IF prefetching THEN Append(prefetch_queue, p) ELSE prefetch_queue
  /\ prefetching' = TRUE
  /\ UNCHANGED <<routes, page, signal, navigation, history, attempts, metrics, served>>

Prefetched ==
  /\ prefetching
  /\ IF prefetch_queue = <<>> THEN prefetching' = FALSE /\ UNCHANGED prefetch_queue
     ELSE prefetch_queue' = Tail(prefetch_queue) /\ UNCHANGED prefetching
  /\ UNCHANGED <<routes, page, signal, navigation, history, attempts, metrics, served>>

Next ==
  \/ \E p \in Paths : \/ AddRoute(p) \/ WindowEnds(p) \/ CacheExpires(p) \/ PrefetchRoutes(p)
                      \/ \E n \in Navigations : NavigateTo(n, p)
  \/ \E n \in Navigations : Proceed(n) \/ Fails(n) \/ Navigated(n)
  \/ AbortAll \/ Prefetched

Spec == Init /\ [][Next]_vars

-----------------------------------------------------------------------------
TypeOK ==
  /\ routes \subseteq Paths /\ signal \in 0..MaxAborts
  /\ \A p \in Paths : attempts[p] \in 0..MaxNavigation
  /\ prefetching \in BOOLEAN

(* Navigations overlap, are aborted and fail, and still: a page from the   *)
(* cache was loaded under a signal that was not aborted, every miss became *)
(* a navigation, an error or still runs, the history has the hits and the  *)
(* navigations, and paths wait only while they are prefetched.             *)
NavigationIsAccounted ==
  /\ served \in {NoPage, signal}
  /\ metrics.misses = metrics.navigations + metrics.errors
                      + Cardinality({n \in Navigations : navigation[n] # Idle})
  /\ \A c \in BOOLEAN : Cardinality({i \in DOMAIN history : history[i].cached = c})
                        = IF c THEN metrics.hits ELSE metrics.navigations
  /\ prefetch_queue # <<>> => prefetching
=============================================================================
