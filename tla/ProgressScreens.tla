-------------------------- MODULE ProgressScreens ---------------------------
(***************************************************************************)
(* Pages and components that show what was earned: the screen of           *)
(* achievements, the badges, the home screen. The machines share no state. *)
(***************************************************************************)
EXTENDS Naturals, Sequences, SequencesExt, FiniteSets

-----------------------------------------------------------------------------
(***************************************************************************)
(* ui/screens/achievements_screen.js: loads that overlap, each first asked *)
(* of a cache and then of the services (external), the filter, the network *)
(* and the end of the screen, whose timers and loads go on behind it.  The *)
(* second module pasted into the file, FeatureFlags, says which of the     *)
(* background sync's messages there are.                                   *)
(***************************************************************************)

CONSTANTS ScreenLoads,  \* loads in flight
          Filters,      \* filterType
          Gone          \* #currentState of a screen that was destroyed

VARIABLES screen_state, \* [isLoading, error, achievements, listed, filterType], or Gone
          isOffline,
          cached_data,  \* the cache has all three lists
          screen_load,  \* loads: "none", "cache", "fetch", "fresh"
          background_sync, \* the flag BACKGROUND_SYNC
          overtaken,    \* a load began while another was under way
          kept,         \* a load failed over achievements that are shown
          broken        \* a drawing threw since the last load began

screen_vars == <<screen_state, isOffline, cached_data, screen_load, background_sync, overtaken, kept, broken>>

(* #getInitialState *)
InitialState ==
  [isLoading |-> TRUE, error |-> FALSE, achievements |-> FALSE, listed |-> "all", filterType |-> "all"]

ScreenInit ==
  /\ screen_state = InitialState
  /\ isOffline = FALSE /\ cached_data \in BOOLEAN
  /\ screen_load = [l \in ScreenLoads |-> "none"]
  /\ background_sync \in BOOLEAN   \* #loadFlags: the default or what was saved
  /\ overtaken = FALSE /\ kept = FALSE /\ broken = FALSE

Alive == screen_state # Gone
At(l, at) == screen_load' = [screen_load EXCEPT ![l] = at]
NoLoad == \A l \in ScreenLoads : screen_load[l] = "none"

(* #updateState: of a screen that is gone a new state is made of the change. *)
ScreenUpdated(error) ==
  screen_state' = [(IF Alive THEN screen_state ELSE InitialState) EXCEPT
                     !.isLoading = FALSE, !.error = error]

-----------------------------------------------------------------------------
Begin(l) ==
  /\ Alive /\ screen_load[l] = "none"
  /\ screen_state' = [screen_state EXCEPT !.isLoading = TRUE, !.error = FALSE]
  /\ At(l, "cache")
  /\ overtaken' = (overtaken \/ ~NoLoad)
  /\ kept' = FALSE /\ broken' = FALSE

(* #init, #setupAdvancedFeatures, #loadData *)
FirstLoad(l) ==
  /\ NoLoad /\ screen_state = InitialState /\ Begin(l)
  /\ UNCHANGED <<isOffline, cached_data, background_sync>>

(* The message SYNC_COMPLETED of the service worker *)
SyncCompleted(l) ==
  /\ background_sync /\ ~isOffline /\ Begin(l)
  /\ UNCHANGED <<isOffline, cached_data, background_sync>>

(* #handleOfflineChange *)
WentOffline ==
  /\ Alive /\ ~isOffline /\ isOffline' = TRUE
  /\ UNCHANGED <<screen_state, cached_data, screen_load, background_sync, overtaken, kept, broken>>

CameOnline(l) ==
  /\ Alive /\ isOffline /\ isOffline' = FALSE
  /\ IF screen_state.error THEN Begin(l)
     ELSE UNCHANGED <<screen_state, screen_load, overtaken, kept, broken>>
  /\ UNCHANGED <<cached_data, background_sync>>

(* #processAndUpdateData: the lists under the filter of now *)
ProcessAndUpdateData ==
  screen_state' = [screen_state EXCEPT !.isLoading = FALSE, !.achievements = TRUE,
                                       !.listed = screen_state.filterType]

(* #getCachedData finds all three: shown, and asked for again when online. *)
CacheHit(l) ==
  /\ Alive /\ screen_load[l] = "cache" /\ cached_data
  /\ ProcessAndUpdateData
  /\ At(l, IF isOffline THEN "none" ELSE "fresh")
  /\ UNCHANGED <<isOffline, cached_data, background_sync, overtaken, kept, broken>>

CacheMiss(l) ==
  /\ screen_load[l] = "cache" /\ At(l, "fetch")
  /\ UNCHANGED <<screen_state, isOffline, cached_data, background_sync, overtaken, kept, broken>>

(* #fetchFreshData *)
Fetched(l) ==
  /\ Alive /\ screen_load[l] \in {"fetch", "fresh"}
  /\ ProcessAndUpdateData
  /\ cached_data' = TRUE /\ At(l, "none")
  /\ UNCHANGED <<isOffline, background_sync, overtaken, kept, broken>>

(* The services fail, three times the achievements, or the cache does: an  *)
(* error is shown if nothing else is; otherwise all stays, the loading too. *)
FetchFails(l) ==
  /\ Alive /\ screen_load[l] \in {"fetch", "fresh"} /\ At(l, "none")
  /\ IF screen_load[l] = "fetch" /\ ~screen_state.achievements
     THEN ScreenUpdated(TRUE) /\ UNCHANGED kept
     ELSE kept' = TRUE /\ UNCHANGED screen_state
  /\ UNCHANGED <<isOffline, cached_data, background_sync, overtaken, broken>>

(* A load of a screen that is gone reads its null state and throws: in the *)
(* first, awaited one that makes a state of an error, and draws it.        *)
LateLoad(l) ==
  /\ ~Alive /\ screen_load[l] # "none" /\ At(l, "none")
  /\ \/ ScreenUpdated(TRUE)
     \/ UNCHANGED screen_state
  /\ UNCHANGED <<isOffline, cached_data, background_sync, overtaken, kept, broken>>

(* #render throws on what was answered, or draws after the end: its timer  *)
(* is not stopped.  #handleError                                           *)
RenderFails ==
  /\ Alive => ~screen_state.error /\ ~screen_state.isLoading
  /\ ScreenUpdated(TRUE) /\ broken' = TRUE
  /\ UNCHANGED <<isOffline, cached_data, screen_load, background_sync, overtaken, kept>>

(* The change of a select that was drawn: the list stays as it is. *)
ChooseFilter(f) ==
  /\ Alive /\ screen_state.achievements /\ screen_state.filterType # f
  /\ screen_state' = [screen_state EXCEPT !.filterType = f]
  /\ UNCHANGED <<isOffline, cached_data, screen_load, background_sync, overtaken, kept, broken>>

CacheExpires ==
  /\ cached_data /\ cached_data' = FALSE
  /\ UNCHANGED <<screen_state, isOffline, screen_load, background_sync, overtaken, kept, broken>>

ScreenDestroy ==
  /\ Alive /\ screen_state' = Gone
  /\ UNCHANGED <<isOffline, cached_data, screen_load, background_sync, overtaken, kept, broken>>

ScreenNext ==
  \/ \E l \in ScreenLoads :
       \/ FirstLoad(l) \/ SyncCompleted(l) \/ CameOnline(l) \/ CacheHit(l) \/ CacheMiss(l)
       \/ Fetched(l) \/ FetchFails(l) \/ LateLoad(l)
  \/ WentOffline \/ RenderFails \/ CacheExpires \/ ScreenDestroy \/ \E f \in Filters : ChooseFilter(f)

ScreenSpec == ScreenInit /\ [][ScreenNext]_screen_vars

-----------------------------------------------------------------------------
ScreenTypeOK ==
  /\ Alive => /\ screen_state.isLoading \in BOOLEAN /\ screen_state.error \in BOOLEAN
              /\ screen_state.listed \in Filters /\ screen_state.filterType \in Filters
  /\ \A l \in ScreenLoads : screen_load[l] \in {"none", "cache", "fetch", "fresh"}

(* A screen whose loads are over shows something: its skeleton is gone,    *)
(* unless a load failed behind achievements that were there; nothing loads *)
(* behind an error, and an error hides no achievements, unless loads       *)
(* overlapped or a drawing threw.                                          *)
ScreenSettles ==
  /\ Alive /\ NoLoad /\ ~kept /\ screen_state.isLoading => screen_state = InitialState
  /\ Alive /\ screen_state.error => ~screen_state.isLoading
  /\ Alive /\ ~overtaken /\ ~broken /\ screen_state.error => NoLoad /\ ~screen_state.achievements

-----------------------------------------------------------------------------
(***************************************************************************)
(* ui/components/badge_display.js: a list of badges, drawn one after the   *)
(* other as their icons load, or copied from a cache of elements; a badge  *)
(* that was unlocked is drawn anew in its place.  A copy has no listener   *)
(* and is not registered.                                                  *)
(***************************************************************************)

CONSTANTS BadgeList,     \* the badges, in order
          BadgeRenders   \* calls of render

VARIABLES unlocked,      \* badges that are unlocked
          display_state, \* #state: "idle", "loading", "error"
          shown_badges,  \* the container: sequence of [badge, looks, listens]
          badgeElements, \* badges whose element is registered
          renderCache,   \* by badge and compactness: how its copy looks, or "absent"
          badge_render,  \* calls: [at, left, fragment, compact]
          badge_updates, \* badges whose update waits for the icon
          compact_now,   \* #currentOptions.compact
          crossed        \* two calls were under way at the same time

badges_vars == <<unlocked, display_state, shown_badges, badgeElements, renderCache, badge_render,
          badge_updates, compact_now, crossed>>

Idle == [at |-> "none", left |-> <<>>, fragment |-> <<>>, compact |-> FALSE]

BadgesInit ==
  /\ unlocked = {} /\ display_state = "idle"
  /\ shown_badges = <<>> /\ badgeElements = {}
  /\ renderCache = [k \in Range(BadgeList) \X BOOLEAN |-> "absent"]
  /\ badge_render = [r \in BadgeRenders |-> Idle]
  /\ badge_updates = {} /\ compact_now = FALSE /\ crossed = FALSE

(* #setState: an error does not become loading; the retry stays an error.  *)
SetState(s) ==
  display_state' = IF <<display_state, s>> \in {<<"idle", "loading">>, <<"loading", "idle">>,
                                                <<"loading", "error">>, <<"error", "idle">>}
                   THEN s ELSE display_state

Looks(b) == IF b \in unlocked THEN "unlocked" ELSE "locked"
Busy == badge_updates # {} \/ \E r \in BadgeRenders : badge_render[r] # Idle

(* #renderBadges up to the next badge that no copy is found of *)
Copied(left, fragment, compact, cache) ==
  LET missing == {i \in DOMAIN left : cache[<<left[i], compact>>] = "absent"}
      n == IF missing = {} THEN Len(left) ELSE Min(missing) - 1 IN
  [at |-> "icon", compact |-> compact, left |-> SubSeq(left, n + 1, Len(left)),
   fragment |-> fragment \o [i \in 1..n |->
     [badge |-> left[i], looks |-> cache[<<left[i], compact>>], listens |-> FALSE]]]

-----------------------------------------------------------------------------
(* Mutant: the old badges stay on the page. *)
M_Render(r, compact) ==
  /\ badge_render[r] = Idle
  /\ SetState("loading") /\ compact_now' = compact
  /\ badgeElements' = {}
  /\ badge_render' = [badge_render EXCEPT ![r] = Copied(BadgeList, <<>>, compact, renderCache)]
  /\ crossed' = (crossed \/ Busy)
  /\ UNCHANGED <<unlocked, renderCache, badge_updates, shown_badges>>

(* render, also by the button of an error: #clearContainer *)
Render(r, compact) ==
  /\ badge_render[r] = Idle
  /\ SetState("loading") /\ compact_now' = compact
  /\ shown_badges' = <<>> /\ badgeElements' = {}
  /\ badge_render' = [badge_render EXCEPT ![r] = Copied(BadgeList, <<>>, compact, renderCache)]
  /\ crossed' = (crossed \/ Busy)
  /\ UNCHANGED <<unlocked, renderCache, badge_updates>>

(* #createBadgeElement got its icon; all but compact ones are registered   *)
(* and a copy is kept.                                                     *)
IconLoaded(r) ==
  /\ badge_render[r].left # <<>>
  /\ LET b == Head(badge_render[r].left)
         compact == badge_render[r].compact
         cache == IF compact THEN renderCache
                  ELSE [renderCache EXCEPT ![<<b, FALSE>>] = Looks(b)] IN
     /\ badgeElements' = IF compact THEN badgeElements ELSE badgeElements \cup {b}
     /\ renderCache' = cache
     /\ badge_render' = [badge_render EXCEPT ![r] =
          Copied(Tail(@.left), Append(@.fragment, [badge |-> b, looks |-> Looks(b), listens |-> TRUE]),
                 compact, cache)]
  /\ UNCHANGED <<unlocked, display_state, shown_badges, badge_updates, compact_now, crossed>>

(* #renderBadges: the fragment is appended. *)
Rendered(r) ==
  /\ badge_render[r].at = "icon" /\ badge_render[r].left = <<>>
  /\ shown_badges' = shown_badges \o badge_render[r].fragment
  /\ SetState("idle")
  /\ badge_render' = [badge_render EXCEPT ![r] = Idle]
  /\ UNCHANGED <<unlocked, badgeElements, renderCache, badge_updates, compact_now, crossed>>

(* #withRetry: an icon failed as often as it may; #renderError *)
IconFails(r) ==
  /\ badge_render[r].left # <<>>
  /\ SetState("error")
  /\ badge_render' = [badge_render EXCEPT ![r] = Idle]
  /\ UNCHANGED <<unlocked, shown_badges, badgeElements, renderCache, badge_updates,
                 compact_now, crossed>>

-----------------------------------------------------------------------------
(* updateBadge: only of a badge that is registered *)
UpdateBadge(b) ==
  /\ b \in badgeElements \ badge_updates
  /\ badge_updates' = badge_updates \cup {b}
  /\ crossed' = (crossed \/ Busy)
  /\ UNCHANGED <<unlocked, display_state, shown_badges, badgeElements, renderCache,
                 badge_render, compact_now>>

(* replaceWith: only if the old element is still in the page *)
BadgesUpdated(b) ==
  /\ b \in badge_updates
  /\ badge_updates' = badge_updates \ {b}
  /\ \/ \E i \in DOMAIN shown_badges :
          /\ shown_badges[i].badge = b
          /\ shown_badges' = [shown_badges EXCEPT ![i].looks = Looks(b), ![i].listens = TRUE]
     \/ UNCHANGED shown_badges /\ (crossed \/ \A i \in DOMAIN shown_badges : shown_badges[i].badge # b)
  /\ badgeElements' = badgeElements \cup {b}
  /\ renderCache' = [renderCache EXCEPT ![<<b, compact_now>>] = Looks(b)]
  /\ UNCHANGED <<unlocked, display_state, badge_render, compact_now, crossed>>

UpdateFails(b) ==
  /\ b \in badge_updates
  /\ badge_updates' = badge_updates \ {b}
  /\ UNCHANGED <<unlocked, display_state, shown_badges, badgeElements, renderCache,
                 badge_render, compact_now, crossed>>

Unlock(b) ==
  /\ b \notin unlocked /\ unlocked' = unlocked \cup {b}
  /\ UNCHANGED <<display_state, shown_badges, badgeElements, renderCache, badge_render,
                 badge_updates, compact_now, crossed>>

(* destroy: calls under way go on. *)
BadgesDestroy ==
  /\ shown_badges # <<>> \/ Busy
  /\ shown_badges' = <<>> /\ badgeElements' = {}
  /\ renderCache' = [k \in DOMAIN renderCache |-> "absent"]
  /\ UNCHANGED <<unlocked, display_state, badge_render, badge_updates, compact_now, crossed>>

BadgesNext ==
  \/ \E r \in BadgeRenders : \/ \E compact \in BOOLEAN : Render(r, compact)
                             \/ IconLoaded(r) \/ Rendered(r) \/ IconFails(r)
  \/ \E b \in Range(BadgeList) : UpdateBadge(b) \/ BadgesUpdated(b) \/ UpdateFails(b) \/ Unlock(b)
  \/ BadgesDestroy

BadgesSpec == BadgesInit /\ [][BadgesNext]_badges_vars

-----------------------------------------------------------------------------
BadgesTypeOK ==
  /\ display_state \in {"idle", "loading", "error"}
  /\ badgeElements \cup unlocked \cup badge_updates \subseteq Range(BadgeList)
  /\ \A k \in DOMAIN renderCache : renderCache[k] \in {"absent", "locked", "unlocked"}
  /\ {compact_now, crossed} \subseteq BOOLEAN

(* While one call follows the other the page shows nothing or every badge  *)
(* once, in order; an element that is registered is in the page or about   *)
(* to be, and takes clicks; and a copy never shows a badge as unlocked     *)
(* that is not.                                                            *)
BadgesAreShownOnce ==
  /\ ~crossed =>
       /\ [i \in DOMAIN shown_badges |-> shown_badges[i].badge] \in {<<>>, BadgeList}
       /\ display_state = "idle" =>
            \A i \in DOMAIN shown_badges :
              shown_badges[i].badge \in badgeElements => shown_badges[i].listens
  /\ \A k \in DOMAIN renderCache : renderCache[k] = "unlocked" => k[1] \in unlocked

-----------------------------------------------------------------------------
(***************************************************************************)
(* ui/screens/home_screen.js: the first screen.  A load asks two services  *)
(* at once and draws what they answer; a click on the page is dispatched   *)
(* by the action of its element.                                           *)
(***************************************************************************)

CONSTANTS HomeLoads,  \* calls of load
          MaxDue,     \* bound: reviews that are due
          NoHome      \* no data

VARIABLES due,          \* reviews due, in the service
          home_state,   \* state: "loading", "ready", "error"
          home_data,    \* data.dueCount, or NoHome
          home_page,    \* what was rendered: [template, due]
          home_loads,   \* loads under way
          home_closed,  \* destroy was called
          home_behind   \* a load answered beside another, or an update guessed

home_vars == <<due, home_state, home_data, home_page, home_loads, home_closed, home_behind>>

Page(template, d) == [template |-> template, due |-> d]

HomeInit ==
  /\ due = 0 /\ home_state = "loading" /\ home_data = NoHome
  /\ home_page = Page("none", NoHome)
  /\ home_loads = {} /\ home_closed = FALSE /\ home_behind = FALSE

(* load, by the application or by RETRY of the page of an error: its       *)
(* handlers are gone with the screen.                                      *)
Load(l) ==
  /\ l \notin home_loads /\ ~home_closed
  /\ home_page.template \in {"none", "error", "dashboard"}
  /\ home_state' = "loading" /\ home_page' = Page("loading", NoHome)
  /\ home_loads' = home_loads \cup {l}
  /\ home_behind' = (home_loads # {})
  /\ UNCHANGED <<due, home_data, home_closed>>

(* count_due and get_user answered; nobody looks whether the screen or a   *)
(* later load is there.                                                    *)
Loaded(l) ==
  /\ l \in home_loads /\ home_loads' = home_loads \ {l}
  /\ home_state' = "ready" /\ home_data' = due /\ home_page' = Page("dashboard", due)
  /\ home_behind' = (home_behind \/ home_closed)
  /\ UNCHANGED <<due, home_closed>>

(* _handleError *)
LoadFails(l) ==
  /\ l \in home_loads /\ home_loads' = home_loads \ {l}
  /\ home_state' = "error" /\ home_page' = Page("error", NoHome)
  /\ UNCHANGED <<due, home_data, home_closed, home_behind>>

(* update: only of a screen that is ready *)
Update(d) ==
  /\ home_data # NoHome /\ home_state = "ready"
  /\ home_data' = d /\ home_page' = Page("dashboard", d)
  /\ UNCHANGED <<due, home_state, home_loads, home_closed, home_behind>>

(* destroy: the page is emptied, the data and the services are dropped. *)
HomeDestroy ==
  /\ ~home_closed /\ home_closed' = TRUE
  /\ home_data' = NoHome /\ home_page' = Page("none", NoHome)
  /\ UNCHANGED <<due, home_state, home_loads, home_behind>>

DueChanges(d) ==
  /\ due # d /\ due' = d
  /\ UNCHANGED <<home_state, home_data, home_page, home_loads, home_closed, home_behind>>

HomeNext ==
  \/ \E l \in HomeLoads : Load(l) \/ Loaded(l) \/ LoadFails(l)
  \/ \E d \in 0..MaxDue : Update(d) \/ DueChanges(d)
  \/ HomeDestroy

HomeSpec == HomeInit /\ [][HomeNext]_home_vars

-----------------------------------------------------------------------------
HomeTypeOK ==
  /\ due \in 0..MaxDue /\ home_state \in {"loading", "ready", "error"}
  /\ home_data \in 0..MaxDue \cup {NoHome} /\ home_loads \subseteq HomeLoads
  /\ {home_closed, home_behind} \subseteq BOOLEAN

(* Unless loads overlapped or ended after the screen, the page is that of  *)
(* the state: no number is drawn over a load or an error, and a page that  *)
(* waits has a load under way.                                             *)
PageFollowsState ==
  ~home_behind =>
    /\ home_state = "ready" /\ ~home_closed => home_page = Page("dashboard", home_data)
    /\ home_state = "error" /\ ~home_closed => home_page.template = "error"
    /\ home_page.template = "loading" => home_loads # {}

-----------------------------------------------------------------------------
(* The values of the variables of every machine. *)
TypeOK == ScreenTypeOK /\ BadgesTypeOK /\ HomeTypeOK
=============================================================================
