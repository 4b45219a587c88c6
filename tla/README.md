# Verification of Farsinglish

Farsinglish is a Persian/English language-learning web application written in
plain JavaScript: `core/` holds the infrastructure (sessions, database
connections, migrations, caches, offline work, navigation), `features/` the
learning logic (lessons, reviews, spaced repetition, points, badges, streaks,
profiles) and `ui/` the screens. There is no server in the repository: the
database is IndexedDB, reached through repositories that the services receive
as parameters, and the concurrency is that of a browser: asynchronous functions
interleaved at every `await`, timers, callbacks, and several tabs that share one
database and a BroadcastChannel.

This directory holds TLA+ models of that behaviour, the TLC configurations that
check them on small instances, and TLAPS proofs of theorems about them.
`PROJECT.json` lists every run, the source lines each definition stands for, the
hazards, and for each property a planted bug that breaks it.

Contents

1. How the code is modelled
2. The components of the system
3. The modules
4. The runs and what they show
5. Bounds, fairness, deadlock
6. What is proved
7. Disagreements between the code and its documentation
8. What is not modelled
9. What could come next

## 1. How the code is modelled

A step of a model is what runs between two points at which JavaScript may switch
to something else: from the start of a function, or the continuation of an
`await`, to the next `await` or the return. Everything a step calls belongs to
it. Where callbacks are called synchronously and may call back (AbortManager),
the model has the call stack as a variable. External code (repositories, the
database, the network) answers an awaited call later, or refuses it, in any order.

A database request takes effect when it is issued, and its answer continues the
function that awaits it. IndexedDB runs the transactions of one store in the order
in which they were created, so no other order of effects can be observed.

Clocks are either a counter with a small bound (AbortManager, SessionManager, days in
the schedulers and streaks) or left out, with a timer that may fire at any moment after
it was set (ConnectionPool, PointsService, the screens). Where there is a clock, time
passes only while nothing runs: the code's timeouts are minutes, its awaits milliseconds.

A few variables are history: they remember what the code forgets (`raced`, `announced`,
`overtaken`, `lostReviews`, ...) so that a property can say when a race excuses a
difference. They are written by the actions they are about and read by no guard.

A name that starts with `M_` is the definition below it with a bug planted: the
runs show that the properties notice it. `PROJECT.json` pairs them.

## 2. The components of the system

For each component: its state, its operations, what is hard, and what makes it correct.
The five of the first table have a module of their own with proofs or several scenarios.

| Component | State | Operations | Talks to | Hard | Correct when |
|---|---|---|---|---|---|
| **AbortManager** `core/abort/abort_manager.js` | map id → entry, index tag → ids, history, timers | createSignal, abort by id, pattern, tag, all; extendTimeout; stale sweep; dispose | whoever passes `onAbort`, which may call it again | synchronous re-entrance in the middle of an abort or of a loop over a live `Set`; stale timers | index = registry; capacity; an abort removes its own request; every request ends |
| **Connection pool** `core/db/connection/connection_pool.js` | wrappers (`in_use`), queue, shutdown flags | acquire with timeout and creation with retries, release, shutdown | database, callers | creation, timeouts, releases and the shutdown interleave | exclusive use, no waiting beside an idle connection, none forgotten, every acquire answered |
| **Session manager** `core/auth/session_manager.js` | sessions store (shared), current session of each tab, application state | create, end, end all, validity check, refresh, rotation, restore, cleanup, messages between tabs | IndexedDB, BroadcastChannel, application state | two tabs, page loads between any two awaits, refreshes that race logouts | ended sessions stay ended; rows belong to their owner; logout reaches the other tabs |
| **Spaced repetition engine** `features/lesson_engine/srs_engine.js` | configuration, LRU cache of results | calculateNextReview, switchAlgorithm, adaptToUser, resetCard, clearCache, toJSON, fromJSON | the caller, who keeps the cards | results shared between cards and kept across changes of parameters and restores | the cache never shows in a schedule; every schedule can be reviewed again; intervals grow with success |
| **Points service** `features/gamification/points_service.js` | points and history (database), batch and its timer, results by request id, offline queue | award_points, batch flush, transaction, level-up bonus, enqueue, sync with retries | user repository, `online` event | retries under one request id, overlapping syncs, failing items of a batch, page loads | calls settle; answers are true; an answered award is not repeated; a queued activity is not lost |

The pages and their controls (run `pages`):

| Component | Module (prefix of its definitions) | Hard | Correct when |
|---|---|---|---|
| Login screen, registration screen `ui/screens/` | `AccountScreens` (`Login`, `Register`) | answers that come after a redraw, a switch of tab or account; listeners that outlive the screen | one press makes one call; a page creates one account; a login is answered |
| Authentication service `core/auth/auth_service.js` | `AuthService` | logouts, refreshes, logins and profile updates that overlap at their awaits | a logout ends logged out, unless a login or update was answered during it |
| Form input, choice button, progress bar `ui/components/` | `Controls` (`Input`, `Button`, `Bar`) | overlapping validations with one list of errors; looks whose cause is gone; listeners that call back | a value called valid passes the validators; no look, no lock outlives its cause |
| Audio service `core/audio/audio-service.js` | `AudioService` | a queue with priorities, stops and failures in between | one item at a time, the urgent first |
| Exercise service, exercise card | `Exercises` (`Generator`, `Card`) | drawing without repetition; time limits that outlive the exercise | distinct exercises and options; attempts, hints and answers end together |
| Review screen `ui/screens/review_screen.js` | `ReviewScreen` | pauses, restarts, loads and answers that overlap | no card is passed over |

The services of a lesson (run `lessons`):

| Component | Module | Hard | Correct when |
|---|---|---|---|
| Lesson service of the engine; lesson facade `features/lesson/lesson_service.js` | `LessonServices` (`Engine`, `Facade`) | overlapping starts and completions; failures between a write and its announcement | a better result is asked later; what is announced is stored |
| Scheduler `srs_scheduler.js`; review manager `core/models/srs_manager.js` | `ReviewSchedules` (`Scheduler`, `Manager`) | cards reviewed, days passing and aborts while a batch run gives way; an index updated only by writes | a run lists what is due, by true priorities; a lesson that is listed is due |
| Progress service | `ProgressService` | reads answered after writes, batches that fail halfway | only a race leaves an old row in the cache |
| Review service | `ReviewService` | listeners shared by all instances, statistics cached over awaits | cached statistics agree with the reviews |
| Progress manager `features/progress/progress-manager.js` | `ProgressManager` | two calls that each load an object | nothing is rewarded twice |

What is earned, and its pages (run `progress`):

| Component | Module | Hard | Correct when |
|---|---|---|---|
| Streak service; streak indicator | `Streaks` (`Service`, `Indicator`) | freezes, saves with a look in between; animation frames and visibility | no more days than passed; freezes are paid; the indicator draws its configuration |
| Challenge service | `ChallengeService` | two updates of one challenge, lists cached beside writes | a completion is announced once and stays |
| Achievement model; a user's achievements | `Achievements` (`Model`, `Held`) | progress that falls, claims twice | dates are kept; one of each type |
| Statistics service, calculator, metrics; progress model | `Statistics` (`Service`, `Calculator`, `Metrics`, `Mastery`) | four ways of an answer that overlap; shares of nothing; gaps of days | answers say of which data; streaks match; mastery follows answers |
| Profile service; profile edit screen | `Profiles` (`Service`, `Edit`) | retries, time-outs and aborts after the row was written; edits during a save | an answered update is in the profile; edits are not taken for saved |
| Achievements screen, badges, home | `ProgressScreens` (`Screen`, `Badges`, `Home`) | loads in the background, redraws while icons load | no skeleton without a load; each badge once; page = state |

The platform (run `platform`):

| Component | Module | Hard | Correct when |
|---|---|---|---|
| Cache strategy | `CacheStrategy` | room made before an await and used after it | order and size tell what is cached |
| Offline manager | `OfflineManager` | a queue read, written and cleared over awaits, page loads | a request is kept until cleared; a lost connection is tried again |
| Router, state manager | `Router`, `StateManager` | overlapping navigations; listeners that throw after the change | history, cache and counters explain page and state |
| Lesson orchestrator, timeout handler, watchdog | `OperationLimits` (`Flow`, `Handler`, `Watchdog`) | places held by failures, wake-ups, shutdown | a free place is used; places are accounted for; a watch ends |
| Reconnect manager, tracker, retry loops | `Reconnection` (`Manager`, `Tracker`, `Retry`) | cancelled loops that are still connecting; options changed during a backoff | a stopped loop starts nothing; retries end |
| Health monitor, health checker | `ConnectionHealth` (`Monitor`, `Checker`) | repairs of connections removed meanwhile; late answers | a connection given up was tried; checks are accounted for |
| IndexedDB wrapper, seeder, database migrator | `Database` (`Wrapper`, `Seeder`, `Migrator`) | places taken before the connection exists; restores after half a seed; rollbacks that fail | cache = row outside failures; a failed seed is undone; a failure leaves nothing |
| Migrations `core/db/migration/`, `migration_store.js` | `Migrations` (`Manager`, `Store`, `Queue`, `Tracker`, `Steps`) | calls that overlap, failing steps and rollbacks, steps run again | version = what is applied; array = table; flags and reports are true |

The rest (validators, DTOs, constants, sample data, modules that cannot be loaded) is
listed in section 8 and in `PROJECT.json`.

## 3. The modules

A file of the code whose machine is small shares a module with its neighbours: the module
then holds several machines, each with its own variables, `<Prefix>Init`, one action per
operation, `<Prefix>Next`, `<Prefix>TypeOK` and `<Prefix>Spec`. The machines of a module
share no state, because the code's do not. Each machine's variables carry the names of
the fields they stand for; a variable that stands for pending promises (`calls`, `flow`,
`ask`, `loads`, ...) maps a call to the await it is at and its locals.

| Module | Models | Variables ↔ code |
|---|---|---|
| `AbortManager` | `abort_manager.js` | `controllers`, `tagIndex`, `abortedCount`, `abortHistory` are the private fields; `signalled` the controllers whose signal has aborted; `timers` the pending `setTimeout`s; `stack` the JavaScript call stack of aborts and loops |
| `ConnectionPool` | `connection_pool.js`, class `Pool` | `connections`/`inUse` the wrappers, `queue` and `timers` the waiting entries, `status`, `held`, `attempts` the local state of each acquire, `phase` the shutdown, `openAtDb` the database's side |
| `Leases` | what a pool promises | abstract: who was answered what, who holds what; `ConnectionPool` implements it (`PromiseSpec`) |
| `SessionManager` | `session_manager.js` in several tabs | `rows` the sessions store, `tab` each tab's `#current_session_id`, `#session_info` and `is_authenticated`, `thread` where each asynchronous function waits and its locals, `inbox` the channel |
| `SrsEngine` | `srs_engine.js` | `config` the private configuration as far as it changes, `cache` the LRU cache in its order, `saved` the last `toJSON`, `cards` the data the caller keeps |
| `PointsService` | `points_service.js` | `points`/`history` the database, `calls` the executions of `award_points`, `results` the idempotency results, `batch`, `timer`, `flushes` the batch processor, `items`, `syncs`, `backoffs` the offline queue |
| the modules of section 2 | pages, lesson services, rewards, platform | as in the tables above; `map` in `PROJECT.json` gives the lines of every definition |
| `MCPages`, `MCLessons`, `MCProgressPages`, `MCPlatform` | the machines of a layer together | `focus` names the machine a behaviour exercises: independent machines need no product of their states |
| `MCAbortManager` | an instance | symmetry and the callbacks' operations |
| `MCPlatformInvariants` | the inductive invariants of the platform | definitions only, so that TLC can check them too (section 6) |
| `*Proofs` | theorems | see section 6 |

Helpers that only say where a call waits, types and abbreviations have no entry in `map`:
the entry of the action that uses them names their lines.

Composition: registration with `AuthService.register` (`RegisterEnds` is the service's answer
in the screen's module), the pool with `Leases`, several tabs with one store and channel, the
points service with its repository and offline queue, the engine with the caller's cards,
the wrapper's pool with its cache and rows, `MigrationManager` with its steps. Where a screen
calls a service it is given, the service is its answers: in any order, late, or never.

**AbortManager.** Aborting is synchronous and re-entrant. `controller.abort()` calls
`#handleAbort`, which calls `onAbort` *before* it removes the entry; `onAbort` may
call the manager again. Each such call is a frame of `stack`: `handle` for an abort
inside its callback, `batch`, `tag`, `stale` for the three kinds of loop (over a
snapshot, over a live `Set`, over the live `Map`), `dispose` for the rest of
`dispose`. `MayCall` says what may run: anything from outside, and inside a callback
only `CallbackOps`. `ForgetInLoops` is what deleting from, or adding to, a live
`Set` does to a loop over it.

**ConnectionPool.** An acquire takes an idle connection, creates one, or waits;
creation is retried with a backoff; the timeout of a waiting request rejects its
promise and leaves its entry in the queue; `release` of a connection the pool still knows
frees it and hands it to the first in the queue (`ProcessQueue`, the loop over idle
connections); shutdown destroys one connection after another and clears everything.

**SessionManager.** A tab has four threads: the user's command, a refresh, a validity
check (which may rotate), the cleanup. Each action is the code up to the next
`await`; `then` says what the thread does after `end_session` or `#persist_session`
returns to its caller. `Put` stores the copy taken before the encryption under the
id that is current after it, as the code does. A page load empties the tab and starts
the restore.

**SrsEngine.** Calls are synchronous, so a step is a call. Ease factors are integers
(hundredths), the adaptable parameters ten-thousandths, rounding is the code's half
up. The fuzz and the FSRS powers are sets of possible results. A strategy is a function of
the card and the configuration it is given. `ReviewCached` and `ReviewCalculated` are the
two branches of a review.

**PointsService.** `Call(r)` is the lookup of the saved result with which
`award_points` starts; `Add` puts a call in the batch, flushes it when full and
otherwise makes sure that there is a timer; `Commit`/`TransactionFails` process the
next call of a flush, `Resolve` hands the results out by position, `Save` is the
continuation of the caller. `SyncOf` is the loop of `sync_offline_activities`, over a
snapshot of the queued items. A page load keeps `points`, `history` and `items`.

## 4. The runs and what they show

| Run | Properties | What it shows |
|---|---|---|
| `abort_safety` | RegistryExact, AbortsComplete, AbortByTagEmptiesTag | three requests, two slots, callbacks that call anything but `dispose`, three calls nested: the index mirrors the registry and the capacity holds at every point a callback can observe; the entry an abort removes is the one it was called for, and its timer lives as long; `abortByTag` leaves nothing of its tag, what callbacks add included |
| `abort_lifecycle` | NoRunningRequestDropped, RequestsEnd | callbacks that call `dispose` and anything but `createSignal`: no request is forgotten while it runs, and each ends through its timer, the sweep or `dispose` |
| `pool` | PoolIsSound, AcquireSettles, PromiseSpec | four callers, two connections: all interleavings of creation, failure, timeout, release and shutdown; the pool implements `Leases` |
| `sessions` | SessionsAreTrue, RestoresOnlyLive | one tab with all operations and two page loads at any await |
| `session_tabs` | StoreIsTrue | two tabs of two users whose logins and logouts overlap |
| `session_shared` | LogoutPropagates | two tabs with one session, refresh and expiry: a logout reaches both |
| `points` | PointsAreTrue, AwardsSettle | awards, repeats, offline items, overlapping syncs, failing transactions and a page load at any moment |
| `points_twice` | AwardedOnce (violated) | a repeat that starts while the first call waits in its batch is awarded again |
| `pages` | TypeOK, EntersOnce, CallsSettle, ControlsSettle, QueueIsServed, ExercisesAreBounded | the machines of the pages and their controls, with late answers, redraws, retries and overlapping calls |
| `lessons` | TypeOK, LessonsAreKept, ReviewsAreListed, CachesAgree, RewardedOnce, CardsAreSound, SuccessNeverShortens | calls of the lesson's services that overlap and fail, days that pass during a batch run; for the engine two cards, three algorithms, four calls of any kind |
| `progress` | TypeOK, StreaksAreEarned, CompletionsAreKept, StatsAreAccounted, StatsMatchProgress, UpdatesAreKept, ScreensFollowTheirData | what is earned and how it is shown, with races of saves, retries and late loads; what the calculator caches matches the progress it is about |
| `platform` | CachesAreAccounted, RequestsAreKept, NavigationExplainsState, PlacesAreKept, ConnectionsAreTended, MigrationsAreAccounted | cache, queue, router, state, seeder, limits, recovery of connections and migrations |

A property of a layer is the conjunction of what its machines promise, each conjunct
stated, with the code it is about, in the module of its machine (`MCPages!ControlsSettle`
is `AcceptedIsValid`, `HighlightsEnd` and `LockIsReleased` of `Controls`).

Every property of a passing run has a planted bug (a definition `M_...`) under which the
same run finds it violated: a dropped guard, a missing reset, a swapped order.

## 5. Bounds, fairness, deadlock

**Bounds.**

- AbortManager: `MaxGen` requests created, `MaxTimers` timers, `MaxDepth` nested
  calls, `MaxTime`. Three requests on three ids with two slots have a refused
  creation, a reused id, and a callback that replaces another request; depth 3 is a
  callback inside an abort inside a loop, depth 4 in `abort_lifecycle` adds `dispose`.
- ConnectionPool: four requests and two connections give a holder, a creator, a waiter
  and one more that arrives in between, and the limit is reached by creation alone; two
  attempts have a failure and a retry. Nothing else is bounded.
- SessionManager: `MaxSid` ids, `MaxReloads`, `MaxInbox` messages under way, `MaxTime`.
  With timeouts of 1 and 2 ticks, a clock of 2 reaches expiry, rotation and the expiry
  of a remembered session's activity. `Ops` and `Overlap` say which operations a tab has and
  whether two of them overlap: `sessions` has all of them, one after another, `session_tabs`
  logins and logouts that overlap; no run has all operations in two tabs.
- SrsEngine: `MaxCalls` 4. A maximal interval of 40 days is reached within these calls,
  so the cap is exercised; a cache of two with more keys evicts.
- PointsService: two requests, three calls, one page load, batches of two, one retry:
  a full batch, a batch that waits for its timer, a repeat in the same and in another
  batch, a sync that overlaps another, an item given up. A level-up bonus needs a
  request and a call that are still free.
- The runs of the pool, the sessions and the points service check those modules directly, with
  no symmetry; `ActivityTypes` and `Numbers` are the activities of the points service.
- The words of `MCPages` have one letter or two, enough for every case of an edit (insert,
  delete, replace, keep) and for words that differ in length.
- The four layers: two calls of every asynchronous operation, so that any two overlap at
  any await (three for the limits of operations: one runs, one waits, one comes); counters
  (`Max...`) that let each limit of the code be reached and passed once; one or two users,
  lessons, rows, keys. `MCLessons` passes the interval of six days after a second success,
  `MCProgressPages` a month's two freezes on five days. The bound on the size of the
  cache strategy says something only with three keys; `platform` has two, and it rests on its
  theorem. `Init` of these modules starts the
  machines a behaviour does not exercise in one state.

**Fairness.** Callers are never fair: nobody has to acquire, release, log out, award or
shut down. Fair are

- `pool`: timers fire, the database answers `create_connection` (either way) and
  `destroy_connection`, so the loop of shutdown goes on;
- `abort_lifecycle`: a running call returns (strong fairness for the return of a
  callback, which may call the manager a bounded number of times before), each due timer
  fires, time passes, the hourly sweep keeps being called, as `#startAutoCleanup`'s
  `setInterval` does;
- `session_shared`: every await of a thread is answered, every message delivered;
- `points`: the continuation of a call runs, the batch's timer fires, every transaction
  ends, well or badly. Fairness is per call, as each promise is settled on its own;
- `pages`: every awaited call of the authentication service is answered, either way, and so
  is a login that the screen sent. Its other machines have safety properties only.

**Deadlock** is not checked: the models end where their bounds are used up, and the
pool when every request is answered and it is shut down. Being stuck is what the
liveness properties rule out.

## 6. What is proved

TLAPS proves the following for every value of the constants under the named
assumptions of the modules (`NumbersAssumption`, `PoolAssumption`, `SrsAssumption`,
`PointsAssumption`, `SessionAssumption`, `LimitsAssumption`, ...), which only say that limits
are numbers of the right kind and that null values are not data. A further hypothesis stands
in the theorem that needs it and is named below.

**AbortManagerProofs.** `TypeCorrect`. `RegistryIsExact` and `AbortsAreComplete`, two
invariants of `abort_safety`: as long as callbacks do not call `dispose`
(`NoDisposeInCallbacks`), the tag index mirrors the registry within its capacity, an abort
removes its own request, no aborted request stays and a timed request has its timer, at any
depth of re-entrance. They combine `RegistryCorrect`, `CapacityCorrect` (never more than
`maxConcurrent`) and `TimersCorrect` (whatever is extended or reused). The invariant is
`RegistryInv`: the properties are not inductive because what a callback returns to depends
on the frames below it. So it says of every `handle` frame that its entry is still
registered and its signal aborted, that an id has at most one such frame, that an aborted
entry has one, and that no two entries share a controller.
`TagsAreEmptied` (same hypothesis): when `abortByTag` returns to its outermost caller nothing
is left of its tag. `TagInv` adds what a loop over a live `Set` has behind it: the ids it has
visited are under the tag with an aborted signal, and if the loop has called anything, that is
the abort of such a request.
`NothingRunningIsDropped`: no running request leaves the registry, also when callbacks dispose
of the manager at any depth, as long as they register nothing (`NoCreateInCallbacks`; a
request that a callback registers while `dispose` runs *is* forgotten, see section 7).
`DroppedInv` says that right above every disposal on the stack is the loop that will abort
what is still registered. The two hypotheses are those of the runs: the module alone has no such
restriction, and without them the properties are false.

**ConnectionPoolProofs.** `TypeCorrect`, `UseIsExclusive`, `NoLostWakeup`,
`NothingForgotten`, together `PoolSound`, and `ImplementsLeases` (`Spec => PromiseSpec`)
follow from one invariant, `IInv`: what is held is in use, connections are named after requests that got
them, the queue holds each request once and only waiting or rejected ones, and it is
empty when a connection is idle. The last part makes a release find exactly one idle
connection, the one released, from which the refinement follows: a release is a
`Return` or, when the first in the queue still waits, a `HandOver`.

**SessionManagerProofs.** `TypeCorrect`, for any number of tabs and every operation.
`LoginsAreKept` (`StoreIsTrue`, run `session_tabs`): when only logins and logouts are made
(`LoginsAndLogouts`), in any number of tabs and however they overlap, an ended session never
comes back and each row is its owner's. `LoginInv` needs that until its row is stored a new id
is one tab's secret, and that the data a login is about to store is that of the id's user.
`SessionsStayTrue` and `RestoresStayLive` (run `sessions`): in one tab whose operations follow
one another (`OneTab`) the tab and the store agree at every await, whatever page loads cut off,
and a page load logs in with a live session only. `OneTabInv` says of the only thread that runs
what it has read, what it is about to put or delete, and which disagreements of tab and store
it will settle. Both hypotheses are those of the runs and are needed: with refreshes that overlap
logouts a removed row is put back (section 7).

**PointsServiceProofs.** `TypeCorrect` and `NoLostWakeup` (calls in the batch have a
timer) from `TypeInv`: the type, that what refers to a call or a request refers to one
that exists (`References`), and that the timer is set exactly while calls wait.
`AnswersTrue`: an answer is about its own request and claims points only if the history
has the row. `TrueInv` extends the claim to where an answer comes from: the saved results,
and the results of a batch before they are handed out by position. Its proof needs `Grows`:
requests of existing calls never change, rows are never removed.
`NotRepeated` (`AnsweredNotRepeated`) from `IdempotencyInv`: a call that found an answer to
its request at its start is done at once; a call with a real answer that is done has its
result saved; and therefore no call in the batch, in a flush or in the history is a repeat.
`QueueDurable` and `RetriesBounded` from `QueueInv`: the call of a sync is about the item the
sync is at, so an item goes only when there is an answer, and it is given up only with all
its retries used.
`PointsTrue` puts them together as the invariant the run `points` checks.

**MCLessonsProofs.** All properties of the run `lessons`, as `ValuesAreTyped`,
`LessonsKept`, `ReviewsListed`, `CachesTrue`, `RewardsArePaidOnce`, `CardsSound` and
`IntervalsGrow`, and `NothingDangles`, `CacheBounded`.
`EachIsItself`: every behaviour of the eight machines together is a behaviour of each, so that
an invariant of a machine is one of the layer. Their invariants are

- `EngineInv`: a call between its two writes may still add one to the counts, and no more;
- `FacadeInv`: what a call has announced follows from the await it is at, and the review that
  is stored is that of a completion;
- `SchedulerInv`: the batch run has looked at the cards up to its place, what was due
  throughout lies between what is due now and what ever was, and a cached score of the day
  is the card's unless the card has been reviewed and is not due;
- `ManagerInv`: the index holds only lessons that are due, and a lesson it leaves out was not
  yet due when it was last written;
- `ProgressInv`: a row on its way to a call is the stored one unless a write raced it;
- `ReviewInv`: a count under way has read the stored row or is known as stale;
- `RewardsInv`: a call changes the object it loaded or found in the cache, objects nobody holds
  go away, what calls and cache hold is still there, and every object and the stored row are
  right;
- `CacheInv`: the engine's cache and the saved one, which `fromJSON` brings back, never exceed
  `cacheSize` nor hold a key twice;
- `SrsInv`: for any number of calls, every card is what its own answers made it
  and can be reviewed again, a cached result is what the strategy answers now, of the engine in
  use and of the one that was saved. The hypothesis `Powers` of `CardsSound` and `IntervalsGrow`
  is arithmetic: powers of 2 and 3 are natural numbers, which takes induction on the exponent.

**MCPagesProofs.** All safety properties of the run `pages`, as `ValuesAreTyped`,
`PagesEnterOnce`, `ControlsAreTrue`, `QueueServed` and `ExercisesBounded`; `EachIsItself` includes
the fairness of each machine. Their invariants are

- `LoginInv`, `ButtonInv`, `BarInv`, `CardInv`: what the run checks is inductive once the
  types are as precise as the code's values;
- `RegisterInv`: the one promise the service keeps tells how many accounts there are, and only
  its success leads to the home screen;
- `AuthInv`: a call that waits to save a token holds one that was issued;
- `InputInv`: the errors shown are those of the last run, and its value is the one in the
  field unless a check is still to come;
- `AudioInv`: the queue is sorted, it is processed while it is not empty, and one call at
  a time was taken from it;
- `GeneratorInv`: the exercises are distinct, the options of the one being drawn are other
  words, there were at most `MaxTries` tries for each exercise asked for, and every measured distance is the
  least number of edits. That last part (`DistanceIsLeast`) writes out the table of
  `levenshtein` for the words of the instance, which have at most two letters;
- `ReviewInv`: unless calls raced, the answers are to consecutive cards, at most one
  answer of the shown session is under way and it is to the card on the screen.

**MCProgressPagesProofs.** All invariants of the run `progress` but one, as `ValuesAreTyped`,
`StreaksEarned`, `CompletionsKept`, `StatsAccounted`, `UpdatesKept` and `ScreensFollow`;
`EachIsItself` for the fourteen machines. Their invariants are

- `StreakInv`: a row claims no more days than passed by the day it counts, freezes left and
  spent stay within the month's, a call holds the stored row unless a save raced it;
- `ChallengeInv`: a call that goes on holds a row of a generated set, and while no calls
  overlapped that row and the cached list are the stored challenge;
- `AnswerInv`: what a question holds at each of its awaits is no older than its start, or the
  offline copy;
- `ProfileInv`: while no calls were mixed each holds the stored profile, with its own update once
  that is written, and what a rollback would put back is a part of it;
- `RewardInv`, `HeldInv`, `MasteryInv`: an achievement is paid exactly if it is claimed, a user
  holds each type once, mastery has the answers and streaks it asks for;
- `MetricsInv`: the sum of recorded lessons, under way and lost ones is a fold over any number of
  calls. That a fold adds up is shown from the function that defines it (`SumExists`,
  `SumsDiffer`, `SumIsUnique`); in place of induction stands the smallest set for which a
  statement fails;
- `CalculatorInv`, `IndicatorInv`, `ScreenInv`, `BadgeInv`, `HomeInv`, `EditInv`: the
  properties, with types as precise as the code's values; `ScreenInv` adds that there is one load
  unless one overtook another, `BadgeInv` that the one drawing under way has put its badges in
  order and given each a listener, unless drawings crossed.

**MCPlatformProofs.** All invariants of the run `platform` (`CachesAccounted`, `RequestsKept`,
`NavigationExplained`, `PlacesKept`, `ConnectionsTended`, `MigrationsAccounted`) and
`TypesKept`, for any number of keys, calls, requests, pages, flows, loops, connections,
versions and rows (the stores of the seeder and the three steps of the migrator are those of
the run). `Steps` says that a step of the platform is one of each of the twenty machines or
leaves it alone (`EachIsItself`: its behaviours are theirs); for each there is an invariant in `MCPlatformInvariants`, and the lemmas
`<Machine>Starts`, `<Machine>Keeps` and `<Machine>Implies`. Together they are `IInv`; TLC finds
no state of the run's instance outside it when `IInv` is added as an INVARIANT to the run's
configuration. Beyond types, they say of

- the cache: entries and calls about to insert are fewer than the limit and the calls
  (`CacheHasRoom`), unless an eviction found its victim gone (`missed`); the memory is that of
  the entries, the order of use lists each key once;
- the offline manager: what is queued or stored was entered, and what was entered is in both
  unless it was cleared or came while the queue loaded;
- router and state manager: misses are navigations, errors and what is under way, the history
  has an entry for each hit and each navigation; the state is the actions in the history and
  those dropped from it, each dispatched once, until a transaction puts a state back;
- the limits: the places taken count the operations in the states that hold one, and a queue has
  those that wait, each once (`QueueGrows` and its neighbours are facts on queues without
  doubles); with an operation waiting, as many as there are places run, failed or were woken;
- reconnection and health: the timer and the controller are those of a loop that runs, as long as
  none was cancelled; tries pass their limit only by the loops that failed; what is repaired and no
  longer watched was removed meanwhile; connections and failures belong to a check each;
- wrapper and seeder: the places taken are those of connections created, being created or failed, a
  row in the cache is the stored one unless it was bypassed; the backup stays within what the
  stores hold until it is lost, and what was restored is as it was;
- the migrator: for a call that is alone (`Alone`), the executed steps are those before its own and
  what it still has to roll back is in the database. The recursive function of the steps to
  undo is shown to exist and to hold the reversible steps only (`RecursionExists`,
  `OnlyReversible`);
- the manager of versions: the version is the sum of the steps in the database, and the length of
  the history with the rollbacks lost and under way; it falls below 0 by no more than the calls that
  ended (`VersionFloor`);
- the store, the queue, the tracker and the steps: a request of a call that waits is what the
  call decided on (`AskedFor`), the array is the table but for the steps of a batch
  (`ArrayAgrees`); what a loop over the queue has passed was tried; a flag set alone is of a
  migration that ran; rows a batch has not reached are as before.

Besides limits, this asks that the sets of users and lessons are the positions of
their rows, numbered from 1 (`RowsAssumption`), as the cursors of the three steps read them.

**Only model-checked.** Liveness (`AcquireSettles`, `RequestsEnd`, `LogoutPropagates`,
`AwardsSettle`, `CallsSettle`), since ENABLED and fairness are beyond the prover.
`StatsMatchProgress`, that the calculator's longest and current streaks and its averages match the
progress they are about: it compares folds over lists of days and rounds their shares, which is
induction over data, and the run's bound on changes (`MaxChanges`) is what it was checked under. What
recursive definitions compute for inputs of every size (distances of longer words), for the
same reason.

## 7. Disagreements between the code and its documentation

Shown by a run, and quoted in `PROJECT.json` under "findings": one request id is awarded
twice when the repeat starts before the first is saved (`points_twice`).

Met while modelling. The models do what the code does, and the properties say what remains
true; where a race excuses a difference, a history variable records the race.

*AbortManager.* `extendTimeout` leaves the first timer running; a timer of an aborted request
fires on the next request of that id; a request that a callback registers while `dispose`
runs is forgotten.

*Pool.* A request that timed out stays in the queue and is given a connection nobody can
release (connection_pool.js:67 against :75); creations that overlap exceed `max_connections`;
shutdown never settles the promises in the queue.

*Sessions.* A refresh that is encrypting while the user logs out puts the removed row back
(session_manager.js:1165); two logins at the same time exceed the limit of sessions; a rotation
is not told to other tabs, whose logout messages then miss; LOGOUT_ALL logs out every user's
tab; a login that a LOGOUT_ALL overtakes ends authenticated without a session;
`absolute_timeout` is not used; the cleanup and the restore delete rows refreshed meanwhile; a
failed delete in `#remove_session` (:1187) is logged and passes for success.

*Engine.* The cache key leaves out the history that is cached; FSRS intervals fall to 0 with
repetition.

*Points.* A failed transaction counts as the answer, so its activity is lost; the queue is
synced only at an `online` event (:1523), not when a page loads online; the bonus for a
level-up is NaN (:1306, the strategy at :187 wants an argument).

*Accounts.* The promise of the first registration is kept for good, so a retry never reaches
the repository, though the screen asks for one (auth_service.js:49, register_screen.js:899);
after a refused login the captcha changes without a redraw (:1593); remembered e-mail, second
factor and tab are read after the await; Enter and offline listeners outlive the registration
screen and its draft is never found again; rotated refresh tokens never reach the rows of the
sessions; a login or profile answered after a logout logs in again. An aborted asynchronous
validator of the form input pushes its error into the list of the newer run.

*Lessons.* startLesson overwrites a completed row; concurrent completions lose statistics or
lower the best result; the invalidated key `lessons:<user>` never matches; countDueInNextDays
counts only cards due now; the progress manager keeps streaks in memory only and never looks
at a locked achievement again (progress-manager.js:904 against :941); instances of the review
service share listeners; a lesson that comes due without a write is not listed by the review
manager, and its load_history replaces reviews added meanwhile; two overlapping completions in
the lesson facade may announce last what is not stored last.

*Learning pages.* Words to pronounce share the cache key `undefined`, so the second speaks the
first (audio-service.js:946 against :1004); stop() drops queued items whose promises never
settle; the translation renderer has no destroy, so that the next exercise cannot be drawn;
flashcard ratings are never offered; a paused review can only be reset, and two quick answers
skip a card; asking for more exercises than words throws all away, and duplicate words keep
the drawing of options going for ever; a choice button loses its selection when the pointer
leaves; the progress bar tells `destroy` to nobody.

*Rewards.* A broken streak is 1 with a longest of 0; an achievement updated after its claim can
be claimed again; without WebAssembly the statistics fail with UNKNOWN_TASK; the profile
service reads the user once and its backup prefix mixes users 1 and 10; the achievements
screen keeps its skeleton when a reload fails, and late loads revive it after destruction;
badges copied from the cache lose their listeners; the profile edit screen stays `isSaving`
after a failed save (:1061 against :1102) and marks edits during a save as saved.

*Platform.* An update of a key in a full cache evicts another, and two calls that make room at once
choose the same victim and evict it once, so that the cache stays above `maxSize`, by its
documentation (cache_strategy.js:36) the largest number of entries (:446 makes room once, with
an `if`); sync of the offline manager never
sends (:546) and stays in progress, and what is queued before the stored queue was read
replaces it; abort_all of the router leaves navigations running; every dispatch of the state
manager throws after the change, transactions with a change fail and undo what others did,
time travel never ends; a failed backup leaves the seeder seeding; a failed operation keeps
its place in the timeout handler, a wake-up passes its limit, a shutdown forgets the queue;
attempts of the orchestrator go on after the time limit; a cancelled reconnect loop forgets
the controller of the next, so that two run (reconnect_tracker.js:50 says otherwise); a stopped
ReconnectManager leaves a promise unsettled; the repair of a removed connection goes on; the
checker keeps a connection that was acquired late; a failed creation keeps its place in the
wrapper's pool; executed steps of the migrator are never cleared; nothing sets
migration_in_progress; a failing migration rolls back the last step that succeeded, and a
rollback that fails loses it; the version may fall below 0; overlapping first loads of the
stores duplicate or drop entries; the queue of migrations run twice drops additions; the step
to version 3 passes over users after each batch and the step to 4 over the lessons between
two moves of its cursor (step_v3_to_v4.js:95 against :46); the step to 2 run again after an
abort empties the names of profiles.

## 8. What is not modelled

Cannot be loaded or constructed, so that there is no behaviour to model: `audio_player.js`
(its progress bar assigns an undeclared name, :340), `lesson_screen.js` (calls a method that
does not exist, :260), `lesson_card.js` (:144) and `badge_service.js` (:173) (assign private
methods), `stats_card.js` (:317) and `profile_screen.js` (:162) (undeclared private names),
`cache_invalidator.js` (TypeScript), `stats_collector.js` (declares what it imports),
`connection_stats.js` (ends in prose), `backoff_calculator.js` (freezes itself and throws),
`exercise/types/flashcard.js` (exports twice).

Without state or protocol: validators, results, logging, DTOs, constants, sample data, the
string comparison of exercises, event names, `stats_aggregator.js`.

Files that are wrapped in a Markdown fence (`form_input.js`, `choice_button.js`,
`register_screen.js`, `progress-manager.js`, `audio-service.js`) are modelled as the code
inside; of `achievements_screen.js`, two modules pasted together, the screen is. Imports that
do not exist in the repository (rate limiter, configuration, text utilities and worker of the
exercise service) are external.

Inside modelled components: the 2FA sessions (off by default), device data, analytics
and backups of the session manager; the event bus, telemetry, plugins and saves of older
versions of the engine; the caches, statistics and events of the points service, and the
windows of its rate limit and anti-cheat check, which are a refusal at any time; hourly
statistics and the debug log of AbortManager; `#start_idle_cleanup` of the pool, which
nothing calls; the social login; layouts, texts, styles and metrics of all screens. The
notes in `PROJECT.json` say it for each component.

## 9. What could come next

Every invariant and action property the runs check is proved but `StatsMatchProgress`; it needs
the days of a calculator's history as a set with a successor, on which the least day that
breaks a streak can stand for induction, as the least number does in the proofs of sums. A
counting semaphore as the abstract specification of the limits, once the code gives its places
back; a session manager whose tabs have all operations, with a statement of what a cleanup may
remove; the recursive definitions of the exercises as functions, to say more of them than the
lengths of the instance allow.
