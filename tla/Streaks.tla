------------------------------ MODULE Streaks -------------------------------
(***************************************************************************)
(* The streak of a learner and the indicator that draws it. The machines   *)
(* share no state: the indicator is given a configuration.                 *)
(***************************************************************************)
EXTENDS Integers

-----------------------------------------------------------------------------
(***************************************************************************)
(* features/gamification/streak_service.js: the streak of a user, read,    *)
(* recomputed for today and saved as a whole by calls that overlap, with a *)
(* cache beside the repository (external).  Days are numbers; a streak     *)
(* holds what the code counts, its history the number of its entries.      *)
(***************************************************************************)

CONSTANTS Calls,           \* calls in flight
          FreezesPerMonth, \* STREAK_CONFIG.max_freeze_per_month
          RequiredStreak,  \* STREAK_CONFIG.streak_required_for_freeze
          LastDay,         \* bound: days that pass
          None

VARIABLES today, service_streak,   \* the row of the repository, or None
          cached_streak,   \* the row in #cache, or None
          saving,          \* calls: [op, row, stored]
          raced            \* calls overlapped, or the answer of a save was lost

service_vars == <<today, service_streak, cached_streak, saving, raced>>

Call(op, row) == [op |-> op, row |-> row, stored |-> FALSE]
NoSave == Call("none", None)

Fresh(day, current, longest) ==
  [current |-> current, longest |-> longest, last |-> day,
   frozen |-> FALSE, freezes |-> FreezesPerMonth, history |-> 0, version |-> 2]

(* A row saved before version 2 kept no history. *)
Legacy == [Fresh(0, RequiredStreak, RequiredStreak)
             EXCEPT !.freezes = FreezesPerMonth - 1, !.version = 1]

ServiceInit ==
  /\ today = RequiredStreak
  /\ service_streak \in {None, [Legacy EXCEPT !.last = RequiredStreak]}
  /\ cached_streak = None
  /\ saving = [c \in Calls |-> NoSave]
  /\ raced = FALSE

Larger(a, b) == IF a > b THEN a ELSE b

(* #is_freeze_eligible *)
FreezeEligible(s) == s.freezes > 0 /\ s.current >= RequiredStreak

(* #increment_streak *)
Increment(s) ==
  [s EXCEPT !.current = @ + 1, !.longest = Larger(s.current + 1, @),
            !.last = today, !.frozen = FALSE]

(* Mutant: the history outlives the streak. *)
M_HandleBreak(s) ==
  IF FreezeEligible(s)
  THEN [s EXCEPT !.freezes = @ - 1, !.frozen = TRUE, !.last = today, !.history = @ + 1]
  ELSE [Fresh(today, 1, s.longest) EXCEPT !.history = s.history]

(* #handle_streak_break: a freeze is spent, or the streak starts again *)
HandleBreak(s) ==
  IF FreezeEligible(s)
  THEN [s EXCEPT !.freezes = @ - 1, !.frozen = TRUE, !.last = today, !.history = @ + 1]
  ELSE Fresh(today, 1, s.longest)

(* #calculate_streak, #migrate_if_needed *)
Calculated(s) ==
  [(IF today - s.last = 1 THEN Increment(s)
    ELSE IF today - s.last > 1 THEN HandleBreak(s) ELSE s) EXCEPT !.version = 2]

-----------------------------------------------------------------------------
(* A call starts; beside another one it may be overtaken. *)
Begins(c, call) ==
  /\ saving[c] = NoSave
  /\ saving' = [saving EXCEPT ![c] = call]
  /\ raced' = (raced \/ \E d \in Calls : saving[d] # NoSave)
  /\ UNCHANGED <<today, service_streak, cached_streak>>

(* update_streak: the row is read ... *)
UpdateStreak(c) == Begins(c, Call("read", service_streak))

(* ... and today is looked up. A user without a row gets the initial one,  *)
(* #create_initial_streak.                                                 *)
Calculate(c) ==
  /\ saving[c].op = "read"
  /\ saving' = [saving EXCEPT ![c] = IF saving[c].row = None THEN Call("create", Fresh(today, 0, 0))
                                     ELSE Call("update", Calculated(saving[c].row))]
  /\ UNCHANGED <<today, service_streak, cached_streak, raced>>

ResetStreak(c) == Begins(c, Call("reset", Fresh(today, 0, 0)))

(* The repository replaces the row ... *)
Stores(c) ==
  /\ saving[c].op \in {"create", "update", "reset"} /\ ~saving[c].stored
  /\ service_streak' = saving[c].row
  /\ saving' = [saving EXCEPT ![c].stored = TRUE]
  /\ UNCHANGED <<today, cached_streak, raced>>

(* ... and answers; then the cache, and with it update_state, is told,     *)
(* except of an initial row.                                               *)
Saved(c) ==
  /\ saving[c].stored
  /\ IF saving[c].op = "create"
     THEN UNCHANGED cached_streak
     ELSE cached_streak' = saving[c].row
  /\ saving' = [saving EXCEPT ![c] = NoSave]
  /\ UNCHANGED <<today, service_streak, raced>>

(* The repository fails, before or after the row was replaced, and the     *)
(* call answers with the error.                                            *)
SaveFails(c) ==
  /\ saving[c].op # "none"
  /\ saving' = [saving EXCEPT ![c] = NoSave]
  /\ raced' = (raced \/ saving[c].stored)
  /\ UNCHANGED <<today, service_streak, cached_streak>>

(* get_streak, has_activity_today, get_remaining_grace_period: a cached    *)
(* row answers at once, else the row is read ...                           *)
GetStreak(c) ==
  /\ cached_streak = None /\ service_streak # None
  /\ Begins(c, Call("get", service_streak))

(* ... and cached. *)
Got(c) ==
  /\ saving[c].op = "get"
  /\ cached_streak' = saving[c].row
  /\ saving' = [saving EXCEPT ![c] = NoSave]
  /\ UNCHANGED <<today, service_streak, raced>>

(* invalidate_cache, #get_cached of an entry whose time is over *)
Forget ==
  /\ cached_streak # None
  /\ cached_streak' = None
  /\ UNCHANGED <<today, service_streak, saving, raced>>

NextDay ==
  /\ today < LastDay
  /\ today' = today + 1
  /\ UNCHANGED <<service_streak, cached_streak, saving, raced>>

ServiceNext ==
  \/ \E c \in Calls : \/ UpdateStreak(c) \/ Calculate(c) \/ ResetStreak(c) \/ Stores(c)
                      \/ Saved(c) \/ SaveFails(c) \/ GetStreak(c) \/ Got(c)
  \/ Forget \/ NextDay

ServiceSpec == ServiceInit /\ [][ServiceNext]_service_vars

-----------------------------------------------------------------------------
Rows == [current : 0..LastDay, longest : 0..LastDay, last : 0..LastDay, frozen : BOOLEAN,
         freezes : 0..FreezesPerMonth, history : 0..FreezesPerMonth, version : {1, 2}]

ServiceTypeOK ==
  /\ today \in 0..LastDay
  /\ service_streak \in Rows \cup {None} /\ cached_streak \in Rows \cup {None}
  /\ \A c \in Calls : saving[c].row \in Rows \cup {None}
  /\ raced \in BOOLEAN

(* Days bridged by a freeze are paid for: whatever calls overlap, fail,    *)
(* come late or lose their answer, and whichever row is stored last, the   *)
(* freezes left and those in the history never exceed the month's and a    *)
(* streak claims no more days than have passed.  As long as calls follow   *)
(* one another and saves are answered, the cache tells what the repository *)
(* holds: what a call that overlaps another one computed may be lost, and  *)
(* a late answer leaves the wrong row in the cache.                        *)
StreakIsEarned ==
  /\ \A s \in {service_streak, cached_streak} \ {None} :
       s.freezes + s.history <= FreezesPerMonth /\ s.current <= s.last
  /\ ~raced /\ (\A c \in Calls : ~saving[c].stored)
       => cached_streak \in {service_streak, None}

-----------------------------------------------------------------------------
(***************************************************************************)
(* ui/components/streak_indicator.js: the indicator of a streak.  A change *)
(* of its configuration is drawn in a microtask, once for a burst; the     *)
(* flame is drawn frame by frame while the indicator is mounted and an     *)
(* observer sees it.  Commands can be undone.                              *)
(***************************************************************************)

CONSTANTS Streaks,     \* values of currentStreak
          MaxCommands  \* bound: commands in the history

VARIABLES config,            \* the streak of #config
          drawn_streak,      \* the streak in the page
          renderScheduled, isMounted, animationsEnabled, isDisposed,
          frames,            \* frames that were requested and are to come
          observed,          \* #intersectionObserver observes the element
          instance,          \* #instances has it
          commands           \* length of #commandHistory

view == <<isMounted, animationsEnabled, frames, observed>>
indicator_vars == <<config, drawn_streak, renderScheduled, isDisposed, instance, commands, view>>

(* constructor, #createElements: drawn at once *)
IndicatorInit ==
  /\ config \in Streaks /\ drawn_streak = config /\ renderScheduled = FALSE
  /\ isMounted = FALSE /\ animationsEnabled = TRUE /\ isDisposed = FALSE
  /\ frames = 0 /\ observed = FALSE /\ commands = 0
  /\ instance = TRUE   \* getInstance made it

-----------------------------------------------------------------------------
(* The set of the proxy, #scheduleRender; an indicator that is disposed    *)
(* still takes the values.                                                 *)
ScheduleRender == renderScheduled' = (renderScheduled \/ ~isDisposed)

(* update, of a valid configuration: an invalid one changes nothing. *)
Update(streak) ==
  /\ config' = streak /\ ScheduleRender
  /\ UNCHANGED <<drawn_streak, isDisposed, instance, commands, view>>

(* The microtask: an indicator that was disposed meanwhile keeps waiting. *)
Render ==
  /\ renderScheduled /\ ~isDisposed
  /\ drawn_streak' = config /\ renderScheduled' = FALSE
  /\ UNCHANGED <<config, isDisposed, instance, commands, view>>

-----------------------------------------------------------------------------
(* enableAnimation: only from disabled.  #animate: each frame asks for the *)
(* next, which leaves their number as it is.                               *)
EnableAnimation(mounted) ==
  IF ~animationsEnabled /\ mounted /\ ~isDisposed
  THEN animationsEnabled' = TRUE /\ frames' = frames + 1
  ELSE UNCHANGED <<animationsEnabled, frames>>

(* disableAnimation: the frame that was requested last is cancelled. *)
DisableAnimation ==
  animationsEnabled' = FALSE /\ frames' = IF frames > 0 THEN frames - 1 ELSE 0

Mount ==
  /\ ~isMounted /\ isMounted' = TRUE /\ observed' = TRUE
  /\ EnableAnimation(TRUE)
  /\ UNCHANGED <<config, drawn_streak, renderScheduled, isDisposed, instance, commands>>

Unmount ==
  /\ isMounted /\ isMounted' = FALSE /\ observed' = FALSE
  /\ DisableAnimation
  /\ UNCHANGED <<config, drawn_streak, renderScheduled, isDisposed, instance, commands>>

(* #setupIntersectionObserver: the callback may come after an unmount. *)
Intersects(seen) ==
  /\ IF seen THEN EnableAnimation(isMounted) ELSE DisableAnimation
  /\ UNCHANGED <<config, drawn_streak, renderScheduled, isMounted, isDisposed, observed,
                 instance, commands>>

-----------------------------------------------------------------------------
(* executeCommand; one that throws is not remembered. *)
ExecuteCommand ==
  /\ commands < MaxCommands /\ commands' = commands + 1
  /\ UNCHANGED <<config, drawn_streak, renderScheduled, isDisposed, instance, view>>

(* undo: the last is forgotten, whether it can be undone or not. *)
Undo ==
  /\ commands > 0 /\ commands' = commands - 1
  /\ UNCHANGED <<config, drawn_streak, renderScheduled, isDisposed, instance, view>>

(* dispose, removeInstance, clearAllInstances *)
Dispose ==
  /\ ~isDisposed /\ isDisposed' = TRUE
  /\ isMounted' = FALSE /\ observed' = FALSE /\ DisableAnimation
  /\ instance' = FALSE /\ commands' = 0
  /\ UNCHANGED <<config, drawn_streak, renderScheduled>>

IndicatorNext ==
  \/ \E streak \in Streaks : Update(streak)
  \/ Render \/ Mount \/ Unmount \/ \E seen \in BOOLEAN : Intersects(seen)
  \/ ExecuteCommand \/ Undo \/ Dispose

IndicatorSpec == IndicatorInit /\ [][IndicatorNext]_indicator_vars

-----------------------------------------------------------------------------
IndicatorTypeOK ==
  /\ {config, drawn_streak} \subseteq Streaks
  /\ {renderScheduled, isMounted, animationsEnabled, isDisposed, observed, instance}
       \subseteq BOOLEAN
  /\ frames \in 0..1 /\ commands \in 0..MaxCommands

(* Once no drawing is scheduled the page shows the streak that is          *)
(* configured; at most one loop of frames runs, of an indicator that is    *)
(* mounted and enabled, and none of one that is disposed.                  *)
DrawnIsConfigured ==
  /\ ~renderScheduled /\ ~isDisposed => drawn_streak = config
  /\ frames > 0 => isMounted /\ animationsEnabled /\ ~isDisposed
  /\ instance => ~isDisposed

-----------------------------------------------------------------------------
(* The values of the variables of every machine. *)
TypeOK == ServiceTypeOK /\ IndicatorTypeOK
=============================================================================
