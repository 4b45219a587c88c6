-------------------------- MODULE ProgressManager --------------------------
(***************************************************************************)
(* features/progress/progress-manager.js (the code inside its Markdown     *)
(* fence): results of exercises and lessons, streaks and achievements of   *)
(* one user.  The progress is an object shared by the cache and the calls  *)
(* that hold it; the repository keeps a copy.  Two calls that find no      *)
(* cached object each make one, and a day may then lengthen the streak     *)
(* twice.  The streak lives in memory too.  Points, mastery and the goal   *)
(* of the day are left out; rewards are counted, and one achievement, the  *)
(* first lesson, stands for all.                                           *)
(***************************************************************************)
EXTENDS Naturals, FiniteSets

CONSTANTS Trackers,    \* calls in flight
          Objects,     \* places of progress objects
          MaxToday,    \* bound: days that are followed
          MaxStreak,   \* bound: streaks that are followed
          None

VARIABLES today,
          object,      \* the progress objects in memory
          progressCache, saved,
          streaks,     \* StreakManager: [current, longest], or None
          track        \* calls: [op, at, obj, row], row: what was loaded

vars == <<today, object, progressCache, saved, streaks, track>>

NewProgress == [rewards |-> 0, lessons |-> 0, achievement |-> "absent",
                streak |-> 0, longest |-> 0, last |-> None]
NoTrack == [op |-> "none", at |-> "idle", obj |-> None, row |-> None]

Init ==
  /\ today = 0
  /\ object = [o \in Objects |-> None]
  /\ progressCache = None
  /\ saved = None
  /\ streaks = None
  /\ track = [t \in Trackers |-> NoTrack]

Set(t, at, o) == track' = [track EXCEPT ![t].at = at, ![t].obj = o, ![t].row = None]
Held(o) == o = progressCache \/ \E t \in Trackers : track[t].obj = o
Free == {o \in Objects : ~Held(o)}
(* The objects that something still refers to after the step. *)
Kept(f) == [o \in Objects |-> IF o = progressCache' \/ \E t \in Trackers : track'[t].obj = o
                              THEN f[o] ELSE None]

-----------------------------------------------------------------------------
(* A lesson looks for the progress a second time, in _getLessonProgress.   *)
AfterLoad(op) == IF op = "lesson" THEN "again" ELSE "update"

(* trackLessonProgress, trackExerciseResult and the calls that only read;  *)
(* _getUserProgress takes the cached object or asks the repository.        *)
Track(t, op) ==
  /\ track[t] = NoTrack
  /\ track' = [track EXCEPT ![t] =
                 [op |-> op, at |-> IF progressCache = None THEN "load" ELSE AfterLoad(op),
                  obj |-> progressCache, row |-> None]]
  /\ UNCHANGED <<today, object, progressCache, saved, streaks>>

(* The repository reads the row; a user without one gets one, which is     *)
(* written before the call goes on.                                        *)
RowRead(t) ==
  /\ track[t].at = "load"
  /\ track' = [track EXCEPT ![t].at = IF saved = None THEN "create" ELSE "loaded",
                            ![t].row = saved]
  /\ UNCHANGED <<today, object, progressCache, saved, streaks>>

RowCreated(t) ==
  /\ track[t].at = "create"
  /\ saved' = NewProgress
  /\ track' = [track EXCEPT ![t].at = "loaded", ![t].row = NewProgress]
  /\ UNCHANGED <<today, object, progressCache, streaks>>

(* The answer becomes the cached object, whatever the cache has by then. A *)
(* call that looked for the second time keeps the object of the first.     *)
Loaded(t) ==
  /\ track[t].at = "loaded" /\ Free # {}
  /\ LET o == CHOOSE x \in Free : TRUE
     IN /\ progressCache' = o
        /\ IF track[t].obj = None THEN Set(t, AfterLoad(track[t].op), o)
           ELSE Set(t, "update", track[t].obj)
        /\ object' = Kept([object EXCEPT ![o] = track[t].row])
  /\ UNCHANGED <<today, saved, streaks>>

LookedAgain(t) ==
  /\ track[t].at = "again"
  /\ Set(t, IF progressCache = None THEN "load" ELSE "update", track[t].obj)
  /\ UNCHANGED <<today, object, progressCache, saved, streaks>>

ReadEnds(t) ==
  /\ track[t].op = "read" /\ track[t].at = "update"
  /\ track' = [track EXCEPT ![t] = NoTrack]
  /\ UNCHANGED <<today, progressCache, saved, streaks>>
  /\ object' = Kept(object)

LessonCompleted(t) ==
  /\ track[t].op = "lesson" /\ track[t].at = "update"
  /\ object[track[t].obj].lessons < 1
  /\ object' = [object EXCEPT ![track[t].obj].lessons = @ + 1]
  /\ Set(t, "save", track[t].obj)
  /\ UNCHANGED <<today, progressCache, saved, streaks>>

(* StreakManager.updateStreak: what it knows is lost with the page, the    *)
(* last active day is not.                                                 *)
Known == IF streaks = None THEN [current |-> 0, longest |-> 0] ELSE streaks
UpdateStreak(last) ==
  LET n == IF last = None THEN 1
           ELSE IF last = today THEN Known.current
           ELSE IF last + 1 = today THEN Known.current + 1
           ELSE 1
  IN [current |-> n, longest |-> IF n > Known.longest THEN n ELSE Known.longest]

ExerciseAnswered(t) ==
  LET o == track[t].obj  s == UpdateStreak(object[o].last) IN
  /\ track[t].op = "exercise" /\ track[t].at = "update"
  /\ s.longest <= MaxStreak
  /\ object' = [object EXCEPT ![o].streak = s.current,
                              ![o].longest = s.longest, ![o].last = today]
  /\ streaks' = s
  /\ Set(t, "goal", o)
  /\ UNCHANGED <<today, progressCache, saved>>

(* _updateDailyGoals: the goal of the day is read and saved again; nothing *)
(* else depends on it.                                                     *)
GoalUpdated(t) ==
  /\ track[t].at = "goal"
  /\ Set(t, "achievements", track[t].obj)
  /\ UNCHANGED <<today, object, progressCache, saved, streaks>>

(* Mutant: a locked achievement is looked at again and not marked. *)
M_Check(p) ==
  IF p.achievement = "unlocked" THEN p
  ELSE IF p.lessons >= 1 THEN [p EXCEPT !.rewards = @ + 1]
  ELSE [p EXCEPT !.achievement = "locked"]

(* _checkAchievements: an achievement that is listed, unlocked or not, is  *)
(* not looked at again.                                                    *)
Check(p) ==
  IF p.achievement # "absent" THEN p
  ELSE IF p.lessons >= 1 THEN [p EXCEPT !.achievement = "unlocked", !.rewards = @ + 1]
  ELSE [p EXCEPT !.achievement = "locked"]

CheckAchievements(t) ==
  /\ track[t].at = "achievements"
  /\ object' = [object EXCEPT ![track[t].obj] = Check(@)]
  /\ Set(t, "save", track[t].obj)
  /\ UNCHANGED <<today, progressCache, saved, streaks>>

Saved(t) ==
  /\ track[t].at = "save"
  /\ saved' = object[track[t].obj]
  /\ progressCache' = track[t].obj
  /\ track' = [track EXCEPT ![t] = NoTrack]
  /\ object' = Kept(object)
  /\ UNCHANGED <<today, streaks>>

(* The repository fails: the call ends, the object keeps what was done. *)
Fails(t) ==
  /\ track[t].at \in {"load", "create", "loaded", "goal", "achievements", "save"}
  /\ track' = [track EXCEPT ![t] = NoTrack]
  /\ UNCHANGED <<today, progressCache, saved, streaks>>
  /\ object' = Kept(object)

ClearCache ==
  /\ progressCache' = None
  /\ UNCHANGED <<today, saved, streaks, track>>
  /\ object' = Kept(object)

(* The page is loaded again. *)
Reload ==
  /\ object' = [o \in Objects |-> None]
  /\ progressCache' = None /\ streaks' = None
  /\ track' = [t \in Trackers |-> NoTrack]
  /\ UNCHANGED <<today, saved>>

DayPasses ==
  /\ today < MaxToday
  /\ today' = today + 1
  /\ UNCHANGED <<object, progressCache, saved, streaks, track>>

Next ==
  \/ \E t \in Trackers :
       \/ \E op \in {"read", "lesson", "exercise"} : Track(t, op)
       \/ RowRead(t) \/ RowCreated(t) \/ Loaded(t) \/ LookedAgain(t) \/ ReadEnds(t) \/ LessonCompleted(t) \/ ExerciseAnswered(t)
       \/ GoalUpdated(t) \/ CheckAchievements(t) \/ Saved(t) \/ Fails(t)
  \/ ClearCache \/ Reload \/ DayPasses

Spec == Init /\ [][Next]_vars

-----------------------------------------------------------------------------
ProgressRows == {object[o] : o \in Objects} \cup {saved}

TypeOK ==
  /\ progressCache \in Objects \cup {None}
  /\ \A t \in Trackers : track[t].at \in {"again", "update", "goal", "achievements", "save"}
                           => track[t].obj \in Objects /\ object[track[t].obj] # None
  /\ \A p \in ProgressRows \ {None} : p.longest \in 0..MaxStreak

(* Whatever overlaps, fails or is reloaded, no row holds a reward twice or *)
(* without its achievement, and none a streak beyond its longest.          *)
RewardedOnce ==
  \A p \in ProgressRows \ {None} :
    /\ p.rewards = IF p.achievement = "unlocked" THEN 1 ELSE 0
    /\ p.streak <= p.longest

=============================================================================
