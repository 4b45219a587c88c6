---------------------------- MODULE Achievements ----------------------------
(***************************************************************************)
(* Achievements: the model of one, and those a user holds. The machines    *)
(* share no state.                                                         *)
(***************************************************************************)
EXTENDS Naturals, Sequences, SequencesExt, FiniteSets

-----------------------------------------------------------------------------
(***************************************************************************)
(* shared/models/achievement_model.js: the models of a user's progress     *)
(* towards an achievement, each change a new one.  Their host (external)   *)
(* keeps the latest.  Tiers, texts and rewards are left out.               *)
(***************************************************************************)

CONSTANTS Achievements, Target,  \* progress.target of each
          HistoryKept,           \* changes kept, 10 in the code
          MaxUpdates,            \* bound: changes of all of them
          Missing

VARIABLES user_achievement,  \* per achievement: the model, or Missing
          paid,              \* claims that succeeded
          updates

model_vars == <<user_achievement, paid, updates>>

ModelInit ==
  /\ user_achievement = [a \in Achievements |-> Missing]
  /\ paid = [a \in Achievements |-> 0]
  /\ updates = 0

Counted == updates < MaxUpdates /\ updates' = updates + 1

(* Math.min(Math.round(value / target * 100), 100) *)
Percent(value) ==
  LET p == (200 * value + Target) \div (2 * Target) IN IF p > 100 THEN 100 ELSE p

(* get_available_achievements: those the user has no model of *)
Available == {a \in Achievements : user_achievement[a] = Missing}

-----------------------------------------------------------------------------
(* constructor of UserAchievementModel, #normalize *)
Start(a) ==
  /\ a \in Available /\ Counted
  /\ user_achievement' = [user_achievement EXCEPT ![a] =
       [status |-> "locked", current |-> 0, percent |-> 0, history |-> <<>>,
        completed_at |-> FALSE, claimed_at |-> FALSE]]
  /\ UNCHANGED paid

(* Mutant: the history is not cut and the status follows the last value. *)
M_Updated(u, value) ==
  LET p == Percent(value)
      current == IF value < Target THEN value ELSE Target IN
  [u EXCEPT !.current = current, !.percent = p,
            !.history = Append(@, value),
            !.status = IF p >= 100 THEN "completed" ELSE IF current > 0 THEN "in_progress" ELSE u.status,
            !.completed_at = (p >= 100)]

(* update_progress *)
Updated(u, value) ==
  LET p == Percent(value)
      current == IF value < Target THEN value ELSE Target
      history == Append(u.history, value) IN
  [u EXCEPT !.current = current, !.percent = p,
            !.history = SubSeq(history, IF Len(history) > HistoryKept THEN 2 ELSE 1, Len(history)),
            !.status = IF p >= 100 THEN "completed"
                       ELSE IF current > 0 /\ u.status = "locked" THEN "in_progress" ELSE u.status,
            !.completed_at = u.completed_at \/ p >= 100]

UpdateProgress(a, value) ==
  /\ user_achievement[a] # Missing /\ Counted
  /\ user_achievement' = [user_achievement EXCEPT ![a] = Updated(@, value)]
  /\ UNCHANGED paid

(* claim: the status decides, whatever claimed_at says. *)
Claim(a) ==
  /\ user_achievement[a] # Missing /\ user_achievement[a].status = "completed" /\ Counted
  /\ user_achievement' = [user_achievement EXCEPT ![a].status = "claimed", ![a].claimed_at = TRUE]
  /\ paid' = [paid EXCEPT ![a] = @ + 1]

(* is_claimable asks for both. *)
Claimable(a) ==
  LET u == user_achievement[a] IN u # Missing /\ u.status = "completed" /\ ~u.claimed_at

(* to_db, from_db, clone: the row has all that the model has. *)
ModelNext ==
  \E a \in Achievements : \/ Start(a) \/ Claim(a)
                          \/ \E value \in 0..Target + 1 : UpdateProgress(a, value)

ModelSpec == ModelInit /\ [][ModelNext]_model_vars

-----------------------------------------------------------------------------
Statuses == {"locked", "in_progress", "completed", "claimed"}

ModelTypeOK ==
  /\ updates \in 0..MaxUpdates
  /\ \A a \in Achievements \ Available : LET u == user_achievement[a] IN
       /\ u.status \in Statuses /\ u.current \in 0..Target /\ u.percent \in 0..100
       /\ Len(u.history) <= HistoryKept

(* An achievement once completed stays so however its progress goes: the   *)
(* status never falls back, a locked one has made no progress, and claims  *)
(* are paid only to those that were completed.                             *)
CompletionIsKept ==
  \A a \in Achievements \ Available : LET u == user_achievement[a] IN
    /\ u.completed_at <=> u.status \in {"completed", "claimed"}
    /\ paid[a] > 0 <=> u.claimed_at
    /\ u.status = "locked" => u.percent = 0
    /\ Claimable(a) => paid[a] = 0

-----------------------------------------------------------------------------
(***************************************************************************)
(* features/user/user_achievements.js: the achievements of a user, at most *)
(* one of each type, made by a factory or given, unlocked once, and told   *)
(* to subscribers whose callbacks may throw.  A row in the database is the *)
(* list with its dates as text.                                            *)
(***************************************************************************)

CONSTANTS Types, MaxSize,  \* bound: length of lists that are restored
          Unsaved

VARIABLES held,       \* #achievements: sequence of [type, unlocked, dated]
          told,       \* what a subscriber was last told
          subscribed, \* a subscriber listens
          row,        \* the row of toDB, or Unsaved
          unheard     \* a change no subscriber was told

held_vars == <<held, told, subscribed, row, unheard>>

HeldInit == held = <<>> /\ told = <<>> /\ subscribed = FALSE /\ row = Unsaved /\ unheard = FALSE

HasAchievement(t) == \E i \in DOMAIN held : held[i].type = t

(* emit: the subscriber is told the whole list, get_all. *)
Emit == IF subscribed THEN told' = held' /\ unheard' = FALSE
        ELSE told' = told /\ unheard' = TRUE

(* add_achievement, add_factory_achievement, add_achievements: a type that *)
(* is there already is refused; one that comes unlocked gets its date.     *)
AddAchievement(t, unlocked) ==
  /\ ~HasAchievement(t)
  /\ held' = Append(held, [type |-> t, unlocked |-> unlocked, dated |-> unlocked])
  /\ Emit /\ UNCHANGED <<subscribed, row>>

(* unlock_achievement: the first of the type, if it is locked *)
UnlockAchievement(t) ==
  /\ \E i \in DOMAIN held : held[i].type = t /\ ~held[i].unlocked
       /\ held' = [held EXCEPT ![i].unlocked = TRUE, ![i].dated = TRUE]
  /\ Emit /\ UNCHANGED <<subscribed, row>>

(* subscribe and what it returns; nothing is told at first *)
Subscribe ==
  /\ ~subscribed /\ subscribed' = TRUE
  /\ UNCHANGED <<held, told, row, unheard>>

Unsubscribe ==
  /\ subscribed /\ subscribed' = FALSE
  /\ UNCHANGED <<held, told, row, unheard>>

(* save_state, toDB *)
ToDB == row # held /\ row' = held /\ UNCHANGED <<held, told, subscribed, unheard>>

(* restore_state: an event of its own that subscribers do not listen to *)
RestoreState ==
  /\ row # Unsaved /\ held # row
  /\ held' = row /\ unheard' = TRUE
  /\ UNCHANGED <<told, subscribed, row>>

(* fromDB: another object, without subscribers *)
FromDB ==
  /\ row # Unsaved
  /\ held' = row /\ subscribed' = FALSE /\ unheard' = TRUE
  /\ UNCHANGED <<told, row>>

HeldNext ==
  \/ \E t \in Types : \/ \E u \in BOOLEAN : AddAchievement(t, u)
                      \/ UnlockAchievement(t)
  \/ Subscribe \/ Unsubscribe \/ ToDB \/ RestoreState \/ FromDB

HeldSpec == HeldInit /\ [][HeldNext]_held_vars

-----------------------------------------------------------------------------
HeldTypeOK ==
  /\ Len(held) <= MaxSize /\ subscribed \in BOOLEAN /\ unheard \in BOOLEAN
  /\ \A i \in DOMAIN held : held[i].type \in Types

(* A user has an achievement once, unlocked ones have their date, saving   *)
(* and restoring keep that, and a subscriber knows the list unless it was  *)
(* changed before it listened or restored behind it.                       *)
OneOfEachType ==
  /\ \A s \in {held, row} \ {Unsaved} :
       /\ \A i, j \in DOMAIN s : s[i].type = s[j].type => i = j
       /\ \A i \in DOMAIN s : s[i].unlocked = s[i].dated
  /\ ~unheard /\ subscribed => told = held

-----------------------------------------------------------------------------
(* The values of the variables of every machine. *)
TypeOK == ModelTypeOK /\ HeldTypeOK
=============================================================================
