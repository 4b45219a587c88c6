-------------------------- MODULE ReviewSchedules ---------------------------
(***************************************************************************)
(* Which cards and lessons are asked again and when: the scheduler of the  *)
(* lesson engine and the manager of the lesson model. The machines share   *)
(* no state.                                                               *)
(***************************************************************************)
EXTENDS Integers, Sequences, FiniteSets

-----------------------------------------------------------------------------
(***************************************************************************)
(* features/lesson_engine/srs_scheduler.js: which cards are due, in which  *)
(* order, and the cache of their priorities.  A batch run gives way to     *)
(* other code at its timeouts, after the first batch and after every fifth *)
(* one; the awaits of the other functions are of values already there, so  *)
(* a sort is one step.  Cards are reviewed and days pass in between.       *)
(***************************************************************************)

CONSTANTS Cards,       \* sequence of the cards, the progress list
          BatchSize,
          MaxTime,     \* bound: half days that are followed
          MaxRep       \* bound: successes in a row that are followed

VARIABLES scheduler_time,  \* in half days
          card,        \* card -> [due, ease, mastery, rep], valid or not
          cached,      \* <<card, rep>> -> [score, day, failed] of the keys it
                       \* has; failed: the card failed since it was scored
          batch        \* the batch run: [at, found, always, ever, state];
                       \* found: how often a card is in its result

scheduler_vars == <<scheduler_time, card, cached, batch>>

Ids == {Cards[i] : i \in 1..Len(Cards)}
Keys == Ids \X (0..MaxRep)
NoPriority == [score |-> -1, day |-> -1, failed |-> FALSE]
Day(t) == t \div 2

(* ProgressItemValidator.validate; easeFactor in tenths. *)
ValidItem(c) == card[c].ease \in 13..50

(* Mutant: a card is due the day after. *)
M_IsDue(c) == card[c].due < scheduler_time

(* isItemDueSafe *)
IsDue(c) == card[c].due <= scheduler_time

(* calculatePriorityScore, in units of 2.5 points: what a card is overdue  *)
(* counts by the fraction of a day, 5 points a day.                        *)
DayPenalty == 2
Overdue(c) == IF scheduler_time > card[c].due THEN scheduler_time - card[c].due ELSE 0
Priority(c) ==
  LET raw == 40 + Overdue(c)
               + (IF card[c].ease < 20 THEN 8 ELSE 0)
               - (IF card[c].mastery >= 4 THEN 4 * (card[c].mastery - 3) ELSE 0)
               + (IF card[c].rep = 0 THEN 20 ELSE 0)
  IN IF raw < 0 THEN 0 ELSE IF raw > 400 THEN 400 ELSE raw

(* getItemId, getPriority: the key leaves out all but the repetition, and  *)
(* a score is good for the calendar day.                                   *)
Key(c) == <<c, card[c].rep>>
Hit(c) == cached[Key(c)] # NoPriority /\ cached[Key(c)].day = Day(scheduler_time)

NoneFound == [c \in Ids |-> 0]
NoBatch == [state |-> "none", at |-> 0, found |-> NoneFound, always |-> {}, ever |-> {}]

SchedulerInit ==
  /\ scheduler_time = 0
  /\ card \in [Ids -> {[due |-> d, ease |-> e, mastery |-> 3, rep |-> 0] : d \in {0, 1}, e \in {17, 25}}]
  /\ cached = [k \in Keys |-> NoPriority]
  /\ batch = NoBatch

(* Due(S, s): what a batch run that has seen the states up to now knows. *)
Seen(b, due) ==
  IF b.state = "runs" THEN [b EXCEPT !.always = @ \cap due, !.ever = @ \cup due] ELSE b

DueIn(f, d) == {c \in Ids : f[c].due <= d /\ f[c].ease \in 13..50}

-----------------------------------------------------------------------------
SchedulerTimePasses ==
  /\ scheduler_time < MaxTime
  /\ scheduler_time' = scheduler_time + 1
  /\ batch' = Seen(batch, DueIn(card, scheduler_time + 1))
  /\ UNCHANGED <<card, cached>>

Failed(e) == [score |-> e.score, day |-> e.day, failed |-> TRUE]

(* The engine answers a review of the card, due or not: a success schedules *)
(* it ahead and counts a repetition, a failure starts over; an ease below   *)
(* 1.3 makes the card invalid here.                                        *)
Review(c, success) ==
  /\ success => card[c].rep < MaxRep
  /\ card' = [card EXCEPT ![c] =
                IF success
                THEN [due |-> scheduler_time + 2 * (1 + @.rep), ease |-> @.ease,
                      mastery |-> IF @.mastery < 5 THEN @.mastery + 1 ELSE 5,
                      rep |-> @.rep + 1]
                ELSE [due |-> scheduler_time + 2, ease |-> IF @.ease < 13 THEN @.ease ELSE @.ease - 8,
                      mastery |-> 0, rep |-> 0]]
  /\ cached' = IF success THEN cached
               ELSE [k \in Keys |-> IF k[1] = c /\ cached[k] # NoPriority
                                   THEN Failed(cached[k]) ELSE cached[k]]
  /\ batch' = Seen(batch, DueIn(card', scheduler_time))
  /\ UNCHANGED scheduler_time

(* sortByPriority orders the valid cards by cached or calculated scores and *)
(* leaves the calculated ones in the cache.                                *)
SortByPriority ==
  /\ cached' = [k \in Keys |->
                  IF \E c \in Ids : ValidItem(c) /\ k = Key(c) /\ ~Hit(c)
                  THEN [score |-> Priority(k[1]), day |-> Day(scheduler_time), failed |-> FALSE]
                  ELSE cached[k]]
  /\ UNCHANGED <<scheduler_time, card, batch>>

(* SmartCache: a full cache drops a fifth of its entries; clear drops all. *)
Evict(k) ==
  /\ cached[k] # NoPriority
  /\ cached' = [cached EXCEPT ![k] = NoPriority]
  /\ UNCHANGED <<scheduler_time, card, batch>>

Clear ==
  /\ cached' = [k \in Keys |-> NoPriority]
  /\ UNCHANGED <<scheduler_time, card, batch>>

-----------------------------------------------------------------------------
(* processDueItemsInBatches *)
BatchStart ==
  /\ batch.state # "runs"
  /\ batch' = [state |-> "runs", at |-> 0, found |-> NoneFound,
               always |-> DueIn(card, scheduler_time), ever |-> DueIn(card, scheduler_time)]
  /\ UNCHANGED <<scheduler_time, card, cached>>

(* The next yield comes after the batch whose start is a multiple of five  *)
(* batches.                                                                *)
NextYield(at) ==
  LET to == IF at = 0 THEN BatchSize ELSE at + 5 * BatchSize
  IN IF to > Len(Cards) THEN Len(Cards) ELSE to

(* How often the cards from one place of the list to another hold c. *)
Times(c, from, to) == Cardinality({i \in from..to : Cards[i] = c})
FoundWith(to) ==
  [c \in Ids |-> batch.found[c]
     + IF ValidItem(c) /\ IsDue(c) THEN Times(c, batch.at + 1, to) ELSE 0]

BatchRuns ==
  /\ batch.state = "runs" /\ batch.at < Len(Cards)
  /\ LET to == NextYield(batch.at)
     IN batch' = [batch EXCEPT !.at = to, !.found = FoundWith(to)]
  /\ UNCHANGED <<scheduler_time, card, cached>>

BatchEnds ==
  /\ batch.state = "runs" /\ batch.at >= Len(Cards)
  /\ batch' = [batch EXCEPT !.state = "ended"]
  /\ UNCHANGED <<scheduler_time, card, cached>>

(* The signal is looked at before every batch, not after the last. *)
BatchAborted ==
  /\ batch.state = "runs" /\ batch.at < Len(Cards)
  /\ batch' = NoBatch
  /\ UNCHANGED <<scheduler_time, card, cached>>

SchedulerNext ==
  \/ SchedulerTimePasses \/ SortByPriority \/ Clear
  \/ \E c \in Ids, s \in BOOLEAN : Review(c, s)
  \/ \E k \in Keys : Evict(k)
  \/ BatchStart \/ BatchRuns \/ BatchEnds \/ BatchAborted

SchedulerSpec == SchedulerInit /\ [][SchedulerNext]_scheduler_vars

-----------------------------------------------------------------------------
SchedulerTypeOK ==
  /\ scheduler_time \in 0..MaxTime
  /\ \A c \in Ids : card[c].mastery \in 0..5 /\ card[c].rep \in 0..MaxRep
  /\ \A k \in Keys : cached[k] = NoPriority
                    \/ (cached[k].score \in 0..400 /\ cached[k].day \in 0..Day(scheduler_time))
  /\ batch.at \in 0..Len(Cards)

(* A batch run lists every card that was due all the time it ran, none     *)
(* that never was, and none twice, whatever is reviewed in between.        *)
BatchIsComplete ==
  batch.state = "ended" =>
    LET listed == {c \in Ids : batch.found[c] > 0} IN
    /\ batch.always \subseteq listed /\ listed \subseteq batch.ever
    /\ \A c \in Ids : batch.found[c] <= 1

(* The priority a sort finds in the cache is the card's own, at most less   *)
(* than a day's penalty old, however often the card was answered right     *)
(* since: its repetition tells what it was scored as, until a failure      *)
(* brings the repetitions, and with them the scores, of before back.       *)
CachedPriorityIsTrue ==
  \A c \in Ids : Hit(c) /\ ~cached[Key(c)].failed =>
    /\ cached[Key(c)].score <= Priority(c)
    /\ Priority(c) < cached[Key(c)].score + DayPenalty

-----------------------------------------------------------------------------
(***************************************************************************)
(* core/models/srs_manager.js: SM-2 over the lessons of a map, their       *)
(* histories and the index of due lessons, which is brought up to date by  *)
(* writes and never by the passing of time.                                *)
(***************************************************************************)

CONSTANTS
  Lessons,
  LastDay,       \* days a behaviour lasts
  HistoryLimit,  \* reviews a history keeps (50 in the code)
  Unknown

VARIABLES lessons, histories, due_index, manager_day, fetching, lostReviews, written
manager_vars == <<lessons, histories, due_index, manager_day, fetching, lostReviews, written>>

Far == LastDay + 7
Data == [repetitions : 0..2, interval : {0, 1, 6, Far}, next_review : 0..LastDay + Far]

\* lostReviews and written are history variables: the lessons whose reviews
\* a load replaced, and the day each lesson was last written.
ManagerTypeOK ==
  /\ \A l \in Lessons : lessons[l] = Unknown \/ lessons[l] \in Data
  /\ histories \in [Lessons -> -1..HistoryLimit]   \* -1: no entry in the map
  /\ due_index \subseteq Lessons /\ manager_day \in 0..LastDay
  /\ fetching \subseteq Lessons /\ lostReviews \subseteq Lessons
  /\ written \in [Lessons -> 0..LastDay]

ManagerInit == /\ lessons = [l \in Lessons |-> Unknown] /\ histories = [l \in Lessons |-> -1]
        /\ due_index = {} /\ manager_day = 0 /\ fetching = {} /\ lostReviews = {}
        /\ written = [l \in Lessons |-> 0]

(* apply_sm2 for a quality that passes or fails; days beyond the behaviour *)
(* are one value, and repetitions count to two, where the rule is settled. *)
Interval(d) == IF d.repetitions = 0 THEN 1 ELSE IF d.repetitions = 1 THEN 6 ELSE Far
Sm2(d, passes) ==
  LET days == IF passes THEN Interval(d) ELSE 1
  IN [repetitions |-> IF ~passes THEN 0 ELSE IF d.repetitions = 2 THEN 2 ELSE d.repetitions + 1,
      interval |-> days, next_review |-> manager_day + days]

Indexed(S, l, next_review) == IF next_review <= manager_day THEN S \cup {l} ELSE S \ {l}

AddLesson(l) ==
  /\ lessons[l] = Unknown
  /\ lessons' = [lessons EXCEPT ![l] = [repetitions |-> 0, interval |-> 0, next_review |-> manager_day]]
  /\ due_index' = Indexed(due_index, l, manager_day) /\ written' = [written EXCEPT ![l] = manager_day]
  /\ UNCHANGED <<histories, manager_day, fetching, lostReviews>>

(* review_lesson: an invalid quality changes no data, yet it is a review   *)
(* in the history and a write to the index.                                *)
Reviewed(l, outcome) ==
  IF outcome = "invalid" THEN lessons[l] ELSE Sm2(lessons[l], outcome = "pass")

ReviewLesson(l, outcome) ==
  /\ lessons[l] # Unknown
  /\ lessons' = [lessons EXCEPT ![l] = Reviewed(l, outcome)]
  /\ histories' = [histories EXCEPT ![l] =
       IF @ = HistoryLimit THEN @ ELSE IF @ = -1 THEN 1 ELSE @ + 1]
  /\ due_index' = Indexed(due_index, l, lessons'[l].next_review)
  /\ written' = [written EXCEPT ![l] = manager_day] /\ UNCHANGED <<manager_day, fetching, lostReviews>>

(* load_history: what was added to the map while it awaited is replaced.   *)
LoadHistory(l) == /\ histories[l] = -1 /\ l \notin fetching /\ fetching' = fetching \cup {l}
                  /\ UNCHANGED <<lessons, histories, due_index, manager_day, lostReviews, written>>
HistoryLoaded(l, stored) ==
  /\ l \in fetching /\ fetching' = fetching \ {l}
  /\ histories' = [histories EXCEPT ![l] = stored]
  /\ lostReviews' = IF histories[l] > 0 THEN lostReviews \cup {l} ELSE lostReviews
  /\ UNCHANGED <<lessons, due_index, manager_day, written>>
LoadFails(l) == /\ l \in fetching /\ fetching' = fetching \ {l}
                /\ UNCHANGED <<lessons, histories, due_index, manager_day, lostReviews, written>>

(* to_json and from_json: a new manager, whose index is made anew.         *)
Restore == /\ fetching = {} /\ written' = [l \in Lessons |-> manager_day]
           /\ due_index' = {l \in Lessons : lessons[l] # Unknown /\ lessons[l].next_review <= manager_day}
           /\ UNCHANGED <<lessons, histories, manager_day, fetching, lostReviews>>

ManagerDayPasses == /\ manager_day < LastDay /\ manager_day' = manager_day + 1
             /\ UNCHANGED <<lessons, histories, due_index, fetching, lostReviews, written>>

Due == {l \in due_index : lessons[l].next_review <= manager_day}

ManagerNext == \/ ManagerDayPasses \/ Restore
        \/ \E l \in Lessons : \/ AddLesson(l) \/ LoadHistory(l) \/ LoadFails(l)
                              \/ \E o \in {"pass", "fail", "invalid"} : ReviewLesson(l, o)
                              \/ \E n \in {0, 1} : HistoryLoaded(l, n)

ManagerSpec == ManagerInit /\ [][ManagerNext]_manager_vars

(* srs_manager.js: a lesson that is listed is due; a lesson that is due    *)
(* and not listed came due since it was last written; and what a lesson    *)
(* was reviewed is in its history unless a load replaced it.               *)
ListedIsDue ==
  /\ Due = due_index
  /\ \A l \in Lessons \ due_index :
       lessons[l] # Unknown => lessons[l].next_review > written[l]
  /\ \A l \in Lessons : lessons[l] # Unknown /\ l \notin lostReviews /\ lessons[l].interval > 0 =>
       histories[l] > 0

-----------------------------------------------------------------------------
(* The values of the variables of every machine. *)
TypeOK == SchedulerTypeOK /\ ManagerTypeOK
=============================================================================
