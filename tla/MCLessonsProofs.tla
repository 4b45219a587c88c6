--------------------------- MODULE MCLessonsProofs ---------------------------
(***************************************************************************)
(* The services behind a lesson keep what they promise, for any number of  *)
(* lessons, cards, rows, calls, objects and days.  Each service has an     *)
(* inductive invariant of its own; a step of the services together is a    *)
(* step of one of them and leaves the others alone.                        *)
(***************************************************************************)
EXTENDS MCLessons, SequenceTheorems, FiniteSetTheorems, TLAPS

-----------------------------------------------------------------------------
(***************************************************************************)
(* lesson_engine/lesson_service.js: rows, calls and counts. A completion   *)
(* in its two later writes is counted once more at most, so what the       *)
(* statistics and the calls that hold them may still add (Bounded) stays   *)
(* within the completions that were written.                               *)
(***************************************************************************)
LEMMA EngineLimits ==
  MaxReviews \in Nat /\ IsFiniteSet(Calls) BY LimitsAssumption

CountRow == [xp : Nat, completed : Nat]
LessonOps == {"none", "start", "complete", "write", "stats", "count", "list"}
LessonCall ==
  [op : LessonOps, lesson : Lessons \cup {None}, level : 0..4,
   row : LessonRow \cup {None}, stats : CountRow]
LEMMA EngineNulls ==
  None \notin LessonRow BY NoneAssumption

(* A call between its two writes, and what it may still add. *)
Counting == {c \in Calls : calls[c].op \in {"stats", "count"}}
Bounded(row, n) == row.xp = row.completed /\ row.xp + Cardinality(Counting) <= n

EngineRows ==
  /\ progress \in [Lessons -> LessonRow \cup {None}]
  /\ calls \in [Calls -> LessonCall]
  /\ \A l \in Lessons : L!RowOK(progress[l])
  /\ \A c \in Calls :
       /\ L!RowOK(calls[c].row)
       /\ calls[c].op \in {"start", "complete", "write"} => calls[c].lesson \in Lessons
       /\ calls[c].op \in {"complete", "write"} => calls[c].level \in L!Levels
       /\ calls[c].op = "write" => calls[c].row # None /\ calls[c].row.count < MaxReviews
  /\ list = None \/ list \in [Lessons -> {"none", "in_progress", "completed"}]

EngineCounts ==
  /\ stats \in CountRow /\ finished \in 0..MaxReviews
  /\ Bounded(stats, finished)
  /\ \A c \in Calls : calls[c].op = "count" => Bounded(calls[c].stats, finished)

EngineInv == EngineRows /\ EngineCounts

Bases == {1, 2, 5, 10, 21, 40, 70}

(* REVIEW_SCHEDULES and the intervals made from it: a better result is     *)
(* never asked sooner.                                                     *)
LEMMA BaseFacts ==
  ASSUME NEW n \in Nat
  PROVE  L!Base(n) \in Bases BY DEF L!Base, L!Schedule, Bases

LEMMA IntervalFacts ==
  ASSUME NEW b \in Bases, NEW e \in 26..100
  PROVE  /\ \A v \in L!Levels : L!Interval(b, e, v) \in 1..350
         /\ \A v \in 1..3 : L!Interval(b, e, v) <= L!Interval(b, e, v + 1)
         /\ L!Interval(b, e, 4) >= b
  <1>2. /\ L!Interval(b, e, 1) = 1
        /\ L!Interval(b, e, 2) = L!AtLeast1(L!Rounded(b, 2))
        /\ L!Interval(b, e, 3) = L!AtLeast1(L!Rounded(b * e * 7, 200))
        /\ L!Interval(b, e, 4) = L!AtLeast1(L!Rounded(b * e, 20)) BY DEF L!Interval
  <1>3. /\ L!AtLeast1(L!Rounded(b, 2)) \in 1..350
        /\ L!AtLeast1(L!Rounded(b * e * 7, 200)) \in 1..350
        /\ L!AtLeast1(L!Rounded(b * e, 20)) \in 1..350
        /\ L!AtLeast1(L!Rounded(b, 2)) <= L!AtLeast1(L!Rounded(b * e * 7, 200))
        /\ L!AtLeast1(L!Rounded(b * e * 7, 200)) <= L!AtLeast1(L!Rounded(b * e, 20))
        /\ L!AtLeast1(L!Rounded(b * e, 20)) >= b
    <2>1. CASE b = 1 BY <2>1 DEF L!AtLeast1, L!Rounded
    <2>2. CASE b = 2 BY <2>2 DEF L!AtLeast1, L!Rounded
    <2>3. CASE b = 5 BY <2>3 DEF L!AtLeast1, L!Rounded
    <2>4. CASE b = 10 BY <2>4 DEF L!AtLeast1, L!Rounded
    <2>5. CASE b = 21 BY <2>5 DEF L!AtLeast1, L!Rounded
    <2>6. CASE b = 40 BY <2>6 DEF L!AtLeast1, L!Rounded
    <2>7. CASE b = 70 BY <2>7 DEF L!AtLeast1, L!Rounded
    <2> QED BY <2>1, <2>2, <2>3, <2>4, <2>5, <2>6, <2>7 DEF Bases
  <1> HIDE DEF L!Interval
  <1> QED BY <1>2, <1>3 DEF L!Levels

(* What one call does to the set of calls that are counting.               *)
LEMMA CountingFacts ==
  ASSUME EngineRows, NEW c \in Calls, NEW r \in LessonCall, L!EngineGoes(c, r)
  PROVE  LET n == Cardinality(Counting)  m == Cardinality(Counting)' IN
         /\ n \in Nat /\ m \in Nat
         /\ calls' \in [Calls -> LessonCall]
         /\ calls'[c] = r /\ \A d \in Calls : d # c => calls'[d] = calls[d]
         /\ m = n + (IF r.op \in {"stats", "count"} THEN 1 ELSE 0)
                  - (IF calls[c].op \in {"stats", "count"} THEN 1 ELSE 0)
  <1>1. /\ calls' \in [Calls -> LessonCall]
        /\ calls'[c] = r /\ \A d \in Calls : d # c => calls'[d] = calls[d]
    BY DEF EngineRows, L!EngineGoes
  <1>2. IsFiniteSet(Counting) /\ IsFiniteSet(Counting \ {c})
    <2>1. Counting \subseteq Calls BY DEF Counting
    <2> QED BY <2>1, EngineLimits, FS_Subset
  <1>3. /\ Cardinality(Counting) \in Nat
        /\ Cardinality(Counting \ {c}) =
             IF c \in Counting THEN Cardinality(Counting) - 1 ELSE Cardinality(Counting)
        /\ Cardinality((Counting \ {c}) \cup {c}) = Cardinality(Counting \ {c}) + 1
    BY <1>2, FS_CardinalityType, FS_RemoveElement, FS_AddElement
  <1>4. Counting' = IF r.op \in {"stats", "count"} THEN (Counting \ {c}) \cup {c}
                    ELSE Counting \ {c} BY <1>1 DEF Counting
  <1>5. c \in Counting <=> calls[c].op \in {"stats", "count"} BY DEF Counting
  <1>6. Cardinality(Counting \ {c}) \in Nat BY <1>2, FS_CardinalityType
  <1>7. Cardinality(Counting') = Cardinality(Counting \ {c}) + (IF r.op \in {"stats", "count"} THEN 1 ELSE 0)
    BY <1>3, <1>4, <1>6
  <1> QED BY <1>1, <1>3, <1>5, <1>6, <1>7

(* A completion makes a row of a row.                                      *)
LEMMA CompletedFacts ==
  ASSUME NEW p \in LessonRow, L!RowOK(p), p.count < MaxReviews, NEW v \in L!Levels
  PROVE  L!Completed(p, v) \in LessonRow /\ L!RowOK(L!Completed(p, v))
  <1> USE EngineLimits, EngineNulls
  <1>1. /\ p.count \in 0..MaxReviews /\ p.ease \in 26..100 /\ p.best \in 0..4
        /\ p.streak \in 0..p.count BY DEF LessonRow, L!RowOK
  <1>2. L!Interval(L!Base(p.count), p.ease, v) \in 1..350
    <2>1. p.count \in Nat BY <1>1
    <2>2. L!Base(p.count) \in Bases BY <2>1, BaseFacts
    <2> QED BY <1>1, <2>2, IntervalFacts
  <1>3. L!Ease(p.ease, v) \in 26..100 BY <1>1 DEF L!Ease, L!Clamp, L!Levels
  <1> DEFINE best == IF v > p.best THEN v ELSE p.best
             streak == IF v >= 3 THEN p.streak + 1 ELSE 0
  <1>4. best \in 0..4 /\ streak \in 0..p.count + 1 /\ p.count + 1 \in 0..MaxReviews
    BY <1>1 DEF L!Levels
  <1>5. L!Completed(p, v) = [status |-> "completed", best |-> best,
          ease |-> L!Ease(p.ease, v), interval |-> L!Interval(L!Base(p.count), p.ease, v),
          count |-> p.count + 1, streak |-> streak] BY DEF L!Completed
  <1> HIDE DEF best, streak
  <1> QED BY <1>2, <1>3, <1>4, <1>5 DEF LessonRow, L!RowOK

(* A call goes on, and the list is kept or made anew: the rows are as before. *)
LEMMA EngineCallStep ==
  ASSUME EngineInv, NEW c \in Calls, NEW r \in LessonCall, L!EngineGoes(c, r),
         L!RowOK(r.row),
         r.op \in {"start", "complete", "write"} => r.lesson \in Lessons,
         r.op \in {"complete", "write"} => r.level \in L!Levels,
         r.op = "write" => r.row # None /\ r.row.count < MaxReviews,
         progress' = progress,
         list' = list \/ list' \in [Lessons -> {"none", "in_progress", "completed"}]
  PROVE  EngineRows' BY CountingFacts DEF EngineInv, EngineRows, L!RowOK

(* Each step of the lesson service keeps its rows and its counts.          *)
LEMMA EngineKeeps == EngineInv /\ [L!EngineNext]_(L!engine_vars) => EngineInv'
  <1> SUFFICES ASSUME EngineInv, [L!EngineNext]_(L!engine_vars) PROVE EngineInv' OBVIOUS
  <1> USE EngineLimits, EngineNulls
  <1> DEFINE n == Cardinality(Counting)
             in(r) == IF r.op \in {"stats", "count"} THEN 1 ELSE 0
  <1>1. EngineRows /\ EngineCounts BY DEF EngineInv
  <1>2. L!Free \in LessonCall /\ L!RowOK(L!Free.row) /\ L!Free.op = "none"
    BY DEF L!Free, LessonCall, LessonOps, L!NoStats, CountRow, L!RowOK
  <1>3. L!Fresh \in LessonRow /\ L!RowOK(L!Fresh) BY DEF L!Fresh, LessonRow, L!RowOK
  (* A call goes from one place that does not count to another. *)
  <1>4. ASSUME NEW c \in Calls, NEW r \in LessonCall, L!EngineGoes(c, r),
               r.op \notin {"stats", "count"}, UNCHANGED <<stats, finished>>
        PROVE  EngineCounts'
    <2>1. /\ n \in Nat /\ Cardinality(Counting)' \in Nat /\ Cardinality(Counting)' <= n
          /\ calls'[c] = r /\ \A d \in Calls : d # c => calls'[d] = calls[d]
      BY <1>1, <1>4, CountingFacts
    <2>2. /\ stats.xp \in Nat /\ finished \in Nat
          /\ \A d \in Calls : calls[d].stats.xp \in Nat
      BY <1>1 DEF EngineRows, EngineCounts, LessonCall, CountRow
    <2> QED BY <1>1, <1>4, <2>1, <2>2 DEF EngineCounts, Bounded
  <1>5. ASSUME NEW c \in Calls, NEW l \in Lessons, L!Start(c, l)
        PROVE  EngineInv'
    <2> DEFINE r == [L!Free EXCEPT !.op = "start", !.lesson = l]
    <2>1. r \in LessonCall /\ L!RowOK(r.row) /\ r.op = "start" /\ r.lesson = l
      BY <1>2 DEF LessonCall, LessonOps, L!Free, L!RowOK
    <2>2. L!EngineGoes(c, r) /\ UNCHANGED <<progress, stats, list, finished>> BY <1>5 DEF L!Start
    <2> HIDE DEF r
    <2> QED BY <1>4, <2>1, <2>2, EngineCallStep DEF EngineInv
  <1>6. ASSUME NEW c \in Calls, L!Started(c)
        PROVE  EngineInv'
    <2>1. /\ calls[c].op = "start" /\ calls[c].lesson \in Lessons
          /\ progress' = [progress EXCEPT ![calls[c].lesson] = L!Fresh]
          /\ L!EngineGoes(c, L!Free) /\ UNCHANGED <<stats, list, finished>>
      BY <1>1, <1>6 DEF L!Started, L!At, EngineRows
    <2>2. /\ calls' \in [Calls -> LessonCall]
          /\ calls'[c] = L!Free /\ \A d \in Calls : d # c => calls'[d] = calls[d]
      BY <1>1, <1>2, <2>1, CountingFacts
    <2>3. EngineRows' BY <1>1, <1>2, <1>3, <2>1, <2>2 DEF EngineRows, L!RowOK
    <2> QED BY <1>2, <1>4, <2>1, <2>3 DEF EngineInv
  <1>7. ASSUME NEW c \in Calls, NEW l \in Lessons, NEW v \in L!Levels, L!Complete(c, l, v)
        PROVE  EngineInv'
    <2> DEFINE r == [L!Free EXCEPT !.op = "complete", !.lesson = l, !.level = v]
    <2>1. r \in LessonCall /\ L!RowOK(r.row) /\ r.op = "complete" /\ r.lesson = l /\ r.level = v
      <3> DEFINE q == [L!Free EXCEPT !.op = "complete", !.lesson = l]
      <3>1. q \in LessonCall /\ q.op = "complete" /\ q.lesson = l /\ q.row = None
        BY <1>2 DEF LessonCall, LessonOps, L!Free
      <3>2. r = [q EXCEPT !.level = v] BY Zenon
      <3>3. v \in 0..4 BY DEF L!Levels
      <3> HIDE DEF r, q
      <3> QED BY <3>1, <3>2, <3>3 DEF LessonCall, L!RowOK
    <2>2. L!EngineGoes(c, r) /\ UNCHANGED <<progress, stats, list, finished>> BY <1>7 DEF L!Complete
    <2> HIDE DEF r
    <2> QED BY <1>4, <2>1, <2>2, EngineCallStep DEF EngineInv
  <1>8. ASSUME NEW c \in Calls, L!EngineGoes(c, L!Free), UNCHANGED <<progress, stats, list, finished>>
        PROVE  EngineInv' BY <1>2, <1>4, <1>8, EngineCallStep DEF EngineInv
  <1>9. ASSUME NEW c \in Calls, L!ProgressRead(c)
        PROVE  EngineInv'
    <2>1. CASE L!Row(c) = None BY <1>8, <1>9, <2>1 DEF L!ProgressRead
    <2>2. CASE L!Row(c) # None
      <3> DEFINE r == [calls[c] EXCEPT !.op = "write", !.row = L!Row(c)]
      <3>1. /\ calls[c] \in LessonCall /\ calls[c].op = "complete"
            /\ calls[c].lesson \in Lessons /\ calls[c].level \in L!Levels
            /\ L!Row(c) \in LessonRow /\ L!RowOK(L!Row(c)) /\ L!Row(c).count < MaxReviews
            /\ L!EngineGoes(c, r) /\ UNCHANGED <<progress, stats, list, finished>>
        BY <1>1, <1>9, <2>2 DEF L!ProgressRead, L!At, L!Row, EngineRows
      <3>2. r \in LessonCall /\ r.op = "write" /\ r.row = L!Row(c)
            /\ r.lesson = calls[c].lesson /\ r.level = calls[c].level
        BY <3>1 DEF LessonCall, LessonOps
      <3> HIDE DEF r
      <3> QED BY <1>4, <2>2, <3>1, <3>2, EngineCallStep DEF EngineInv
    <2> QED BY <2>1, <2>2
  <1>10. ASSUME NEW c \in Calls, L!ProgressWritten(c)
         PROVE  EngineInv'
    <2> DEFINE r == [calls[c] EXCEPT !.op = "stats", !.row = None]
               p == L!Completed(calls[c].row, calls[c].level)
               l == calls[c].lesson
    <2>1. /\ calls[c] \in LessonCall /\ calls[c].op = "write" /\ l \in Lessons
          /\ calls[c].level \in L!Levels /\ calls[c].row \in LessonRow
          /\ L!RowOK(calls[c].row) /\ calls[c].row.count < MaxReviews
      BY <1>1, <1>10 DEF L!ProgressWritten, L!At, EngineRows, LessonCall
    <2>2. /\ progress' = [progress EXCEPT ![l] = p] /\ finished < MaxReviews
          /\ finished' = finished + 1 /\ L!EngineGoes(c, r) /\ UNCHANGED <<stats, list>>
      BY <1>10 DEF L!ProgressWritten
    <2>3. p \in LessonRow /\ L!RowOK(p) BY <2>1, CompletedFacts
    <2>4. r \in LessonCall /\ r.op = "stats" /\ r.row = None BY <2>1 DEF LessonCall, LessonOps
    <2> HIDE DEF r, p, l
    <2>5. /\ n \in Nat /\ Cardinality(Counting)' = n + 1
          /\ calls' \in [Calls -> LessonCall]
          /\ calls'[c] = r /\ \A d \in Calls : d # c => calls'[d] = calls[d]
      BY <1>1, <2>1, <2>2, <2>4, CountingFacts
    <2>6. EngineRows'
      <3>1. /\ progress' \in [Lessons -> LessonRow \cup {None}]
            /\ \A x \in Lessons : progress'[x] = IF x = l THEN p ELSE progress[x]
        BY <1>1, <2>1, <2>2, <2>3 DEF EngineRows
      <3>2. \A x \in Lessons : L!RowOK(progress'[x]) BY <1>1, <2>3, <3>1 DEF EngineRows
      <3>3. \A d \in Calls :
              /\ L!RowOK(calls'[d].row)
              /\ calls'[d].op \in {"start", "complete", "write"} => calls'[d].lesson \in Lessons
              /\ calls'[d].op \in {"complete", "write"} => calls'[d].level \in L!Levels
              /\ calls'[d].op = "write" => calls'[d].row # None /\ calls'[d].row.count < MaxReviews
        BY <1>1, <2>4, <2>5 DEF EngineRows, L!RowOK
      <3> QED BY <1>1, <2>2, <2>5, <3>1, <3>2, <3>3 DEF EngineRows, L!RowOK
    <2>7. EngineCounts'
      <3>1. /\ stats.xp \in Nat /\ finished \in Nat
            /\ \A d \in Calls : calls[d].stats.xp \in Nat
        BY <1>1 DEF EngineRows, EngineCounts, LessonCall, CountRow
      <3> QED BY <1>1, <2>2, <2>4, <2>5, <3>1 DEF EngineCounts, Bounded
    <2> QED BY <2>6, <2>7 DEF EngineInv
  <1>11. ASSUME NEW c \in Calls, L!StatsRead(c)
         PROVE  EngineInv'
    <2> DEFINE r == [calls[c] EXCEPT !.op = "count", !.stats = stats]
    <2>1. /\ calls[c] \in LessonCall /\ calls[c].op = "stats" /\ stats \in CountRow
          /\ L!RowOK(calls[c].row)
          /\ L!EngineGoes(c, r) /\ UNCHANGED <<progress, stats, list, finished>>
      BY <1>1, <1>11 DEF L!StatsRead, L!At, EngineRows, EngineCounts
    <2>2. r \in LessonCall /\ r.op = "count" /\ r.stats = stats /\ r.row = calls[c].row
      BY <2>1 DEF LessonCall, LessonOps
    <2> HIDE DEF r
    <2>3. EngineRows' BY <2>1, <2>2, EngineCallStep
    <2>4. /\ n \in Nat /\ Cardinality(Counting)' = n
          /\ calls'[c] = r /\ \A d \in Calls : d # c => calls'[d] = calls[d]
      BY <1>1, <2>1, <2>2, CountingFacts
    <2>5. EngineCounts' BY <1>1, <2>1, <2>2, <2>4 DEF EngineCounts, Bounded
    <2> QED BY <2>3, <2>5 DEF EngineInv
  <1>12. ASSUME NEW c \in Calls, L!StatsWritten(c)
         PROVE  EngineInv'
    <2> DEFINE row == [xp |-> calls[c].stats.xp + 1, completed |-> calls[c].stats.completed + 1]
    <2>1. /\ calls[c].op = "count" /\ calls[c].stats \in CountRow
          /\ stats' = row /\ L!EngineGoes(c, L!Free) /\ UNCHANGED <<progress, list, finished>>
      BY <1>1, <1>12 DEF L!StatsWritten, L!At, EngineRows, LessonCall
    <2>2. EngineRows' BY <1>2, <2>1, EngineCallStep
    <2>3. /\ n \in Nat /\ Cardinality(Counting)' = n - 1
          /\ calls'[c] = L!Free /\ \A d \in Calls : d # c => calls'[d] = calls[d]
      BY <1>1, <1>2, <2>1, CountingFacts
    <2>4. /\ finished \in Nat /\ \A d \in Calls : calls[d].stats.xp \in Nat
      BY <1>1 DEF EngineRows, EngineCounts, LessonCall, CountRow
    <2>5. EngineCounts'
      <3>1. Bounded(calls[c].stats, finished) BY <1>1, <2>1 DEF EngineCounts
      <3>2. stats' \in CountRow /\ Bounded(stats, finished)'
        BY <2>1, <2>3, <2>4, <3>1 DEF Bounded, CountRow
      <3> QED BY <1>1, <1>2, <2>1, <2>3, <2>4, <3>2 DEF EngineCounts, Bounded
    <2> QED BY <2>2, <2>5 DEF EngineInv
  <1>13. ASSUME NEW c \in Calls, L!CallFails(c)
         PROVE  EngineInv' BY <1>8, <1>13 DEF L!CallFails
  <1>14. ASSUME NEW c \in Calls, L!GetLessons(c)
         PROVE  EngineInv'
    <2> DEFINE r == [L!Free EXCEPT !.op = "list"]
    <2>1. r \in LessonCall /\ L!RowOK(r.row) /\ r.op = "list"
      BY <1>2 DEF LessonCall, LessonOps, L!Free, L!RowOK
    <2>2. L!EngineGoes(c, r) /\ UNCHANGED <<progress, stats, list, finished>>
      BY <1>14 DEF L!GetLessons
    <2> HIDE DEF r
    <2> QED BY <1>4, <2>1, <2>2, EngineCallStep DEF EngineInv
  <1>15. ASSUME NEW c \in Calls, L!ListRead(c)
         PROVE  EngineInv'
    <2>1. /\ L!EngineGoes(c, L!Free) /\ UNCHANGED <<progress, stats, finished>>
          /\ list' = [l \in Lessons |-> IF progress[l] = None THEN "none" ELSE progress[l].status]
      BY <1>15 DEF L!ListRead
    <2>2. list' \in [Lessons -> {"none", "in_progress", "completed"}]
      BY <1>1, <2>1 DEF EngineRows, LessonRow
    <2>3. EngineRows' BY <1>2, <2>1, <2>2, EngineCallStep DEF L!RowOK
    <2> QED BY <1>2, <1>4, <2>1, <2>3 DEF EngineInv
  <1>16. CASE L!ListExpires
    BY <1>1, <1>16 DEF L!ListExpires, EngineInv, EngineRows, EngineCounts, Bounded, Counting
  <1>17. CASE UNCHANGED L!engine_vars
    BY <1>1, <1>17 DEF L!engine_vars, EngineInv, EngineRows, EngineCounts, Bounded, Counting
  <1> QED BY <1>5, <1>6, <1>7, <1>9, <1>10, <1>11, <1>12, <1>13, <1>14, <1>15, <1>16, <1>17
    DEF L!EngineNext

LEMMA EngineStarts == L!EngineInit => EngineInv
  <1> SUFFICES ASSUME L!EngineInit PROVE EngineInv OBVIOUS
  <1>1. Counting = {} BY DEF Counting, L!EngineInit, L!Free
  <1>2. Cardinality(Counting) = 0 BY <1>1, FS_EmptySet
  <1>3. EngineRows
    BY DEF L!EngineInit, EngineRows, L!Free, LessonCall, LessonOps, L!NoStats, CountRow, L!RowOK
  <1>4. EngineCounts
    BY <1>2, EngineLimits DEF L!EngineInit, EngineCounts, L!Free, L!NoStats, CountRow, Bounded
  <1> QED BY <1>3, <1>4 DEF EngineInv

LEMMA EngineImplies == EngineInv => L!EngineTypeOK /\ L!BetterIsLater
  <1> SUFFICES ASSUME EngineInv PROVE L!EngineTypeOK /\ L!BetterIsLater OBVIOUS
  <1> USE EngineLimits
  <1>1. L!EngineTypeOK
    <2>1. Cardinality(Counting) \in Nat
      <3>1. Counting \subseteq Calls BY DEF Counting
      <3> QED BY <3>1, FS_Subset, FS_CardinalityType
    <2>2. stats.xp \in 0..MaxReviews /\ stats.completed \in 0..MaxReviews
      BY <2>1 DEF EngineInv, EngineCounts, Bounded, CountRow
    <2> QED BY <2>2 DEF EngineInv, EngineRows, L!EngineTypeOK, LessonCall
  <1>2. L!BetterIsLater
    <2> SUFFICES ASSUME NEW l \in Lessons, progress[l] # None
                 PROVE  LET p == progress[l]  b == L!Base(p.count) IN
                        /\ \A v \in 1..3 : L!Interval(b, p.ease, v) <= L!Interval(b, p.ease, v + 1)
                        /\ L!Interval(b, p.ease, 4) >= b BY DEF L!BetterIsLater
    <2>1. progress[l].count \in Nat /\ progress[l].ease \in 26..100
      BY DEF EngineInv, EngineRows, LessonRow
    <2>2. L!Base(progress[l].count) \in Bases BY <2>1, BaseFacts
    <2> QED BY <2>1, <2>2, IntervalFacts
  <1> QED BY <1>1, <1>2
-----------------------------------------------------------------------------
(***************************************************************************)
(* features/lesson/lesson_service.js: FlowSound relates where a call is    *)
(* to what it announced and to whose review is stored.                     *)
(***************************************************************************)
LEMMA FacadeNulls ==
  None \notin LessonCalls BY NoneAssumption

Flow == [op : L!Operations \cup {"none"},
         at : {"idle", "fetching", "running", "storing", "announcing", "failing", "done"},
         result : L!Results \cup {None}]

(* A call announces where it ends and nowhere else; it stores its review    *)
(* before it announces it, and never when it fails.                        *)
FlowSound(c, f, events, row) ==
  /\ f.at = "idle" <=> f.op = "none"
  /\ f.at # "done" => events = {}
  /\ events \in {{}, {"started"}, {"completed"}, {"error"}}
  /\ f.at = "storing" => f.op = "complete"
  /\ f.at = "announcing" => f.op = "start" \/ (f.op = "complete" /\ row # None)
  /\ f.at \in {"fetching", "running", "storing", "failing"} => row # c
  /\ f.at # "done" => f.result # "rejected"
  /\ "completed" \in events => row # None
  /\ "error" \in events => row # c
  /\ f.result = "rejected" => events = {}

FacadeInv ==
  /\ L!FacadeTypeOK
  /\ review_row # None => flow[review_row].op = "complete"
  /\ \A c \in LessonCalls : FlowSound(c, flow[c], announced[c], review_row)

LEMMA FacadeStarts == ASSUME None \notin L!Results PROVE L!FacadeInit => FacadeInv
  BY FacadeNulls DEF L!FacadeInit, FacadeInv, FlowSound, L!FacadeTypeOK, L!Operations, L!Results

(* One call goes on: the others, and the review stored, stay sound.         *)
LEMMA FlowMoves ==
  ASSUME FacadeInv, NEW c \in LessonCalls, NEW f \in Flow,
         flow' = [flow EXCEPT ![c] = f],
         flow[c].op # "none" => f.op = flow[c].op,
         NEW events \in SUBSET {"started", "completed", "error"},
         announced' = [announced EXCEPT ![c] = events],
         review_row' = review_row \/ (review_row' = c /\ f.op = "complete"),
         FlowSound(c, f, events, review_row')
  PROVE  FacadeInv'
  <1> USE FacadeNulls
  <1>1. /\ flow' \in [LessonCalls -> Flow]
        /\ flow'[c] = f /\ \A d \in LessonCalls : d # c => flow'[d] = flow[d]
    BY DEF FacadeInv, L!FacadeTypeOK, Flow
  <1>2. /\ announced' \in [LessonCalls -> SUBSET {"started", "completed", "error"}]
        /\ announced'[c] = events /\ \A d \in LessonCalls : d # c => announced'[d] = announced[d]
    BY DEF FacadeInv, L!FacadeTypeOK
  <1>3. review_row' \in LessonCalls \cup {None} BY DEF FacadeInv, L!FacadeTypeOK
  <1>4. review_row' # None => flow'[review_row'].op = "complete"
    BY <1>1, <1>3 DEF FacadeInv, FlowSound, L!FacadeTypeOK
  <1>5. \A d \in LessonCalls : FlowSound(d, flow'[d], announced'[d], review_row')
    <2> SUFFICES ASSUME NEW d \in LessonCalls, d # c
                 PROVE  FlowSound(d, flow[d], announced[d], review_row') BY <1>1, <1>2
    <2>1. FlowSound(d, flow[d], announced[d], review_row) BY DEF FacadeInv
    <2> QED BY <2>1 DEF FlowSound
  <1> QED BY <1>1, <1>2, <1>3, <1>4, <1>5 DEF FacadeInv, L!FacadeTypeOK, Flow

(* Each step of the facade keeps every call sound.                         *)
LEMMA FacadeKeeps == FacadeInv /\ [L!FacadeNext]_(L!facade_vars) => FacadeInv'
  <1> SUFFICES ASSUME FacadeInv, [L!FacadeNext]_(L!facade_vars) PROVE FacadeInv' OBVIOUS
  <1> USE FacadeNulls
  <1>1. /\ flow \in [LessonCalls -> Flow]
        /\ announced \in [LessonCalls -> SUBSET {"started", "completed", "error"}]
        /\ review_row # None => flow[review_row].op = "complete"
        /\ \A c \in LessonCalls : FlowSound(c, flow[c], announced[c], review_row)
    BY DEF FacadeInv, L!FacadeTypeOK, Flow
  (* A call goes on and announces nothing. *)
  <1>2. ASSUME NEW c \in LessonCalls, NEW f \in Flow, flow' = [flow EXCEPT ![c] = f],
               flow[c].op # "none" => f.op = flow[c].op, UNCHANGED announced,
               review_row' = review_row \/ (review_row' = c /\ f.op = "complete"),
               FlowSound(c, f, announced[c], review_row')
        PROVE  FacadeInv'
    <2>1. announced' = [announced EXCEPT ![c] = announced[c]] BY <1>1, <1>2
    <2>2. announced[c] \in SUBSET {"started", "completed", "error"} BY <1>1
    <2> QED BY <1>2, <2>1, <2>2, FlowMoves
  <1>3. ASSUME NEW c \in LessonCalls, flow[c].at # "idle",
               NEW at \in {"fetching", "running", "storing", "announcing", "failing", "done"},
               NEW result \in L!Results \cup {None}, result # flow[c].result => at = "done"
        PROVE  LET f == [flow[c] EXCEPT !.at = at, !.result = result]
               IN  f \in Flow /\ f.at = at /\ f.result = result /\ f.op = flow[c].op
    BY <1>1, <1>3 DEF Flow
  <1>4. ASSUME NEW c \in LessonCalls, NEW at \in {"running", "storing", "announcing", "failing"},
               flow[c].at \in {"fetching", "running", "storing"}, L!FacadeGoes(c, at),
               UNCHANGED announced, at = "storing" => flow[c].op = "complete",
               \/ review_row' = review_row /\ (at = "announcing" => flow[c].op = "start")
               \/ review_row' = c /\ at = "announcing" /\ flow[c].op = "complete"
        PROVE  FacadeInv'
    <2> DEFINE f == [flow[c] EXCEPT !.at = at]
    <2>1. f \in Flow /\ f.at = at /\ f.result = flow[c].result /\ f.op = flow[c].op BY <1>1 DEF Flow
    <2>2. flow' = [flow EXCEPT ![c] = f] BY <1>4 DEF L!FacadeGoes
    <2> HIDE DEF f
    <2>3. FlowSound(c, flow[c], announced[c], review_row) BY <1>1
    <2>4. FlowSound(c, f, announced[c], review_row') BY <1>4, <2>1, <2>3 DEF FlowSound
    <2> QED BY <1>2, <1>4, <2>1, <2>2, <2>4
  <1>5. ASSUME NEW c \in LessonCalls, NEW result \in L!Results, L!Ends(c, result),
               flow[c].at \notin {"idle", "done"}, UNCHANGED review_row,
               NEW events \in {{}, {"started"}, {"completed"}, {"error"}},
               announced' = [announced EXCEPT ![c] = events],
               "completed" \in events => review_row # None,
               "error" \in events => review_row # c,
               result = "rejected" => events = {}
        PROVE  FacadeInv'
    <2> DEFINE f == [flow[c] EXCEPT !.at = "done", !.result = result]
    <2>1. f \in Flow /\ f.at = "done" /\ f.result = result /\ f.op = flow[c].op BY <1>1 DEF Flow
    <2>2. flow' = [flow EXCEPT ![c] = f] BY <1>5 DEF L!Ends
    <2> HIDE DEF f
    <2>3. FlowSound(c, flow[c], announced[c], review_row) BY <1>1
    <2>4. FlowSound(c, f, events, review_row') BY <1>5, <2>1, <2>3 DEF FlowSound
    <2> QED BY <1>5, <2>1, <2>2, <2>4, FlowMoves
  <1>6. ASSUME NEW c \in LessonCalls, flow[c].at \notin {"idle", "done"}
        PROVE  /\ announced[c] = {} /\ flow[c].op \in L!Operations
               /\ announced = [announced EXCEPT ![c] = {}] BY <1>1, <1>6 DEF FlowSound, Flow
  <1>7. ASSUME NEW c \in LessonCalls, L!Fetched(c) PROVE FacadeInv'
    <2>1. flow[c].op \in L!Operations BY <1>6, <1>7 DEF L!Fetched
    <2> QED BY <1>4, <1>7, <2>1 DEF L!Fetched, L!AfterFetch, L!Operations
  <1>8. ASSUME NEW c \in LessonCalls, L!NotFound(c) PROVE FacadeInv'
    BY <1>5, <1>6, <1>8 DEF L!NotFound, L!Nothing, L!Results
  <1>9. ASSUME NEW c \in LessonCalls, L!Aborted(c) PROVE FacadeInv'
    BY <1>5, <1>6, <1>9 DEF L!Aborted, L!Results
  <1>10. ASSUME NEW c \in LessonCalls, L!Fails(c) PROVE FacadeInv' BY <1>4, <1>10 DEF L!Fails
  <1>11. ASSUME NEW c \in LessonCalls, L!Generated(c) PROVE FacadeInv'
    BY <1>5, <1>6, <1>11 DEF L!Generated, L!Results
  <1>12. ASSUME NEW c \in LessonCalls, L!Stored(c) PROVE FacadeInv'
    <2>1. flow[c].op = "complete" BY <1>1, <1>12 DEF L!Stored, FlowSound
    <2> QED BY <1>4, <1>12, <2>1 DEF L!Stored
  <1>13. ASSUME NEW c \in LessonCalls, L!Announced(c) PROVE FacadeInv'
    <2>1. /\ flow[c].op = "start" \/ (flow[c].op = "complete" /\ review_row # None)
          /\ announced[c] = {} BY <1>1, <1>13 DEF L!Announced, FlowSound
    <2> QED BY <1>5, <1>13, <2>1 DEF L!Announced, L!Results
  <1>14. ASSUME NEW c \in LessonCalls, L!ErrorAnnounced(c) PROVE FacadeInv'
    <2>1. review_row # c /\ announced[c] = {} BY <1>1, <1>14 DEF L!ErrorAnnounced, FlowSound
    <2> QED BY <1>5, <1>14, <2>1 DEF L!ErrorAnnounced, L!Nothing, L!Results
  <1>15. ASSUME NEW c \in LessonCalls, flow[c].at = "idle"
         PROVE  flow[c].op = "none" /\ announced[c] = {} /\ review_row # c
                /\ flow[c].result # "rejected" BY <1>1, <1>15 DEF FlowSound
  <1>16. ASSUME NEW c \in LessonCalls, NEW op \in L!Operations, L!Call(c, op) PROVE FacadeInv'
    <2> DEFINE f == [flow[c] EXCEPT !.op = op, !.at = "fetching"]
    <2>1. f \in Flow /\ f.at = "fetching" /\ f.op = op /\ f.result = flow[c].result BY <1>1 DEF Flow
    <2>2. flow' = [flow EXCEPT ![c] = f] /\ UNCHANGED <<review_row, announced>> BY <1>16 DEF L!Call
    <2> HIDE DEF f
    <2>3. /\ flow[c].op = "none" /\ announced[c] = {} /\ review_row # c
          /\ flow[c].result # "rejected" BY <1>15, <1>16 DEF L!Call
    <2>4. FlowSound(c, f, announced[c], review_row') BY <2>1, <2>2, <2>3 DEF FlowSound, L!Operations
    <2> QED BY <1>2, <2>1, <2>2, <2>3, <2>4
  <1>17. ASSUME NEW c \in LessonCalls, NEW op \in L!Operations, NEW r \in L!Results,
                L!Refused(c, op, r) PROVE FacadeInv'
    <2> DEFINE f == [op |-> op, at |-> "done", result |-> r]
    <2>1. f \in Flow /\ f.at = "done" /\ f.op = op BY DEF Flow
    <2>2. flow' = [flow EXCEPT ![c] = f] /\ UNCHANGED <<review_row, announced>>
      BY <1>17 DEF L!Refused
    <2> HIDE DEF f
    <2>3. flow[c].op = "none" /\ announced[c] = {} /\ review_row # c BY <1>15, <1>17 DEF L!Refused
    <2>4. FlowSound(c, f, announced[c], review_row') BY <2>1, <2>2, <2>3 DEF FlowSound, L!Operations
    <2> QED BY <1>2, <2>1, <2>2, <2>3, <2>4
  <1>18. CASE UNCHANGED L!facade_vars BY <1>18 DEF L!facade_vars, FacadeInv, L!FacadeTypeOK
  <1> QED
    BY <1>7, <1>8, <1>9, <1>10, <1>11, <1>12, <1>13, <1>14, <1>16, <1>17, <1>18 DEF L!FacadeNext

(* Cardinality is the same operator through an instance.                   *)
LEMMA OneSize ==
  ASSUME NEW X PROVE L!Cardinality(X) = Cardinality(X) BY DEF L!Cardinality, Cardinality

LEMMA FacadeImplies == FacadeInv => L!AnnouncedIsStored
  <1> SUFFICES ASSUME FacadeInv, NEW c \in LessonCalls
               PROVE  /\ Cardinality(announced[c]) <= 1
                      /\ "completed" \in announced[c] =>
                           review_row # None /\ flow[review_row].op = "complete"
                      /\ "error" \in announced[c] => review_row # c
                      /\ flow[c].result = "rejected" => announced[c] = {}
    BY OneSize DEF L!AnnouncedIsStored
  <1>1. /\ Cardinality({}) = 0 /\ Cardinality({"started"}) = 1
        /\ Cardinality({"completed"}) = 1 /\ Cardinality({"error"}) = 1 BY FS_EmptySet, FS_Singleton
  <1>2. announced[c] \in {{}, {"started"}, {"completed"}, {"error"}} BY DEF FacadeInv, FlowSound
  <1>3. Cardinality(announced[c]) <= 1 BY <1>1, <1>2
  <1> QED BY <1>3 DEF FacadeInv, FlowSound
-----------------------------------------------------------------------------
(***************************************************************************)
(* srs_scheduler.js: RunIsRight says of a run under way what               *)
(* BatchIsComplete says of one that ended, and ScoresAreTrue of a cached   *)
(* score, until its card fails, that it is the score the card had at a     *)
(* moment of that day, or that the card has more repetitions by now.       *)
(***************************************************************************)
LEMMA SchedulerLimits ==
  MaxTime \in Nat /\ MaxRep \in Nat /\ BatchSize \in Nat \ {0} BY LimitsAssumption
LEMMA SchedulerListing ==
  Len(Cards) \in Nat /\ \A i, j \in 1..Len(Cards) : Cards[i] = Cards[j] => i = j
  BY LimitsAssumption DEF Cards

CardType == [due : Nat, ease : Int, mastery : 0..5, rep : 0..MaxRep]
BatchType == [state : {"none", "runs", "ended"}, at : 0..Len(Cards), found : [S!Ids -> Nat],
              always : SUBSET S!Ids, ever : SUBSET S!Ids]
Entry == [score : -1..400, day : -1..MaxTime, failed : BOOLEAN]
Over(x, t) == IF t > x.due THEN t - x.due ELSE 0
(* Priority as a function of the card and the time. *)
Score(x, t) ==
  LET raw == 40 + Over(x, t)
               + (IF x.ease < 20 THEN 8 ELSE 0)
               - (IF x.mastery >= 4 THEN 4 * (x.mastery - 3) ELSE 0)
               + (IF x.rep = 0 THEN 20 ELSE 0)
  IN IF raw < 0 THEN 0 ELSE IF raw > 400 THEN 400 ELSE raw

Until(at) == {Cards[i] : i \in 1..at}

(* What a run has found among the cards up to its place. *)
RunIsRight(b) ==
  /\ b.always \cap Until(b.at) \subseteq {c \in S!Ids : b.found[c] > 0}
  /\ {c \in S!Ids : b.found[c] > 0} \subseteq b.ever \cap Until(b.at)
  /\ \A c \in S!Ids : b.found[c] <= 1

(* A score is the one the card had on that day, or the card went on. *)
ScoredToday(e, x, u) == \E t \in 0..u : S!Day(t) = e.day /\ e.score = Score(x, t)
ScoresAreTrue ==
  \A c \in S!Ids, r \in 0..MaxRep :
    cached[<<c, r>>] # S!NoPriority /\ ~cached[<<c, r>>].failed =>
      card[c].rep > r \/ (card[c].rep = r /\ ScoredToday(cached[<<c, r>>], card[c], time))

SchedulerInv ==
  /\ time \in 0..MaxTime
  /\ card \in [S!Ids -> CardType]
  /\ cached \in [S!Keys -> Entry]
  /\ \A k \in S!Keys : \/ cached[k] = S!NoPriority
                       \/ (cached[k].score \in 0..400 /\ cached[k].day \in 0..S!Day(time))
  /\ batch \in BatchType
  /\ ScoresAreTrue
  /\ batch.state = "runs" =>
       batch.always \subseteq S!DueIn(card, time)
       /\ S!DueIn(card, time) \subseteq batch.ever
  /\ batch.state # "none" => RunIsRight(batch)
  /\ batch.state = "ended" => batch.at = Len(Cards)

(* Time passes and the day with it, at most half a day within one.         *)
LEMMA DaysPass ==
  ASSUME NEW t \in Nat
  PROVE  /\ S!Day(t) \in 0..t /\ S!Day(t) <= S!Day(t + 1)
         /\ \A u \in Nat : t <= u /\ S!Day(t) = S!Day(u) => u <= t + 1 BY DEF S!Day

(* calculatePriorityScore: a priority is a score, from 0 to 1000 points,    *)
(* that a day raises by less than its penalty.                             *)
LEMMA PriorityIsScore ==
  ASSUME NEW c PROVE S!Priority(c) = Score(card[c], time)
  BY Zenon DEF S!Priority, S!Overdue, Score, Over

LEMMA ScoreRises ==
  ASSUME NEW x \in CardType, NEW d \in Nat
  PROVE  /\ Score(x, d) \in 0..400
         /\ \A u \in d..d + 1 : Score(x, d) <= Score(x, u) /\ Score(x, u) < Score(x, d) + 2
  <1> DEFINE rest == 40 + (IF x.ease < 20 THEN 8 ELSE 0)
               - (IF x.mastery >= 4 THEN 4 * (x.mastery - 3) ELSE 0)
               + (IF x.rep = 0 THEN 20 ELSE 0)
             raw(u) == 40 + Over(x, u)
               + (IF x.ease < 20 THEN 8 ELSE 0)
               - (IF x.mastery >= 4 THEN 4 * (x.mastery - 3) ELSE 0)
               + (IF x.rep = 0 THEN 20 ELSE 0)
  <1>1. x.due \in Nat /\ x.ease \in Int /\ x.mastery \in 0..5 BY DEF CardType
  <1>2. \A u \in d..d + 1 : /\ Over(x, d) \in Nat /\ Over(x, u) \in Nat
                            /\ Over(x, d) <= Over(x, u) /\ Over(x, u) <= Over(x, d) + 1
    BY <1>1 DEF Over
  <1>3. rest \in Int BY <1>1
  <1>5. d \in d..d + 1 OBVIOUS
  <1>6. ASSUME NEW u \in d..d + 1 PROVE raw(u) = rest + Over(x, u)
    <2>1. Over(x, u) \in Nat BY <1>2
    <2> QED BY <1>1, <2>1
  <1>4. \A u : Score(x, u) = IF raw(u) < 0 THEN 0 ELSE IF raw(u) > 400 THEN 400 ELSE raw(u)
    BY Zenon DEF Score
  <1> HIDE DEF raw, rest
  <1>7. Score(x, d) \in 0..400
    <2>1. Over(x, d) \in Nat /\ raw(d) = rest + Over(x, d) BY <1>2, <1>5, <1>6
    <2>2. raw(d) \in Int BY <1>3, <2>1
    <2>3. Score(x, d) = IF raw(d) < 0 THEN 0 ELSE IF raw(d) > 400 THEN 400 ELSE raw(d) BY <1>4
    <2> QED BY <2>2, <2>3
  <1>8. ASSUME NEW u \in d..d + 1
        PROVE  Score(x, d) <= Score(x, u) /\ Score(x, u) < Score(x, d) + 2
    <2>1. Over(x, d) \in Nat /\ Over(x, u) \in Nat BY <1>2
    <2>2. Over(x, d) <= Over(x, u) /\ Over(x, u) <= Over(x, d) + 1 BY <1>2
    <2>3. raw(d) = rest + Over(x, d) /\ raw(u) = rest + Over(x, u) BY <1>5, <1>6
    <2> QED BY <1>3, <1>4, <2>1, <2>2, <2>3
  <1> QED BY <1>7, <1>8

(* Of the two facts the first is the one a sort needs.                     *)
LEMMA ScoreInRange ==
  ASSUME NEW x \in CardType, NEW d \in Nat PROVE Score(x, d) \in 0..400 BY ScoreRises

(* A run that goes on to a place with what it found, and one that ends. *)
Gone(b, at, f) == [b EXCEPT !.at = at, !.found = f]
Ended(b) == [b EXCEPT !.state = "ended"]

(* A run that goes on or ends keeps the rest of its fields.                *)
LEMMA RunChanges ==
  ASSUME NEW b \in BatchType, NEW at \in 0..Len(Cards), NEW f \in [S!Ids -> Nat]
  PROVE  /\ Gone(b, at, f) \in BatchType /\ Gone(b, at, f).state = b.state
         /\ Gone(b, at, f).at = at /\ Gone(b, at, f).found = f
         /\ Gone(b, at, f).always = b.always /\ Gone(b, at, f).ever = b.ever
         /\ Ended(b) \in BatchType /\ Ended(b).state = "ended" /\ Ended(b).at = b.at
         /\ Ended(b).found = b.found /\ Ended(b).always = b.always /\ Ended(b).ever = b.ever
  <1> DEFINE w == [b EXCEPT !.at = at]
  <1>1. /\ w \in BatchType /\ w.state = b.state /\ w.at = at
        /\ w.always = b.always /\ w.ever = b.ever BY DEF BatchType
  <1>2. Gone(b, at, f) = [w EXCEPT !.found = f] BY Zenon DEF Gone
  <1>3. /\ Ended(b) \in BatchType /\ Ended(b).state = "ended" /\ Ended(b).at = b.at
        /\ Ended(b).found = b.found /\ Ended(b).always = b.always /\ Ended(b).ever = b.ever
    BY DEF BatchType, Ended
  <1> HIDE DEF w
  <1>4. /\ Gone(b, at, f) \in BatchType /\ Gone(b, at, f).state = b.state
        /\ Gone(b, at, f).at = at /\ Gone(b, at, f).found = f
        /\ Gone(b, at, f).always = b.always /\ Gone(b, at, f).ever = b.ever
    BY <1>1, <1>2 DEF BatchType
  <1> QED BY <1>3, <1>4

LEMMA SchedulerImplies ==
  SchedulerInv => S!SchedulerTypeOK /\ S!BatchIsComplete /\ S!CachedPriorityIsTrue
  <1> SUFFICES ASSUME SchedulerInv PROVE S!SchedulerTypeOK /\ S!BatchIsComplete /\ S!CachedPriorityIsTrue
    OBVIOUS
  <1>1. S!SchedulerTypeOK BY DEF SchedulerInv, S!SchedulerTypeOK, CardType, BatchType
  <1>2. S!BatchIsComplete
    <2> SUFFICES ASSUME batch.state = "ended" PROVE S!BatchIsComplete BY DEF S!BatchIsComplete
    <2>1. batch.always \subseteq S!Ids /\ batch.at = Len(Cards) /\ RunIsRight(batch)
      BY DEF SchedulerInv, BatchType
    <2>2. Until(Len(Cards)) = S!Ids BY DEF Until, S!Ids
    <2> QED BY <2>1, <2>2 DEF RunIsRight, S!BatchIsComplete
  <1>3. S!CachedPriorityIsTrue
    <2> SUFFICES ASSUME NEW c \in S!Ids, S!Hit(c), ~cached[S!Key(c)].failed
                 PROVE  /\ cached[S!Key(c)].score <= S!Priority(c)
                        /\ S!Priority(c) < cached[S!Key(c)].score + 2
      BY DEF S!CachedPriorityIsTrue, S!DayPenalty
    <2>1. card[c].rep \in 0..MaxRep /\ card[c] \in CardType /\ time \in Nat
      BY SchedulerLimits DEF SchedulerInv, CardType
    <2>2. S!Key(c) = <<c, card[c].rep>> /\ cached[S!Key(c)].day = S!Day(time) BY DEF S!Hit, S!Key
    <2>3. PICK t \in 0..time : S!Day(t) = S!Day(time) /\ cached[S!Key(c)].score = Score(card[c], t)
      BY <2>1, <2>2 DEF SchedulerInv, ScoresAreTrue, ScoredToday, S!Hit
    <2>4. t \in Nat /\ time \in t..t + 1
      <3>1. time <= t + 1 BY <2>1, <2>3, DaysPass
      <3> QED BY <2>1, <3>1
    <2>5. Score(card[c], t) <= Score(card[c], time) /\ Score(card[c], time) < Score(card[c], t) + 2
      BY <2>1, <2>4, ScoreRises
    <2> QED BY <2>3, <2>5, PriorityIsScore
  <1> QED BY <1>1, <1>2, <1>3

LEMMA SameSize ==
  ASSUME NEW X PROVE S!Cardinality(X) = Cardinality(X) BY DEF S!Cardinality, Cardinality

(* A card is in the list once, so it is in a part of it once or not at     *)
(* all.                                                                    *)
LEMMA TimesIsOne ==
  ASSUME NEW c \in S!Ids, NEW from \in Nat \ {0}, NEW to \in 0..Len(Cards)
  PROVE  /\ S!Times(c, from, to) \in {0, 1}
         /\ S!Times(c, from, to) = 1 <=> \E i \in from..to : Cards[i] = c
  <1> DEFINE places == {i \in from..to : Cards[i] = c}
  <1>1. CASE places = {}
    <2>1. S!Times(c, from, to) = 0 BY <1>1, FS_EmptySet, SameSize DEF S!Times
    <2> QED BY <1>1, <2>1
  <1>2. CASE places # {}
    <2>1. PICK i \in from..to : Cards[i] = c BY <1>2
    <2>2. \A j \in from..to : j \in 1..Len(Cards) BY SchedulerListing
    <2>3. places = {i} BY <2>1, <2>2, SchedulerListing
    <2>4. S!Times(c, from, to) = 1 BY <2>3, FS_Singleton, SameSize DEF S!Times
    <2> QED BY <2>1, <2>4
  <1> QED BY <1>1, <1>2

LEMMA SchedulerStarts == S!SchedulerInit => SchedulerInv
  <1> SUFFICES ASSUME S!SchedulerInit PROVE SchedulerInv OBVIOUS
  <1> USE SchedulerLimits, SchedulerListing DEF S!SchedulerInit
  <1>1. time = 0 /\ 0 \in 0..MaxTime /\ 0 \in 0..MaxRep /\ 0 \in 0..Len(Cards) OBVIOUS
  <1>2. card \in [S!Ids -> CardType]
    <2>1. \A d \in {0, 1}, e \in {17, 25} : [due |-> d, ease |-> e, mastery |-> 3, rep |-> 0] \in CardType
      BY DEF CardType
    <2> QED BY <2>1
  <1>3. /\ S!NoPriority \in Entry
        /\ S!NoBatch \in BatchType /\ S!NoBatch.state = "none"
    BY DEF S!NoPriority, S!NoBatch, S!NoneFound, BatchType, Entry
  <1>4. \A c \in S!Ids, r \in 0..MaxRep : <<c, r>> \in S!Keys /\ cached[<<c, r>>] = S!NoPriority
    BY DEF S!Keys
  <1>5. ScoresAreTrue BY <1>1, <1>3, <1>4 DEF ScoresAreTrue
  <1>6. cached \in [S!Keys -> Entry]
        /\ \A k \in S!Keys : cached[k] = S!NoPriority BY <1>3
  <1>7. batch = S!NoBatch OBVIOUS
  <1> QED BY <1>1, <1>2, <1>3, <1>5, <1>6, <1>7 DEF SchedulerInv

(* The days and reviews a run has seen leave what it found right. *)
LEMMA SeenKeeps ==
  ASSUME NEW b \in BatchType, NEW due \in SUBSET S!Ids
  PROVE  /\ S!Seen(b, due) \in BatchType /\ S!Seen(b, due).state = b.state /\ S!Seen(b, due).at = b.at
         /\ b.state = "runs" =>
              S!Seen(b, due).always \subseteq due /\ due \subseteq S!Seen(b, due).ever
         /\ RunIsRight(b) => RunIsRight(S!Seen(b, due))
  <1>1. CASE b.state # "runs" BY <1>1 DEF S!Seen
  <1>2. CASE b.state = "runs"
    <2> DEFINE v == [b EXCEPT !.always = b.always \cap due]
               w == [v EXCEPT !.ever = v.ever \cup due]
    <2>1. /\ v \in BatchType /\ v.state = b.state /\ v.at = b.at /\ v.found = b.found
          /\ v.always = b.always \cap due /\ v.ever = b.ever BY DEF BatchType
    <2> HIDE DEF v
    <2>2. /\ w \in BatchType /\ w.state = b.state /\ w.at = b.at /\ w.found = b.found
          /\ w.always = b.always \cap due /\ w.ever = b.ever \cup due BY <2>1 DEF BatchType
    <2>3. S!Seen(b, due) = [b EXCEPT !.always = @ \cap due, !.ever = @ \cup due] BY <1>2 DEF S!Seen
    <2>4. S!Seen(b, due) = w BY <2>3, <2>1, Zenon DEF v
    <2> HIDE DEF w
    <2> QED BY <2>2, <2>4 DEF RunIsRight
  <1> QED BY <1>1, <1>2

(* Each step of the scheduler keeps its runs and its cache right.          *)
LEMMA SchedulerKeeps == SchedulerInv /\ [S!SchedulerNext]_(S!scheduler_vars) => SchedulerInv'
  <1> SUFFICES ASSUME SchedulerInv, [S!SchedulerNext]_(S!scheduler_vars) PROVE SchedulerInv' OBVIOUS
  <1> USE SchedulerLimits
  <1>0. /\ time \in 0..MaxTime
        /\ card \in [S!Ids -> CardType]
        /\ cached \in [S!Keys -> Entry]
        /\ \A k \in S!Keys : \/ cached[k] = S!NoPriority
                             \/ (cached[k].score \in 0..400 /\ cached[k].day \in 0..S!Day(time))
        /\ batch \in BatchType
        /\ ScoresAreTrue BY DEF SchedulerInv
  <1>00. /\ batch.state = "runs" =>
              batch.always \subseteq S!DueIn(card, time)
              /\ S!DueIn(card, time) \subseteq batch.ever
         /\ batch.state # "none" => RunIsRight(batch)
         /\ batch.state = "ended" => batch.at = Len(Cards) BY DEF SchedulerInv
  <1>1. \A f, d : S!DueIn(f, d) \in SUBSET S!Ids BY DEF S!DueIn
  <1>2. \A c \in S!Ids, r \in 0..MaxRep : <<c, r>> \in S!Keys BY DEF S!Keys
  (* What an action that changes no run has to keep. *)
  <1>3. ASSUME time' \in 0..MaxTime, card' \in [S!Ids -> CardType],
               \/ batch' = batch /\ card' = card /\ time' = time
               \/ batch' = S!Seen(batch, S!DueIn(card', time')),
               cached' \in [S!Keys -> Entry],
               \A k \in S!Keys : \/ cached'[k] = S!NoPriority
                                 \/ (cached'[k].score \in 0..400 /\ cached'[k].day \in 0..S!Day(time')),
               ScoresAreTrue'
        PROVE  SchedulerInv'
    <2> DEFINE due == S!DueIn(card', time')
    <2>1. due = (S!DueIn(card, time))' /\ due \in SUBSET S!Ids BY DEF S!DueIn
    <2> HIDE DEF due
    <2>3. /\ batch' \in BatchType /\ batch'.state = batch.state /\ batch'.at = batch.at
          /\ batch'.state = "runs" => batch'.always \subseteq due /\ due \subseteq batch'.ever
          /\ batch'.state # "none" => RunIsRight(batch')
      <3>1. CASE batch' = S!Seen(batch, due) BY <1>0, <1>00, <2>1, <3>1, SeenKeeps
      <3>2. CASE batch' = batch /\ card' = card /\ time' = time BY <1>0, <1>00, <3>2 DEF due
      <3> QED BY <1>3, <3>1, <3>2 DEF due
    <2>4. (batch.state # "none" => RunIsRight(batch))' BY <2>3 DEF RunIsRight, Until
    <2> QED BY <1>00, <1>3, <2>1, <2>3, <2>4 DEF SchedulerInv
  <1>4. CASE S!SchedulerTimePasses
    <2>1. /\ time' = time + 1 /\ time' \in 0..MaxTime
          /\ batch' = S!Seen(batch, S!DueIn(card', time')) /\ card' = card /\ cached' = cached
      BY <1>0, <1>4 DEF S!SchedulerTimePasses
    <2>2. \A e, x : ScoredToday(e, x, time) => ScoredToday(e, x, time')
      BY <1>0, <2>1 DEF ScoredToday
    <2>3. ScoresAreTrue' BY <1>0, <2>1, <2>2 DEF ScoresAreTrue
    <2>4. \A k \in S!Keys : \/ cached'[k] = S!NoPriority
                            \/ (cached'[k].score \in 0..400 /\ cached'[k].day \in 0..S!Day(time'))
      <3>1. S!Day(time) \in Nat /\ S!Day(time') \in Nat /\ S!Day(time) <= S!Day(time')
        <4>1. time \in Nat /\ time' \in Nat BY <1>0, <2>1
        <4> QED BY <2>1, <4>1, DaysPass
      <3> QED BY <1>0, <2>1, <3>1
    <2> QED BY <1>0, <1>3, <2>1, <2>3, <2>4
  (* The card that is reviewed becomes v, the others stay. *)
  <1>17. ASSUME NEW c \in S!Ids, NEW v \in CardType, card' = [card EXCEPT ![c] = v], time' = time,
                batch' = S!Seen(batch, S!DueIn(card', time')), cached' \in [S!Keys -> Entry],
                \A k \in S!Keys : \/ cached'[k] = cached[k]
                                  \/ /\ cached[k] # S!NoPriority /\ cached'[k].failed
                                     /\ cached'[k].score = cached[k].score /\ cached'[k].day = cached[k].day,
                \/ v.rep = card[c].rep + 1
                \/ \A r \in 0..MaxRep : cached'[<<c, r>>] = S!NoPriority \/ cached'[<<c, r>>].failed
         PROVE  SchedulerInv'
    <2>1. /\ card' \in [S!Ids -> CardType] /\ card'[c] = v
          /\ \A x \in S!Ids : x # c => card'[x] = card[x] BY <1>0, <1>17
    <2>2. ScoresAreTrue'
      <3> SUFFICES ASSUME NEW x \in S!Ids, NEW r \in 0..MaxRep,
                          cached'[<<x, r>>] # S!NoPriority, ~cached'[<<x, r>>].failed
                   PROVE  \/ card'[x].rep > r
                          \/ card'[x].rep = r /\ ScoredToday(cached'[<<x, r>>], card'[x], time)
        BY <1>17 DEF ScoresAreTrue
      <3>1. cached'[<<x, r>>] = cached[<<x, r>>] BY <1>2, <1>17
      <3>2. \/ card[x].rep > r
            \/ card[x].rep = r /\ ScoredToday(cached[<<x, r>>], card[x], time)
        BY <1>0, <3>1 DEF ScoresAreTrue
      <3>3. CASE x # c BY <2>1, <3>1, <3>2, <3>3
      <3>4. CASE x = c
        <4>1. v.rep = card[c].rep + 1 BY <1>17, <3>4
        <4>2. card[c].rep \in Nat /\ card[c].rep >= r BY <1>0, <3>2, <3>4 DEF CardType
        <4> QED BY <2>1, <3>4, <4>1, <4>2
      <3> QED BY <3>3, <3>4
    <2>3. ASSUME NEW k \in S!Keys
          PROVE  \/ cached'[k] = S!NoPriority
                 \/ (cached'[k].score \in 0..400 /\ cached'[k].day \in 0..S!Day(time'))
      BY <1>0, <1>17
    <2> QED BY <1>0, <1>3, <1>17, <2>1, <2>2, <2>3
  <1>5. ASSUME NEW c \in S!Ids, NEW success \in BOOLEAN, S!Review(c, success) PROVE SchedulerInv'
    <2>1. /\ batch' = S!Seen(batch, S!DueIn(card', time')) /\ time' = time
          /\ card[c] \in CardType /\ time \in Nat BY <1>0, <1>5 DEF S!Review
    <2>2. CASE success
      <3> DEFINE v == [due |-> time + 2 * (1 + card[c].rep), ease |-> card[c].ease,
                       mastery |-> IF card[c].mastery < 5 THEN card[c].mastery + 1 ELSE 5,
                       rep |-> card[c].rep + 1]
      <3>1. v \in CardType /\ v.rep = card[c].rep + 1 BY <1>5, <2>1, <2>2 DEF S!Review, CardType
      <3>2. card' = [card EXCEPT ![c] = v] /\ cached' = cached BY <1>5, <2>2 DEF S!Review
      <3> HIDE DEF v
      <3>3. cached' \in [S!Keys -> Entry] BY <1>0, <3>2
      <3>4. \A k \in S!Keys : cached'[k] = cached[k] BY <3>2
      <3> QED BY <1>17, <2>1, <3>1, <3>2, <3>3, <3>4
    <2>3. CASE ~ success
      <3> DEFINE v == [due |-> time + 2, ease |-> IF card[c].ease < 13 THEN card[c].ease ELSE card[c].ease - 8,
                       mastery |-> 0, rep |-> 0]
      <3>1. v \in CardType BY <2>1 DEF CardType
      <3>2. /\ card' = [card EXCEPT ![c] = v]
            /\ cached' = [k \in S!Keys |-> IF k[1] = c /\ cached[k] # S!NoPriority
                                          THEN S!Failed(cached[k]) ELSE cached[k]]
        BY <1>5, <2>3 DEF S!Review
      <3> HIDE DEF v
      <3>3. \A k \in S!Keys : cached[k] \in Entry BY <1>0
      <3>4. \A e \in Entry : /\ S!Failed(e) \in Entry /\ S!Failed(e).failed
                             /\ S!Failed(e).score = e.score /\ S!Failed(e).day = e.day
        BY DEF Entry, S!Failed
      <3>5. ASSUME NEW k \in S!Keys
            PROVE  /\ cached'[k] \in Entry
                   /\ \/ cached'[k] = cached[k]
                      \/ /\ cached[k] # S!NoPriority /\ cached'[k].failed
                         /\ cached'[k].score = cached[k].score /\ cached'[k].day = cached[k].day
        <4>1. CASE k[1] = c /\ cached[k] # S!NoPriority
          <5>1. cached'[k] = S!Failed(cached[k]) BY <3>2, <4>1, Zenon
          <5> QED BY <3>3, <3>4, <4>1, <5>1
        <4>2. CASE ~(k[1] = c /\ cached[k] # S!NoPriority)
          <5>1. cached'[k] = cached[k] BY <3>2, <4>2, Zenon
          <5> QED BY <3>3, <5>1
        <4> QED BY <4>1, <4>2
      <3>6. cached' \in [S!Keys -> Entry] BY <3>2, <3>5
      <3>7. ASSUME NEW r \in 0..MaxRep
            PROVE  cached'[<<c, r>>] = S!NoPriority \/ cached'[<<c, r>>].failed
        <4>1. <<c, r>> \in S!Keys /\ <<c, r>>[1] = c BY <1>2
        <4>2. CASE cached[<<c, r>>] = S!NoPriority BY <3>2, <4>1, <4>2
        <4>3. CASE cached[<<c, r>>] # S!NoPriority
          <5>1. cached'[<<c, r>>] = S!Failed(cached[<<c, r>>]) BY <3>2, <4>1, <4>3, Zenon
          <5> QED BY <3>3, <3>4, <4>1, <5>1
        <4> QED BY <4>2, <4>3
      <3> QED BY <1>17, <2>1, <3>1, <3>2, <3>5, <3>6, <3>7
    <2> QED BY <2>2, <2>3
  <1>6. CASE S!SortByPriority
    <2>1. /\ time' = time /\ card' = card /\ batch' = batch
          /\ cached' = [k \in S!Keys |->
                  IF \E c \in S!Ids : S!ValidItem(c) /\ k = S!Key(c) /\ ~S!Hit(c)
                  THEN [score |-> S!Priority(k[1]), day |-> S!Day(time), failed |-> FALSE]
                  ELSE cached[k]] BY <1>6 DEF S!SortByPriority
    <2>8. time' = time BY <2>1
    <2> DEFINE New(c) == [score |-> Score(card[c], time), day |-> S!Day(time), failed |-> FALSE]
    <2>2. ASSUME NEW c \in S!Ids, NEW r \in 0..MaxRep
          PROVE  \/ cached'[<<c, r>>] = cached[<<c, r>>]
                 \/ /\ cached'[<<c, r>>] = New(c)
                    /\ card[c].rep = r BY <1>2, <2>1, PriorityIsScore DEF S!Key
    <2>3. ASSUME NEW c \in S!Ids
          PROVE  /\ New(c) \in Entry /\ New(c).score \in 0..400 /\ New(c).day \in 0..S!Day(time)
                 /\ ScoredToday(New(c), card[c], time)
      <3>1. card[c] \in CardType /\ time \in Nat /\ time \in 0..time BY <1>0
      <3>6. Score(card[c], time) \in 0..400 BY <3>1, ScoreInRange
      <3>7. S!Day(time) \in 0..time BY <3>1, DaysPass
      <3>2. Score(card[c], time) \in 0..400 /\ S!Day(time) \in 0..time BY <3>6, <3>7
      <3>3. S!Day(time) \in 0..S!Day(time) /\ S!Day(time) \in -1..MaxTime BY <1>0, <3>2
      <3>4. New(c).score = Score(card[c], time) /\ New(c).day = S!Day(time) /\ New(c).failed = FALSE
        OBVIOUS
      <3>5. New(c) \in Entry BY <3>2, <3>3 DEF Entry
      <3> HIDE DEF New
      <3> QED BY <3>1, <3>2, <3>3, <3>4, <3>5 DEF ScoredToday
    <2> HIDE DEF New
    <2>4. ASSUME NEW k \in S!Keys
          PROVE  \E c \in S!Ids, r \in 0..MaxRep : k = <<c, r>> BY DEF S!Keys
    <2>5. ASSUME NEW k \in S!Keys
          PROVE  /\ cached'[k] \in Entry
                 /\ \/ cached'[k] = S!NoPriority
                    \/ (cached'[k].score \in 0..400 /\ cached'[k].day \in 0..S!Day(time'))
      <3>1. PICK c \in S!Ids, r \in 0..MaxRep : k = <<c, r>> BY <2>4
      <3>2. CASE cached'[k] = cached[k] BY <1>0, <2>8, <3>2
      <3>3. CASE cached'[k] = New(c) BY <2>3, <2>8, <3>3
      <3> QED BY <2>2, <3>1, <3>2, <3>3
    <2>6. cached' \in [S!Keys -> Entry] BY <2>1, <2>5
    <2>7. ScoresAreTrue'
      <3> SUFFICES ASSUME NEW c \in S!Ids, NEW r \in 0..MaxRep,
                          cached'[<<c, r>>] # S!NoPriority, ~cached'[<<c, r>>].failed
                   PROVE  \/ card[c].rep > r
                          \/ card[c].rep = r /\ ScoredToday(cached'[<<c, r>>], card[c], time)
        BY <2>1 DEF ScoresAreTrue
      <3>1. CASE cached'[<<c, r>>] = cached[<<c, r>>] BY <1>0, <3>1 DEF ScoresAreTrue
      <3>2. CASE cached'[<<c, r>>] = New(c) /\ card[c].rep = r BY <2>3, <3>2
      <3> QED BY <2>2, <3>1, <3>2
    <2>9. card' = card /\ batch' = batch BY <2>1
    <2> QED BY <1>0, <1>3, <2>5, <2>6, <2>7, <2>8, <2>9
  (* Entries go and nothing else changes. *)
  <1>7. ASSUME UNCHANGED <<time, card, batch>>,
               cached' \in [S!Keys -> Entry],
               \A k \in S!Keys : cached'[k] \in {S!NoPriority, cached[k]}
        PROVE  SchedulerInv'
    <2>2. ScoresAreTrue' BY <1>0, <1>2, <1>7 DEF ScoresAreTrue
    <2>3. \A k \in S!Keys : \/ cached'[k] = S!NoPriority
                            \/ (cached'[k].score \in 0..400 /\ cached'[k].day \in 0..S!Day(time'))
      <3> TAKE k \in S!Keys
      <3>1. CASE cached'[k] = S!NoPriority BY <3>1
      <3>2. CASE cached'[k] = cached[k]
        <4>1. \/ cached[k] = S!NoPriority
              \/ (cached[k].score \in 0..400 /\ cached[k].day \in 0..S!Day(time)) BY <1>0
        <4>2. time' = time BY <1>7
        <4> QED BY <3>2, <4>1, <4>2
      <3> QED BY <1>7, <3>1, <3>2
    <2> QED BY <1>0, <1>3, <1>7, <2>2, <2>3
  <1>8. S!NoPriority \in Entry BY DEF S!NoPriority, Entry
  <1>9. ASSUME NEW k \in S!Keys, S!Evict(k) PROVE SchedulerInv'
    BY <1>0, <1>7, <1>8, <1>9 DEF S!Evict
  <1>10. CASE S!Clear BY <1>0, <1>7, <1>8, <1>10 DEF S!Clear
  <1>11. CASE UNCHANGED S!scheduler_vars BY <1>0, <1>7, <1>11 DEF S!scheduler_vars
  (* A run is started, goes on or ends. *)
  <1>12. ASSUME UNCHANGED <<time, card, cached>>, batch' \in BatchType,
                batch'.state = "runs" => /\ batch'.always \subseteq S!DueIn(card, time)
                                         /\ S!DueIn(card, time) \subseteq batch'.ever,
                batch'.state # "none" => RunIsRight(batch'),
                batch'.state = "ended" => batch'.at = Len(Cards)
         PROVE  SchedulerInv'
    <2>1. (S!DueIn(card, time))' = S!DueIn(card, time) BY <1>12 DEF S!DueIn
    <2>2. (batch.state # "none" => RunIsRight(batch))' BY <1>12 DEF RunIsRight, Until
    <2>3. ScoresAreTrue' BY <1>0, <1>12 DEF ScoresAreTrue
    <2> QED BY <1>0, <1>12, <2>1, <2>2, <2>3 DEF SchedulerInv
  <1>13. CASE S!BatchStart
    <2> DEFINE due == S!DueIn(card, time)
               v == [state |-> "runs", at |-> 0, found |-> S!NoneFound, always |-> due, ever |-> due]
    <2>1. batch' = v /\ UNCHANGED <<time, card, cached>> BY <1>13 DEF S!BatchStart
    <2>2. due \in SUBSET S!Ids BY <1>1
    <2> HIDE DEF due
    <2>3. v \in BatchType BY <2>2 DEF BatchType, S!NoneFound
    <2>4. /\ v.state = "runs" /\ v.at = 0 /\ v.found = S!NoneFound /\ v.always = due /\ v.ever = due
      OBVIOUS
    <2> HIDE DEF v
    <2>5. RunIsRight(v) BY <2>4 DEF RunIsRight, Until, S!NoneFound
    <2> QED BY <1>12, <2>1, <2>3, <2>4, <2>5 DEF due
  <1>14. CASE S!BatchRuns
    <2> DEFINE to == S!NextYield(batch.at)
               v == Gone(batch, to, S!FoundWith(to))
    <2>1. /\ batch' = v /\ batch.state = "runs" /\ batch.at < Len(Cards)
          /\ UNCHANGED <<time, card, cached>> BY <1>14 DEF S!BatchRuns, Gone
    <2>2. batch.at \in 0..Len(Cards) /\ batch.found \in [S!Ids -> Nat] BY <1>0 DEF BatchType
    <2>3. to \in 0..Len(Cards) /\ to > batch.at BY <2>1, <2>2, SchedulerListing DEF S!NextYield
    <2> HIDE DEF to
    <2>4. \A c \in S!Ids : S!Times(c, batch.at + 1, to) \in {0, 1}
            /\ (S!Times(c, batch.at + 1, to) = 1 <=> \E i \in batch.at + 1..to : Cards[i] = c)
      <3>1. batch.at + 1 \in Nat \ {0} BY <2>2, SchedulerListing
      <3> QED BY <2>3, <3>1, TimesIsOne
    <2>5. /\ S!FoundWith(to) \in [S!Ids -> Nat]
          /\ \A c \in S!Ids : S!FoundWith(to)[c] =
               batch.found[c] + IF c \in S!DueIn(card, time)
                                THEN S!Times(c, batch.at + 1, to) ELSE 0
      <3>1. \A c \in S!Ids : (S!ValidItem(c) /\ S!IsDue(c)) = (c \in S!DueIn(card, time))
        BY DEF S!DueIn, S!ValidItem, S!IsDue
      <3>2. \A c \in S!Ids : S!FoundWith(to)[c] =
               batch.found[c] + IF c \in S!DueIn(card, time)
                                THEN S!Times(c, batch.at + 1, to) ELSE 0 BY <3>1 DEF S!FoundWith
      <3>3. \A c \in S!Ids : S!FoundWith(to)[c] \in Nat BY <2>2, <2>4, <3>2
      <3>4. S!FoundWith(to) = [c \in S!Ids |-> S!FoundWith(to)[c]] BY DEF S!FoundWith
      <3> QED BY <3>2, <3>3, <3>4
    <2>13. S!FoundWith(to) \in [S!Ids -> Nat] /\ to \in 0..Len(Cards) BY <2>3, <2>5
    <2>14. batch.state = "runs" BY <2>1
    <2>8. /\ v \in BatchType /\ v.state = "runs" /\ v.at = to /\ v.found = S!FoundWith(to)
          /\ v.always = batch.always /\ v.ever = batch.ever
      <3>1. batch \in BatchType BY <1>0
      <3> QED BY <2>13, <2>14, <3>1, RunChanges
    <2> HIDE DEF v
    <2>9. RunIsRight(batch) /\ batch.always \subseteq S!DueIn(card, time)
          /\ S!DueIn(card, time) \subseteq batch.ever BY <1>00, <2>1
    <2>10. \A c \in S!Ids : c \in Until(to) <=>
             c \in Until(batch.at) \/ \E i \in batch.at + 1..to : Cards[i] = c
      <3> TAKE c \in S!Ids
      <3>1. \A i : i \in 1..to <=> i \in 1..batch.at \/ i \in batch.at + 1..to
        BY <2>2, <2>3, SchedulerListing
      <3>2. c \in Until(to) <=> \E i \in 1..to : Cards[i] = c BY DEF Until
      <3>3. c \in Until(batch.at) <=> \E i \in 1..batch.at : Cards[i] = c BY DEF Until
      <3> QED BY <3>1, <3>2, <3>3
    <2>11. \A c \in S!Ids : c \in Until(batch.at) => ~ \E i \in batch.at + 1..to : Cards[i] = c
      <3> SUFFICES ASSUME NEW j \in 1..batch.at, NEW i \in batch.at + 1..to, Cards[i] = Cards[j]
                   PROVE  FALSE BY DEF Until
      <3>1. i \in 1..Len(Cards) /\ j \in 1..Len(Cards) /\ i # j BY <2>2, <2>3, SchedulerListing
      <3> QED BY <3>1, SchedulerListing
    <2>12. RunIsRight(v)
      <3>1. ASSUME NEW c \in S!Ids
            PROVE  /\ c \in batch.always \cap Until(to) => S!FoundWith(to)[c] > 0
                   /\ S!FoundWith(to)[c] > 0 => c \in batch.ever \cap Until(to)
                   /\ S!FoundWith(to)[c] <= 1
        <4>1. batch.found[c] \in Nat /\ batch.found[c] <= 1 BY <2>2, <2>9 DEF RunIsRight
        <4>2. /\ c \in batch.always \cap Until(batch.at) => batch.found[c] > 0
              /\ batch.found[c] > 0 => c \in batch.ever \cap Until(batch.at) BY <2>9 DEF RunIsRight
        <4>3. CASE c \in Until(batch.at) BY <2>4, <2>5, <2>10, <2>11, <4>1, <4>2, <4>3
        <4>4. CASE c \notin Until(batch.at)
          <5>1. batch.found[c] = 0 BY <4>1, <4>2, <4>4
          <5> QED BY <2>4, <2>5, <2>9, <2>10, <4>4, <5>1
        <4> QED BY <4>3, <4>4
      <3>2. v.always \subseteq S!Ids BY <2>8 DEF BatchType
      <3> QED BY <2>8, <3>1, <3>2 DEF RunIsRight
    <2> QED BY <1>12, <2>1, <2>8, <2>9, <2>12
  <1>15. CASE S!BatchEnds
    <2> DEFINE v == Ended(batch)
    <2>1. /\ batch' = v /\ batch.state = "runs" /\ batch.at >= Len(Cards)
          /\ UNCHANGED <<time, card, cached>> BY <1>15 DEF S!BatchEnds, Ended
    <2>20. batch.at \in 0..Len(Cards) /\ batch.found \in [S!Ids -> Nat] BY <1>0 DEF BatchType
    <2>2. /\ v \in BatchType /\ v.state = "ended" /\ v.at = batch.at /\ v.found = batch.found
          /\ v.always = batch.always /\ v.ever = batch.ever BY <1>0, <2>20, RunChanges
    <2>3. batch.at = Len(Cards) BY <1>0, <2>1 DEF BatchType
    <2> HIDE DEF v
    <2>4. RunIsRight(v) BY <1>00, <2>1, <2>2 DEF RunIsRight
    <2> QED BY <1>12, <2>1, <2>2, <2>3, <2>4
  <1>16. CASE S!BatchAborted
    <2>1. S!NoBatch \in BatchType /\ S!NoBatch.state = "none"
      BY DEF S!NoBatch, S!NoneFound, BatchType
    <2> QED BY <1>12, <1>16, <2>1 DEF S!BatchAborted
  <1> QED BY <1>4, <1>5, <1>6, <1>9, <1>10, <1>11, <1>13, <1>14, <1>15, <1>16 DEF S!SchedulerNext
-----------------------------------------------------------------------------
(***************************************************************************)
(* core/models/srs_manager.js: the index is exact at every write.          *)
(***************************************************************************)
LEMMA ManagerLimits ==
  LastDay \in Nat /\ HistoryLimit \in Nat \ {0} BY LimitsAssumption
LEMMA ManagerNulls ==
  None \notin S!Data BY NoneAssumption

ManagerInv ==
  /\ lessons \in [Lessons -> S!Data \cup {None}]
  /\ histories \in [Lessons -> -1..HistoryLimit]
  /\ due_index \subseteq Lessons /\ review_day \in 0..LastDay
  /\ fetching \subseteq Lessons /\ lostReviews \subseteq Lessons
  /\ written \in [Lessons -> 0..LastDay]
  /\ \A l \in due_index : lessons[l] # None /\ lessons[l].next_review <= review_day
  /\ \A l \in Lessons \ due_index : lessons[l] # None => lessons[l].next_review > written[l]
  /\ \A l \in Lessons : lessons[l] # None /\ l \notin lostReviews /\ lessons[l].interval > 0 =>
       histories[l] > 0

LEMMA ManagerImplies == ManagerInv => S!ManagerTypeOK /\ S!ListedIsDue
  BY DEF ManagerInv, S!ManagerTypeOK, S!ListedIsDue, S!Due

LEMMA ManagerStarts == S!ManagerInit => ManagerInv BY ManagerLimits DEF S!ManagerInit, ManagerInv

(* SM-2 makes data of data, with a day to come.                            *)
LEMMA Sm2IsData ==
  ASSUME NEW d \in S!Data, NEW passes \in BOOLEAN, review_day \in 0..LastDay
  PROVE  S!Sm2(d, passes) \in S!Data /\ S!Sm2(d, passes).interval > 0
  <1> DEFINE days == IF passes THEN S!Interval(d) ELSE 1
  <1>1. days \in {1, 6, S!Far} /\ S!Far \in Nat /\ S!Far >= 6 /\ S!Far = LastDay + 7
    BY ManagerLimits DEF S!Interval, S!Far
  <1>2. d.repetitions \in 0..2 BY DEF S!Data
  <1> HIDE DEF days
  <1>3. review_day + days \in 0..LastDay + S!Far /\ days > 0 BY ManagerLimits, <1>1
  <1>4. (IF ~passes THEN 0 ELSE IF d.repetitions = 2 THEN 2 ELSE d.repetitions + 1) \in 0..2 BY <1>2
  <1> QED BY <1>1, <1>3, <1>4 DEF S!Sm2, S!Data, days

(* Each step of the manager keeps its index right.                         *)
LEMMA ManagerKeeps == ManagerInv /\ [S!ManagerNext]_(S!manager_vars) => ManagerInv'
  <1> SUFFICES ASSUME ManagerInv, [S!ManagerNext]_(S!manager_vars) PROVE ManagerInv' OBVIOUS
  <1> USE ManagerLimits, ManagerNulls DEF ManagerInv
  (* A lesson is written. *)
  <1>1. ASSUME NEW l \in Lessons, NEW d \in S!Data, lessons' = [lessons EXCEPT ![l] = d],
               due_index' = S!Indexed(due_index, l, d.next_review),
               written' = [written EXCEPT ![l] = review_day],
               histories' \in [Lessons -> -1..HistoryLimit],
               \A x \in Lessons : x # l => histories'[x] = histories[x],
               d.interval > 0 => l \in lostReviews \/ histories'[l] > 0,
               UNCHANGED <<review_day, fetching, lostReviews>>
        PROVE  ManagerInv'
    <2>1. /\ lessons' \in [Lessons -> S!Data \cup {None}] /\ lessons'[l] = d
          /\ \A x \in Lessons : x # l => lessons'[x] = lessons[x] BY <1>1
    <2>2. /\ written' \in [Lessons -> 0..LastDay] /\ written'[l] = review_day
          /\ \A x \in Lessons : x # l => written'[x] = written[x] BY <1>1
    <2>3. d.next_review \in Int BY DEF S!Data, S!Far
    <2>4. /\ due_index' \subseteq Lessons
          /\ l \in due_index' <=> d.next_review <= review_day
          /\ \A x \in Lessons : x # l => (x \in due_index' <=> x \in due_index)
      BY <1>1 DEF S!Indexed
    <2>5. \A x \in due_index' : lessons'[x] # None /\ lessons'[x].next_review <= review_day
      BY <2>1, <2>4
    <2>6. \A x \in Lessons \ due_index' : lessons'[x] # None => lessons'[x].next_review > written'[x]
      BY <2>1, <2>2, <2>3, <2>4
    <2>7. \A x \in Lessons : lessons'[x] # None /\ x \notin lostReviews /\ lessons'[x].interval > 0 =>
            histories'[x] > 0 BY <1>1, <2>1
    <2> QED BY <1>1, <2>1, <2>2, <2>4, <2>5, <2>6, <2>7
  <1>2. ASSUME NEW l \in Lessons, S!AddLesson(l) PROVE ManagerInv'
    <2> DEFINE d == [repetitions |-> 0, interval |-> 0, next_review |-> review_day]
    <2>1. d \in S!Data /\ d.next_review = review_day /\ d.interval = 0 BY DEF S!Data, S!Far
    <2>2. /\ lessons' = [lessons EXCEPT ![l] = d]
          /\ due_index' = S!Indexed(due_index, l, review_day)
          /\ written' = [written EXCEPT ![l] = review_day]
          /\ UNCHANGED <<histories, review_day, fetching, lostReviews>> BY <1>2 DEF S!AddLesson
    <2> HIDE DEF d
    <2>3. ~ (d.interval > 0) /\ due_index' = S!Indexed(due_index, l, d.next_review) BY <2>1, <2>2
    <2>4. histories' \in [Lessons -> -1..HistoryLimit] BY <2>2
    <2> QED BY <1>1, <2>1, <2>2, <2>3, <2>4
  <1>3. ASSUME NEW l \in Lessons, NEW o \in {"pass", "fail", "invalid"}, S!ReviewLesson(l, o)
        PROVE  ManagerInv'
    <2> DEFINE d == S!Reviewed(l, o)
    <2>1. lessons[l] \in S!Data BY <1>3 DEF S!ReviewLesson
    <2>2. d \in S!Data BY <2>1, Sm2IsData DEF S!Reviewed
    <2>3. /\ lessons' = [lessons EXCEPT ![l] = d] /\ lessons'[l] = d
          /\ histories' = [histories EXCEPT ![l] =
               IF @ = HistoryLimit THEN @ ELSE IF @ = -1 THEN 1 ELSE @ + 1]
          /\ due_index' = S!Indexed(due_index, l, lessons'[l].next_review)
          /\ written' = [written EXCEPT ![l] = review_day]
          /\ UNCHANGED <<review_day, fetching, lostReviews>> BY <1>3 DEF S!ReviewLesson
    <2> HIDE DEF d
    <2>4. /\ histories' \in [Lessons -> -1..HistoryLimit] /\ histories'[l] > 0
          /\ \A x \in Lessons : x # l => histories'[x] = histories[x] BY <2>3
    <2> QED BY <1>1, <2>2, <2>3, <2>4
  <1>4. ASSUME NEW l \in Lessons, S!LoadHistory(l) \/ S!LoadFails(l) PROVE ManagerInv'
    BY <1>4 DEF S!LoadHistory, S!LoadFails
  <1>5. ASSUME NEW l \in Lessons, NEW n \in {0, 1}, S!HistoryLoaded(l, n) PROVE ManagerInv'
    BY <1>5 DEF S!HistoryLoaded
  <1>6. CASE S!Restore
    <2>1. \A l \in Lessons : lessons[l] # None => lessons[l].next_review \in Int
      BY DEF S!Data, S!Far
    <2> QED BY <1>6, <2>1 DEF S!Restore
  <1>7. CASE S!ManagerDayPasses
    <2>1. \A l \in Lessons : lessons[l] # None => lessons[l].next_review \in Int
      BY DEF S!Data, S!Far
    <2> QED BY <1>7, <2>1 DEF S!ManagerDayPasses
  <1>8. CASE UNCHANGED S!manager_vars BY <1>8 DEF S!manager_vars
  <1> QED BY <1>2, <1>3, <1>4, <1>5, <1>6, <1>7, <1>8 DEF S!ManagerNext
-----------------------------------------------------------------------------
(***************************************************************************)
(* progress_service.js: HeldIsStored says that a row on its way to a call  *)
(* is the stored one unless a write raced it, which is what makes the      *)
(* cache agree when the call writes the row there.                         *)
(***************************************************************************)
LEMMA ProgressLimits ==
  MaxCount \in Nat \ {0} BY LimitsAssumption
LEMMA ProgressNulls ==
  None \notin Nat BY NoneAssumption

AskKinds == {"none", "get", "all", "due", "init", "save", "delete", "update", "first", "bulk"}
Ask == [kind : AskKinds, at : {"idle", "ask", "hold", "write", "done"},
        row : Rows \cup {None}, val : P!Counts \cup {None}, todo : SUBSET Rows]

ProgressInv ==
  /\ stored \in [Rows -> P!Counts \cup {None}] /\ cache \in [Rows -> P!Counts \cup {None}]
  /\ asks \in [Asks -> Ask]
  /\ raced \in BOOLEAN
  /\ \A a \in Asks :
       /\ asks[a].kind = "first" => asks[a].val = 0
       /\ asks[a].at = "hold" /\ asks[a].kind \in {"get", "update"} => asks[a].row \in Rows
  /\ \A a \in Asks : asks[a].at = "ask" => asks[a].kind \in {"get", "all", "due", "update"}
  /\ \A a \in Asks : asks[a].at \in {"ask", "hold"} /\ asks[a].kind \in {"get", "update"} =>
       asks[a].row \in Rows
  /\ P!CacheAgreesWithoutRace

LEMMA ProgressImplies == ProgressInv => P!TypeOK /\ P!CacheAgreesWithoutRace
  BY DEF ProgressInv, P!TypeOK, Ask

LEMMA ProgressStarts == P!Init => ProgressInv
  <1> SUFFICES ASSUME P!Init PROVE ProgressInv OBVIOUS
  <1>1. P!Idle \in Ask /\ P!Idle.at = "idle" /\ P!Idle.kind = "none" BY DEF P!Idle, Ask, AskKinds
  <1>2. asks \in [Asks -> Ask] /\ \A a \in Asks : asks[a].at = "idle" /\ asks[a].kind = "none"
    BY <1>1 DEF P!Init
  <1>3. /\ stored \in [Rows -> P!Counts \cup {None}] /\ cache \in [Rows -> P!Counts \cup {None}]
        /\ raced \in BOOLEAN /\ \A r \in Rows : cache[r] = None
    <2>1. 0 \in P!Counts BY ProgressLimits DEF P!Counts
    <2>2. stored \in [Rows -> P!Counts \cup {None}] BY <2>1 DEF P!Init
    <2> QED BY <2>2 DEF P!Init, P!NoCache
  <1> QED BY <1>2, <1>3 DEF ProgressInv, P!CacheAgreesWithoutRace

(* Each step of the progress service keeps the cache in agreement.         *)
LEMMA ProgressKeeps == ProgressInv /\ [P!Next]_(P!vars) => ProgressInv'
  <1> SUFFICES ASSUME ProgressInv, [P!Next]_(P!vars) PROVE ProgressInv' OBVIOUS
  <1> USE ProgressLimits, ProgressNulls DEF ProgressInv
  <1>1. P!Idle \in Ask /\ P!Idle.at = "idle" /\ P!Idle.kind = "none" BY DEF P!Idle, Ask, AskKinds
  (* A call goes on with v: the rows of the cache are dropped, kept or       *)
  (* replaced by the row the call held.                                     *)
  <1>2. ASSUME NEW a \in Asks, NEW v \in Ask, P!To(a, v), UNCHANGED stored, raced' \in BOOLEAN,
               v.kind = "first" => v.val = 0,
               v.at = "ask" => v.kind \in {"get", "all", "due", "update"},
               v.at \in {"ask", "hold"} /\ v.kind \in {"get", "update"} => v.row \in Rows,
               cache' \in [Rows -> P!Counts \cup {None}],
               \A r \in Rows : cache'[r] \notin {None, stored[r]} =>
                 raced' \/ (cache'[r] = cache[r] /\ (raced => raced') /\ (asks[a].at = "done" \/ asks[a].kind = "bulk"
                                                     => v.at = "done" \/ v.kind = "bulk"))
        PROVE  ProgressInv'
    <2>1. /\ asks' \in [Asks -> Ask] /\ asks'[a] = v
          /\ \A b \in Asks : b # a => asks'[b] = asks[b] BY <1>2 DEF P!To
    <2>3. P!CacheAgreesWithoutRace'
      <3> SUFFICES ASSUME NEW r \in Rows, cache'[r] \notin {None, stored[r]}, ~ raced'
                   PROVE  \E b \in Asks : asks'[b].at = "done" \/ asks'[b].kind = "bulk"
        BY <1>2 DEF P!CacheAgreesWithoutRace
      <3>1. PICK b \in Asks : asks[b].at = "done" \/ asks[b].kind = "bulk"
        BY <1>2 DEF P!CacheAgreesWithoutRace
      <3> QED BY <1>2, <2>1, <3>1
    <2> QED BY <1>2, <2>1, <2>3
  <1>3. ASSUME NEW a \in Asks, NEW kind \in AskKinds \ {"bulk", "first"}, NEW at \in {"ask", "write"},
               NEW r \in Rows \cup {None}, NEW v \in P!Counts \cup {None}, P!Begin(a, kind, at, r, v),
               at = "ask" => kind \in {"get", "all", "due", "update"},
               kind \in {"get", "update"} => r \in Rows
        PROVE  ProgressInv'
    <2> DEFINE x == [P!Idle EXCEPT !.kind = kind, !.at = at, !.row = r, !.val = v]
    <2> DEFINE y == [P!Idle EXCEPT !.kind = kind, !.at = at]
               z == [y EXCEPT !.row = r]
    <2>1. /\ y \in Ask /\ y.kind = kind /\ y.at = at BY <1>1 DEF Ask
    <2> HIDE DEF y
    <2>4. z \in Ask /\ z.kind = kind /\ z.at = at /\ z.row = r BY <2>1 DEF Ask
    <2>5. x = [z EXCEPT !.val = v] BY Zenon DEF y
    <2> HIDE DEF x, z
    <2>2. x \in Ask /\ x.kind = kind /\ x.at = at /\ x.row = r /\ x.val = v BY <2>4, <2>5 DEF Ask
    <2>3. P!To(a, x) /\ asks[a] = P!Idle /\ UNCHANGED <<stored, cache, raced>>
      BY <1>3 DEF P!Begin, x
    <2> QED BY <1>1, <1>2, <1>3, <2>2, <2>3 DEF P!CacheAgreesWithoutRace
  <1>4. ASSUME NEW a \in Asks, P!Call(a) PROVE ProgressInv'
    <2>1. CASE P!GetAllProgress(a) \/ P!GetDueLessons(a)
      BY <1>3, <2>1 DEF P!GetAllProgress, P!GetDueLessons, AskKinds
    <2>2. ASSUME NEW r \in Rows,
                 P!GetProgress(a, r) \/ P!InitializeProgress(a, r) \/ P!SaveProgress(a, r, MaxCount)
                 \/ P!DeleteProgress(a, r)
          PROVE  ProgressInv'
      <3>1. 0 \in P!Counts /\ MaxCount \in P!Counts BY DEF P!Counts
      <3>2. P!GetProgress(a, r) => P!Begin(a, "get", "ask", r, None) BY DEF P!GetProgress
      <3>3. CASE P!GetProgress(a, r) BY <1>3, <3>2, <3>3 DEF AskKinds
      <3>4. CASE P!InitializeProgress(a, r) BY <1>3, <3>1, <3>4 DEF P!InitializeProgress, AskKinds
      <3>5. CASE P!SaveProgress(a, r, MaxCount) BY <1>3, <3>1, <3>5 DEF P!SaveProgress, AskKinds
      <3>6. CASE P!DeleteProgress(a, r) BY <1>3, <3>6 DEF P!DeleteProgress, AskKinds
      <3> QED BY <2>2, <3>3, <3>4, <3>5, <3>6
    <2>3. ASSUME NEW r \in Rows, P!UpdateProgress(a, r) PROVE ProgressInv'
      <3>1. CASE cache[r] = None BY <1>3, <2>3, <3>1 DEF P!UpdateProgress, AskKinds
      <3>2. CASE cache[r] # None
        <4>1. P!Reviewed(cache[r]) \in P!Counts /\ P!Begin(a, "update", "write", r, P!Reviewed(cache[r]))
          BY <2>3, <3>2 DEF P!UpdateProgress, P!Reviewed, P!Counts
        <4> QED BY <1>3, <4>1 DEF AskKinds
      <3> QED BY <3>1, <3>2
    <2>4. ASSUME P!SaveBulk(a, 0) PROVE ProgressInv'
      <3> DEFINE x == [P!Idle EXCEPT !.kind = "bulk", !.at = "write", !.val = 0, !.todo = Rows]
      <3> DEFINE y == [P!Idle EXCEPT !.kind = "bulk", !.at = "write"]
                 z == [y EXCEPT !.val = 0]
      <3>1. y \in Ask /\ y.kind = "bulk" /\ y.at = "write" BY <1>1 DEF Ask, AskKinds
      <3> HIDE DEF y
      <3>2. z \in Ask /\ z.kind = "bulk" /\ z.at = "write" BY <3>1 DEF Ask, P!Counts
      <3>3. x = [z EXCEPT !.todo = Rows] BY Zenon DEF y
      <3> HIDE DEF x, z
      <3>4. x \in Ask /\ x.kind = "bulk" /\ x.at = "write" BY <3>2, <3>3 DEF Ask
      <3>5. P!To(a, x) /\ asks[a] = P!Idle /\ UNCHANGED <<stored, cache, raced>>
        BY <2>4 DEF P!SaveBulk, x
      <3> QED BY <1>1, <1>2, <3>4, <3>5 DEF P!CacheAgreesWithoutRace
    <2> QED BY <1>4, <2>1, <2>2, <2>3, <2>4 DEF P!Call
  <1>5. ASSUME NEW a \in Asks
        PROVE  /\ asks[a] \in Ask /\ asks[a].val \in P!Counts \cup {None}
               /\ asks[a].row \in Rows \cup {None} /\ asks[a].kind \in AskKinds
               /\ asks[a].todo \in SUBSET Rows BY DEF Ask
  (* The call ends. *)
  <1>6. ASSUME NEW a \in Asks, P!To(a, P!Idle), UNCHANGED stored,
               \/ P!EmptyCache
               \/ UNCHANGED <<cache, raced>> /\ asks[a].at # "done" /\ asks[a].kind # "bulk"
        PROVE  ProgressInv'
    <2>1. CASE P!EmptyCache
      <3>1. /\ cache' \in [Rows -> P!Counts \cup {None}] /\ raced' \in BOOLEAN
            /\ \A r \in Rows : cache'[r] = None BY <2>1 DEF P!EmptyCache, P!NoCache
      <3> QED BY <1>1, <1>2, <1>6, <3>1
    <2>2. CASE UNCHANGED <<cache, raced>> /\ asks[a].at # "done" /\ asks[a].kind # "bulk"
      BY <1>1, <1>2, <1>6, <2>2
    <2> QED BY <1>6, <2>1, <2>2
  <1>7. ASSUME NEW a \in Asks, P!RepositoryReads(a) PROVE ProgressInv'
    <2> DEFINE val == IF asks[a].val = None /\ asks[a].row # None THEN stored[asks[a].row] ELSE None
               v == [asks[a] EXCEPT !.at = "hold", !.val = val]
    <2>1. val \in P!Counts \cup {None} /\ (asks[a].row \in Rows /\ val # None => val = stored[asks[a].row])
      BY <1>5
    <2>2. P!To(a, v) /\ asks[a].at = "ask" /\ UNCHANGED <<stored, cache, raced>>
      BY <1>7 DEF P!RepositoryReads
    <2> HIDE DEF val
    <2>3. /\ v \in Ask /\ v.at = "hold" /\ v.val = val /\ v.row = asks[a].row
          /\ v.kind = asks[a].kind BY <1>5, <2>1 DEF Ask
    <2> HIDE DEF v
    <2>4. v.kind # "first" /\ asks[a].at # "done" /\ asks[a].kind # "bulk" BY <2>2, <2>3
    <2> QED BY <1>2, <2>1, <2>2, <2>3, <2>4 DEF P!CacheAgreesWithoutRace
  <1>8. ASSUME NEW a \in Asks, P!Listed(a) PROVE ProgressInv' BY <1>6, <1>8 DEF P!Listed, P!Wants
  <1>9. ASSUME NEW a \in Asks, P!Found(a) PROVE ProgressInv'
    <2> DEFINE r == asks[a].row
               v == [asks[a] EXCEPT !.at = "write", !.val = P!Reviewed(asks[a].val)]
    <2>1. /\ asks[a].at = "hold" /\ asks[a].kind \in {"get", "update"} /\ asks[a].val # None
          /\ r \in Rows /\ asks[a].val \in P!Counts
          /\ cache' = [cache EXCEPT ![r] = asks[a].val] /\ UNCHANGED stored
          /\ raced' = (raced \/ asks[a].val # stored[r]) BY <1>5, <1>9 DEF P!Found, P!Wants
    <2>2. /\ cache' \in [Rows -> P!Counts \cup {None}]
          /\ \A x \in Rows : cache'[x] = IF x = r THEN asks[a].val ELSE cache[x] BY <2>1
    <2>3. CASE P!To(a, P!Idle) BY <1>1, <1>2, <2>1, <2>2, <2>3 DEF P!CacheAgreesWithoutRace
    <2>4. CASE P!To(a, v) /\ asks[a].val < MaxCount
      <3>1. P!Reviewed(asks[a].val) \in P!Counts BY <2>1, <2>4 DEF P!Reviewed, P!Counts
      <3>2. v \in Ask /\ v.at = "write" /\ v.kind = asks[a].kind BY <1>5, <3>1 DEF Ask
      <3> HIDE DEF v
      <3> QED BY <1>2, <2>1, <2>2, <2>4, <3>2 DEF P!CacheAgreesWithoutRace
    <2> QED BY <1>9, <2>3, <2>4 DEF P!Found
  <1>10. ASSUME NEW a \in Asks, P!NotFound(a) PROVE ProgressInv'
    <2> DEFINE v == [asks[a] EXCEPT !.kind = "first", !.at = "write", !.val = 0]
    <2>1. /\ asks[a].at = "hold" /\ asks[a].kind \in {"get", "update"}
          /\ UNCHANGED <<stored, cache, raced>> BY <1>10 DEF P!NotFound, P!Wants
    <2>2. CASE P!To(a, P!Idle) BY <1>6, <2>1, <2>2
    <2>3. CASE P!To(a, v)
      <3> DEFINE w == [asks[a] EXCEPT !.kind = "first", !.at = "write"]
      <3>1. w \in Ask /\ w.at = "write" /\ w.kind = "first" BY <1>5 DEF Ask, AskKinds
      <3>2. v = [w EXCEPT !.val = 0] BY Zenon
      <3> HIDE DEF v, w
      <3>3. v \in Ask /\ v.at = "write" /\ v.kind = "first" /\ v.val = 0
        BY <3>1, <3>2 DEF Ask, P!Counts
      <3> QED BY <1>2, <2>1, <2>3, <3>3 DEF P!CacheAgreesWithoutRace
    <2> QED BY <1>10, <2>2, <2>3 DEF P!NotFound
  <1>11. ASSUME NEW a \in Asks, P!RepositoryWrites(a) PROVE ProgressInv'
    <2> DEFINE v == [asks[a] EXCEPT !.at = "done"]
    <2>1. v \in Ask /\ v.at = "done" /\ v.kind = asks[a].kind /\ v.val = asks[a].val BY <1>5 DEF Ask
    <2>2. /\ asks' = [asks EXCEPT ![a] = v] /\ cache' = cache
          /\ stored' = [r \in Rows |-> IF r \in P!Writes(a) THEN asks[a].val ELSE stored[r]]
          /\ raced' = raced /\ asks[a].at = "write" BY <1>11 DEF P!RepositoryWrites, P!To
    <2> HIDE DEF v
    <2>3. /\ asks' \in [Asks -> Ask] /\ asks'[a] = v
          /\ \A b \in Asks : b # a => asks'[b] = asks[b] BY <2>1, <2>2
    <2>5. P!CacheAgreesWithoutRace' BY <2>1, <2>3 DEF P!CacheAgreesWithoutRace
    <2>6. stored' \in [Rows -> P!Counts \cup {None}] /\ raced' \in BOOLEAN BY <1>5, <2>2
    <2> QED BY <2>1, <2>2, <2>3, <2>5, <2>6
  <1>12. ASSUME NEW a \in Asks, P!Written(a) PROVE ProgressInv'
    <2> DEFINE v == [asks[a] EXCEPT !.kind = "update", !.at = "write", !.val = P!Reviewed(0)]
    <2>1. CASE P!To(a, P!Idle) BY <1>6, <1>12, <2>1 DEF P!Written
    <2>2. CASE P!To(a, v)
      <3> DEFINE w == [asks[a] EXCEPT !.kind = "update", !.at = "write"]
      <3>1. w \in Ask /\ w.at = "write" /\ w.kind = "update" BY <1>5 DEF Ask, AskKinds
      <3>2. v = [w EXCEPT !.val = P!Reviewed(0)] BY Zenon
      <3>3. P!Reviewed(0) \in P!Counts BY DEF P!Reviewed, P!Counts
      <3> HIDE DEF v, w
      <3>4. v \in Ask /\ v.at = "write" /\ v.kind = "update" BY <3>1, <3>2, <3>3 DEF Ask
      <3>5. cache' = P!NoCache /\ raced' = FALSE /\ UNCHANGED stored
        BY <1>12 DEF P!Written, P!EmptyCache
      <3> QED BY <1>2, <2>2, <3>4, <3>5 DEF P!NoCache
    <2> QED BY <1>12, <2>1, <2>2 DEF P!Written
  (* A bulk goes on with its next batch. *)
  <1>13. ASSUME NEW a \in Asks, NEW rest \in SUBSET Rows, P!NextBatch(a, rest),
                asks[a].kind = "bulk", UNCHANGED stored
         PROVE  ProgressInv'
    <2> DEFINE v == [asks[a] EXCEPT !.at = "write", !.todo = rest]
    <2>1. CASE P!To(a, P!Idle) /\ P!EmptyCache BY <1>6, <1>13, <2>1
    <2>2. CASE P!To(a, v) /\ UNCHANGED <<cache, raced>>
      <3>1. v \in Ask /\ v.at = "write" /\ v.kind = "bulk" BY <1>5, <1>13 DEF Ask
      <3> HIDE DEF v
      <3> QED BY <1>2, <1>13, <2>2, <3>1 DEF P!CacheAgreesWithoutRace
    <2> QED BY <1>13, <2>1, <2>2 DEF P!NextBatch
  <1>14. ASSUME NEW a \in Asks, P!BatchWritten(a) PROVE ProgressInv'
    <2>1. asks[a].todo \ P!Writes(a) \in SUBSET Rows BY <1>5
    <2> QED BY <1>13, <1>14, <2>1 DEF P!BatchWritten, P!Wants
  <1>15. ASSUME NEW a \in Asks, P!GivenUp(a) PROVE ProgressInv'
    <2>1. asks[a].todo \ P!Writes(a) \in SUBSET Rows BY <1>5
    <2> QED BY <1>6, <1>13, <1>15, <2>1 DEF P!GivenUp
  <1>16. ASSUME NEW r \in Rows, P!Expire(r) PROVE ProgressInv'
    BY <1>16 DEF P!Expire, P!CacheAgreesWithoutRace
  <1>17. CASE P!ClearCache
    BY <1>17 DEF P!ClearCache, P!EmptyCache, P!NoCache, P!CacheAgreesWithoutRace
  <1>18. CASE UNCHANGED P!vars BY <1>18 DEF P!vars, P!CacheAgreesWithoutRace
  <1> QED BY <1>4, <1>7, <1>8, <1>9, <1>10, <1>11, <1>12, <1>14, <1>15, <1>16, <1>17, <1>18
    DEF P!Next, P!Proceed
-----------------------------------------------------------------------------
(***************************************************************************)
(* review_service.js: a count that is under way has read the stored row,   *)
(* or is known as stale.                                                   *)
(***************************************************************************)
LEMMA ReviewLimits ==
  MaxVersion \in Nat BY LimitsAssumption
LEMMA ReviewNulls ==
  None \notin Services BY NoneAssumption

ReviewCall == [op : {"none", "submit", "reset", "emit", "count", "stats"},
               by : Services \cup {None}, seen : 0..MaxVersion]

ReviewInv ==
  /\ R!TypeOK
  /\ stale \in BOOLEAN
  /\ review \in [Reviews -> ReviewCall]
  /\ R!StatsAgree

LEMMA ReviewStarts == R!Init => ReviewInv
  <1> SUFFICES ASSUME R!Init PROVE ReviewInv OBVIOUS
  <1> USE ReviewLimits DEF R!Init
  <1>1. R!NoReview \in ReviewCall /\ R!NoReview.op = "none" BY DEF R!NoReview, ReviewCall
  <1>2. review \in [Reviews -> ReviewCall] /\ \A r \in Reviews : review[r].op = "none"
    <2> HIDE DEF R!NoReview, ReviewCall
    <2> QED BY <1>1
  <1>3. R!TypeOK /\ stale \in BOOLEAN
    <2>1. /\ version = 0 /\ counted = None /\ alive = {} /\ listener = None
          /\ emptying = {} /\ stale = FALSE
      OBVIOUS
    <2>2. 0 \in 0..MaxVersion OBVIOUS
    <2> QED BY <2>1, <2>2 DEF R!TypeOK
  <1>4. R!StatsAgree BY DEF R!StatsAgree
  <1> QED BY <1>2, <1>3, <1>4 DEF ReviewInv

(* Each step of the review service keeps the statistics in agreement.      *)
LEMMA ReviewKeeps == ReviewInv /\ [R!Next]_(R!vars) => ReviewInv'
  <1> SUFFICES ASSUME ReviewInv, [R!Next]_(R!vars) PROVE ReviewInv' OBVIOUS
  <1> USE ReviewLimits, ReviewNulls DEF ReviewInv, R!TypeOK
  (* A call goes on with v and nothing else changes. *)
  <1>1. ASSUME NEW r \in Reviews, NEW v \in ReviewCall, R!Set(r, v),
               review[r].op # "emit",
               UNCHANGED <<version, counted, alive, listener, emptying, stale>>
        PROVE  ReviewInv'
    <2>1. /\ review' \in [Reviews -> ReviewCall] /\ review'[r] = v
          /\ \A q \in Reviews : q # r => review'[q] = review[q] BY <1>1 DEF R!Set
    <2>2. R!StatsAgree' BY <1>1, <2>1 DEF R!StatsAgree
    <2> QED BY <1>1, <2>1, <2>2
  <1>2. R!NoReview \in ReviewCall /\ R!NoReview.op = "none" BY DEF R!NoReview, ReviewCall
  <1>3. ASSUME NEW s \in Services, R!Create(s) PROVE ReviewInv' BY <1>3 DEF R!Create, R!StatsAgree
  <1>4. ASSUME NEW s \in Services, R!Destroy(s) PROVE ReviewInv' BY <1>4 DEF R!Destroy, R!StatsAgree
  <1>5. ASSUME NEW r \in Reviews, NEW s \in Services,
               R!SubmitReview(r, s) \/ R!ResetReview(r, s) \/ R!GetReviewStats(r, s)
        PROVE  ReviewInv'
    <2> DEFINE v(op, seen) == [op |-> op, by |-> s, seen |-> seen]
    <2>1. \A seen \in 0..MaxVersion : /\ v("submit", seen) \in ReviewCall
                                      /\ v("reset", seen) \in ReviewCall
                                      /\ v("count", seen) \in ReviewCall BY DEF ReviewCall
    <2>2. review[r] = R!NoReview /\ UNCHANGED <<version, counted, alive, listener, emptying, stale>>
      BY <1>5 DEF R!SubmitReview, R!ResetReview, R!GetReviewStats
    <2>3. \E op \in {"submit", "reset", "count"}, seen \in 0..MaxVersion : R!Set(r, v(op, seen))
      BY <1>5 DEF R!SubmitReview, R!ResetReview, R!GetReviewStats
    <2>4. \A op \in {"submit", "reset", "count"}, seen \in 0..MaxVersion : v(op, seen).op = op
      OBVIOUS
    <2> HIDE DEF v
    <2> QED BY <1>1, <1>2, <2>1, <2>2, <2>3, <2>4
  <1>6. ASSUME NEW r \in Reviews, R!Stored(r) PROVE ReviewInv'
    <2> DEFINE v == [review[r] EXCEPT !.op = "emit"]
    <2>1. v \in ReviewCall /\ v.op = "emit" BY DEF ReviewCall
    <2>2. /\ review[r].op \in {"submit", "reset"} /\ version < MaxVersion /\ version' = version + 1
          /\ review' = [review EXCEPT ![r] = v]
          /\ UNCHANGED <<counted, alive, listener, emptying, stale>> BY <1>6 DEF R!Stored, R!Set
    <2> HIDE DEF v
    <2>3. /\ review' \in [Reviews -> ReviewCall] /\ review'[r] = v
          /\ \A q \in Reviews : q # r => review'[q] = review[q] BY <2>1, <2>2
    <2>4. R!StatsAgree' BY <2>1, <2>3 DEF R!StatsAgree
    <2>6. R!TypeOK' BY <2>2
    <2> QED BY <2>2, <2>3, <2>4, <2>6
  <1>7. ASSUME NEW r \in Reviews, R!Refused(r) PROVE ReviewInv' BY <1>1, <1>2, <1>7 DEF R!Refused
  <1>8. ASSUME NEW r \in Reviews, R!Emitted(r) PROVE ReviewInv'
    <2>1. /\ review' = [review EXCEPT ![r] = R!NoReview]
          /\ emptying' = IF listener = None THEN emptying ELSE {0}
          /\ stale' = (stale \/ (listener = None /\ R!Old(counted)))
          /\ UNCHANGED <<version, counted, alive, listener>> BY <1>8 DEF R!Emitted, R!Set
    <2>2. /\ review' \in [Reviews -> ReviewCall] /\ review'[r] = R!NoReview
          /\ \A q \in Reviews : q # r => review'[q] = review[q] BY <1>2, <2>1
    <2>3. R!StatsAgree' BY <2>1 DEF R!StatsAgree, R!Old
    <2>4. R!TypeOK' BY <2>1 DEF R!Tries
    <2> QED BY <1>2, <2>1, <2>2, <2>3, <2>4
  <1>9. CASE R!Emptied BY <1>9 DEF R!Emptied, R!StatsAgree
  <1>10. CASE R!EmptyingFails
    <2>1. PICK n \in emptying : /\ emptying' = IF n + 1 < R!Tries THEN {n + 1} ELSE {}
                               /\ stale' = (stale \/ (n + 1 = R!Tries /\ R!Old(counted)))
      BY <1>10 DEF R!EmptyingFails
    <2>2. n \in 0..1 /\ UNCHANGED <<version, counted, alive, listener, review>>
      BY <1>10 DEF R!EmptyingFails, R!Tries
    <2>3. R!TypeOK' BY <2>1, <2>2 DEF R!Tries
    <2>4. stale' \in BOOLEAN /\ (stale => stale') BY <2>1
    <2>6. n + 1 < R!Tries \/ n + 1 = R!Tries BY <2>2 DEF R!Tries
    <2>7. n + 1 < R!Tries => emptying' = {n + 1} BY <2>1
    <2>8. emptying' # {} \/ stale' \/ ~R!Old(counted) BY <2>1, <2>6, <2>7
    <2>5. R!StatsAgree' BY <2>2, <2>4, <2>8 DEF R!StatsAgree, R!Old
    <2> QED BY <2>2, <2>3, <2>4, <2>5
  <1>11. ASSUME NEW r \in Reviews, R!RowsRead(r) PROVE ReviewInv'
    <2> DEFINE v == [review[r] EXCEPT !.op = "stats", !.seen = version]
    <2>1. v \in ReviewCall /\ v.op = "stats" /\ v.seen = version BY DEF ReviewCall
    <2>2. /\ review[r].op = "count" /\ R!Set(r, v)
          /\ UNCHANGED <<version, counted, alive, listener, emptying, stale>>
      BY <1>11 DEF R!RowsRead
    <2> HIDE DEF v
    <2> QED BY <1>1, <2>1, <2>2
  <1>12. ASSUME NEW r \in Reviews, R!StatsCounted(r) PROVE ReviewInv'
    <2>1. /\ review' \in [Reviews -> ReviewCall] /\ review'[r] = R!NoReview
          /\ \A q \in Reviews : q # r => review'[q] = review[q]
          /\ review[r].op = "stats" /\ UNCHANGED <<version, alive, listener, emptying>>
          /\ \/ counted' = review[r].seen /\ stale' = R!Old(review[r].seen)
             \/ UNCHANGED <<counted, stale>> BY <1>2, <1>12 DEF R!StatsCounted, R!Set
    <2>2. review[r].seen \in 0..MaxVersion BY DEF ReviewCall
    <2>3. R!StatsAgree'
      <3>1. CASE counted' = review[r].seen /\ stale' = R!Old(review[r].seen)
        BY <2>1, <3>1 DEF R!StatsAgree, R!Old
      <3>2. CASE UNCHANGED <<counted, stale>> BY <2>1, <3>2 DEF R!StatsAgree
      <3> QED BY <2>1, <3>1, <3>2
    <2>4. R!TypeOK' BY <2>1, <2>2
    <2>5. stale' \in BOOLEAN BY <2>1 DEF R!Old
    <2> QED BY <2>1, <2>3, <2>4, <2>5
  <1>13. CASE R!StatsExpire BY <1>13 DEF R!StatsExpire, R!StatsAgree
  <1>14. CASE UNCHANGED R!vars BY <1>14 DEF R!vars, R!StatsAgree
  <1> QED BY <1>3, <1>4, <1>5, <1>6, <1>7, <1>8, <1>9, <1>10, <1>11, <1>12, <1>13, <1>14 DEF R!Next
-----------------------------------------------------------------------------
(***************************************************************************)
(* progress-manager.js: no reward is paid twice, for any number of calls,  *)
(* objects and days. A row is only right if the call that changes it       *)
(* holds an object that is still there: References says so, and is why     *)
(* the property alone is not inductive.                                    *)
(***************************************************************************)
Fair(p) == /\ p.rewards = IF p.achievement = "unlocked" THEN 1 ELSE 0
           /\ p.streak <= p.longest /\ p.longest <= MaxStreak
Good(p) == p = None \/ (p \in RewardRow /\ Fair(p))

(* None is data of no kind, and the bound of the streaks is a number. *)
NoneIsNothing == None \notin Objects /\ None \notin RewardRow /\ MaxStreak \in Nat

Holding == {"again", "update", "goal", "achievements", "save"}
Moments == {"idle", "load", "create", "loaded"} \cup Holding
Tracks == [op : {"none", "read", "lesson", "exercise"}, at : Moments,
           obj : Objects \cup {None}, row : RewardRow \cup {None}]
Streaks == [current : Nat, longest : Nat]

RewardRows ==
           /\ today \in Nat
           /\ object \in [Objects -> RewardRow \cup {None}]
           /\ \A o \in Objects : Good(object[o])
           /\ Good(saved)
           /\ streaks = None \/ (streaks \in Streaks /\ streaks.current <= streaks.longest)
References ==
  /\ track \in [Trackers -> Tracks]
  /\ progressCache \in Objects \cup {None}
  /\ progressCache # None => object[progressCache] # None
  /\ \A t \in Trackers :
       /\ track[t].at \in Holding => track[t].obj # None
       /\ track[t].obj # None => object[track[t].obj] # None
       /\ track[t].at = "loaded" => track[t].row \in RewardRow /\ Fair(track[t].row)
RewardsInv == RewardRows /\ References

-----------------------------------------------------------------------------
(* A check of the achievements keeps a row fair. *)
LEMMA CheckKeeps ==
  ASSUME NEW p \in RewardRow, Fair(p)
  PROVE  M!Check(p) \in RewardRow /\ Fair(M!Check(p))
<1>1. CASE p.achievement # "absent" BY <1>1 DEF M!Check
<1>2. CASE p.achievement = "absent" /\ p.lessons >= 1
  <2>1. p.rewards = 0 BY <1>2, Zenon DEF Fair
  <2> DEFINE q == [p EXCEPT !.achievement = "unlocked", !.rewards = @ + 1]
  <2>2. M!Check(p) = q BY <1>2, Zenon DEF M!Check
  <2>3. q \in RewardRow
    <3>1. p.rewards + 1 \in Nat BY <2>1
    <3> DEFINE q1 == [p EXCEPT !.achievement = "unlocked"]
    <3>0. q1 \in RewardRow /\ q1.rewards = p.rewards BY DEF RewardRow
    <3>2. q = [q1 EXCEPT !.rewards = q1.rewards + 1] BY Zenon
    <3> HIDE DEF q, q1
    <3> QED BY <3>0, <3>1, <3>2 DEF RewardRow
  <2>4. q.achievement = "unlocked" /\ q.rewards = 1 BY <2>1 DEF RewardRow
  <2>5. q.streak = p.streak /\ q.longest = p.longest BY DEF RewardRow
  <2> QED BY <2>2, <2>3, <2>4, <2>5, Zenon DEF Fair
<1>3. CASE p.achievement = "absent" /\ ~(p.lessons >= 1) BY <1>3 DEF M!Check, RewardRow, Fair
<1> QED BY <1>1, <1>2, <1>3

(* A streak that is updated is never beyond its longest. *)
LEMMA StreakKeeps ==
  ASSUME RewardRows, NEW last
  PROVE  /\ M!UpdateStreak(last) \in Streaks
         /\ M!UpdateStreak(last).current <= M!UpdateStreak(last).longest
<1>1. M!Known \in Streaks BY DEF RewardRows, M!Known, Streaks
<1> DEFINE n == IF last = None THEN 1
                ELSE IF last = today THEN M!Known.current
                ELSE IF last + 1 = today THEN M!Known.current + 1 ELSE 1
           m == IF n > M!Known.longest THEN n ELSE M!Known.longest
<1>2. M!Known.current \in Nat /\ M!Known.longest \in Nat BY <1>1 DEF Streaks
<1>3. n \in Nat BY <1>2
<1>4. M!UpdateStreak(last) = [current |-> n, longest |-> m] BY DEF M!UpdateStreak
<1> HIDE DEF n
<1>5. m \in Nat /\ n <= m BY <1>2, <1>3
<1> HIDE DEF m
<1> QED BY <1>3, <1>4, <1>5 DEF Streaks

(* An exercise writes the streak and the day. *)
LEMMA DayIsKept ==
  ASSUME NEW p \in RewardRow, Fair(p), NEW u \in Streaks, u.current <= u.longest,
         u.longest <= MaxStreak, NEW d \in Nat
  PROVE  LET row == [p EXCEPT !.streak = u.current, !.longest = u.longest, !.last = d]
         IN row \in RewardRow /\ Fair(row)
<1> DEFINE row == [p EXCEPT !.streak = u.current, !.longest = u.longest, !.last = d]
           row1 == [p EXCEPT !.streak = u.current]
           row2 == [row1 EXCEPT !.longest = u.longest]
<1>1. u.current \in Nat /\ u.longest \in Nat BY DEF Streaks
<1>2. /\ row1 \in RewardRow /\ row1.streak = u.current
      /\ row1.rewards = p.rewards /\ row1.achievement = p.achievement BY <1>1 DEF RewardRow
<1> HIDE DEF row1
<1>3. /\ row2 \in RewardRow /\ row2.streak = u.current /\ row2.longest = u.longest
      /\ row2.rewards = p.rewards /\ row2.achievement = p.achievement BY <1>1, <1>2 DEF RewardRow
<1>4. row = [row2 EXCEPT !.last = d] BY Zenon DEF row1
<1> HIDE DEF row, row2
<1>5. /\ row \in RewardRow /\ row.streak = u.current /\ row.longest = u.longest
      /\ row.rewards = p.rewards /\ row.achievement = p.achievement BY <1>3, <1>4 DEF RewardRow
<1>6. Fair(row) BY <1>5 DEF Fair
<1> QED BY <1>5, <1>6 DEF row

(* What is still referred to is kept, the rest becomes None. *)
Keeps(K, f) ==
  /\ K \in [Objects -> RewardRow \cup {None}]
  /\ \A o \in Objects : Good(K[o])
  /\ \A o \in Objects : o = progressCache' => K[o] = f[o]
  /\ \A o \in Objects, t \in Trackers : track'[t].obj = o => K[o] = f[o]

(* The objects that go leave the others as they are.                       *)
LEMMA KeptKeeps ==
  ASSUME NEW f \in [Objects -> RewardRow \cup {None}], \A o \in Objects : Good(f[o])
  PROVE  Keeps(M!Kept(f), f)
BY DEF M!Kept, Keeps, Good

LEMMA RewardsStart == ASSUME NoneIsNothing, M!Init PROVE RewardsInv
BY DEF NoneIsNothing, M!Init, RewardsInv, RewardRows, References, M!NoTrack, Good, Moments, Holding, Tracks

(* A call that goes on keeps its operation and has what it is given.       *)
Moved(x, at, o) == [x EXCEPT !.at = at, !.obj = o, !.row = None]
Given(x, at, row) == [x EXCEPT !.at = at, !.row = row]
LEMMA TrackChanges ==
  ASSUME NEW x \in Tracks, NEW at \in Moments, NEW o \in Objects \cup {None}
  PROVE  Moved(x, at, o) \in Tracks /\ Moved(x, at, o).at = at /\ Moved(x, at, o).obj = o
  <1> DEFINE u == [x EXCEPT !.at = at]
             v == [u EXCEPT !.obj = o]
  <1>1. u \in Tracks /\ u.at = at /\ u.obj = x.obj BY DEF Tracks
  <1>2. Moved(x, at, o) = [v EXCEPT !.row = None] BY Zenon DEF Moved
  <1> HIDE DEF u
  <1>3. v \in Tracks /\ v.at = at /\ v.obj = o BY <1>1 DEF Tracks
  <1> HIDE DEF v
  <1> QED BY <1>2, <1>3 DEF Tracks

LEMMA RowIsGiven ==
  ASSUME NEW x \in Tracks, NEW at \in Moments, NEW row \in RewardRow \cup {None}
  PROVE  /\ Given(x, at, row) \in Tracks /\ Given(x, at, row).at = at
         /\ Given(x, at, row).obj = x.obj /\ Given(x, at, row).row = row
  <1> DEFINE u == [x EXCEPT !.at = at]
  <1>1. u \in Tracks /\ u.at = at /\ u.obj = x.obj BY DEF Tracks
  <1>2. Given(x, at, row) = [u EXCEPT !.row = row] BY Zenon DEF Given
  <1> HIDE DEF u
  <1> QED BY <1>1, <1>2 DEF Tracks

(* Each step keeps the rows right and what the calls hold in place. *)
LEMMA RewardsKeeps ==
  ASSUME NoneIsNothing, RewardsInv, [M!Next]_(M!vars)
  PROVE  RewardsInv'
<1> USE DEF RewardsInv, Moments, Holding
<1> SUFFICES ASSUME M!Next PROVE RewardsInv' BY DEF M!vars, RewardRows, References, Good, Fair
(* The call becomes v and no row changes. *)
<1>14. ASSUME NEW t \in Trackers, NEW v \in Tracks, track' = [track EXCEPT ![t] = v],
              UNCHANGED <<today, object, progressCache, streaks>>, Good(saved'),
              v.at \in Holding => v.obj # None, v.obj # None => object[v.obj] # None,
              v.at = "loaded" => v.row \in RewardRow /\ Fair(v.row)
       PROVE  RewardsInv'
  <2>1. /\ track' \in [Trackers -> Tracks] /\ track'[t] = v
        /\ \A u \in Trackers : u # t => track'[u] = track[u] BY <1>14 DEF References
  <2>2. RewardRows' BY <1>14 DEF RewardRows, Good, Fair
  <2>3. References' BY <1>14, <2>1 DEF References
  <2> QED BY <2>2, <2>3
<1>15. M!NoTrack \in Tracks /\ M!NoTrack.obj = None /\ M!NoTrack.at = "idle" BY DEF M!NoTrack, Tracks
<1>16. \A t \in Trackers : track[t] \in Tracks BY DEF References
<1>17. M!NewProgress \in RewardRow /\ Fair(M!NewProgress) /\ M!NewProgress # None
  BY DEF M!NewProgress, RewardRow, Fair, NoneIsNothing
<1>18. None \in RewardRow \cup {None} OBVIOUS
<1>1. ASSUME NEW t \in Trackers, NEW op \in {"read", "lesson", "exercise"}, M!Track(t, op)
      PROVE RewardsInv'
  <2> DEFINE at == IF progressCache = None THEN "load" ELSE M!AfterLoad(op)
             v == [op |-> op, at |-> at, obj |-> progressCache, row |-> None]
  <2>1. track' = [track EXCEPT ![t] = v] /\ UNCHANGED <<today, object, progressCache, saved, streaks>>
    BY <1>1 DEF M!Track
  <2>2. at \in Moments /\ (at \in Holding => progressCache # None) /\ at # "loaded"
    BY DEF M!AfterLoad
  <2> HIDE DEF at
  <2>4. progressCache \in Objects \cup {None} BY DEF References
  <2>5. v \in Tracks /\ v.at = at /\ v.obj = progressCache BY <1>18, <2>2, <2>4 DEF Tracks
  <2>6. progressCache # None => object[progressCache] # None BY DEF References
  <2>7. Good(saved') BY <2>1 DEF RewardRows, Good, Fair
  <2> HIDE DEF v
  <2> QED BY <1>14, <2>1, <2>2, <2>5, <2>6, <2>7
<1>19. ASSUME NEW t \in Trackers, M!RowRead(t) PROVE RewardsInv'
  <2> DEFINE at == IF saved = None THEN "create" ELSE "loaded"
             v == Given(track[t], at, saved)
  <2>1. track' = [track EXCEPT ![t] = v] /\ UNCHANGED <<today, object, progressCache, saved, streaks>>
    BY <1>19, Zenon DEF M!RowRead, Given
  <2>2. saved \in RewardRow \cup {None} /\ Good(saved) BY DEF RewardRows, Good
  <2>3. at \in Moments /\ at \notin Holding /\ (at = "loaded" => saved # None) OBVIOUS
  <2> HIDE DEF at
  <2>4. v \in Tracks /\ v.at = at /\ v.obj = track[t].obj /\ v.row = saved
    <3>1. track[t] \in Tracks /\ at \in Moments /\ saved \in RewardRow \cup {None} BY <1>16, <2>2, <2>3
    <3> HIDE DEF Moments, Holding
    <3> QED BY <3>1, RowIsGiven
  <2>5. track[t].obj # None => object[track[t].obj] # None BY DEF References
  <2>6. at = "loaded" => saved \in RewardRow /\ Fair(saved) BY <2>2, <2>3 DEF Good
  <2>7. Good(saved') BY <2>1, <2>2 DEF Good, Fair
  <2> HIDE DEF v
  <2> QED BY <1>14, <2>1, <2>3, <2>4, <2>5, <2>6, <2>7
<1>20. ASSUME NEW t \in Trackers, M!RowCreated(t) PROVE RewardsInv'
  <2> DEFINE v == Given(track[t], "loaded", M!NewProgress)
  <2>1. /\ track' = [track EXCEPT ![t] = v] /\ saved' = M!NewProgress
        /\ UNCHANGED <<today, object, progressCache, streaks>>
    BY <1>20, Zenon DEF M!RowCreated, Given
  <2>2. v \in Tracks /\ v.at = "loaded" /\ v.obj = track[t].obj /\ v.row = M!NewProgress
    <3>1. track[t] \in Tracks /\ "loaded" \in Moments /\ M!NewProgress \in RewardRow \cup {None}
      BY <1>16, <1>17
    <3> HIDE DEF Moments, Holding
    <3> QED BY <3>1, RowIsGiven
  <2>3. track[t].obj # None => object[track[t].obj] # None BY DEF References
  <2>4. Good(saved') BY <1>17, <2>1 DEF Good
  <2> HIDE DEF v
  <2> QED BY <1>14, <1>17, <2>1, <2>2, <2>3, <2>4
<1>21. ASSUME NEW t \in Trackers, M!LookedAgain(t) PROVE RewardsInv'
  <2> DEFINE at == IF progressCache = None THEN "load" ELSE "update"
             v == Moved(track[t], at, track[t].obj)
  <2>1. track' = [track EXCEPT ![t] = v] /\ UNCHANGED <<today, object, progressCache, saved, streaks>>
        /\ track[t].at = "again" BY <1>21, Zenon DEF M!LookedAgain, M!Set, Moved
  <2>2. track[t].obj \in Objects /\ object[track[t].obj] # None
    BY <1>16, <2>1 DEF References, Tracks
  <2>3. v \in Tracks /\ v.at = at /\ v.obj = track[t].obj
    <3>1. track[t] \in Tracks /\ at \in Moments /\ track[t].obj \in Objects \cup {None}
      BY <1>16, <2>2
    <3> HIDE DEF Moments, Holding
    <3> QED BY <3>1, TrackChanges
  <2>4. Good(saved') BY <2>1 DEF RewardRows, Good, Fair
  <2>5. at # "loaded" /\ v.obj # None BY <2>2, <2>3 DEF NoneIsNothing
  <2> HIDE DEF v, at
  <2> QED BY <1>14, <2>1, <2>2, <2>3, <2>4, <2>5
<1>2. ASSUME NEW t \in Trackers, M!Loaded(t) PROVE RewardsInv'
  <2> DEFINE o == CHOOSE x \in M!Free : TRUE
             row == track[t].row
             f == [object EXCEPT ![o] = row]
             K == M!Kept(f)
             obj == IF track[t].obj = None THEN o ELSE track[t].obj
             at == IF track[t].obj = None THEN M!AfterLoad(track[t].op) ELSE "update"
             v == Moved(track[t], at, obj)
  <2>1. o \in Objects /\ ~M!Held(o) BY <1>2 DEF M!Loaded, M!Free
  <2>2. row \in RewardRow /\ Fair(row) /\ row # None BY <1>2 DEF References, NoneIsNothing, M!Loaded
  <2>3. /\ progressCache' = o /\ object' = K
        /\ track' = [track EXCEPT ![t] = v]
        /\ UNCHANGED <<today, saved, streaks>>
    <3>1. CASE track[t].obj = None BY <1>2, <3>1, Zenon DEF M!Loaded, M!Set, Moved
    <3>2. CASE track[t].obj # None BY <1>2, <3>2, Zenon DEF M!Loaded, M!Set, Moved
    <3> QED BY <3>1, <3>2
  <2>11. /\ obj \in Objects /\ (obj = o \/ (obj = track[t].obj /\ object[obj] # None))
         /\ at \in Moments /\ at # "loaded" BY <1>16, <2>1 DEF References, Tracks, M!AfterLoad
  <2> HIDE DEF o, row, obj, at
  <2>12. v \in Tracks /\ v.at = at /\ v.obj = obj
    <3>1. track[t] \in Tracks /\ at \in Moments /\ obj \in Objects \cup {None} BY <1>16, <2>11
    <3> HIDE DEF Moments, Holding
    <3> QED BY <3>1, TrackChanges
  <2> HIDE DEF v
  <2>13. /\ track' \in [Trackers -> Tracks] /\ track'[t] = v
         /\ \A u \in Trackers : u # t => track'[u] = track[u] BY <2>3, <2>12 DEF References
  <2>4. f \in [Objects -> RewardRow \cup {None}] /\ \A x \in Objects : Good(f[x])
    BY <2>1, <2>2 DEF RewardRows, Good
  <2>5. /\ f[o] = row
        /\ \A x \in Objects : x # o => f[x] = object[x] BY <2>1 DEF RewardRows
  <2> HIDE DEF f
  <2>6. Keeps(K, f) BY <2>4, KeptKeeps
  <2> HIDE DEF K
  <2>7. RewardRows' BY <2>2, <2>3, <2>6 DEF RewardRows, Good, Keeps
  <2>14. o # None BY <2>1 DEF NoneIsNothing
  <2>8. ASSUME NEW u \in Trackers, track'[u].obj # None
        PROVE  object'[track'[u].obj] # None
    <3>0. track'[u].obj \in Objects BY <2>8, <2>13 DEF Tracks
    <3>4. object'[track'[u].obj] = f[track'[u].obj] BY <2>3, <2>6, <3>0 DEF Keeps
    <3>1. CASE track'[u].obj = o BY <2>2, <2>5, <3>1, <3>4
    <3>2. CASE track'[u].obj # o
      <4>1. object[track'[u].obj] # None
        <5>1. CASE u = t BY <2>11, <2>12, <2>13, <3>2, <5>1
        <5>2. CASE u # t BY <2>8, <2>13, <5>2 DEF References
        <5> QED BY <5>1, <5>2
      <4> QED BY <2>5, <3>0, <3>2, <3>4, <4>1
    <3> QED BY <3>1, <3>2
  <2>9. ASSUME NEW u \in Trackers
        PROVE  /\ track'[u].at \in Holding => track'[u].obj # None
               /\ track'[u].at = "loaded" => track'[u].row \in RewardRow /\ Fair(track'[u].row)
    <3>1. CASE u = t BY <2>11, <2>12, <2>13, <3>1 DEF NoneIsNothing
    <3>2. CASE u # t BY <2>13, <3>2 DEF References
    <3> QED BY <3>1, <3>2
  <2>10. progressCache' \in Objects \cup {None} /\ object'[progressCache'] # None
    BY <2>1, <2>2, <2>3, <2>5, <2>6 DEF Keeps
  <2>15. References' BY <2>8, <2>9, <2>10, <2>13 DEF References, Fair
  <2> QED BY <2>7, <2>15
<1>3. ASSUME NEW t \in Trackers, M!ReadEnds(t) PROVE RewardsInv'
  <2> DEFINE K == M!Kept(object)
  <2>1. object' = K /\ track' = [track EXCEPT ![t] = M!NoTrack]
        /\ UNCHANGED <<today, progressCache, saved, streaks>> BY <1>3 DEF M!ReadEnds
  <2>2. Keeps(K, object) BY KeptKeeps DEF RewardRows, Keeps
  <2> HIDE DEF K
  <2> QED BY <2>1, <2>2 DEF RewardRows, References, Keeps, M!NoTrack, Tracks, Fair
<1>4. ASSUME NEW t \in Trackers, NEW o \in Objects, NEW row \in RewardRow, Fair(row),
             track[t].obj = o,
             object' = [object EXCEPT ![o] = row],
             UNCHANGED <<today, progressCache, saved>>,
             streaks' = None \/ (streaks' \in Streaks /\ streaks'.current <= streaks'.longest),
             NEW at \in Holding, M!Set(t, at, o)
      PROVE  RewardsInv'
  <2>1. row # None BY DEF NoneIsNothing
  <2>2. RewardRows' BY <1>4 DEF RewardRows, Good, Fair
  <2> DEFINE v == Moved(track[t], at, o)
  <2>4. track' = [track EXCEPT ![t] = v] BY <1>4, Zenon DEF M!Set, Moved
  <2>5. v \in Tracks /\ v.at = at /\ v.obj = o
    <3>1. track[t] \in Tracks /\ at \in Moments /\ o \in Objects \cup {None} BY <1>16
    <3> HIDE DEF Moments, Holding
    <3> QED BY <3>1, TrackChanges
  <2> HIDE DEF v
  <2>6. /\ track' \in [Trackers -> Tracks] /\ track'[t] = v
        /\ \A u \in Trackers : u # t => track'[u] = track[u] BY <2>4, <2>5 DEF References
  <2>7. /\ object' \in [Objects -> RewardRow \cup {None}] /\ object'[o] = row
        /\ \A x \in Objects : x # o => object'[x] = object[x] BY <1>4 DEF RewardRows
  <2>8. ASSUME NEW u \in Trackers
        PROVE  /\ track'[u].obj # None => object'[track'[u].obj] # None
               /\ track'[u].at \in Holding => track'[u].obj # None
               /\ track'[u].at = "loaded" => track'[u].row \in RewardRow /\ Fair(track'[u].row)
    <3>1. CASE u = t BY <2>1, <2>5, <2>6, <2>7, <3>1 DEF NoneIsNothing
    <3>2. CASE u # t BY <2>1, <2>6, <2>7, <3>2 DEF References, Tracks
    <3> QED BY <3>1, <3>2
  <2>9. progressCache' \in Objects \cup {None} /\ (progressCache' # None => object'[progressCache'] # None)
    BY <1>4, <2>1, <2>7 DEF References
  <2>3. References' BY <2>6, <2>8, <2>9 DEF References, Fair
  <2> QED BY <2>2, <2>3
<1>5. ASSUME NEW t \in Trackers, M!LessonCompleted(t) PROVE RewardsInv'
  <2> DEFINE o == track[t].obj
             row == [object[o] EXCEPT !.lessons = @ + 1]
  <2>1. o \in Objects /\ object[o] \in RewardRow /\ Fair(object[o])
    BY <1>5, <1>16 DEF M!LessonCompleted, RewardRows, References, Good, Tracks
  <2>2. row \in RewardRow /\ Fair(row) BY <2>1 DEF RewardRow, Fair
  <2>3. /\ object' = [object EXCEPT ![o] = row]
        /\ M!Set(t, "save", o) /\ UNCHANGED <<today, progressCache, saved, streaks>>
    BY <1>5 DEF M!LessonCompleted, RewardRows
  <2> HIDE DEF row
  <2> QED BY <1>4, <2>1, <2>2, <2>3 DEF RewardRows
<1>6. ASSUME NEW t \in Trackers, M!ExerciseAnswered(t) PROVE RewardsInv'
  <2> DEFINE o == track[t].obj
             u == M!UpdateStreak(object[o].last)
             row == [object[o] EXCEPT !.streak = u.current, !.longest = u.longest, !.last = today]
  <2>1. o \in Objects /\ object[o] \in RewardRow /\ Fair(object[o])
    BY <1>6, <1>16 DEF M!ExerciseAnswered, RewardRows, References, Good, Tracks
  <2>2. u \in Streaks /\ u.current <= u.longest BY StreakKeeps
  <2>3. /\ object' = [object EXCEPT ![o] = row]
        /\ streaks' = u /\ M!Set(t, "goal", o) /\ UNCHANGED <<today, progressCache, saved>>
    BY <1>6 DEF M!ExerciseAnswered, RewardRows
  <2>5. u.longest <= MaxStreak /\ today \in Nat BY <1>6 DEF M!ExerciseAnswered, RewardRows
  <2> HIDE DEF u
  <2>4. row \in RewardRow /\ Fair(row) BY <2>1, <2>2, <2>5, DayIsKept
  <2> HIDE DEF row
  <2> QED BY <1>4, <2>1, <2>2, <2>3, <2>4 DEF RewardRows
<1>7. ASSUME NEW t \in Trackers, M!GoalUpdated(t) PROVE RewardsInv'
  <2> DEFINE v == Moved(track[t], "achievements", track[t].obj)
  <2>1. track' = [track EXCEPT ![t] = v] /\ UNCHANGED <<today, object, progressCache, saved, streaks>>
        /\ track[t].at = "goal" BY <1>7, Zenon DEF M!GoalUpdated, M!Set, Moved
  <2>2. track[t].obj \in Objects /\ track[t].obj # None /\ object[track[t].obj] # None
    BY <1>16, <2>1 DEF References, Tracks
  <2>3. v \in Tracks /\ v.at = "achievements" /\ v.obj = track[t].obj
    <3>1. track[t] \in Tracks /\ "achievements" \in Moments /\ track[t].obj \in Objects \cup {None}
      BY <1>16, <2>2
    <3> HIDE DEF Moments, Holding
    <3> QED BY <3>1, TrackChanges
  <2>4. Good(saved') BY <2>1 DEF RewardRows, Good, Fair
  <2> HIDE DEF v
  <2> QED BY <1>14, <2>1, <2>2, <2>3, <2>4
<1>8. ASSUME NEW t \in Trackers, M!CheckAchievements(t) PROVE RewardsInv'
  <2> DEFINE o == track[t].obj
  <2>1. o \in Objects /\ object[o] \in RewardRow /\ Fair(object[o])
    BY <1>8, <1>16 DEF M!CheckAchievements, RewardRows, References, Good, Tracks
  <2>2. M!Check(object[o]) \in RewardRow /\ Fair(M!Check(object[o])) BY <2>1, CheckKeeps
  <2>3. /\ object' = [object EXCEPT ![o] = M!Check(object[o])]
        /\ M!Set(t, "save", o) /\ UNCHANGED <<today, progressCache, saved, streaks>>
    BY <1>8 DEF M!CheckAchievements
  <2> QED BY <1>4, <2>1, <2>2, <2>3 DEF RewardRows
<1>9. ASSUME NEW t \in Trackers, M!Saved(t) PROVE RewardsInv'
  <2> DEFINE K == M!Kept(object)
             o == track[t].obj
  <2>1. o \in Objects /\ object[o] \in RewardRow /\ Fair(object[o]) /\ object[o] # None
    BY <1>9, <1>16 DEF M!Saved, RewardRows, References, Good, Tracks
  <2>2. /\ saved' = object[o] /\ progressCache' = o /\ object' = K
        /\ track' = [track EXCEPT ![t] = M!NoTrack] /\ UNCHANGED <<today, streaks>>
    BY <1>9 DEF M!Saved
  <2>3. Keeps(K, object) BY KeptKeeps DEF RewardRows
  <2> HIDE DEF K, o
  <2>4. RewardRows' BY <2>1, <2>2, <2>3 DEF RewardRows, Keeps, Good, Fair
  <2>5. References' BY <2>1, <2>2, <2>3 DEF References, Keeps, M!NoTrack, Tracks, Fair
  <2> QED BY <2>4, <2>5
<1>10. ASSUME NEW t \in Trackers, M!Fails(t) PROVE RewardsInv'
  <2> DEFINE K == M!Kept(object)
  <2>1. object' = K /\ track' = [track EXCEPT ![t] = M!NoTrack]
        /\ UNCHANGED <<today, progressCache, saved, streaks>> BY <1>10 DEF M!Fails
  <2>2. Keeps(K, object) BY KeptKeeps DEF RewardRows
  <2> HIDE DEF K
  <2> QED BY <2>1, <2>2 DEF RewardRows, References, Keeps, M!NoTrack, Tracks, Fair
<1>11. ASSUME M!ClearCache PROVE RewardsInv'
  <2> DEFINE K == M!Kept(object)
  <2>1. object' = K /\ progressCache' = None /\ UNCHANGED <<today, saved, streaks, track>>
    BY <1>11 DEF M!ClearCache
  <2>2. Keeps(K, object) BY KeptKeeps DEF RewardRows
  <2> HIDE DEF K
  <2>3. RewardRows' BY <2>1, <2>2 DEF RewardRows, Keeps, Good, Fair
  <2>4. \A t \in Trackers : track[t].obj # None => track[t].obj \in Objects BY <1>16 DEF Tracks
  <2>5. References' BY <2>1, <2>2, <2>4 DEF References, Keeps, Fair
  <2> QED BY <2>3, <2>5
<1>12. ASSUME M!Reload PROVE RewardsInv'
  BY <1>12 DEF M!Reload, M!NoTrack, RewardRows, References, Good, Fair, Tracks
<1>13. ASSUME M!DayPasses PROVE RewardsInv'
  BY <1>13 DEF M!DayPasses, RewardRows, References, Good, Fair
<1> QED BY <1>1, <1>2, <1>3, <1>5, <1>6, <1>7, <1>8, <1>9, <1>10, <1>11, <1>12, <1>13,
     <1>19, <1>20, <1>21 DEF M!Next

-----------------------------------------------------------------------------
(***************************************************************************)
(* srs_engine.js: the result cache is a bounded map, whatever the          *)
(* strategies answer; cards and cached results are sound, for which one    *)
(* needs what each strategy answers; success does not shorten an interval. *)
(***************************************************************************)
LEMMA SrsLimits ==
  /\ Algorithms \subseteq {"sm2", "anki", "fsrs"}
  /\ MaxInterval \in 1..E!MAX_INTERVAL
  /\ CacheSize \in Nat \ {0} /\ HistoryLimit \in Nat \ {0} BY LimitsAssumption, IntervalAssumption

(* A bounded map from keys to results, least recently used first.           *)
IsSequence(s) == s \in Seq({s[i] : i \in DOMAIN s})
BoundedMap(s) ==
  /\ IsSequence(s)
  /\ Len(s) <= CacheSize
  /\ \A i, j \in DOMAIN s : s[i].key = s[j].key => i = j

(* The inductive invariant: an engine can be restored, so the cache that    *)
(* was saved must be one too.                                              *)
CacheInv == BoundedMap(results) /\ (srs_saved # None => BoundedMap(srs_saved.cache))

(* A sequence of any elements: its domain and length, and how it comes      *)
(* about.                                                                  *)
LEMMA SequenceDomain ==
  ASSUME NEW s, IsSequence(s)
  PROVE  Len(s) \in Nat /\ DOMAIN s = 1..Len(s) BY DEF IsSequence

LEMMA SequenceOfOwn ==
  ASSUME NEW Kind, NEW s \in Seq(Kind)
  PROVE  IsSequence(s)
<1> DEFINE T == {s[l] : l \in DOMAIN s}
<1> DEFINE n == Len(s)
<1>1. n \in Nat /\ DOMAIN s = 1..n /\ s = [k \in 1..n |-> s[k]] OBVIOUS
<1>2. \A k \in 1..n : s[k] \in T BY <1>1
<1> HIDE DEF T, n
<1>3. s \in Seq(T) BY <1>1, <1>2
<1> QED BY <1>3 DEF IsSequence, T

(* The empty cache of a new engine, of switchAlgorithm and clearCache.      *)
LEMMA EmptyBounded == BoundedMap(<<>>) BY SrsLimits DEF BoundedMap, IsSequence

(* LRUCache.get: moving an entry to the end keeps the entries.              *)
LEMMA RefreshedBounded ==
  ASSUME BoundedMap(results), NEW i \in DOMAIN results
  PROVE  BoundedMap(E!Refreshed(i))
<1> DEFINE Kind == {results[k] : k \in DOMAIN results}
<1> DEFINE n == Len(results)
<1> DEFINE r == E!Refreshed(i)
<1> DEFINE before == SubSeq(results, 1, i - 1)
<1> DEFINE after == SubSeq(results, i + 1, n)
<1> DEFINE from(k) == IF k < i THEN k ELSE IF k < n THEN k + 1 ELSE i
<1>1. results \in Seq(Kind) /\ n \in Nat /\ i \in 1..n /\ DOMAIN results = 1..n
  BY SequenceDomain DEF BoundedMap, IsSequence
<1>2. i \in Int /\ n \in Int /\ 1 <= i /\ i <= n BY <1>1
<1> HIDE DEF Kind
<1>3. before \in Seq(Kind) /\ Len(before) = i - 1 BY <1>1
<1>4. after \in Seq(Kind) /\ Len(after) = n - i BY <1>1
<1>5. \A k \in 1..(i - 1) : before[k] = results[k] BY <1>1
<1>6. \A k \in 1..(n - i) : after[k] = results[i + k] BY <1>1
<1> DEFINE last == <<results[i]>>
<1>7. last \in Seq(Kind) /\ Len(last) = 1 /\ last[1] = results[i] BY <1>1
<1>8. r = before \o after \o last BY DEF E!Refreshed
<1> DEFINE rest == before \o after
<1> HIDE DEF before, after, last, n
<1>9. rest \in Seq(Kind) /\ Len(rest) = n - 1
  <2>1. rest \in Seq(Kind) /\ Len(rest) = Len(before) + Len(after) BY <1>3, <1>4, ConcatProperties
  <2>2. (i - 1) + (n - i) = n - 1 BY <1>2
  <2> QED BY <1>3, <1>4, <2>1, <2>2
<1>10. \A k \in 1..(n - 1) : rest[k] = IF k < i THEN results[k] ELSE results[k + 1]
  <2> SUFFICES ASSUME NEW k \in 1..(n - 1)
               PROVE  rest[k] = IF k < i THEN results[k] ELSE results[k + 1]
    OBVIOUS
  <2>1. CASE k < i
    <3>1. k \in 1..(i - 1) BY <1>1, <2>1
    <3>2. rest[k] = before[k] BY <1>1, <1>3, <1>4, <3>1
    <3> QED BY <1>5, <2>1, <3>1, <3>2
  <2>2. CASE ~ k < i
    <3>1. k - (i - 1) \in 1..(n - i) BY <1>1, <2>2
    <3>2. rest[k] = after[k - (i - 1)]
      <4>1. k \in 1..Len(before) + Len(after) /\ ~ k <= Len(before) BY <1>2, <1>3, <1>4, <2>2
      <4> QED BY <1>3, <1>4, <4>1, ConcatProperties
    <3>3. after[k - (i - 1)] = results[i + (k - (i - 1))] BY <1>6, <3>1
    <3>4. i + (k - (i - 1)) = k + 1 BY <1>1
    <3> QED BY <2>2, <3>2, <3>3, <3>4
  <2> QED BY <2>1, <2>2
<1> HIDE DEF rest, r
<1>11. r \in Seq(Kind) /\ Len(r) = n
  <2>1. r \in Seq(Kind) /\ Len(r) = Len(rest) + Len(last)
    BY <1>7, <1>8, <1>9, ConcatProperties DEF rest
  <2> QED BY <1>2, <1>7, <1>9, <2>1
<1>12. \A k \in 1..(n - 1) : r[k] = rest[k] BY <1>2, <1>7, <1>8, <1>9 DEF rest
<1>13. r[n] = results[i]
  <2>1. n \in 1..Len(rest) + Len(last) /\ ~ n <= Len(rest) /\ n - Len(rest) = 1 BY <1>2, <1>7, <1>9
  <2>2. r[n] = last[n - Len(rest)] BY <1>7, <1>8, <1>9, <2>1, ConcatProperties DEF rest
  <2> QED BY <1>7, <2>1, <2>2
<1>14. \A k \in 1..n : r[k] = results[from(k)]
  <2> SUFFICES ASSUME NEW k \in 1..n PROVE r[k] = results[from(k)] OBVIOUS
  <2>1. CASE k = n BY <1>1, <1>13, <2>1
  <2>2. CASE k # n
    <3>1. k \in 1..(n - 1) BY <1>2, <2>2
    <3> QED BY <1>1, <1>10, <1>12, <3>1
  <2> QED BY <2>1, <2>2
<1>15. \A k \in 1..n : k \in Int /\ k <= n /\ from(k) \in 1..n BY <1>2
<1>16. \A k \in 1..n : k < i \/ (i <= k /\ k < n) \/ k = n BY <1>2
<1>17. \A k \in 1..n : i <= k => ~ k < i BY <1>2
<1>18. \A k \in 1..n : k < i => from(k) = k OBVIOUS
<1>19. \A k \in 1..n : i <= k /\ k < n => from(k) = k + 1 BY <1>17
<1>20. from(n) = i
  <2>1. ~ n < i /\ ~ n < n BY <1>2
  <2> QED BY <2>1, Zenon
<1>21. ASSUME NEW k \in 1..n, NEW l \in 1..n, from(k) = from(l)
       PROVE  k = l
  <2> HIDE DEF from
  <2> QED BY <1>2, <1>15, <1>16, <1>18, <1>19, <1>20, <1>21
<1>22. DOMAIN r = 1..n BY <1>11
<1>23. IsSequence(r) BY <1>11, SequenceOfOwn
<1>24. \A k, l \in 1..n : r[k].key = r[l].key => k = l
  <2> SUFFICES ASSUME NEW k \in 1..n, NEW l \in 1..n, r[k].key = r[l].key PROVE k = l OBVIOUS
  <2> HIDE DEF from
  <2>1. from(k) = from(l) BY <1>1, <1>14, <1>15 DEF BoundedMap
  <2> QED BY <1>21, <2>1
<1> QED BY <1>1, <1>11, <1>22, <1>23, <1>24 DEF BoundedMap, r, n

(* LRUCache.set of a key that is not in the cache.                          *)
LEMMA InsertedBounded ==
  ASSUME BoundedMap(results), NEW e, \A i \in DOMAIN results : results[i].key # e.key
  PROVE  BoundedMap(E!Inserted(e))
<1> DEFINE n == Len(results)
<1> DEFINE old == IF n >= CacheSize THEN Tail(results) ELSE results
<1> DEFINE T == {results[k] : k \in DOMAIN results} \cup {e}
<1>1. results \in Seq(T) /\ n \in Nat /\ DOMAIN results = 1..n /\ e \in T
  BY SequenceDomain DEF BoundedMap, IsSequence
<1>2. n <= CacheSize /\ CacheSize \in Nat \ {0} BY SrsLimits DEF BoundedMap
<1> HIDE DEF T, n
<1>3. PICK o \in 0..1 :
        /\ old \in Seq(T) /\ Len(old) = n - o /\ n - o < CacheSize /\ o <= n
        /\ \A k \in 1..(n - o) : old[k] = results[k + o]
  <2>1. CASE n >= CacheSize
    <3>1. results # <<>> /\ n >= 1 BY <1>1, <1>2, <2>1 DEF n
    <3>2. Tail(results) \in Seq(T) /\ Len(Tail(results)) = n - 1 BY <1>1, <3>1 DEF n
    <3>3. \A k \in 1..(n - 1) : Tail(results)[k] = results[k + 1] BY <1>1, <3>1 DEF n
    <3> QED BY <1>1, <1>2, <2>1, <3>1, <3>2, <3>3
  <2>2. CASE ~ n >= CacheSize
    <3>1. old = results /\ n - 0 = n /\ n < CacheSize BY <1>1, <1>2, <2>2
    <3>2. Len(old) = n BY <3>1 DEF n
    <3>3. \A k \in 1..(n - 0) : old[k] = results[k + 0] BY <1>1, <3>1
    <3>4. 0 \in 0..1 /\ 0 <= n /\ n - 0 < CacheSize /\ Len(old) = n - 0 BY <1>1, <3>1, <3>2
    <3> HIDE DEF old
    <3>5. old \in Seq(T) BY <1>1, <3>1
    <3> QED BY <3>3, <3>4, <3>5
  <2> QED BY <2>1, <2>2
<1> HIDE DEF old
<1> DEFINE m == n - o
<1> DEFINE new == Append(old, e)
<1>4. m \in Nat /\ m < CacheSize /\ Len(old) = m /\ m + o = n BY <1>1, <1>3
<1>5. \A k \in 1..m : old[k] = results[k + o] /\ k + o \in 1..n BY <1>1, <1>3, <1>4
<1> HIDE DEF m
<1>6. new \in Seq(T) /\ Len(new) = m + 1 /\ new[m + 1] = e BY <1>1, <1>3, <1>4
<1>7. \A k \in 1..m : new[k] = old[k] BY <1>1, <1>3, <1>4
<1> HIDE DEF new
<1>8. DOMAIN new = 1..(m + 1) BY <1>6
<1>9. IsSequence(new) BY <1>6, SequenceOfOwn
<1>10. Len(new) <= CacheSize BY <1>2, <1>4, <1>6
<1>11. ASSUME NEW k \in 1..(m + 1), NEW l \in 1..(m + 1), new[k].key = new[l].key
       PROVE  k = l
  <2>1. \A h \in 1..m : new[h].key # e.key /\ new[h] = results[h + o] /\ h + o \in DOMAIN results
    BY <1>1, <1>5, <1>7
  <2>2. CASE k \in 1..m /\ l \in 1..m
    <3>1. k + o = l + o BY <1>11, <2>1, <2>2 DEF BoundedMap
    <3> QED BY <1>3, <2>2, <3>1
  <2>3. CASE ~ (k \in 1..m /\ l \in 1..m) BY <1>4, <1>6, <1>11, <2>1, <2>3
  <2> QED BY <2>2, <2>3
<1>12. E!Inserted(e) = new BY DEF E!Inserted, old, new, n
<1> QED BY <1>8, <1>9, <1>10, <1>11, <1>12 DEF BoundedMap

-----------------------------------------------------------------------------
(* Every call of the engine keeps the invariant. *)
LEMMA CacheStep == CacheInv /\ [E!Next]_(E!vars) => CacheInv'
<1> SUFFICES ASSUME CacheInv, [E!Next]_(E!vars) PROVE CacheInv' OBVIOUS
<1>1. ASSUME NEW c \in SrsCards, NEW q \in E!Qualities, E!ReviewCached(c, q)
      PROVE  CacheInv'
  <2>1. PICK i \in E!Hits(E!Key(q, srs_cards[c])) : results' = E!Refreshed(i)
    BY <1>1 DEF E!ReviewCached
  <2>2. i \in DOMAIN results BY DEF E!Hits
  <2>3. BoundedMap(results') BY <2>1, <2>2, RefreshedBounded DEF CacheInv
  <2> QED BY <1>1, <2>3 DEF CacheInv, E!ReviewCached, E!Calculates
<1>2. ASSUME NEW c \in SrsCards, NEW q \in E!Qualities, E!ReviewCalculated(c, q)
      PROVE  CacheInv'
  <2>1. PICK data : results' = E!Inserted([key |-> E!Key(q, srs_cards[c]), data |-> data])
    BY <1>2 DEF E!ReviewCalculated
  <2> DEFINE e == [key |-> E!Key(q, srs_cards[c]), data |-> data]
  <2>2. \A i \in DOMAIN results : results[i].key # e.key BY <1>2 DEF E!ReviewCalculated, E!Hits
  <2>3. BoundedMap(results')
    <3> HIDE DEF e
    <3> QED BY <2>1, <2>2, InsertedBounded DEF CacheInv, e
  <2> QED BY <1>2, <2>3 DEF CacheInv, E!ReviewCalculated, E!Calculates
<1>3. ASSUME NEW c \in SrsCards, E!ResetCard(c) PROVE CacheInv' BY <1>3 DEF E!ResetCard, CacheInv
<1>4. ASSUME NEW algorithm \in Algorithms, E!SwitchAlgorithm(algorithm)
      PROVE  CacheInv' BY <1>4, EmptyBounded DEF E!SwitchAlgorithm, CacheInv
<1>5. ASSUME NEW struggles \in BOOLEAN, NEW failing \in {"few", "some", "many"},
             E!AdaptToUser(struggles, failing)
      PROVE  CacheInv' BY <1>5, EmptyBounded DEF E!AdaptToUser, CacheInv
<1>6. CASE E!ClearCache BY <1>6, EmptyBounded DEF E!ClearCache, CacheInv
<1>7. CASE E!ToJSON BY <1>7 DEF E!ToJSON, CacheInv
<1>8. CASE E!FromJSON BY <1>8 DEF E!FromJSON, CacheInv
<1>9. CASE UNCHANGED E!vars BY <1>9 DEF E!vars, CacheInv
<1> QED BY <1>1, <1>2, <1>3, <1>4, <1>5, <1>6, <1>7, <1>8, <1>9 DEF E!Next, E!Call

-----------------------------------------------------------------------------
(* Arithmetic: powers of 2 and 3 are natural numbers.  True by induction on *)
(* the exponent, which the installed provers cannot do, so the theorems     *)
(* that need it say so.                                                    *)
Powers == \A n \in Nat : 2 ^ n \in Nat /\ 3 ^ n \in Nat \ {0}

(* An entry of the cache is what the configuration it was calculated under  *)
(* answers, with the answer as the last of its history.                    *)
Ends(history, q) ==
  /\ history \in Seq(E!Qualities) /\ Len(history) \in 1..HistoryLimit
  /\ history[Len(history)] = q
EntryTrue(k, e) ==
  /\ E!Schedule(e.data) \in E!Outcomes(k, e.key.quality, e.key.data)
  /\ Ends(e.data.history, e.key.quality)
Answers(k) == {e \in E!Entry : EntryTrue(k, e)}
SrsTrue(k, s) == k \in E!Config /\ s \in Seq(Answers(k))

Lapsed(answers) ==
  {i \in DOMAIN answers : E!IsLapse(answers[i].quality, answers[i].algorithm)}
Since(answers) ==
  {i \in DOMAIN answers : \A j \in i..Len(answers) : ~ E!Resets(answers[j])}

(* A card d with the answers since it was reset.                            *)
Counted(d, answers) ==
  /\ answers \in Seq([quality : E!Qualities, algorithm : Algorithms])
  /\ d.lapses = Cardinality(Lapsed(answers))
  /\ d.repetition = Cardinality(Since(answers))
Low(d) == (d.repetition = 0 => d.interval <= 1) /\ (d.repetition = 1 => d.interval <= 6)
Spaced(d, answers, fuzz) ==
  /\ answers = <<>> => d = E!NewCard
  /\ answers # <<>> => Ends(d.history, answers[Len(answers)].quality)
  /\ ~ E!ByFSRS(answers) /\ answers # <<>> => d.interval >= 1
  /\ ~ E!ByFSRS(answers) /\ ~ fuzz => Low(d)
CardTrue(d, answers, fuzz) ==
  /\ d \in E!Data /\ E!Schedule(d) \in E!Scheduled /\ Len(d.history) <= HistoryLimit
  /\ Counted(d, answers) /\ Spaced(d, answers, fuzz)

(* The inductive invariant.  An engine that was saved is as true as the one *)
(* in use, and whether intervals are fuzzed never changes.                  *)
SrsInv ==
  /\ srs_cards \in [SrsCards -> E!Data]
  /\ answered \in [SrsCards -> Seq([quality : E!Qualities, algorithm : Algorithms])]
  /\ srs_calls \in Nat
  /\ \A c \in SrsCards : CardTrue(srs_cards[c], answered[c], srs_config.fuzz)
  /\ SrsTrue(srs_config, results)
  /\ srs_saved # None => SrsTrue(srs_saved.config, srs_saved.cache)
                       /\ srs_saved.config.fuzz = srs_config.fuzz
-----------------------------------------------------------------------------
LEMMA Constants ==
  /\ Algorithms \subseteq {"sm2", "anki", "fsrs"}
  /\ MaxInterval \in Nat /\ MaxInterval >= 1 /\ MaxInterval \in 1..E!MAX_INTERVAL
  /\ HistoryLimit \in Nat /\ HistoryLimit >= 1 BY SrsLimits

LEMMA RoundFacts ==
  ASSUME NEW n \in Nat, NEW d \in Nat \ {0}
  PROVE  E!Round(n, d) \in Nat BY DEF E!Round

(* An interval times a factor of at least 1 does not shrink.                *)
LEMMA RoundGrows ==
  ASSUME NEW n \in Nat, NEW e \in Nat, e >= 100
  PROVE  E!Round(n * e, 100) \in Nat /\ E!Round(n * e, 100) >= n BY DEF E!Round

LEMMA ClampedFacts ==
  ASSUME NEW e \in Int
  PROVE  E!Clamped(e) \in E!MinEase..E!MaxEase
  BY DEF E!Clamped, E!AtLeast, E!AtMost, E!MinEase, E!MaxEase

LEMMA EasedFacts ==
  ASSUME NEW e \in Int, NEW by \in Int
  PROVE  E!Eased(e, by) \in E!MinEase..E!MaxEase
  BY DEF E!Eased, E!Round, E!AtLeast, E!AtMost, E!MinEase, E!MaxEase

(* What is a card to a strategy.                                            *)
IsCard(d) ==
  /\ d.repetition \in Nat /\ d.ease \in E!MinEase..E!MaxEase
  /\ d.interval \in 0..MaxInterval /\ d.lapses \in Nat

(* What every strategy does with repetition, ease and interval.             *)
Answered(k, q, d, s) ==
  /\ s.repetition = (IF k.algorithm # "fsrs" /\ E!IsLapse(q, k.algorithm) THEN 0
                     ELSE d.repetition + 1)
  /\ s.ease \in E!MinEase..E!MaxEase /\ s.interval \in Nat
  /\ k.algorithm # "fsrs" /\ (d.repetition = 0 \/ d.interval >= 1) => s.interval >= 1
  /\ k.algorithm # "fsrs" /\ Low(d) =>
       IF E!IsLapse(q, k.algorithm) THEN s.interval <= 1
       ELSE s.interval >= d.interval /\ (d.repetition = 0 => s.interval <= 6)

LEMMA SM2Facts ==
  ASSUME NEW k \in E!Config, k.algorithm = "sm2", NEW q \in E!Qualities, NEW d, IsCard(d)
  PROVE  Answered(k, q, d, E!SM2(q, d))
<1> DEFINE s == E!SM2(q, d)
<1>1. q \in 0..3 /\ d.repetition \in Nat /\ d.interval \in Nat /\ d.ease \in Int
  BY DEF E!Qualities, E!AGAIN, E!EASY, IsCard
<1>2. E!IsLapse(q, k.algorithm) <=> q < 3 BY DEF E!IsLapse
<1>3. s.ease \in E!MinEase..E!MaxEase
  <2>1. d.ease + 10 - (5 - q) * (8 + 2 * (5 - q)) \in Int BY <1>1
  <2> QED BY <2>1, ClampedFacts DEF E!SM2
<1>4. s.ease \in Nat /\ s.ease >= 100 BY <1>3 DEF E!MinEase, E!MaxEase
<1>5. s.repetition = IF q >= 3 THEN d.repetition + 1 ELSE 0 BY DEF E!SM2
<1>6. s.interval = IF q < 3 \/ d.repetition = 0 THEN 1
                   ELSE IF d.repetition = 1 THEN 6
                   ELSE E!Round(d.interval * s.ease, 100) BY DEF E!SM2
<1>7. E!Round(d.interval * s.ease, 100) \in Nat /\ E!Round(d.interval * s.ease, 100) >= d.interval
  BY <1>1, <1>4, RoundGrows
<1> HIDE DEF s
<1>8. Answered(k, q, d, s) BY <1>1, <1>2, <1>3, <1>5, <1>6, <1>7 DEF Answered, Low
<1> QED BY <1>8 DEF s

LEMMA AnkiFacts ==
  ASSUME NEW k \in E!Config, k.algorithm = "anki", NEW q \in E!Qualities, NEW d, IsCard(d)
  PROVE  Answered(k, q, d, E!Anki(k, q, d))
<1> DEFINE s == E!Anki(k, q, d)
<1>1. /\ q \in {E!AGAIN, E!HARD, E!GOOD, E!EASY} /\ d.repetition \in Nat /\ d.interval \in Nat
      /\ d.ease \in Nat /\ d.ease >= 100 /\ d.ease \in E!MinEase..E!MaxEase
  BY DEF E!Qualities, E!AGAIN, E!HARD, E!GOOD, E!EASY, IsCard, E!MinEase, E!MaxEase
<1>2. E!IsLapse(q, k.algorithm) <=> q = E!AGAIN BY DEF E!IsLapse, E!Qualities, E!AGAIN, E!EASY
<1>3. s.ease \in E!MinEase..E!MaxEase
  <2>1. - k.penalty \in Int /\ - k.hardPenalty \in Int /\ k.bonus \in Int BY DEF E!Config
  <2>2. /\ E!Eased(d.ease, - k.penalty) \in E!MinEase..E!MaxEase
        /\ E!Eased(d.ease, - k.hardPenalty) \in E!MinEase..E!MaxEase
        /\ E!Eased(d.ease, k.bonus) \in E!MinEase..E!MaxEase
    <3> PICK e \in Int : e = d.ease BY <1>1
    <3>1. \A by \in Int : E!Eased(e, by) \in E!MinEase..E!MaxEase BY EasedFacts
    <3> QED BY <2>1, <3>1
  <2> QED BY <1>1, <2>2 DEF E!Anki
<1>4. s.repetition = IF q = E!AGAIN THEN 0 ELSE d.repetition + 1 BY DEF E!Anki
<1> DEFINE hard == E!Round(d.interval * 120, 100)
           good == E!Round(d.interval * d.ease, 100)
           easy == E!Round(d.interval * d.ease * 3, 100)
<1>5. /\ hard \in Nat /\ hard >= d.interval /\ (d.interval <= 1 => hard <= 1)
      /\ good \in Nat /\ good >= d.interval /\ easy \in Nat /\ easy >= d.interval
  <2>1. hard \in Nat /\ hard >= d.interval /\ good \in Nat /\ good >= d.interval BY <1>1, RoundGrows
  <2>2. d.interval <= 1 => hard <= 1 BY <1>1 DEF E!Round
  <2>3. d.ease * 3 \in Nat /\ d.ease * 3 >= 100 /\ d.interval * d.ease * 3 = d.interval * (d.ease * 3)
    BY <1>1
  <2>4. easy \in Nat /\ easy >= d.interval BY <1>1, <2>3, RoundGrows
  <2> QED BY <2>1, <2>2, <2>4
<1>6. s.interval = CASE q = E!AGAIN -> 1
                     [] q = E!HARD -> E!AtLeast(1, hard)
                     [] q = E!GOOD -> IF d.repetition = 0 THEN 1
                                    ELSE IF d.repetition = 1 THEN 6 ELSE good
                     [] q = E!EASY -> IF d.repetition = 0 THEN 4 ELSE easy
  BY DEF E!Anki, E!GoodInterval
<1> HIDE DEF s, hard, good, easy
<1>7. \/ q = E!AGAIN /\ s.interval = 1
      \/ q = E!HARD /\ s.interval = E!AtLeast(1, hard)
      \/ q = E!GOOD /\ s.interval = (IF d.repetition = 0 THEN 1
                                  ELSE IF d.repetition = 1 THEN 6 ELSE good)
      \/ q = E!EASY /\ s.interval = (IF d.repetition = 0 THEN 4 ELSE easy)
  BY <1>1, <1>6 DEF E!AGAIN, E!HARD, E!GOOD, E!EASY
<1>8. Answered(k, q, d, s) BY <1>1, <1>2, <1>3, <1>4, <1>5, <1>7
     DEF Answered, Low, E!AtLeast, E!AGAIN, E!HARD, E!GOOD, E!EASY
<1> QED BY <1>8 DEF s

LEMMA FSRSFacts ==
  ASSUME Powers, NEW k \in E!Config, k.algorithm = "fsrs", NEW q \in E!Qualities,
         NEW d, IsCard(d)
  PROVE  Answered(k, q, d, E!FSRS(k, q, d))
<1> DEFINE s == E!FSRS(k, q, d)
           gain == IF q >= 3 THEN 100 + 12 * q ELSE k.again
           n == IF d.repetition = 0 THEN 4 * gain
                ELSE 10 * gain * d.interval * 2 ^ d.repetition
           m == IF d.repetition = 0 THEN 1000 ELSE 1000 * 3 ^ d.repetition
<1>1. gain \in Nat /\ d.repetition \in Nat /\ d.interval \in Nat
  BY DEF E!Qualities, E!AGAIN, E!EASY, IsCard, E!Config
<1>2. 2 ^ d.repetition \in Nat /\ 3 ^ d.repetition \in Nat \ {0} BY <1>1 DEF Powers
<1> HIDE DEF gain
<1>3. n \in Nat
  <2>1. 10 * gain * d.interval \in Nat BY <1>1
  <2> QED BY <1>1, <1>2, <2>1
<1>4. m \in Nat \ {0} BY <1>2
<1>5. /\ s.repetition = d.repetition + 1 /\ s.ease = E!Clamped(E!Round(200 * n, m))
      /\ s.interval = IF d.repetition = 0 THEN 1 ELSE E!Round(30 * n, m) BY DEF E!FSRS, gain
<1> HIDE DEF s, n, m
<1>6. 200 * n \in Nat /\ 30 * n \in Nat BY <1>3
<1>7. E!Round(200 * n, m) \in Nat /\ E!Round(30 * n, m) \in Nat BY <1>4, <1>6, RoundFacts
<1>8. s.ease \in E!MinEase..E!MaxEase BY <1>5, <1>7, ClampedFacts
<1>9. Answered(k, q, d, s) BY <1>1, <1>5, <1>7, <1>8 DEF Answered
<1> QED BY <1>9 DEF s

LEMMA StrategyFacts ==
  ASSUME Powers, NEW k \in E!Config, NEW q \in E!Qualities, NEW d, IsCard(d)
  PROVE  Answered(k, q, d, E!Strategy(k, q, d))
<1>1. k.algorithm \in {"sm2", "anki", "fsrs"}
  <2>1. k.algorithm \in Algorithms BY DEF E!Config
  <2> QED BY <2>1, Constants
<1>2. CASE k.algorithm = "sm2"
  <2>1. E!Strategy(k, q, d) = E!SM2(q, d) BY <1>2 DEF E!Strategy
  <2> QED BY <1>2, <2>1, SM2Facts
<1>3. CASE k.algorithm = "anki"
  <2>1. E!Strategy(k, q, d) = E!Anki(k, q, d) BY <1>3 DEF E!Strategy
  <2> QED BY <1>3, <2>1, AnkiFacts
<1>4. CASE k.algorithm = "fsrs"
  <2>1. E!Strategy(k, q, d) = E!FSRS(k, q, d) BY <1>4 DEF E!Strategy
  <2> QED BY <1>4, <2>1, FSRSFacts
<1> QED BY <1>1, <1>2, <1>3, <1>4

LEMMA FuzzedFacts ==
  ASSUME NEW k \in E!Config, NEW n \in Nat, NEW m \in E!Fuzzed(k, n)
  PROVE  /\ m \in Nat
         /\ m = n \/ m >= 1
         /\ ~ k.fuzz => m = n
<1> DEFINE range == E!AtLeast(1, (n * 5) \div 100)
<1>1. range \in Nat BY DEF E!AtLeast
<1> HIDE DEF range
<1>2. CASE k.fuzz /\ k.algorithm # "fsrs"
  <2>1. E!Fuzzed(k, n) = {E!AtLeast(1, n + offset) : offset \in (- range)..range}
    BY <1>2 DEF E!Fuzzed, range
  <2>2. PICK offset \in (- range)..range : m = E!AtLeast(1, n + offset) BY <2>1
  <2>3. offset \in Int BY <1>1
  <2> QED BY <1>2, <2>2, <2>3 DEF E!AtLeast
<1>3. CASE ~ (k.fuzz /\ k.algorithm # "fsrs")
  <2>1. E!Fuzzed(k, n) = {n} BY <1>3 DEF E!Fuzzed
  <2> QED BY <2>1
<1> QED BY <1>2, <1>3

(* What a review answers: a card again, counted and spaced as it should be. *)
LEMMA OutcomeFacts ==
  ASSUME Powers, NEW k \in E!Config, NEW q \in E!Qualities, NEW d, IsCard(d),
         NEW s \in E!Outcomes(k, q, d)
  PROVE  /\ s \in E!Scheduled
         /\ s.lapses = IF E!IsLapse(q, k.algorithm) THEN d.lapses + 1 ELSE d.lapses
         /\ s.repetition = IF k.algorithm # "fsrs" /\ E!IsLapse(q, k.algorithm) THEN 0
                           ELSE d.repetition + 1
         /\ k.algorithm # "fsrs" /\ (d.repetition = 0 \/ d.interval >= 1) => s.interval >= 1
         /\ k.algorithm # "fsrs" /\ ~ k.fuzz /\ Low(d) =>
              IF E!IsLapse(q, k.algorithm) THEN s.interval <= 1
              ELSE s.interval >= d.interval /\ (d.repetition = 0 => s.interval <= 6)
<1> DEFINE t == E!Strategy(k, q, d)
<1>1. Answered(k, q, d, t) BY StrategyFacts
<1>2. PICK n \in E!Fuzzed(k, t.interval) :
        s = [repetition |-> t.repetition, ease |-> t.ease,
             interval |-> E!AtMost(MaxInterval, n),
             lapses |-> IF E!IsLapse(q, k.algorithm) THEN d.lapses + 1 ELSE d.lapses]
  BY DEF E!Outcomes
<1> HIDE DEF t
<1>3. n \in Nat /\ (n = t.interval \/ n >= 1) /\ (~ k.fuzz => n = t.interval)
  BY <1>1, <1>2, FuzzedFacts DEF Answered
<1>4. /\ s.repetition = t.repetition /\ s.ease = t.ease
      /\ s.interval = E!AtMost(MaxInterval, n)
      /\ s.lapses = IF E!IsLapse(q, k.algorithm) THEN d.lapses + 1 ELSE d.lapses BY <1>2
<1>5. MaxInterval \in Nat /\ MaxInterval >= 1 /\ d.interval <= MaxInterval /\ d.interval \in Nat
  BY Constants DEF IsCard
<1>6. s.interval \in 0..MaxInterval BY <1>3, <1>4, <1>5 DEF E!AtMost
<1>7. s \in E!Scheduled
  <2>1. t.repetition \in Nat /\ t.ease \in E!MinEase..E!MaxEase BY <1>1 DEF Answered, IsCard
  <2>2. s.lapses \in Nat BY <1>4 DEF IsCard
  <2> QED BY <1>2, <1>4, <1>6, <2>1, <2>2 DEF E!Scheduled
<1>8. k.algorithm # "fsrs" /\ (d.repetition = 0 \/ d.interval >= 1) => s.interval >= 1
  BY <1>1, <1>3, <1>4, <1>5 DEF Answered, E!AtMost
<1>9. k.algorithm # "fsrs" /\ ~ k.fuzz /\ Low(d) =>
        IF E!IsLapse(q, k.algorithm) THEN s.interval <= 1
        ELSE s.interval >= d.interval /\ (d.repetition = 0 => s.interval <= 6)
  BY <1>1, <1>3, <1>4, <1>5 DEF Answered, E!AtMost
<1> QED BY <1>1, <1>4, <1>7, <1>8, <1>9 DEF Answered

(* The strategies read the schedule only, not the history.                  *)
LEMMA SameOutcomes ==
  ASSUME NEW k, NEW q, NEW d
  PROVE  E!Outcomes(k, q, E!Schedule(d)) = E!Outcomes(k, q, d)
<1> DEFINE e == E!Schedule(d)
<1>1. /\ e.repetition = d.repetition /\ e.ease = d.ease
      /\ e.interval = d.interval /\ e.lapses = d.lapses BY DEF E!Schedule
<1> HIDE DEF e
<1>2. E!SM2(q, e) = E!SM2(q, d) BY <1>1 DEF E!SM2
<1>3. E!Anki(k, q, e) = E!Anki(k, q, d) BY <1>1 DEF E!Anki, E!GoodInterval
<1>4. E!FSRS(k, q, e) = E!FSRS(k, q, d) BY <1>1 DEF E!FSRS
<1>5. E!Strategy(k, q, e) = E!Strategy(k, q, d) BY <1>2, <1>3, <1>4 DEF E!Strategy
<1>6. E!Outcomes(k, q, e) = E!Outcomes(k, q, d) BY <1>1, <1>5 DEF E!Outcomes
<1> QED BY <1>6 DEF e
-----------------------------------------------------------------------------
LEMMA LapsedGrows ==
  ASSUME NEW A, NEW answers \in Seq(A), NEW a \in A, NEW n, n = Len(answers)
  PROVE  Lapsed(Append(answers, a)) =
           IF E!IsLapse(a.quality, a.algorithm) THEN Lapsed(answers) \cup {n + 1}
           ELSE Lapsed(answers)
<1> DEFINE new == Append(answers, a)
<1>1. /\ n \in Nat /\ DOMAIN answers = 1..n /\ DOMAIN new = 1..(n + 1)
      /\ new[n + 1] = a /\ \A i \in 1..n : new[i] = answers[i]
  OBVIOUS
<1> HIDE DEF new
<1>2. Lapsed(new) = {i \in 1..(n + 1) : E!IsLapse(new[i].quality, new[i].algorithm)}
  BY <1>1 DEF Lapsed
<1>3. Lapsed(answers) = {i \in 1..n : E!IsLapse(new[i].quality, new[i].algorithm)}
  BY <1>1 DEF Lapsed
<1>4. \A i : i \in 1..(n + 1) <=> i \in 1..n \/ i = n + 1 BY <1>1
<1>5. Lapsed(new) = IF E!IsLapse(a.quality, a.algorithm) THEN Lapsed(answers) \cup {n + 1}
                    ELSE Lapsed(answers) BY <1>1, <1>2, <1>3, <1>4
<1> QED BY <1>5 DEF new

LEMMA SinceGrows ==
  ASSUME NEW A, NEW answers \in Seq(A), NEW a \in A, NEW n, n = Len(answers)
  PROVE  Since(Append(answers, a)) =
           IF E!Resets(a) THEN {} ELSE Since(answers) \cup {n + 1}
<1> DEFINE new == Append(answers, a)
<1>1. /\ n \in Nat /\ DOMAIN answers = 1..n /\ DOMAIN new = 1..(n + 1)
      /\ Len(new) = n + 1
      /\ new[n + 1] = a /\ \A i \in 1..n : new[i] = answers[i]
  OBVIOUS
<1> HIDE DEF new
<1>2. Since(new) = {i \in 1..(n + 1) : \A j \in i..(n + 1) : ~ E!Resets(new[j])} BY <1>1 DEF Since
<1>3. Since(answers) = {i \in 1..n : \A j \in i..n : ~ E!Resets(answers[j])} BY <1>1 DEF Since
<1>4. CASE E!Resets(a)
  <2>1. \A i \in 1..(n + 1) : n + 1 \in i..(n + 1) BY <1>1
  <2>2. Since(new) = {} BY <1>1, <1>2, <1>4, <2>1
  <2> QED BY <1>4, <2>2 DEF new
<1>5. CASE ~ E!Resets(a)
  <2>1. ASSUME NEW i \in 1..n
        PROVE  (\A j \in i..(n + 1) : ~ E!Resets(new[j]))
               <=> (\A j \in i..n : ~ E!Resets(answers[j]))
    <3>1. \A j : j \in i..(n + 1) <=> j \in i..n \/ j = n + 1 BY <1>1
    <3>2. \A j \in i..n : j \in 1..n BY <1>1
    <3> QED BY <1>1, <1>5, <3>1, <3>2
  <2>2. \A j \in (n + 1)..(n + 1) : j = n + 1 BY <1>1
  <2>3. \A i : i \in 1..(n + 1) <=> i \in 1..n \/ i = n + 1 BY <1>1
  <2>4. \A i : i \in Since(new) <=> i \in Since(answers) \/ i = n + 1
    <3>1. \A i \in 1..n : i \in Since(new) <=> i \in Since(answers) BY <1>2, <1>3, <2>1, <2>3
    <3>2. n + 1 \in Since(new) BY <1>1, <1>2, <1>5, <2>2, <2>3
    <3>3. \A i : (i \in Since(new) => i \in 1..(n + 1)) /\ (i \in Since(answers) => i \in 1..n)
      BY <1>2, <1>3
    <3> QED BY <2>3, <3>1, <3>2, <3>3
  <2>5. Since(new) = Since(answers) \cup {n + 1} BY <2>4
  <2> QED BY <1>5, <2>5 DEF new
<1> QED BY <1>4, <1>5

LEMMA CountsFacts ==
  ASSUME NEW A, NEW answers \in Seq(A), NEW n, n = Len(answers)
  PROVE  /\ IsFiniteSet(Lapsed(answers)) /\ n + 1 \notin Lapsed(answers)
         /\ IsFiniteSet(Since(answers)) /\ n + 1 \notin Since(answers)
         /\ Cardinality(Lapsed(answers)) \in Nat /\ Cardinality(Since(answers)) \in Nat
<1>1. n \in Nat /\ DOMAIN answers = 1..n OBVIOUS
<1>2. Lapsed(answers) \subseteq 1..n /\ Since(answers) \subseteq 1..n BY <1>1 DEF Lapsed, Since
<1>3. IsFiniteSet(1..n) /\ n + 1 \notin 1..n BY <1>1, FS_Interval
<1>4. IsFiniteSet(Lapsed(answers)) /\ IsFiniteSet(Since(answers)) BY <1>2, <1>3, FS_Subset
<1> QED BY <1>2, <1>3, <1>4, FS_CardinalityType

(* One more answer.                                                         *)
LEMMA CountedStep ==
  ASSUME NEW answers, NEW d, Counted(d, answers), NEW q \in E!Qualities, NEW alg \in Algorithms,
         NEW x,
         x.lapses = (IF E!IsLapse(q, alg) THEN d.lapses + 1 ELSE d.lapses),
         x.repetition = (IF alg # "fsrs" /\ E!IsLapse(q, alg) THEN 0 ELSE d.repetition + 1)
  PROVE  Counted(x, Append(answers, [quality |-> q, algorithm |-> alg]))
<1> DEFINE A == [quality : E!Qualities, algorithm : Algorithms]
           a == [quality |-> q, algorithm |-> alg]
           n == Len(answers)
           new == Append(answers, a)
<1>1. answers \in Seq(A) /\ a \in A /\ a.quality = q /\ a.algorithm = alg BY DEF Counted
<1>2. E!Resets(a) <=> alg # "fsrs" /\ E!IsLapse(q, alg) BY <1>1 DEF E!Resets
<1> HIDE DEF A, a
<1>3. new \in Seq(A) BY <1>1
<1>4. /\ IsFiniteSet(Lapsed(answers)) /\ n + 1 \notin Lapsed(answers)
      /\ IsFiniteSet(Since(answers)) /\ n + 1 \notin Since(answers) BY <1>1, CountsFacts
<1>5. Lapsed(new) = IF E!IsLapse(q, alg) THEN Lapsed(answers) \cup {n + 1} ELSE Lapsed(answers)
  BY <1>1, LapsedGrows
<1>6. Since(new) = IF E!Resets(a) THEN {} ELSE Since(answers) \cup {n + 1} BY <1>1, SinceGrows
<1> HIDE DEF n, new
<1>7. Cardinality(Lapsed(new)) = x.lapses
  <2>1. Cardinality(Lapsed(answers) \cup {n + 1}) = Cardinality(Lapsed(answers)) + 1
    BY <1>4, FS_AddElement
  <2> QED BY <1>5, <2>1 DEF Counted
<1>8. Cardinality(Since(new)) = x.repetition
  <2>1. Cardinality(Since(answers) \cup {n + 1}) = Cardinality(Since(answers)) + 1
    BY <1>4, FS_AddElement
  <2>2. Cardinality({}) = 0 BY FS_EmptySet
  <2> QED BY <1>2, <1>6, <2>1, <2>2 DEF Counted
<1>9. Counted(x, new) BY <1>3, <1>7, <1>8 DEF Counted, A
<1> QED BY <1>9 DEF new, a

LEMMA SpacedStep ==
  ASSUME Powers, NEW answers, NEW d, NEW k \in E!Config, CardTrue(d, answers, k.fuzz),
         NEW q \in E!Qualities, NEW x, Ends(x.history, q),
         E!Schedule(x) \in E!Outcomes(k, q, d)
  PROVE  LET new == Append(answers, [quality |-> q, algorithm |-> k.algorithm]) IN
         /\ Spaced(x, new, k.fuzz)
         /\ ~ E!ByFSRS(new) /\ ~ k.fuzz /\ ~ E!IsLapse(q, k.algorithm) => x.interval >= d.interval
<1> DEFINE A == [quality : E!Qualities, algorithm : Algorithms]
           a == [quality |-> q, algorithm |-> k.algorithm]
           n == Len(answers)
           new == Append(answers, a)
           s == E!Schedule(x)
<1>1. /\ answers \in Seq(A) /\ a \in A /\ a.quality = q /\ a.algorithm = k.algorithm
  BY DEF CardTrue, Counted, E!Config
<1>2. /\ n \in Nat /\ DOMAIN answers = 1..n /\ DOMAIN new = 1..(n + 1) /\ Len(new) = n + 1
      /\ new[n + 1] = a /\ (\A i \in 1..n : new[i] = answers[i]) /\ new # <<>>
      /\ (answers # <<>> => n \in 1..n)
  <2> HIDE DEF A, a
  <2>1. n \in Nat /\ DOMAIN answers = 1..n /\ (answers # <<>> => n \in 1..n) BY <1>1
  <2>2. new \in Seq(A) /\ Len(new) = n + 1 BY <1>1
  <2>3. new[n + 1] = a BY <1>1
  <2>4. \A i \in 1..n : new[i] = answers[i] BY <1>1
  <2> HIDE DEF n, new
  <2>5. DOMAIN new = 1..(n + 1) /\ new # <<>> BY <2>1, <2>2
  <2> QED BY <2>1, <2>2, <2>3, <2>4, <2>5
<1> HIDE DEF A, a, n, new
<1>3. E!ByFSRS(new) <=> E!ByFSRS(answers) \/ k.algorithm = "fsrs"
  <2>1. \A i : i \in 1..(n + 1) <=> i \in 1..n \/ i = n + 1 BY <1>2
  <2> QED BY <1>1, <1>2, <2>1 DEF E!ByFSRS
<1>4. IsCard(d) /\ Spaced(d, answers, k.fuzz) BY DEF CardTrue, IsCard, E!Scheduled, E!Schedule
<1>5. s.interval = x.interval /\ s.repetition = x.repetition BY DEF E!Schedule
<1>6. /\ s \in E!Scheduled
      /\ s.repetition = IF k.algorithm # "fsrs" /\ E!IsLapse(q, k.algorithm) THEN 0
                        ELSE d.repetition + 1
      /\ k.algorithm # "fsrs" /\ (d.repetition = 0 \/ d.interval >= 1) => s.interval >= 1
      /\ k.algorithm # "fsrs" /\ ~ k.fuzz /\ Low(d) =>
           IF E!IsLapse(q, k.algorithm) THEN s.interval <= 1
           ELSE s.interval >= d.interval /\ (d.repetition = 0 => s.interval <= 6)
  BY <1>4, OutcomeFacts
<1> HIDE DEF s
<1>7. ~ E!ByFSRS(answers) => d.repetition = 0 \/ d.interval >= 1 BY <1>4 DEF Spaced, E!NewCard
<1>8. ~ E!ByFSRS(new) => x.interval >= 1 BY <1>3, <1>5, <1>6, <1>7
<1>9. ~ E!ByFSRS(new) /\ ~ k.fuzz => Low(x)
  <2> SUFFICES ASSUME ~ E!ByFSRS(new), ~ k.fuzz PROVE Low(x) OBVIOUS
  <2>1. Low(d) BY <1>3, <1>4 DEF Spaced
  <2>2. x.interval \in Int /\ d.repetition \in Nat BY <1>4, <1>5, <1>6 DEF E!Scheduled, IsCard
  <2> QED BY <1>3, <1>5, <1>6, <2>1, <2>2 DEF Low
<1>10. Ends(x.history, new[Len(new)].quality) BY <1>1, <1>2
<1>11. Spaced(x, new, k.fuzz) BY <1>2, <1>8, <1>9, <1>10 DEF Spaced
<1>12. ~ E!ByFSRS(new) /\ ~ k.fuzz /\ ~ E!IsLapse(q, k.algorithm) => x.interval >= d.interval
  BY <1>3, <1>4, <1>5, <1>6 DEF Spaced
<1> QED BY <1>11, <1>12 DEF new, a

LEMMA RememberedFacts ==
  ASSUME NEW history \in Seq(E!Qualities), Len(history) <= HistoryLimit, NEW q \in E!Qualities
  PROVE  Ends(E!Remembered(history, q), q)
<1> DEFINE all == Append(history, q)
           n == Len(history)
<1>1. /\ n \in Nat /\ all \in Seq(E!Qualities) /\ Len(all) = n + 1 /\ all[n + 1] = q
      /\ all # <<>>
  OBVIOUS
<1>2. HistoryLimit \in Nat /\ HistoryLimit >= 1 /\ n <= HistoryLimit BY Constants
<1> HIDE DEF all, n
<1>3. CASE Len(all) > HistoryLimit
  <2>1. /\ Tail(all) \in Seq(E!Qualities) /\ Len(Tail(all)) = n
        /\ \A i \in 1..n : Tail(all)[i] = all[i + 1] BY <1>1
  <2>2. n \in 1..HistoryLimit /\ n \in 1..n BY <1>1, <1>2, <1>3
  <2>3. Tail(all)[n] = q BY <1>1, <2>1, <2>2
  <2>4. E!Remembered(history, q) = Tail(all) BY <1>3 DEF E!Remembered, all
  <2> QED BY <2>1, <2>2, <2>3, <2>4 DEF Ends
<1>4. CASE ~ Len(all) > HistoryLimit
  <2>1. E!Remembered(history, q) = all BY <1>4 DEF E!Remembered, all
  <2>2. n + 1 \in 1..HistoryLimit BY <1>1, <1>2, <1>4
  <2> QED BY <1>1, <2>1, <2>2 DEF Ends
<1> QED BY <1>3, <1>4

(* The cache after a hit and after a miss holds what it held, and the new   *)
(* entry.                                                                  *)
LEMMA RefreshedKeeps ==
  ASSUME NEW Kind, results \in Seq(Kind), NEW i \in DOMAIN results
  PROVE  E!Refreshed(i) \in Seq(Kind)
<1>1. i \in 1..Len(results) /\ Len(results) \in Nat /\ results[i] \in Kind OBVIOUS
<1>2. SubSeq(results, 1, i - 1) \in Seq(Kind) /\ SubSeq(results, i + 1, Len(results)) \in Seq(Kind)
  BY <1>1
<1>3. <<results[i]>> \in Seq(Kind) BY <1>1
<1> QED BY <1>2, <1>3, ConcatProperties DEF E!Refreshed

LEMMA InsertedKeeps ==
  ASSUME NEW Kind, results \in Seq(Kind), NEW e \in Kind
  PROVE  E!Inserted(e) \in Seq(Kind)
<1>1. CacheSize \in Nat /\ CacheSize > 0 BY SrsLimits
<1>2. CASE Len(results) >= CacheSize
  <2>1. results # <<>> BY <1>1, <1>2
  <2>2. Tail(results) \in Seq(Kind) BY <2>1
  <2> QED BY <1>2, <2>2 DEF E!Inserted
<1>3. CASE ~ Len(results) >= CacheSize BY <1>3 DEF E!Inserted
<1> QED BY <1>2, <1>3

(* Whether the result is cached or calculated, it is what the strategy      *)
(* answers for this card, with the answer remembered.                      *)
LEMMA Reviewed ==
  ASSUME Powers, SrsInv, NEW c \in SrsCards, NEW q \in E!Qualities,
         E!ReviewCached(c, q) \/ E!ReviewCalculated(c, q)
  PROVE  /\ SrsTrue(srs_config, results')
         /\ \E x \in E!Data :
              /\ srs_cards' = [srs_cards EXCEPT ![c] = x]
              /\ E!Schedule(x) \in E!Outcomes(srs_config, q, srs_cards[c]) /\ Ends(x.history, q)
<1> DEFINE d == srs_cards[c]
<1>1. srs_config \in E!Config /\ results \in Seq(Answers(srs_config)) /\ CardTrue(d, answered[c], srs_config.fuzz)
  BY DEF SrsInv, SrsTrue
<1>2. IsCard(d) /\ E!Schedule(d) \in E!Scheduled /\ d.history \in Seq(E!Qualities)
      /\ Len(d.history) <= HistoryLimit
  BY <1>1 DEF CardTrue, IsCard, E!Scheduled, E!Schedule, E!Data
<1>3. CASE E!ReviewCached(c, q)
  <2>1. PICK i \in DOMAIN results : /\ results[i].key = E!Key(q, d)
                                  /\ srs_cards' = [srs_cards EXCEPT ![c] = results[i].data]
                                  /\ results' = E!Refreshed(i) BY <1>3 DEF E!ReviewCached, E!Hits
  <2>2. results[i] \in E!Entry /\ EntryTrue(srs_config, results[i]) BY <1>1 DEF Answers
  <2>3. results[i].key.quality = q /\ results[i].key.data = E!Schedule(d) BY <2>1 DEF E!Key
  <2>4. E!Outcomes(srs_config, q, E!Schedule(d)) = E!Outcomes(srs_config, q, d) BY SameOutcomes
  <2>5. E!Schedule(results[i].data) \in E!Outcomes(srs_config, q, d) /\ Ends(results[i].data.history, q)
    BY <2>2, <2>3, <2>4 DEF EntryTrue
  <2>6. results[i].data \in E!Data BY <2>2 DEF E!Entry
  <2>7. SrsTrue(srs_config, results') BY <1>1, <2>1, RefreshedKeeps DEF SrsTrue
  <2> QED BY <2>1, <2>5, <2>6, <2>7
<1>4. CASE E!ReviewCalculated(c, q)
  <2>1. PICK s \in E!Outcomes(srs_config, q, d) :
          LET data == [repetition |-> s.repetition, ease |-> s.ease,
                       interval |-> s.interval, lapses |-> s.lapses,
                       history |-> E!Remembered(d.history, q)]
          IN
          /\ srs_cards' = [srs_cards EXCEPT ![c] = data]
          /\ results' = E!Inserted([key |-> E!Key(q, d), data |-> data])
    BY <1>4 DEF E!ReviewCalculated
  <2> DEFINE x == [repetition |-> s.repetition, ease |-> s.ease,
                   interval |-> s.interval, lapses |-> s.lapses,
                   history |-> E!Remembered(d.history, q)]
             e == [key |-> E!Key(q, d), data |-> x]
  <2>2. srs_cards' = [srs_cards EXCEPT ![c] = x] /\ results' = E!Inserted(e) BY <2>1
  <2>3. s \in E!Scheduled BY <1>1, <1>2, OutcomeFacts
  <2>4. E!Schedule(x) = s BY <2>3 DEF E!Schedule, E!Scheduled
  <2>5. Ends(E!Remembered(d.history, q), q) BY <1>2, RememberedFacts
  <2>6. x \in E!Data /\ Ends(x.history, q)
    <3>1. s.repetition \in Nat /\ s.ease \in Int /\ s.interval \in Int /\ s.lapses \in Nat
      BY <2>3, Constants DEF E!Scheduled, E!MinEase, E!MaxEase
    <3> QED BY <2>5, <3>1 DEF E!Data, Ends
  <2> HIDE DEF x
  <2>7. e.key = E!Key(q, d) /\ e.data = x /\ e \in E!Entry
    <3>1. E!Key(q, d) \in [quality : E!Qualities, data : E!Scheduled, algorithm : Algorithms,
                         again : Nat] BY <1>1, <1>2 DEF E!Key, E!Config
    <3> QED BY <2>6, <3>1 DEF E!Entry
  <2> HIDE DEF e
  <2>8. EntryTrue(srs_config, e)
    <3>1. e.key.quality = q /\ e.key.data = E!Schedule(d) BY <2>7 DEF E!Key
    <3>2. E!Outcomes(srs_config, q, E!Schedule(d)) = E!Outcomes(srs_config, q, d) BY SameOutcomes
    <3> QED BY <2>4, <2>6, <2>7, <3>1, <3>2 DEF EntryTrue
  <2>9. e \in Answers(srs_config) BY <2>7, <2>8 DEF Answers
  <2>10. SrsTrue(srs_config, results') BY <1>1, <2>2, <2>9, InsertedKeeps DEF SrsTrue
  <2> QED BY <2>2, <2>4, <2>6, <2>10
<1> QED BY <1>3, <1>4
-----------------------------------------------------------------------------
(* A new card under no answers. *)
LEMMA NewCardTrue ==
  ASSUME NEW fuzz
  PROVE  CardTrue(E!NewCard, <<>>, fuzz)
<1>1. E!NewCard \in E!Data BY DEF E!NewCard, E!Data
<1>2. E!Schedule(E!NewCard) \in E!Scheduled
  BY Constants DEF E!Schedule, E!NewCard, E!Scheduled, E!MinEase, E!MaxEase
<1>3. Len(E!NewCard.history) <= HistoryLimit BY Constants DEF E!NewCard
<1>4. Counted(E!NewCard, <<>>)
  <2>1. Lapsed(<<>>) = {} /\ Since(<<>>) = {} BY DEF Lapsed, Since
  <2>2. Cardinality({}) = 0 BY FS_EmptySet
  <2>3. Cardinality(Lapsed(<<>>)) = 0 /\ Cardinality(Since(<<>>)) = 0 BY <2>1, <2>2
  <2>4. E!NewCard.lapses = 0 /\ E!NewCard.repetition = 0 BY DEF E!NewCard
  <2>5. <<>> \in Seq([quality : E!Qualities, algorithm : Algorithms]) OBVIOUS
  <2> QED BY <2>3, <2>4, <2>5 DEF Counted
<1>5. Spaced(E!NewCard, <<>>, fuzz) BY DEF Spaced, E!NewCard, Low
<1> QED BY <1>1, <1>2, <1>3, <1>4, <1>5 DEF CardTrue

LEMMA SrsStart == E!Init => SrsInv
<1> SUFFICES ASSUME E!Init PROVE SrsInv OBVIOUS
<1> DEFINE A == [quality : E!Qualities, algorithm : Algorithms]
<1>1. srs_cards = [c \in SrsCards |-> E!NewCard] /\ answered = [c \in SrsCards |-> <<>>]
      /\ results = <<>> /\ srs_saved = None /\ srs_calls = 0 BY DEF E!Init
<1>2. srs_config \in E!Config BY DEF E!Init, E!Config
<1>3. E!NewCard \in E!Data BY NewCardTrue DEF CardTrue
<1>4. <<>> \in Seq(A) /\ <<>> \in Seq(Answers(srs_config)) OBVIOUS
<1>5. \A c \in SrsCards : CardTrue(srs_cards[c], answered[c], srs_config.fuzz) BY <1>1, NewCardTrue
<1> QED BY <1>1, <1>2, <1>3, <1>4, <1>5 DEF SrsInv, SrsTrue

(* What a review makes of the card that is reviewed; a successful answer    *)
(* does not shorten its interval.                                          *)
LEMMA SrsReviewKeeps ==
  ASSUME Powers, SrsInv, NEW c \in SrsCards, NEW q \in E!Qualities,
         E!ReviewCached(c, q) \/ E!ReviewCalculated(c, q), srs_calls' \in Nat
  PROVE  /\ SrsInv'
         /\ answered' = [answered EXCEPT ![c] =
              Append(answered[c], [quality |-> q, algorithm |-> srs_config.algorithm])]
         /\ \A e \in SrsCards \ {c} : answered'[e] = answered[e]
         /\ ~ E!ByFSRS(answered'[c]) /\ ~ srs_config.fuzz /\ ~ E!IsLapse(q, srs_config.algorithm)
              => srs_cards'[c].interval >= srs_cards[c].interval
<1> DEFINE A == [quality : E!Qualities, algorithm : Algorithms]
           a == [quality |-> q, algorithm |-> srs_config.algorithm]
           d == srs_cards[c]
           new == Append(answered[c], a)
<1>1. /\ srs_config \in E!Config /\ d \in E!Data /\ CardTrue(d, answered[c], srs_config.fuzz)
      /\ answered[c] \in Seq(A) /\ srs_cards \in [SrsCards -> E!Data] /\ answered \in [SrsCards -> Seq(A)]
  BY DEF SrsInv, SrsTrue
<1>2. E!Calculates(c, q) BY DEF E!ReviewCached, E!ReviewCalculated
<1>3. answered' = [answered EXCEPT ![c] = new] /\ srs_config' = srs_config /\ srs_saved' = srs_saved
  BY <1>2 DEF E!Calculates
<1>4. SrsTrue(srs_config, results') BY Reviewed
<1>5. PICK x \in E!Data : /\ srs_cards' = [srs_cards EXCEPT ![c] = x]
                        /\ E!Schedule(x) \in E!Outcomes(srs_config, q, d) /\ Ends(x.history, q)
  BY Reviewed
<1>6. srs_config.algorithm \in Algorithms /\ a \in A /\ new \in Seq(A) BY <1>1 DEF E!Config
<1>7. Counted(x, new)
  <2>1. Counted(d, answered[c]) /\ IsCard(d) BY <1>1 DEF CardTrue, IsCard, E!Scheduled, E!Schedule
  <2> DEFINE s == E!Schedule(x)
  <2>2. x.lapses = s.lapses /\ x.repetition = s.repetition BY DEF E!Schedule
  <2> HIDE DEF s, d
  <2>3. /\ s.lapses = IF E!IsLapse(q, srs_config.algorithm) THEN d.lapses + 1 ELSE d.lapses
        /\ s.repetition = IF srs_config.algorithm # "fsrs" /\ E!IsLapse(q, srs_config.algorithm)
                            THEN 0 ELSE d.repetition + 1 BY <1>1, <1>5, <2>1, OutcomeFacts DEF s
  <2> QED BY <1>1, <1>6, <2>1, <2>2, <2>3, CountedStep DEF d
<1>8. /\ Spaced(x, new, srs_config.fuzz)
      /\ ~ E!ByFSRS(new) /\ ~ srs_config.fuzz /\ ~ E!IsLapse(q, srs_config.algorithm)
           => x.interval >= d.interval BY <1>1, <1>5, SpacedStep
<1>9. E!Schedule(x) \in E!Scheduled
  <2>1. IsCard(d) BY <1>1 DEF CardTrue, IsCard, E!Scheduled, E!Schedule
  <2> QED BY <1>1, <1>5, <2>1, OutcomeFacts
<1>10. Len(x.history) <= HistoryLimit BY <1>5, Constants DEF Ends
<1>11. CardTrue(x, new, srs_config.fuzz) BY <1>5, <1>7, <1>8, <1>9, <1>10 DEF CardTrue
<1> HIDE DEF A, d, new
<1>12. srs_cards'[c] = x /\ answered'[c] = new /\ srs_cards' \in [SrsCards -> E!Data]
       /\ answered' \in [SrsCards -> Seq(A)]
       /\ \A e \in SrsCards \ {c} : srs_cards'[e] = srs_cards[e] /\ answered'[e] = answered[e]
  BY <1>1, <1>3, <1>5, <1>6
<1>13. \A e \in SrsCards : CardTrue(srs_cards'[e], answered'[e], srs_config'.fuzz)
  BY <1>3, <1>11, <1>12 DEF SrsInv
<1>14. SrsInv' BY <1>3, <1>4, <1>12, <1>13 DEF SrsInv, A
<1> QED BY <1>3, <1>8, <1>12, <1>14 DEF d, new

(* Every call of the engine keeps the invariant. *)
LEMMA SrsStep == Powers /\ SrsInv /\ [E!Next]_(E!vars) => SrsInv'
<1> SUFFICES ASSUME Powers, SrsInv, [E!Next]_(E!vars) PROVE SrsInv' OBVIOUS
<1>1. srs_calls' \in Nat BY DEF E!Next, E!vars, SrsInv
<1>2. ASSUME NEW c \in SrsCards, NEW q \in E!Qualities, E!ReviewCached(c, q) \/ E!ReviewCalculated(c, q)
      PROVE  SrsInv' BY <1>1, <1>2, SrsReviewKeeps
<1>3. ASSUME NEW c \in SrsCards, E!ResetCard(c) PROVE SrsInv'
  <2>1. /\ srs_cards' = [srs_cards EXCEPT ![c] = E!NewCard] /\ answered' = [answered EXCEPT ![c] = <<>>]
        /\ srs_config' = srs_config /\ results' = results /\ srs_saved' = srs_saved
    BY <1>3 DEF E!ResetCard
  <2>2. E!NewCard \in E!Data /\ CardTrue(E!NewCard, <<>>, srs_config.fuzz)
    BY NewCardTrue DEF CardTrue
  <2>3. \A e \in SrsCards : CardTrue(srs_cards'[e], answered'[e], srs_config.fuzz)
    BY <2>1, <2>2 DEF SrsInv
  <2>4. srs_cards' \in [SrsCards -> E!Data] BY <2>1, <2>2 DEF SrsInv
  <2>5. answered' \in [SrsCards -> Seq([quality : E!Qualities, algorithm : Algorithms])]
    <3>1. <<>> \in Seq([quality : E!Qualities, algorithm : Algorithms]) OBVIOUS
    <3> QED BY <2>1, <3>1 DEF SrsInv
  <2>6. SrsTrue(srs_config', results')
        /\ (srs_saved' # None => SrsTrue(srs_saved'.config, srs_saved'.cache)
                               /\ srs_saved'.config.fuzz = srs_config'.fuzz) BY <2>1 DEF SrsInv
  <2> QED BY <1>1, <2>1, <2>3, <2>4, <2>5, <2>6 DEF SrsInv
<1>4. ASSUME NEW k \in E!Config, k.fuzz = srs_config.fuzz, srs_config' = k, results' = <<>>,
             UNCHANGED <<srs_cards, srs_saved, answered>>
      PROVE  SrsInv'
  <2>1. results' \in Seq(Answers(k)) BY <1>4
  <2>2. SrsTrue(srs_config', results') BY <1>4, <2>1 DEF SrsTrue
  <2> QED BY <1>1, <1>4, <2>2 DEF SrsInv
<1>5. ASSUME NEW algorithm \in Algorithms, E!SwitchAlgorithm(algorithm) PROVE SrsInv'
  <2> DEFINE k == [srs_config EXCEPT !.algorithm = algorithm]
  <2>1. k \in E!Config /\ k.fuzz = srs_config.fuzz BY DEF SrsInv, SrsTrue, E!Config
  <2> QED BY <1>4, <1>5, <2>1 DEF E!SwitchAlgorithm
<1>6. ASSUME NEW struggles \in BOOLEAN, NEW failing \in {"few", "some", "many"},
             E!AdaptToUser(struggles, failing)
      PROVE  SrsInv'
  <2> DEFINE k == E!Adapted(struggles, failing)
  <2>1. srs_config \in E!Config BY DEF SrsInv, SrsTrue
  <2>2. \A n \in Nat : (n * 12) \div 10 \in Nat /\ (n * 8) \div 10 \in Nat OBVIOUS
  <2>3. srs_config.bonus \in Nat /\ srs_config.penalty \in Nat /\ srs_config.hardPenalty \in Nat
        /\ srs_config.again \in Nat BY <2>1 DEF E!Config
  <2>4. /\ (IF struggles THEN (srs_config.bonus * 12) \div 10 ELSE srs_config.bonus) \in Nat
        /\ (IF struggles THEN (srs_config.penalty * 8) \div 10 ELSE srs_config.penalty) \in Nat
        /\ (IF struggles THEN (srs_config.hardPenalty * 8) \div 10 ELSE srs_config.hardPenalty) \in Nat
    BY <2>2, <2>3
  <2>5. (CASE failing = "many" -> 60 [] failing = "few" -> 40 [] failing = "some" -> srs_config.again)
          \in Nat BY <2>3
  <2>6. k \in E!Config /\ k.fuzz = srs_config.fuzz BY <2>1, <2>4, <2>5 DEF E!Adapted, E!Config
  <2> HIDE DEF k
  <2>7. srs_config' = k /\ results' = <<>> /\ UNCHANGED <<srs_cards, srs_saved, answered>>
    BY <1>6 DEF E!AdaptToUser, k
  <2> QED BY <1>4, <2>6, <2>7
<1>7. CASE E!ClearCache BY <1>4, <1>7 DEF E!ClearCache, SrsInv, SrsTrue
<1>8. CASE E!ToJSON BY <1>1, <1>8 DEF E!ToJSON, SrsInv
<1>9. CASE E!FromJSON BY <1>1, <1>9 DEF E!FromJSON, SrsInv
<1>10. CASE UNCHANGED E!vars BY <1>10 DEF E!vars, SrsInv
<1> QED BY <1>2, <1>3, <1>5, <1>6, <1>7, <1>8, <1>9, <1>10 DEF E!Next, E!Call
-----------------------------------------------------------------------------
(***************************************************************************)
(* The components together: a step is one of one component, and leaves the *)
(* others where they were.                                                 *)
(***************************************************************************)
IInv == /\ EngineInv /\ FacadeInv /\ SchedulerInv /\ ManagerInv
        /\ ProgressInv /\ ReviewInv /\ RewardsInv

LEMMA Starts == Init => IInv
  <1> SUFFICES ASSUME Init PROVE IInv OBVIOUS
  <1>1. /\ L!EngineInit /\ L!FacadeInit /\ S!SchedulerInit /\ S!ManagerInit
        /\ P!Init /\ R!Init /\ M!Init BY DEF Init
  <1>2. NoneIsNothing BY LimitsAssumption, NoneAssumption DEF NoneIsNothing
  <1>3. None \notin L!Results BY NoneAssumption
  <1> QED BY <1>1, <1>2, <1>3, EngineStarts, FacadeStarts, SchedulerStarts, ManagerStarts,
       ProgressStarts, ReviewStarts, RewardsStart DEF IInv

(* A step of the services is one of each of them, or leaves it alone.      *)
LEMMA Steps ==
  [Next]_vars => /\ [L!EngineNext]_(L!engine_vars) /\ [L!FacadeNext]_(L!facade_vars)
                 /\ [S!SchedulerNext]_(S!scheduler_vars) /\ [S!ManagerNext]_(S!manager_vars)
                 /\ [P!Next]_(P!vars) /\ [R!Next]_(R!vars) /\ [M!Next]_(M!vars)
                 /\ [E!Next]_(E!vars)
  BY DEF Next, vars, LessonStep, SchedulerStep, ProgressStep, ReviewStep, ManagerStep,
     FacadeStep, ReviewsStep, L!engine_vars, L!facade_vars, S!scheduler_vars,
     S!manager_vars, P!vars, R!vars, M!vars, EngineStep, E!vars, lesson_vars,
     scheduler_vars, progress_vars, review_vars, manager_vars, facade_vars, schedule_vars,
     engine_vars

LEMMA Keep == IInv /\ [Next]_vars => IInv'
  <1> SUFFICES ASSUME IInv, [Next]_vars PROVE IInv' OBVIOUS
  <1>1. NoneIsNothing BY LimitsAssumption, NoneAssumption DEF NoneIsNothing
  <1>2. EngineInv' /\ FacadeInv' BY Steps, EngineKeeps, FacadeKeeps DEF IInv
  <1>3. SchedulerInv' /\ ManagerInv' BY Steps, SchedulerKeeps, ManagerKeeps DEF IInv
  <1>4. ProgressInv' /\ ReviewInv' BY Steps, ProgressKeeps, ReviewKeeps DEF IInv
  <1>5. RewardsInv' BY <1>1, Steps, RewardsKeeps DEF IInv
  <1> QED BY <1>2, <1>3, <1>4, <1>5 DEF IInv

LEMMA Always == Spec => []IInv BY Starts, Keep, PTL DEF Spec

(* Every behaviour of the services together is one of each of them.        *)
THEOREM EachIsItself ==
  Spec => /\ L!EngineSpec /\ L!FacadeSpec /\ S!SchedulerSpec /\ S!ManagerSpec
          /\ P!Spec /\ R!Spec /\ M!Spec /\ E!Spec
  <1>1. Init => /\ L!EngineInit /\ L!FacadeInit /\ S!SchedulerInit /\ S!ManagerInit
                /\ P!Init /\ R!Init /\ M!Init /\ E!Init BY DEF Init
  <1> QED BY <1>1, Steps, PTL DEF Spec, L!EngineSpec, L!FacadeSpec, S!SchedulerSpec, S!ManagerSpec,
       P!Spec, R!Spec, M!Spec, E!Spec

(* The variables of every service have values of their kinds.              *)
THEOREM ValuesAreTyped == Spec => []TypeOK
  <1>1. IInv => TypeOK
    <2> SUFFICES ASSUME IInv PROVE TypeOK OBVIOUS
    <2>1. L!TypeOK BY EngineImplies DEF IInv, FacadeInv, L!TypeOK
    <2>2. S!TypeOK BY SchedulerImplies, ManagerImplies DEF IInv, S!TypeOK
    <2>3. P!TypeOK BY ProgressImplies DEF IInv
    <2>4. R!TypeOK BY DEF IInv, ReviewInv
    <2>5. M!TypeOK
      <3>1. \A t \in Trackers : track[t].at \in Holding => track[t].obj \in Objects /\ object[track[t].obj] # None
        BY DEF IInv, RewardsInv, References, Tracks
      <3>2. \A p \in M!ProgressRows \ {None} : p.longest \in 0..MaxStreak
        BY LimitsAssumption DEF IInv, RewardsInv, RewardRows, Good, Fair, RewardRow, M!ProgressRows
      <3>3. progressCache \in Objects \cup {None} BY DEF IInv, RewardsInv, References
      <3> QED BY <3>1, <3>2, <3>3 DEF Holding, M!TypeOK
    <2> QED BY <2>1, <2>2, <2>3, <2>4, <2>5 DEF TypeOK
  <1> QED BY <1>1, Always, PTL

(* lesson_engine/lesson_service.js, features/lesson/lesson_service.js:     *)
(* whatever the history of a lesson, a better result is asked no sooner    *)
(* than a worse one; a call announces a completion only when a review is   *)
(* stored, announces once, and nothing when it was aborted.                *)
THEOREM LessonsKept == Spec => []LessonsAreKept
  <1>1. IInv => LessonsAreKept BY EngineImplies, FacadeImplies DEF IInv, LessonsAreKept
  <1> QED BY <1>1, Always, PTL

(* srs_scheduler.js, srs_manager.js: whatever is reviewed and however many *)
(* days pass between its parts, a batch run lists each card that was due   *)
(* throughout once and none that never was; a cached score of today is     *)
(* less than a day's penalty below the true one and never above it, unless *)
(* its card failed since it was scored; a listed lesson is due.            *)
THEOREM ReviewsListed == Spec => []ReviewsAreListed
  <1>1. IInv => ReviewsAreListed BY SchedulerImplies, ManagerImplies DEF IInv, ReviewsAreListed
  <1> QED BY <1>1, Always, PTL

(* progress_service.js, review_service.js: a cached row or statistic is    *)
(* the stored one or is about to go, unless a read or a count that a write *)
(* overtook put it there, nobody heard of the write, or the cache could    *)
(* not be emptied; the next emptying ends each of these.                   *)
THEOREM CachesTrue == Spec => []CachesAgree
  <1>1. IInv => CachesAgree BY ProgressImplies DEF IInv, ReviewInv, CachesAgree
  <1> QED BY <1>1, Always, PTL

(* progress-manager.js: whatever overlaps, fails or is reloaded, no row in *)
(* memory or in the repository holds a reward twice or without its         *)
(* achievement, and no streak is beyond its longest.                       *)
THEOREM RewardsArePaidOnce == Spec => []RewardedOnce
  <1>1. IInv => RewardedOnce
    BY DEF IInv, RewardsInv, RewardRows, Good, Fair, RewardedOnce, M!RewardedOnce, M!ProgressRows
  <1> QED BY <1>1, Always, PTL

(* progress-manager.js: a call past its loads holds an object that still   *)
(* exists, and so does the cache: nothing is written to an object that was *)
(* dropped, and what a load brings is a fair row.                          *)
THEOREM NothingDangles == Spec => []References
  <1>1. IInv => References BY DEF IInv, RewardsInv
  <1> QED BY <1>1, Always, PTL

(* LRUCache never holds more than cacheSize results nor two of one key,    *)
(* whatever is reviewed, switched, adapted, saved and restored.            *)
THEOREM CacheBounded == Spec => []E!CacheIsBoundedMap
  <1>1. E!Init => CacheInv BY EmptyBounded DEF E!Init, CacheInv
  <1>2. CacheInv => E!CacheIsBoundedMap BY DEF CacheInv, BoundedMap, E!CacheIsBoundedMap
  <1> QED BY <1>1, <1>2, CacheStep, EachIsItself, PTL DEF E!Spec

(* Cards and cached results are sound after every sequence of calls,        *)
(* whatever the parameters have been adapted to: a result can be reviewed   *)
(* again, the cache holds what the current strategy answers and one result  *)
(* a key, and a card's repetitions and lapses are those of its own answers. *)
THEOREM CardsSound ==
  ASSUME Powers
  PROVE  Spec => []CardsAreSound
<1> DEFINE Inv == SrsInv /\ CacheInv
<1>1. Inv => CardsAreSound
  <2> SUFFICES ASSUME SrsInv, CacheInv PROVE CardsAreSound OBVIOUS
  <2>1. /\ srs_config \in E!Config /\ results \in Seq(Answers(srs_config))
        /\ \A c \in SrsCards : CardTrue(srs_cards[c], answered[c], srs_config.fuzz)
    BY DEF SrsInv, SrsTrue
  <2>2. \A k : Answers(k) \subseteq E!Entry BY DEF Answers
  <2>3. ASSUME NEW k, NEW s \in Seq(Answers(k)) PROVE s \in Seq(E!Entry) BY <2>2
  <2>4. E!TypeOK
    <3>1. \A c \in SrsCards : Len(srs_cards[c].history) <= HistoryLimit BY <2>1 DEF CardTrue
    <3>2. results \in Seq(E!Entry) BY <2>1, <2>3
    <3>3. srs_saved # None => srs_saved.config \in E!Config /\ srs_saved.cache \in Seq(E!Entry)
      BY <2>3 DEF SrsInv, SrsTrue
    <3> QED BY <2>1, <3>1, <3>2, <3>3 DEF E!TypeOK, SrsInv
  <2>5. E!Reviewable
    <3> SUFFICES ASSUME NEW c \in SrsCards
                 PROVE  E!Valid(srs_cards[c]) /\ srs_cards[c].interval <= MaxInterval
      BY DEF E!Reviewable
    <3>1. E!Schedule(srs_cards[c]) \in E!Scheduled BY <2>1 DEF CardTrue
    <3>2. srs_cards[c].repetition \in Nat /\ srs_cards[c].ease \in E!MinEase..E!MaxEase
          /\ srs_cards[c].interval \in 0..MaxInterval BY <3>1 DEF E!Schedule, E!Scheduled
    <3>3. MaxInterval \in Nat /\ E!MAX_INTERVAL \in Int /\ MaxInterval <= E!MAX_INTERVAL
      BY Constants DEF E!MAX_INTERVAL
    <3>4. srs_cards[c].interval \in 0..E!MAX_INTERVAL /\ srs_cards[c].interval <= MaxInterval
      BY <3>2, <3>3
    <3> QED BY <3>2, <3>4 DEF E!Valid
  <2>6. E!ScheduledAhead BY <2>1 DEF E!ScheduledAhead, CardTrue, Spaced
  <2>7. E!CacheAgrees BY <2>1 DEF E!CacheAgrees, Answers, EntryTrue
  <2>8. E!CacheIsBoundedMap BY DEF CacheInv, BoundedMap, E!CacheIsBoundedMap
  <2>9. E!CardsDoNotMix
    <3>1. \A X : E!Cardinality(X) = Cardinality(X) BY DEF E!Cardinality, Cardinality
    <3> QED BY <2>1, <3>1 DEF E!CardsDoNotMix, CardTrue, Counted, Spaced, Ends, Lapsed, Since
  <2> QED BY <2>4, <2>5, <2>6, <2>7, <2>8, <2>9 DEF CardsAreSound, E!CardsAreSound
<1>2. E!Init => CacheInv BY EmptyBounded DEF E!Init, CacheInv
<1>3. E!Init => Inv BY <1>2, SrsStart
<1>4. Inv /\ [E!Next]_(E!vars) => Inv' BY CacheStep, SrsStep
<1> QED BY <1>1, <1>3, <1>4, EachIsItself, PTL DEF E!Spec

(* A successful answer never shortens a card's interval, unless FSRS has    *)
(* scheduled it or intervals are fuzzed: SM-2 and Anki answers, cached or   *)
(* calculated, may be mixed as the caller switches between them.            *)
THEOREM IntervalsGrow ==
  ASSUME Powers
  PROVE  Spec => SuccessNeverShortens
<1> DEFINE Act ==
      \A c \in SrsCards :
        LET n == Len(answered'[c]) IN
        n > Len(answered[c]) /\ ~ E!ByFSRS(answered'[c]) /\ ~ srs_config.fuzz
        /\ ~ E!IsLapse(answered'[c][n].quality, answered'[c][n].algorithm)
        => srs_cards'[c].interval >= srs_cards[c].interval
<1>1. SrsInv /\ [E!Next]_(E!vars) => [Act]_(E!vars)
  <2> SUFFICES ASSUME SrsInv, [E!Next]_(E!vars), NEW c \in SrsCards, Len(answered'[c]) > Len(answered[c]),
                      ~ E!ByFSRS(answered'[c]), ~ srs_config.fuzz,
                      ~ E!IsLapse(answered'[c][Len(answered'[c])].quality, answered'[c][Len(answered'[c])].algorithm)
               PROVE  srs_cards'[c].interval >= srs_cards[c].interval BY DEF Act
  <2> DEFINE A == [quality : E!Qualities, algorithm : Algorithms]
  <2>1. answered \in [SrsCards -> Seq(A)] /\ Len(answered[c]) \in Nat /\ answered[c] \in Seq(A)
    <3>1. answered \in [SrsCards -> Seq(A)] BY DEF SrsInv
    <3> HIDE DEF A
    <3> QED BY <3>1
  <2>2. answered'[c] # answered[c] BY <2>1
  <2>3. ASSUME NEW e \in SrsCards, NEW q \in E!Qualities,
               E!ReviewCached(e, q) \/ E!ReviewCalculated(e, q), srs_calls' \in Nat
        PROVE  srs_cards'[c].interval >= srs_cards[c].interval
    <3> DEFINE a == [quality |-> q, algorithm |-> srs_config.algorithm]
               new == Append(answered[e], a)
    <3>1. /\ answered' = [answered EXCEPT ![e] = new]
          /\ \A f \in SrsCards \ {e} : answered'[f] = answered[f]
          /\ ~ E!ByFSRS(answered'[e]) /\ ~ srs_config.fuzz /\ ~ E!IsLapse(q, srs_config.algorithm)
               => srs_cards'[e].interval >= srs_cards[e].interval BY <2>3, SrsReviewKeeps
    <3>2. e = c BY <2>2, <3>1
    <3>3. a \in A BY DEF SrsInv, SrsTrue, E!Config
    <3>4. answered'[c] = new BY <2>1, <3>1, <3>2
    <3>5. new[Len(new)] = a
      <4> HIDE DEF A, a
      <4> QED BY <2>1, <3>2, <3>3
    <3>6. ~ E!IsLapse(q, srs_config.algorithm)
      <4>1. answered'[c][Len(answered'[c])] = a BY <3>4, <3>5
      <4> QED BY <4>1
    <3> QED BY <3>1, <3>2, <3>6
  <2>4. ASSUME NEW e \in SrsCards, E!ResetCard(e) PROVE FALSE
    <3>1. answered' = [answered EXCEPT ![e] = <<>>] BY <2>4 DEF E!ResetCard
    <3>2. Len(answered'[c]) = 0 \/ answered'[c] = answered[c] BY <2>1, <3>1
    <3> QED BY <2>1, <2>2, <3>2
  <2>5. ASSUME answered' = answered PROVE FALSE BY <2>2, <2>5
  <2>6. srs_calls' \in Nat BY DEF E!Next, E!vars, SrsInv
  <2> QED BY <2>3, <2>4, <2>5, <2>6
       DEF E!Next, E!Call, E!SwitchAlgorithm, E!AdaptToUser, E!ClearCache, E!ToJSON, E!FromJSON, E!vars
<1> QED
  BY <1>1, SrsStart, SrsStep, EachIsItself, PTL DEF E!Spec, SuccessNeverShortens, E!SuccessNeverShortens, Act
=============================================================================
