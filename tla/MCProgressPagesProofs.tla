------------------------ MODULE MCProgressPagesProofs ------------------------
(***************************************************************************)
(* What a learner has earned is kept and shown as it is, for any number of *)
(* days, calls, rows, answers, achievements, loads and texts.  Each of the *)
(* fourteen components has an inductive invariant of its own; a step of    *)
(* the components together is a step of one and leaves the others alone.   *)
(***************************************************************************)
EXTENDS MCProgressPages, FiniteSetTheorems, SequenceTheorems, WellFoundedInduction, TLAPS
-----------------------------------------------------------------------------
(***************************************************************************)
(* streak_service.js: a row claims no more days than have passed by the    *)
(* day it was last counted; while calls follow one another what a call has *)
(* read or stored is the row, and the cache is told of it.                 *)
(***************************************************************************)
StreakRow == {s \in K!Rows : /\ s.current <= s.last /\ s.longest <= s.last /\ s.last <= today
                             /\ s.freezes + s.history <= FreezesPerMonth}
Saving == [op : {"none", "read", "create", "update", "reset", "get"},
           row : StreakRow \cup {None}, stored : BOOLEAN]
Occupied(c) == saving[c].op # "none"
RowsTold ==
  /\ \A c, d \in Calls : Occupied(c) /\ Occupied(d) => c = d
  /\ \A c \in Calls : /\ saving[c].op \in {"read", "get"} \/ saving[c].stored
                           => saving[c].row = streak
                      /\ saving[c].op = "create" => cached_streak = None
  /\ (\A c \in Calls : ~saving[c].stored) => cached_streak \in {streak, None}
CallsHaveRows ==
  \A c \in Calls : /\ saving[c].op \notin {"none", "read"} => saving[c].row # None
                   /\ saving[c].stored => saving[c].op \in {"create", "update", "reset"}
StreakInv ==
  /\ today \in 0..StreakDays /\ raced \in BOOLEAN
  /\ {streak, cached_streak} \subseteq StreakRow \cup {None}
  /\ saving \in [Calls -> Saving]
  /\ CallsHaveRows
  /\ ~raced => RowsTold

LEMMA StreakLimits ==
  /\ FreezesPerMonth \in Nat \ {0} /\ StreakDays \in Nat /\ RequiredStreak \in 0..StreakDays
  /\ None \notin K!Rows /\ None \notin StreakRow /\ StreakRow \subseteq K!Rows
  BY LimitsAssumption, NoDataAssumption DEF StreakRow

LEMMA StreakStarts == K!ServiceInit => StreakInv
 <1> SUFFICES ASSUME K!ServiceInit PROVE StreakInv OBVIOUS
 <1>1. today \in 0..StreakDays /\ today = RequiredStreak BY StreakLimits DEF K!ServiceInit
 <1>2. [K!Legacy EXCEPT !.last = RequiredStreak] \in StreakRow
  <2> DEFINE F == K!Fresh(0, RequiredStreak, RequiredStreak)
             E == [F EXCEPT !.freezes = FreezesPerMonth - 1]
             G == [E EXCEPT !.version = 1]
  <2>1. F \in K!Rows /\ F.current = RequiredStreak /\ F.longest = RequiredStreak /\ F.history = 0
    BY StreakLimits DEF K!Fresh, K!Rows
  <2> HIDE DEF F
  <2>2. FreezesPerMonth - 1 \in 0..FreezesPerMonth BY StreakLimits
  <2>3. /\ E \in K!Rows /\ E.current = RequiredStreak /\ E.longest = RequiredStreak
        /\ E.history = 0 /\ E.freezes = FreezesPerMonth - 1 BY <2>1, <2>2 DEF K!Rows
  <2> HIDE DEF E
  <2>4. /\ G \in K!Rows /\ G.current = RequiredStreak /\ G.longest = RequiredStreak
        /\ G.history = 0 /\ G.freezes = FreezesPerMonth - 1 BY <2>3 DEF K!Rows
  <2>5. G = K!Legacy BY Zenon DEF E, F, K!Legacy
  <2> HIDE DEF G
  <2> DEFINE H0 == [G EXCEPT !.last = RequiredStreak]
  <2>6. /\ H0 \in K!Rows /\ H0.current = RequiredStreak /\ H0.longest = RequiredStreak
        /\ H0.history = 0 /\ H0.freezes = FreezesPerMonth - 1 /\ H0.last = RequiredStreak
    BY <2>4, StreakLimits DEF K!Rows
  <2>7. H0 = [K!Legacy EXCEPT !.last = RequiredStreak] BY <2>5, Zenon
  <2> HIDE DEF H0
  <2>8. H0 \in StreakRow BY <1>1, <2>6, StreakLimits DEF StreakRow
  <2> QED BY <2>7, <2>8
 <1>3. {streak, cached_streak} \subseteq StreakRow \cup {None} BY <1>2 DEF K!ServiceInit
 <1>4. saving \in [Calls -> Saving] /\ \A c \in Calls : saving[c] = K!NoSave
   BY DEF K!ServiceInit, K!NoSave, K!Call, Saving
 <1>5. CallsHaveRows /\ RowsTold
   BY <1>4 DEF CallsHaveRows, RowsTold, Occupied, K!ServiceInit, K!NoSave, K!Call
 <1> QED BY <1>1, <1>3, <1>4, <1>5 DEF StreakInv, K!ServiceInit

(* What a call makes of a row, and the row it starts with, are rows.       *)
LEMMA FreshIsRow ==
  ASSUME today \in 0..StreakDays PROVE K!Fresh(today, 0, 0) \in StreakRow
  BY StreakLimits DEF K!Fresh, StreakRow, K!Rows

LEMMA VersionKeeps ==
  ASSUME NEW s \in StreakRow PROVE [s EXCEPT !.version = 2] \in StreakRow BY DEF StreakRow, K!Rows

LEMMA CalculatedIsRow ==
  ASSUME today \in 0..StreakDays, NEW s \in StreakRow
  PROVE  K!Calculated(s) \in StreakRow
 <1>1. /\ s \in K!Rows /\ s.current <= s.last /\ s.longest <= s.last /\ s.last <= today
       /\ s.freezes + s.history <= FreezesPerMonth BY DEF StreakRow
 <1>2. /\ s.current \in Nat /\ s.longest \in Nat /\ s.last \in Nat /\ s.freezes \in Nat
       /\ s.history \in Nat /\ today \in Nat BY <1>1, StreakLimits DEF K!Rows
 <1>3. CASE today - s.last = 1
  <2>1. /\ s.current + 1 <= today /\ s.longest <= today
        /\ K!Larger(s.current + 1, s.longest) \in 0..today BY <1>1, <1>2, <1>3 DEF K!Larger
  <2> DEFINE larger == K!Larger(s.current + 1, s.longest)
             s1 == [s EXCEPT !.current = s.current + 1]
             s2 == [s1 EXCEPT !.longest = larger]
             s3 == [s2 EXCEPT !.last = today]
             s4 == [s3 EXCEPT !.frozen = FALSE]
  <2>2. K!Calculated(s) = [s4 EXCEPT !.version = 2] BY <1>3, Zenon DEF K!Calculated, K!Increment
  <2>3. larger \in 0..today /\ larger \in 0..StreakDays /\ s.current + 1 \in 0..StreakDays
    BY <1>2, <2>1, StreakLimits
  <2> HIDE DEF larger
  <2>4. /\ s1 \in K!Rows /\ s1.current = s.current + 1
        /\ s1.freezes = s.freezes /\ s1.history = s.history BY <1>1, <2>3 DEF K!Rows
  <2> HIDE DEF s1
  <2>5. /\ s2 \in K!Rows /\ s2.current = s.current + 1 /\ s2.longest = larger
        /\ s2.freezes = s.freezes /\ s2.history = s.history BY <2>3, <2>4 DEF K!Rows
  <2> HIDE DEF s2
  <2>6. /\ s3 \in K!Rows /\ s3.current = s.current + 1 /\ s3.longest = larger
        /\ s3.last = today /\ s3.freezes = s.freezes /\ s3.history = s.history BY <2>5 DEF K!Rows
  <2> HIDE DEF s3
  <2>7. /\ s4 \in K!Rows /\ s4.current = s.current + 1 /\ s4.longest = larger
        /\ s4.last = today /\ s4.freezes = s.freezes /\ s4.history = s.history BY <2>6 DEF K!Rows
  <2> HIDE DEF s4
  <2>8. s4 \in StreakRow BY <1>1, <1>2, <2>1, <2>3, <2>7, StreakLimits DEF StreakRow
  <2>9. [s4 EXCEPT !.version = 2] \in StreakRow BY <2>8, VersionKeeps
  <2> QED BY <2>2, <2>9
 <1>4. CASE today - s.last > 1
  <2>1. K!Calculated(s) = [K!HandleBreak(s) EXCEPT !.version = 2]
   <3>1. ~(today - s.last = 1) BY <1>2, <1>4
   <3> QED BY <1>4, <3>1, Zenon DEF K!Calculated
  <2>2. today \in 0..today /\ 1 \in 0..today /\ s.current \in 0..today /\ s.longest \in 0..today
    BY <1>1, <1>2, <1>4
  <2>3. CASE K!FreezeEligible(s)
   <3> DEFINE s1 == [s EXCEPT !.freezes = s.freezes - 1]
              s2 == [s1 EXCEPT !.frozen = TRUE]
              s3 == [s2 EXCEPT !.last = today]
              s4 == [s3 EXCEPT !.history = s3.history + 1]
   <3>1. K!HandleBreak(s) = [s3 EXCEPT !.history = @ + 1] BY <2>3, Zenon DEF K!HandleBreak
   <3>2. /\ s.freezes - 1 \in 0..FreezesPerMonth /\ s.history + 1 \in 0..FreezesPerMonth
         /\ s.freezes - 1 + (s.history + 1) <= FreezesPerMonth
     BY <1>1, <1>2, <2>3, StreakLimits DEF K!FreezeEligible
   <3>3. /\ s1 \in K!Rows /\ s1.current = s.current /\ s1.longest = s.longest
         /\ s1.freezes = s.freezes - 1 /\ s1.history = s.history BY <1>1, <3>2 DEF K!Rows
   <3> HIDE DEF s1
   <3>4. /\ s2 \in K!Rows /\ s2.current = s.current /\ s2.longest = s.longest
         /\ s2.freezes = s.freezes - 1 /\ s2.history = s.history BY <3>3 DEF K!Rows
   <3> HIDE DEF s2
   <3>5. /\ s3 \in K!Rows /\ s3.current = s.current /\ s3.longest = s.longest
         /\ s3.last = today /\ s3.freezes = s.freezes - 1 /\ s3.history = s.history
     BY <3>4 DEF K!Rows
   <3>6. K!HandleBreak(s) = s4 BY <3>1
   <3> HIDE DEF s3
   <3>7. /\ s4 \in K!Rows /\ s4.current = s.current /\ s4.longest = s.longest
         /\ s4.last = today /\ s4.freezes = s.freezes - 1 /\ s4.history = s.history + 1
     BY <3>2, <3>5 DEF K!Rows
   <3> HIDE DEF s4
   <3>8. s4 \in StreakRow BY <1>1, <1>2, <2>2, <3>2, <3>7 DEF StreakRow
   <3> QED BY <2>1, <3>6, <3>8, VersionKeeps
  <2>4. CASE ~K!FreezeEligible(s)
   <3>1. K!HandleBreak(s) = K!Fresh(today, 1, s.longest) BY <2>4 DEF K!HandleBreak
   <3>2. K!Fresh(today, 1, s.longest) \in StreakRow
     BY <1>1, <1>2, <2>2, StreakLimits DEF K!Fresh, StreakRow, K!Rows
   <3> QED BY <2>1, <3>1, <3>2, VersionKeeps
  <2> QED BY <2>3, <2>4
 <1>5. CASE today - s.last <= 0
  <2>1. ~(today - s.last = 1) /\ ~(today - s.last > 1) BY <1>2, <1>5
  <2>2. K!Calculated(s) = [s EXCEPT !.version = 2] BY <2>1, Zenon DEF K!Calculated
  <2>3. [s EXCEPT !.version = 2] \in StreakRow BY VersionKeeps
  <2> QED BY <2>2, <2>3
 <1> QED BY <1>2, <1>3, <1>4, <1>5

(* A call that starts beside another one is remembered.                    *)
LEMMA CallBegins ==
  ASSUME StreakInv, NEW c \in Calls, NEW call, K!Begins(c, call), call \in Saving,
         ~call.stored, call.op # "none",
         \/ call.op \in {"read", "get"} /\ call.row = streak
         \/ call.op = "reset",
         call.op # "read" => call.row # None
  PROVE  StreakInv'
 <1>1. /\ UNCHANGED <<today, streak, cached_streak>>
       /\ saving[c] = K!NoSave /\ saving' = [saving EXCEPT ![c] = call]
       /\ raced' = (raced \/ \E d \in Calls : saving[d] # K!NoSave) BY DEF K!Begins
 <1>2. StreakRow' = StreakRow /\ Saving' = Saving BY <1>1 DEF StreakRow, Saving
 <1>3. saving' \in [Calls -> Saving] BY <1>1 DEF StreakInv
 <1>4. saving'[c] = call /\ \A d \in Calls : d # c => saving'[d] = saving[d] BY <1>1 DEF StreakInv
 <1>5. CallsHaveRows' BY <1>4 DEF CallsHaveRows, StreakInv
 <1>6. ASSUME ~raced' PROVE RowsTold'
  <2>1. ~raced /\ \A d \in Calls : saving[d] = K!NoSave BY <1>1, <1>6
  <2>2. \A d \in Calls : ~saving[d].stored /\ saving[d].op = "none" BY <2>1 DEF K!NoSave, K!Call
  <2>3. cached_streak \in {streak, None} BY <2>1, <2>2 DEF StreakInv, RowsTold
  <2> QED BY <1>1, <1>4, <2>2, <2>3 DEF RowsTold, Occupied
 <1>7. raced' \in BOOLEAN BY <1>1 DEF StreakInv
 <1>8. today' \in 0..StreakDays /\ {streak, cached_streak}' \subseteq StreakRow' \cup {None}
   BY <1>1, <1>2 DEF StreakInv
 <1> QED BY <1>2, <1>3, <1>5, <1>6, <1>7, <1>8 DEF StreakInv

LEMMA StreakKeeps == StreakInv /\ [K!ServiceNext]_(K!service_vars) => StreakInv'
 <1> SUFFICES ASSUME StreakInv, [K!ServiceNext]_(K!service_vars) PROVE StreakInv' OBVIOUS
 <1> USE StreakLimits
 <1>0. /\ today \in 0..StreakDays /\ raced \in BOOLEAN
       /\ {streak, cached_streak} \subseteq StreakRow \cup {None}
       /\ saving \in [Calls -> Saving] /\ CallsHaveRows /\ (~raced => RowsTold) BY DEF StreakInv
 <1>1. ASSUME today' = today PROVE StreakRow' = StreakRow /\ Saving' = Saving
   BY <1>1 DEF StreakRow, Saving
 <1>2. ASSUME NEW c \in Calls, K!UpdateStreak(c) PROVE StreakInv'
  <2>1. K!Call("read", streak) \in Saving BY <1>0 DEF K!Call, Saving
  <2> QED BY <1>2, <2>1, CallBegins DEF K!UpdateStreak, K!Call
 <1>3. ASSUME NEW c \in Calls, K!ResetStreak(c) PROVE StreakInv'
  <2>1. K!Fresh(today, 0, 0) \in StreakRow BY <1>0, FreshIsRow
  <2> DEFINE begun == K!Fresh(today, 0, 0)
  <2>2. begun \in StreakRow /\ K!Begins(c, K!Call("reset", begun)) BY <2>1, <1>3 DEF K!ResetStreak
  <2> HIDE DEF begun
  <2>3. K!Call("reset", begun) \in Saving /\ begun # None BY <2>2 DEF K!Call, Saving
  <2> QED BY <2>2, <2>3, CallBegins DEF K!Call
 <1>4. ASSUME NEW c \in Calls, K!GetStreak(c) PROVE StreakInv'
  <2>1. K!Call("get", streak) \in Saving /\ streak # None
    BY <1>0, <1>4 DEF K!Call, Saving, K!GetStreak
  <2> QED BY <1>4, <2>1, CallBegins DEF K!GetStreak, K!Call
 <1>5. ASSUME NEW c \in Calls, K!Calculate(c) PROVE StreakInv'
  <2>1. /\ UNCHANGED <<today, streak, cached_streak, raced>> /\ saving[c].op = "read"
        /\ StreakRow' = StreakRow /\ Saving' = Saving BY <1>1, <1>5 DEF K!Calculate
  <2>2. PICK call : /\ saving' = [saving EXCEPT ![c] = call] /\ call \in Saving
                    /\ ~call.stored /\ call.row # None
                    /\ \/ call.op = "create" /\ saving[c].row = None
                       \/ call.op = "update"
   <3>1. CASE saving[c].row = None
    <4>1. K!Fresh(today, 0, 0) \in StreakRow BY <1>0, FreshIsRow
    <4> DEFINE begun == K!Fresh(today, 0, 0)
    <4>2. begun \in StreakRow /\ saving' = [saving EXCEPT ![c] = K!Call("create", begun)]
      BY <4>1, <3>1, <1>5 DEF K!Calculate
    <4> HIDE DEF begun
    <4> DEFINE made == K!Call("create", begun)
    <4>3. made \in Saving /\ ~made.stored /\ made.row # None /\ made.op = "create"
      BY <4>2 DEF K!Call, Saving
    <4> HIDE DEF made
    <4>4. saving' = [saving EXCEPT ![c] = made] BY <4>2 DEF made
    <4> QED BY <3>1, <4>3, <4>4
   <3>2. CASE saving[c].row # None
    <4> DEFINE begun == K!Calculated(saving[c].row)
    <4>1. saving[c].row \in StreakRow BY <1>0, <3>2 DEF Saving
    <4>2. begun \in StreakRow BY <1>0, <4>1, CalculatedIsRow
    <4>3. saving' = [saving EXCEPT ![c] = K!Call("update", begun)] BY <3>2, <1>5 DEF K!Calculate
    <4> HIDE DEF begun
    <4> DEFINE made == K!Call("update", begun)
    <4>4. made \in Saving /\ ~made.stored /\ made.row # None /\ made.op = "update"
      BY <4>2 DEF K!Call, Saving
    <4> HIDE DEF made
    <4>5. saving' = [saving EXCEPT ![c] = made] BY <4>3 DEF made
    <4> QED BY <4>4, <4>5
   <3> QED BY <3>1, <3>2
  <2>3. /\ saving' \in [Calls -> Saving] /\ saving'[c] = call
        /\ \A d \in Calls : d # c => saving'[d] = saving[d] BY <1>0, <2>2
  <2>4. CallsHaveRows' BY <1>0, <2>2, <2>3 DEF CallsHaveRows
  <2>5. ASSUME ~raced' PROVE RowsTold'
   <3>1. RowsTold BY <1>0, <2>1, <2>5
   <3>2. \A d \in Calls : ~saving[d].stored BY <1>0, <2>1, <3>1 DEF RowsTold, Occupied, CallsHaveRows
   <3>3. cached_streak \in {streak, None} /\ saving[c].row = streak BY <3>1, <3>2, <2>1 DEF RowsTold
   <3> QED BY <2>1, <2>2, <2>3, <3>1, <3>2, <3>3 DEF RowsTold, Occupied
  <2> QED BY <1>0, <2>1, <2>3, <2>4, <2>5 DEF StreakInv
 <1>6. ASSUME NEW c \in Calls, K!Stores(c) PROVE StreakInv'
  <2>1. /\ UNCHANGED <<today, cached_streak, raced>> /\ streak' = saving[c].row
        /\ saving' = [saving EXCEPT ![c].stored = TRUE]
        /\ saving[c].op \in {"create", "update", "reset"}
        /\ StreakRow' = StreakRow /\ Saving' = Saving BY <1>1, <1>6 DEF K!Stores
  <2>2. /\ saving' \in [Calls -> Saving] /\ saving'[c].op = saving[c].op
        /\ saving'[c].row = saving[c].row /\ saving'[c].stored
        /\ \A d \in Calls : d # c => saving'[d] = saving[d] BY <1>0, <2>1 DEF Saving
  <2>3. CallsHaveRows' BY <1>0, <2>1, <2>2 DEF CallsHaveRows
  <2>4. ASSUME ~raced' PROVE RowsTold'
   <3>1. RowsTold BY <1>0, <2>1, <2>4
   <3>2. \A d \in Calls : d # c => ~Occupied(d) /\ ~saving[d].stored
     BY <1>0, <2>1, <3>1 DEF RowsTold, Occupied, CallsHaveRows
   <3> QED BY <2>1, <2>2, <3>1, <3>2 DEF RowsTold, Occupied
  <2>5. streak' \in StreakRow BY <1>0, <2>1 DEF CallsHaveRows, Saving
  <2> QED BY <1>0, <2>1, <2>2, <2>3, <2>4, <2>5 DEF StreakInv
 <1>7. ASSUME NEW c \in Calls, K!Saved(c) \/ K!SaveFails(c) \/ K!Got(c) PROVE StreakInv'
  <2>1. /\ UNCHANGED <<today, streak>> /\ saving' = [saving EXCEPT ![c] = K!NoSave]
        /\ StreakRow' = StreakRow /\ Saving' = Saving BY <1>1, <1>7 DEF K!Saved, K!SaveFails, K!Got
  <2>2. cached_streak' = cached_streak \/ cached_streak' = saving[c].row
    BY <1>7 DEF K!Saved, K!SaveFails, K!Got
  <2>3. /\ saving' \in [Calls -> Saving] /\ saving'[c] = K!NoSave
        /\ \A d \in Calls : d # c => saving'[d] = saving[d]
    BY <1>0, <2>1 DEF Saving, K!NoSave, K!Call
  <2>4. CallsHaveRows' BY <1>0, <2>3 DEF CallsHaveRows, K!NoSave, K!Call
  <2>5. ASSUME ~raced' PROVE RowsTold'
   <3>1. ~raced /\ RowsTold /\ Occupied(c)
     BY <1>0, <1>7, <2>5 DEF K!Saved, K!SaveFails, K!Got, CallsHaveRows, Occupied
   <3>2. \A d \in Calls : ~saving'[d].stored /\ saving'[d].op = "none"
     BY <1>0, <2>3, <3>1 DEF RowsTold, Occupied, CallsHaveRows, K!NoSave, K!Call
   <3>3. \A d \in Calls : d # c => ~saving[d].stored
     BY <1>0, <3>1 DEF RowsTold, Occupied, CallsHaveRows
   <3>4. cached_streak' \in {streak, None}
    <4>1. CASE K!Saved(c) BY <4>1, <3>1 DEF RowsTold, K!Saved
    <4>2. CASE K!SaveFails(c) BY <4>2, <2>5, <3>1, <3>3 DEF RowsTold, K!SaveFails
    <4>3. CASE K!Got(c) BY <4>3, <3>1 DEF RowsTold, K!Got
    <4> QED BY <1>7, <4>1, <4>2, <4>3
   <3> QED BY <2>1, <3>2, <3>4 DEF RowsTold, Occupied
  <2>6. raced' \in BOOLEAN BY <1>0, <1>7 DEF K!Saved, K!SaveFails, K!Got, Saving
  <2>7. cached_streak' \in StreakRow \cup {None} BY <1>0, <2>2 DEF Saving
  <2> QED BY <1>0, <2>1, <2>3, <2>4, <2>5, <2>6, <2>7 DEF StreakInv
 <1>8. ASSUME K!Forget PROVE StreakInv'
  <2>1. /\ UNCHANGED <<today, streak, saving, raced>> /\ cached_streak' = None
        /\ StreakRow' = StreakRow /\ Saving' = Saving BY <1>1, <1>8 DEF K!Forget
  <2>2. CallsHaveRows' BY <1>0, <2>1 DEF CallsHaveRows
  <2>3. RowsTold => RowsTold' BY <2>1 DEF RowsTold, Occupied
  <2> QED BY <1>0, <2>1, <2>2, <2>3 DEF StreakInv
 <1>9. ASSUME K!NextDay PROVE StreakInv'
  <2>1. today' \in 0..StreakDays /\ UNCHANGED <<streak, cached_streak, saving, raced>>
    BY <1>0, <1>9 DEF K!NextDay
  <2>2. StreakRow \subseteq StreakRow'
   <3> SUFFICES ASSUME NEW s \in StreakRow PROVE s \in StreakRow' OBVIOUS
   <3>1. s.last \in Int /\ today \in Int /\ today' = today + 1
     BY <1>0, <1>9 DEF StreakRow, K!Rows, K!NextDay
   <3> QED BY <3>1 DEF StreakRow, K!Rows
  <2>3. CallsHaveRows' /\ (RowsTold => RowsTold') BY <1>0, <2>1 DEF CallsHaveRows, RowsTold, Occupied
  <2>4. Saving \subseteq Saving'
   <3> HIDE DEF StreakRow
   <3> QED BY <2>2 DEF Saving
  <2> QED BY <1>0, <2>1, <2>2, <2>3, <2>4 DEF StreakInv
 <1>10. CASE UNCHANGED K!service_vars
  <2>1. UNCHANGED <<today, streak, cached_streak, saving, raced>> BY <1>10 DEF K!service_vars
  <2>2. CallsHaveRows' /\ (RowsTold => RowsTold') BY <1>0, <2>1 DEF CallsHaveRows, RowsTold, Occupied
  <2> QED BY <1>0, <1>1, <2>1, <2>2 DEF StreakInv
 <1> QED BY <1>2, <1>3, <1>4, <1>5, <1>6, <1>7, <1>8, <1>9, <1>10 DEF K!ServiceNext

LEMMA StreakImplies == StreakInv => K!ServiceTypeOK /\ K!StreakIsEarned
 <1> SUFFICES ASSUME StreakInv PROVE K!ServiceTypeOK /\ K!StreakIsEarned OBVIOUS
 <1>1. K!ServiceTypeOK BY StreakLimits DEF StreakInv, Saving, K!ServiceTypeOK
 <1>2. K!StreakIsEarned
  <2>1. \A s \in {streak, cached_streak} \ {None} :
          s.freezes + s.history <= FreezesPerMonth /\ s.current <= s.last
    BY StreakLimits DEF StreakInv, StreakRow
  <2>2. ~raced /\ (\A c \in Calls : ~saving[c].stored) => cached_streak \in {streak, None}
    BY DEF StreakInv, RowsTold
  <2> QED BY <2>1, <2>2 DEF K!StreakIsEarned
 <1> QED BY <1>1, <1>2

-----------------------------------------------------------------------------
(***************************************************************************)
(* streak_indicator.js: the two properties are inductive.                  *)
(***************************************************************************)
IndicatorInv == K!IndicatorTypeOK /\ K!DrawnIsConfigured

IndicatorFlags ==
  /\ renderScheduled \in BOOLEAN /\ isMounted \in BOOLEAN /\ animationsEnabled \in BOOLEAN
  /\ isDisposed \in BOOLEAN /\ observed \in BOOLEAN /\ instance \in BOOLEAN
IndicatorFrames ==
  /\ frames \in {0, 1} /\ commands \in 0..MaxCommands
  /\ config \in Streaks /\ drawn_streak \in Streaks
  /\ ~renderScheduled /\ ~isDisposed => drawn_streak = config
  /\ frames = 1 => isMounted /\ animationsEnabled /\ ~isDisposed
  /\ instance => ~isDisposed

LEMMA IndicatorParts == IndicatorInv <=> IndicatorFlags /\ IndicatorFrames
 <1>1. 0..1 = {0, 1} /\ \A n \in {0, 1} : n > 0 <=> n = 1 OBVIOUS
 <1> QED BY <1>1 DEF IndicatorInv, K!IndicatorTypeOK, K!DrawnIsConfigured, IndicatorFlags,
               IndicatorFrames

LEMMA IndicatorStarts == K!IndicatorInit => IndicatorInv
 <1> SUFFICES ASSUME K!IndicatorInit PROVE IndicatorFlags /\ IndicatorFrames BY IndicatorParts
 <1>1. IndicatorFlags BY DEF K!IndicatorInit, IndicatorFlags
 <1>2. IndicatorFrames BY LimitsAssumption DEF K!IndicatorInit, IndicatorFrames
 <1> QED BY <1>1, <1>2

LEMMA IndicatorKeeps == IndicatorInv /\ [K!IndicatorNext]_(K!indicator_vars) => IndicatorInv'
 <1> SUFFICES ASSUME IndicatorFlags, IndicatorFrames, [K!IndicatorNext]_(K!indicator_vars)
              PROVE  IndicatorFlags' /\ IndicatorFrames' BY IndicatorParts, PTL
 <1>c. MaxCommands \in Nat BY LimitsAssumption
 <1> USE <1>c DEF K!view
 <1> DEFINE Kept == IndicatorFlags' /\ IndicatorFrames'
 <1>0. ASSUME NEW mounted \in BOOLEAN, K!EnableAnimation(mounted)
       PROVE  /\ frames' \in {0, 1} /\ animationsEnabled' \in BOOLEAN
              /\ frames' = 1 => animationsEnabled' /\ ~isDisposed /\ (isMounted \/ mounted)
  <2>1. CASE ~animationsEnabled /\ mounted /\ ~isDisposed
   <3>1. frames = 0 BY <2>1 DEF IndicatorFrames
   <3> QED BY <1>0, <2>1, <3>1 DEF K!EnableAnimation
  <2>2. CASE ~(~animationsEnabled /\ mounted /\ ~isDisposed)
   <3>1. UNCHANGED <<animationsEnabled, frames>> BY <1>0, <2>2 DEF K!EnableAnimation
   <3> QED BY <3>1 DEF IndicatorFrames, IndicatorFlags
  <2> QED BY <2>1, <2>2
 <1>d. ASSUME K!DisableAnimation PROVE frames' = 0 /\ animationsEnabled' = FALSE
  <2>1. frames = 0 \/ frames = 1 BY DEF IndicatorFrames
  <2> QED BY <1>d, <2>1 DEF K!DisableAnimation
 <1>1. ASSUME NEW s \in Streaks, K!Update(s) PROVE Kept
  <2>1. renderScheduled' \in BOOLEAN BY <1>1 DEF K!Update, K!ScheduleRender
  <2> QED BY <1>1, <2>1 DEF K!Update, K!ScheduleRender, IndicatorFlags, IndicatorFrames
 <1>2. ASSUME K!Render PROVE Kept BY <1>2 DEF K!Render, IndicatorFlags, IndicatorFrames
 <1>3. ASSUME K!Mount PROVE Kept BY <1>0, <1>3 DEF K!Mount, IndicatorFlags, IndicatorFrames
 <1>4. ASSUME K!Unmount PROVE Kept
  <2>1. K!DisableAnimation BY <1>4 DEF K!Unmount
  <2>2. frames' = 0 /\ animationsEnabled' = FALSE BY <1>d, <2>1
  <2>3. IndicatorFlags' BY <1>4, <2>2 DEF K!Unmount, IndicatorFlags
  <2>4. IndicatorFrames' BY <1>4, <2>2 DEF K!Unmount, IndicatorFrames
  <2> QED BY <2>3, <2>4
 <1>5. ASSUME NEW seen \in BOOLEAN, K!Intersects(seen) PROVE Kept
  <2>1. CASE seen
   <3>1. isMounted \in BOOLEAN /\ K!EnableAnimation(isMounted)
     BY <1>5, <2>1 DEF K!Intersects, IndicatorFlags
   <3> QED BY <1>0, <1>5, <3>1 DEF K!Intersects, IndicatorFlags, IndicatorFrames
  <2>2. CASE ~seen BY <1>d, <1>5, <2>2 DEF K!Intersects, IndicatorFlags, IndicatorFrames
  <2> QED BY <2>1, <2>2
 <1>6. ASSUME K!ExecuteCommand \/ K!Undo PROVE Kept
  <2>1. commands' \in 0..MaxCommands BY <1>6 DEF K!ExecuteCommand, K!Undo, IndicatorFrames
  <2> QED BY <1>6, <2>1 DEF K!ExecuteCommand, K!Undo, IndicatorFlags, IndicatorFrames
 <1>7. ASSUME K!Dispose PROVE Kept
  <2>1. commands' \in 0..MaxCommands BY <1>7 DEF K!Dispose
  <2>2. K!DisableAnimation BY <1>7 DEF K!Dispose
  <2>3. frames' = 0 /\ animationsEnabled' = FALSE BY <1>d, <2>2
  <2>4. IndicatorFlags' BY <1>7, <2>3 DEF K!Dispose, IndicatorFlags
  <2>5. IndicatorFrames' BY <1>7, <2>1, <2>3 DEF K!Dispose, IndicatorFrames
  <2> QED BY <2>4, <2>5
 <1>8. CASE UNCHANGED K!indicator_vars BY <1>8 DEF K!indicator_vars, IndicatorFlags, IndicatorFrames
 <1> QED BY <1>1, <1>2, <1>3, <1>4, <1>5, <1>6, <1>7, <1>8 DEF K!IndicatorNext


-----------------------------------------------------------------------------
(***************************************************************************)
(* challenge_service.js: a row is complete at its goal alone, and was      *)
(* announced then; unless two calls overlapped, one set was generated and  *)
(* what is listed is the row.                                              *)
(***************************************************************************)
ChallengeRow == {row_ \in H!Rows : /\ row_.isCompleted <=> row_.progress = Goal
                                   /\ row_.isCompleted => announced}
ChallengeOps == {"none", "find", "generate", "list", "update", "write"}
Request == [op : ChallengeOps, row : ChallengeRow \cup {No}, signal : {"open", "aborted"}]
ChallengeParts ==
  /\ challenge \in ChallengeRow \cup {No} /\ cached_list \in ChallengeRow \cup {No}
  /\ generated \in 0..MaxSets /\ announced \in BOOLEAN /\ overlapped \in BOOLEAN
  /\ activeRequests \in Requests \cup {No}
  /\ request \in [Requests -> Request]
ChallengeHeld ==
  /\ challenge = No <=> generated = 0
  /\ \A r \in Requests : request[r].op \in {"list", "update", "write"}
                           => request[r].row # No /\ challenge # No
ChallengeAlone ==
  ~overlapped =>
     /\ generated <= 1 /\ cached_list \in {No, challenge}
     /\ \A r \in Requests : /\ request[r].op = "generate" => challenge = No
                            /\ request[r].op = "list" => request[r].row = challenge
ChallengeInv == ChallengeParts /\ ChallengeHeld /\ ChallengeAlone

LEMMA ChallengeLimits ==
  /\ Goal \in Nat \ {0} /\ MaxSets \in Nat /\ No \notin H!Rows /\ No \notin Requests
  /\ No \notin ChallengeRow /\ ChallengeRow \subseteq H!Rows
  BY LimitsAssumption, NoDataAssumption DEF ChallengeRow

(* What a record of a request becomes, row by row. *)
LEMMA RequestSet ==
  ASSUME NEW r \in Requests, NEW op_ \in ChallengeOps, NEW row_, request \in [Requests -> Request],
         request' = [request EXCEPT ![r].op = op_, ![r].row = row_], Request \subseteq Request',
         row_ \in ChallengeRow' \cup {No}
  PROVE  /\ request' \in [Requests -> Request']
         /\ \A q \in Requests \ {r} : request'[q] = request[q]
         /\ request'[r].op = op_ /\ request'[r].row = row_
 <1>1. /\ \A q \in Requests \ {r} : request'[q] = request[q]
       /\ request'[r] = [op |-> op_, row |-> row_, signal |-> request[r].signal] BY DEF Request
 <1>2. request'[r] \in Request' BY <1>1 DEF Request, ChallengeOps
 <1>3. request' = [q \in Requests |-> request'[q]] OBVIOUS
 <1>4. request' \in [Requests -> Request']
  <2>1. \A q \in Requests : request'[q] \in Request' BY <1>1, <1>2
  <2> QED BY <1>3, <2>1
 <1> QED BY <1>1, <1>4

LEMMA ChallengeStarts == H!Init => ChallengeInv
 <1> SUFFICES ASSUME H!Init PROVE ChallengeInv OBVIOUS
 <1>1. \A r \in Requests : request[r] = H!Idle BY DEF H!Init
 <1>2. ChallengeParts
  <2>1. H!Idle \in Request /\ 0 \in 0..MaxSets BY ChallengeLimits DEF H!Idle, Request, ChallengeOps
  <2> QED BY <2>1 DEF H!Init, ChallengeParts
 <1>3. ChallengeHeld /\ ChallengeAlone BY <1>1 DEF H!Init, H!Idle, ChallengeHeld, ChallengeAlone
 <1> QED BY <1>2, <1>3 DEF ChallengeInv

LEMMA ChallengeKeeps == ChallengeInv /\ [H!Next]_(H!vars) => ChallengeInv'
 <1> SUFFICES ASSUME ChallengeParts, ChallengeHeld, ChallengeAlone, [H!Next]_(H!vars)
              PROVE  ChallengeParts' /\ ChallengeHeld' /\ ChallengeAlone' BY DEF ChallengeInv
 <1> DEFINE Kept == ChallengeParts' /\ ChallengeHeld' /\ ChallengeAlone'
 <1> USE ChallengeLimits DEF H!Idle
 <1>r. ASSUME announced' = announced PROVE ChallengeRow' = ChallengeRow /\ Request' = Request
   BY <1>r DEF ChallengeRow, Request
 <1>1. ASSUME NEW r \in Requests, H!GetUserChallenges(r) PROVE Kept
  <2>1. ChallengeRow' = ChallengeRow /\ Request' = Request BY <1>r, <1>1 DEF H!GetUserChallenges
  <2>e. [H!Idle EXCEPT !.op = "find"] = [op |-> "find", row |-> No, signal |-> "open"] OBVIOUS
  <2>2. request' = [request EXCEPT ![r] = [op |-> "find", row |-> No, signal |-> "open"]]
    BY <1>1, <2>e, Zenon DEF H!GetUserChallenges
  <2>3. ChallengeParts'
    BY <1>1, <2>1, <2>2 DEF H!GetUserChallenges, ChallengeParts, Request, ChallengeOps
  <2>4. ChallengeHeld' /\ ChallengeAlone'
    BY <1>1, <2>2 DEF H!GetUserChallenges, ChallengeParts, ChallengeHeld, ChallengeAlone
  <2> QED BY <2>3, <2>4
 <1>2. ASSUME NEW r \in Requests, H!Found(r) PROVE Kept
  <2>1. ChallengeRow' = ChallengeRow /\ Request' = Request BY <1>r, <1>2 DEF H!Found
  <2> DEFINE op_ == IF challenge = No THEN "generate" ELSE "list"
  <2>o. op_ \in ChallengeOps /\ (op_ = "generate" <=> challenge = No) /\ (op_ = "list" <=> challenge # No)
        /\ op_ \in {"generate", "list"} BY DEF ChallengeOps
  <2>e. request' = [request EXCEPT ![r].op = op_, ![r].row = challenge] BY <1>2, Zenon DEF H!Found
  <2> HIDE DEF op_
  <2>2. /\ request' \in [Requests -> Request']
        /\ \A q \in Requests \ {r} : request'[q] = request[q]
        /\ request'[r].op = op_ /\ request'[r].row = challenge
    BY <2>1, <2>o, <2>e, RequestSet DEF ChallengeParts
  <2>3. ChallengeParts' BY <1>2, <2>1, <2>2 DEF H!Found, ChallengeParts
  <2>4. ChallengeHeld' /\ ChallengeAlone'
    BY <1>2, <2>o, <2>2 DEF H!Found, ChallengeParts, ChallengeHeld, ChallengeAlone
  <2> QED BY <2>3, <2>4
 <1>3. ASSUME NEW r \in Requests, H!Generated(r) PROVE Kept
  <2>1. ChallengeRow' = ChallengeRow /\ Request' = Request BY <1>r, <1>3 DEF H!Generated
  <2>n. H!New \in ChallengeRow /\ H!New # No
   <3>1. H!New.progress = 0 /\ H!New.isCompleted = FALSE /\ 0 \in 0..Goal /\ 0 # Goal BY DEF H!New
   <3>2. H!New \in H!Rows BY <3>1 DEF H!New, H!Rows
   <3> QED BY <3>1, <3>2 DEF ChallengeRow
  <2>e. request' = [request EXCEPT ![r].op = "list", ![r].row = H!New] /\ "list" \in ChallengeOps
    BY <1>3 DEF H!Generated, ChallengeOps
  <2>2. /\ request' \in [Requests -> Request']
        /\ \A q \in Requests \ {r} : request'[q] = request[q]
        /\ request'[r].op = "list" /\ request'[r].row = H!New
    BY <2>1, <2>n, <2>e, RequestSet DEF ChallengeParts
  <2>g. generated' \in 0..MaxSets /\ generated' # 0 BY <1>3 DEF H!Generated, ChallengeParts
  <2>h. challenge' \in ChallengeRow /\ overlapped' \in BOOLEAN
    BY <1>3, <2>n DEF H!Generated, ChallengeParts, H!Others
  <2>3. ChallengeParts' BY <1>3, <2>1, <2>2, <2>g, <2>h DEF H!Generated, ChallengeParts
  <2>4. ChallengeHeld'
    BY <1>3, <2>2, <2>n, <2>g, <2>h DEF H!Generated, ChallengeParts, ChallengeHeld
  <2>5. ChallengeAlone'
   <3> SUFFICES ASSUME ~overlapped' PROVE ChallengeAlone' BY DEF ChallengeAlone
   <3>1. ~overlapped /\ \A q \in Requests \ {r} : request[q].op \notin {"generate", "list"}
     BY <1>3 DEF H!Generated, H!Others
   <3>2. challenge = No /\ generated = 0 /\ cached_list = No
     BY <1>3, <3>1 DEF H!Generated, ChallengeAlone, ChallengeHeld
   <3>3. challenge' = H!New /\ generated' = 1 /\ cached_list' = No BY <1>3, <3>2 DEF H!Generated
   <3>4. \A q \in Requests : /\ request'[q].op # "generate"
                             /\ request'[q].op = "list" => request'[q].row = H!New
     BY <2>2, <3>1 DEF ChallengeParts
   <3> QED BY <3>3, <3>4 DEF ChallengeAlone
  <2> QED BY <2>3, <2>4, <2>5
 <1>4. ASSUME NEW r \in Requests, H!Listed(r) PROVE Kept
  <2>1. ChallengeRow' = ChallengeRow /\ Request' = Request BY <1>r, <1>4 DEF H!Listed
  <2>2. ChallengeParts'
    BY <1>4, <2>1 DEF H!Listed, H!CleanupRequest, ChallengeParts, Request, ChallengeOps
  <2>3. ChallengeHeld' /\ ChallengeAlone'
    BY <1>4 DEF H!Listed, H!CleanupRequest, ChallengeParts, ChallengeHeld, ChallengeAlone
  <2> QED BY <2>2, <2>3
 <1>5. ASSUME NEW r \in Requests, H!GetFails(r) PROVE Kept
  <2>1. ChallengeRow' = ChallengeRow /\ Request' = Request BY <1>r, <1>5 DEF H!GetFails
  <2>2. ChallengeParts'
    BY <1>5, <2>1 DEF H!GetFails, H!CleanupRequest, ChallengeParts, Request, ChallengeOps
  <2>3. ChallengeHeld' /\ ChallengeAlone'
    BY <1>5 DEF H!GetFails, H!CleanupRequest, ChallengeParts, ChallengeHeld, ChallengeAlone
  <2> QED BY <2>2, <2>3
 <1>a. ASSUME NEW r \in Requests, request' = [request EXCEPT ![r].signal = "aborted"]
       PROVE  /\ request' \in [Requests -> Request]
              /\ \A q \in Requests : /\ request'[q].op = request[q].op
                                     /\ request'[q].row = request[q].row
   BY <1>a DEF ChallengeParts, Request
 <1>6. ASSUME H!AbortAllRequests PROVE Kept
  <2>1. ChallengeRow' = ChallengeRow /\ Request' = Request BY <1>r, <1>6 DEF H!AbortAllRequests
  <2>2. activeRequests \in Requests BY <1>6 DEF H!AbortAllRequests, ChallengeParts
  <2>3. /\ request' \in [Requests -> Request]
        /\ \A q \in Requests : /\ request'[q].op = request[q].op
                               /\ request'[q].row = request[q].row
    BY <1>a, <1>6, <2>2 DEF H!AbortAllRequests
  <2>4. ChallengeParts' BY <1>6, <2>1, <2>3 DEF H!AbortAllRequests, ChallengeParts
  <2>5. ChallengeHeld' /\ ChallengeAlone'
    BY <1>6, <2>3 DEF H!AbortAllRequests, ChallengeHeld, ChallengeAlone
  <2> QED BY <2>4, <2>5
 <1>7. ASSUME H!Dispose PROVE Kept
  <2>1. ChallengeRow' = ChallengeRow /\ Request' = Request BY <1>r, <1>7 DEF H!Dispose
  <2>3. /\ request' \in [Requests -> Request]
        /\ \A q \in Requests : /\ request'[q].op = request[q].op
                               /\ request'[q].row = request[q].row
   <3>1. CASE activeRequests = No BY <1>7, <3>1 DEF H!Dispose, ChallengeParts
   <3>2. CASE activeRequests # No BY <1>a, <1>7, <3>2 DEF H!Dispose, ChallengeParts
   <3> QED BY <3>1, <3>2
  <2>4. ChallengeParts' BY <1>7, <2>1, <2>3 DEF H!Dispose, ChallengeParts
  <2>5. ChallengeHeld' /\ ChallengeAlone' BY <1>7, <2>3 DEF H!Dispose, ChallengeHeld, ChallengeAlone
  <2> QED BY <2>4, <2>5
 <1>8. ASSUME H!ListExpires PROVE Kept
   BY <1>r, <1>8 DEF H!ListExpires, ChallengeParts, ChallengeHeld, ChallengeAlone
 <1>9. ASSUME NEW r \in Requests, H!FindForUpdate(r) PROVE Kept
  <2>1. ChallengeRow' = ChallengeRow /\ Request' = Request BY <1>r, <1>9 DEF H!FindForUpdate
  <2> DEFINE new == [H!Idle EXCEPT !.op = "update", !.row = challenge]
  <2>e. new.op = "update" /\ new.row = challenge OBVIOUS
  <2>d. new \in Request BY DEF ChallengeParts, Request, ChallengeOps
  <2>2. request' = [request EXCEPT ![r] = new] /\ new \in Request
    BY <1>9, <2>d, Zenon DEF H!FindForUpdate
  <2> HIDE DEF new
  <2>3. ChallengeParts' BY <1>9, <2>1, <2>2 DEF H!FindForUpdate, ChallengeParts
  <2>4. ChallengeHeld' /\ ChallengeAlone'
    BY <1>9, <2>2, <2>e DEF H!FindForUpdate, ChallengeParts, ChallengeHeld, ChallengeAlone
  <2> QED BY <2>3, <2>4
 <1>10. ASSUME NEW r \in Requests, H!AlreadyCompleted(r) \/ H!WriteFails(r) PROVE Kept
  <2>1. ChallengeRow' = ChallengeRow /\ Request' = Request
    BY <1>r, <1>10 DEF H!AlreadyCompleted, H!WriteFails
  <2>2. ChallengeParts'
    BY <1>10, <2>1 DEF H!AlreadyCompleted, H!WriteFails, ChallengeParts, Request, ChallengeOps
  <2>3. ChallengeHeld' /\ ChallengeAlone'
    BY <1>10 DEF H!AlreadyCompleted, H!WriteFails, ChallengeParts, ChallengeHeld, ChallengeAlone
  <2> QED BY <2>2, <2>3
 <1>11. ASSUME NEW r \in Requests, H!Written(r) PROVE Kept
  <2>1. ChallengeRow' = ChallengeRow /\ Request' = Request BY <1>r, <1>11 DEF H!Written
  <2>2. request[r].row \in ChallengeRow /\ challenge # No
    BY <1>11 DEF H!Written, ChallengeParts, ChallengeHeld, Request
  <2>3. ChallengeParts' BY <1>11, <2>1, <2>2 DEF H!Written, ChallengeParts, Request, ChallengeOps
  <2>4. ChallengeHeld' BY <1>11, <2>2 DEF H!Written, ChallengeParts, ChallengeHeld
  <2>5. ChallengeAlone'
   <3> SUFFICES ASSUME ~overlapped' PROVE ChallengeAlone' BY DEF ChallengeAlone
   <3>1. ~overlapped /\ \A q \in Requests \ {r} : request[q].op \notin {"generate", "list"}
     BY <1>11 DEF H!Written, H!Others
   <3>2. \A q \in Requests : request'[q].op \notin {"generate", "list"}
     BY <1>11, <3>1 DEF H!Written, ChallengeParts
   <3> QED BY <1>11, <3>1, <3>2 DEF H!Written, ChallengeAlone
  <2> QED BY <2>3, <2>4, <2>5
 <1>12. ASSUME NEW r \in Requests, NEW progress \in 0..Goal + 1, H!UpdateProgress(r, progress)
        PROVE  Kept
  <2> DEFINE old == request[r].row
             reached == H!Least(progress, Goal)
             done == reached >= Goal /\ old.progress < Goal
             row_ == [progress |-> reached, isCompleted |-> done]
  <2>1. request' = [request EXCEPT ![r].op = "write", ![r].row = row_]
        /\ announced' = (announced \/ done) BY <1>12, Zenon DEF H!UpdateProgress
  <2>2. old \in ChallengeRow /\ ~old.isCompleted
    BY <1>12 DEF H!UpdateProgress, ChallengeParts, ChallengeHeld, Request
  <2>3. old.progress \in 0..Goal /\ old.progress # Goal BY <2>2 DEF ChallengeRow, H!Rows
  <2>4. reached \in 0..Goal /\ (done <=> reached = Goal) /\ done \in BOOLEAN BY <2>3 DEF H!Least
  <2>5. announced' \in BOOLEAN /\ (announced => announced') BY <2>1, <2>4 DEF ChallengeParts
  <2>6. ChallengeRow \subseteq ChallengeRow' BY <2>5 DEF ChallengeRow
  <2>r. row_.progress = reached /\ row_.isCompleted = done OBVIOUS
  <2>s. row_ \in H!Rows BY <2>4 DEF H!Rows
  <2>7. row_ \in ChallengeRow' /\ row_ # No
   <3> HIDE DEF row_, done, reached
   <3> QED BY <2>1, <2>4, <2>5, <2>r, <2>s DEF ChallengeRow
  <2> HIDE DEF row_, done, reached
  <2>e. Request \subseteq Request' /\ "write" \in ChallengeOps BY <2>6 DEF Request, ChallengeOps
  <2>8. /\ request' \in [Requests -> Request']
        /\ \A q \in Requests \ {r} : request'[q] = request[q]
        /\ request'[r].op = "write" /\ request'[r].row = row_
    BY <2>1, <2>7, <2>e, RequestSet DEF ChallengeParts
  <2>9. ChallengeParts' BY <1>12, <2>1, <2>5, <2>6, <2>8 DEF H!UpdateProgress, ChallengeParts
  <2>10. ChallengeHeld' BY <1>12, <2>8, <2>7 DEF H!UpdateProgress, ChallengeParts, ChallengeHeld
  <2>11. ChallengeAlone' BY <1>12, <2>8 DEF H!UpdateProgress, ChallengeParts, ChallengeAlone
  <2> QED BY <2>9, <2>10, <2>11
 <1>13. CASE UNCHANGED H!vars
   BY <1>r, <1>13 DEF H!vars, ChallengeParts, ChallengeHeld, ChallengeAlone
 <1> QED BY <1>1, <1>2, <1>3, <1>4, <1>5, <1>6, <1>7, <1>8, <1>9, <1>10, <1>11, <1>12, <1>13
      DEF H!Next

LEMMA ChallengeImplies == ChallengeInv => H!TypeOK /\ H!CompletionIsAnnounced
  BY ChallengeLimits DEF ChallengeInv, ChallengeParts, ChallengeAlone, ChallengeRow,
                         H!TypeOK, H!CompletionIsAnnounced

-----------------------------------------------------------------------------
(***************************************************************************)
(* stats_service.js: what a question has is no older than the question,    *)
(* and offline there is a copy; the questions under way are those counted  *)
(* and not yet answered.                                                   *)
(***************************************************************************)
Ask == [at : {"none", "fetch", "offline", "save", "compute"}, of : T!Versions,
        offline : BOOLEAN, since : T!Versions, forced : BOOLEAN]
AnswerParts ==
  /\ data \in T!Versions /\ offline_copy \in T!Versions \cup {Nothing}
  /\ onLine \in BOOLEAN /\ wasm_loaded \in BOOLEAN
  /\ stats_cache \in [of : T!Versions, offline : BOOLEAN] \cup {Nothing}
  /\ ask \in [Asks -> Ask]
  /\ metrics \in [hits : Nat, misses : Nat, done : Nat, failed : Nat]
AskHolds(q) ==
  /\ q.since <= data
  /\ q.at = "fetch" => ~q.offline
  /\ q.at = "offline" => q.offline
  /\ q.at = "save" => ~q.offline /\ q.of >= q.since
  /\ q.at = "compute" => IF q.offline THEN offline_copy # Nothing ELSE q.of >= q.since
  /\ q.at = "none" => q = T!ServiceIdle
AnswerGiven ==
  /\ stats_cache # Nothing => (stats_cache.offline => offline_copy # Nothing)
  /\ answered # Nothing =>
       /\ answered.forced /\ ~answered.offline => answered.of >= answered.since
       /\ answered.offline => offline_copy # Nothing
Busy == {a \in Asks : ask[a] # T!ServiceIdle}
AnswerCounted == metrics.misses = metrics.done + metrics.failed + Cardinality(Busy)
AnswerInv == /\ AnswerParts /\ (\A a \in Asks : AskHolds(ask[a]))
             /\ AnswerGiven /\ AnswerCounted

LEMMA AnswerLimits ==
  /\ IsFiniteSet(Asks) /\ MaxData \in Nat /\ Nothing \notin Nat
  /\ T!Versions \subseteq Nat /\ 0 \in T!Versions /\ Nothing \notin T!Versions
  /\ \A X : T!Cardinality(X) = Cardinality(X)
 <1>1. \A X : T!Cardinality(X) = Cardinality(X) BY DEF T!Cardinality, Cardinality
 <1>2. IsFiniteSet(Asks) /\ MaxData \in Nat /\ Nothing \notin Nat
   BY LimitsAssumption, NoDataAssumption
 <1> QED BY <1>1, <1>2 DEF T!Versions

LEMMA AnswerStarts == T!ServiceInit => AnswerInv
 <1> SUFFICES ASSUME T!ServiceInit PROVE AnswerInv OBVIOUS
 <1> USE AnswerLimits
 <1>1. \A a \in Asks : ask[a] = T!ServiceIdle BY DEF T!ServiceInit
 <1>2. T!ServiceIdle \in Ask /\ AskHolds(T!ServiceIdle)
   BY DEF T!ServiceInit, T!ServiceIdle, Ask, AskHolds
 <1>3. AnswerParts BY <1>2 DEF T!ServiceInit, AnswerParts
 <1>4. Cardinality(Busy) = 0
  <2>1. Busy = {} BY <1>1 DEF Busy
  <2> QED BY <2>1, FS_EmptySet
 <1>5. metrics.misses = 0 /\ metrics.done = 0 /\ metrics.failed = 0 BY DEF T!ServiceInit
 <1>6. AnswerCounted BY <1>4, <1>5 DEF AnswerCounted
 <1>7. AnswerGiven BY DEF T!ServiceInit, AnswerGiven
 <1> QED BY <1>1, <1>2, <1>3, <1>6, <1>7 DEF AnswerInv

(* A question that begins or ends counts one more or less, one that goes   *)
(* on counts the same.                                                     *)
LEMMA BusyCounts ==
  ASSUME AnswerParts, AnswerParts', NEW a \in Asks,
         \A b \in Asks \ {a} : ask'[b] = ask[b]
  PROVE  /\ Cardinality(Busy) \in Nat
         /\ ask[a] = T!ServiceIdle /\ ask'[a] # T!ServiceIdle
              => Cardinality(Busy') = Cardinality(Busy) + 1
         /\ ask[a] # T!ServiceIdle /\ ask'[a] = T!ServiceIdle
              => Cardinality(Busy') = Cardinality(Busy) - 1
         /\ ask[a] # T!ServiceIdle /\ ask'[a] # T!ServiceIdle
              => Cardinality(Busy') = Cardinality(Busy)
 <1>1. IsFiniteSet(Busy) BY AnswerLimits, FS_Subset DEF Busy
 <1>2. Cardinality(Busy) \in Nat BY <1>1, FS_CardinalityType
 <1>3. CASE ask[a] = T!ServiceIdle /\ ask'[a] # T!ServiceIdle
  <2>1. Busy' = Busy \cup {a} /\ a \notin Busy BY <1>3 DEF Busy, T!ServiceIdle
  <2> QED BY <1>1, <1>2, <1>3, <2>1, FS_AddElement
 <1>4. CASE ask[a] # T!ServiceIdle /\ ask'[a] = T!ServiceIdle
  <2>1. Busy' = Busy \ {a} /\ a \in Busy BY <1>4 DEF Busy, T!ServiceIdle
  <2> QED BY <1>1, <1>2, <1>4, <2>1, FS_RemoveElement
 <1>5. CASE ask[a] # T!ServiceIdle /\ ask'[a] # T!ServiceIdle
  <2>1. Busy' = Busy BY <1>5 DEF Busy, T!ServiceIdle
  <2> QED BY <1>2, <1>5, <2>1
 <1> QED BY <1>2, <1>3, <1>4, <1>5

LEMMA AnswerKeeps == AnswerInv /\ [T!ServiceNext]_(T!service_vars) => AnswerInv'
 <1> SUFFICES ASSUME AnswerParts, \A a \in Asks : AskHolds(ask[a]), AnswerGiven, AnswerCounted,
                     [T!ServiceNext]_(T!service_vars)
              PROVE  AnswerInv' BY DEF AnswerInv
 <1> USE AnswerLimits
 <1> DEFINE AllHold == \A a \in Asks : AskHolds(ask[a])
 <1>n. metrics.hits \in Nat /\ metrics.misses \in Nat /\ metrics.done \in Nat /\ metrics.failed \in Nat
   BY DEF AnswerParts
 <1>i. T!ServiceIdle \in Ask BY DEF T!ServiceIdle, Ask
 <1>1. ASSUME T!InitWebAssembly \/ T!NetworkChanges \/ T!ServiceClearCache
       PROVE  AnswerInv'
  <2>1. AnswerParts' /\ UNCHANGED <<data, ask, metrics, answered, offline_copy>>
    BY <1>1 DEF T!InitWebAssembly, T!NetworkChanges, T!ServiceClearCache, T!Rest, AnswerParts
  <2>2. AllHold' BY <2>1 DEF AskHolds
  <2>3. AnswerGiven'
    BY <1>1, <2>1 DEF T!InitWebAssembly, T!NetworkChanges, T!ServiceClearCache, T!Rest, AnswerGiven
  <2>4. AnswerCounted' BY <2>1 DEF AnswerCounted, Busy
  <2> QED BY <2>1, <2>2, <2>3, <2>4 DEF AnswerInv
 <1>2. ASSUME T!DataChanges PROVE AnswerInv'
  <2>1. AnswerParts' BY <1>2 DEF T!DataChanges, AnswerParts, T!Versions
  <2>2. AllHold'
   <3> SUFFICES ASSUME NEW a \in Asks PROVE AskHolds(ask[a])' OBVIOUS
   <3>1. ask'[a] = ask[a] /\ data' = data + 1 /\ offline_copy' = offline_copy
     BY <1>2 DEF T!DataChanges
   <3>2. ask[a].since \in Nat /\ data \in Nat /\ AskHolds(ask[a]) BY DEF AnswerParts, Ask
   <3>3. ask[a].since <= data + 1 BY <3>2 DEF AskHolds
   <3> QED BY <3>1, <3>2, <3>3 DEF AskHolds
  <2>3. AnswerGiven' /\ AnswerCounted' BY <1>2 DEF T!DataChanges, AnswerGiven, AnswerCounted, Busy
  <2> QED BY <2>1, <2>2, <2>3 DEF AnswerInv
 <1>3. ASSUME NEW a \in Asks, NEW f \in BOOLEAN, T!CacheAnswers(a, f) PROVE AnswerInv'
  <2>1. metrics' = [metrics EXCEPT !.hits = metrics.hits + 1]
        /\ UNCHANGED <<data, onLine, wasm_loaded, offline_copy, stats_cache, ask>>
    BY <1>3 DEF T!CacheAnswers, T!Rest
  <2>2. /\ metrics' \in [hits : Nat, misses : Nat, done : Nat, failed : Nat]
        /\ metrics'.misses = metrics.misses /\ metrics'.done = metrics.done
        /\ metrics'.failed = metrics.failed BY <1>n, <2>1 DEF AnswerParts
  <2>3. AnswerParts' /\ AllHold' /\ AnswerCounted'
    BY <2>1, <2>2 DEF AnswerParts, AskHolds, AnswerCounted, Busy
  <2>4. answered'.forced = FALSE /\ (answered'.offline => offline_copy # Nothing)
    BY <1>3 DEF T!CacheAnswers, AnswerGiven
  <2>5. AnswerGiven' BY <2>1, <2>4 DEF AnswerGiven
  <2> QED BY <2>3, <2>5 DEF AnswerInv
 <1>4. ASSUME NEW a \in Asks, NEW f \in BOOLEAN, T!GetUserStats(a, f) PROVE AnswerInv'
  <2> DEFINE new == [at |-> IF onLine THEN "fetch" ELSE "offline",
                     of |-> 0, offline |-> ~onLine, since |-> data, forced |-> f]
  <2>1. /\ metrics' = [metrics EXCEPT !.misses = metrics.misses + 1]
        /\ ask' = [ask EXCEPT ![a] = new] /\ ask[a] = T!ServiceIdle
        /\ UNCHANGED <<data, onLine, wasm_loaded, offline_copy, stats_cache, answered>>
    BY <1>4 DEF T!GetUserStats, T!Begun, T!Rest
  <2>2. /\ metrics' \in [hits : Nat, misses : Nat, done : Nat, failed : Nat]
        /\ metrics'.misses = metrics.misses + 1 /\ metrics'.done = metrics.done
        /\ metrics'.failed = metrics.failed BY <1>n, <2>1 DEF AnswerParts
  <2>3. new \in Ask /\ new.at # "none" BY DEF Ask, AnswerParts
  <2>4. AskHolds(new)
   <3>1. new.since = data /\ data \in Nat BY DEF AnswerParts
   <3>2. CASE onLine
    <4>1. new.at = "fetch" /\ ~new.offline BY <3>2
    <4> QED BY <3>1, <4>1 DEF AskHolds
   <3>3. CASE ~onLine
    <4>1. new.at = "offline" /\ new.offline BY <3>3
    <4> QED BY <3>1, <4>1 DEF AskHolds
   <3> QED BY <3>2, <3>3
  <2> HIDE DEF new
  <2>5. ask' \in [Asks -> Ask] /\ ask'[a] = new /\ \A b \in Asks \ {a} : ask'[b] = ask[b]
    BY <2>1, <2>3 DEF AnswerParts
  <2>6. AnswerParts' BY <2>1, <2>2, <2>5 DEF AnswerParts
  <2>7. AllHold' BY <2>1, <2>4, <2>5 DEF AskHolds
  <2>8. ask'[a] # T!ServiceIdle BY <2>3, <2>5 DEF T!ServiceIdle
  <2>9. Cardinality(Busy') = Cardinality(Busy) + 1 /\ Cardinality(Busy) \in Nat
    BY <2>1, <2>5, <2>6, <2>8, BusyCounts
  <2>10. AnswerCounted' BY <1>n, <2>2, <2>9 DEF AnswerCounted
  <2>11. AnswerGiven' BY <2>1 DEF AnswerGiven
  <2> QED BY <2>6, <2>7, <2>10, <2>11 DEF AnswerInv
 <1>5. ASSUME NEW a \in Asks, T!Fetched(a) \/ T!SavedOffline(a) \/ T!ReadOffline(a)
       PROVE  AnswerInv'
  <2>1. ask[a].at # "none" /\ ask[a] \in Ask /\ AskHolds(ask[a])
    BY <1>5 DEF T!Fetched, T!SavedOffline, T!ReadOffline, AnswerParts
  <2>2. /\ UNCHANGED <<data, onLine, wasm_loaded, stats_cache, metrics, answered>>
        /\ offline_copy' \in T!Versions \cup {Nothing}
        /\ offline_copy # Nothing => offline_copy' # Nothing
    BY <1>5, <2>1 DEF T!Fetched, T!SavedOffline, T!ReadOffline, T!Rest, AnswerParts, Ask
  <2>3. /\ ask' \in [Asks -> Ask] /\ ask'[a].at # "none"
        /\ \A b \in Asks \ {a} : ask'[b] = ask[b]
    BY <1>5 DEF T!Fetched, T!SavedOffline, T!ReadOffline, AnswerParts, Ask
  <2>4. AskHolds(ask[a])'
   <3>1. CASE T!Fetched(a)
    <4>1. /\ ask'[a].at = "save" /\ ask'[a].of = data /\ ask'[a].offline = ask[a].offline
          /\ ask'[a].since = ask[a].since BY <3>1 DEF T!Fetched, AnswerParts, Ask
    <4>2. ask[a].since <= data /\ ~ask[a].offline /\ ask[a].since \in Nat /\ data \in Nat
      BY <2>1, <3>1 DEF T!Fetched, AskHolds, Ask, AnswerParts
    <4> QED BY <2>2, <4>1, <4>2 DEF AskHolds
   <3>2. CASE T!SavedOffline(a)
    <4>1. /\ ask'[a].at = "compute" /\ ask'[a].of = ask[a].of
          /\ ask'[a].offline = ask[a].offline /\ ask'[a].since = ask[a].since
      BY <3>2 DEF T!SavedOffline, AnswerParts, Ask
    <4>2. ask[a].since <= data /\ ~ask[a].offline /\ ask[a].of >= ask[a].since
      BY <2>1, <3>2 DEF T!SavedOffline, AskHolds
    <4> QED BY <2>2, <4>1, <4>2 DEF AskHolds
   <3>3. CASE T!ReadOffline(a)
    <4>1. /\ ask'[a].at = "compute" /\ ask'[a].offline = ask[a].offline
          /\ ask'[a].since = ask[a].since /\ offline_copy' # Nothing
      BY <3>3, <2>2 DEF T!ReadOffline, AnswerParts, Ask
    <4>2. ask[a].since <= data /\ ask[a].offline BY <2>1, <3>3 DEF T!ReadOffline, AskHolds
    <4> QED BY <2>2, <4>1, <4>2 DEF AskHolds
   <3> QED BY <1>5, <3>1, <3>2, <3>3
  <2>5. AnswerParts' BY <2>2, <2>3 DEF AnswerParts
  <2>6. AllHold'
   <3>1. ASSUME NEW b \in Asks, b # a PROVE AskHolds(ask[b])'
    <4>1. ask'[b] = ask[b] /\ AskHolds(ask[b]) BY <2>3, <3>1
    <4> QED BY <2>2, <4>1 DEF AskHolds
   <3> QED BY <2>4, <3>1
  <2>7. Cardinality(Busy') = Cardinality(Busy)
   <3>1. ask[a] # T!ServiceIdle /\ ask'[a] # T!ServiceIdle BY <2>1, <2>3 DEF T!ServiceIdle
   <3> QED BY <2>3, <2>5, <3>1, BusyCounts
  <2>8. AnswerCounted' BY <2>2, <2>7 DEF AnswerCounted
  <2>9. AnswerGiven' BY <2>2 DEF AnswerGiven
  <2> QED BY <2>5, <2>6, <2>8, <2>9 DEF AnswerInv
 <1>6. ASSUME NEW a \in Asks, T!Calculated(a) \/ T!Failed(a) PROVE AnswerInv'
  <2>1. ask[a].at # "none" /\ ask[a] \in Ask /\ AskHolds(ask[a])
    BY <1>6 DEF T!Calculated, T!Failed, AnswerParts
  <2>2. /\ UNCHANGED <<data, onLine, wasm_loaded, offline_copy>>
        /\ ask' = [ask EXCEPT ![a] = T!ServiceIdle] BY <1>6 DEF T!Calculated, T!Failed, T!Rest
  <2>3. /\ ask' \in [Asks -> Ask] /\ ask'[a] = T!ServiceIdle
        /\ \A b \in Asks \ {a} : ask'[b] = ask[b] BY <1>i, <2>2 DEF AnswerParts
  <2>4. stats_cache' \in [of : T!Versions, offline : BOOLEAN] \cup {Nothing}
    BY <1>6, <2>1 DEF T!Calculated, T!Failed, AnswerParts, Ask
  <2>5. /\ metrics' \in [hits : Nat, misses : Nat, done : Nat, failed : Nat]
        /\ metrics'.misses = metrics.misses
        /\ metrics'.done + metrics'.failed = metrics.done + metrics.failed + 1
   <3>1. CASE T!Calculated(a)
    <4>1. metrics' = [metrics EXCEPT !.done = metrics.done + 1] BY <3>1 DEF T!Calculated
    <4> QED BY <1>n, <4>1 DEF AnswerParts
   <3>2. CASE T!Failed(a)
    <4>1. metrics' = [metrics EXCEPT !.failed = metrics.failed + 1] BY <3>2 DEF T!Failed
    <4> QED BY <1>n, <4>1 DEF AnswerParts
   <3> QED BY <1>6, <3>1, <3>2
  <2>6. AnswerParts' BY <2>2, <2>3, <2>4, <2>5 DEF AnswerParts
  <2>7. AllHold'
   <3>1. AskHolds(T!ServiceIdle)' BY <2>6 DEF AskHolds, T!ServiceIdle, AnswerParts
   <3>2. ASSUME NEW b \in Asks, b # a PROVE AskHolds(ask[b])' BY <2>2, <2>3, <3>2 DEF AskHolds
   <3> QED BY <2>3, <3>1, <3>2
  <2>8. Cardinality(Busy') = Cardinality(Busy) - 1 /\ Cardinality(Busy) \in Nat
   <3>1. ask[a] # T!ServiceIdle BY <2>1 DEF T!ServiceIdle
   <3> QED BY <2>3, <2>6, <3>1, BusyCounts
  <2>9. AnswerCounted'
   <3>1. metrics'.done \in Nat /\ metrics'.failed \in Nat BY <2>5
   <3> QED BY <1>n, <2>5, <2>8, <3>1 DEF AnswerCounted
  <2>10. AnswerGiven'
   <3>1. CASE T!Calculated(a)
    <4>1. IF ask[a].offline THEN offline_copy # Nothing ELSE ask[a].of >= ask[a].since
      BY <2>1, <3>1 DEF AskHolds, T!Calculated
    <4>2. /\ stats_cache'.offline = ask[a].offline
          /\ answered'.of = ask[a].of /\ answered'.since = ask[a].since
          /\ answered'.offline = ask[a].offline BY <3>1 DEF T!Calculated
    <4> QED BY <2>2, <4>1, <4>2 DEF AnswerGiven
   <3>2. CASE T!Failed(a) BY <2>2, <3>2 DEF T!Failed, AnswerGiven
   <3> QED BY <1>6, <3>1, <3>2
  <2> QED BY <2>6, <2>7, <2>9, <2>10 DEF AnswerInv
 <1>7. CASE UNCHANGED T!service_vars
   BY <1>7 DEF T!service_vars, AnswerInv, AnswerParts, AskHolds, AnswerGiven, AnswerCounted, Busy
 <1> QED BY <1>1, <1>2, <1>3, <1>4, <1>5, <1>6, <1>7 DEF T!ServiceNext

LEMMA AnswerImplies == AnswerInv => T!ServiceTypeOK /\ T!StatsAreAccounted
 <1> SUFFICES ASSUME AnswerInv PROVE T!ServiceTypeOK /\ T!StatsAreAccounted OBVIOUS
 <1>1. T!ServiceTypeOK BY DEF AnswerInv, AnswerParts, Ask, T!ServiceTypeOK
 <1>2. T!StatsAreAccounted
   BY AnswerLimits DEF AnswerInv, AnswerGiven, AnswerCounted, Busy, T!StatsAreAccounted
 <1> QED BY <1>1, <1>2

-----------------------------------------------------------------------------
(***************************************************************************)
(* profile_service.js: without overlapping calls one call is under way,    *)
(* which holds the stored profile, or what it makes of it.                 *)
(***************************************************************************)
Fields == SUBSET Updates
Operation == [at : {"none", "get", "cache", "update", "stored", "done", "failed"},
              tries : Nat, profile : Fields, signal : {"open", "aborted"}]
ProfileParts ==
  /\ stored \in Fields /\ cached_profile \in Fields \cup {No}
  /\ dispatching \in Fields \cup {No} /\ dispatched \in Fields \cup {No}
  /\ events \in 0..MaxEvents /\ mixed \in BOOLEAN
  /\ backups \in Seq(Fields) /\ Len(backups) <= MaxBackups
ProfileCalls == operation \in [P!ProfileCalls -> Operation]
ProfilePlaces ==
  \A c \in P!ProfileCalls : /\ operation[c].at = "cache" => c = Reader
                            /\ operation[c].at \in {"update", "stored", "done"} => c \in Updates
InFlight(c) == operation[c].at \in {"get", "update", "stored", "cache"}
ProfileHeld(c) ==
  /\ operation[c].at = "cache" => operation[c].profile = stored
  /\ operation[c].at = "update" => operation[c].profile = stored \cup {c}
  /\ operation[c].at = "stored" => operation[c].profile = stored /\ c \in stored
ProfileAnswered(c) ==
  operation[c].at = "done" => /\ c \in stored /\ (cached_profile # No => c \in cached_profile)
                              /\ (dispatching # No => c \in dispatching)
ProfileCopies ==
  /\ cached_profile # No => cached_profile \subseteq stored
  /\ dispatching # No => dispatching \subseteq stored
  /\ backups # <<>> => Head(backups) \subseteq stored
ProfileAlone ==
  ~mixed =>
    /\ \A c, d \in P!ProfileCalls : InFlight(c) /\ InFlight(d) => c = d
    /\ \A c \in P!ProfileCalls : ProfileHeld(c) /\ ProfileAnswered(c)
    /\ ProfileCopies
ProfileInv == ProfileParts /\ ProfileCalls /\ ProfilePlaces /\ ProfileAlone

LEMMA ProfileLimits ==
  /\ MaxBackups \in Nat /\ MaxEvents \in Nat /\ Reader \notin Updates
  /\ \A fields \in Fields : fields # No BY LimitsAssumption, NoDataAssumption DEF Fields

LEMMA ProfileStarts == P!ServiceInit => ProfileInv
 <1> SUFFICES ASSUME P!ServiceInit PROVE ProfileInv OBVIOUS
 <1> USE ProfileLimits
 <1>1. \A c \in P!ProfileCalls : operation[c] = P!Idle BY DEF P!ServiceInit
 <1>2. P!Idle \in Operation BY DEF P!Idle, Operation, Fields
 <1>3. ProfileParts /\ ProfileCalls
  <2>1. {} \in Fields /\ 0 \in 0..MaxEvents /\ <<>> \in Seq(Fields) /\ Len(<<>>) <= MaxBackups
    BY DEF Fields
  <2> QED BY <1>2, <2>1 DEF P!ServiceInit, ProfileParts, ProfileCalls
 <1>4. ProfilePlaces /\ ProfileAlone
   BY <1>1 DEF P!ServiceInit, P!Idle, ProfilePlaces, ProfileAlone, InFlight, ProfileHeld,
               ProfileAnswered, ProfileCopies
 <1> QED BY <1>3, <1>4 DEF ProfileInv

(* What #auto_backup keeps: the newest first, no more than there is room.  *)
LEMMA BackupsAreCut ==
  ASSUME NEW n \in Nat, NEW old \in Seq(Fields), Len(old) <= n, NEW first \in Fields
  PROVE  LET new == SubSeq(<<first>> \o old, 1, IF Len(old) < n THEN Len(old) + 1 ELSE n) IN
         /\ new \in Seq(Fields) /\ Len(new) <= n
         /\ new # <<>> => Head(new) = first
 <1> DEFINE all == <<first>> \o old
            m == IF Len(old) < n THEN Len(old) + 1 ELSE n
            new == SubSeq(all, 1, m)
 <1>1. all \in Seq(Fields) /\ Len(all) = Len(old) + 1 /\ all[1] = first OBVIOUS
 <1>2. m \in Nat /\ m <= n /\ m <= Len(all) BY <1>1
 <1> HIDE DEF all, m
 <1>3. new \in Seq(Fields) /\ Len(new) = m /\ (m >= 1 => new[1] = all[1]) BY <1>1, <1>2
 <1>4. new # <<>> => Head(new) = first BY <1>1, <1>2, <1>3
 <1> QED BY <1>2, <1>3, <1>4 DEF all, m

LEMMA ProfileKeeps == ProfileInv /\ [P!ServiceNext]_(P!service_vars) => ProfileInv'
 <1> SUFFICES ASSUME ProfileParts, ProfileCalls, ProfilePlaces, ProfileAlone,
                     [P!ServiceNext]_(P!service_vars)
              PROVE  ProfileInv' BY DEF ProfileInv
 <1> USE ProfileLimits
 <1>i. P!Idle \in Operation BY DEF P!Idle, Operation, Fields
 \* Calls that only wait, fail, are tried again or told to stop.
 <1>a. ASSUME UNCHANGED <<stored, mixed>>, ProfileParts', ProfileCalls',
              \A c \in P!ProfileCalls :
                \/ operation'[c].at \in {"none", "failed"}
                \/ /\ operation'[c].profile = operation[c].profile
                   /\ \/ operation'[c].at = operation[c].at
                      \/ operation[c].at = "stored" /\ operation'[c].at = "update",
              cached_profile' \in {No, cached_profile}, dispatching' \in {No, dispatching},
              UNCHANGED backups
       PROVE  ProfileInv'
  <2>1. ProfilePlaces' BY <1>a DEF ProfilePlaces
  <2>2. ASSUME ~mixed' PROVE ProfileAlone'
   <3>1. \A c, d \in P!ProfileCalls : InFlight(c) /\ InFlight(d) => c = d
     BY <1>a, <2>2 DEF ProfileAlone
   <3>2. \A c \in P!ProfileCalls : ProfileHeld(c) /\ ProfileAnswered(c)
     BY <1>a, <2>2 DEF ProfileAlone
   <3>3. ProfileCopies' BY <1>a, <2>2 DEF ProfileAlone, ProfileCopies
   <3>4. \A c \in P!ProfileCalls : InFlight(c)' => InFlight(c) BY <1>a DEF InFlight
   <3>5. ASSUME NEW c \in P!ProfileCalls PROVE ProfileHeld(c)' BY <1>a, <3>2, <3>5 DEF ProfileHeld
   <3>6. ASSUME NEW c \in P!ProfileCalls PROVE ProfileAnswered(c)'
     BY <1>a, <3>2, <3>6 DEF ProfileAnswered
   <3> QED BY <3>1, <3>3, <3>4, <3>5, <3>6 DEF ProfileAlone
  <2>3. ProfileAlone' BY <2>2 DEF ProfileAlone
  <2> QED BY <1>a, <2>1, <2>3 DEF ProfileInv
 <1>1. ASSUME NEW c \in P!ProfileCalls, P!Begins(c) PROVE ProfileInv'
  <2>1. ProfileParts' /\ UNCHANGED <<stored, cached_profile, dispatching, backups>>
    BY <1>1 DEF P!Begins, P!Rest, ProfileParts
  <2>2. ProfileCalls' /\ operation'[c].at = "get" /\ \A d \in P!ProfileCalls \ {c} : operation'[d] = operation[d]
    BY <1>1 DEF P!Begins, ProfileCalls, Operation
  <2>3. ProfilePlaces' BY <2>2 DEF ProfilePlaces
  <2>4. ASSUME ~mixed' PROVE ProfileAlone'
   <3>1. ~mixed /\ \A d \in P!ProfileCalls : ~InFlight(d) BY <1>1, <2>4 DEF P!Begins, InFlight
   <3>2. ProfileCopies' BY <2>1, <3>1 DEF ProfileAlone, ProfileCopies
   <3> QED BY <2>1, <2>2, <3>1, <3>2 DEF ProfileAlone, InFlight, ProfileHeld, ProfileAnswered
  <2>5. ProfileAlone' BY <2>4 DEF ProfileAlone
  <2> QED BY <2>1, <2>2, <2>3, <2>5 DEF ProfileInv
 <1>2. Reader \in P!ProfileCalls BY DEF P!ProfileCalls
 \* A call under way goes on, which is the only one if none are mixed.
 <1>b. ASSUME NEW c \in P!ProfileCalls, InFlight(c), ProfileParts', ProfileCalls', mixed' = mixed,
              \A d \in P!ProfileCalls \ {c} : operation'[d] = operation[d],
              stored' = stored \/ (operation[c].at = "update" /\ stored' = stored \cup {c}),
              ProfileHeld(c)', ~mixed => ProfileAnswered(c)' /\ ProfileCopies',
              operation'[c].at = "cache" => c = Reader,
              operation'[c].at \in {"update", "stored", "done"} => c \in Updates,
              ~mixed => /\ cached_profile' \in {No, cached_profile, stored}
                        /\ dispatching' \in {dispatching, stored}
       PROVE  ProfileInv'
  <2>1. ProfilePlaces' BY <1>b DEF ProfilePlaces
  <2>2. ASSUME ~mixed' PROVE ProfileAlone'
   <3>1. \A d \in P!ProfileCalls : d # c => ~InFlight(d) BY <1>b, <2>2 DEF ProfileAlone
   <3>2. \A d \in P!ProfileCalls : d # c => ProfileHeld(d)' BY <1>b, <3>1 DEF ProfileHeld, InFlight
   <3>3. ASSUME NEW d \in P!ProfileCalls, d # c PROVE ProfileAnswered(d)'
    <4>1. ProfileAnswered(d) BY <1>b, <2>2 DEF ProfileAlone
    <4> QED BY <1>b, <2>2, <3>3, <4>1 DEF ProfileAnswered
   <3>4. \A d, e \in P!ProfileCalls : InFlight(d)' /\ InFlight(e)' => d = e
     BY <1>b, <3>1 DEF InFlight
   <3> QED BY <1>b, <2>2, <3>2, <3>3, <3>4 DEF ProfileAlone
  <2>3. ProfileAlone' BY <2>2 DEF ProfileAlone
  <2> QED BY <1>b, <2>1, <2>3 DEF ProfileInv
 <1>3. ASSUME NEW c \in P!ProfileCalls, P!Got(c), c = Reader PROVE ProfileInv'
  <2>1. ProfileParts' /\ UNCHANGED <<stored, mixed, cached_profile, dispatching, backups>>
    BY <1>3 DEF P!Got, ProfileParts
  <2>2. /\ ProfileCalls' /\ operation'[c].at = "cache" /\ operation'[c].profile = stored
        /\ \A d \in P!ProfileCalls \ {c} : operation'[d] = operation[d]
   <3>1. operation' = [operation EXCEPT ![c] = [operation[c] EXCEPT !.at = "cache", !.profile = stored]]
     BY <1>3 DEF P!Got, ProfileCalls
   <3>2. operation[c] \in Operation /\ stored \in Fields BY DEF ProfileCalls, ProfileParts
   <3>3. /\ [operation[c] EXCEPT !.at = "cache", !.profile = stored] \in Operation
         /\ [operation[c] EXCEPT !.at = "cache", !.profile = stored].at = "cache"
         /\ [operation[c] EXCEPT !.at = "cache", !.profile = stored].profile = stored
     BY <3>2 DEF Operation
   <3> QED BY <3>1, <3>3 DEF ProfileCalls
  <2>3. InFlight(c) BY <1>3 DEF P!Got, InFlight
  <2>4. ProfileHeld(c)' /\ ProfileAnswered(c)' BY <2>1, <2>2 DEF ProfileHeld, ProfileAnswered
  <2>5. ~mixed => ProfileCopies' BY <2>1 DEF ProfileAlone, ProfileCopies
  <2> QED BY <1>b, <1>3, <2>1, <2>2, <2>3, <2>4, <2>5
 <1>4. ASSUME NEW c \in P!ProfileCalls, c # Reader, P!Got(c) \/ P!BackupFails(c) PROVE ProfileInv'
  <2>1. c \in Updates /\ UNCHANGED <<stored, cached_profile, dispatching, dispatched, events, mixed>>
    BY <1>4 DEF P!Got, P!BackupFails, P!Rest, P!ProfileCalls
  <2>2. /\ ProfileCalls' /\ operation'[c].at = "update" /\ operation'[c].profile = stored \cup {c}
        /\ \A d \in P!ProfileCalls \ {c} : operation'[d] = operation[d]
   <3>1. operation' = [operation EXCEPT ![c] = P!ToWrite(c)] BY <1>4 DEF P!Got, P!BackupFails
   <3>2. stored \cup {c} \in Fields BY <2>1 DEF ProfileParts, Fields
   <3>3. /\ P!ToWrite(c) \in Operation /\ P!ToWrite(c).at = "update"
         /\ P!ToWrite(c).profile = stored \cup {c} BY <3>2 DEF P!ToWrite, Operation
   <3> QED BY <3>1, <3>3 DEF ProfileCalls
  <2>3. /\ backups' \in Seq(Fields) /\ Len(backups') <= MaxBackups
        /\ backups' = backups \/ (backups' # <<>> => Head(backups') = stored)
   <3>1. CASE P!Got(c)
    <4>1. backups' = SubSeq(<<stored>> \o backups, 1,
                       IF Len(backups) < MaxBackups THEN Len(backups) + 1 ELSE MaxBackups)
      BY <1>4, <3>1 DEF P!Got
    <4> QED BY <4>1, BackupsAreCut DEF ProfileParts
   <3>2. CASE P!BackupFails(c) BY <3>2 DEF P!BackupFails, P!Rest, ProfileParts
   <3> QED BY <1>4, <3>1, <3>2
  <2>4. ProfileParts' BY <2>1, <2>3 DEF ProfileParts
  <2>5. InFlight(c) BY <1>4 DEF P!Got, P!BackupFails, InFlight
  <2>6. ProfileHeld(c)' /\ ProfileAnswered(c)' BY <2>1, <2>2 DEF ProfileHeld, ProfileAnswered
  <2>7. ~mixed => ProfileCopies' BY <2>1, <2>3 DEF ProfileAlone, ProfileCopies
  <2> QED BY <1>b, <2>1, <2>2, <2>4, <2>5, <2>6, <2>7
 <1>5. ASSUME P!Cached PROVE ProfileInv'
  <2>1. /\ ProfileParts' /\ UNCHANGED <<stored, mixed, dispatching, backups>>
        /\ cached_profile' = operation[Reader].profile /\ InFlight(Reader)
    BY <1>5, <1>2 DEF P!Cached, P!Rest, ProfileParts, ProfileCalls, Operation, InFlight
  <2>2. /\ ProfileCalls' /\ operation'[Reader].at = "none"
        /\ \A d \in P!ProfileCalls \ {Reader} : operation'[d] = operation[d]
    BY <1>5, <1>i, <1>2 DEF P!Cached, ProfileCalls, P!Idle
  <2>3. ProfileHeld(Reader)' /\ ProfileAnswered(Reader)' BY <2>2 DEF ProfileHeld, ProfileAnswered
  <2>4. ~mixed => cached_profile' = stored
    BY <1>5, <1>2, <2>1 DEF P!Cached, ProfileAlone, ProfileHeld
  <2>5. ~mixed => ProfileCopies' BY <2>1, <2>4 DEF ProfileAlone, ProfileCopies
  <2> QED BY <1>b, <1>2, <2>1, <2>2, <2>3, <2>4, <2>5
 <1>6. ASSUME NEW c \in P!ProfileCalls, P!Commits(c) PROVE ProfileInv'
  <2>1. /\ operation[c].profile \in Fields /\ operation[c].at = "update" /\ c \in Updates
        /\ stored' = operation[c].profile /\ InFlight(c)
        /\ UNCHANGED <<mixed, cached_profile, dispatching, backups>>
    BY <1>6 DEF P!Commits, P!Rest, ProfileCalls, ProfilePlaces, Operation, InFlight
  <2>2. ProfileParts' BY <1>6, <2>1 DEF P!Commits, P!Rest, ProfileParts
  <2>3. /\ ProfileCalls' /\ operation'[c].at = "stored"
        /\ operation'[c].profile = operation[c].profile
        /\ \A d \in P!ProfileCalls \ {c} : operation'[d] = operation[d]
    BY <1>6 DEF P!Commits, ProfileCalls, Operation
  <2>4. CASE mixed
   <3>1. ProfilePlaces' /\ ProfileAlone' BY <2>1, <2>3, <2>4 DEF ProfilePlaces, ProfileAlone
   <3> QED BY <2>2, <2>3, <3>1 DEF ProfileInv
  <2>5. CASE ~mixed
   <3>1. stored' = stored \cup {c} BY <2>1, <2>5 DEF ProfileAlone, ProfileHeld
   <3>2. ProfileHeld(c)' /\ ProfileAnswered(c)' BY <2>1, <2>3, <3>1 DEF ProfileHeld, ProfileAnswered
   <3>3. ProfileCopies' BY <2>1, <2>5, <3>1 DEF ProfileAlone, ProfileCopies
   <3> QED BY <1>b, <2>1, <2>2, <2>3, <3>1, <3>2, <3>3
  <2> QED BY <2>4, <2>5
 <1>7. ASSUME NEW c \in P!ProfileCalls, P!Written(c) PROVE ProfileInv'
  <2>1. /\ operation[c].profile \in Fields /\ operation[c].at = "stored" /\ c \in Updates
        /\ InFlight(c) /\ dispatching' = operation[c].profile /\ cached_profile' = No
        /\ UNCHANGED <<stored, mixed, backups>>
    BY <1>7 DEF P!Written, ProfileCalls, ProfilePlaces, Operation, InFlight
  <2>2. events' \in 0..MaxEvents BY <1>7 DEF P!Written, ProfileParts
  <2>3. ProfileParts' BY <1>7, <2>1, <2>2 DEF P!Written, ProfileParts
  <2>o. P!Over("done") \in Operation /\ P!Over("done").at = "done"
    BY DEF P!Over, P!Idle, Operation, Fields
  <2>4. /\ ProfileCalls' /\ operation'[c].at = "done"
        /\ \A d \in P!ProfileCalls \ {c} : operation'[d] = operation[d]
    BY <1>7, <2>o DEF P!Written, ProfileCalls
  <2>5. ~mixed => dispatching' = stored /\ c \in stored BY <2>1 DEF ProfileAlone, ProfileHeld
  <2>6. ~mixed => ProfileCopies' BY <2>1, <2>5 DEF ProfileAlone, ProfileCopies
  <2>7. ProfileHeld(c)' /\ (~mixed => ProfileAnswered(c)')
    BY <2>1, <2>4, <2>5 DEF ProfileHeld, ProfileAnswered
  <2> QED BY <1>b, <2>1, <2>3, <2>4, <2>5, <2>6, <2>7
 <1>8. ASSUME NEW c \in P!ProfileCalls, P!Failed(c) PROVE ProfileInv'
  <2>1. ProfileParts' /\ UNCHANGED <<stored, mixed, cached_profile, dispatching, backups>>
    BY <1>8 DEF P!Failed, P!Rest, ProfileParts
  <2> DEFINE new == IF operation[c].tries < P!Tries /\ operation[c].signal = "open"
                    THEN P!Again(operation[c])
                    ELSE P!Over(IF c = Reader THEN "none" ELSE "failed")
  <2>2. operation' = [operation EXCEPT ![c] = new] BY <1>8 DEF P!Failed
  <2>3. /\ new \in Operation
        /\ \/ new.at \in {"none", "failed"}
           \/ /\ new.profile = operation[c].profile
              /\ \/ new.at = operation[c].at
                 \/ operation[c].at = "stored" /\ new.at = "update"
   <3>1. operation[c] \in Operation /\ operation[c].at \in {"get", "update", "stored"}
     BY <1>8 DEF ProfileCalls, P!Failed, P!Running
   <3>t. operation[c].tries + 1 \in Nat BY <3>1 DEF Operation
   <3>2. /\ P!Again(operation[c]) \in Operation
         /\ P!Again(operation[c]).profile = operation[c].profile
         /\ P!Again(operation[c]).at = IF operation[c].at = "get" THEN "get" ELSE "update"
     BY <3>1, <3>t, Zenon DEF Operation, P!Again
   <3>3. \A at \in {"none", "failed"} : P!Over(at) \in Operation /\ P!Over(at).at = at
     BY DEF P!Over, P!Idle, Operation, Fields
   <3> QED BY <3>1, <3>2, <3>3
  <2> HIDE DEF new
  <2>4. ProfileCalls' /\ operation'[c] = new /\ \A d \in P!ProfileCalls \ {c} : operation'[d] = operation[d]
    BY <2>2, <2>3 DEF ProfileCalls
  <2> QED BY <1>a, <2>1, <2>3, <2>4
 <1>s. ASSUME NEW cs, P!Abort(cs)
       PROVE  /\ ProfileCalls'
              /\ \A d \in P!ProfileCalls : /\ operation'[d].at = operation[d].at
                                           /\ operation'[d].profile = operation[d].profile
   BY <1>s DEF P!Abort, ProfileCalls, Operation
 <1>9. ASSUME P!AbortAllOperations PROVE ProfileInv'
  <2>1. PICK cs : P!Abort(cs) BY <1>9 DEF P!AbortAllOperations
  <2>2. ProfileParts' /\ UNCHANGED <<stored, mixed, cached_profile, dispatching, backups>>
    BY <1>9 DEF P!AbortAllOperations, P!Rest, ProfileParts
  <2> QED BY <1>a, <1>s, <2>1, <2>2
 <1>10. ASSUME NEW c \in P!ProfileCalls, P!TimesOut(c) PROVE ProfileInv'
  <2>1. P!Abort({c}) BY <1>10 DEF P!TimesOut
  <2>2. ProfileParts' /\ UNCHANGED <<stored, mixed, cached_profile, dispatching, backups>>
    BY <1>10 DEF P!TimesOut, P!Rest, ProfileParts
  <2> QED BY <1>a, <1>s, <2>1, <2>2
 <1>11. ASSUME P!Dispatch \/ P!IntervalEnds \/ P!CacheExpires PROVE ProfileInv'
  <2>1. /\ ProfileParts' /\ UNCHANGED <<stored, mixed, backups, operation>>
        /\ cached_profile' \in {No, cached_profile} /\ dispatching' \in {No, dispatching}
    BY <1>11 DEF P!Dispatch, P!IntervalEnds, P!CacheExpires, P!Rest, ProfileParts
  <2>2. ProfileCalls' BY <2>1 DEF ProfileCalls
  <2> QED BY <1>a, <2>1, <2>2
 <1>12. ASSUME P!Dispose PROVE ProfileInv'
  <2>1. P!Abort(P!Running) BY <1>12 DEF P!Dispose
  <2>2. /\ ProfileParts' /\ UNCHANGED <<stored, mixed, backups>>
        /\ cached_profile' = No /\ dispatching' = No BY <1>12 DEF P!Dispose, ProfileParts
  <2> QED BY <1>a, <1>s, <2>1, <2>2
 <1>13. CASE UNCHANGED P!service_vars
   BY <1>13 DEF P!service_vars, ProfileInv, ProfileParts, ProfileCalls, ProfilePlaces, ProfileAlone,
      InFlight, ProfileHeld, ProfileAnswered, ProfileCopies
 <1> QED BY <1>1, <1>2, <1>3, <1>4, <1>5, <1>6, <1>7, <1>8, <1>9, <1>10, <1>11, <1>12, <1>13
      DEF P!ServiceNext, P!BackupFails, P!UpdateProfile, P!GetCurrentProfile

LEMMA ProfileImplies == ProfileInv => P!ServiceTypeOK /\ P!UpdatesAreKept
 <1> SUFFICES ASSUME ProfileInv PROVE P!ServiceTypeOK /\ P!UpdatesAreKept OBVIOUS
 <1>1. P!ServiceTypeOK
  <2>1. ProfileParts BY DEF ProfileInv
  <2>2. \A i \in DOMAIN backups : backups[i] \in Fields BY <2>1 DEF ProfileParts
  <2>3. \A i \in DOMAIN backups : backups[i] \subseteq Updates BY <2>2 DEF Fields
  <2>4. /\ stored \subseteq Updates /\ cached_profile \in (SUBSET Updates) \cup {No}
        /\ dispatching \in (SUBSET Updates) \cup {No} /\ dispatched \in (SUBSET Updates) \cup {No}
    BY <2>1, Zenon DEF ProfileParts, Fields
  <2>5. events \in 0..MaxEvents /\ Len(backups) <= MaxBackups BY <2>1 DEF ProfileParts
  <2> QED BY <2>3, <2>4, <2>5, Zenon DEF P!ServiceTypeOK
 <1>2. P!UpdatesAreKept
  <2> SUFFICES ASSUME ~mixed
               PROVE  /\ \A p \in {stored, cached_profile, dispatching} \ {No} :
                           P!Answered \subseteq p /\ p \subseteq stored
                      /\ backups # <<>> => Head(backups) \subseteq stored BY DEF P!UpdatesAreKept
  <2>1. ProfileCopies /\ \A c \in P!Answered : ProfileAnswered(c) /\ operation[c].at = "done"
    BY DEF ProfileInv, ProfileAlone, P!Answered, P!ProfileCalls
  <2> QED BY <2>1 DEF ProfileAnswered, ProfileCopies
 <1> QED BY <1>1, <1>2

-----------------------------------------------------------------------------
(***************************************************************************)
(* achievement_model.js: what was completed stays completed, and what was  *)
(* claimed was paid.                                                       *)
(***************************************************************************)
RewardModel == {u \in Model : /\ Len(u.history) <= HistoryKept
                              /\ u.completed_at <=> u.status \in {"completed", "claimed"}
                              /\ u.status = "locked" => u.percent = 0}
RewardInv ==
  /\ updates \in 0..MaxUpdates /\ paid \in [Achievements -> Nat]
  /\ user_achievement \in [Achievements -> RewardModel \cup {Missing}]
  /\ \A a \in Achievements : IF user_achievement[a] = Missing THEN paid[a] = 0
                             ELSE paid[a] > 0 <=> user_achievement[a].claimed_at

LEMMA RewardLimits ==
  /\ Target \in Nat \ {0} /\ HistoryKept \in Nat /\ MaxUpdates \in Nat
  /\ RewardModel \subseteq Model /\ Missing \notin Model /\ Missing \notin RewardModel
  BY LimitsAssumption, NoDataAssumption DEF RewardModel

LEMMA RewardStarts == V!ModelInit => RewardInv BY RewardLimits DEF V!ModelInit, RewardInv

LEMMA PercentBounds ==
  ASSUME NEW value \in 0..Target + 1
  PROVE  V!Percent(value) \in 0..100 /\ (value = 0 => V!Percent(value) = 0)
 <1> DEFINE p == (200 * value + Target) \div (2 * Target)
 <1>1. Target \in Nat /\ Target > 0 /\ value \in Nat BY RewardLimits
 <1>2. p \in Nat BY <1>1
 <1>3. ASSUME value = 0 PROVE p = 0
  <2>1. 200 * value + Target = Target /\ Target < 2 * Target BY <1>1, <1>3
  <2>2. Target \div (2 * Target) = 0 BY <1>1, <2>1
  <2> QED BY <2>1, <2>2
 <1>4. V!Percent(value) = IF p > 100 THEN 100 ELSE p BY DEF V!Percent
 <1> HIDE DEF p
 <1> QED BY <1>2, <1>3, <1>4

LEMMA UpdatedIsModel ==
  ASSUME NEW u \in RewardModel, NEW value \in 0..Target + 1
  PROVE  V!Updated(u, value) \in RewardModel /\ V!Updated(u, value).claimed_at = u.claimed_at
 <1> USE RewardLimits
 <1> DEFINE p == V!Percent(value)
            current == IF value < Target THEN value ELSE Target
            history == Append(u.history, value)
            kept_ == SubSeq(history, IF Len(history) > HistoryKept THEN 2 ELSE 1, Len(history))
            status == IF p >= 100 THEN "completed"
                      ELSE IF current > 0 /\ u.status = "locked" THEN "in_progress" ELSE u.status
            done == u.completed_at \/ p >= 100
            u1 == [u EXCEPT !.current = current]
            u2 == [u1 EXCEPT !.percent = p]
            u3 == [u2 EXCEPT !.history = kept_]
            u4 == [u3 EXCEPT !.status = status]
            u5 == [u4 EXCEPT !.completed_at = done]
 <1>1. V!Updated(u, value) = u5 BY Zenon DEF V!Updated
 <1>2. p \in 0..100 /\ (value = 0 => p = 0) /\ current \in 0..Target /\ (current = 0 <=> value = 0)
   BY PercentBounds
 <1>3. /\ u \in Model /\ Len(u.history) <= HistoryKept /\ u.history \in Seq(Nat)
       /\ u.completed_at <=> u.status \in {"completed", "claimed"}
       /\ u.status = "locked" => u.percent = 0
       /\ u.status \in V!Statuses /\ u.completed_at \in BOOLEAN BY DEF RewardModel, Model
 <1>4. kept_ \in Seq(Nat) /\ Len(kept_) <= HistoryKept
  <2>1. history \in Seq(Nat) /\ Len(history) = Len(u.history) + 1 /\ value \in Nat BY <1>3
  <2> HIDE DEF history
  <2>2. CASE Len(history) > HistoryKept
   <3>1. kept_ = SubSeq(history, 2, Len(history)) BY <2>2
   <3>2. SubSeq(history, 2, Len(history)) \in Seq(Nat) /\ Len(SubSeq(history, 2, Len(history))) = Len(history) - 1
     BY <2>1, <1>3
   <3> QED BY <1>3, <2>1, <3>1, <3>2
  <2>3. CASE ~(Len(history) > HistoryKept)
   <3>1. kept_ = SubSeq(history, 1, Len(history)) BY <2>3
   <3>2. SubSeq(history, 1, Len(history)) \in Seq(Nat) /\ Len(SubSeq(history, 1, Len(history))) = Len(history)
     BY <2>1, <1>3
   <3> QED BY <1>3, <2>1, <2>3, <3>1, <3>2
  <2> QED BY <2>2, <2>3
 <1>5. /\ status \in V!Statuses /\ (done <=> status \in {"completed", "claimed"})
       /\ status = "locked" => p = 0 BY <1>2, <1>3 DEF V!Statuses
 <1>6. done \in BOOLEAN BY <1>2, <1>3
 <1> HIDE DEF p, current, history, kept_, status, done
 <1>7. u1 \in Model /\ u1.claimed_at = u.claimed_at BY <1>2, <1>3 DEF Model
 <1> HIDE DEF u1
 <1>8. u2 \in Model /\ u2.claimed_at = u.claimed_at /\ u2.percent = p BY <1>2, <1>7 DEF Model
 <1> HIDE DEF u2
 <1>9. u3 \in Model /\ u3.claimed_at = u.claimed_at /\ u3.percent = p /\ u3.history = kept_
   BY <1>4, <1>8 DEF Model
 <1> HIDE DEF u3
 <1>10. u4 \in Model /\ u4.claimed_at = u.claimed_at /\ u4.percent = p /\ u4.history = kept_
        /\ u4.status = status BY <1>5, <1>9 DEF Model
 <1> HIDE DEF u4
 <1>11. u5 \in Model /\ u5.claimed_at = u.claimed_at /\ u5.percent = p /\ u5.history = kept_
        /\ u5.status = status /\ u5.completed_at = done BY <1>6, <1>10 DEF Model
 <1> HIDE DEF u5
 <1>12. u5 \in RewardModel BY <1>4, <1>5, <1>6, <1>11 DEF RewardModel
 <1> QED BY <1>1, <1>11, <1>12

LEMMA RewardKeeps == RewardInv /\ [V!ModelNext]_(V!model_vars) => RewardInv'
 <1> SUFFICES ASSUME RewardInv, [V!ModelNext]_(V!model_vars) PROVE RewardInv' OBVIOUS
 <1> USE RewardLimits
 <1>c. V!Counted => updates' \in 0..MaxUpdates BY DEF V!Counted, RewardInv
 <1>1. ASSUME NEW a \in Achievements, V!Start(a) PROVE RewardInv'
  <2> DEFINE new == [status |-> "locked", current |-> 0, percent |-> 0, history |-> <<>>,
                     completed_at |-> FALSE, claimed_at |-> FALSE]
  <2>1. /\ user_achievement' = [user_achievement EXCEPT ![a] = new] /\ paid' = paid
        /\ user_achievement[a] = Missing BY <1>1 DEF V!Start, V!Available
  <2>2. new \in Model BY DEF Model, V!Statuses
  <2>3. new \in RewardModel /\ new.claimed_at = FALSE BY <2>2 DEF RewardModel
  <2> HIDE DEF new
  <2>4. /\ user_achievement' \in [Achievements -> RewardModel \cup {Missing}]
        /\ user_achievement'[a] = new
        /\ \A b \in Achievements \ {a} : user_achievement'[b] = user_achievement[b]
    BY <2>1, <2>3 DEF RewardInv
  <2>5. \A b \in Achievements : IF user_achievement'[b] = Missing THEN paid'[b] = 0
                                ELSE paid'[b] > 0 <=> user_achievement'[b].claimed_at
    BY <2>1, <2>3, <2>4 DEF RewardInv
  <2> QED BY <1>1, <1>c, <2>1, <2>4, <2>5 DEF V!Start, RewardInv
 <1>2. ASSUME NEW a \in Achievements, V!Claim(a) PROVE RewardInv'
  <2>1. /\ user_achievement[a] \in RewardModel /\ user_achievement[a].status = "completed"
    BY <1>2 DEF V!Claim, RewardInv
  <2> DEFINE u == user_achievement[a]
             u1 == [u EXCEPT !.status = "claimed"]
             u2 == [u1 EXCEPT !.claimed_at = TRUE]
  <2>2. user_achievement' = [user_achievement EXCEPT ![a].status = "claimed", ![a].claimed_at = TRUE]
    BY <1>2 DEF V!Claim
  <2>3. user_achievement'[a] = u2 /\ \A b \in Achievements \ {a} : user_achievement'[b] = user_achievement[b]
    BY <2>1, <2>2 DEF RewardInv, RewardModel, Model
  <2>e. user_achievement' = [b \in Achievements |-> user_achievement'[b]] BY <2>2 DEF RewardInv
  <2>4. u \in Model /\ Len(u.history) <= HistoryKept /\ u.completed_at BY <2>1 DEF RewardModel
  <2>5. u1 \in Model /\ u1.history = u.history /\ u1.completed_at = u.completed_at /\ u1.status = "claimed"
    BY <2>4 DEF Model, V!Statuses
  <2> HIDE DEF u1
  <2>6. /\ u2 \in Model /\ u2.history = u.history /\ u2.completed_at = u.completed_at
        /\ u2.status = "claimed" /\ u2.claimed_at = TRUE BY <2>5 DEF Model
  <2> HIDE DEF u2
  <2>7. u2 \in RewardModel BY <2>4, <2>6 DEF RewardModel
  <2>8. user_achievement' \in [Achievements -> RewardModel \cup {Missing}]
   <3>1. \A b \in Achievements : user_achievement'[b] \in RewardModel \cup {Missing}
     BY <2>3, <2>7 DEF RewardInv
   <3> QED BY <2>e, <3>1
  <2>9. paid' = [paid EXCEPT ![a] = paid[a] + 1] /\ paid \in [Achievements -> Nat]
    BY <1>2 DEF V!Claim, RewardInv
  <2>10. /\ paid' \in [Achievements -> Nat] /\ paid'[a] > 0
         /\ \A b \in Achievements \ {a} : paid'[b] = paid[b] BY <2>9
  <2>11. \A b \in Achievements : IF user_achievement'[b] = Missing THEN paid'[b] = 0
                                 ELSE paid'[b] > 0 <=> user_achievement'[b].claimed_at
    BY <2>3, <2>6, <2>7, <2>10 DEF RewardInv
  <2> QED BY <1>2, <1>c, <2>8, <2>10, <2>11 DEF V!Claim, RewardInv
 <1>3. ASSUME NEW a \in Achievements, NEW value \in 0..Target + 1, V!UpdateProgress(a, value)
       PROVE  RewardInv'
  <2> DEFINE new == V!Updated(user_achievement[a], value)
  <2>1. /\ user_achievement' = [user_achievement EXCEPT ![a] = new] /\ paid' = paid
        /\ user_achievement[a] \in RewardModel BY <1>3 DEF V!UpdateProgress, RewardInv
  <2>3. new \in RewardModel /\ new.claimed_at = user_achievement[a].claimed_at
    BY <2>1, UpdatedIsModel
  <2> HIDE DEF new
  <2>4. /\ user_achievement' \in [Achievements -> RewardModel \cup {Missing}]
        /\ user_achievement'[a] = new
        /\ \A b \in Achievements \ {a} : user_achievement'[b] = user_achievement[b]
    BY <2>1, <2>3 DEF RewardInv
  <2>5. \A b \in Achievements : IF user_achievement'[b] = Missing THEN paid'[b] = 0
                                ELSE paid'[b] > 0 <=> user_achievement'[b].claimed_at
    BY <2>1, <2>3, <2>4 DEF RewardInv
  <2> QED BY <1>3, <1>c, <2>1, <2>4, <2>5 DEF V!UpdateProgress, RewardInv
 <1>4. CASE UNCHANGED V!model_vars BY <1>4 DEF V!model_vars, RewardInv
 <1> QED BY <1>1, <1>2, <1>3, <1>4 DEF V!ModelNext

LEMMA RewardImplies == RewardInv => V!ModelTypeOK /\ V!CompletionIsKept
 <1> SUFFICES ASSUME RewardInv PROVE V!ModelTypeOK /\ V!CompletionIsKept OBVIOUS
 <1> USE RewardLimits
 <1>1. \A a \in Achievements \ V!Available : user_achievement[a] \in RewardModel
   BY DEF RewardInv, V!Available
 <1>2. V!ModelTypeOK BY <1>1 DEF RewardInv, RewardModel, Model, V!ModelTypeOK
 <1>3. V!CompletionIsKept
  <2> SUFFICES ASSUME NEW a \in Achievements \ V!Available
               PROVE  LET u == user_achievement[a] IN
                      /\ u.completed_at <=> u.status \in {"completed", "claimed"}
                      /\ paid[a] > 0 <=> u.claimed_at
                      /\ u.status = "locked" => u.percent = 0
                      /\ V!Claimable(a) => paid[a] = 0 BY DEF V!CompletionIsKept
  <2>1. user_achievement[a] # Missing /\ (paid[a] > 0 <=> user_achievement[a].claimed_at) /\ paid[a] \in Nat
    BY DEF RewardInv, V!Available
  <2>2. V!Claimable(a) => paid[a] = 0 BY <2>1 DEF V!Claimable
  <2> QED BY <1>1, <2>1, <2>2 DEF RewardModel
 <1> QED BY <1>2, <1>3

-----------------------------------------------------------------------------
(***************************************************************************)
(* user_achievements.js: a list has each type once, and a date with each   *)
(* that is unlocked; so has the one in the database.                       *)
(***************************************************************************)
SoundList == {s \in HeldList : /\ \A i, j \in DOMAIN s : s[i].type = s[j].type => i = j
                               /\ \A i \in DOMAIN s : s[i].unlocked = s[i].dated}
HeldInv ==
  /\ held \in SoundList /\ row \in SoundList \cup {Unsaved}
  /\ subscribed \in BOOLEAN /\ unheard \in BOOLEAN
  /\ ~unheard => told = held

LEMMA HeldStarts == V!HeldInit => HeldInv
 <1>1. <<>> \in HeldList /\ DOMAIN <<>> = {} BY DEF HeldList
 <1>2. <<>> \in SoundList BY <1>1 DEF SoundList
 <1> QED BY <1>2 DEF V!HeldInit, HeldInv

LEMMA EmitKeeps ==
  ASSUME subscribed \in BOOLEAN, V!Emit
  PROVE  unheard' \in BOOLEAN /\ (~unheard' => told' = held') BY DEF V!Emit

LEMMA HeldKeeps == HeldInv /\ [V!HeldNext]_(V!held_vars) => HeldInv'
 <1> SUFFICES ASSUME HeldInv, [V!HeldNext]_(V!held_vars) PROVE HeldInv' OBVIOUS
 <1>h. held \in HeldList /\ held \in SoundList BY DEF HeldInv, SoundList
 <1>1. ASSUME NEW t \in Types, NEW u \in BOOLEAN, V!AddAchievement(t, u) PROVE HeldInv'
  <2> DEFINE new == [type |-> t, unlocked |-> u, dated |-> u]
  <2>1. held' = Append(held, new) /\ \A i \in DOMAIN held : held[i].type # t
    BY <1>1 DEF V!AddAchievement, V!HasAchievement
  <2>2. new.type = t /\ new.unlocked = new.dated /\ new \in HeldEntry BY DEF HeldEntry
  <2> HIDE DEF new
  <2>3. held' \in HeldList /\ Len(held') = Len(held) + 1 /\ held'[Len(held) + 1] = new
        /\ \A i \in 1..Len(held) : held'[i] = held[i] BY <1>h, <2>1, <2>2 DEF HeldList
  <2>4. DOMAIN held = 1..Len(held) /\ DOMAIN held' = 1..(Len(held) + 1) /\ Len(held) \in Nat
    BY <1>h, <2>3 DEF HeldList
  <2>5. \A i \in DOMAIN held' : held'[i].unlocked = held'[i].dated
    BY <1>h, <2>2, <2>3, <2>4 DEF SoundList
  <2>6. \A i, j \in DOMAIN held' : held'[i].type = held'[j].type => i = j
    BY <1>h, <2>1, <2>2, <2>3, <2>4 DEF SoundList
  <2>7. held' \in SoundList BY <2>3, <2>5, <2>6 DEF SoundList
  <2> QED BY <1>1, <2>7, EmitKeeps DEF HeldInv, V!AddAchievement
 <1>2. ASSUME NEW t \in Types, V!UnlockAchievement(t) PROVE HeldInv'
  <2>1. PICK i \in DOMAIN held : held' = [held EXCEPT ![i].unlocked = TRUE, ![i].dated = TRUE]
    BY <1>2 DEF V!UnlockAchievement
  <2>2. DOMAIN held = 1..Len(held) /\ Len(held) \in Nat
        /\ held[i] \in HeldEntry BY <1>h DEF HeldList
  <2>3. /\ held' \in HeldList /\ DOMAIN held' = DOMAIN held
        /\ \A j \in DOMAIN held : j # i => held'[j] = held[j]
        /\ held'[i].type = held[i].type /\ held'[i].unlocked = TRUE /\ held'[i].dated = TRUE
   <3>1. /\ DOMAIN held' = DOMAIN held /\ \A j \in DOMAIN held : j # i => held'[j] = held[j]
         /\ held'[i].type = held[i].type /\ held'[i].unlocked = TRUE /\ held'[i].dated = TRUE
         /\ held'[i] \in HeldEntry BY <2>1, <2>2 DEF HeldEntry
   <3>2. held' = [j \in 1..Len(held) |-> held'[j]] BY <2>1, <2>2
   <3>3. \A j \in 1..Len(held) : held'[j] \in HeldEntry BY <1>h, <2>2, <3>1 DEF HeldList
   <3>4. held' \in HeldList BY <2>2, <3>2, <3>3 DEF HeldList
   <3> QED BY <3>1, <3>4
  <2>4. \A j \in DOMAIN held : held'[j].type = held[j].type BY <2>3
  <2>5. \A j \in DOMAIN held' : held'[j].unlocked = held'[j].dated BY <1>h, <2>3 DEF SoundList
  <2>7. held' \in SoundList BY <1>h, <2>3, <2>4, <2>5 DEF SoundList
  <2> QED BY <1>2, <2>7, EmitKeeps DEF HeldInv, V!UnlockAchievement
 <1>3. ASSUME V!Subscribe \/ V!Unsubscribe \/ V!ToDB \/ V!RestoreState \/ V!FromDB PROVE HeldInv'
   BY <1>3 DEF V!Subscribe, V!Unsubscribe, V!ToDB, V!RestoreState, V!FromDB, HeldInv
 <1>4. CASE UNCHANGED V!held_vars BY <1>4 DEF V!held_vars, HeldInv
 <1> QED BY <1>1, <1>2, <1>3, <1>4 DEF V!HeldNext

(* As many as there are types is all a list can hold. *)
LEMMA HeldImplies == HeldInv => V!HeldTypeOK /\ V!OneOfEachType
 <1> SUFFICES ASSUME HeldInv PROVE V!HeldTypeOK /\ V!OneOfEachType OBVIOUS
 <1>1. held \in HeldList /\ \A i, j \in DOMAIN held : held[i].type = held[j].type => i = j
   BY DEF HeldInv, SoundList
 <1>2. \A i \in DOMAIN held : held[i].type \in Types
  <2>1. \A i \in DOMAIN held : held[i] \in HeldEntry BY <1>1 DEF HeldList
  <2> QED BY <2>1 DEF HeldEntry
 <1>3. Len(held) \in Nat /\ DOMAIN held = 1..Len(held) BY <1>1 DEF HeldList
 <1>4. Len(held) <= MaxSize
  <2> DEFINE n == Len(held)
             f == [i \in 1..n |-> held[i].type]
  <2>1. IsFiniteSet(Types) /\ MaxSize \in Nat /\ Cardinality(Types) <= MaxSize BY LimitsAssumption
  <2>2. f \in [1..n -> Types] /\ \A i, j \in 1..n : f[i] = f[j] => i = j BY <1>1, <1>2, <1>3
  <2>3. IsFiniteSet(1..n) /\ Cardinality(1..n) = n /\ Cardinality(Types) \in Nat /\ n \in Nat
   <3>1. n \in Nat /\ n \in Int /\ 1 \in Int BY <1>3
   <3> HIDE DEF n
   <3>2. IsFiniteSet(1..n) /\ Cardinality(1..n) = IF 1 > n THEN 0 ELSE n - 1 + 1
     BY <3>1, FS_Interval
   <3>3. Cardinality(Types) \in Nat BY <2>1, FS_CardinalityType
   <3> QED BY <3>1, <3>2, <3>3
  <2> HIDE DEF n, f
  <2>4. ~(Cardinality(Types) < Cardinality(1..n))
   <3> SUFFICES ASSUME Cardinality(Types) < Cardinality(1..n) PROVE FALSE OBVIOUS
   <3>1. \E x, y \in 1..n : x # y /\ f[x] = f[y] BY <2>1, <2>2, <2>3, FS_PigeonHole
   <3> QED BY <2>2, <3>1
  <2>5. n <= MaxSize BY <2>1, <2>3, <2>4
  <2> QED BY <2>5 DEF n
 <1>5. V!HeldTypeOK BY <1>2, <1>4 DEF HeldInv, V!HeldTypeOK
 <1>6. V!OneOfEachType BY DEF HeldInv, SoundList, V!OneOfEachType
 <1> QED BY <1>5, <1>6

-----------------------------------------------------------------------------
(***************************************************************************)
(* Sums over finite sets, as the folds of the library define them: a       *)
(* function on the subsets that adds the value of the element picked to    *)
(* the sum of the others.  The least number for which a statement fails    *)
(* stands for induction.                                                   *)
(***************************************************************************)
IsSum(g, val, pick, Whole) ==
  /\ g \in [SUBSET Whole -> Nat]
  /\ \A s \in SUBSET Whole : g[s] = IF s = {} THEN 0 ELSE val[pick[s]] + g[s \ {pick[s]}]

Picks(pick, Whole) == \A s \in SUBSET Whole : s # {} => pick[s] \in s
Follows(it, g, pick, Whole) ==
  /\ it[{}] = g[{}]
  /\ \A s \in SUBSET Whole : s # {} /\ it[s \ {pick[s]}] = g[s \ {pick[s]}] => it[s] = g[s]
SameBut(u, v, i, Whole) == \A j \in Whole \ {i} : u[j] = v[j]
Shifted(h, g, u, v, i, Whole) ==
  \A s \in SUBSET Whole : h[s] = g[s] + IF i \in s THEN v[i] - u[i] ELSE 0

LEMMA LeastNumber ==
  ASSUME NEW T_ \in SUBSET Nat, T_ # {}
  PROVE  \E m \in T_ : \A k \in T_ : m <= k
 <1>1. PICK m \in T_ : \A k \in T_ : <<k, m>> \notin OpToRel(<, Nat)
   BY WFMin, NatLessThanWellFounded, Zenon
 <1>2. \A k \in T_ : ~(k < m)
  <2>1. \A k \in T_ : k \in Nat /\ m \in Nat OBVIOUS
  <2> QED BY <1>1, <2>1, Zenon DEF OpToRel
 <1>3. \A k \in T_ : m <= k BY <1>2
 <1> QED BY <1>3

LEMMA OneLess ==
  ASSUME NEW Whole, IsFiniteSet(Whole), NEW s \in SUBSET Whole, NEW x \in s
  PROVE  /\ s \ {x} \in SUBSET Whole /\ Cardinality(s) \in Nat /\ Cardinality(s) > 0
         /\ Cardinality(s \ {x}) = Cardinality(s) - 1
 <1>1. IsFiniteSet(s) /\ Cardinality(s) \in Nat BY FS_Subset, FS_CardinalityType
 <1>2. Cardinality(s \ {x}) = Cardinality(s) - 1 /\ IsFiniteSet(s \ {x}) BY <1>1, FS_RemoveElement
 <1>3. Cardinality(s \ {x}) \in Nat BY <1>2, FS_CardinalityType
 <1> QED BY <1>1, <1>2, <1>3

LEMMA SumExists ==
  ASSUME NEW Whole, IsFiniteSet(Whole), NEW val \in [Whole -> Nat], NEW pick, Picks(pick, Whole)
  PROVE  \E g : IsSum(g, val, pick, Whole)
 <1> DEFINE Small(n) == {s \in SUBSET Whole : Cardinality(s) <= n}
            Body(h, s) == IF s = {} THEN 0 ELSE val[pick[s]] + h[s \ {pick[s]}]
            Good(n) == \E h \in [Small(n) -> Nat] : \A s \in Small(n) : h[s] = Body(h, s)
            Bad == {n \in Nat : ~Good(n)}
 <1>f. \A s \in SUBSET Whole : Cardinality(s) \in Nat BY FS_Subset, FS_CardinalityType
 <1>1. Good(0)
  <2> DEFINE h == [s \in Small(0) |-> 0]
  <2>1. \A s \in Small(0) : s = {}
   <3> SUFFICES ASSUME NEW s \in SUBSET Whole, Cardinality(s) <= 0 PROVE s = {} OBVIOUS
   <3>1. IsFiniteSet(s) /\ Cardinality(s) = 0 BY <1>f, FS_Subset
   <3> QED BY <3>1, FS_EmptySet
  <2>2. h \in [Small(0) -> Nat] OBVIOUS
  <2>3. \A s \in Small(0) : h[s] = Body(h, s) BY <2>1
  <2> QED BY <2>2, <2>3
 <1>2. ASSUME NEW n \in Nat, Good(n) PROVE Good(n + 1)
  <2>1. PICK h \in [Small(n) -> Nat] : \A s \in Small(n) : h[s] = Body(h, s) BY <1>2
  <2> DEFINE h2 == [s \in Small(n + 1) |-> Body(h, s)]
  <2>2. \A s \in Small(n + 1) : s # {} => /\ pick[s] \in s /\ pick[s] \in Whole
                                          /\ s \ {pick[s]} \in Small(n)
                                          /\ s \ {pick[s]} \in Small(n + 1)
   <3> SUFFICES ASSUME NEW s \in SUBSET Whole, Cardinality(s) <= n + 1, s # {}
                PROVE  /\ pick[s] \in s /\ pick[s] \in Whole
                       /\ s \ {pick[s]} \in SUBSET Whole /\ Cardinality(s \ {pick[s]}) <= n
                       /\ Cardinality(s \ {pick[s]}) <= n + 1
     OBVIOUS
   <3>1. pick[s] \in s BY DEF Picks
   <3>2. /\ s \ {pick[s]} \in SUBSET Whole /\ Cardinality(s) \in Nat
         /\ Cardinality(s \ {pick[s]}) = Cardinality(s) - 1 BY <3>1, OneLess
   <3> QED BY <3>1, <3>2
  <2>3. h2 \in [Small(n + 1) -> Nat]
   <3> SUFFICES ASSUME NEW s \in Small(n + 1) PROVE Body(h, s) \in Nat OBVIOUS
   <3>1. CASE s = {} BY <3>1
   <3>2. CASE s # {}
    <4>1. pick[s] \in Whole /\ s \ {pick[s]} \in Small(n) BY <2>2, <3>2
    <4>2. val[pick[s]] \in Nat /\ h[s \ {pick[s]}] \in Nat BY <4>1
    <4> QED BY <3>2, <4>2
   <3> QED BY <3>1, <3>2
  <2>4. \A s \in Small(n + 1) : h2[s] = Body(h2, s)
   <3> SUFFICES ASSUME NEW s \in Small(n + 1), s # {}
                PROVE  h[s \ {pick[s]}] = h2[s \ {pick[s]}]
     OBVIOUS
   <3>1. s \ {pick[s]} \in Small(n) /\ s \ {pick[s]} \in Small(n + 1) BY <2>2
   <3> QED BY <2>1, <3>1
  <2> QED BY <2>3, <2>4
 <1>3. Bad = {}
  <2> SUFFICES ASSUME Bad # {} PROVE FALSE OBVIOUS
  <2>1. Bad \in SUBSET Nat OBVIOUS
  <2>2. PICK m \in Bad : \A k \in Bad : m <= k
   <3> HIDE DEF Bad
   <3> QED BY <2>1, LeastNumber
  <2> HIDE DEF Good
  <2>3. m \in Nat /\ ~Good(m) /\ m # 0 BY <1>1
  <2>4. m - 1 \in Nat /\ m - 1 \notin Bad BY <2>2, <2>3
  <2>5. Good(m - 1) BY <2>4
  <2>6. Good((m - 1) + 1) /\ (m - 1) + 1 = m BY <1>2, <2>3, <2>4, <2>5
  <2> QED BY <2>3, <2>6
 <1>4. Cardinality(Whole) \in Nat BY FS_CardinalityType
 <1>5. Good(Cardinality(Whole)) BY <1>3, <1>4
 <1>6. Small(Cardinality(Whole)) = SUBSET Whole
  <2>1. \A s \in SUBSET Whole : Cardinality(s) <= Cardinality(Whole) BY FS_Subset
  <2> QED BY <2>1
 <1> QED BY <1>5, <1>6 DEF IsSum

(* Two sums over the same elements differ by what one of them is changed.  *)
LEMMA SumsDiffer ==
  ASSUME NEW A, NEW B, A \subseteq B, IsFiniteSet(B), NEW pick, Picks(pick, B),
         NEW u \in [A -> Nat], NEW v \in [B -> Nat], NEW i, SameBut(u, v, i, A),
         NEW g, NEW h, IsSum(g, u, pick, A), IsSum(h, v, pick, B)
  PROVE  Shifted(h, g, u, v, i, A)
 <1> DEFINE Same(s) == h[s] = g[s] + IF i \in s THEN v[i] - u[i] ELSE 0
            Bad == {n \in Nat : \E s \in SUBSET A : Cardinality(s) = n /\ ~Same(s)}
 <1>f. IsFiniteSet(A) /\ \A s \in SUBSET A : s \in SUBSET B /\ Cardinality(s) \in Nat
   BY FS_Subset, FS_CardinalityType
 <1>1. Bad = {}
  <2> SUFFICES ASSUME Bad # {} PROVE FALSE OBVIOUS
  <2>1. Bad \in SUBSET Nat OBVIOUS
  <2>2. PICK m \in Bad : \A k \in Bad : m <= k
   <3> HIDE DEF Bad
   <3> QED BY <2>1, LeastNumber
  <2>3. PICK s \in SUBSET A : Cardinality(s) = m /\ ~Same(s) OBVIOUS
  <2>4. s # {}
   <3> SUFFICES ASSUME s = {} PROVE FALSE OBVIOUS
   <3>1. h[s] = 0 /\ g[s] = 0 /\ i \notin s BY <1>f DEF IsSum
   <3> QED BY <2>3, <3>1
  <2> DEFINE x == pick[s]
             t == s \ {x}
  <2>5. x \in s /\ x \in A /\ x \in B /\ t \in SUBSET A /\ Cardinality(t) = m - 1 /\ m \in Nat /\ m - 1 \in Nat
   <3>1. x \in s BY <1>f, <2>4 DEF Picks
   <3>2. t \in SUBSET A /\ Cardinality(t) = m - 1 /\ m \in Nat /\ m > 0 BY <1>f, <2>3, <3>1, OneLess
   <3> QED BY <3>1, <3>2
  <2>6. Same(t)
   <3>1. m - 1 \notin Bad BY <2>2, <2>5
   <3> QED BY <2>5, <3>1
  <2>7. h[s] = v[x] + h[t] /\ g[s] = u[x] + g[t] BY <1>f, <2>4 DEF IsSum
  <2>8. g[t] \in Nat /\ h[t] \in Nat /\ u[x] \in Nat /\ v[x] \in Nat BY <1>f, <2>5 DEF IsSum
  <2>9. CASE x = i
   <3>1. i \in s /\ i \notin t BY <2>5, <2>9
   <3>2. h[t] = g[t] BY <2>6, <2>8, <3>1
   <3>3. Same(s) BY <2>7, <2>8, <2>9, <3>1, <3>2
   <3> QED BY <2>3, <3>3
  <2>10. CASE x # i
   <3>1. (i \in s <=> i \in t) /\ u[x] = v[x] BY <2>5, <2>10 DEF SameBut
   <3>2. i \in s => u[i] \in Nat /\ v[i] \in Nat OBVIOUS
   <3> HIDE DEF x, t
   <3>3. CASE i \in s BY <2>3, <2>6, <2>7, <2>8, <3>1, <3>2, <3>3
   <3>4. CASE i \notin s BY <2>3, <2>6, <2>7, <2>8, <3>1, <3>4
   <3> QED BY <3>3, <3>4
  <2> QED BY <2>9, <2>10
 <1>2. \A s \in SUBSET A : Same(s) BY <1>1, <1>f
 <1> QED BY <1>2 DEF Shifted

(* A function that follows a sum from each set to the next is the sum.     *)
LEMMA SumIsUnique ==
  ASSUME NEW Whole, IsFiniteSet(Whole), NEW pick, Picks(pick, Whole),
         NEW g, NEW it, Follows(it, g, pick, Whole)
  PROVE  \A s \in SUBSET Whole : it[s] = g[s]
 <1> DEFINE Bad == {n \in Nat : \E s \in SUBSET Whole : Cardinality(s) = n /\ it[s] # g[s]}
 <1>f. \A s \in SUBSET Whole : Cardinality(s) \in Nat BY FS_Subset, FS_CardinalityType
 <1>1. Bad = {}
  <2> SUFFICES ASSUME Bad # {} PROVE FALSE OBVIOUS
  <2>1. Bad \in SUBSET Nat OBVIOUS
  <2>2. PICK m \in Bad : \A k \in Bad : m <= k
   <3> HIDE DEF Bad
   <3> QED BY <2>1, LeastNumber
  <2>3. PICK s \in SUBSET Whole : Cardinality(s) = m /\ it[s] # g[s] OBVIOUS
  <2>4. s # {} /\ pick[s] \in s BY <2>3 DEF Picks, Follows
  <2>5. /\ s \ {pick[s]} \in SUBSET Whole /\ m \in Nat /\ m - 1 \in Nat
        /\ Cardinality(s \ {pick[s]}) = m - 1
   <3>1. /\ s \ {pick[s]} \in SUBSET Whole /\ Cardinality(s) \in Nat /\ Cardinality(s) > 0
         /\ Cardinality(s \ {pick[s]}) = Cardinality(s) - 1 BY <2>4, OneLess
   <3> QED BY <2>3, <3>1
  <2>6. m - 1 \notin Bad BY <2>2, <2>5
  <2>7. it[s \ {pick[s]}] = g[s \ {pick[s]}] BY <2>5, <2>6
  <2> QED BY <2>3, <2>4, <2>7 DEF Follows
 <1> QED BY <1>1, <1>f

LEMMA MaxIsThere ==
  ASSUME NEW n \in Nat, NEW s \in SUBSET (1..n), s # {}
  PROVE  T!Max(s) \in s /\ \A y \in s : T!Max(s) >= y
 <1> DEFINE Rest == {k \in Nat : \E x \in s : k = n - x}
 <1>1. Rest \in SUBSET Nat /\ Rest # {}
  <2>1. PICK x \in s : TRUE OBVIOUS
  <2>2. n - x \in Rest BY <2>1
  <2> QED BY <2>2
 <1>2. PICK m \in Rest : \A k \in Rest : m <= k
  <2> HIDE DEF Rest
  <2> QED BY <1>1, LeastNumber
 <1>3. PICK x \in s : m = n - x OBVIOUS
 <1>4. \A y \in s : x >= y
  <2> SUFFICES ASSUME NEW y \in s PROVE x >= y OBVIOUS
  <2>1. n - y \in Rest /\ x \in Nat /\ y \in Nat OBVIOUS
  <2>2. m <= n - y BY <1>2, <2>1
  <2> QED BY <1>3, <2>1, <2>2
 <1> QED BY <1>4, Zenon DEF T!Max

LEMMA CountsIsSum ==
  ASSUME NEW s \in Seq(Nat), NEW n \in Nat, Len(s) <= n
  PROVE  LET pick == [t \in SUBSET (1..n) |-> T!Max(t)] IN
         \E g : IsSum(g, s, pick, 1..Len(s)) /\ T!Counts(s) = g[1..Len(s)]
 <1> DEFINE D == 1..Len(s)
            pick == [t \in SUBSET (1..n) |-> T!Max(t)]
            Body(g) == [t \in SUBSET D |-> IF t = {} THEN 0
                                           ELSE g[t \ {T!Max(t)}] + s[T!Max(t)]]
            it == CHOOSE g : g = Body(g)
 <1>1. T!Counts(s) = it[D]
  <2>1. DOMAIN s = D OBVIOUS
  <2>2. LET body(g) == [t \in SUBSET (DOMAIN s) |-> IF t = {} THEN 0 ELSE
                          g[t \ {T!Max(t)}] + s[T!Max(t)]]
            it_ == CHOOSE g : g = body(g)
        IN T!Counts(s) = it_[DOMAIN s] BY Zenon DEF T!Counts, T!FoldLeft, T!MapThenFoldSet
  <2> QED BY <2>1, <2>2, Zenon
 <1>2. Len(s) \in Nat /\ D \subseteq 1..n /\ s \in [D -> Nat] OBVIOUS
 <1>3. IsFiniteSet(D) BY <1>2, FS_Interval
 <1>4. \A t \in SUBSET D : t \in SUBSET (1..n) /\ pick[t] = T!Max(t) BY <1>2
 <1>5. Picks(pick, D) BY <1>4, MaxIsThere DEF Picks
 <1>6. PICK g : IsSum(g, s, pick, D)
  <2> HIDE DEF D, pick
  <2> QED BY <1>2, <1>3, <1>5, SumExists
 <1>7. g = Body(g)
  <2>1. \A t \in SUBSET D : g[t] = Body(g)[t]
   <3> SUFFICES ASSUME NEW t \in SUBSET D PROVE g[t] = Body(g)[t] OBVIOUS
   <3>1. CASE t = {} BY <1>6, <3>1 DEF IsSum
   <3>2. CASE t # {}
    <4>1. g[t] = s[pick[t]] + g[t \ {pick[t]}] /\ pick[t] \in D /\ t \ {pick[t]} \in SUBSET D
      BY <1>5, <1>6, <3>2 DEF IsSum, Picks
    <4>2. s[pick[t]] \in Nat /\ g[t \ {pick[t]}] \in Nat BY <1>2, <1>6, <4>1 DEF IsSum
    <4>3. g[t] = g[t \ {pick[t]}] + s[pick[t]] BY <4>1, <4>2
    <4> QED BY <1>4, <3>2, <4>3
   <3> QED BY <3>1, <3>2
  <2>2. g \in [SUBSET D -> Nat] BY <1>6 DEF IsSum
  <2> HIDE DEF D
  <2> QED BY <2>1, <2>2
 <1>8. it = Body(it)
  <2> HIDE DEF Body
  <2> QED BY <1>7, Zenon
 <1>9. \A t \in SUBSET D : it[t] = Body(it)[t]
  <2> HIDE DEF Body, it
  <2> QED BY <1>8
 <1>10. \A t \in SUBSET D : it[t] = g[t]
  <2> HIDE DEF it
  <2>1. it[{}] = g[{}] BY <1>6, <1>9 DEF IsSum
  <2>2. ASSUME NEW t \in SUBSET D, t # {}, it[t \ {pick[t]}] = g[t \ {pick[t]}]
        PROVE  it[t] = g[t]
   <3>1. g[t] = s[pick[t]] + g[t \ {pick[t]}] /\ pick[t] \in D /\ t \ {pick[t]} \in SUBSET D
     BY <1>5, <1>6, <2>2 DEF IsSum, Picks
   <3>2. s[pick[t]] \in Nat /\ g[t \ {pick[t]}] \in Nat BY <1>2, <1>6, <3>1 DEF IsSum
   <3>3. it[t] = it[t \ {pick[t]}] + s[pick[t]] BY <1>4, <1>9, <2>2
   <3> QED BY <2>2, <3>1, <3>2, <3>3
  <2>3. Follows(it, g, pick, D) BY <2>1, <2>2 DEF Follows
  <2> HIDE DEF D, pick, Body
  <2> QED BY <1>3, <1>5, <2>3, SumIsUnique
 <1> QED BY <1>1, <1>6, <1>10

LEMMA CountsAppend ==
  ASSUME NEW s \in Seq(Nat), NEW c \in Nat
  PROVE  T!Counts(s) \in Nat /\ T!Counts(Append(s, c)) = T!Counts(s) + c
 <1> DEFINE n == Len(s) + 1
            r == Append(s, c)
            pick == [t \in SUBSET (1..n) |-> T!Max(t)]
 <1>1. n \in Nat /\ r \in Seq(Nat) /\ Len(r) = n /\ Len(s) <= n /\ r[n] = c /\ Len(s) \in Nat
       /\ \A j \in 1..Len(s) : r[j] = s[j]
   OBVIOUS
 <1> HIDE DEF n, r
 <1>2. PICK g : IsSum(g, s, pick, 1..Len(s)) /\ T!Counts(s) = g[1..Len(s)] BY <1>1, CountsIsSum
 <1>3. PICK h : IsSum(h, r, pick, 1..n) /\ T!Counts(r) = h[1..n]
  <2>1. Len(r) <= n BY <1>1
  <2> QED BY <1>1, <2>1, CountsIsSum
 <1>4. 1..Len(s) \subseteq 1..n /\ IsFiniteSet(1..n) /\ s \in [1..Len(s) -> Nat] /\ r \in [1..n -> Nat]
  <2>1. 1 \in Int /\ n \in Int BY <1>1
  <2>2. IsFiniteSet(1..n) BY <2>1, FS_Interval
  <2>3. 1..Len(s) \subseteq 1..n BY <1>1
  <2> QED BY <1>1, <2>2, <2>3
 <1>5. Picks(pick, 1..n) BY <1>1, MaxIsThere DEF Picks
 <1>6. h[1..Len(s)] = g[1..Len(s)] /\ g[1..Len(s)] \in Nat
  <2>1. n \notin 1..Len(s) /\ \A j \in (1..Len(s)) \ {n} : s[j] = r[j] BY <1>1 DEF n
  <2>2. \A t \in SUBSET (1..Len(s)) : h[t] = g[t] + IF n \in t THEN r[n] - s[n] ELSE 0
   <3> DEFINE A == 1..Len(s)
              B == 1..n
   <3>1. A \subseteq B /\ IsFiniteSet(B) BY <1>4
   <3>2. Picks(pick, B) BY <1>5
   <3>3. s \in [A -> Nat] BY <1>4
   <3>4. r \in [B -> Nat] BY <1>4
   <3>5. SameBut(s, r, n, A) BY <2>1 DEF SameBut
   <3>6. IsSum(g, s, pick, A) BY <1>2
   <3>7. IsSum(h, r, pick, B) BY <1>3
   <3> HIDE DEF pick, A, B
   <3>8. Shifted(h, g, s, r, n, A) BY <3>1, <3>2, <3>3, <3>4, <3>5, <3>6, <3>7, SumsDiffer
   <3> QED BY <3>8 DEF A, Shifted
  <2>3. g[1..Len(s)] \in Nat BY <1>2 DEF IsSum
  <2> QED BY <2>1, <2>2, <2>3
 <1>7. h[1..n] = r[n] + h[1..Len(s)]
  <2>1. n \in 1..n /\ 1..n # {} /\ (1..n) \ {n} = 1..Len(s) BY <1>1 DEF n
  <2>2. pick[1..n] = n
   <3>1. T!Max(1..n) \in 1..n /\ T!Max(1..n) >= n BY <1>1, <2>1, MaxIsThere
   <3>2. T!Max(1..n) = n BY <1>1, <3>1
   <3> QED BY <3>2
  <2>3. h[1..n] = IF 1..n = {} THEN 0 ELSE r[pick[1..n]] + h[(1..n) \ {pick[1..n]}]
    BY <1>3 DEF IsSum
  <2> QED BY <2>1, <2>2, <2>3
 <1> QED BY <1>1, <1>2, <1>3, <1>6, <1>7 DEF r

(* What the calls of increment_completed hold, as the fold has it.         *)
Increment == [at : {"none", "middleware"}, count : Nat]
CountsOf(f) == T!MapThenSumSet(LAMBDA i : f[i].count, Increments)
Chosen == [s \in SUBSET Increments |-> CHOOSE x \in s : TRUE]
CountOf(f) == [i \in Increments |-> f[i].count]

LEMMA ChosenPicks == Picks(Chosen, Increments) /\ IsFiniteSet(Increments)
  BY LimitsAssumption DEF Picks, Chosen

LEMMA CountsOfIsSum ==
  ASSUME NEW f \in [Increments -> Increment]
  PROVE  \E g : IsSum(g, CountOf(f), Chosen, Increments) /\ CountsOf(f) = g[Increments]
 <1> DEFINE Body(g) == [s \in SUBSET Increments |-> IF s = {} THEN 0 ELSE
                          f[CHOOSE x \in s : TRUE].count + g[s \ {CHOOSE x \in s : TRUE}]]
            it == CHOOSE g : g = Body(g)
 <1>1. CountsOf(f) = it[Increments] BY Zenon DEF CountsOf, T!MapThenSumSet, T!MapThenFoldSet
 <1>2. CountOf(f) \in [Increments -> Nat] BY DEF CountOf, Increment
 <1>3. PICK g : IsSum(g, CountOf(f), Chosen, Increments) BY <1>2, ChosenPicks, SumExists
 <1>4. \A s \in SUBSET Increments : s # {} =>
          /\ Chosen[s] = CHOOSE x \in s : TRUE
          /\ Chosen[s] \in Increments /\ CountOf(f)[Chosen[s]] = f[Chosen[s]].count
   BY ChosenPicks DEF Picks, Chosen, CountOf
 <1>5. g = Body(g)
  <2>1. \A s \in SUBSET Increments : g[s] = Body(g)[s]
   <3> SUFFICES ASSUME NEW s \in SUBSET Increments PROVE g[s] = Body(g)[s] OBVIOUS
   <3>1. CASE s = {} BY <1>3, <3>1 DEF IsSum
   <3>2. CASE s # {}
    <4>1. g[s] = f[Chosen[s]].count + g[s \ {Chosen[s]}] BY <1>3, <1>4, <3>2 DEF IsSum
    <4> QED BY <1>4, <3>2, <4>1
   <3> QED BY <3>1, <3>2
  <2>2. g \in [SUBSET Increments -> Nat] BY <1>3 DEF IsSum
  <2> QED BY <2>1, <2>2
 <1>6. it = Body(it)
  <2> HIDE DEF Body
  <2> QED BY <1>5, Zenon
 <1>7. \A s \in SUBSET Increments : it[s] = Body(it)[s]
  <2> HIDE DEF Body, it
  <2> QED BY <1>6
 <1>8. Follows(it, g, Chosen, Increments)
  <2> HIDE DEF it
  <2>1. it[{}] = g[{}] BY <1>3, <1>7 DEF IsSum
  <2>2. ASSUME NEW s \in SUBSET Increments, s # {}, it[s \ {Chosen[s]}] = g[s \ {Chosen[s]}]
        PROVE  it[s] = g[s]
   <3>1. g[s] = f[Chosen[s]].count + g[s \ {Chosen[s]}] BY <1>3, <1>4, <2>2 DEF IsSum
   <3>2. it[s] = f[Chosen[s]].count + it[s \ {Chosen[s]}] BY <1>4, <1>7, <2>2
   <3> QED BY <2>2, <3>1, <3>2
  <2> QED BY <2>1, <2>2 DEF Follows
 <1>9. it[Increments] = g[Increments]
  <2> HIDE DEF it, Body
  <2>1. \A s \in SUBSET Increments : it[s] = g[s] BY <1>8, ChosenPicks, SumIsUnique
  <2> QED BY <2>1
 <1> QED BY <1>1, <1>3, <1>9

LEMMA CountsOfShifts ==
  ASSUME NEW f \in [Increments -> Increment], NEW e \in [Increments -> Increment],
         NEW i \in Increments, \A j \in Increments \ {i} : f[j] = e[j]
  PROVE  CountsOf(f) \in Nat /\ CountsOf(e) = CountsOf(f) + (e[i].count - f[i].count)
 <1>1. PICK g : IsSum(g, CountOf(f), Chosen, Increments) /\ CountsOf(f) = g[Increments]
   BY CountsOfIsSum
 <1>2. PICK h : IsSum(h, CountOf(e), Chosen, Increments) /\ CountsOf(e) = h[Increments]
   BY CountsOfIsSum
 <1>3. CountOf(f) \in [Increments -> Nat] /\ CountOf(e) \in [Increments -> Nat]
   BY DEF CountOf, Increment
 <1>4. SameBut(CountOf(f), CountOf(e), i, Increments) BY DEF SameBut, CountOf
 <1>5. Shifted(h, g, CountOf(f), CountOf(e), i, Increments)
  <2>1. Increments \subseteq Increments OBVIOUS
  <2> QED BY <1>1, <1>2, <1>3, <1>4, <2>1, ChosenPicks, SumsDiffer
 <1>6. h[Increments] = g[Increments] + (CountOf(e)[i] - CountOf(f)[i]) BY <1>5 DEF Shifted
 <1>7. g[Increments] \in Nat BY <1>1 DEF IsSum
 <1> QED BY <1>1, <1>2, <1>6, <1>7 DEF CountOf

LEMMA CountsOfNone ==
  ASSUME NEW f \in [Increments -> Increment], \A i \in Increments : f[i].count = 0
  PROVE  CountsOf(f) = 0
 <1>1. PICK g : IsSum(g, CountOf(f), Chosen, Increments) /\ CountsOf(f) = g[Increments]
   BY CountsOfIsSum
 <1> DEFINE zero == [s \in SUBSET Increments |-> 0]
 <1>2. Follows(zero, g, Chosen, Increments)
  <2>1. zero[{}] = g[{}] BY <1>1 DEF IsSum
  <2>2. ASSUME NEW s \in SUBSET Increments, s # {}, zero[s \ {Chosen[s]}] = g[s \ {Chosen[s]}]
        PROVE  zero[s] = g[s]
   <3>1. Chosen[s] \in Increments /\ CountOf(f)[Chosen[s]] = 0
     BY <2>2, ChosenPicks DEF Picks, CountOf
   <3>2. g[s \ {Chosen[s]}] = 0 BY <2>2
   <3> QED BY <1>1, <2>2, <3>1, <3>2 DEF IsSum
  <2> QED BY <2>1, <2>2 DEF Follows
 <1>3. \A s \in SUBSET Increments : zero[s] = g[s]
  <2> HIDE DEF zero
  <2> QED BY <1>2, ChosenPicks, SumIsUnique
 <1>4. zero[Increments] = 0 OBVIOUS
 <1> QED BY <1>1, <1>3, <1>4

-----------------------------------------------------------------------------
(***************************************************************************)
(* user_metrics.js: unless the history was cut or replaced, the lessons    *)
(* counted are those recorded, under way or lost with their call.          *)
(***************************************************************************)
MetricsParts ==
  /\ completed_lessons \in 0..MaxCompleted /\ metrics_history \in Seq(Nat)
  /\ Len(metrics_history) <= HistoryKept
  /\ increment \in [Increments -> Increment]
  /\ snapshot \in [completed : 0..MaxCompleted, history : Seq(Nat)] \cup {NoSnapshot}
  /\ unrecorded \in Nat /\ disturbed \in BOOLEAN
MetricsRest == \A i \in Increments : increment[i].at = "none" => increment[i] = T!MetricsIdle
MetricsInv == MetricsParts /\ MetricsRest /\ T!LessonsAreRecorded

LEMMA MetricsLimits ==
  /\ HistoryKept \in Nat /\ MaxCompleted \in Nat
  /\ T!InFlight = CountsOf(increment) /\ (T!InFlight)' = CountsOf(increment')
  /\ T!MetricsIdle \in Increment /\ T!MetricsIdle.count = 0
 <1>1. HistoryKept \in Nat /\ MaxCompleted \in Nat BY LimitsAssumption
 <1>2. T!InFlight = CountsOf(increment) BY Zenon DEF T!InFlight, CountsOf
 <1>3. (T!InFlight)' = CountsOf(increment')
   BY DEF T!InFlight, CountsOf, T!MapThenSumSet, T!MapThenFoldSet
 <1>4. T!MetricsIdle \in Increment /\ T!MetricsIdle.count = 0 BY DEF T!MetricsIdle, Increment
 <1> QED BY <1>1, <1>2, <1>3, <1>4

LEMMA MetricsStarts == T!MetricsInit => MetricsInv
 <1> SUFFICES ASSUME T!MetricsInit PROVE MetricsInv OBVIOUS
 <1>1. increment \in [Increments -> Increment] /\ \A i \in Increments : increment[i] = T!MetricsIdle
   BY MetricsLimits DEF T!MetricsInit
 <1>2. MetricsParts /\ MetricsRest
  <2>1. /\ completed_lessons = 0 /\ metrics_history = <<>> /\ snapshot = NoSnapshot
        /\ unrecorded = 0 /\ disturbed = FALSE BY DEF T!MetricsInit
  <2>2. HistoryKept \in Nat /\ MaxCompleted \in Nat BY LimitsAssumption
  <2>3. <<>> \in Seq(Nat) /\ Len(<<>>) <= HistoryKept /\ 0 \in 0..MaxCompleted /\ 0 \in Nat BY <2>2
  <2> QED BY <1>1, <2>1, <2>3 DEF MetricsParts, MetricsRest
 <1>3. T!InFlight = 0 BY <1>1, MetricsLimits, CountsOfNone
 <1>4. T!Counts(<<>>) = 0
  <2>1. PICK g : /\ IsSum(g, <<>>, [t \in SUBSET (1..0) |-> T!Max(t)], 1..0)
                 /\ T!Counts(<<>>) = g[1..0]
   <3>1. <<>> \in Seq(Nat) /\ Len(<<>>) = 0 /\ 0 \in Nat /\ 0 <= 0 OBVIOUS
   <3> QED BY <3>1, CountsIsSum
  <2>2. 1..0 = {} OBVIOUS
  <2> QED BY <2>1, <2>2 DEF IsSum
 <1>5. T!LessonsAreRecorded BY <1>3, <1>4 DEF T!MetricsInit, T!LessonsAreRecorded
 <1> QED BY <1>2, <1>5 DEF MetricsInv

LEMMA MetricsKeeps == MetricsInv /\ [T!MetricsNext]_(T!metrics_vars) => MetricsInv'
 <1> SUFFICES ASSUME MetricsParts, MetricsRest, T!LessonsAreRecorded,
                     [T!MetricsNext]_(T!metrics_vars)
              PROVE  MetricsInv' BY DEF MetricsInv
 <1> USE MetricsLimits
 <1>h. T!Counts(metrics_history) \in Nat
  <2>1. 0 \in Nat OBVIOUS
  <2> QED BY <2>1, CountsAppend DEF MetricsParts
 <1>1. ASSUME NEW i \in Increments, NEW count \in 1..2, T!IncrementCompleted(i, count)
       PROVE  MetricsInv'
  <2> DEFINE new == [at |-> "middleware", count |-> count]
  <2>1. /\ increment' = [increment EXCEPT ![i] = new] /\ increment[i] = T!MetricsIdle
        /\ completed_lessons' = completed_lessons + count
        /\ completed_lessons + count <= MaxCompleted
        /\ UNCHANGED <<metrics_history, snapshot, unrecorded, disturbed>>
    BY <1>1 DEF T!IncrementCompleted
  <2>2. new \in Increment /\ new.at # "none" /\ new.count = count /\ count \in Nat BY DEF Increment
  <2> HIDE DEF new
  <2>3. increment' \in [Increments -> Increment] /\ increment'[i] = new
        /\ \A j \in Increments \ {i} : increment'[j] = increment[j] BY <2>1, <2>2 DEF MetricsParts
  <2>4. MetricsParts' /\ MetricsRest' BY <2>1, <2>2, <2>3 DEF MetricsParts, MetricsRest
  <2>5. CountsOf(increment) \in Nat /\ CountsOf(increment') = CountsOf(increment) + (count - 0)
    BY <2>1, <2>2, <2>3, CountsOfShifts DEF MetricsParts
  <2>6. T!LessonsAreRecorded' BY <1>h, <2>1, <2>2, <2>5 DEF T!LessonsAreRecorded, MetricsParts
  <2> QED BY <2>4, <2>6 DEF MetricsInv
 <1>e. ASSUME NEW i \in Increments, increment' = [increment EXCEPT ![i] = T!MetricsIdle]
       PROVE  /\ increment' \in [Increments -> Increment] /\ MetricsRest' /\ increment[i].count \in Nat
              /\ CountsOf(increment) \in Nat
              /\ CountsOf(increment') = CountsOf(increment) - increment[i].count
  <2>1. increment' \in [Increments -> Increment] /\ increment'[i] = T!MetricsIdle
        /\ \A j \in Increments \ {i} : increment'[j] = increment[j] BY <1>e DEF MetricsParts
  <2>2. MetricsRest' BY <2>1 DEF MetricsRest
  <2>3. CountsOf(increment) \in Nat /\ CountsOf(increment') = CountsOf(increment) + (0 - increment[i].count)
    BY <2>1, CountsOfShifts DEF MetricsParts
  <2>4. increment[i].count \in Nat BY DEF MetricsParts, Increment
  <2> QED BY <2>1, <2>2, <2>3, <2>4
 <1>2. ASSUME NEW i \in Increments, T!Processed(i) PROVE MetricsInv'
  <2> DEFINE c == increment[i].count
             h == Append(metrics_history, c)
  <2>1. /\ metrics_history' = IF Len(h) > HistoryKept THEN Tail(h) ELSE h
        /\ disturbed' = (disturbed \/ Len(h) > HistoryKept)
        /\ increment' = [increment EXCEPT ![i] = T!MetricsIdle]
        /\ UNCHANGED <<completed_lessons, snapshot, unrecorded>> BY <1>2 DEF T!Processed, T!Recorded
  <2>2. /\ increment' \in [Increments -> Increment] /\ MetricsRest' /\ c \in Nat
        /\ CountsOf(increment) \in Nat /\ CountsOf(increment') = CountsOf(increment) - c
    BY <1>e, <2>1
  <2>3. h \in Seq(Nat) /\ Len(h) = Len(metrics_history) + 1 /\ Len(metrics_history) \in Nat
        /\ Len(metrics_history) <= HistoryKept BY <2>2 DEF MetricsParts
  <2>4. T!Counts(h) = T!Counts(metrics_history) + c BY <2>2, CountsAppend DEF MetricsParts
  <2> HIDE DEF h, c
  <2>5. metrics_history' \in Seq(Nat) /\ Len(metrics_history') <= HistoryKept
   <3>1. CASE Len(h) > HistoryKept
    <4>1. h # <<>> BY <2>3
    <4>2. Tail(h) \in Seq(Nat) /\ Len(Tail(h)) = Len(h) - 1 BY <2>3, <4>1
    <4> QED BY <2>1, <2>3, <3>1, <4>2
   <3>2. CASE ~(Len(h) > HistoryKept) BY <2>1, <2>3, <3>2
   <3> QED BY <3>1, <3>2
  <2>6. disturbed' \in BOOLEAN BY <2>1 DEF MetricsParts
  <2>7. MetricsParts' BY <2>1, <2>2, <2>5, <2>6 DEF MetricsParts
  <2>8. T!LessonsAreRecorded'
   <3> SUFFICES ASSUME ~disturbed'
                PROVE  completed_lessons' = T!Counts(metrics_history') + (T!InFlight)' + unrecorded'
     BY DEF T!LessonsAreRecorded
   <3>1. ~disturbed /\ metrics_history' = h BY <2>1
   <3>2. completed_lessons = T!Counts(metrics_history) + CountsOf(increment) + unrecorded
     BY <3>1 DEF T!LessonsAreRecorded
   <3>3. unrecorded \in Nat /\ completed_lessons \in Nat BY DEF MetricsParts
   <3> QED BY <1>h, <2>1, <2>2, <2>4, <3>1, <3>2, <3>3
  <2> QED BY <2>2, <2>7, <2>8 DEF MetricsInv
 <1>3. ASSUME NEW i \in Increments, T!MiddlewareFails(i) PROVE MetricsInv'
  <2> DEFINE c == increment[i].count
  <2>1. /\ unrecorded' = IF disturbed THEN unrecorded ELSE unrecorded + c
        /\ increment' = [increment EXCEPT ![i] = T!MetricsIdle]
        /\ UNCHANGED <<completed_lessons, metrics_history, snapshot, disturbed>>
    BY <1>3 DEF T!MiddlewareFails
  <2>2. /\ increment' \in [Increments -> Increment] /\ MetricsRest' /\ c \in Nat
        /\ CountsOf(increment) \in Nat /\ CountsOf(increment') = CountsOf(increment) - c
    BY <1>e, <2>1
  <2> HIDE DEF c
  <2>3. unrecorded' \in Nat BY <2>1, <2>2 DEF MetricsParts
  <2>4. MetricsParts' BY <2>1, <2>2, <2>3 DEF MetricsParts
  <2>5. T!LessonsAreRecorded'
   <3> SUFFICES ASSUME ~disturbed
                PROVE  completed_lessons' = T!Counts(metrics_history') + (T!InFlight)' + unrecorded'
     BY <2>1 DEF T!LessonsAreRecorded
   <3>1. completed_lessons = T!Counts(metrics_history) + CountsOf(increment) + unrecorded
     BY DEF T!LessonsAreRecorded
   <3>2. unrecorded \in Nat /\ completed_lessons \in Nat BY DEF MetricsParts
   <3> QED BY <1>h, <2>1, <2>2, <3>1, <3>2
  <2> QED BY <2>2, <2>4, <2>5 DEF MetricsInv
 <1>4. ASSUME T!Reset PROVE MetricsInv'
   BY <1>4 DEF T!Reset, MetricsInv, MetricsParts, MetricsRest, T!LessonsAreRecorded
 <1>5. ASSUME T!TakeSnapshot PROVE MetricsInv'
  <2>1. MetricsParts' /\ MetricsRest' BY <1>5 DEF T!TakeSnapshot, MetricsParts, MetricsRest
  <2>2. T!LessonsAreRecorded'
   <3>1. UNCHANGED <<completed_lessons, metrics_history, increment, unrecorded, disturbed>>
     BY <1>5 DEF T!TakeSnapshot
   <3>2. (T!InFlight)' = T!InFlight BY <3>1
   <3> QED BY <3>1, <3>2 DEF T!LessonsAreRecorded
  <2> QED BY <2>1, <2>2 DEF MetricsInv
 <1>6. ASSUME T!Restore PROVE MetricsInv'
  <2>1. snapshot.completed \in 0..MaxCompleted /\ snapshot.history \in Seq(Nat)
    BY <1>6 DEF T!Restore, MetricsParts
  <2> DEFINE h == metrics_history \o snapshot.history
             from == IF Len(h) > HistoryKept THEN Len(h) - HistoryKept + 1 ELSE 1
  <2>2. metrics_history' = SubSeq(h, from, Len(h)) BY <1>6 DEF T!Restore
  <2>3. h \in Seq(Nat) /\ Len(h) \in Nat BY <2>1 DEF MetricsParts
  <2> HIDE DEF h
  <2>4. from \in 1..Len(h) + 1 /\ Len(h) - from + 1 <= HistoryKept BY <2>3
  <2> HIDE DEF from
  <2>5. SubSeq(h, from, Len(h)) \in Seq(Nat) /\ Len(SubSeq(h, from, Len(h))) = Len(h) - from + 1
    BY <2>3, <2>4
  <2>6. metrics_history' \in Seq(Nat) /\ Len(metrics_history') <= HistoryKept BY <2>2, <2>4, <2>5
  <2>7. MetricsParts' /\ MetricsRest' /\ disturbed'
    BY <1>6, <2>1, <2>6 DEF T!Restore, MetricsParts, MetricsRest
  <2> QED BY <2>7 DEF MetricsInv, T!LessonsAreRecorded
 <1>7. CASE UNCHANGED T!metrics_vars
  <2>1. UNCHANGED <<completed_lessons, metrics_history, increment, snapshot, unrecorded, disturbed>>
    BY <1>7 DEF T!metrics_vars
  <2>2. MetricsParts' /\ MetricsRest' /\ (T!InFlight)' = T!InFlight
    BY <2>1 DEF MetricsParts, MetricsRest
  <2>3. T!LessonsAreRecorded' BY <2>1, <2>2 DEF T!LessonsAreRecorded
  <2> QED BY <2>2, <2>3 DEF MetricsInv
 <1> QED BY <1>1, <1>2, <1>3, <1>4, <1>5, <1>6, <1>7 DEF T!MetricsNext

LEMMA MetricsImplies == MetricsInv => T!MetricsTypeOK /\ T!LessonsAreRecorded
  BY DEF MetricsInv, MetricsParts, Increment, T!MetricsTypeOK

-----------------------------------------------------------------------------
(***************************************************************************)
(* progress_model.js: the level of mastery, the counts and the history say *)
(* the same of the answers.                                                *)
(***************************************************************************)
LessonProgress ==
  [repetition : Nat, next : Nat, masteryLevel : 0..5, total : 0..MaxReviews, correct : Nat,
   incorrect : Nat, last : 0..MaxHours \cup {Never}, streak : Nat, history : Seq(BOOLEAN),
   version : {3, 4}]
Earned(p) ==
  /\ p.masteryLevel <= p.repetition
  /\ p.masteryLevel >= 2 => 10 * p.correct > (p.masteryLevel + 4) * p.total
  /\ p.correct + p.incorrect = p.total /\ p.streak <= p.correct
FirstAreRight(h, streak_) ==
  \A i \in DOMAIN h : (i <= streak_ => h[i]) /\ (i = streak_ + 1 => ~h[i])
MasteryInv ==
  /\ hour \in 0..MaxHours /\ lesson_progress \in LessonProgress
  /\ Earned(lesson_progress) /\ FirstAreRight(lesson_progress.history, lesson_progress.streak)

LEMMA MasteryLimits ==
  /\ MinHours \in Nat \ {0} /\ HistoryKept \in Nat /\ MaxHours \in Nat /\ MaxReviews \in Nat \ {0}
  /\ Intervals \subseteq Nat /\ Never \notin Nat BY LimitsAssumption, NoDataAssumption

LEMMA MasteryStarts == T!MasteryInit => MasteryInv
 <1> SUFFICES ASSUME T!MasteryInit PROVE MasteryInv OBVIOUS
 <1> USE MasteryLimits
 <1>1. T!Initial \in LessonProgress /\ Earned(T!Initial) /\ FirstAreRight(T!Initial.history, T!Initial.streak)
  <2>1. <<>> \in Seq(BOOLEAN) /\ DOMAIN <<>> = {} /\ 0 \in 0..MaxReviews /\ 0 \in 0..5 /\ 0 \in Nat
    OBVIOUS
  <2> QED BY <2>1 DEF T!Initial, LessonProgress, Earned, FirstAreRight
 <1> DEFINE p1 == [T!Initial EXCEPT !.repetition = 1]
            p2 == [p1 EXCEPT !.total = 1]
            p3 == [p2 EXCEPT !.correct = 1]
            p4 == [p3 EXCEPT !.masteryLevel = 1]
            p5 == [p4 EXCEPT !.last = 0]
            p6 == [p5 EXCEPT !.version = 3]
 <1>2. T!Old = p6 BY Zenon DEF T!Old
 <1>3. p1 \in LessonProgress /\ p1.repetition = 1 /\ p1.incorrect = 0 /\ p1.streak = 0 /\ p1.history = <<>>
   BY <1>1 DEF T!Initial, LessonProgress
 <1> HIDE DEF p1
 <1>4. p2 \in LessonProgress /\ p2.repetition = 1 /\ p2.incorrect = 0 /\ p2.streak = 0 /\ p2.history = <<>>
       /\ p2.total = 1 BY <1>3 DEF LessonProgress
 <1> HIDE DEF p2
 <1>5. p3 \in LessonProgress /\ p3.repetition = 1 /\ p3.incorrect = 0 /\ p3.streak = 0 /\ p3.history = <<>>
       /\ p3.total = 1 /\ p3.correct = 1 BY <1>4 DEF LessonProgress
 <1> HIDE DEF p3
 <1>6. p4 \in LessonProgress /\ p4.repetition = 1 /\ p4.incorrect = 0 /\ p4.streak = 0 /\ p4.history = <<>>
       /\ p4.total = 1 /\ p4.correct = 1 /\ p4.masteryLevel = 1 BY <1>5 DEF LessonProgress
 <1> HIDE DEF p4
 <1>7. p5 \in LessonProgress /\ p5.repetition = 1 /\ p5.incorrect = 0 /\ p5.streak = 0 /\ p5.history = <<>>
       /\ p5.total = 1 /\ p5.correct = 1 /\ p5.masteryLevel = 1 BY <1>6 DEF LessonProgress
 <1> HIDE DEF p5
 <1>8. p6 \in LessonProgress /\ p6.repetition = 1 /\ p6.incorrect = 0 /\ p6.streak = 0 /\ p6.history = <<>>
       /\ p6.total = 1 /\ p6.correct = 1 /\ p6.masteryLevel = 1 BY <1>7 DEF LessonProgress
 <1> HIDE DEF p6
 <1>9. T!Old \in LessonProgress /\ Earned(T!Old) /\ FirstAreRight(T!Old.history, T!Old.streak)
  <2>1. DOMAIN <<>> = {} OBVIOUS
  <2> QED BY <1>2, <1>8, <2>1 DEF Earned, FirstAreRight
 <1> QED BY <1>1, <1>9 DEF T!MasteryInit, MasteryInv

LEMMA LevelIsEarned ==
  ASSUME NEW repetition \in Nat, NEW correct \in Nat, NEW total \in Nat
  PROVE  LET level == T!CalculateMasteryLevel(repetition, correct, total) IN
         /\ level \in 0..5 /\ level <= repetition
         /\ level >= 2 => 10 * correct > (level + 4) * total
 <1> DEFINE level == T!CalculateMasteryLevel(repetition, correct, total)
 <1>1. CASE repetition >= 5 /\ 10 * correct > 9 * total BY <1>1 DEF T!CalculateMasteryLevel
 <1>2. CASE ~(repetition >= 5 /\ 10 * correct > 9 * total)
  <2>1. CASE repetition >= 4 /\ 10 * correct > 8 * total BY <1>2, <2>1 DEF T!CalculateMasteryLevel
  <2>2. CASE ~(repetition >= 4 /\ 10 * correct > 8 * total)
   <3>1. CASE repetition >= 3 /\ 10 * correct > 7 * total
     BY <1>2, <2>2, <3>1 DEF T!CalculateMasteryLevel
   <3>2. CASE ~(repetition >= 3 /\ 10 * correct > 7 * total)
    <4>1. CASE repetition >= 2 /\ 10 * correct > 6 * total
      BY <1>2, <2>2, <3>2, <4>1 DEF T!CalculateMasteryLevel
    <4>2. CASE ~(repetition >= 2 /\ 10 * correct > 6 * total)
      BY <1>2, <2>2, <3>2, <4>2 DEF T!CalculateMasteryLevel
    <4> QED BY <4>1, <4>2
   <3> QED BY <3>1, <3>2
  <2> QED BY <2>1, <2>2
 <1> QED BY <1>1, <1>2

LEMMA MasteryKeeps == MasteryInv /\ [T!MasteryNext]_(T!mastery_vars) => MasteryInv'
 <1> SUFFICES ASSUME MasteryInv, [T!MasteryNext]_(T!mastery_vars) PROVE MasteryInv' OBVIOUS
 <1> USE MasteryLimits
 <1>1. ASSUME NEW right \in BOOLEAN, NEW interval \in Intervals, T!MasteryAnswer(right, interval)
       PROVE  MasteryInv'
  <2> DEFINE p == lesson_progress
             q == lesson_progress'
             correct == IF right THEN p.correct + 1 ELSE p.correct
             long == <<right>> \o p.history
             top == IF Len(p.history) < HistoryKept THEN Len(p.history) + 1 ELSE HistoryKept
             h == SubSeq(long, 1, top)
  <2>1. PICK repetition \in IF right THEN {p.repetition + 1} ELSE {0, 1} :
          q = T!WithAnswer(p, right, repetition, interval) BY <1>1 DEF T!MasteryAnswer
  <2>2. p.total < MaxReviews /\ UNCHANGED hour BY <1>1 DEF T!MasteryAnswer
  <2>3. /\ p.repetition \in Nat /\ p.total \in 0..MaxReviews /\ p.correct \in Nat
        /\ p.incorrect \in Nat /\ p.streak \in Nat /\ p.history \in Seq(BOOLEAN)
        /\ hour \in 0..MaxHours BY DEF MasteryInv, LessonProgress
  <2>4. repetition \in Nat /\ correct \in Nat /\ p.total + 1 \in 0..MaxReviews /\ hour + interval \in Nat
    BY <2>2, <2>3
  <2> DEFINE level == T!CalculateMasteryLevel(repetition, correct, p.total + 1)
  <2>5. level \in 0..5 /\ level <= repetition /\ (level >= 2 => 10 * correct > (level + 4) * (p.total + 1))
   <3> DEFINE total == p.total + 1
   <3>1. total \in Nat /\ repetition \in Nat /\ correct \in Nat BY <2>3, <2>4
   <3> HIDE DEF total, correct
   <3>2. LET l == T!CalculateMasteryLevel(repetition, correct, total) IN
         l \in 0..5 /\ l <= repetition /\ (l >= 2 => 10 * correct > (l + 4) * total)
     BY <3>1, LevelIsEarned
   <3> QED BY <3>2 DEF total
  <2>6. q = [repetition |-> repetition, next |-> hour + interval, masteryLevel |-> level,
             total |-> p.total + 1, correct |-> correct,
             incorrect |-> IF right THEN p.incorrect ELSE p.incorrect + 1,
             last |-> hour, streak |-> IF right THEN p.streak + 1 ELSE 0, history |-> h, version |-> 4]
    BY <2>1, Zenon DEF T!WithAnswer
  <2>7. /\ h \in Seq(BOOLEAN) /\ DOMAIN h \subseteq 1..Len(p.history) + 1
        /\ \A i \in DOMAIN h : h[i] = IF i = 1 THEN right ELSE p.history[i - 1]
   <3>1. <<right>> \in Seq(BOOLEAN) /\ Len(<<right>>) = 1 /\ <<right>>[1] = right OBVIOUS
   <3>2. long \in Seq(BOOLEAN) /\ Len(long) = Len(p.history) + 1 /\ Len(p.history) \in Nat
         /\ \A i \in 1..Len(long) : long[i] = IF i = 1 THEN right ELSE p.history[i - 1]
     BY <2>3, <3>1
   <3>3. top \in 0..Len(long) BY <3>2
   <3> HIDE DEF long, top
   <3>4. h \in Seq(BOOLEAN) /\ DOMAIN h = 1..top /\ \A i \in 1..top : h[i] = long[i] BY <3>2, <3>3
   <3> HIDE DEF h
   <3>5. DOMAIN h \subseteq 1..Len(p.history) + 1 BY <3>2, <3>3, <3>4
   <3>6. \A i \in DOMAIN h : i \in 1..Len(long) BY <3>2, <3>3, <3>4
   <3> QED BY <3>2, <3>4, <3>5, <3>6
  <2> HIDE DEF h, level, correct
  <2>8. q.correct = correct /\ q.streak = (IF right THEN p.streak + 1 ELSE 0) /\ q.history = h
        /\ q.masteryLevel = level /\ q.repetition = repetition /\ q.total = p.total + 1
        /\ q.incorrect = (IF right THEN p.incorrect ELSE p.incorrect + 1) BY <2>6
  <2>9. q \in LessonProgress
   <3>1. (IF right THEN p.incorrect ELSE p.incorrect + 1) \in Nat
         /\ (IF right THEN p.streak + 1 ELSE 0) \in Nat BY <2>3
   <3>2. h \in Seq(BOOLEAN) /\ level \in 0..5 BY <2>5, <2>7
   <3> QED BY <2>3, <2>4, <2>6, <3>1, <3>2 DEF LessonProgress
  <2>10. Earned(q)
   <3>1. p.correct + p.incorrect = p.total /\ p.streak <= p.correct BY DEF MasteryInv, Earned
   <3>2. correct = IF right THEN p.correct + 1 ELSE p.correct BY DEF correct
   <3>3. q.correct + q.incorrect = q.total /\ q.streak <= q.correct
    <4>1. CASE right
     <5>1. /\ q.correct = p.correct + 1 /\ q.incorrect = p.incorrect
           /\ q.total = p.total + 1 /\ q.streak = p.streak + 1 BY <2>8, <3>2, <4>1
     <5>2. q.correct + q.incorrect = q.total BY <2>3, <3>1, <5>1
     <5> QED BY <2>3, <3>1, <5>1, <5>2
    <4>2. CASE ~right BY <2>3, <2>8, <3>1, <3>2, <4>2
    <4> QED BY <4>1, <4>2
   <3> QED BY <2>5, <2>8, <3>3 DEF Earned
  <2>11. FirstAreRight(q.history, q.streak)
   <3> SUFFICES ASSUME NEW i \in DOMAIN h
                PROVE  (i <= q.streak => h[i]) /\ (i = q.streak + 1 => ~h[i])
     BY <2>8 DEF FirstAreRight
   <3>1. i \in 1..Len(p.history) + 1 /\ Len(p.history) \in Nat BY <2>3, <2>7
   <3>2. h[i] = IF i = 1 THEN right ELSE p.history[i - 1] BY <2>7
   <3>3. CASE i = 1 BY <2>3, <2>8, <3>2, <3>3
   <3>4. CASE i # 1
    <4>1. i - 1 \in 1..Len(p.history) BY <3>1, <3>4
    <4>2. i - 1 \in DOMAIN p.history BY <2>3, <4>1
    <4>3. (i - 1 <= p.streak => p.history[i - 1]) /\ (i - 1 = p.streak + 1 => ~p.history[i - 1])
      BY <4>2 DEF MasteryInv, FirstAreRight
    <4> QED BY <2>3, <2>8, <3>1, <3>2, <3>4, <4>3
   <3> QED BY <3>3, <3>4
  <2> QED BY <2>2, <2>3, <2>9, <2>10, <2>11 DEF MasteryInv
 <1>2. ASSUME T!Migrate PROVE MasteryInv'
  <2>1. lesson_progress' = [lesson_progress EXCEPT !.version = 4] /\ UNCHANGED hour
    BY <1>2 DEF T!Migrate
  <2> QED BY <2>1 DEF MasteryInv, LessonProgress, Earned, FirstAreRight
 <1>3. ASSUME T!HourPasses PROVE MasteryInv' BY <1>3 DEF T!HourPasses, MasteryInv
 <1>4. CASE UNCHANGED T!mastery_vars BY <1>4 DEF T!mastery_vars, MasteryInv
 <1> QED BY <1>1, <1>2, <1>3, <1>4 DEF T!MasteryNext

LEMMA MasteryImplies == MasteryInv => T!MasteryTypeOK /\ T!MasteryIsEarned
 <1> SUFFICES ASSUME MasteryInv PROVE T!MasteryTypeOK /\ T!MasteryIsEarned OBVIOUS
 <1> USE MasteryLimits
 <1>1. T!MasteryTypeOK BY DEF MasteryInv, LessonProgress, T!MasteryTypeOK
 <1>2. lesson_progress.last = hour =>
         ~T!DueStatus(lesson_progress).isDue /\ ~T!DueStatus(lesson_progress).recommended
  <2> SUFFICES ASSUME lesson_progress.last = hour
               PROVE  ~T!DueStatus(lesson_progress).isDue /\ ~T!DueStatus(lesson_progress).recommended
    OBVIOUS
  <2>1. ~(lesson_progress.last = Never \/ hour - lesson_progress.last >= MinHours) BY DEF MasteryInv
  <2> QED BY <2>1 DEF T!DueStatus
 <1> QED BY <1>1, <1>2 DEF MasteryInv, Earned, FirstAreRight, T!MasteryIsEarned

-----------------------------------------------------------------------------
(***************************************************************************)
(* stats_calculator.js: the cache has a key once and never more than its   *)
(* size, whatever the statistics are.                                      *)
(***************************************************************************)
Kept(c) == {c[i] : i \in DOMAIN c}
SoundCache(c) ==
  /\ c \in Seq(Kept(c)) /\ Len(c) <= CacheSize
  /\ \A i \in DOMAIN c : c[i].key \in 0..MaxChanges
  /\ \A i, j \in DOMAIN c : c[i].key = c[j].key => i = j
CalculatorInv ==
  /\ day \in 0..LastDay /\ sessions \subseteq 0..LastDay /\ completed \in 0..Lessons
  /\ last_updated \in 0..MaxChanges /\ SoundCache(calculated)

LEMMA CalculatorLimits ==
  CacheSize \in Nat \ {0} /\ MaxChanges \in Nat /\ Lessons \in Nat /\ LastDay \in Nat
  BY LimitsAssumption

LEMMA KeptInOrder ==
  ASSUME NEW E, NEW c \in Seq(E)
  PROVE  c \in Seq(Kept(c)) /\ DOMAIN c = 1..Len(c) /\ Len(c) \in Nat
 <1>1. DOMAIN c = 1..Len(c) /\ Len(c) \in Nat /\ c = [i \in 1..Len(c) |-> c[i]] OBVIOUS
 <1>2. \A i \in 1..Len(c) : c[i] \in Kept(c) BY <1>1 DEF Kept
 <1>3. c \in [1..Len(c) -> Kept(c)] BY <1>1, <1>2
 <1> QED BY <1>1, <1>3, SeqDef

LEMMA CacheWithout ==
  ASSUME NEW c, SoundCache(c), NEW i \in DOMAIN c
  PROVE  LET d == T!RemoveAt(c, i) IN
         /\ SoundCache(d) /\ Len(d) = Len(c) - 1 /\ Len(d) \in Nat
         /\ \A j \in DOMAIN d : d[j].key # c[i].key
 <1> DEFINE E == Kept(c)
            front == SubSeq(c, 1, i - 1)
            back == SubSeq(c, i + 1, Len(c))
            d == front \o back
 <1>1. T!RemoveAt(c, i) = d BY Zenon DEF T!RemoveAt
 <1>2. c \in Seq(E) /\ DOMAIN c = 1..Len(c) /\ Len(c) \in Nat /\ i \in 1..Len(c)
   BY KeptInOrder DEF SoundCache
 <1> HIDE DEF E
 <1>3. front \in Seq(E) /\ Len(front) = i - 1 /\ \A j \in 1..i - 1 : front[j] = c[j] BY <1>2
 <1>4. back \in Seq(E) /\ Len(back) = Len(c) - i /\ \A j \in 1..Len(c) - i : back[j] = c[j + i]
   BY <1>2
 <1> HIDE DEF front, back
 <1>5. d \in Seq(E) /\ Len(d) = Len(c) - 1
       /\ \A j \in 1..Len(d) : d[j] = IF j < i THEN front[j] ELSE back[j - (i - 1)]
  <2>1. /\ d \in Seq(E) /\ Len(d) = Len(front) + Len(back)
        /\ \A j \in 1..Len(front) + Len(back) :
             d[j] = IF j <= Len(front) THEN front[j] ELSE back[j - Len(front)]
    BY <1>3, <1>4, ConcatProperties
  <2>2. Len(d) = Len(c) - 1 BY <1>2, <1>3, <1>4, <2>1
  <2> HIDE DEF d
  <2> QED BY <1>2, <1>3, <1>4, <2>1, <2>2
 <1> HIDE DEF d
 <1>6. \A j \in 1..Len(c) - 1 : d[j] = IF j < i THEN c[j] ELSE c[j + 1]
  <2> SUFFICES ASSUME NEW j \in 1..Len(c) - 1 PROVE d[j] = IF j < i THEN c[j] ELSE c[j + 1]
    OBVIOUS
  <2>1. CASE j < i BY <1>2, <1>3, <1>5, <2>1
  <2>2. CASE ~(j < i)
   <3>1. j - (i - 1) \in 1..Len(c) - i /\ (j - (i - 1)) + i = j + 1 BY <1>2, <2>2
   <3> QED BY <1>2, <1>4, <1>5, <2>2, <3>1
  <2> QED BY <2>1, <2>2
 <1>7. DOMAIN d = 1..Len(c) - 1 /\ d \in Seq(Kept(d)) BY <1>5, KeptInOrder
 <1> DEFINE from(j) == IF j < i THEN j ELSE j + 1
 <1>8. \A j \in DOMAIN d : from(j) \in DOMAIN c /\ from(j) # i /\ d[j] = c[from(j)]
   BY <1>2, <1>6, <1>7
 <1>9. \A j, k \in DOMAIN d : from(j) = from(k) => j = k BY <1>2, <1>7
 <1> HIDE DEF from
 <1>10. /\ \A j \in DOMAIN d : d[j].key \in 0..MaxChanges /\ d[j].key # c[i].key
        /\ \A j, k \in DOMAIN d : d[j].key = d[k].key => j = k BY <1>8, <1>9 DEF SoundCache
 <1>11. Len(d) \in Nat /\ Len(d) <= CacheSize BY <1>2, <1>5, CalculatorLimits DEF SoundCache
 <1> QED BY <1>1, <1>5, <1>7, <1>10, <1>11 DEF SoundCache

LEMMA CacheWith ==
  ASSUME NEW c, SoundCache(c), Len(c) < CacheSize, NEW e, e.key \in 0..MaxChanges,
         \A i \in DOMAIN c : c[i].key # e.key
  PROVE  SoundCache(Append(c, e))
 <1> DEFINE E == Kept(c) \cup {e}
            d == Append(c, e)
 <1>1. c \in Seq(Kept(c)) /\ DOMAIN c = 1..Len(c) /\ Len(c) \in Nat BY KeptInOrder DEF SoundCache
 <1>2. c \in Seq(E) /\ e \in E
  <2>1. \A i \in 1..Len(c) : c[i] \in E BY <1>1 DEF Kept
  <2>2. c = [i \in 1..Len(c) |-> c[i]] BY <1>1
  <2>3. c \in [1..Len(c) -> E] BY <1>1, <2>1, <2>2
  <2> QED BY <1>1, <2>3, SeqDef
 <1> HIDE DEF E
 <1>3. d \in Seq(E) /\ Len(d) = Len(c) + 1 /\ d[Len(c) + 1] = e
       /\ \A j \in 1..Len(c) : d[j] = c[j] BY <1>1, <1>2
 <1> HIDE DEF d
 <1>4. DOMAIN d = 1..Len(c) + 1 /\ d \in Seq(Kept(d)) BY <1>3, KeptInOrder
 <1>5. \A j \in DOMAIN d : d[j].key \in 0..MaxChanges BY <1>1, <1>3, <1>4 DEF SoundCache
 <1>6. \A j, k \in DOMAIN d : d[j].key = d[k].key => j = k
  <2> SUFFICES ASSUME NEW j \in DOMAIN d, NEW k \in DOMAIN d, d[j].key = d[k].key PROVE j = k
    OBVIOUS
  <2>1. CASE j = Len(c) + 1 /\ k = Len(c) + 1 BY <2>1
  <2>2. CASE j = Len(c) + 1 /\ k # Len(c) + 1 BY <1>1, <1>3, <1>4, <2>2
  <2>3. CASE j # Len(c) + 1 /\ k = Len(c) + 1 BY <1>1, <1>3, <1>4, <2>3
  <2>4. CASE j # Len(c) + 1 /\ k # Len(c) + 1 BY <1>1, <1>3, <1>4, <2>4 DEF SoundCache
  <2> QED BY <2>1, <2>2, <2>3, <2>4
 <1>7. Len(d) <= CacheSize BY <1>1, <1>3, CalculatorLimits
 <1> QED BY <1>4, <1>5, <1>6, <1>7 DEF SoundCache, d

LEMMA CacheTail ==
  ASSUME NEW c, SoundCache(c), Len(c) >= CacheSize
  PROVE  /\ SoundCache(Tail(c)) /\ Len(Tail(c)) < CacheSize
         /\ \A j \in DOMAIN Tail(c) : j + 1 \in DOMAIN c /\ Tail(c)[j] = c[j + 1]
 <1> DEFINE E == Kept(c)
            d == Tail(c)
 <1>1. c \in Seq(E) /\ DOMAIN c = 1..Len(c) /\ Len(c) \in Nat BY KeptInOrder DEF SoundCache
 <1>2. Len(c) = CacheSize /\ c # <<>> /\ Len(c) > 0
  <2>0. Len(c) <= CacheSize /\ Len(c) \in Nat /\ CacheSize \in Nat /\ CacheSize > 0
    BY <1>1, CalculatorLimits DEF SoundCache
  <2>1. Len(c) = CacheSize /\ Len(c) > 0 BY <2>0
  <2>2. Len(<<>>) = 0 OBVIOUS
  <2> QED BY <2>1, <2>2
 <1> HIDE DEF E
 <1>3. d \in Seq(E) /\ Len(d) = Len(c) - 1 /\ \A j \in 1..Len(c) - 1 : d[j] = c[j + 1] BY <1>1, <1>2
 <1> HIDE DEF d
 <1>4. DOMAIN d = 1..Len(c) - 1 /\ d \in Seq(Kept(d)) BY <1>3, KeptInOrder
 <1>5. \A j \in DOMAIN d : j + 1 \in DOMAIN c /\ d[j] = c[j + 1] BY <1>1, <1>3, <1>4
 <1> DEFINE next(j) == j + 1
 <1>6. /\ \A j \in DOMAIN d : d[j].key \in 0..MaxChanges
       /\ \A j, k \in DOMAIN d : d[j].key = d[k].key => j = k
  <2>1. \A j, k \in DOMAIN d : next(j) = next(k) => j = k BY <1>1, <1>4
  <2>2. \A j \in DOMAIN d : next(j) \in DOMAIN c /\ d[j] = c[next(j)] BY <1>5
  <2> HIDE DEF next
  <2> QED BY <2>1, <2>2 DEF SoundCache
 <1>7. Len(d) < CacheSize BY <1>1, <1>2, <1>3, CalculatorLimits
 <1>8. Len(d) <= CacheSize BY <1>1, <1>3, <1>7, CalculatorLimits
 <1> QED BY <1>4, <1>5, <1>6, <1>7, <1>8 DEF SoundCache, d

LEMMA CalculatorStarts == T!CalculatorInit => CalculatorInv
 <1> SUFFICES ASSUME T!CalculatorInit PROVE CalculatorInv OBVIOUS
 <1>1. SoundCache(<<>>)
  <2>1. <<>> \in Seq({}) /\ Len(<<>>) = 0 /\ DOMAIN <<>> = {} OBVIOUS
  <2>2. <<>> \in Seq(Kept(<<>>)) BY <2>1, KeptInOrder
  <2> QED BY <2>1, <2>2, CalculatorLimits DEF SoundCache
 <1> QED BY <1>1, CalculatorLimits DEF T!CalculatorInit, CalculatorInv

LEMMA CalculatorKeeps == CalculatorInv /\ [T!CalculatorNext]_(T!calculator_vars) => CalculatorInv'
 <1> SUFFICES ASSUME CalculatorInv, [T!CalculatorNext]_(T!calculator_vars) PROVE CalculatorInv'
   OBVIOUS
 <1> USE CalculatorLimits
 <1>i. SoundCache(calculated) /\ last_updated \in 0..MaxChanges BY DEF CalculatorInv
 <1>1. ASSUME T!CacheHit PROVE CalculatorInv'
  <2>1. PICK i \in T!Positions(last_updated) :
          calculated' = Append(T!RemoveAt(calculated, i), calculated[i]) BY <1>1 DEF T!CacheHit
  <2>2. i \in DOMAIN calculated /\ calculated[i].key \in 0..MaxChanges
    BY <1>i, <2>1 DEF T!Positions, SoundCache
  <2> DEFINE d == T!RemoveAt(calculated, i)
  <2>3. /\ SoundCache(d) /\ Len(d) = Len(calculated) - 1 /\ Len(d) \in Nat
        /\ \A j \in DOMAIN d : d[j].key # calculated[i].key BY <1>i, <2>2, CacheWithout
  <2> HIDE DEF d
  <2>4. Len(calculated) <= CacheSize /\ Len(calculated) \in Nat BY <1>i, KeptInOrder DEF SoundCache
  <2>5. Len(d) < CacheSize BY <2>3, <2>4
  <2>6. SoundCache(Append(d, calculated[i])) BY <2>2, <2>3, <2>5, CacheWith
  <2> QED BY <1>1, <2>1, <2>6 DEF T!CacheHit, T!progress, CalculatorInv, d
 <1>2. ASSUME NEW midnight \in BOOLEAN, T!CalculateAllStats(midnight) PROVE CalculatorInv'
  <2> DEFINE e == [key |-> last_updated, stats |-> T!Stats(midnight), of |-> sessions]
             d == IF Len(calculated) >= CacheSize THEN Tail(calculated) ELSE calculated
  <2>1. calculated' = Append(d, e) /\ T!Positions(last_updated) = {}
        /\ UNCHANGED <<day, sessions, completed, last_updated>>
    BY <1>2, Zenon DEF T!CalculateAllStats, T!CacheSet, T!progress
  <2>2. e.key = last_updated OBVIOUS
  <2> HIDE DEF e
  <2>3. \A i \in DOMAIN calculated : calculated[i].key # e.key BY <2>1, <2>2 DEF T!Positions
  <2>4. /\ SoundCache(d) /\ Len(d) < CacheSize
        /\ \A i \in DOMAIN d : d[i].key # e.key
   <3>1. CASE Len(calculated) >= CacheSize BY <1>i, <2>3, <3>1, CacheTail
   <3>2. CASE ~(Len(calculated) >= CacheSize)
    <4>1. Len(calculated) \in Nat BY <1>i, KeptInOrder DEF SoundCache
    <4> QED BY <1>i, <2>3, <3>2, <4>1
   <3> QED BY <3>1, <3>2
  <2> HIDE DEF d
  <2>5. SoundCache(Append(d, e)) BY <1>i, <2>2, <2>4, CacheWith
  <2> QED BY <2>1, <2>5 DEF CalculatorInv
 <1>3. ASSUME NEW k \in 0..MaxChanges, T!Expired(k) PROVE CalculatorInv'
  <2>1. PICK i \in T!Positions(k) : calculated' = T!RemoveAt(calculated, i) BY <1>3 DEF T!Expired
  <2>2. i \in DOMAIN calculated BY <2>1 DEF T!Positions
  <2>3. SoundCache(calculated') BY <1>i, <2>1, <2>2, CacheWithout
  <2> QED BY <1>3, <2>3 DEF T!Expired, T!progress, CalculatorInv
 <1>4. ASSUME T!CalculatorClearCache PROVE CalculatorInv'
  <2>1. SoundCache(<<>>)
   <3>1. <<>> \in Seq({}) /\ Len(<<>>) = 0 /\ DOMAIN <<>> = {} OBVIOUS
   <3>2. <<>> \in Seq(Kept(<<>>)) BY <3>1, KeptInOrder
   <3> QED BY <3>1, <3>2, CalculatorLimits DEF SoundCache
  <2> QED BY <1>4, <2>1 DEF T!CalculatorClearCache, T!progress, CalculatorInv
 <1>5. ASSUME T!Study PROVE CalculatorInv' BY <1>5 DEF T!Study, T!Changed, CalculatorInv
 <1>6. ASSUME NEW w \in Words, NEW right \in BOOLEAN, T!CalculatorAnswer(w, right) PROVE CalculatorInv'
   BY <1>6 DEF T!CalculatorAnswer, T!Changed, CalculatorInv
 <1>7. ASSUME T!CompleteLesson PROVE CalculatorInv'
   BY <1>7 DEF T!CompleteLesson, T!Changed, CalculatorInv
 <1>8. ASSUME T!NextDay PROVE CalculatorInv' BY <1>8 DEF T!NextDay, T!progress, CalculatorInv
 <1>9. CASE UNCHANGED T!calculator_vars BY <1>9 DEF T!calculator_vars, T!progress, CalculatorInv
 <1> QED BY <1>1, <1>2, <1>3, <1>4, <1>5, <1>6, <1>7, <1>8, <1>9 DEF T!CalculatorNext

LEMMA CalculatorImplies == CalculatorInv => T!CalculatorTypeOK /\ T!CacheHasKeysOnce
  BY DEF CalculatorInv, SoundCache, T!CalculatorTypeOK, T!CacheHasKeysOnce

-----------------------------------------------------------------------------
(***************************************************************************)
(* achievements_screen.js: while loads do not overlap and no drawing       *)
(* throws, there is one load, and an error has no load under way.          *)
(***************************************************************************)
LoadPlaces == {"none", "cache", "fetch", "fresh"}
ScreenTypes ==
  /\ screen_state \in ScreenState \cup {Gone}
  /\ isOffline \in BOOLEAN /\ cached_data \in BOOLEAN /\ background_sync \in BOOLEAN
  /\ {overtaken, kept, broken} \subseteq BOOLEAN
  /\ screen_load \in [ScreenLoads -> LoadPlaces]
OneLoad ==
  ~overtaken => /\ \A l, m \in ScreenLoads : screen_load[l] # "none" /\ screen_load[m] # "none" => l = m
                /\ S!Alive /\ screen_state.error /\ ~broken => S!NoLoad
ScreenInv == ScreenTypes /\ S!ScreenSettles /\ OneLoad

LEMMA ScreenLimits ==
  /\ S!InitialState \in ScreenState /\ Gone \notin ScreenState
  /\ S!InitialState.isLoading = TRUE /\ S!InitialState.error = FALSE /\ S!InitialState.achievements = FALSE
  BY LimitsAssumption, NoDataAssumption DEF S!InitialState, ScreenState

LEMMA ScreenStarts == S!ScreenInit => ScreenInv
  BY ScreenLimits DEF S!ScreenInit, ScreenInv, ScreenTypes, S!ScreenSettles, OneLoad, S!Alive,
     S!NoLoad, LoadPlaces

(* What each change of a load leaves of the others.                        *)
LEMMA LoadMoves ==
  ASSUME ScreenTypes, NEW l \in ScreenLoads, NEW at \in LoadPlaces, S!At(l, at)
  PROVE  /\ screen_load' \in [ScreenLoads -> LoadPlaces] /\ screen_load'[l] = at
         /\ \A m \in ScreenLoads \ {l} : screen_load'[m] = screen_load[m] BY DEF ScreenTypes, S!At

LEMMA ScreenBegins ==
  ASSUME ScreenInv, NEW l \in ScreenLoads, S!Begin(l), UNCHANGED <<cached_data, background_sync>>,
         isOffline' \in BOOLEAN
  PROVE  ScreenInv'
 <1> USE ScreenLimits
 <1> DEFINE s == [screen_state EXCEPT !.isLoading = TRUE]
            t == [s EXCEPT !.error = FALSE]
 <1>1. /\ S!Alive /\ screen_load[l] = "none" /\ S!At(l, "cache") /\ screen_state' = t
       /\ overtaken' = (overtaken \/ ~S!NoLoad) /\ kept' = FALSE /\ broken' = FALSE
   BY Zenon DEF S!Begin
 <1>2. screen_state \in ScreenState BY <1>1 DEF ScreenInv, ScreenTypes, S!Alive
 <1>3. s \in ScreenState BY <1>2 DEF ScreenState
 <1> HIDE DEF s
 <1>4. t \in ScreenState /\ t.error = FALSE BY <1>3 DEF ScreenState
 <1> HIDE DEF t
 <1>5. /\ screen_load' \in [ScreenLoads -> LoadPlaces] /\ screen_load'[l] = "cache"
       /\ \A m \in ScreenLoads \ {l} : screen_load'[m] = screen_load[m]
   BY <1>1, LoadMoves DEF ScreenInv, LoadPlaces
 <1>6. ScreenTypes' BY <1>1, <1>4, <1>5 DEF ScreenInv, ScreenTypes
 <1>7. S!ScreenSettles' BY <1>1, <1>4, <1>5 DEF S!ScreenSettles, S!NoLoad
 <1>8. OneLoad' BY <1>1, <1>4, <1>5 DEF OneLoad, S!NoLoad
 <1> QED BY <1>6, <1>7, <1>8 DEF ScreenInv

LEMMA ScreenKeeps == ScreenInv /\ [S!ScreenNext]_(S!screen_vars) => ScreenInv'
 <1> SUFFICES ASSUME ScreenInv, [S!ScreenNext]_(S!screen_vars) PROVE ScreenInv' OBVIOUS
 <1> USE ScreenLimits
 <1>t. ScreenTypes /\ S!ScreenSettles /\ OneLoad BY DEF ScreenInv
 <1>p. S!Alive /\ S!ProcessAndUpdateData =>
         /\ screen_state \in ScreenState /\ screen_state' \in ScreenState
         /\ screen_state'.isLoading = FALSE /\ screen_state'.error = screen_state.error
  <2> SUFFICES ASSUME S!Alive, S!ProcessAndUpdateData
               PROVE  /\ screen_state \in ScreenState /\ screen_state' \in ScreenState
                      /\ screen_state'.isLoading = FALSE /\ screen_state'.error = screen_state.error
    OBVIOUS
  <2> DEFINE s == [screen_state EXCEPT !.isLoading = FALSE]
             t == [s EXCEPT !.achievements = TRUE]
             u == [t EXCEPT !.listed = screen_state.filterType]
  <2>1. screen_state' = u BY Zenon DEF S!ProcessAndUpdateData
  <2>2. screen_state \in ScreenState /\ screen_state.filterType \in Filters
    BY <1>t DEF ScreenTypes, S!Alive, ScreenState
  <2>3. s \in ScreenState /\ s.isLoading = FALSE /\ s.error = screen_state.error
    BY <2>2 DEF ScreenState
  <2> HIDE DEF s
  <2>4. t \in ScreenState /\ t.isLoading = FALSE /\ t.error = screen_state.error
    BY <2>3 DEF ScreenState
  <2> HIDE DEF t
  <2>5. u \in ScreenState /\ u.isLoading = FALSE /\ u.error = screen_state.error
    BY <2>2, <2>4 DEF ScreenState
  <2> QED BY <2>1, <2>2, <2>5
 <1>u. S!ScreenUpdated(TRUE) =>
         /\ screen_state' \in ScreenState /\ screen_state'.isLoading = FALSE
         /\ screen_state'.achievements = IF S!Alive THEN screen_state.achievements ELSE FALSE
  <2> SUFFICES ASSUME S!ScreenUpdated(TRUE)
               PROVE  /\ screen_state' \in ScreenState /\ screen_state'.isLoading = FALSE
                      /\ screen_state'.achievements = IF S!Alive THEN screen_state.achievements ELSE FALSE
    OBVIOUS
  <2> DEFINE s == IF S!Alive THEN screen_state ELSE S!InitialState
             t == [s EXCEPT !.isLoading = FALSE]
             u == [t EXCEPT !.error = TRUE]
  <2>1. screen_state' = u BY Zenon DEF S!ScreenUpdated
  <2>2. s \in ScreenState /\ s.achievements = IF S!Alive THEN screen_state.achievements ELSE FALSE
    BY <1>t DEF ScreenTypes, S!Alive
  <2> HIDE DEF s
  <2>3. t \in ScreenState /\ t.isLoading = FALSE /\ t.achievements = s.achievements
    BY <2>2 DEF ScreenState
  <2> HIDE DEF t
  <2>4. u \in ScreenState /\ u.isLoading = FALSE /\ u.achievements = s.achievements
    BY <2>3 DEF ScreenState
  <2> QED BY <2>1, <2>2, <2>4
 <1>m. \A l \in ScreenLoads, at \in LoadPlaces : S!At(l, at) =>
         /\ screen_load' \in [ScreenLoads -> LoadPlaces] /\ screen_load'[l] = at
         /\ \A m \in ScreenLoads \ {l} : screen_load'[m] = screen_load[m] BY <1>t, LoadMoves
 <1>1. ASSUME NEW l \in ScreenLoads, S!FirstLoad(l) PROVE ScreenInv'
   BY <1>1, <1>t, ScreenBegins DEF S!FirstLoad, ScreenTypes
 <1>2. ASSUME NEW l \in ScreenLoads, S!SyncCompleted(l) PROVE ScreenInv'
   BY <1>2, <1>t, ScreenBegins DEF S!SyncCompleted, ScreenTypes
 <1>3. ASSUME NEW l \in ScreenLoads, S!CameOnline(l) PROVE ScreenInv'
  <2>1. CASE screen_state.error BY <1>3, <2>1, <1>t, ScreenBegins DEF S!CameOnline, ScreenTypes
  <2>2. CASE ~screen_state.error
    BY <1>3, <2>2, <1>t DEF S!CameOnline, ScreenInv, ScreenTypes, OneLoad, S!ScreenSettles,
       S!NoLoad, S!Alive
  <2> QED BY <2>1, <2>2
 <1>4. ASSUME NEW l \in ScreenLoads, S!CacheHit(l) PROVE ScreenInv'
  <2>1. /\ S!Alive /\ screen_load[l] # "none" /\ S!ProcessAndUpdateData
        /\ S!At(l, IF isOffline THEN "none" ELSE "fresh")
        /\ UNCHANGED <<isOffline, cached_data, background_sync, overtaken, kept, broken>>
    BY <1>4 DEF S!CacheHit
  <2>2. (IF isOffline THEN "none" ELSE "fresh") \in LoadPlaces BY DEF LoadPlaces
  <2>3. /\ screen_load' \in [ScreenLoads -> LoadPlaces]
        /\ \A m \in ScreenLoads \ {l} : screen_load'[m] = screen_load[m] BY <1>m, <2>1, <2>2
  <2>4. /\ screen_state' \in ScreenState /\ screen_state'.isLoading = FALSE
        /\ screen_state'.error = screen_state.error BY <1>p, <2>1
  <2>5. ~overtaken /\ ~broken => ~screen_state.error BY <1>t, <2>1 DEF OneLoad, S!NoLoad
  <2>6. ScreenTypes' BY <1>t, <2>1, <2>3, <2>4 DEF ScreenTypes
  <2>7. OneLoad' BY <1>t, <2>1, <2>3, <2>4, <2>5 DEF OneLoad
  <2>8. S!ScreenSettles' BY <1>t, <2>1, <2>4, <2>5 DEF S!ScreenSettles
  <2> QED BY <2>6, <2>7, <2>8 DEF ScreenInv
 <1>5. ASSUME NEW l \in ScreenLoads, S!CacheMiss(l) PROVE ScreenInv'
  <2>1. /\ screen_load[l] # "none" /\ S!At(l, "fetch")
        /\ UNCHANGED <<screen_state, isOffline, cached_data, background_sync, overtaken, kept, broken>>
    BY <1>5 DEF S!CacheMiss
  <2>2. "fetch" \in LoadPlaces BY DEF LoadPlaces
  <2>3. /\ screen_load' \in [ScreenLoads -> LoadPlaces] /\ screen_load'[l] = "fetch"
        /\ \A m \in ScreenLoads \ {l} : screen_load'[m] = screen_load[m] BY <1>m, <2>1, <2>2
  <2>4. ScreenTypes' BY <1>t, <2>1, <2>3 DEF ScreenTypes
  <2>5. OneLoad' BY <1>t, <2>1, <2>3 DEF OneLoad, S!NoLoad, S!Alive
  <2>6. S!ScreenSettles' BY <1>t, <2>1, <2>3 DEF S!ScreenSettles, S!NoLoad, S!Alive
  <2> QED BY <2>4, <2>5, <2>6 DEF ScreenInv
 <1>6. ASSUME NEW l \in ScreenLoads, S!Fetched(l) PROVE ScreenInv'
  <2>1. /\ S!Alive /\ screen_load[l] # "none" /\ S!ProcessAndUpdateData /\ S!At(l, "none")
        /\ cached_data' = TRUE /\ UNCHANGED <<isOffline, background_sync, overtaken, kept, broken>>
    BY <1>6 DEF S!Fetched
  <2>2. "none" \in LoadPlaces BY DEF LoadPlaces
  <2>3. /\ screen_load' \in [ScreenLoads -> LoadPlaces] /\ screen_load'[l] = "none"
        /\ \A m \in ScreenLoads \ {l} : screen_load'[m] = screen_load[m] BY <1>m, <2>1, <2>2
  <2>4. /\ screen_state' \in ScreenState /\ screen_state'.isLoading = FALSE
        /\ screen_state'.error = screen_state.error BY <1>p, <2>1
  <2>5. ~overtaken /\ ~broken => ~screen_state.error BY <1>t, <2>1 DEF OneLoad, S!NoLoad
  <2>6. ScreenTypes' BY <1>t, <2>1, <2>3, <2>4 DEF ScreenTypes
  <2>7. OneLoad' BY <1>t, <2>1, <2>3, <2>4, <2>5 DEF OneLoad
  <2>8. S!ScreenSettles' BY <1>t, <2>1, <2>4, <2>5 DEF S!ScreenSettles
  <2> QED BY <2>6, <2>7, <2>8 DEF ScreenInv
 <1>7. ASSUME NEW l \in ScreenLoads, S!FetchFails(l) PROVE ScreenInv'
  <2>1. /\ S!Alive /\ screen_load[l] # "none" /\ S!At(l, "none")
        /\ UNCHANGED <<isOffline, cached_data, background_sync, overtaken, broken>>
        /\ \/ ~screen_state.achievements /\ S!ScreenUpdated(TRUE) /\ UNCHANGED kept
           \/ kept' = TRUE /\ UNCHANGED screen_state BY <1>7 DEF S!FetchFails
  <2>2. "none" \in LoadPlaces BY DEF LoadPlaces
  <2>3. /\ screen_load' \in [ScreenLoads -> LoadPlaces] /\ screen_load'[l] = "none"
        /\ \A m \in ScreenLoads \ {l} : screen_load'[m] = screen_load[m] BY <1>m, <2>1, <2>2
  <2>4. ~overtaken => (S!NoLoad)' BY <1>t, <2>1, <2>3 DEF OneLoad, S!NoLoad
  <2>5. CASE ~screen_state.achievements /\ S!ScreenUpdated(TRUE) /\ UNCHANGED kept
   <3>1. /\ screen_state' \in ScreenState /\ screen_state'.isLoading = FALSE
         /\ ~screen_state'.achievements BY <1>u, <2>1, <2>5
   <3>2. ScreenTypes' BY <1>t, <2>1, <2>3, <2>5, <3>1 DEF ScreenTypes
   <3>3. OneLoad' BY <2>1, <2>4 DEF OneLoad, S!NoLoad
   <3>4. S!ScreenSettles' BY <2>1, <2>4, <3>1 DEF S!ScreenSettles
   <3> QED BY <3>2, <3>3, <3>4 DEF ScreenInv
  <2>6. CASE kept' = TRUE /\ UNCHANGED screen_state
   <3>1. ScreenTypes' BY <1>t, <2>1, <2>3, <2>6 DEF ScreenTypes
   <3>2. OneLoad' BY <2>1, <2>4 DEF OneLoad, S!NoLoad
   <3>3. S!ScreenSettles' BY <1>t, <2>1, <2>4, <2>6 DEF S!ScreenSettles, S!Alive
   <3> QED BY <3>1, <3>2, <3>3 DEF ScreenInv
  <2> QED BY <2>1, <2>5, <2>6
 <1>8. ASSUME NEW l \in ScreenLoads, S!LateLoad(l) PROVE ScreenInv'
  <2>1. /\ ~S!Alive /\ screen_load[l] # "none" /\ S!At(l, "none")
        /\ UNCHANGED <<isOffline, cached_data, background_sync, overtaken, kept, broken>>
        /\ S!ScreenUpdated(TRUE) \/ UNCHANGED screen_state BY <1>8 DEF S!LateLoad
  <2>2. "none" \in LoadPlaces BY DEF LoadPlaces
  <2>3. /\ screen_load' \in [ScreenLoads -> LoadPlaces] /\ screen_load'[l] = "none"
        /\ \A m \in ScreenLoads \ {l} : screen_load'[m] = screen_load[m] BY <1>m, <2>1, <2>2
  <2>4. ~overtaken => (S!NoLoad)' BY <1>t, <2>1, <2>3 DEF OneLoad, S!NoLoad
  <2>5. OneLoad' BY <2>1, <2>4 DEF OneLoad, S!NoLoad
  <2>6. CASE S!ScreenUpdated(TRUE)
   <3>1. /\ screen_state' \in ScreenState /\ screen_state'.isLoading = FALSE
         /\ ~screen_state'.achievements BY <1>u, <2>1, <2>6
   <3>2. ScreenTypes' BY <1>t, <2>1, <2>3, <3>1 DEF ScreenTypes
   <3>3. S!ScreenSettles' BY <2>1, <2>4, <3>1 DEF S!ScreenSettles
   <3> QED BY <2>5, <3>2, <3>3 DEF ScreenInv
  <2>7. CASE UNCHANGED screen_state
   <3>1. ScreenTypes' /\ S!ScreenSettles'
     BY <1>t, <2>1, <2>3, <2>7 DEF ScreenTypes, S!ScreenSettles, S!Alive
   <3> QED BY <2>5, <3>1 DEF ScreenInv
  <2> QED BY <2>1, <2>6, <2>7
 <1>9. ASSUME S!WentOffline PROVE ScreenInv'
   BY <1>9, <1>t DEF S!WentOffline, ScreenInv, ScreenTypes, OneLoad, S!ScreenSettles, S!NoLoad, S!Alive
 <1>10. ASSUME S!CacheExpires PROVE ScreenInv'
   BY <1>10, <1>t DEF S!CacheExpires, ScreenInv, ScreenTypes, OneLoad, S!ScreenSettles, S!NoLoad, S!Alive
 <1>11. ASSUME S!ScreenDestroy PROVE ScreenInv'
   BY <1>11, <1>t DEF S!ScreenDestroy, ScreenInv, ScreenTypes, OneLoad, S!ScreenSettles, S!NoLoad, S!Alive
 <1>12. ASSUME NEW f \in Filters, S!ChooseFilter(f) PROVE ScreenInv'
  <2>1. /\ S!Alive /\ screen_state.achievements /\ screen_state' = [screen_state EXCEPT !.filterType = f]
        /\ UNCHANGED <<isOffline, cached_data, screen_load, background_sync, overtaken, kept, broken>>
    BY <1>12 DEF S!ChooseFilter
  <2>2. screen_state \in ScreenState BY <1>t, <2>1 DEF ScreenTypes, S!Alive
  <2>3. /\ screen_state' \in ScreenState /\ screen_state'.isLoading = screen_state.isLoading
        /\ screen_state'.error = screen_state.error
        /\ screen_state'.achievements = screen_state.achievements BY <2>1, <2>2 DEF ScreenState
  <2>4. (S!NoLoad)' = S!NoLoad BY <2>1 DEF S!NoLoad
  <2>5. ScreenTypes' BY <1>t, <2>1, <2>3 DEF ScreenTypes
  <2>6. OneLoad' BY <1>t, <2>1, <2>3, <2>4 DEF OneLoad
  <2>7. S!ScreenSettles' BY <1>t, <2>1, <2>3, <2>4 DEF S!ScreenSettles
  <2> QED BY <2>5, <2>6, <2>7 DEF ScreenInv
 <1>13. CASE UNCHANGED S!screen_vars
   BY <1>13, <1>t DEF S!screen_vars, ScreenInv, ScreenTypes, OneLoad, S!ScreenSettles, S!NoLoad, S!Alive
 <1>14. ASSUME S!RenderFails PROVE ScreenInv'
  <2>1. /\ S!ScreenUpdated(TRUE) /\ broken' = TRUE
        /\ UNCHANGED <<isOffline, cached_data, screen_load, background_sync, overtaken, kept>>
    BY <1>14 DEF S!RenderFails
  <2>2. screen_state' \in ScreenState /\ screen_state'.isLoading = FALSE BY <1>u, <2>1
  <2>3. ScreenTypes' BY <1>t, <2>1, <2>2 DEF ScreenTypes
  <2>4. OneLoad' BY <1>t, <2>1 DEF OneLoad
  <2>5. S!ScreenSettles' BY <2>1, <2>2 DEF S!ScreenSettles
  <2> QED BY <2>3, <2>4, <2>5 DEF ScreenInv
 <1> QED BY <1>1, <1>2, <1>3, <1>4, <1>5, <1>6, <1>7, <1>8, <1>9, <1>10, <1>11, <1>12, <1>13, <1>14
   DEF S!ScreenNext

LEMMA ScreenImplies == ScreenInv => S!ScreenTypeOK /\ S!ScreenSettles
  BY DEF ScreenInv, ScreenTypes, LoadPlaces, ScreenState, S!ScreenTypeOK, S!Alive

-----------------------------------------------------------------------------
(* home_screen.js: the page follows the state of the screen.               *)
HomePage == [template : {"none", "loading", "dashboard", "error"}, due : 0..MaxDue \cup {NoHome}]
HomeInv == S!HomeTypeOK /\ S!PageFollowsState /\ home_page \in HomePage

LEMMA HomeLimits == MaxDue \in Nat /\ NoHome \notin Nat /\ 0 \in 0..MaxDue
  BY LimitsAssumption, NoDataAssumption

LEMMA HomeStarts == S!HomeInit => HomeInv
 <1> SUFFICES ASSUME S!HomeInit PROVE HomeInv OBVIOUS
 <1>1. home_page = [template |-> "none", due |-> NoHome] BY DEF S!HomeInit, S!Page
 <1>2. home_page \in HomePage BY <1>1 DEF HomePage
 <1>3. S!HomeTypeOK BY HomeLimits DEF S!HomeInit, S!HomeTypeOK
 <1>4. S!PageFollowsState BY <1>1 DEF S!HomeInit, S!PageFollowsState
 <1> QED BY <1>2, <1>3, <1>4 DEF HomeInv

LEMMA HomeKeeps == HomeInv /\ [S!HomeNext]_(S!home_vars) => HomeInv'
 <1> SUFFICES ASSUME HomeInv, [S!HomeNext]_(S!home_vars) PROVE HomeInv' OBVIOUS
 <1> USE HomeLimits DEF HomeInv, S!HomeTypeOK, S!PageFollowsState, S!Page, HomePage
 <1>1. ASSUME NEW l \in HomeLoads, S!Load(l) PROVE HomeInv' BY <1>1 DEF S!Load
 <1>2. ASSUME NEW l \in HomeLoads, S!Loaded(l) PROVE HomeInv' BY <1>2 DEF S!Loaded
 <1>3. ASSUME NEW l \in HomeLoads, S!LoadFails(l) PROVE HomeInv' BY <1>3 DEF S!LoadFails
 <1>4. ASSUME NEW d \in 0..MaxDue, S!Update(d) PROVE HomeInv' BY <1>4 DEF S!Update
 <1>5. ASSUME NEW d \in 0..MaxDue, S!DueChanges(d) PROVE HomeInv' BY <1>5 DEF S!DueChanges
 <1>6. ASSUME S!HomeDestroy PROVE HomeInv' BY <1>6 DEF S!HomeDestroy
 <1>7. CASE UNCHANGED S!home_vars BY <1>7 DEF S!home_vars
 <1> QED BY <1>1, <1>2, <1>3, <1>4, <1>5, <1>6, <1>7 DEF S!HomeNext

LEMMA HomeImplies == HomeInv => S!HomeTypeOK /\ S!PageFollowsState BY DEF HomeInv

-----------------------------------------------------------------------------
(***************************************************************************)
(* profile_edit_screen.js: unless it was typed on, what a save under way   *)
(* holds is a valid text and that of the form.                             *)
(***************************************************************************)
EditInv ==
  /\ P!EditTypeOK /\ P!EditsAreDirty /\ saved_text \in Texts
  /\ profile_save \in Texts \cup {NoText}
  /\ profile_save \in WrongTexts => edited_meanwhile \/ profile_save = NoText
  /\ profile_save # NoText /\ proxied => form_text = profile_save \/ edited_meanwhile

LEMMA EditStarts == P!EditInit => EditInv
 <1> SUFFICES ASSUME P!EditInit PROVE EditInv OBVIOUS
 <1>1. hasDraft \in BOOLEAN /\ form_text \in Texts \cup {NoText} BY DEF P!EditInit
 <1>2. P!EditTypeOK BY <1>1 DEF P!EditInit, P!EditTypeOK
 <1> QED BY <1>1, <1>2 DEF P!EditInit, EditInv, P!EditsAreDirty

LEMMA EditKeeps == EditInv /\ [P!EditNext]_(P!edit_vars) => EditInv'
 <1> SUFFICES ASSUME EditInv, [P!EditNext]_(P!edit_vars) PROVE EditInv' OBVIOUS
 <1> USE DEF EditInv, P!EditTypeOK, P!EditsAreDirty, P!Wrong, P!form, P!flags, P!timers, P!calls
 <1>1. ASSUME NEW t \in Texts, P!HandleFormChange(t) PROVE EditInv' BY <1>1 DEF P!HandleFormChange
 <1>2. ASSUME P!Validate PROVE EditInv' BY <1>2 DEF P!Validate
 <1>3. ASSUME P!SaveDraft PROVE EditInv' BY <1>3 DEF P!SaveDraft
 <1>4. ASSUME P!HandleNetworkChange PROVE EditInv' BY <1>4 DEF P!HandleNetworkChange
 <1>5. ASSUME P!HandleSave PROVE EditInv' BY <1>5 DEF P!HandleSave
 <1>6. ASSUME P!RefuseSave PROVE EditInv' BY <1>6 DEF P!RefuseSave
 <1>7. ASSUME P!Saved PROVE EditInv' BY <1>7 DEF P!Saved
 <1>8. ASSUME P!SaveFails PROVE EditInv' BY <1>8 DEF P!SaveFails
 <1>9. ASSUME P!Loaded PROVE EditInv' BY <1>9 DEF P!Loaded
 <1>10. ASSUME P!LoadFails PROVE EditInv' BY <1>10 DEF P!LoadFails
 <1>11. ASSUME P!UserArrives PROVE EditInv' BY <1>11 DEF P!UserArrives
 <1>12. ASSUME P!Destroy PROVE EditInv' BY <1>12 DEF P!Destroy
 <1>13. CASE UNCHANGED P!edit_vars BY <1>13 DEF P!edit_vars
 <1> QED BY <1>1, <1>2, <1>3, <1>4, <1>5, <1>6, <1>7, <1>8, <1>9, <1>10, <1>11, <1>12, <1>13
   DEF P!EditNext

LEMMA EditImplies == EditInv => P!EditTypeOK /\ P!EditsAreDirty BY DEF EditInv

-----------------------------------------------------------------------------
(***************************************************************************)
(* badge_display.js: what a render has drawn and what it has left are the  *)
(* list of badges, and nothing of what is left is registered.              *)
(***************************************************************************)
Badges == {BadgeA, BadgeB}
LooksOf == {"absent", "locked", "unlocked"}
Shown == [badge : Badges, looks : LooksOf, listens : BOOLEAN]
RenderCall == [at : {"none", "icon"}, left : Seq(Badges), fragment : Seq(Shown), compact : BOOLEAN]
BadgeCache == [Badges \X BOOLEAN -> LooksOf]
Listening(s, elements) == \A i \in 1..Len(s) : s[i].badge \in elements => s[i].listens
InOrder(s, left) ==
  /\ Len(s) + Len(left) = Len(BadgeList)
  /\ \A i \in 1..Len(s) : s[i].badge = BadgeList[i]
  /\ \A i \in 1..Len(left) : left[i] = BadgeList[Len(s) + i]
Unregistered(left, elements) == \A i \in 1..Len(left) : left[i] \notin elements
WholeOrNothing(s) == Len(s) = 0 \/ InOrder(s, <<>>)

BadgeTypes ==
  /\ display_state \in {"idle", "loading", "error"}
  /\ unlocked \in SUBSET Badges /\ badgeElements \in SUBSET Badges /\ badge_updates \in SUBSET Badges
  /\ compact_now \in BOOLEAN /\ crossed \in BOOLEAN
  /\ renderCache \in BadgeCache /\ shown_badges \in Seq(Shown)
  /\ badge_render \in [BadgeRenders -> RenderCall]
BadgeIdle == \A r \in BadgeRenders : badge_render[r].at = "none" => badge_render[r] = S!Idle
CopiesAreTrue == \A k \in Badges \X BOOLEAN : renderCache[k] = "unlocked" => k[1] \in unlocked
BadgeOrder ==
  ~crossed =>
    /\ \A r, q \in BadgeRenders : badge_render[r].at = "icon" /\ badge_render[q].at = "icon" => r = q
    /\ \A b, c \in badge_updates : b = c
    /\ WholeOrNothing(shown_badges) /\ Listening(shown_badges, badgeElements)
    /\ \A r \in BadgeRenders : badge_render[r].at = "icon" =>
         /\ badge_updates = {} /\ shown_badges = <<>>
         /\ InOrder(badge_render[r].fragment, badge_render[r].left)
         /\ Listening(badge_render[r].fragment, badgeElements)
         /\ Unregistered(badge_render[r].left, badgeElements)
BadgeInv == BadgeTypes /\ BadgeIdle /\ CopiesAreTrue /\ BadgeOrder

LEMMA BadgeLimits ==
  /\ BadgeList \in Seq(Badges) /\ Len(BadgeList) = 2 /\ S!Range(BadgeList) = Badges
  /\ \A i, j \in 1..Len(BadgeList) : BadgeList[i] = BadgeList[j] => i = j
  /\ S!Idle \in RenderCall /\ S!Idle.at = "none" /\ S!Idle.left = <<>>
 <1>1. BadgeA # BadgeB BY LimitsAssumption
 <1>2. BadgeList \in Seq(Badges) /\ Len(BadgeList) = 2 BY DEF BadgeList, Badges
 <1>3. BadgeList[1] = BadgeA /\ BadgeList[2] = BadgeB BY DEF BadgeList
 <1>4. DOMAIN BadgeList = {1, 2} BY DEF BadgeList
 <1>5. S!Range(BadgeList) = Badges BY <1>3, <1>4 DEF S!Range, Badges
 <1>6. \A i, j \in 1..Len(BadgeList) : BadgeList[i] = BadgeList[j] => i = j BY <1>1, <1>2, <1>3
 <1>7. <<>> \in Seq(Badges) /\ <<>> \in Seq(Shown) OBVIOUS
 <1> QED BY <1>2, <1>5, <1>6, <1>7 DEF S!Idle, RenderCall

LEMMA BadgeStarts == S!BadgesInit => BadgeInv
 <1> SUFFICES ASSUME S!BadgesInit PROVE BadgeInv OBVIOUS
 <1> USE BadgeLimits
 <1>1. <<>> \in Seq(Shown) /\ Len(<<>>) = 0 OBVIOUS
 <1>2. renderCache \in BadgeCache /\ \A k \in Badges \X BOOLEAN : renderCache[k] = "absent"
   BY DEF S!BadgesInit, BadgeCache, LooksOf
 <1>3. badge_render \in [BadgeRenders -> RenderCall] /\ \A r \in BadgeRenders : badge_render[r] = S!Idle
   BY DEF S!BadgesInit
 <1>4. BadgeTypes BY <1>1, <1>2, <1>3 DEF S!BadgesInit, BadgeTypes
 <1>5. BadgeIdle /\ CopiesAreTrue BY <1>2, <1>3 DEF BadgeIdle, CopiesAreTrue
 <1>6. BadgeOrder BY <1>1, <1>3 DEF S!BadgesInit, BadgeOrder, WholeOrNothing, Listening
 <1> QED BY <1>4, <1>5, <1>6 DEF BadgeInv

(* #renderBadges takes copies of the first badges that are left.           *)
CopiedOf(c, left, fragment, compact, n) ==
  /\ n \in 0..Len(left) /\ c.at = "icon" /\ c.compact = compact
  /\ Len(c.left) = Len(left) - n /\ \A i \in 1..Len(c.left) : c.left[i] = left[n + i]
  /\ Len(c.fragment) = Len(fragment) + n
  /\ \A i \in 1..Len(fragment) : c.fragment[i] = fragment[i]
  /\ \A i \in 1..n : c.fragment[Len(fragment) + i].badge = left[i]

LEMMA CopiesFirst ==
  ASSUME NEW left \in Seq(Badges), NEW fragment \in Seq(Shown), NEW compact \in BOOLEAN,
         NEW cache \in BadgeCache
  PROVE  LET c == S!Copied(left, fragment, compact, cache) IN
         c \in RenderCall /\ \E n \in 0..Len(left) : CopiedOf(c, left, fragment, compact, n)
 <1> DEFINE missing == {i \in DOMAIN left : cache[<<left[i], compact>>] = "absent"}
            n == IF missing = {} THEN Len(left) ELSE S!Min(missing) - 1
            rest == SubSeq(left, n + 1, Len(left))
            copies == [i \in 1..n |-> [badge |-> left[i], looks |-> cache[<<left[i], compact>>],
                                       listens |-> FALSE]]
            whole == fragment \o copies
            c == [at |-> "icon", compact |-> compact, left |-> rest, fragment |-> whole]
 <1>1. S!Copied(left, fragment, compact, cache) = c BY Zenon DEF S!Copied
 <1>2. n \in 0..Len(left)
  <2>1. CASE missing = {} BY <2>1
  <2>2. CASE missing # {}
   <3>1. missing \in SUBSET Nat /\ missing \subseteq 1..Len(left) /\ Len(left) \in Nat OBVIOUS
   <3> HIDE DEF missing
   <3>2. \E m \in missing : \A k \in missing : m <= k BY <2>2, <3>1, LeastNumber
   <3>3. S!Min(missing) \in missing BY <3>2 DEF S!Min
   <3> DEFINE m == S!Min(missing)
   <3>4. m \in 1..Len(left) /\ n = m - 1 BY <2>2, <3>1, <3>3
   <3> HIDE DEF m, n
   <3> QED BY <3>1, <3>4
  <2> QED BY <2>1, <2>2
 <1> HIDE DEF n
 <1>3. rest \in Seq(Badges) /\ Len(rest) = Len(left) - n /\ \A i \in 1..Len(rest) : rest[i] = left[n + i]
   BY <1>2
 <1>4. copies \in Seq(Shown) /\ Len(copies) = n /\ \A i \in 1..n : copies[i].badge = left[i]
  <2>1. \A i \in 1..n : left[i] \in Badges BY <1>2
  <2>2. \A i \in 1..n : cache[<<left[i], compact>>] \in LooksOf BY <2>1 DEF BadgeCache
  <2>3. \A i \in 1..n : copies[i] \in Shown /\ copies[i].badge = left[i] BY <2>1, <2>2 DEF Shown
  <2>4. copies \in [1..n -> Shown] /\ n \in Nat BY <1>2, <2>3
  <2> HIDE DEF copies
  <2>5. copies \in Seq(Shown) /\ Len(copies) = n BY <2>4, SeqDef
  <2> QED BY <2>3, <2>5
 <1> HIDE DEF rest, copies
 <1>5. /\ whole \in Seq(Shown) /\ Len(whole) = Len(fragment) + n
       /\ \A i \in 1..Len(fragment) + n :
            whole[i] = IF i <= Len(fragment) THEN fragment[i] ELSE copies[i - Len(fragment)]
   BY <1>4, ConcatProperties
 <1> HIDE DEF whole
 <1>6. /\ \A i \in 1..Len(fragment) : whole[i] = fragment[i]
       /\ \A i \in 1..n : whole[Len(fragment) + i].badge = left[i]
  <2>1. Len(fragment) \in Nat /\ n \in Nat BY <1>2
  <2>2. \A i \in 1..Len(fragment) : whole[i] = fragment[i] BY <1>5, <2>1
  <2>3. ASSUME NEW i \in 1..n PROVE whole[Len(fragment) + i].badge = left[i]
   <3>1. Len(fragment) + i \in 1..Len(fragment) + n /\ ~(Len(fragment) + i <= Len(fragment))
         /\ (Len(fragment) + i) - Len(fragment) = i BY <2>1
   <3>2. whole[Len(fragment) + i] = copies[i] BY <1>5, <3>1
   <3> QED BY <1>4, <3>2
  <2> QED BY <2>2, <2>3
 <1>7. c \in RenderCall BY <1>3, <1>5 DEF RenderCall
 <1>8. CopiedOf(c, left, fragment, compact, n) BY <1>2, <1>3, <1>5, <1>6 DEF CopiedOf
 <1> QED BY <1>1, <1>2, <1>7, <1>8

(* So what is drawn and left stays the list, and nothing that was copied   *)
(* has to take clicks.                                                     *)
LEMMA CopiesKeepOrder ==
  ASSUME NEW left \in Seq(Badges), NEW fragment \in Seq(Shown), NEW compact \in BOOLEAN,
         NEW n \in Nat, NEW c \in RenderCall, CopiedOf(c, left, fragment, compact, n),
         NEW elements, InOrder(fragment, left), Listening(fragment, elements),
         Unregistered(left, elements)
  PROVE  /\ InOrder(c.fragment, c.left) /\ Listening(c.fragment, elements)
         /\ Unregistered(c.left, elements)
 <1>1. Len(left) \in Nat /\ Len(fragment) \in Nat /\ n \in 0..Len(left) /\ Len(BadgeList) \in Nat
   BY BadgeLimits DEF CopiedOf
 <1>2. /\ Len(c.left) = Len(left) - n /\ \A i \in 1..Len(c.left) : c.left[i] = left[n + i]
       /\ Len(c.fragment) = Len(fragment) + n
       /\ \A i \in 1..Len(fragment) : c.fragment[i] = fragment[i]
       /\ \A i \in 1..n : c.fragment[Len(fragment) + i].badge = left[i] BY DEF CopiedOf
 <1>3. /\ Len(fragment) + Len(left) = Len(BadgeList)
       /\ \A i \in 1..Len(fragment) : fragment[i].badge = BadgeList[i]
       /\ \A i \in 1..Len(left) : left[i] = BadgeList[Len(fragment) + i] BY DEF InOrder
 <1>4. \A i \in 1..Len(c.fragment) : \/ i \in 1..Len(fragment)
                                     \/ i - Len(fragment) \in 1..n /\ Len(fragment) + (i - Len(fragment)) = i
   BY <1>1, <1>2
 <1>5. \A i \in 1..n : i \in 1..Len(left) BY <1>1
 <1>6. \A i \in 1..Len(c.left) : n + i \in 1..Len(left) /\ Len(fragment) + (n + i) = Len(c.fragment) + i
   BY <1>1, <1>2
 <1>7. InOrder(c.fragment, c.left)
  <2>1. Len(c.fragment) + Len(c.left) = Len(BadgeList)
   <3>1. Len(c.left) = Len(left) - n /\ Len(c.fragment) = Len(fragment) + n
         /\ Len(fragment) + Len(left) = Len(BadgeList) BY <1>2, <1>3
   <3> QED BY <1>1, <3>1
  <2>2. ASSUME NEW i \in 1..Len(c.fragment) PROVE c.fragment[i].badge = BadgeList[i]
   <3>1. CASE i \in 1..Len(fragment) BY <1>2, <1>3, <3>1
   <3>2. CASE i - Len(fragment) \in 1..n /\ Len(fragment) + (i - Len(fragment)) = i
    <4> DEFINE k == i - Len(fragment)
    <4>1. k \in 1..n /\ Len(fragment) + k = i BY <3>2
    <4> HIDE DEF k
    <4>2. c.fragment[i].badge = left[k] /\ k \in 1..Len(left) BY <1>2, <1>5, <4>1
    <4> QED BY <1>3, <4>1, <4>2
   <3> QED BY <1>4, <3>1, <3>2
  <2>3. ASSUME NEW i \in 1..Len(c.left) PROVE c.left[i] = BadgeList[Len(c.fragment) + i]
   <3>1. c.left[i] = left[n + i] /\ n + i \in 1..Len(left) BY <1>2, <1>6
   <3>2. left[n + i] = BadgeList[Len(fragment) + (n + i)] BY <1>3, <3>1
   <3> QED BY <1>6, <3>1, <3>2
  <2> QED BY <2>1, <2>2, <2>3 DEF InOrder
 <1>8. Listening(c.fragment, elements)
  <2> SUFFICES ASSUME NEW i \in 1..Len(c.fragment), c.fragment[i].badge \in elements
               PROVE  c.fragment[i].listens BY DEF Listening
  <2>1. CASE i \in 1..Len(fragment) BY <1>2, <2>1 DEF Listening
  <2>2. CASE i - Len(fragment) \in 1..n /\ Len(fragment) + (i - Len(fragment)) = i
   <3> DEFINE k == i - Len(fragment)
   <3>1. k \in 1..n /\ Len(fragment) + k = i BY <2>2
   <3> HIDE DEF k
   <3>2. c.fragment[i].badge = left[k] /\ k \in 1..Len(left) BY <1>2, <1>5, <3>1
   <3> QED BY <3>2 DEF Unregistered
  <2> QED BY <1>4, <2>1, <2>2
 <1>9. Unregistered(c.left, elements) BY <1>2, <1>6 DEF Unregistered
 <1> QED BY <1>7, <1>8, <1>9

(* An icon was loaded: its badge is drawn, registered or not, and the      *)
(* copies of the next are taken.                                           *)
LEMMA IconKeepsOrder ==
  ASSUME NEW left \in Seq(Badges), left # <<>>, NEW fragment \in Seq(Shown), NEW elements,
         NEW e \in Shown, e.badge = Head(left), e.listens = TRUE,
         InOrder(fragment, left), Listening(fragment, elements), Unregistered(left, elements),
         NEW new \in {elements, elements \cup {Head(left)}}
  PROVE  /\ InOrder(Append(fragment, e), Tail(left)) /\ Listening(Append(fragment, e), new)
         /\ Unregistered(Tail(left), new)
 <1> DEFINE f == Append(fragment, e)
            t == Tail(left)
            b == Head(left)
 <1>1. /\ f \in Seq(Shown) /\ Len(f) = Len(fragment) + 1 /\ f[Len(fragment) + 1] = e
       /\ Len(fragment) \in Nat /\ \A i \in 1..Len(fragment) : f[i] = fragment[i]
   OBVIOUS
 <1>2. /\ t \in Seq(Badges) /\ Len(t) = Len(left) - 1 /\ \A i \in 1..Len(t) : t[i] = left[i + 1]
       /\ Len(left) \in Nat /\ Len(left) > 0 /\ b = left[1]
   OBVIOUS
 <1>3. /\ Len(fragment) + Len(left) = Len(BadgeList)
       /\ \A i \in 1..Len(fragment) : fragment[i].badge = BadgeList[i]
       /\ \A i \in 1..Len(left) : left[i] = BadgeList[Len(fragment) + i] BY DEF InOrder
 <1> HIDE DEF f, t, b
 <1>4. b = BadgeList[Len(fragment) + 1] /\ e.badge = b BY <1>2, <1>3 DEF b
 <1>5. InOrder(f, t)
  <2>1. Len(f) + Len(t) = Len(BadgeList)
   <3>1. Len(f) = Len(fragment) + 1 /\ Len(t) = Len(left) - 1
         /\ Len(fragment) + Len(left) = Len(BadgeList) BY <1>1, <1>2, <1>3
   <3>2. Len(fragment) \in Nat /\ Len(left) \in Nat BY <1>1, <1>2
   <3> QED BY <3>1, <3>2
  <2>2. \A i \in 1..Len(f) : f[i].badge = BadgeList[i] BY <1>1, <1>3, <1>4
  <2>3. ASSUME NEW i \in 1..Len(t) PROVE t[i] = BadgeList[Len(f) + i]
   <3>1. i + 1 \in 1..Len(left) /\ Len(fragment) + (i + 1) = Len(f) + i BY <1>1, <1>2
   <3>2. left[i + 1] = BadgeList[Len(fragment) + (i + 1)] BY <1>3, <3>1
   <3> QED BY <1>2, <3>1, <3>2
  <2> QED BY <2>1, <2>2, <2>3 DEF InOrder
 <1>6. \A i, j \in 1..Len(BadgeList) : BadgeList[i] = BadgeList[j] => i = j BY BadgeLimits
 <1>7. \A i \in 1..Len(fragment) : fragment[i].badge # b
  <2> SUFFICES ASSUME NEW i \in 1..Len(fragment) PROVE fragment[i].badge # b OBVIOUS
  <2>1. i \in 1..Len(BadgeList) /\ Len(fragment) + 1 \in 1..Len(BadgeList) /\ i # Len(fragment) + 1
    BY <1>1, <1>2, <1>3
  <2> QED BY <1>3, <1>4, <1>6, <2>1
 <1>8. Listening(f, new)
  <2>1. \A i \in 1..Len(f) : i \in 1..Len(fragment) \/ i = Len(fragment) + 1 BY <1>1
  <2>2. \A c : c \in new => c \in elements \/ c = b BY DEF b
  <2> QED BY <1>1, <1>7, <2>1, <2>2 DEF Listening
 <1>9. \A i \in 1..Len(t) : t[i] # b
  <2> SUFFICES ASSUME NEW i \in 1..Len(t) PROVE t[i] # b OBVIOUS
  <2>1. i + 1 \in 1..Len(left) /\ t[i] = left[i + 1] BY <1>2
  <2>2. /\ Len(fragment) + (i + 1) \in 1..Len(BadgeList) /\ Len(fragment) + 1 \in 1..Len(BadgeList)
        /\ Len(fragment) + (i + 1) # Len(fragment) + 1 BY <1>1, <1>2, <1>3, <2>1
  <2>3. t[i] = BadgeList[Len(fragment) + (i + 1)] BY <1>3, <2>1
  <2> HIDE DEF t, b
  <2> QED BY <1>4, <1>6, <2>2, <2>3
 <1>10. Unregistered(t, new)
  <2>1. \A c : c \in new => c \in elements \/ c = b BY DEF b
  <2>2. \A i \in 1..Len(t) : i + 1 \in 1..Len(left) /\ t[i] = left[i + 1] BY <1>2
  <2>3. \A i \in 1..Len(t) : t[i] \notin elements BY <2>2 DEF Unregistered
  <2> QED BY <1>9, <2>1, <2>3 DEF Unregistered
 <1> QED BY <1>5, <1>8, <1>10 DEF f, t

(* What each change of a render leaves of the others.                      *)
LEMMA RenderMoves ==
  ASSUME BadgeTypes, BadgeIdle, NEW r \in BadgeRenders, NEW c \in RenderCall,
         c.at = "none" => c = S!Idle, badge_render' = [badge_render EXCEPT ![r] = c]
  PROVE  /\ badge_render' \in [BadgeRenders -> RenderCall] /\ BadgeIdle' /\ badge_render'[r] = c
         /\ \A q \in BadgeRenders \ {r} : badge_render'[q] = badge_render[q]
  BY DEF BadgeTypes, BadgeIdle

LEMMA LooksTrue == \A b \in Badges : S!Looks(b) \in LooksOf /\ (S!Looks(b) = "unlocked" <=> b \in unlocked)
  BY DEF S!Looks, LooksOf

LEMMA StateIsSet == \A s \in {"idle", "loading", "error"} : S!SetState(s) /\ BadgeTypes
                                => display_state' \in {"idle", "loading", "error"}
  BY DEF S!SetState, BadgeTypes

LEMMA FirstCopies ==
  ASSUME NEW compact \in BOOLEAN, NEW cache \in BadgeCache
  PROVE  LET c == S!Copied(BadgeList, <<>>, compact, cache) IN
         c \in RenderCall /\ \E n \in 0..Len(BadgeList) : CopiedOf(c, BadgeList, <<>>, compact, n)
 <1>1. BadgeList \in Seq(Badges) /\ <<>> \in Seq(Shown) BY BadgeLimits
 <1> QED BY <1>1, CopiesFirst, Zenon

LEMMA WholeIsAll == ASSUME NEW s \in Seq(Shown), InOrder(s, <<>>) PROVE Len(s) = Len(BadgeList)
 <1>1. Len(s) + Len(<<>>) = Len(BadgeList) BY DEF InOrder
 <1>2. Len(<<>>) = 0 /\ Len(s) \in Nat OBVIOUS
 <1> QED BY <1>1, <1>2

LEMMA BadgesKeep == BadgeInv /\ [S!BadgesNext]_(S!badges_vars) => BadgeInv'
 <1> SUFFICES ASSUME BadgeInv, [S!BadgesNext]_(S!badges_vars) PROVE BadgeInv' OBVIOUS
 <1> USE BadgeLimits
 <1>t. BadgeTypes /\ BadgeIdle /\ CopiesAreTrue /\ BadgeOrder BY DEF BadgeInv
 <1>b. ~S!Busy => badge_updates = {} /\ \A r \in BadgeRenders : badge_render[r] = S!Idle
   BY DEF S!Busy
 <1>l. \A r \in BadgeRenders : badge_render[r].left # <<>> => badge_render[r].at = "icon"
   BY <1>t DEF BadgeTypes, BadgeIdle, RenderCall
 <1>1. ASSUME NEW r \in BadgeRenders, NEW compact \in BOOLEAN, S!Render(r, compact) PROVE BadgeInv'
  <2> DEFINE c == S!Copied(BadgeList, <<>>, compact, renderCache)
  <2>1. /\ S!SetState("loading") /\ compact_now' = compact
        /\ shown_badges' = <<>> /\ badgeElements' = {}
        /\ badge_render' = [badge_render EXCEPT ![r] = c]
        /\ crossed' = (crossed \/ S!Busy)
        /\ UNCHANGED <<unlocked, renderCache, badge_updates>> BY <1>1, Zenon DEF S!Render
  <2>2. <<>> \in Seq(Shown) /\ Len(<<>>) = 0 OBVIOUS
  <2>3. renderCache \in BadgeCache BY <1>t DEF BadgeTypes
  <2>4. c \in RenderCall /\ \E n \in 0..Len(BadgeList) : CopiedOf(c, BadgeList, <<>>, compact, n)
   <3>1. BadgeList \in Seq(Badges) OBVIOUS
   <3> QED BY <2>3, <3>1, FirstCopies
  <2> HIDE DEF c
  <2>5. PICK n \in 0..Len(BadgeList) : CopiedOf(c, BadgeList, <<>>, compact, n) BY <2>4
  <2>6. c.at = "icon" /\ n \in Nat BY <2>5 DEF CopiedOf
  <2>7. InOrder(<<>>, BadgeList) /\ Listening(<<>>, {}) /\ Unregistered(BadgeList, {})
    BY <2>2 DEF InOrder, Listening, Unregistered
  <2>8. /\ InOrder(c.fragment, c.left) /\ Listening(c.fragment, {}) /\ Unregistered(c.left, {})
    BY <2>2, <2>4, <2>5, <2>6, <2>7, CopiesKeepOrder
  <2>9. /\ badge_render' \in [BadgeRenders -> RenderCall] /\ BadgeIdle' /\ badge_render'[r] = c
        /\ \A q \in BadgeRenders \ {r} : badge_render'[q] = badge_render[q]
    BY <1>t, <2>1, <2>4, <2>6, RenderMoves
  <2>10. BadgeTypes' BY <1>t, <2>1, <2>2, <2>9, StateIsSet DEF BadgeTypes, S!Busy
  <2>11. CopiesAreTrue' BY <1>t, <2>1 DEF CopiesAreTrue
  <2>12. BadgeOrder'
   <3> SUFFICES ASSUME ~S!Busy
                PROVE  BadgeOrder' BY <2>1 DEF BadgeOrder
   <3>1. \A q \in BadgeRenders : badge_render'[q].at = "icon" => q = r BY <1>b, <2>9
   <3>2. badge_updates' = {} /\ WholeOrNothing(<<>>) /\ Listening(<<>>, {})
     BY <1>b, <2>1, <2>2, <2>7 DEF WholeOrNothing
   <3> QED BY <2>1, <2>8, <2>9, <3>1, <3>2 DEF BadgeOrder
  <2> QED BY <2>9, <2>10, <2>11, <2>12 DEF BadgeInv
 <1>2. ASSUME NEW r \in BadgeRenders, S!IconLoaded(r) PROVE BadgeInv'
  <2> DEFINE o == badge_render[r]
             b == Head(o.left)
             e == [badge |-> b, looks |-> S!Looks(b), listens |-> TRUE]
             cache == IF o.compact THEN renderCache
                      ELSE [renderCache EXCEPT ![<<b, FALSE>>] = S!Looks(b)]
             c == S!Copied(Tail(o.left), Append(o.fragment, e), o.compact, cache)
  <2>1. /\ o.left # <<>> /\ badgeElements' = (IF o.compact THEN badgeElements ELSE badgeElements \cup {b})
        /\ renderCache' = cache
        /\ UNCHANGED <<unlocked, display_state, shown_badges, badge_updates, compact_now, crossed>>
    BY <1>2, Zenon DEF S!IconLoaded
  <2>2. o \in RenderCall /\ o.at = "icon" BY <1>l, <1>t, <2>1 DEF BadgeTypes
  <2>3. badge_render' = [badge_render EXCEPT ![r] = c] BY <1>2 DEF S!IconLoaded
  <2>4. o.left \in Seq(Badges) /\ o.fragment \in Seq(Shown) /\ o.compact \in BOOLEAN
    BY <2>2 DEF RenderCall
  <2> HIDE DEF o
  <2>5. b \in Badges /\ Tail(o.left) \in Seq(Badges) BY <2>1, <2>4
  <2>6. e \in Shown /\ e.badge = b /\ e.listens = TRUE BY <2>5, LooksTrue DEF Shown
  <2> HIDE DEF b, e
  <2>7. Append(o.fragment, e) \in Seq(Shown) BY <2>4, <2>6
  <2>8. /\ cache \in BadgeCache
        /\ \A k \in Badges \X BOOLEAN : cache[k] = renderCache[k] \/ (k[1] = b /\ cache[k] = S!Looks(b))
   <3>1. renderCache \in [Badges \X BOOLEAN -> LooksOf] /\ S!Looks(b) \in LooksOf
     BY <1>t, <2>5, LooksTrue DEF BadgeTypes, BadgeCache
   <3>2. CASE o.compact BY <3>1, <3>2 DEF BadgeCache
   <3>3. CASE ~o.compact
    <4>1. <<b, FALSE>> \in Badges \X BOOLEAN /\ <<b, FALSE>>[1] = b BY <2>5
    <4>2. cache = [renderCache EXCEPT ![<<b, FALSE>>] = S!Looks(b)] BY <3>3
    <4> QED BY <3>1, <4>1, <4>2 DEF BadgeCache
   <3> QED BY <3>2, <3>3
  <2>9. CopiesAreTrue' BY <1>t, <2>1, <2>5, <2>8, LooksTrue DEF CopiesAreTrue
  <2> HIDE DEF cache
  <2>10. c \in RenderCall /\ \E n \in 0..Len(Tail(o.left)) :
            CopiedOf(c, Tail(o.left), Append(o.fragment, e), o.compact, n)
    BY <2>4, <2>5, <2>7, <2>8, CopiesFirst
  <2> HIDE DEF c
  <2>11. PICK n \in 0..Len(Tail(o.left)) : CopiedOf(c, Tail(o.left), Append(o.fragment, e), o.compact, n)
    BY <2>10
  <2>12. c.at = "icon" /\ n \in Nat BY <2>11 DEF CopiedOf
  <2>13. /\ badge_render' \in [BadgeRenders -> RenderCall] /\ BadgeIdle' /\ badge_render'[r] = c
         /\ \A q \in BadgeRenders \ {r} : badge_render'[q] = badge_render[q]
    BY <1>t, <2>3, <2>10, <2>12, RenderMoves
  <2>14. BadgeTypes' BY <1>t, <2>1, <2>5, <2>8, <2>13 DEF BadgeTypes
  <2>15. BadgeOrder'
   <3> SUFFICES ASSUME ~crossed PROVE BadgeOrder' BY <2>1 DEF BadgeOrder
   <3>1. /\ \A q \in BadgeRenders : badge_render[q].at = "icon" => q = r
         /\ badge_updates = {} /\ shown_badges = <<>>
         /\ InOrder(o.fragment, o.left) /\ Listening(o.fragment, badgeElements)
         /\ Unregistered(o.left, badgeElements) BY <1>t, <2>2 DEF BadgeOrder, o
   <3>2. badgeElements' \in {badgeElements, badgeElements \cup {Head(o.left)}} BY <2>1 DEF b
   <3>3. e.badge = Head(o.left) BY <2>6 DEF b
   <3>4. /\ InOrder(Append(o.fragment, e), Tail(o.left)) /\ Listening(Append(o.fragment, e), badgeElements')
         /\ Unregistered(Tail(o.left), badgeElements')
     BY <2>1, <2>4, <2>6, <3>1, <3>2, <3>3, IconKeepsOrder
   <3>5. InOrder(c.fragment, c.left) /\ Listening(c.fragment, badgeElements')
         /\ Unregistered(c.left, badgeElements')
     BY <2>4, <2>5, <2>7, <2>10, <2>11, <2>12, <3>4, CopiesKeepOrder
   <3>6. \A q \in BadgeRenders : badge_render'[q].at = "icon" => q = r BY <2>13, <3>1
   <3>7. Len(<<>>) = 0 OBVIOUS
   <3> QED BY <2>1, <2>13, <3>1, <3>5, <3>6, <3>7 DEF BadgeOrder, WholeOrNothing, Listening
  <2> QED BY <2>9, <2>13, <2>14, <2>15 DEF BadgeInv
 <1>3. ASSUME NEW r \in BadgeRenders, S!Rendered(r) PROVE BadgeInv'
  <2> DEFINE o == badge_render[r]
             f == o.fragment
  <2>1. /\ o.at = "icon" /\ o.left = <<>> /\ shown_badges' = shown_badges \o f
        /\ S!SetState("idle") /\ badge_render' = [badge_render EXCEPT ![r] = S!Idle]
        /\ UNCHANGED <<unlocked, badgeElements, renderCache, badge_updates, compact_now, crossed>>
    BY <1>3, Zenon DEF S!Rendered
  <2>2. o \in RenderCall /\ f \in Seq(Shown) /\ shown_badges \in Seq(Shown)
    BY <1>t DEF BadgeTypes, RenderCall
  <2> HIDE DEF f
  <2>3. shown_badges' \in Seq(Shown) BY <2>1, <2>2
  <2>4. /\ badge_render' \in [BadgeRenders -> RenderCall] /\ BadgeIdle' /\ badge_render'[r] = S!Idle
        /\ \A q \in BadgeRenders \ {r} : badge_render'[q] = badge_render[q]
    BY <1>t, <2>1, RenderMoves
  <2>5. BadgeTypes' /\ CopiesAreTrue'
    BY <1>t, <2>1, <2>3, <2>4, StateIsSet DEF BadgeTypes, CopiesAreTrue
  <2>6. BadgeOrder'
   <3> SUFFICES ASSUME ~crossed PROVE BadgeOrder' BY <2>1 DEF BadgeOrder
   <3>1. /\ \A q \in BadgeRenders : badge_render[q].at = "icon" => q = r
         /\ badge_updates = {} /\ shown_badges = <<>>
         /\ InOrder(f, <<>>) /\ Listening(f, badgeElements) BY <1>t, <2>1 DEF BadgeOrder, f
   <3>2. shown_badges' = f BY <2>1, <2>2, <3>1
   <3>3. \A q \in BadgeRenders : badge_render'[q].at # "icon" BY <2>4, <3>1
   <3> QED BY <2>1, <3>1, <3>2, <3>3 DEF BadgeOrder, WholeOrNothing
  <2> QED BY <2>4, <2>5, <2>6 DEF BadgeInv
 <1>4. ASSUME NEW r \in BadgeRenders, S!IconFails(r) PROVE BadgeInv'
  <2>1. /\ S!SetState("error") /\ badge_render' = [badge_render EXCEPT ![r] = S!Idle]
        /\ UNCHANGED <<unlocked, shown_badges, badgeElements, renderCache, badge_updates, compact_now,
                       crossed>> BY <1>4 DEF S!IconFails
  <2>2. /\ badge_render' \in [BadgeRenders -> RenderCall] /\ BadgeIdle' /\ badge_render'[r] = S!Idle
        /\ \A q \in BadgeRenders \ {r} : badge_render'[q] = badge_render[q]
    BY <1>t, <2>1, RenderMoves
  <2>3. BadgeTypes' /\ CopiesAreTrue' BY <1>t, <2>1, <2>2, StateIsSet DEF BadgeTypes, CopiesAreTrue
  <2>4. BadgeOrder' BY <1>t, <2>1, <2>2 DEF BadgeOrder
  <2> QED BY <2>2, <2>3, <2>4 DEF BadgeInv
 <1>5. ASSUME NEW b \in Badges, S!UpdateBadge(b) PROVE BadgeInv'
  <2>1. /\ badge_updates' = badge_updates \cup {b} /\ crossed' = (crossed \/ S!Busy)
        /\ UNCHANGED <<unlocked, display_state, shown_badges, badgeElements, renderCache,
                       badge_render, compact_now>> BY <1>5 DEF S!UpdateBadge
  <2>2. BadgeTypes' /\ CopiesAreTrue' /\ BadgeIdle'
    BY <1>t, <2>1 DEF BadgeTypes, CopiesAreTrue, BadgeIdle, S!Busy
  <2>3. BadgeOrder' BY <1>b, <1>t, <2>1 DEF BadgeOrder
  <2> QED BY <2>2, <2>3 DEF BadgeInv
 <1>6. ASSUME NEW b \in Badges, S!BadgesUpdated(b) PROVE BadgeInv'
  <2>1. /\ b \in badge_updates /\ badge_updates' = badge_updates \ {b}
        /\ badgeElements' = badgeElements \cup {b}
        /\ renderCache' = [renderCache EXCEPT ![<<b, compact_now>>] = S!Looks(b)]
        /\ UNCHANGED <<unlocked, display_state, badge_render, compact_now, crossed>>
    BY <1>6, Zenon DEF S!BadgesUpdated
  <2>2. /\ renderCache' \in BadgeCache
        /\ \A k \in Badges \X BOOLEAN : renderCache'[k] = renderCache[k]
                                        \/ (k[1] = b /\ renderCache'[k] = S!Looks(b))
    BY <1>t, <2>1, LooksTrue DEF BadgeTypes, BadgeCache
  <2>3. CopiesAreTrue' BY <1>t, <2>1, <2>2, LooksTrue DEF CopiesAreTrue
  <2>4. /\ shown_badges' \in Seq(Shown) /\ Len(shown_badges') = Len(shown_badges)
        /\ \A j \in 1..Len(shown_badges) :
             /\ shown_badges'[j].badge = shown_badges[j].badge
             /\ shown_badges'[j].listens \/ (shown_badges'[j] = shown_badges[j]
                  /\ (~crossed /\ WholeOrNothing(shown_badges) => shown_badges[j].badge # b))
   <3>1. CASE UNCHANGED shown_badges /\ (crossed \/ \A i \in DOMAIN shown_badges : shown_badges[i].badge # b)
     BY <1>t, <3>1 DEF BadgeTypes
   <3>2. ASSUME NEW i \in DOMAIN shown_badges, shown_badges[i].badge = b,
                shown_badges' = [shown_badges EXCEPT ![i].looks = S!Looks(b), ![i].listens = TRUE]
         PROVE  /\ shown_badges' \in Seq(Shown) /\ Len(shown_badges') = Len(shown_badges)
                /\ \A j \in 1..Len(shown_badges) :
                     /\ shown_badges'[j].badge = shown_badges[j].badge
                     /\ shown_badges'[j].listens \/ (shown_badges'[j] = shown_badges[j]
                          /\ (~crossed /\ WholeOrNothing(shown_badges) => shown_badges[j].badge # b))
    <4>1. shown_badges \in Seq(Shown) /\ DOMAIN shown_badges = 1..Len(shown_badges)
          /\ Len(shown_badges) \in Nat /\ i \in 1..Len(shown_badges) /\ shown_badges[i] \in Shown
      BY <1>t DEF BadgeTypes
    <4>2. /\ shown_badges' = [j \in 1..Len(shown_badges) |-> shown_badges'[j]]
          /\ \A j \in 1..Len(shown_badges) \ {i} : shown_badges'[j] = shown_badges[j] BY <3>2, <4>1
    <4>3. shown_badges'[i] \in Shown /\ shown_badges'[i].badge = b /\ shown_badges'[i].listens = TRUE
     <5> DEFINE s == shown_badges[i]
                s1 == [s EXCEPT !.looks = S!Looks(b)]
                s2 == [s1 EXCEPT !.listens = TRUE]
     <5>1. shown_badges'[i] = s2 BY <3>2, <4>1 DEF Shown
     <5>2. s1 \in Shown /\ s1.badge = b BY <3>2, <4>1, LooksTrue DEF Shown
     <5> HIDE DEF s1
     <5>3. s2 \in Shown /\ s2.badge = b /\ s2.listens = TRUE BY <5>2 DEF Shown
     <5> QED BY <5>1, <5>3
    <4>4. \A j \in 1..Len(shown_badges) : shown_badges'[j] \in Shown BY <4>1, <4>2, <4>3
    <4>5. shown_badges' \in [1..Len(shown_badges) -> Shown] BY <4>2, <4>4
    <4>6. shown_badges' \in Seq(Shown) /\ Len(shown_badges') = Len(shown_badges)
      BY <4>1, <4>5, SeqDef
    <4>7. ASSUME NEW j \in 1..Len(shown_badges), j # i, WholeOrNothing(shown_badges)
          PROVE  shown_badges[j].badge # b
     <5>1. Len(shown_badges) # 0 BY <4>1
     <5>2. \A k \in 1..Len(shown_badges) : shown_badges[k].badge = BadgeList[k]
       BY <4>7, <5>1 DEF WholeOrNothing, InOrder
     <5>3. Len(shown_badges) = Len(BadgeList)
      <6>1. InOrder(shown_badges, <<>>) BY <4>7, <5>1 DEF WholeOrNothing
      <6> QED BY <4>1, <6>1, WholeIsAll
     <5> QED BY <3>2, <4>1, <4>7, <5>2, <5>3
    <4> QED BY <3>2, <4>2, <4>3, <4>6, <4>7
   <3> QED BY <1>6, <3>1, <3>2 DEF S!BadgesUpdated
  <2>5. BadgeTypes' /\ BadgeIdle' BY <1>t, <2>1, <2>2, <2>4 DEF BadgeTypes, BadgeIdle
  <2>6. BadgeOrder'
   <3> SUFFICES ASSUME ~crossed PROVE BadgeOrder' BY <2>1 DEF BadgeOrder
   <3>1. \A r \in BadgeRenders : badge_render[r].at # "icon" BY <1>t, <2>1 DEF BadgeOrder
   <3>2. WholeOrNothing(shown_badges) /\ Listening(shown_badges, badgeElements)
     BY <1>t DEF BadgeOrder
   <3>3. WholeOrNothing(shown_badges') BY <2>4, <3>2 DEF WholeOrNothing, InOrder
   <3>4. Listening(shown_badges', badgeElements') BY <2>1, <2>4, <3>2 DEF Listening
   <3> QED BY <1>t, <2>1, <3>1, <3>3, <3>4 DEF BadgeOrder
  <2> QED BY <2>3, <2>5, <2>6 DEF BadgeInv
 <1>7. ASSUME NEW b \in Badges, S!UpdateFails(b) PROVE BadgeInv'
   BY <1>7, <1>t DEF S!UpdateFails, BadgeInv, BadgeTypes, BadgeIdle, CopiesAreTrue, BadgeOrder
 <1>8. ASSUME NEW b \in Badges, S!Unlock(b) PROVE BadgeInv'
  <2>1. /\ unlocked' = unlocked \cup {b}
        /\ UNCHANGED <<display_state, shown_badges, badgeElements, renderCache, badge_render,
                       badge_updates, compact_now, crossed>> BY <1>8 DEF S!Unlock
  <2>2. BadgeTypes' /\ BadgeIdle' /\ CopiesAreTrue'
    BY <1>t, <2>1 DEF BadgeTypes, BadgeIdle, CopiesAreTrue
  <2>3. BadgeOrder' BY <1>t, <2>1 DEF BadgeOrder
  <2> QED BY <2>2, <2>3 DEF BadgeInv
 <1>9. ASSUME S!BadgesDestroy PROVE BadgeInv'
  <2>1. /\ shown_badges' = <<>> /\ badgeElements' = {}
        /\ renderCache' = [k \in DOMAIN renderCache |-> "absent"]
        /\ UNCHANGED <<unlocked, display_state, badge_render, badge_updates, compact_now, crossed>>
    BY <1>9 DEF S!BadgesDestroy
  <2>2. <<>> \in Seq(Shown) /\ Len(<<>>) = 0 OBVIOUS
  <2>3. renderCache' \in BadgeCache /\ CopiesAreTrue'
    BY <1>t, <2>1 DEF BadgeTypes, BadgeCache, LooksOf, CopiesAreTrue
  <2>4. BadgeTypes' /\ BadgeIdle' BY <1>t, <2>1, <2>2, <2>3 DEF BadgeTypes, BadgeIdle
  <2>5. BadgeOrder' BY <1>t, <2>1, <2>2 DEF BadgeOrder, WholeOrNothing, Listening, Unregistered
  <2> QED BY <2>3, <2>4, <2>5 DEF BadgeInv
 <1>10. CASE UNCHANGED S!badges_vars
   BY <1>10, <1>t DEF S!badges_vars, BadgeInv, BadgeTypes, BadgeIdle, CopiesAreTrue, BadgeOrder
 <1> QED BY <1>1, <1>2, <1>3, <1>4, <1>5, <1>6, <1>7, <1>8, <1>9, <1>10 DEF S!BadgesNext

LEMMA BadgesImply == BadgeInv => S!BadgesTypeOK /\ S!BadgesAreShownOnce
 <1> SUFFICES ASSUME BadgeInv PROVE S!BadgesTypeOK /\ S!BadgesAreShownOnce OBVIOUS
 <1> USE BadgeLimits
 <1>t. BadgeTypes /\ CopiesAreTrue /\ BadgeOrder BY DEF BadgeInv
 <1>1. DOMAIN renderCache = Badges \X BOOLEAN /\ shown_badges \in Seq(Shown)
       /\ DOMAIN shown_badges = 1..Len(shown_badges) /\ Len(shown_badges) \in Nat
   BY <1>t DEF BadgeTypes, BadgeCache
 <1>2. S!BadgesTypeOK BY <1>1, <1>t DEF BadgeTypes, BadgeCache, LooksOf, S!BadgesTypeOK
 <1>3. \A k \in DOMAIN renderCache : renderCache[k] = "unlocked" => k[1] \in unlocked
   BY <1>1, <1>t DEF CopiesAreTrue
 <1> DEFINE o == [i \in DOMAIN shown_badges |-> shown_badges[i].badge]
 <1>4. WholeOrNothing(shown_badges) => o \in {<<>>, BadgeList}
  <2>1. CASE Len(shown_badges) = 0
   <3>1. o \in [1..0 -> Badges] /\ DOMAIN o = {} BY <1>1, <2>1
   <3>2. o = <<>> BY <3>1
   <3> QED BY <3>2
  <2>2. CASE InOrder(shown_badges, <<>>)
   <3>7. Len(shown_badges) = Len(BadgeList) BY <1>1, <2>2, WholeIsAll
   <3>2. Len(shown_badges) = Len(BadgeList) /\ \A i \in 1..Len(BadgeList) : o[i] = BadgeList[i]
     BY <1>1, <2>2, <3>7 DEF InOrder
   <3>3. DOMAIN BadgeList = 1..Len(BadgeList) /\ BadgeList = [i \in 1..Len(BadgeList) |-> BadgeList[i]]
     OBVIOUS
   <3>4. o = [i \in 1..Len(BadgeList) |-> BadgeList[i]] BY <1>1, <3>2
   <3> QED BY <3>3, <3>4
  <2> QED BY <2>1, <2>2 DEF WholeOrNothing
 <1> HIDE DEF o
 <1>5. S!BadgesAreShownOnce
   BY <1>1, <1>3, <1>4, <1>t DEF BadgeOrder, Listening, S!BadgesAreShownOnce, o
 <1> QED BY <1>2, <1>5

-----------------------------------------------------------------------------
(***************************************************************************)
(* The components together: a step is one of one component, and leaves the *)
(* others where they were.                                                 *)
(***************************************************************************)
IInv == /\ StreakInv /\ IndicatorInv /\ ChallengeInv /\ AnswerInv /\ ProfileInv
        /\ CalculatorInv /\ RewardInv /\ MasteryInv /\ MetricsInv /\ HeldInv
        /\ ScreenInv /\ BadgeInv /\ HomeInv /\ EditInv

LEMMA InitOfEach ==
  Init => /\ K!ServiceInit /\ H!Init /\ T!ServiceInit /\ P!ServiceInit
          /\ T!CalculatorInit /\ V!ModelInit /\ T!MasteryInit /\ T!MetricsInit
          /\ V!HeldInit /\ S!ScreenInit /\ K!IndicatorInit /\ S!BadgesInit
          /\ S!HomeInit /\ P!EditInit BY DEF Init

LEMMA Starts == Init => IInv
  BY InitOfEach, StreakStarts, IndicatorStarts, ChallengeStarts, AnswerStarts, ProfileStarts,
     CalculatorStarts, RewardStarts, MasteryStarts, MetricsStarts, HeldStarts, ScreenStarts,
     BadgeStarts, HomeStarts, EditStarts, Zenon DEF IInv

(* A step of the pages is one of each component, or leaves it alone.       *)
LEMMA Steps ==
  [Next]_vars => /\ [K!ServiceNext]_(K!service_vars) /\ [H!Next]_(H!vars)
                 /\ [T!ServiceNext]_(T!service_vars) /\ [P!ServiceNext]_(P!service_vars)
                 /\ [T!CalculatorNext]_(T!calculator_vars) /\ [V!ModelNext]_(V!model_vars)
                 /\ [T!MasteryNext]_(T!mastery_vars) /\ [T!MetricsNext]_(T!metrics_vars)
                 /\ [V!HeldNext]_(V!held_vars) /\ [S!ScreenNext]_(S!screen_vars)
                 /\ [K!IndicatorNext]_(K!indicator_vars) /\ [S!BadgesNext]_(S!badges_vars)
                 /\ [S!HomeNext]_(S!home_vars) /\ [P!EditNext]_(P!edit_vars)
  BY DEF Next, vars, StreaksStep, ChallengesStep, AnswersStep, ProfileStep, CalculatorStep,
     RewardsStep, MasteryStep, MeteredStep, Held_listStep, ScreenStep, IndicatorStep,
     BadgesStep, HomeStep, EditStep, streak_vars, challenge_vars, answer_vars, profile_vars,
     calculator_vars, reward_vars, mastery_vars, metric_vars, held_vars, screen_vars,
     indicator_vars, badge_vars, home_vars, edit_vars,
     K!service_vars, H!vars, T!service_vars, P!service_vars, T!calculator_vars, T!progress,
     V!model_vars, T!mastery_vars, T!metrics_vars, V!held_vars, S!screen_vars,
     K!indicator_vars, K!view, S!badges_vars, S!home_vars, P!edit_vars, P!form, P!flags,
     P!timers, P!calls

LEMMA Keep == IInv /\ [Next]_vars => IInv'
 <1> SUFFICES ASSUME IInv, [Next]_vars PROVE IInv' OBVIOUS
 <1>1. StreakInv' /\ IndicatorInv' /\ ChallengeInv'
   BY Steps, StreakKeeps, IndicatorKeeps, ChallengeKeeps DEF IInv
 <1>2. AnswerInv' /\ CalculatorInv' /\ MasteryInv' /\ MetricsInv'
   BY Steps, AnswerKeeps, CalculatorKeeps, MasteryKeeps, MetricsKeeps DEF IInv
 <1>3. ProfileInv' /\ EditInv' /\ RewardInv' /\ HeldInv'
   BY Steps, ProfileKeeps, EditKeeps, RewardKeeps, HeldKeeps DEF IInv
 <1>4. ScreenInv' /\ BadgeInv' /\ HomeInv' BY Steps, ScreenKeeps, BadgesKeep, HomeKeeps DEF IInv
 <1> QED BY <1>1, <1>2, <1>3, <1>4 DEF IInv

LEMMA Always == Spec => []IInv BY Starts, Keep, PTL DEF Spec

(* Every behaviour of the pages together is one of each component.         *)
THEOREM EachIsItself ==
  Spec => /\ K!ServiceSpec /\ H!Spec /\ T!ServiceSpec /\ P!ServiceSpec /\ T!CalculatorSpec
          /\ V!ModelSpec /\ T!MasterySpec /\ T!MetricsSpec /\ V!HeldSpec /\ S!ScreenSpec
          /\ K!IndicatorSpec /\ S!BadgesSpec /\ S!HomeSpec /\ P!EditSpec BY InitOfEach, Steps, PTL
  DEF Spec, K!ServiceSpec, H!Spec, T!ServiceSpec, P!ServiceSpec, T!CalculatorSpec, V!ModelSpec,
      T!MasterySpec, T!MetricsSpec, V!HeldSpec, S!ScreenSpec, K!IndicatorSpec, S!BadgesSpec,
      S!HomeSpec, P!EditSpec

(* The variables of every component have values of their kinds.            *)
THEOREM ValuesAreTyped == Spec => []TypeOK
 <1>1. IInv => TypeOK
  <2> SUFFICES ASSUME IInv PROVE TypeOK OBVIOUS
  <2>1. K!TypeOK BY StreakImplies DEF IInv, IndicatorInv, K!TypeOK
  <2>2. H!TypeOK BY ChallengeImplies DEF IInv
  <2>3. T!TypeOK
    BY AnswerImplies, CalculatorImplies, MetricsImplies, MasteryImplies DEF IInv, T!TypeOK
  <2>4. P!TypeOK BY ProfileImplies, EditImplies DEF IInv, P!TypeOK
  <2>5. V!TypeOK BY RewardImplies, HeldImplies DEF IInv, V!TypeOK
  <2>6. S!TypeOK BY ScreenImplies, BadgesImply, HomeImplies DEF IInv, S!TypeOK
  <2> QED BY <2>1, <2>2, <2>3, <2>4, <2>5, <2>6 DEF TypeOK
 <1> QED BY <1>1, Always, PTL

(* streak_service.js, streak_indicator.js: no streak is longer than the    *)
(* days that passed, no month has more freezes than it may, a cached row   *)
(* is the stored one as long as calls follow one another and saves are     *)
(* answered, and what the indicator drew is what it was given last.        *)
THEOREM StreaksEarned == Spec => []StreaksAreEarned
 <1>1. IInv => StreaksAreEarned BY StreakImplies DEF IInv, IndicatorInv, StreaksAreEarned
 <1> QED BY <1>1, Always, PTL

(* challenge_service.js, achievement_model.js, user_achievements.js,       *)
(* progress_model.js: a completed challenge was announced, a completed     *)
(* achievement keeps its date and is paid once it is claimed, each type is *)
(* held once, and a level of mastery has the answers it asks for.          *)
THEOREM CompletionsKept == Spec => []CompletionsAreKept
 <1>1. IInv => CompletionsAreKept
   BY ChallengeImplies, RewardImplies, HeldImplies, MasteryImplies DEF IInv, CompletionsAreKept
 <1> QED BY <1>1, Always, PTL

(* stats_service.js, stats_calculator.js, user_metrics.js: an answer is    *)
(* not older than the question allows, the cache has each key once and     *)
(* keeps to its size, and every lesson is in the history, under way or     *)
(* lost with a failed call.                                                *)
THEOREM StatsAccounted == Spec => []StatsAreAccounted
 <1>1. IInv => StatsAreAccounted
   BY AnswerImplies, CalculatorImplies, MetricsImplies DEF IInv, StatsAreAccounted
 <1> QED BY <1>1, Always, PTL

(* profile_service.js: whatever fails, is tried again or is rolled back,   *)
(* an update that was answered is in the profile unless calls overlapped.  *)
THEOREM UpdatesKept == Spec => []UpdatesAreKept
 <1>1. IInv => UpdatesAreKept BY ProfileImplies DEF IInv, UpdatesAreKept
 <1> QED BY <1>1, Always, PTL

(* achievements_screen.js, badge_display.js, home_screen.js,               *)
(* profile_edit_screen.js: no skeleton stays without a load, every badge   *)
(* is shown once and in order, the page is that of the state, and what was *)
(* typed is not taken for saved, but during the save.                      *)
THEOREM ScreensFollow == Spec => []ScreensFollowTheirData
 <1>1. IInv => ScreensFollowTheirData
   BY ScreenImplies, BadgesImply, HomeImplies, EditImplies DEF IInv, ScreensFollowTheirData
 <1> QED BY <1>1, Always, PTL
=============================================================================
