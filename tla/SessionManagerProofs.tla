------------------------ MODULE SessionManagerProofs ------------------------
(***************************************************************************)
(* What SessionManager promises, for every value of its constants: its      *)
(* types hold; a tab alone, one operation at a time, keeps its sessions     *)
(* true; and logins and logouts of any number of tabs, overlapping as they  *)
(* may, bring no removed row back and mix up no users.                     *)
(***************************************************************************)
EXTENDS SessionManager, SequenceTheorems, TLAPS

Tab == [current : Sids \cup {Nil}, info : Data \cup {Nil}, auth : BOOLEAN,
        kept : BOOLEAN]
Message == [type : {"SESSION_ENDED", "LOGOUT_ALL"}, sid : Sids \cup {Nil}]
Birth == [user : Users, root : Nat]

(* Every session id in use was generated, and a login names its user.       *)
RowsTyped == \A r \in rows : r \in Row /\ r.sid \in Generated
TabsTyped ==
  tab \in [Tabs -> Tab] /\ \A t \in Tabs : tab[t].current \in Generated \cup {Nil}
LocalTyped(c) ==
  /\ c \in Local
  /\ \A r \in c.todo : r.sid \in Generated
  /\ c.then = "login" => c.user \in Users
  /\ c.at \in {"enforcing", "ending", "device"} => c.then = "login"
ThreadsTyped ==
  /\ thread \in [Tabs -> [Threads -> Local]]
  /\ \A t \in Tabs, k \in Threads : LocalTyped(thread[t][k])
InboxTyped == inbox \in [Tabs -> Seq(Message)]
OriginTyped ==
  /\ origin \in Seq(Birth) /\ Len(origin) <= MaxSid
  /\ \A sid \in Generated : Root(sid) \in 1..sid
RestTyped == ended \subseteq Generated /\ reloads \in 0..MaxReloads /\ now \in Nat

TypeInv ==
  /\ RowsTyped /\ TabsTyped /\ ThreadsTyped
  /\ InboxTyped /\ OriginTyped /\ RestTyped
-----------------------------------------------------------------------------
LEMMA Constants ==
  /\ MaxSid \in Nat /\ MaxReloads \in Nat
  /\ Timeout \in Nat /\ RememberFor \in Nat /\ RotationInterval \in Nat
  /\ NoUser \notin Users
  /\ Nil \notin Sids /\ Nil \notin Data /\ Nil \notin Info
  /\ Empty \in Data /\ Empty \notin Info /\ Empty # Nil /\ Empty.user = NoUser
<1>1. Nil \notin Sids /\ Nil \notin Data /\ Nil \notin Info BY NilAssumption DEF Sids, Data
<1>2. Empty \in Data BY DEF Data
<1>3. Empty.user = NoUser BY DEF Empty
<1>4. \A i \in Info : i.user \in Users BY DEF Info
<1>5. NoUser \notin Users /\ Empty \notin Info BY <1>3, <1>4, SessionAssumption
<1> QED BY <1>1, <1>2, <1>3, <1>5, SessionAssumption

LEMMA IdleLocal ==
  /\ Idle \in Local /\ Idle.at = "idle" /\ Idle.then = "return" /\ Idle.todo = {}
  /\ Idle.user = NoUser /\ Idle.copy = Empty /\ Idle.sid = Nil
  /\ Idle.remember = FALSE BY Constants DEF Idle, Local, Labels, Thens

LEMMA LoggedOutTab ==
  LoggedOut \in Tab /\ LoggedOut.current = Nil /\ LoggedOut.info = Nil
  /\ LoggedOut.auth = FALSE BY DEF LoggedOut, Tab

(* One field of a thread's locals changes.                                  *)
LEMMA SetAt ==
  ASSUME NEW c \in Local, NEW v \in Labels, NEW d, d = [c EXCEPT !.at = v]
  PROVE  /\ d \in Local /\ d.at = v
         /\ d.then = c.then /\ d.user = c.user /\ d.remember = c.remember
         /\ d.sid = c.sid /\ d.copy = c.copy /\ d.todo = c.todo BY DEF Local

LEMMA SetThen ==
  ASSUME NEW c \in Local, NEW v \in Thens, NEW d, d = [c EXCEPT !.then = v]
  PROVE  /\ d \in Local /\ d.then = v
         /\ d.at = c.at /\ d.user = c.user /\ d.remember = c.remember
         /\ d.sid = c.sid /\ d.copy = c.copy /\ d.todo = c.todo BY DEF Local

LEMMA SetUser ==
  ASSUME NEW c \in Local, NEW v \in Users, NEW d, d = [c EXCEPT !.user = v]
  PROVE  /\ d \in Local /\ d.user = v
         /\ d.at = c.at /\ d.then = c.then /\ d.remember = c.remember
         /\ d.sid = c.sid /\ d.copy = c.copy /\ d.todo = c.todo BY DEF Local

LEMMA SetRemember ==
  ASSUME NEW c \in Local, NEW v \in BOOLEAN, NEW d, d = [c EXCEPT !.remember = v]
  PROVE  /\ d \in Local /\ d.remember = v
         /\ d.at = c.at /\ d.then = c.then /\ d.user = c.user
         /\ d.sid = c.sid /\ d.copy = c.copy /\ d.todo = c.todo BY DEF Local

LEMMA SetSid ==
  ASSUME NEW c \in Local, NEW v \in Sids \cup {Nil}, NEW d, d = [c EXCEPT !.sid = v]
  PROVE  /\ d \in Local /\ d.sid = v
         /\ d.at = c.at /\ d.then = c.then /\ d.user = c.user
         /\ d.remember = c.remember /\ d.copy = c.copy /\ d.todo = c.todo BY DEF Local

LEMMA SetCopy ==
  ASSUME NEW c \in Local, NEW v \in Data, NEW d, d = [c EXCEPT !.copy = v]
  PROVE  /\ d \in Local /\ d.copy = v
         /\ d.at = c.at /\ d.then = c.then /\ d.user = c.user
         /\ d.remember = c.remember /\ d.sid = c.sid /\ d.todo = c.todo BY DEF Local

LEMMA SetTodo ==
  ASSUME NEW c \in Local, NEW v \in SUBSET Row, NEW d, d = [c EXCEPT !.todo = v]
  PROVE  /\ d \in Local /\ d.todo = v
         /\ d.at = c.at /\ d.then = c.then /\ d.user = c.user
         /\ d.remember = c.remember /\ d.sid = c.sid /\ d.copy = c.copy BY DEF Local
-----------------------------------------------------------------------------
(* The effects steps have, one variable at a time.                          *)
LEMMA GotoFacts ==
  ASSUME ThreadsTyped, NEW t \in Tabs, NEW k \in Threads, NEW d \in Local, Goto(t, k, d)
  PROVE  /\ thread' \in [Tabs -> [Threads -> Local]]
         /\ thread'[t][k] = d
         /\ \A u \in Tabs, j \in Threads :
              u # t \/ j # k => thread'[u][j] = thread[u][j]
<1>1. thread \in [Tabs -> [Threads -> Local]] BY DEF ThreadsTyped
<1> DEFINE f == [thread[t] EXCEPT ![k] = d]
<1>2. thread' = [thread EXCEPT ![t] = f] BY DEF Goto
<1>3. f \in [Threads -> Local] /\ f[k] = d /\ \A j \in Threads \ {k} : f[j] = thread[t][j] BY <1>1
<1> HIDE DEF f
<1> QED BY <1>1, <1>2, <1>3

LEMMA ShowFacts ==
  ASSUME TabsTyped, NEW t \in Tabs, NEW x \in Tab, tab' = [tab EXCEPT ![t] = x]
  PROVE  /\ tab' \in [Tabs -> Tab] /\ tab'[t] = x
         /\ \A u \in Tabs \ {t} : tab'[u] = tab[u] BY DEF TabsTyped

LEMMA GeneratedFacts ==
  ASSUME OriginTyped
  PROVE  /\ Len(origin) \in Nat /\ Generated = 1..Len(origin) /\ Generated \subseteq Sids
         /\ \A sid \in Generated : origin[sid] \in Birth
         /\ Nil \notin Generated /\ NewSid \notin Generated
<1>1. Len(origin) \in Nat /\ Generated = 1..Len(origin) BY DEF OriginTyped, Generated
<1>2. \A sid \in 1..Len(origin) : origin[sid] \in Birth BY DEF OriginTyped
<1>3. Generated \subseteq Sids BY <1>1, Constants DEF OriginTyped, Sids
<1>4. NewSid \notin Generated BY <1>1 DEF NewSid
<1> QED BY <1>1, <1>2, <1>3, <1>4, Constants

LEMMA GenerateFacts ==
  ASSUME OriginTyped, NEW user \in Users, NEW root \in 1..NewSid, Generate(user, root)
  PROVE  /\ OriginTyped'
         /\ Generated' = Generated \cup {NewSid}
         /\ \A sid \in Generated : origin'[sid] = origin[sid]
         /\ origin'[NewSid].user = user
         /\ NewSid \in Sids
<1> DEFINE b == [user |-> user, root |-> root]
<1>1. Len(origin) \in Nat /\ origin \in Seq(Birth) /\ NewSid = Len(origin) + 1
  BY GeneratedFacts DEF OriginTyped, NewSid
<1>2. b \in Birth /\ b.user = user /\ b.root = root BY <1>1 DEF Birth
<1>3. origin' = Append(origin, b) /\ NewSid \in Sids BY DEF Generate
<1> HIDE DEF b
<1>4. /\ origin' \in Seq(Birth) /\ Len(origin') = Len(origin) + 1
      /\ \A i \in 1..Len(origin) : origin'[i] = origin[i]
      /\ origin'[Len(origin) + 1] = b BY <1>1, <1>2, <1>3, AppendProperties
<1>5. DOMAIN origin' = 1..(Len(origin) + 1) BY <1>4, <1>1
<1>6. Generated' = Generated \cup {NewSid} BY <1>1, <1>5, GeneratedFacts DEF Generated
<1>7. Len(origin') <= MaxSid BY <1>1, <1>3, <1>4, Constants DEF Sids
<1>8. ASSUME NEW sid \in DOMAIN origin' PROVE origin'[sid].root \in 1..sid
  <2>1. CASE sid \in 1..Len(origin)
    BY <2>1, <1>1, <1>4, GeneratedFacts DEF OriginTyped, Root, Generated
  <2>2. CASE sid = Len(origin) + 1 BY <2>2, <1>1, <1>2, <1>4
  <2> QED BY <2>1, <2>2, <1>1, <1>5, <1>8
<1>9. OriginTyped' BY <1>4, <1>7, <1>8 DEF OriginTyped, Root, Generated
<1> QED BY <1>1, <1>2, <1>3, <1>4, <1>6, <1>9, GeneratedFacts

(* What a step leaves alone, or only removes, stays typed.                  *)
LEMMA Kept ==
  ASSUME TypeInv, OriginTyped', Generated \subseteq Generated'
  PROVE  /\ rows' \subseteq rows => RowsTyped'
         /\ tab' = tab => TabsTyped'
         /\ thread' = thread => ThreadsTyped'
         /\ inbox' = inbox => InboxTyped'
         /\ ended' = ended /\ reloads' = reloads /\ now' = now => RestTyped'
<1>1. rows' \subseteq rows => RowsTyped' BY DEF TypeInv, RowsTyped
<1>2. tab' = tab => TabsTyped' BY DEF TypeInv, TabsTyped
<1>3. thread' = thread => ThreadsTyped'
  <2>1. ASSUME thread' = thread, NEW t \in Tabs, NEW k \in Threads
        PROVE  LocalTyped(thread[t][k])' BY <2>1 DEF TypeInv, ThreadsTyped, LocalTyped
  <2> QED BY <2>1 DEF TypeInv, ThreadsTyped
<1>4. inbox' = inbox => InboxTyped' BY DEF TypeInv, InboxTyped
<1>5. ended' = ended /\ reloads' = reloads /\ now' = now => RestTyped' BY DEF TypeInv, RestTyped
<1> QED BY <1>1, <1>2, <1>3, <1>4, <1>5

LEMMA SameOrigin ==
  ASSUME OriginTyped, origin' = origin
  PROVE  OriginTyped' /\ Generated' = Generated BY DEF OriginTyped, Generated, Root

LEMMA ThreadStep ==
  ASSUME TypeInv, Generated \subseteq Generated',
         NEW t \in Tabs, NEW k \in Threads, NEW d, LocalTyped(d), Goto(t, k, d)
  PROVE  ThreadsTyped'
<1>0. d \in Local BY DEF LocalTyped
<1>1. /\ thread' \in [Tabs -> [Threads -> Local]]
      /\ thread'[t][k] = d
      /\ \A u \in Tabs, j \in Threads : u # t \/ j # k => thread'[u][j] = thread[u][j]
  BY <1>0, GotoFacts DEF TypeInv
<1>2. ASSUME NEW u \in Tabs, NEW j \in Threads PROVE LocalTyped(thread[u][j])'
  <2>1. LocalTyped(thread[u][j]) BY DEF TypeInv, ThreadsTyped
  <2>2. thread'[u][j] = d \/ thread'[u][j] = thread[u][j] BY <1>1
  <2> QED BY <2>1, <2>2 DEF LocalTyped
<1> QED BY <1>1, <1>2 DEF ThreadsTyped

LEMMA PostStep ==
  ASSUME TypeInv, NEW t \in Tabs, NEW m \in Message, Post(t, m)
  PROVE  InboxTyped' BY DEF TypeInv, InboxTyped, Post

LEMMA SomeThread ==
  ASSUME TypeInv, NEW t \in Tabs, NEW k \in Threads
  PROVE  LocalTyped(thread[t][k]) /\ tab[t] \in Tab /\ tab[t].current \in Generated \cup {Nil}
         /\ tab[t].info \in Data \cup {Nil} /\ tab[t].current \in Sids \cup {Nil}
         /\ tab[t].auth \in BOOLEAN BY DEF TypeInv, ThreadsTyped, TabsTyped, Tab
-----------------------------------------------------------------------------
(* Where threads go.                                                        *)
LEMMA SelfFacts ==
  ASSUME TypeInv, NEW t \in Tabs, NEW k \in Threads, NEW label \in Labels,
         label \in {"enforcing", "ending", "device"} => thread[t][k].then = "login",
         NEW d, d = Self(t, k, label)
  PROVE  LET c == thread[t][k] IN
         /\ LocalTyped(d) /\ d.at = label /\ d.then = c.then /\ d.user = c.user
         /\ d.remember = c.remember /\ d.sid = c.sid /\ d.copy = c.copy /\ d.todo = c.todo
<1>1. LocalTyped(thread[t][k]) BY SomeThread
<1>2. d = [thread[t][k] EXCEPT !.at = label] BY DEF Self
<1> QED BY <1>1, <1>2, SetAt DEF LocalTyped

LEMMA IdleTyped == ASSUME TypeInv PROVE LocalTyped(Idle) BY IdleLocal DEF LocalTyped

LEMMA BeginEndFacts ==
  ASSUME TypeInv, NEW t \in Tabs, NEW k \in Threads, NEW c, LocalTyped(c),
         BeginEnd(t, k, c)
  PROVE  /\ tab[t].current \in Generated /\ tab[t].current # Nil
         /\ \/ /\ rows' = Without(tab[t].current)
               /\ ended' = ended \cup {tab[t].current}
            \/ rows' = rows /\ ended' = ended
         /\ \E d \in Local :
              /\ Goto(t, k, d) /\ LocalTyped(d)
              /\ d.at = "removed" /\ d.sid = tab[t].current
              /\ d.then = c.then /\ d.user = c.user /\ d.todo = c.todo
<1> DEFINE d1 == [c EXCEPT !.at = "removed"]
           d == [c EXCEPT !.at = "removed", !.sid = tab[t].current]
<1>0. tab[t].current \in Generated /\ tab[t].current \in Sids \cup {Nil} BY SomeThread DEF BeginEnd
<1>1. d = [d1 EXCEPT !.sid = tab[t].current] BY Zenon DEF d, d1
<1>2. /\ d1 \in Local /\ d1.at = "removed"
      /\ d1.then = c.then /\ d1.user = c.user /\ d1.todo = c.todo
  <2>1. c \in Local /\ "removed" \in Labels BY DEF LocalTyped, Labels
  <2> QED BY <2>1, SetAt
<1>3. Goto(t, k, d) BY DEF BeginEnd
<1> HIDE DEF d, d1
<1>4. /\ d \in Local /\ d.at = "removed" /\ d.sid = tab[t].current
      /\ d.then = c.then /\ d.user = c.user /\ d.todo = c.todo BY <1>0, <1>1, <1>2, SetSid
<1>5. LocalTyped(d) BY <1>4 DEF LocalTyped
<1> QED BY <1>0, <1>3, <1>4, <1>5 DEF BeginEnd

LEMMA SpreadFacts ==
  ASSUME NEW i \in Data \cup {Nil}
  PROVE  Spread(i) \in Data /\ (i # Nil => Spread(i) = i) BY Constants DEF Spread

LEMMA PersistFacts ==
  ASSUME TypeInv, NEW t \in Tabs, NEW k \in Threads, NEW c, LocalTyped(c),
         NEW i \in Data \cup {Nil}, Persist(t, k, c, i)
  PROVE  \E d \in Local :
           /\ Goto(t, k, d) /\ LocalTyped(d)
           /\ d.at = "putting" /\ d.copy = Spread(i)
           /\ d.then = c.then /\ d.user = c.user /\ d.todo = c.todo
<1> DEFINE d1 == [c EXCEPT !.at = "putting"]
           d == [c EXCEPT !.at = "putting", !.copy = Spread(i)]
<1>1. d = [d1 EXCEPT !.copy = Spread(i)] BY Zenon DEF d, d1
<1>2. /\ d1 \in Local /\ d1.at = "putting"
      /\ d1.then = c.then /\ d1.user = c.user /\ d1.todo = c.todo
  <2>1. c \in Local /\ "putting" \in Labels BY DEF LocalTyped, Labels
  <2> QED BY <2>1, SetAt
<1>3. Goto(t, k, d) BY DEF Persist
<1> HIDE DEF d, d1
<1>4. /\ d \in Local /\ d.at = "putting" /\ d.copy = Spread(i)
      /\ d.then = c.then /\ d.user = c.user /\ d.todo = c.todo BY <1>1, <1>2, SetCopy, SpreadFacts
<1>5. LocalTyped(d) BY <1>4 DEF LocalTyped
<1> QED BY <1>3, <1>4, <1>5

(* The threads of calls that start with the rows found.                     *)
LEMMA RowsFoundFacts ==
  ASSUME TypeInv, NEW found \in SUBSET rows,
         NEW label \in {"restoring", "opening", "cleaning"}
  PROVE  LET d == [Idle EXCEPT !.at = label, !.todo = found] IN
         LocalTyped(d) /\ d.at = label /\ d.then = "return" /\ d.todo = found
<1> DEFINE d == [Idle EXCEPT !.at = label, !.todo = found]
           a == [Idle EXCEPT !.at = label]
<1>1. d = [a EXCEPT !.todo = found] BY Zenon DEF d, a
<1> HIDE DEF d
<1>2. \A r \in found : r.sid \in Generated BY DEF TypeInv, RowsTyped
<1>0. found \in SUBSET Row BY DEF TypeInv, RowsTyped
<1>3. a \in Local /\ a.at = label /\ a.then = "return" BY IdleLocal, SetAt DEF Labels
<1> HIDE DEF a
<1>4. d \in Local /\ d.at = label /\ d.then = "return" /\ d.todo = found
  BY <1>1, <1>3, SetTodo, <1>0
<1>8. LocalTyped(d) BY <1>2, <1>4 DEF LocalTyped
<1> QED BY <1>4, <1>8 DEF d

LEMMA SweepFoundFacts ==
  ASSUME TypeInv, NEW found \in SUBSET rows, NEW user \in Users
  PROVE  LET d == [Idle EXCEPT !.at = "sweeping", !.user = user,
                               !.then = "logoutAll", !.todo = found]
         IN
         LocalTyped(d) /\ d.at = "sweeping" /\ d.then = "logoutAll" /\ d.user = user
         /\ d.todo = found
<1> DEFINE d == [Idle EXCEPT !.at = "sweeping", !.user = user,
                             !.then = "logoutAll", !.todo = found]
           a == [Idle EXCEPT !.at = "sweeping"]
           b == [a EXCEPT !.user = user]
           c == [b EXCEPT !.then = "logoutAll"]
<1>1. d = [c EXCEPT !.todo = found] BY Zenon DEF d, a, b, c
<1> HIDE DEF d
<1>2. \A r \in found : r.sid \in Generated BY DEF TypeInv, RowsTyped
<1>0. found \in SUBSET Row BY DEF TypeInv, RowsTyped
<1>3. a \in Local /\ a.at = "sweeping" BY IdleLocal, SetAt DEF Labels
<1> HIDE DEF a
<1>4. b \in Local /\ b.at = "sweeping" /\ b.user = user BY <1>3, SetUser
<1> HIDE DEF b
<1>5. c \in Local /\ c.at = "sweeping" /\ c.user = user /\ c.then = "logoutAll"
  BY <1>4, SetThen DEF Thens
<1> HIDE DEF c
<1>6. d \in Local /\ d.at = "sweeping" /\ d.user = user /\ d.then = "logoutAll"
      /\ d.todo = found BY <1>1, <1>5, SetTodo, <1>0
<1>8. LocalTyped(d) BY <1>2, <1>6 DEF LocalTyped
<1> QED BY <1>6, <1>8 DEF d

LoginThread(user, remember, found) ==
  [Idle EXCEPT !.at = "enforcing", !.user = user, !.remember = remember,
               !.then = "login", !.todo = found]

LEMMA LoginFoundFacts ==
  ASSUME TypeInv, NEW found \in SUBSET rows, NEW user \in Users, NEW remember \in BOOLEAN
  PROVE  LET d == LoginThread(user, remember, found) IN
         LocalTyped(d) /\ d.at = "enforcing" /\ d.then = "login" /\ d.user = user
         /\ d.todo = found
<1> DEFINE d == LoginThread(user, remember, found)
           a == [Idle EXCEPT !.at = "enforcing"]
           b == [a EXCEPT !.user = user]
           c == [b EXCEPT !.remember = remember]
           e == [c EXCEPT !.then = "login"]
<1>1. d = [e EXCEPT !.todo = found] BY Zenon DEF d, a, b, c, e, LoginThread
<1> HIDE DEF d
<1>2. \A r \in found : r.sid \in Generated BY DEF TypeInv, RowsTyped
<1>0. found \in SUBSET Row BY DEF TypeInv, RowsTyped
<1>3. a \in Local /\ a.at = "enforcing" BY IdleLocal, SetAt DEF Labels
<1> HIDE DEF a
<1>4. b \in Local /\ b.at = "enforcing" /\ b.user = user BY <1>3, SetUser
<1> HIDE DEF b
<1>5. c \in Local /\ c.at = "enforcing" /\ c.user = user BY <1>4, SetRemember
<1> HIDE DEF c
<1>6. e \in Local /\ e.at = "enforcing" /\ e.user = user /\ e.then = "login"
  BY <1>5, SetThen DEF Thens
<1> HIDE DEF e
<1>7. d \in Local /\ d.at = "enforcing" /\ d.user = user /\ d.then = "login"
      /\ d.todo = found BY <1>1, <1>6, SetTodo, <1>0
<1>8. LocalTyped(d) BY <1>2, <1>7 DEF LocalTyped
<1> QED BY <1>7, <1>8 DEF d
-----------------------------------------------------------------------------
(* What a tab shows after a step.                                           *)
Shows(t, current, info, auth) ==
  /\ tab' \in [Tabs -> Tab]
  /\ tab'[t].current = current /\ tab'[t].info = info /\ tab'[t].auth = auth
  /\ \A u \in Tabs \ {t} : tab'[u] = tab[u]

LEMMA ShowsTyped ==
  ASSUME TypeInv, Generated \subseteq Generated', NEW t \in Tabs,
         NEW c \in Generated' \cup {Nil}, NEW i, NEW a, Shows(t, c, i, a)
  PROVE  TabsTyped' BY DEF TypeInv, TabsTyped, Shows

LEMMA ShowsTab ==
  ASSUME TypeInv, NEW t \in Tabs, NEW x \in Tab, tab' = [tab EXCEPT ![t] = x]
  PROVE  Shows(t, x.current, x.info, x.auth) BY ShowFacts DEF TypeInv, Shows

LEMMA ShowsLoggedOut ==
  ASSUME TypeInv, NEW t \in Tabs, tab' = [tab EXCEPT ![t] = LoggedOut]
  PROVE  Shows(t, Nil, Nil, FALSE) BY ShowsTab, LoggedOutTab

LEMMA ShowsSame ==
  ASSUME TypeInv, NEW t \in Tabs, tab' = tab
  PROVE  Shows(t, tab[t].current, tab[t].info, tab[t].auth) BY DEF TypeInv, TabsTyped, Shows

LEMMA ShowsAuth ==
  ASSUME TypeInv, NEW t \in Tabs, NEW a \in BOOLEAN, tab' = [tab EXCEPT ![t].auth = a]
  PROVE  Shows(t, tab[t].current, tab[t].info, a)
<1> DEFINE x == [tab[t] EXCEPT !.auth = a]
<1>1. tab[t] \in Tab BY DEF TypeInv, TabsTyped
<1>2. /\ x \in Tab /\ x.auth = a
      /\ x.current = tab[t].current /\ x.info = tab[t].info BY <1>1 DEF Tab
<1>3. tab' = [tab EXCEPT ![t] = x] OBVIOUS
<1> HIDE DEF x
<1> QED BY <1>2, <1>3, ShowsTab

LEMMA ShowsKept ==
  ASSUME TypeInv, NEW t \in Tabs, NEW q \in BOOLEAN, tab' = [tab EXCEPT ![t].kept = q]
  PROVE  Shows(t, tab[t].current, tab[t].info, tab[t].auth) /\ tab'[t].kept = q
<1> DEFINE x == [tab[t] EXCEPT !.kept = q]
<1>1. tab[t] \in Tab BY DEF TypeInv, TabsTyped
<1>2. /\ x \in Tab /\ x.auth = tab[t].auth /\ x.kept = q
      /\ x.current = tab[t].current /\ x.info = tab[t].info BY <1>1 DEF Tab
<1>3. tab' = [tab EXCEPT ![t] = x] OBVIOUS
<1> HIDE DEF x
<1> QED BY <1>2, <1>3, ShowsTab, ShowFacts DEF TypeInv

LEMMA ShowsCurrent ==
  ASSUME TypeInv, NEW t \in Tabs, NEW s \in Sids, tab' = [tab EXCEPT ![t].current = s]
  PROVE  Shows(t, s, tab[t].info, tab[t].auth)
<1> DEFINE x == [tab[t] EXCEPT !.current = s]
<1>1. tab[t] \in Tab BY DEF TypeInv, TabsTyped
<1>2. /\ x \in Tab /\ x.auth = tab[t].auth
      /\ x.current = s /\ x.info = tab[t].info BY <1>1 DEF Tab
<1>3. tab' = [tab EXCEPT ![t] = x] OBVIOUS
<1> HIDE DEF x
<1> QED BY <1>2, <1>3, ShowsTab

LEMMA ShowsInfo ==
  ASSUME TypeInv, NEW t \in Tabs, NEW i \in Data, tab' = [tab EXCEPT ![t].info = i]
  PROVE  Shows(t, tab[t].current, i, tab[t].auth)
<1> DEFINE x == [tab[t] EXCEPT !.info = i]
<1>1. tab[t] \in Tab BY DEF TypeInv, TabsTyped
<1>2. /\ x \in Tab /\ x.auth = tab[t].auth
      /\ x.current = tab[t].current /\ x.info = i BY <1>1 DEF Tab
<1>3. tab' = [tab EXCEPT ![t] = x] OBVIOUS
<1> HIDE DEF x
<1> QED BY <1>2, <1>3, ShowsTab

LEMMA ShowsNew ==
  ASSUME TypeInv, NEW t \in Tabs, NEW s \in Sids,
         tab' = [tab EXCEPT ![t] = [LoggedOut EXCEPT !.current = s]]
  PROVE  Shows(t, s, Nil, FALSE)
<1> DEFINE x == [LoggedOut EXCEPT !.current = s]
<1>1. /\ x \in Tab /\ x.auth = FALSE /\ x.current = s /\ x.info = Nil BY DEF Tab, LoggedOut
<1> HIDE DEF x
<1>2. tab' = [tab EXCEPT ![t] = x] BY DEF x
<1> QED BY <1>1, <1>2, ShowsTab

(* A row becomes the tab's session.                                         *)
LEMMA ShowsRow ==
  ASSUME TypeInv, NEW t \in Tabs, NEW y \in Tab, NEW r \in Row,
         NEW base, (base = tab /\ y = tab[t]) \/ base = [tab EXCEPT ![t] = y],
         tab' = [base EXCEPT ![t].current = r.sid, ![t].info = r.info]
  PROVE  Shows(t, r.sid, r.info, y.auth)
<1> DEFINE x == [y EXCEPT !.current = r.sid, !.info = r.info]
           x1 == [y EXCEPT !.current = r.sid]
<1>0. r.sid \in Sids /\ r.info \in Data BY DEF Row
<1>1. x = [x1 EXCEPT !.info = r.info] BY Zenon DEF x, x1
<1>2. x1 \in Tab /\ x1.auth = y.auth /\ x1.current = r.sid BY <1>0 DEF Tab
<1>3. tab \in [Tabs -> Tab] BY DEF TypeInv, TabsTyped
<1>4. base[t] = y /\ base = [tab EXCEPT ![t] = y] BY <1>3
<1>5. tab' = [base EXCEPT ![t] = [base[t] EXCEPT !.current = r.sid, !.info = r.info]]
  BY Zenon, <1>3, <1>4
<1>6. tab' = [tab EXCEPT ![t] = x] BY <1>3, <1>4, <1>5
<1> HIDE DEF x, x1
<1>7. x \in Tab /\ x.auth = y.auth /\ x.current = r.sid /\ x.info = r.info
  BY <1>0, <1>1, <1>2 DEF Tab
<1> QED BY <1>6, <1>7, ShowsTab
-----------------------------------------------------------------------------
(* The session data steps write.                                            *)
LEMMA ExpiryFacts ==
  ASSUME TypeInv, NEW r \in BOOLEAN
  PROVE  Expiry(r) \in Nat /\ Expiry(r) >= now /\ now \in Nat
<1>1. now \in Nat BY DEF TypeInv, RestTyped
<1> QED BY <1>1, Constants DEF Expiry

LEMMA TouchedFacts ==
  ASSUME TypeInv, NEW i \in Info
  PROVE  Touched(i) \in Info /\ Touched(i).user = i.user
<1> DEFINE e == IF i.remember THEN Expiry(TRUE) ELSE i.expires
           i1 == [i EXCEPT !.last = now]
<1>1. now \in Nat /\ e \in Nat BY ExpiryFacts DEF Info
<1>2. Touched(i) = [i1 EXCEPT !.expires = e] BY DEF Touched, Info
<1> HIDE DEF e
<1>3. i1 \in Info /\ i1.user = i.user BY <1>1 DEF Info
<1> HIDE DEF i1
<1> QED BY <1>1, <1>2, <1>3 DEF Info

LEMMA FilledFacts ==
  ASSUME TypeInv, NEW s \in Sids \cup {Nil}, NEW user \in Users, NEW r \in BOOLEAN,
         NEW i, i = [sid |-> s, user |-> user, created |-> now, expires |-> Expiry(r),
                     last |-> now, rotated |-> now, remember |-> r]
  PROVE  i \in Info /\ i.user = user /\ ~ Expired(i)
<1>1. now \in Nat /\ Expiry(r) \in Nat /\ Expiry(r) >= now BY ExpiryFacts
<1>2. i \in Info /\ i.user = user /\ i.expires = Expiry(r) /\ i.last = now BY <1>1 DEF Info
<1>3. now - now = 0 /\ ~ (now > Expiry(r)) /\ ~ (0 > Timeout) BY <1>1, Constants
<1> QED BY <1>2, <1>3 DEF Expired

LEMMA DataUser ==
  ASSUME NEW i \in Data, i # Empty
  PROVE  i \in Info /\ i.user \in Users BY DEF Data, Info

Turned(x, n, m) == [x EXCEPT !.current = n, !.info.sid = n, !.info.rotated = m]
TurnedInfo(i, n, m) == [i EXCEPT !.sid = n, !.rotated = m]
TabOf(s, i, a, q) == [current |-> s, info |-> i, auth |-> a, kept |-> q]

LEMMA TurnedRecord ==
  ASSUME NEW s, NEW i, NEW a, NEW q, NEW n, NEW m
  PROVE  Turned(TabOf(s, i, a, q), n, m) = TabOf(n, TurnedInfo(i, n, m), a, q)
<1> DEFINE y == TabOf(s, i, a, q)
<1>0. y = [current |-> s, info |-> i, auth |-> a, kept |-> q] BY DEF TabOf
<1> HIDE DEF y
<1> DEFINE j == [i EXCEPT !.sid = n]
           l == [j EXCEPT !.rotated = m]
           y1 == [y EXCEPT !.current = n]
           y2 == [y1 EXCEPT !.info = j]
           y3 == [y2 EXCEPT !.info = l]
<1>1. y1 = [current |-> n, info |-> i, auth |-> a, kept |-> q] BY <1>0
<1>2. y1.info = i BY <1>1
<1> HIDE DEF j
<1>3. y2 = [current |-> n, info |-> j, auth |-> a, kept |-> q] /\ y2.info = j
  <2> HIDE DEF y1
  <2> QED BY <1>1
<1> HIDE DEF l
<1>4. y3 = [current |-> n, info |-> l, auth |-> a, kept |-> q]
  <2> HIDE DEF y2
  <2> QED BY <1>3
<1>5. [y EXCEPT !.current = n, !.info.sid = n, !.info.rotated = m]
      = [[y1 EXCEPT !.info = [y1.info EXCEPT !.sid = n]] EXCEPT
           !.info = [[y1 EXCEPT !.info = [y1.info EXCEPT !.sid = n]].info EXCEPT
                       !.rotated = m]] BY Zenon DEF y1
<1>6. @ = y3
  <2> HIDE DEF y1
  <2>1. [y1 EXCEPT !.info = [y1.info EXCEPT !.sid = n]] = y2 BY Zenon, <1>2 DEF j, y2
  <2> QED BY Zenon, <1>3, <2>1 DEF l, y3
<1>7. l = [i EXCEPT !.sid = n, !.rotated = m] BY Zenon DEF l, j
<1>8. Turned(y, n, m) = [current |-> n, info |-> [i EXCEPT !.sid = n, !.rotated = m],
                         auth |-> a, kept |-> q] BY Zenon, <1>4, <1>5, <1>6, <1>7 DEF Turned
<1> QED BY Zenon, <1>8 DEF y, TabOf, TurnedInfo

LEMMA RotateFacts ==
  ASSUME TypeInv, NEW t \in Tabs, NEW k \in Threads, NEW c, LocalTyped(c),
         tab[t].current # Nil, Rotate(t, k, c)
  PROVE  /\ OriginTyped' /\ NewSid \in Sids /\ NewSid \notin Generated
         /\ Generated' = Generated \cup {NewSid}
         /\ \A sid \in Generated : origin'[sid] = origin[sid]
         /\ origin'[NewSid].user = tab[t].info.user
         /\ tab[t].info \in Info /\ tab[t].current \in Generated
         /\ rows' = Without(tab[t].current) \/ rows' = rows
         /\ \E d \in Local :
              /\ Goto(t, k, d) /\ LocalTyped(d)
              /\ d.at \in {"rotating", "refused"}
              /\ d.then = c.then /\ d.user = c.user /\ d.todo = c.todo
         /\ \E i \in Info :
              /\ Shows(t, NewSid, i, tab[t].auth)
              /\ i.user = tab[t].info.user
              /\ i.expires = tab[t].info.expires /\ i.last = tab[t].info.last
<1> DEFINE n == NewSid
           i1 == [tab[t].info EXCEPT !.sid = n]
           i == [i1 EXCEPT !.rotated = now]
           x1 == [tab[t] EXCEPT !.current = n]
           x == [x1 EXCEPT !.info = i]
<1> PICK l \in {"rotating", "refused"} :
             /\ Goto(t, k, [c EXCEPT !.at = l])
             /\ rows' = Without(tab[t].current) \/ rows' = rows BY DEF Rotate
<1> DEFINE d == [c EXCEPT !.at = l]
<1>0. /\ tab[t].current \in Generated /\ tab[t].info \in Data \cup {Nil}
      /\ tab[t].auth \in BOOLEAN /\ tab[t] \in Tab BY SomeThread
<1>1. tab[t].info \in Info /\ tab[t].info.user \in Users BY <1>0, DataUser DEF Rotate
<1>2. Root(tab[t].current) \in 1..NewSid
  <2>1. /\ Len(origin) \in Nat /\ Generated = 1..Len(origin)
        /\ Root(tab[t].current) \in 1..tab[t].current
    BY <1>0, GeneratedFacts DEF TypeInv, OriginTyped
  <2> QED BY <1>0, <2>1 DEF NewSid
<1>3. Generate(tab[t].info.user, Root(tab[t].current)) BY DEF Rotate
<1>4. /\ OriginTyped' /\ n \in Sids /\ n \notin Generated
      /\ Generated' = Generated \cup {n}
      /\ \A sid \in Generated : origin'[sid] = origin[sid]
      /\ origin'[n].user = tab[t].info.user
  BY <1>1, <1>2, <1>3, GenerateFacts, GeneratedFacts DEF TypeInv
<1>5. now \in Nat BY ExpiryFacts
<1>6. tab \in [Tabs -> Tab] BY DEF TypeInv, TabsTyped
<1>7. tab' = [tab EXCEPT ![t] = x]
  <2>1. tab' = [tab EXCEPT ![t].current = n, ![t].info.sid = n, ![t].info.rotated = now]
    BY DEF Rotate
  <2> HIDE DEF n
  <2>2. tab' = [tab EXCEPT ![t] = [tab[t] EXCEPT !.current = n, !.info.sid = n,
                                                 !.info.rotated = now]] BY <1>6, <2>1
  <2>3. tab[t] = [current |-> tab[t].current, info |-> tab[t].info, auth |-> tab[t].auth,
               kept |-> tab[t].kept] BY <1>0 DEF Tab
  <2>4. [tab[t] EXCEPT !.current = n, !.info.sid = n, !.info.rotated = now]
        = [current |-> n, info |-> [tab[t].info EXCEPT !.sid = n, !.rotated = now],
           auth |-> tab[t].auth, kept |-> tab[t].kept]
    <3>1. tab[t] = TabOf(tab[t].current, tab[t].info, tab[t].auth, tab[t].kept)
      BY Zenon, <2>3 DEF TabOf
    <3>2. Turned(tab[t], n, now) = TabOf(n, TurnedInfo(tab[t].info, n, now), tab[t].auth,
                                        tab[t].kept)
      <4>1. Turned(TabOf(tab[t].current, tab[t].info, tab[t].auth, tab[t].kept), n, now)
            = TabOf(n, TurnedInfo(tab[t].info, n, now), tab[t].auth, tab[t].kept) BY TurnedRecord
      <4> QED BY <3>1, <4>1
    <3> QED BY Zenon, <3>2 DEF Turned, TurnedInfo, TabOf
  <2>5. [tab[t].info EXCEPT !.sid = n, !.rotated = now] = i BY Zenon DEF i, i1
  <2>6. x = [current |-> n, info |-> i, auth |-> tab[t].auth, kept |-> tab[t].kept]
    <3> HIDE DEF i
    <3>1. x1 = [current |-> n, info |-> tab[t].info, auth |-> tab[t].auth,
                kept |-> tab[t].kept] BY <2>3 DEF x1
    <3> HIDE DEF x1
    <3> QED BY <3>1 DEF x
  <2> QED BY <2>2, <2>4, <2>5, <2>6
<1>8. c \in Local /\ l \in Labels BY DEF LocalTyped, Labels
<1>9. Goto(t, k, d) /\ (rows' = Without(tab[t].current) \/ rows' = rows) OBVIOUS
<1> HIDE DEF n, d
<1>10. /\ i1 \in Info /\ i1.user = tab[t].info.user
       /\ i1.expires = tab[t].info.expires /\ i1.last = tab[t].info.last BY <1>1, <1>4 DEF Info
<1> HIDE DEF i1
<1>11. /\ i \in Info /\ i.user = tab[t].info.user
       /\ i.expires = tab[t].info.expires /\ i.last = tab[t].info.last BY <1>5, <1>10 DEF Info
<1> HIDE DEF i
<1>12. x1 \in Tab /\ x1.current = n /\ x1.auth = tab[t].auth BY <1>0, <1>4 DEF Tab
<1> HIDE DEF x1
<1>13. x \in Tab /\ x.current = n /\ x.auth = tab[t].auth /\ x.info = i
  BY <1>11, <1>12 DEF Tab, Data
<1> HIDE DEF x
<1>14. Shows(t, n, i, tab[t].auth) BY <1>7, <1>13, ShowsTab
<1>15. /\ d \in Local /\ LocalTyped(d) /\ d.at = l
       /\ d.then = c.then /\ d.user = c.user /\ d.todo = c.todo
  <2>1. d = [c EXCEPT !.at = l] BY DEF d
  <2> QED BY <1>8, <2>1, SetAt DEF LocalTyped
<1>16. /\ \E e \in Local :
              /\ Goto(t, k, e) /\ LocalTyped(e)
              /\ e.at \in {"rotating", "refused"}
              /\ e.then = c.then /\ e.user = c.user /\ e.todo = c.todo
       /\ \E j \in Info :
              /\ Shows(t, n, j, tab[t].auth)
              /\ j.user = tab[t].info.user
              /\ j.expires = tab[t].info.expires /\ j.last = tab[t].info.last
  BY <1>9, <1>11, <1>14, <1>15
<1> QED BY <1>0, <1>1, <1>4, <1>9, <1>16 DEF n
-----------------------------------------------------------------------------
(* What each operation does to thread and tab, and that types survive it.   *)
LEMMA ParkedTyped ==
  ASSUME TypeInv, NEW t \in Tabs, NEW k \in Threads, NEW d, LocalTyped(d), Goto(t, k, d),
         rows' \subseteq rows, UNCHANGED <<tab, origin, reloads, now>>,
         ended' \subseteq Generated, InboxTyped'
  PROVE  TypeInv'
<1>1. OriginTyped' /\ Generated' = Generated BY SameOrigin DEF TypeInv
<1>2. ThreadsTyped' BY <1>1, ThreadStep
<1>3. RowsTyped' /\ TabsTyped' BY <1>1, Kept
<1>4. RestTyped' BY <1>1 DEF TypeInv, RestTyped
<1> QED BY <1>1, <1>2, <1>3, <1>4 DEF TypeInv

LEMMA ShownTyped ==
  ASSUME TypeInv, NEW t \in Tabs, NEW k \in Threads, NEW d, LocalTyped(d), Goto(t, k, d),
         rows' \subseteq rows, OriginTyped', Generated \subseteq Generated',
         NEW c \in Generated' \cup {Nil}, NEW i, NEW a, Shows(t, c, i, a),
         UNCHANGED <<ended, reloads, now>>, InboxTyped'
  PROVE  TypeInv'
<1>2. ThreadsTyped' BY ThreadStep
<1>3. RowsTyped' /\ TabsTyped' /\ RestTyped' BY Kept, ShowsTyped
<1> QED BY <1>2, <1>3 DEF TypeInv

LEMMA SameInbox == ASSUME TypeInv, inbox' = inbox PROVE InboxTyped' BY DEF TypeInv, InboxTyped

LEMMA EndAnnouncesTyped ==
  ASSUME TypeInv, NEW t \in Tabs, NEW k \in Threads, EndAnnounces(t, k)
  PROVE  TypeInv'
<1> DEFINE d == Self(t, k, "audited")
<1>1. LocalTyped(d) BY SelfFacts DEF Labels
<1>2. InboxTyped'
  <2>1. [type |-> "SESSION_ENDED", sid |-> thread[t][k].sid] \in Message
    BY SomeThread DEF LocalTyped, Local, Message
  <2> QED BY <2>1, PostStep DEF EndAnnounces
<1>3. Goto(t, k, d) /\ rows' = rows /\ UNCHANGED <<tab, origin, reloads, now>> /\ ended' = ended
  BY DEF EndAnnounces
<1>4. ended' \subseteq Generated BY <1>3 DEF TypeInv, RestTyped
<1> HIDE DEF d
<1> QED BY <1>1, <1>2, <1>3, <1>4, ParkedTyped

LEMMA EndReturnsTyped ==
  ASSUME TypeInv, NEW t \in Tabs, NEW k \in Threads,
         EndReturns(t, k) \/ EndThenLogoutAll(t, k)
  PROVE  TypeInv' /\ Shows(t, Nil, Nil, FALSE) /\ Goto(t, k, Idle)
<1>1. Shows(t, Nil, Nil, FALSE) BY ShowsLoggedOut DEF EndReturns, EndThenLogoutAll
<1>2. Goto(t, k, Idle) /\ UNCHANGED <<rows, origin, ended, reloads, now>>
  BY DEF EndReturns, EndThenLogoutAll
<1>3. InboxTyped'
  <2>1. [type |-> "LOGOUT_ALL", sid |-> Nil] \in Message BY DEF Message
  <2> QED BY <2>1, PostStep, SameInbox DEF EndReturns, EndThenLogoutAll
<1>4. OriginTyped' /\ Generated' = Generated BY <1>2, SameOrigin DEF TypeInv
<1> QED BY <1>1, <1>2, <1>3, <1>4, IdleTyped, ShownTyped

(* A session id is generated for the user who logs in.                      *)
LEMMA NewLoginFacts ==
  ASSUME TypeInv, NEW t \in Tabs, NEW k \in Threads,
         EndThenLogin(t, k) \/ (k = "command" /\ LoginWithoutOld(t))
  PROVE  /\ TypeInv'
         /\ NewSid \in Sids /\ NewSid \notin Generated
         /\ Generated' = Generated \cup {NewSid}
         /\ \A sid \in Generated : origin'[sid] = origin[sid]
         /\ origin'[NewSid].user = thread[t][k].user
         /\ \E d \in Local : /\ Goto(t, k, d) /\ LocalTyped(d) /\ d.at = "device"
                             /\ d.then = "login" /\ d.user = thread[t][k].user
                             /\ d.todo = thread[t][k].todo
         /\ \/ EndThenLogin(t, k) /\ Shows(t, NewSid, Nil, FALSE)
            \/ LoginWithoutOld(t) /\ Shows(t, NewSid, tab[t].info, tab[t].auth)
<1>0. thread[t][k].then = "login" /\ thread[t][k].user \in Users
  <2>1. thread[t][k].then = "login" \/ At(t, k, "ending") BY DEF EndThenLogin, LoginWithoutOld
  <2> QED BY <2>1, SomeThread DEF LocalTyped, At
<1>1. Generate(thread[t][k].user, NewSid) BY DEF EndThenLogin, LoginWithoutOld
<1>2. NewSid \in 1..NewSid /\ NewSid \notin Generated BY GeneratedFacts DEF NewSid, TypeInv
<1>3. /\ OriginTyped' /\ NewSid \in Sids
      /\ Generated' = Generated \cup {NewSid}
      /\ \A sid \in Generated : origin'[sid] = origin[sid]
      /\ origin'[NewSid].user = thread[t][k].user BY <1>0, <1>1, <1>2, GenerateFacts DEF TypeInv
<1> DEFINE d == Self(t, k, "device")
<1>4. /\ LocalTyped(d) /\ d.at = "device" /\ d.then = "login"
      /\ d.user = thread[t][k].user /\ d.todo = thread[t][k].todo BY <1>0, SelfFacts DEF Labels
<1>5. Goto(t, k, d) /\ UNCHANGED <<rows, inbox, ended, reloads, now>>
  BY DEF EndThenLogin, LoginWithoutOld
<1> HIDE DEF d
<1>6. \/ EndThenLogin(t, k) /\ Shows(t, NewSid, Nil, FALSE)
      \/ LoginWithoutOld(t) /\ Shows(t, NewSid, tab[t].info, tab[t].auth)
  <2>1. CASE EndThenLogin(t, k) BY <2>1, <1>3, ShowsNew DEF EndThenLogin
  <2>2. CASE LoginWithoutOld(t) BY <2>2, <1>3, ShowsCurrent DEF LoginWithoutOld
  <2> QED BY <2>1, <2>2
<1>7. InboxTyped' BY <1>5, SameInbox
<1>8. TypeInv' BY <1>3, <1>4, <1>5, <1>6, <1>7, ShownTyped
<1> QED BY <1>2, <1>3, <1>4, <1>5, <1>6, <1>8 DEF LocalTyped

LEMMA BeginEndTyped ==
  ASSUME TypeInv, NEW t \in Tabs, NEW k \in Threads, NEW c, LocalTyped(c),
         BeginEnd(t, k, c), UNCHANGED <<tab, inbox, origin, reloads, now>>
  PROVE  TypeInv'
<1>1. /\ tab[t].current \in Generated
      /\ \/ /\ rows' = Without(tab[t].current)
            /\ ended' = ended \cup {tab[t].current}
         \/ rows' = rows /\ ended' = ended
      /\ \E d \in Local : Goto(t, k, d) /\ LocalTyped(d) BY BeginEndFacts
<1>2. rows' \subseteq rows /\ ended' \subseteq Generated /\ InboxTyped'
  BY <1>1, SameInbox DEF Without, TypeInv, RestTyped
<1> QED BY <1>1, <1>2, ParkedTyped

(* A command that starts with the rows of a user.                           *)
LEMMA LoginFacts ==
  ASSUME TypeInv, NEW t \in Tabs, NEW user \in Users, NEW remember \in BOOLEAN,
         Login(t, user, remember)
  PROVE  /\ TypeInv'
         /\ \E d \in Local : /\ Goto(t, "command", d) /\ LocalTyped(d)
                             /\ d.at = "enforcing" /\ d.then = "login"
                             /\ d.user = user /\ d.todo = RowsOf(user)
<1> DEFINE d == LoginThread(user, remember, RowsOf(user))
<1>1. Goto(t, "command", d) /\ UNCHANGED <<rows, tab, inbox, origin, ended, reloads, now>>
  BY DEF Login, LoginThread
<1>2. RowsOf(user) \in SUBSET rows /\ "command" \in Threads BY DEF RowsOf, Threads
<1>3. LocalTyped(d) /\ d.at = "enforcing" /\ d.then = "login" /\ d.user = user
      /\ d.todo = RowsOf(user) BY <1>2, LoginFoundFacts
<1> HIDE DEF d
<1>4. TypeInv' BY <1>1, <1>2, <1>3, SameInbox, ParkedTyped DEF TypeInv, RestTyped
<1> QED BY <1>1, <1>3, <1>4 DEF LocalTyped

LEMMA LogoutAllFacts ==
  ASSUME TypeInv, NEW t \in Tabs, NEW user \in Users, LogoutAll(t, user)
  PROVE  /\ TypeInv'
         /\ \E d \in Local : /\ Goto(t, "command", d) /\ LocalTyped(d)
                             /\ d.at = "sweeping" /\ d.then = "logoutAll"
                             /\ d.user = user /\ d.todo = RowsOf(user)
<1> DEFINE d == [Idle EXCEPT !.at = "sweeping", !.user = user,
                             !.then = "logoutAll", !.todo = RowsOf(user)]
<1>1. Goto(t, "command", d) /\ UNCHANGED <<rows, tab, inbox, origin, ended, reloads, now>>
  BY DEF LogoutAll
<1>2. RowsOf(user) \in SUBSET rows /\ "command" \in Threads BY DEF RowsOf, Threads
<1>3. LocalTyped(d) /\ d.at = "sweeping" /\ d.then = "logoutAll" /\ d.user = user
      /\ d.todo = RowsOf(user) BY <1>2, SweepFoundFacts
<1> HIDE DEF d
<1>4. TypeInv' BY <1>1, <1>2, <1>3, SameInbox, ParkedTyped DEF TypeInv, RestTyped
<1> QED BY <1>1, <1>3, <1>4 DEF LocalTyped

LEMMA CleanupFacts ==
  ASSUME TypeInv, NEW t \in Tabs, Cleanup(t)
  PROVE  /\ TypeInv'
         /\ \E d \in Local :
              /\ Goto(t, "cleanup", d) /\ LocalTyped(d)
              /\ d.at = "cleaning" /\ d.then = "return"
              /\ d.todo = {r \in rows : r.info # Empty /\ r.info.expires < now}
<1> DEFINE old == {r \in rows : r.info # Empty /\ r.info.expires < now}
           d == [Idle EXCEPT !.at = "cleaning", !.todo = old]
<1>1. Goto(t, "cleanup", d) /\ UNCHANGED <<rows, tab, inbox, origin, ended, reloads, now>>
  BY DEF Cleanup
<1>2. old \in SUBSET rows /\ "cleanup" \in Threads BY DEF Threads
<1>3. LocalTyped(d) /\ d.at = "cleaning" /\ d.then = "return" /\ d.todo = old
  <2> HIDE DEF old
  <2> QED BY <1>2, RowsFoundFacts
<1> HIDE DEF d, old
<1>4. TypeInv' BY <1>1, <1>2, <1>3, SameInbox, ParkedTyped DEF TypeInv, RestTyped
<1>5. \E e \in Local : /\ Goto(t, "cleanup", e) /\ LocalTyped(e)
                       /\ e.at = "cleaning" /\ e.then = "return" /\ e.todo = old
  BY <1>1, <1>3 DEF LocalTyped
<1> QED BY <1>4, <1>5 DEF old

LEMMA EnforceLimitFacts ==
  ASSUME TypeInv, NEW t \in Tabs, EnforceLimit(t)
  PROVE  /\ TypeInv' /\ rows' \subseteq rows
         /\ \E d \in Local : /\ Goto(t, "command", d) /\ LocalTyped(d)
                             /\ d.at = "ending" /\ d.then = "login" /\ d.todo = {}
                             /\ d.user = thread[t]["command"].user
<1> DEFINE c == Self(t, "command", "ending")
           d == [c EXCEPT !.todo = {}]
<1>0. "command" \in Threads BY DEF Threads
<1>1. Goto(t, "command", d) /\ UNCHANGED <<tab, inbox, origin, ended, reloads, now>>
  BY DEF EnforceLimit
<1>2. rows' \subseteq rows BY DEF EnforceLimit, Without
<1>3. thread[t]["command"].then = "login" BY <1>0, SomeThread DEF EnforceLimit, At, LocalTyped
<1>4. /\ LocalTyped(c) /\ c.at = "ending" /\ c.then = "login"
      /\ c.user = thread[t]["command"].user BY <1>0, <1>3, SelfFacts DEF Labels
<1> HIDE DEF c
<1>5. /\ d \in Local /\ d.at = "ending" /\ d.then = "login" /\ d.todo = {}
      /\ d.user = thread[t]["command"].user
  <2>1. c \in Local /\ {} \in SUBSET Row BY <1>4 DEF LocalTyped
  <2> QED BY <1>4, <2>1, SetTodo
<1>6. LocalTyped(d) BY <1>4, <1>5 DEF LocalTyped
<1> HIDE DEF d
<1>7. TypeInv' BY <1>0, <1>1, <1>2, <1>6, SameInbox, ParkedTyped DEF TypeInv, RestTyped
<1> QED BY <1>1, <1>2, <1>5, <1>6, <1>7

LEMMA FillInfoFacts ==
  ASSUME TypeInv, NEW t \in Tabs, FillInfo(t)
  PROVE  LET c == thread[t]["command"] IN
         /\ TypeInv'
         /\ \E d \in Local : /\ Goto(t, "command", d) /\ LocalTyped(d)
                             /\ d.at = "encrypting" /\ d.then = "login"
                             /\ d.user = c.user /\ d.todo = c.todo
         /\ \E i \in Info : /\ Shows(t, tab[t].current, i, tab[t].auth)
                            /\ i.user = c.user /\ ~ Expired(i)
<1> DEFINE c == thread[t]["command"]
           d == Self(t, "command", "encrypting")
           i == [sid |-> tab[t].current, user |-> c.user, created |-> now,
                 expires |-> Expiry(c.remember), last |-> now, rotated |-> now,
                 remember |-> c.remember]
<1>0. "command" \in Threads BY DEF Threads
<1>1. /\ Goto(t, "command", d) /\ tab' = [tab EXCEPT ![t].info = i]
      /\ UNCHANGED <<rows, inbox, origin, ended, reloads, now>> BY DEF FillInfo
<1>2. c.then = "login" /\ c.user \in Users /\ c.remember \in BOOLEAN
  BY <1>0, SomeThread DEF FillInfo, At, LocalTyped, Local
<1>3. /\ LocalTyped(d) /\ d.at = "encrypting" /\ d.then = "login"
      /\ d.user = c.user /\ d.todo = c.todo BY <1>0, <1>2, SelfFacts DEF Labels
<1>4. i \in Info /\ i.user = c.user /\ ~ Expired(i)
  <2>1. tab[t].current \in Sids \cup {Nil} BY <1>0, SomeThread
  <2> HIDE DEF c
  <2>2. i = [sid |-> tab[t].current, user |-> c.user, created |-> now,
             expires |-> Expiry(c.remember), last |-> now, rotated |-> now,
             remember |-> c.remember]
    OBVIOUS
  <2> HIDE DEF i
  <2> QED BY <1>2, <2>1, <2>2, FilledFacts
<1> HIDE DEF d, i
<1>5. Shows(t, tab[t].current, i, tab[t].auth) BY <1>1, <1>4, ShowsInfo DEF Data
<1>6. TypeInv'
  <2>1. OriginTyped' /\ Generated' = Generated BY <1>1, SameOrigin DEF TypeInv
  <2>2. tab[t].current \in Generated' \cup {Nil} /\ InboxTyped' /\ rows' \subseteq rows
    BY <1>0, <1>1, <2>1, SomeThread, SameInbox
  <2> QED BY <1>0, <1>1, <1>3, <1>5, <2>1, <2>2, ShownTyped
<1> QED BY <1>1, <1>3, <1>4, <1>5, <1>6 DEF LocalTyped

LEMMA PersistTyped ==
  ASSUME TypeInv, NEW t \in Tabs, NEW k \in Threads, NEW c, LocalTyped(c),
         NEW i \in Data \cup {Nil}, Persist(t, k, c, i),
         UNCHANGED <<rows, inbox, origin, ended, reloads, now>>,
         NEW j, NEW a, Shows(t, tab[t].current, j, a)
  PROVE  TypeInv'
<1>1. PICK d \in Local : Goto(t, k, d) /\ LocalTyped(d) BY PersistFacts
<1>2. OriginTyped' /\ Generated' = Generated /\ InboxTyped' /\ rows' \subseteq rows
  BY SameOrigin, SameInbox DEF TypeInv
<1>3. tab[t].current \in Generated' \cup {Nil} BY <1>2, SomeThread
<1> QED BY <1>1, <1>2, <1>3, ShownTyped

LEMMA PersistNewFacts ==
  ASSUME TypeInv, NEW t \in Tabs, PersistNew(t)
  PROVE  LET c == thread[t]["command"] IN
         /\ TypeInv'
         /\ \E d \in Local : /\ Goto(t, "command", d) /\ LocalTyped(d)
                             /\ d.at = "putting" /\ d.copy = Spread(tab[t].info)
                             /\ d.then = "authenticate" /\ d.user = c.user
                             /\ d.todo = c.todo
<1> DEFINE c == thread[t]["command"]
           e == [c EXCEPT !.then = "authenticate"]
<1>0. "command" \in Threads BY DEF Threads
<1>1. LocalTyped(c) /\ tab[t].info \in Data \cup {Nil} /\ c.at = "encrypting"
  BY <1>0, SomeThread DEF PersistNew, At
<1>2. Persist(t, "command", e, tab[t].info)
      /\ UNCHANGED <<rows, tab, inbox, origin, ended, reloads, now>> BY DEF PersistNew
<1> HIDE DEF c
<1>3. /\ e \in Local /\ e.then = "authenticate" /\ e.at = "encrypting"
      /\ e.user = c.user /\ e.todo = c.todo
  <2>1. c \in Local /\ "authenticate" \in Thens BY <1>1 DEF LocalTyped, Thens
  <2> QED BY <1>1, <2>1, SetThen
<1>4. LocalTyped(e) BY <1>1, <1>3 DEF LocalTyped
<1> HIDE DEF e
<1>5. \E d \in Local :
           /\ Goto(t, "command", d) /\ LocalTyped(d)
           /\ d.at = "putting" /\ d.copy = Spread(tab[t].info)
           /\ d.then = e.then /\ d.user = e.user /\ d.todo = e.todo
  BY <1>0, <1>1, <1>2, <1>4, PersistFacts
<1>6. TypeInv'
  <2>1. Shows(t, tab[t].current, tab[t].info, tab[t].auth) BY <1>2, ShowsSame
  <2> QED BY <1>0, <1>1, <1>2, <1>4, <2>1, PersistTyped
<1>7. \E d \in Local :
           /\ Goto(t, "command", d) /\ LocalTyped(d)
           /\ d.at = "putting" /\ d.copy = Spread(tab[t].info)
           /\ d.then = "authenticate" /\ d.user = c.user /\ d.todo = c.todo BY <1>3, <1>5
<1> QED BY <1>6, <1>7 DEF c

LEMMA RotateStoresFacts ==
  ASSUME TypeInv, NEW t \in Tabs, NEW k \in Threads, RotateStores(t, k)
  PROVE  LET c == thread[t][k] IN
         /\ TypeInv'
         /\ \E d \in Local : /\ Goto(t, k, d) /\ LocalTyped(d)
                             /\ d.at = "putting" /\ d.copy = Spread(tab[t].info)
                             /\ d.then = c.then /\ d.user = c.user /\ d.todo = c.todo
<1>1. LocalTyped(thread[t][k]) /\ tab[t].info \in Data \cup {Nil} BY SomeThread
<1>2. Persist(t, k, thread[t][k], tab[t].info)
      /\ UNCHANGED <<rows, tab, inbox, origin, ended, reloads, now>> BY DEF RotateStores
<1>3. Shows(t, tab[t].current, tab[t].info, tab[t].auth) BY <1>2, ShowsSame
<1> QED BY <1>1, <1>2, <1>3, PersistTyped, PersistFacts

LEMMA PutFacts ==
  ASSUME TypeInv, NEW t \in Tabs, NEW k \in Threads, Put(t, k)
  PROVE  LET c == thread[t][k]
             row == [sid |-> tab[t].current, info |-> c.copy, last |-> now]
         IN
         /\ TypeInv'
         /\ tab[t].current \in Generated
         /\ rows' = Without(tab[t].current) \cup {row} /\ row \in Row
         /\ Shows(t, tab[t].current, tab[t].info, tab[t].auth)
         /\ \E d \in Local : /\ Goto(t, k, d) /\ LocalTyped(d)
                             /\ IF c.then = "return" THEN d = Idle
                                ELSE d.at = "stored" /\ d.then = c.then
                                     /\ d.user = c.user /\ d.todo = c.todo
<1> DEFINE c == thread[t][k]
           row == [sid |-> tab[t].current, info |-> c.copy, last |-> now]
           d == IF c.then = "return" THEN Idle ELSE Self(t, k, "stored")
<1>1. LocalTyped(c) /\ tab[t].current \in Generated \cup {Nil} BY SomeThread
<1>2. /\ Goto(t, k, d) /\ tab[t].current \in Sids
      /\ rows' = Without(tab[t].current) \cup {row}
      /\ UNCHANGED <<inbox, origin, ended, reloads, now>>
      /\ Shows(t, tab[t].current, tab[t].info, tab[t].auth) BY ShowsKept DEF Put, StoredKey
<1>3. tab[t].current \in Generated BY <1>1, <1>2, Constants
<1>4. row \in Row /\ row.sid = tab[t].current
  <2>1. c.copy \in Data /\ now \in Nat BY <1>1, ExpiryFacts DEF LocalTyped, Local
  <2> HIDE DEF c
  <2> QED BY <1>2, <2>1 DEF Row
<1>5. /\ LocalTyped(d)
      /\ IF c.then = "return" THEN d = Idle
         ELSE d.at = "stored" /\ d.then = c.then /\ d.user = c.user /\ d.todo = c.todo
  <2>1. CASE c.then = "return" BY <2>1, IdleTyped
  <2>2. CASE c.then # "return" BY <2>2, SelfFacts DEF Labels
  <2> QED BY <2>1, <2>2
<1> HIDE DEF c, row, d
<1>6. OriginTyped' /\ Generated' = Generated BY <1>2, SameOrigin DEF TypeInv
<1>7. RowsTyped' BY <1>2, <1>3, <1>4, <1>6 DEF TypeInv, RowsTyped, Without
<1>8. ThreadsTyped' BY <1>2, <1>5, <1>6, ThreadStep
<1>9. TabsTyped' /\ InboxTyped' /\ RestTyped' BY <1>1, <1>2, <1>6, ShowsTyped, Kept
<1>10. TypeInv' BY <1>6, <1>7, <1>8, <1>9 DEF TypeInv
<1>11. d \in Local BY <1>5 DEF LocalTyped
<1>12. \E e \in Local : /\ Goto(t, k, e) /\ LocalTyped(e)
                        /\ IF c.then = "return" THEN e = Idle
                           ELSE e.at = "stored" /\ e.then = c.then
                                /\ e.user = c.user /\ e.todo = c.todo BY <1>2, <1>5, <1>11
<1> QED BY <1>2, <1>3, <1>4, <1>10, <1>12 DEF c, row

LEMMA PutFailsTyped ==
  ASSUME TypeInv, NEW t \in Tabs, NEW k \in Threads, PutFails(t, k)
  PROVE  TypeInv'
<1>1. Goto(t, k, Idle) /\ UNCHANGED <<rows, tab, inbox, origin, ended, reloads, now>>
  BY DEF PutFails
<1>2. InboxTyped' /\ ended' \subseteq Generated BY <1>1, SameInbox DEF TypeInv, RestTyped
<1> QED BY <1>1, <1>2, IdleTyped, ParkedTyped

LEMMA RefusedTyped ==
  ASSUME TypeInv, NEW t \in Tabs, NEW k \in Threads, Refused(t, k)
  PROVE  /\ TypeInv' /\ Goto(t, k, Idle)
         /\ Shows(t, tab[t].current, tab[t].info, tab[t].auth)
         /\ ended' \subseteq ended /\ UNCHANGED <<rows, origin, now>>
<1>1. /\ Goto(t, k, Idle) /\ UNCHANGED <<rows, inbox, origin, reloads, now>>
      /\ tab' = tab \/ tab' = [tab EXCEPT ![t].kept = FALSE]
      /\ ended' \subseteq ended BY DEF Refused
<1>2. Shows(t, tab[t].current, tab[t].info, tab[t].auth) BY <1>1, ShowsSame, ShowsKept
<1>3. OriginTyped' /\ Generated' = Generated /\ InboxTyped'
  BY <1>1, SameOrigin, SameInbox DEF TypeInv
<1>4. tab[t].current \in Generated' \cup {Nil} BY <1>3, SomeThread
<1>5. ThreadsTyped' BY <1>1, <1>3, IdleTyped, ThreadStep
<1>6. TabsTyped' BY <1>2, <1>3, <1>4, ShowsTyped
<1>7. RowsTyped' BY <1>1, <1>3, Kept
<1>8. RestTyped' BY <1>1, <1>3 DEF TypeInv, RestTyped
<1> QED BY <1>1, <1>2, <1>3, <1>5, <1>6, <1>7, <1>8 DEF TypeInv

(* The application learns that the tab is logged in.                        *)
LEMMA AuthFacts ==
  ASSUME TypeInv, NEW t \in Tabs, NEW k \in Threads,
         Authenticate(t, k) \/ (k = "command" /\ RestoreSucceeds(t))
  PROVE  TypeInv' /\ Shows(t, tab[t].current, tab[t].info, TRUE) /\ Goto(t, k, Idle)
<1>1. /\ Goto(t, k, Idle) /\ tab' = [tab EXCEPT ![t].auth = TRUE]
      /\ UNCHANGED <<rows, inbox, origin, ended, reloads, now>> BY DEF Authenticate, RestoreSucceeds
<1>2. Shows(t, tab[t].current, tab[t].info, TRUE) BY <1>1, ShowsAuth
<1>3. OriginTyped' /\ Generated' = Generated /\ InboxTyped'
  BY <1>1, SameOrigin, SameInbox DEF TypeInv
<1>4. tab[t].current \in Generated' \cup {Nil} BY <1>3, SomeThread
<1> QED BY <1>1, <1>2, <1>3, <1>4, IdleTyped, ShownTyped

LEMMA RefreshFacts ==
  ASSUME TypeInv, NEW t \in Tabs, Refresh(t)
  PROVE  /\ TypeInv'
         /\ tab[t].info \in Info
         /\ \E i \in Info :
              /\ Shows(t, tab[t].current, i, tab[t].auth) /\ i.user = tab[t].info.user
              /\ \E d \in Local : /\ Goto(t, "refresh", d) /\ LocalTyped(d)
                                  /\ d.at = "putting" /\ d.copy = i /\ d.then = "return"
                                  /\ d.todo = {}
<1> DEFINE i == Touched(tab[t].info)
<1>0. "refresh" \in Threads BY DEF Threads
<1>1. tab[t].info \in Info BY <1>0, SomeThread, DataUser DEF Refresh, HasSession
<1>2. i \in Info /\ i.user = tab[t].info.user /\ i \in Data /\ i # Nil
  BY <1>1, TouchedFacts, Constants DEF Data
<1>3. /\ tab' = [tab EXCEPT ![t].info = i] /\ Persist(t, "refresh", Idle, i)
      /\ UNCHANGED <<rows, inbox, origin, ended, reloads, now>> BY DEF Refresh
<1> HIDE DEF i
<1>4. Shows(t, tab[t].current, i, tab[t].auth) BY <1>2, <1>3, ShowsInfo
<1>5. TypeInv' BY <1>0, <1>2, <1>3, <1>4, IdleTyped, PersistTyped
<1>6. PICK d \in Local :
           /\ Goto(t, "refresh", d) /\ LocalTyped(d)
           /\ d.at = "putting" /\ d.copy = Spread(i)
           /\ d.then = Idle.then /\ d.user = Idle.user /\ d.todo = Idle.todo
  BY <1>0, <1>2, <1>3, IdleTyped, PersistFacts
<1>7. d.copy = i /\ d.then = "return" /\ d.todo = {} BY <1>2, <1>6, SpreadFacts, IdleLocal
<1> QED BY <1>1, <1>2, <1>4, <1>5, <1>6, <1>7

LEMMA RotateTyped ==
  ASSUME TypeInv, NEW t \in Tabs, NEW k \in Threads, NEW c, LocalTyped(c),
         tab[t].current # Nil, Rotate(t, k, c), UNCHANGED <<inbox, ended, reloads, now>>
  PROVE  TypeInv'
<1>1. /\ OriginTyped' /\ Generated' = Generated \cup {NewSid}
      /\ rows' = Without(tab[t].current) \/ rows' = rows BY RotateFacts
<1>2. PICK d \in Local : Goto(t, k, d) /\ LocalTyped(d) BY RotateFacts
<1>3. PICK i \in Info : Shows(t, NewSid, i, tab[t].auth) BY RotateFacts
<1>4. rows' \subseteq rows /\ InboxTyped' BY <1>1, SameInbox DEF Without
<1> QED BY <1>1, <1>2, <1>3, <1>4, ShownTyped

LEMMA SweepOneFacts ==
  ASSUME TypeInv, NEW t \in Tabs, SweepOne(t)
  PROVE  LET c == thread[t]["command"] IN
         /\ TypeInv'
         /\ \E r \in c.todo :
              /\ rows' = Without(r.sid) /\ ended' = ended \cup {r.sid}
              /\ \E d \in Local : /\ Goto(t, "command", d) /\ LocalTyped(d)
                                  /\ d.at = "sweeping" /\ d.then = c.then
                                  /\ d.user = c.user /\ d.todo = c.todo \ {r}
<1> DEFINE c == thread[t]["command"]
<1>0. "command" \in Threads BY DEF Threads
<1>1. LocalTyped(c) /\ c.at = "sweeping" BY <1>0, SomeThread DEF SweepOne, At
<1>2. PICK r \in c.todo :
        /\ rows' = Without(r.sid) /\ ended' = ended \cup {r.sid}
        /\ Goto(t, "command", [c EXCEPT !.todo = @ \ {r}]) BY DEF SweepOne
<1>3. UNCHANGED <<tab, inbox, origin, reloads, now>> BY DEF SweepOne
<1> DEFINE v == c.todo \ {r}
           d == [c EXCEPT !.todo = v]
<1>4. Goto(t, "command", d) BY Zenon, <1>2
<1> HIDE DEF c
<1>5. v \in SUBSET Row BY <1>1 DEF LocalTyped, Local
<1> HIDE DEF v
<1>6. c \in Local BY <1>1 DEF LocalTyped
<1>7. /\ d \in Local /\ d.at = "sweeping" /\ d.then = c.then
      /\ d.user = c.user /\ d.todo = v BY <1>1, <1>5, <1>6, SetTodo
<1> HIDE DEF d
<1>8. LocalTyped(d) BY <1>1, <1>7 DEF LocalTyped, v
<1>9. rows' \subseteq rows /\ ended' \subseteq Generated
  BY <1>1, <1>2 DEF Without, TypeInv, RestTyped, LocalTyped
<1>10. TypeInv' BY <1>0, <1>3, <1>4, <1>8, <1>9, SameInbox, ParkedTyped
<1>11. \E e \in Local : /\ Goto(t, "command", e) /\ LocalTyped(e)
                        /\ e.at = "sweeping" /\ e.then = c.then
                        /\ e.user = c.user /\ e.todo = c.todo \ {r} BY <1>4, <1>7, <1>8 DEF v
<1> QED BY <1>2, <1>10, <1>11 DEF c

LEMMA CleanOneFacts ==
  ASSUME TypeInv, NEW t \in Tabs, CleanOne(t)
  PROVE  LET c == thread[t]["cleanup"] IN
         /\ TypeInv'
         /\ \E r \in c.todo :
              /\ rows' = Without(r.sid)
              /\ \E d \in Local : /\ Goto(t, "cleanup", d) /\ LocalTyped(d)
                                  /\ \/ d = Idle
                                     \/ d.at = "cleaning" /\ d.then = c.then
                                        /\ d.todo \subseteq c.todo \ {r}
<1> DEFINE c == thread[t]["cleanup"]
<1>0. "cleanup" \in Threads BY DEF Threads
<1>1. LocalTyped(c) /\ c.at = "cleaning" BY <1>0, SomeThread DEF CleanOne, At
<1>2. PICK r \in c.todo :
        /\ rows' = Without(r.sid)
        /\ Goto(t, "cleanup", IF c.todo \ {r} = {} THEN Idle
                              ELSE [c EXCEPT !.todo = c.todo \ {r}]) BY DEF CleanOne
<1>3. UNCHANGED <<tab, inbox, origin, ended, reloads, now>> BY DEF CleanOne
<1> DEFINE v == c.todo \ {r}
           e == [c EXCEPT !.todo = v]
           d == IF v = {} THEN Idle ELSE e
<1>4. Goto(t, "cleanup", d) BY Zenon, <1>2
<1> HIDE DEF c
<1>5. v \in SUBSET Row BY <1>1 DEF LocalTyped, Local
<1> HIDE DEF v
<1>6. c \in Local BY <1>1 DEF LocalTyped
<1>7. e \in Local /\ e.at = "cleaning" /\ e.then = c.then /\ e.user = c.user /\ e.todo = v
  BY <1>1, <1>5, <1>6, SetTodo
<1> HIDE DEF e
<1>8. LocalTyped(e) BY <1>1, <1>7 DEF LocalTyped, v
<1>9. /\ LocalTyped(d) /\ d \in Local
      /\ \/ d = Idle
         \/ d.at = "cleaning" /\ d.then = c.then /\ d.todo \subseteq v
  <2>1. d = Idle \/ d = e OBVIOUS
  <2>2. e.todo \subseteq v BY <1>7
  <2> HIDE DEF d
  <2>3. d \in Local BY <1>7, <2>1, IdleLocal
  <2>4. LocalTyped(d) BY <1>8, <2>1, IdleTyped
  <2> QED BY <1>7, <2>1, <2>2, <2>3, <2>4
<1> HIDE DEF d
<1>10. rows' \subseteq rows /\ ended' \subseteq Generated
  BY <1>2, <1>3 DEF Without, TypeInv, RestTyped
<1>11. TypeInv' BY <1>0, <1>3, <1>4, <1>9, <1>10, SameInbox, ParkedTyped
<1>12. \E f \in Local : /\ Goto(t, "cleanup", f) /\ LocalTyped(f)
                        /\ \/ f = Idle
                           \/ f.at = "cleaning" /\ f.then = c.then
                              /\ f.todo \subseteq c.todo \ {r} BY <1>4, <1>9 DEF v
<1> QED BY <1>2, <1>11, <1>12 DEF c

LEMMA SweepReturnsTyped ==
  ASSUME TypeInv, NEW t \in Tabs, SweepReturns(t)
  PROVE  TypeInv'
<1>0. "command" \in Threads BY DEF Threads
<1>1. Goto(t, "command", Idle) /\ UNCHANGED <<rows, tab, origin, ended, reloads, now>>
  BY DEF SweepReturns
<1>2. InboxTyped'
  <2>1. [type |-> "LOGOUT_ALL", sid |-> Nil] \in Message BY DEF Message
  <2> QED BY <2>1, PostStep DEF SweepReturns
<1>3. ended' \subseteq Generated BY <1>1 DEF TypeInv, RestTyped
<1> QED BY <1>0, <1>1, <1>2, <1>3, IdleTyped, ParkedTyped

LEMMA DeliverFacts ==
  ASSUME TypeInv, NEW t \in Tabs, Deliver(t)
  PROVE  /\ TypeInv'
         /\ \/ Shows(t, Nil, Nil, FALSE)
            \/ Shows(t, tab[t].current, tab[t].info, tab[t].auth)
<1>1. UNCHANGED <<rows, thread, origin, ended, reloads, now>> BY DEF Deliver
<1>2. \/ Shows(t, Nil, Nil, FALSE)
      \/ Shows(t, tab[t].current, tab[t].info, tab[t].auth) BY ShowsSame, ShowsLoggedOut DEF Deliver
<1>3. OriginTyped' /\ Generated' = Generated BY <1>1, SameOrigin DEF TypeInv
<1>4. TabsTyped'
  <2>1. tab[t].current \in Generated' \cup {Nil} BY <1>3 DEF TypeInv, TabsTyped
  <2> QED BY <1>2, <1>3, <2>1, ShowsTyped
<1>5. RowsTyped' /\ ThreadsTyped' /\ RestTyped' BY <1>1, <1>3, Kept
<1>6. InboxTyped'
  <2>1. inbox \in [Tabs -> Seq(Message)] /\ inbox[t] # <<>>
        /\ inbox' = [inbox EXCEPT ![t] = Tail(inbox[t])] BY DEF TypeInv, InboxTyped, Deliver
  <2>2. Tail(inbox[t]) \in Seq(Message) BY <2>1
  <2> QED BY <2>1, <2>2 DEF InboxTyped
<1> QED BY <1>2, <1>3, <1>4, <1>5, <1>6 DEF TypeInv

LEMMA ReloadFacts ==
  ASSUME TypeInv, NEW t \in Tabs, Reload(t)
  PROVE  /\ TypeInv' /\ Shows(t, Nil, Nil, FALSE)
         /\ \A u \in Tabs \ {t} : thread'[u] = thread[u]
         /\ \A k \in Threads :
              LET d == thread'[t][k] IN
              \/ d = Idle
              \/ k = "command" /\ rows # {} /\ d.at = "restoring" /\ d.then = "return"
                 /\ d.todo = rows
<1> DEFINE busy == [Idle EXCEPT !.at = "restoring", !.todo = rows]
           f == [k \in Threads |-> IF k = "command" /\ rows # {} THEN busy ELSE Idle]
<1>1. /\ thread' = [thread EXCEPT ![t] = f] /\ tab' = [tab EXCEPT ![t] = LoggedOut]
      /\ inbox' = [inbox EXCEPT ![t] = <<>>]
      /\ reloads < MaxReloads /\ reloads' = reloads + 1
      /\ UNCHANGED <<rows, origin, ended, now>> BY DEF Reload
<1>2. LocalTyped(busy) /\ busy.at = "restoring" /\ busy.then = "return" /\ busy.todo = rows
  BY RowsFoundFacts
<1> HIDE DEF busy
<1>3. \A k \in Threads : f[k] = Idle \/ (k = "command" /\ rows # {} /\ f[k] = busy) OBVIOUS
<1>4. f \in [Threads -> Local] BY <1>2, IdleLocal DEF LocalTyped
<1> HIDE DEF f
<1>5. thread \in [Tabs -> [Threads -> Local]] BY DEF TypeInv, ThreadsTyped
<1>6. /\ thread' \in [Tabs -> [Threads -> Local]] /\ thread'[t] = f
      /\ \A u \in Tabs \ {t} : thread'[u] = thread[u] BY <1>1, <1>4, <1>5
<1>7. OriginTyped' /\ Generated' = Generated BY <1>1, SameOrigin DEF TypeInv
<1>8. ThreadsTyped'
  <2>1. ASSUME NEW u \in Tabs, NEW k \in Threads PROVE LocalTyped(thread[u][k])'
    <3>1. LocalTyped(thread[u][k]) BY SomeThread
    <3>2. thread'[u][k] = thread[u][k] \/ thread'[u][k] = Idle \/ thread'[u][k] = busy BY <1>3, <1>6
    <3> QED BY <1>2, <1>7, <3>1, <3>2, IdleTyped DEF LocalTyped
  <2> QED BY <1>6, <2>1 DEF ThreadsTyped
<1>9. Shows(t, Nil, Nil, FALSE) BY <1>1, ShowsLoggedOut
<1>10. TabsTyped' BY <1>7, <1>9, ShowsTyped
<1>11. RowsTyped' BY <1>1, <1>7, Kept
<1>12. InboxTyped' BY <1>1 DEF TypeInv, InboxTyped
<1>13. RestTyped' BY <1>1, <1>7, Constants DEF TypeInv, RestTyped
<1>14. TypeInv' BY <1>7, <1>8, <1>10, <1>11, <1>12, <1>13 DEF TypeInv
<1>15. \A k \in Threads :
         LET d == thread'[t][k] IN
         \/ d = Idle
         \/ k = "command" /\ rows # {} /\ d.at = "restoring" /\ d.then = "return"
            /\ d.todo = rows BY <1>2, <1>3, <1>6
<1> QED BY <1>6, <1>9, <1>14, <1>15

(* A turn of the restore's loop.                                            *)
LEMMA TryNextFacts ==
  ASSUME TypeInv, NEW t \in Tabs, NEW y \in Tab, y.current \in Generated \cup {Nil},
         NEW base, (base = tab /\ y = tab[t]) \/ base = [tab EXCEPT ![t] = y],
         TryNext(t, base), UNCHANGED <<inbox, origin, ended, reloads, now>>
  PROVE  LET todo == thread[t]["command"].todo IN
         /\ TypeInv'
         /\ \/ /\ todo = {} /\ rows' \in {{}, rows} /\ Shows(t, y.current, y.info, y.auth)
               /\ Goto(t, "command", Idle)
            \/ /\ rows' = rows
               /\ \E r \in todo :
                    /\ r \in Row /\ Shows(t, r.sid, r.info, y.auth)
                    /\ \E d \in Local : /\ Goto(t, "command", d) /\ LocalTyped(d)
                                        /\ d.at = "opening" /\ d.then = "return"
                                        /\ d.todo = todo \ {r}
<1> DEFINE todo == thread[t]["command"].todo
<1>0. "command" \in Threads BY DEF Threads
<1>1. OriginTyped' /\ Generated' = Generated /\ InboxTyped' BY SameOrigin, SameInbox DEF TypeInv
<1>2. todo \in SUBSET Row /\ \A r \in todo : r.sid \in Generated
  BY <1>0, SomeThread DEF LocalTyped, Local
<1>3. CASE todo = {} /\ rows' \in {{}, rows} /\ tab' = base /\ Goto(t, "command", Idle)
  <2>1. tab \in [Tabs -> Tab] BY DEF TypeInv, TabsTyped
  <2>2. tab' = [tab EXCEPT ![t] = y] BY <1>3, <2>1
  <2>3. Shows(t, y.current, y.info, y.auth) BY <2>2, ShowsTab
  <2>4. TypeInv' BY <1>0, <1>1, <1>3, <2>3, IdleTyped, ShownTyped
  <2> QED BY <1>3, <2>3, <2>4
<1>4. ASSUME NEW r \in todo,
             tab' = [base EXCEPT ![t].current = r.sid, ![t].info = r.info],
             Goto(t, "command", [Idle EXCEPT !.at = "opening", !.todo = todo \ {r}]),
             rows' = rows
      PROVE  /\ TypeInv'
             /\ r \in Row /\ Shows(t, r.sid, r.info, y.auth)
             /\ \E d \in Local : /\ Goto(t, "command", d) /\ LocalTyped(d)
                                 /\ d.at = "opening" /\ d.then = "return"
                                 /\ d.todo = todo \ {r}
  <2> DEFINE v == todo \ {r}
             a == [Idle EXCEPT !.at = "opening"]
             d == [a EXCEPT !.todo = v]
  <2>1. Goto(t, "command", d) BY Zenon, <1>4
  <2>2. r \in Row /\ r.sid \in Generated BY <1>2
  <2>3. v \in SUBSET Row /\ \A q \in v : q.sid \in Generated BY <1>2
  <2>4. Shows(t, r.sid, r.info, y.auth) BY <1>4, <2>2, ShowsRow
  <2>5. a \in Local /\ a.at = "opening" /\ a.then = "return" BY IdleLocal, SetAt DEF Labels
  <2> HIDE DEF v, a, todo
  <2>6. v \in SUBSET Row BY <2>3
  <2>7. d \in Local /\ d.at = "opening" /\ d.then = "return" /\ d.todo = v BY <2>5, <2>6, SetTodo
  <2> HIDE DEF d
  <2>8. LocalTyped(d) BY <2>3, <2>7 DEF LocalTyped
  <2>9. TypeInv' BY <1>0, <1>1, <1>4, <2>1, <2>2, <2>4, <2>8, ShownTyped
  <2> QED BY <2>1, <2>2, <2>4, <2>7, <2>8, <2>9 DEF v
<1>5. CASE \E r \in todo :
             /\ tab' = [base EXCEPT ![t].current = r.sid, ![t].info = r.info]
             /\ Goto(t, "command", [Idle EXCEPT !.at = "opening", !.todo = todo \ {r}])
             /\ rows' = rows BY <1>4, <1>5
<1>6. \/ todo = {} /\ rows' \in {{}, rows} /\ tab' = base /\ Goto(t, "command", Idle)
      \/ \E r \in todo :
             /\ tab' = [base EXCEPT ![t].current = r.sid, ![t].info = r.info]
             /\ Goto(t, "command", [Idle EXCEPT !.at = "opening", !.todo = todo \ {r}])
             /\ rows' = rows BY DEF TryNext
<1> QED BY <1>3, <1>5, <1>6

(* The locals with which a restore ends an expired session or rotates it.   *)
LEMMA RestoreLocals ==
  ASSUME TypeInv, NEW t \in Tabs, At(t, "command", "opening")
  PROVE  /\ LET d == [thread[t]["command"] EXCEPT !.then = "restoreNext"] IN
            LocalTyped(d) /\ d.then = "restoreNext" /\ d.todo = thread[t]["command"].todo
         /\ LET d == [Idle EXCEPT !.then = "restored"] IN
            LocalTyped(d) /\ d.then = "restored" /\ d.todo = {}
<1> DEFINE c == thread[t]["command"]
           d == [c EXCEPT !.then = "restoreNext"]
           e == [Idle EXCEPT !.then = "restored"]
<1>1. LocalTyped(c) /\ c.at = "opening" BY SomeThread DEF At, Threads
<1>2. c \in Local /\ "restoreNext" \in Thens /\ "restored" \in Thens BY <1>1 DEF LocalTyped, Thens
<1> HIDE DEF c
<1>3. d \in Local /\ d.then = "restoreNext" /\ d.at = "opening" /\ d.todo = c.todo
  BY <1>1, <1>2, SetThen
<1>4. e \in Local /\ e.then = "restored" /\ e.at = "idle" /\ e.todo = {} BY <1>2, IdleLocal, SetThen
<1> HIDE DEF d, e
<1>5. LocalTyped(d) /\ LocalTyped(e) BY <1>1, <1>3, <1>4 DEF LocalTyped
<1> QED BY <1>3, <1>4, <1>5 DEF c, d, e

LEMMA RestoreTyped ==
  ASSUME TypeInv, NEW t \in Tabs,
         \/ RestoreFirst(t) \/ RestoreSkips(t) \/ RestoreExpired(t)
         \/ EndThenRestore(t) \/ RestoreRotates(t)
  PROVE  TypeInv'
<1>0. "command" \in Threads /\ tab[t] \in Tab /\ tab[t].current \in Generated \cup {Nil}
  BY SomeThread DEF Threads
<1>1. CASE RestoreFirst(t) \/ RestoreSkips(t)
  BY <1>0, <1>1, TryNextFacts DEF RestoreFirst, RestoreSkips
<1>2. CASE EndThenRestore(t) BY <1>2, LoggedOutTab, TryNextFacts DEF EndThenRestore
<1>3. CASE RestoreExpired(t)
  <2> DEFINE d == [thread[t]["command"] EXCEPT !.then = "restoreNext"]
  <2>1. LocalTyped(d) BY <1>3, RestoreLocals DEF RestoreExpired
  <2>2. BeginEnd(t, "command", d) /\ UNCHANGED <<tab, inbox, origin, reloads, now>>
    BY <1>3 DEF RestoreExpired
  <2> HIDE DEF d
  <2> QED BY <1>0, <2>1, <2>2, BeginEndTyped
<1>4. CASE RestoreRotates(t)
  <2> DEFINE d == [Idle EXCEPT !.then = "restored"]
  <2>1. LocalTyped(d) BY <1>4, RestoreLocals DEF RestoreRotates
  <2>2. Rotate(t, "command", d) /\ UNCHANGED <<inbox, ended, reloads, now>>
        /\ tab[t].current # Nil BY <1>4 DEF RestoreRotates, HasSession
  <2> HIDE DEF d
  <2> QED BY <1>0, <2>1, <2>2, RotateTyped
<1> QED BY <1>1, <1>2, <1>3, <1>4

LEMMA StartTyped ==
  ASSUME TypeInv, NEW t \in Tabs, Start(t)
  PROVE  TypeInv'
<1>0. {"command", "refresh", "check", "cleanup"} \subseteq Threads BY DEF Threads
<1>1. CASE \E user \in Users, remember \in BOOLEAN : Login(t, user, remember) BY <1>1, LoginFacts
<1>2. CASE \E user \in Users : LogoutAll(t, user) BY <1>2, LogoutAllFacts
<1>3. CASE Logout(t) BY <1>0, <1>3, IdleTyped, BeginEndTyped DEF Logout
<1>4. CASE Refresh(t) BY <1>4, RefreshFacts
<1>5. CASE CheckExpires(t) BY <1>0, <1>5, IdleTyped, BeginEndTyped DEF CheckExpires
<1>6. CASE CheckRotates(t) BY <1>0, <1>6, IdleTyped, RotateTyped DEF CheckRotates, HasSession
<1>7. CASE Cleanup(t) BY <1>7, CleanupFacts
<1>8. CASE Reload(t) BY <1>8, ReloadFacts
<1> QED BY <1>1, <1>2, <1>3, <1>4, <1>5, <1>6, <1>7, <1>8 DEF Start

LEMMA CommandTyped ==
  ASSUME TypeInv, NEW t \in Tabs, CommandContinues(t)
  PROVE  TypeInv'
<1>0. "command" \in Threads /\ LocalTyped(thread[t]["command"]) BY SomeThread DEF Threads
<1>1. CASE EnforceLimit(t) BY <1>1, EnforceLimitFacts
<1>2. CASE LoginEndsOld(t) BY <1>0, <1>2, BeginEndTyped DEF LoginEndsOld
<1>3. CASE LoginWithoutOld(t) BY <1>0, <1>3, NewLoginFacts
<1>4. CASE FillInfo(t) BY <1>4, FillInfoFacts
<1>5. CASE PersistNew(t) BY <1>5, PersistNewFacts
<1>6. CASE SweepOne(t) BY <1>6, SweepOneFacts
<1>7. CASE SweepEndsOwn(t) BY <1>0, <1>7, BeginEndTyped DEF SweepEndsOwn
<1>8. CASE SweepReturns(t) BY <1>8, SweepReturnsTyped
<1>9. CASE \/ RestoreFirst(t) \/ RestoreSkips(t) \/ RestoreExpired(t)
           \/ EndThenRestore(t) \/ RestoreRotates(t) BY <1>9, RestoreTyped
<1>10. CASE RestoreSucceeds(t) BY <1>0, <1>10, AuthFacts
<1> QED BY <1>1, <1>2, <1>3, <1>4, <1>5, <1>6, <1>7, <1>8, <1>9, <1>10 DEF CommandContinues

LEMMA ContinueTyped ==
  ASSUME TypeInv, NEW t \in Tabs, NEW k \in Threads, Continue(t, k)
  PROVE  TypeInv'
<1>1. CASE EndAnnounces(t, k) BY <1>1, EndAnnouncesTyped
<1>2. CASE EndReturns(t, k) \/ EndThenLogoutAll(t, k) BY <1>2, EndReturnsTyped
<1>3. CASE EndThenLogin(t, k) BY <1>3, NewLoginFacts
<1>4. CASE RotateStores(t, k) BY <1>4, RotateStoresFacts
<1>5. CASE Put(t, k) BY <1>5, PutFacts
<1>6. CASE PutFails(t, k) \/ Refused(t, k) BY <1>6, PutFailsTyped, RefusedTyped
<1>7. CASE Authenticate(t, k) BY <1>7, AuthFacts
<1>8. CASE CommandContinues(t) BY <1>8, CommandTyped
<1>9. CASE CleanOne(t) BY <1>9, CleanOneFacts
<1> QED BY <1>1, <1>2, <1>3, <1>4, <1>5, <1>6, <1>7, <1>8, <1>9 DEF Continue

LEMMA TickTyped ==
  ASSUME TypeInv, Tick
  PROVE  TypeInv' /\ now' = now + 1
<1>1. now' = now + 1 /\ UNCHANGED <<rows, tab, thread, inbox, origin, ended, reloads>> BY DEF Tick
<1>2. OriginTyped' /\ Generated' = Generated BY <1>1, SameOrigin DEF TypeInv
<1>3. RowsTyped' /\ TabsTyped' /\ ThreadsTyped' /\ InboxTyped' BY <1>1, <1>2, Kept
<1>4. RestTyped' BY <1>1, <1>2 DEF TypeInv, RestTyped
<1> QED BY <1>1, <1>2, <1>3, <1>4 DEF TypeInv

LEMMA TypeStart == Init => TypeInv
<1> SUFFICES ASSUME Init PROVE TypeInv OBVIOUS
<1>1. rows = {} /\ origin = <<>> /\ ended = {} /\ reloads = 0 /\ now = 0 BY DEF Init
<1>2. DOMAIN origin = {} /\ Len(origin) = 0 /\ origin \in Seq(Birth) BY <1>1
<1>3. OriginTyped BY <1>2, Constants DEF OriginTyped, Generated
<1>4. TabsTyped BY LoggedOutTab DEF Init, TabsTyped
<1>5. ThreadsTyped
  <2>1. LocalTyped(Idle) BY IdleLocal DEF LocalTyped
  <2>2. \A t \in Tabs, k \in Threads : thread[t][k] = Idle BY DEF Init
  <2>3. thread \in [Tabs -> [Threads -> Local]] BY IdleLocal DEF Init
  <2> QED BY <2>1, <2>2, <2>3 DEF ThreadsTyped
<1>6. InboxTyped BY DEF Init, InboxTyped
<1>7. RowsTyped /\ RestTyped BY <1>1, Constants DEF RowsTyped, RestTyped
<1> QED BY <1>3, <1>4, <1>5, <1>6, <1>7 DEF TypeInv

LEMMA TypeStep ==
  ASSUME TypeInv, [Next]_vars
  PROVE  TypeInv'
<1>1. CASE \E t \in Tabs : Start(t) BY <1>1, StartTyped
<1>2. CASE \E t \in Tabs, k \in Threads : Continue(t, k) BY <1>2, ContinueTyped
<1>3. CASE \E t \in Tabs : Deliver(t) BY <1>3, DeliverFacts
<1>4. CASE Tick BY <1>4, TickTyped
<1>5. CASE UNCHANGED vars
  <2>1. UNCHANGED <<rows, tab, thread, inbox, origin, ended, reloads, now>> BY <1>5 DEF vars
  <2>2. OriginTyped' /\ Generated' = Generated BY <2>1, SameOrigin DEF TypeInv
  <2> QED BY <2>1, <2>2, Kept DEF TypeInv
<1> QED BY <1>1, <1>2, <1>3, <1>4, <1>5 DEF Next

LEMMA TypesHold == TypeInv => TypeOK
<1> SUFFICES ASSUME TypeInv PROVE TypeOK OBVIOUS
<1>1. \A r \in rows : r \in Row BY DEF TypeInv, RowsTyped
<1>2. ASSUME NEW t \in Tabs
      PROVE  /\ tab[t].current \in Sids \cup {Nil}
             /\ tab[t].info \in Data \cup {Nil} /\ {tab[t].auth, tab[t].kept} \subseteq BOOLEAN
  BY <1>2 DEF TypeInv, TabsTyped, Tab
<1>3. ASSUME NEW t \in Tabs, NEW k \in Threads
      PROVE  /\ thread[t][k].at \in Labels /\ thread[t][k].then \in Thens
             /\ thread[t][k].copy \in Data BY <1>3, SomeThread DEF LocalTyped, Local
<1>4. ASSUME NEW t \in Tabs, NEW i \in DOMAIN inbox[t]
      PROVE  inbox[t][i].type \in {"SESSION_ENDED", "LOGOUT_ALL"}
  <2>1. inbox[t] \in Seq(Message) BY DEF TypeInv, InboxTyped
  <2>2. inbox[t][i] \in Message BY <2>1, ElementOfSeq
  <2> QED BY <2>2 DEF Message
<1>5. ASSUME NEW sid \in Generated PROVE origin[sid].user \in Users /\ Root(sid) \in 1..sid
  <2>1. origin[sid] \in Birth BY GeneratedFacts DEF TypeInv
  <2> QED BY <2>1 DEF Birth, TypeInv, OriginTyped
<1>6. ended \subseteq Generated /\ reloads \in 0..MaxReloads BY DEF TypeInv, RestTyped
<1> QED BY <1>1, <1>2, <1>3, <1>4, <1>5, <1>6 DEF TypeOK

(* session_manager.js: rows, tabs, threads and messages hold what their     *)
(* fields are read as, a session id in the store or a tab was generated.    *)
THEOREM TypeCorrect == Spec => []TypeOK BY TypeStart, TypeStep, TypesHold, PTL DEF Spec
-----------------------------------------------------------------------------
(* Logins and logouts only, of any tabs.                                    *)
LoginsAndLogouts == Ops \subseteq {"login", "remember", "logout", "logoutAll", "refuse"}

Building(c) == c.at \in {"device", "encrypting", "putting"}

(* Until its row is stored the id of a new session is one tab's secret, and *)
(* what the login is about to store is the data of the id's user.           *)
Unborn(t) ==
  LET s == tab[t].current
      c == thread[t]["command"]
  IN
  /\ s \notin ended
  /\ \A r \in rows : r.sid # s
  /\ \A u \in Tabs, k \in Threads : \A r \in thread[u][k].todo : r.sid # s
  /\ \A u \in Tabs \ {t} : tab[u].current # s
  /\ origin[s].user = c.user
  /\ c.at = "encrypting" => tab[t].info \in Data /\ tab[t].info.user = c.user
  /\ c.at = "putting" => c.copy.user = c.user

LoginInv ==
  /\ \A t \in Tabs, k \in Threads \ {"command"} : thread[t][k].at = "idle"
  /\ \A t \in Tabs : thread[t]["command"].at # "rotating"
  /\ \A t \in Tabs :
       Building(thread[t]["command"]) /\ tab[t].current # Nil => Unborn(t)
  /\ EndedStaysEnded
  /\ RowsBelongToOwner

Secrets(t) == Building(thread[t]["command"]) /\ tab[t].current # Nil => Unborn(t)

(* A step of a tab's command that stores nothing leaves the other tabs'     *)
(* secrets, and the store, in order.                                       *)
Step(t, d) ==
  /\ \A u \in Tabs \ {t}, k \in Threads : thread'[u][k] = thread[u][k]
  /\ \A k \in Threads \ {"command"} : thread'[t][k] \in {thread[t][k], Idle}
  /\ thread'[t]["command"] = d
  /\ \A u \in Tabs \ {t} : tab'[u] = tab[u]
  /\ \A sid \in Generated : sid \in Generated' /\ origin'[sid] = origin[sid]
  /\ rows' \subseteq rows
  /\ \A r \in d.todo : r \in rows \/ r \in thread[t]["command"].todo

LEMMA Elsewhere ==
  ASSUME TypeInv, LoginInv, NEW t \in Tabs, NEW d, Step(t, d),
         \A sid \in ended' : \/ sid \in ended
                             \/ /\ \A r \in rows' : r.sid # sid
                                /\ \/ sid = tab[t].current
                                   \/ \E r \in thread[t]["command"].todo : sid = r.sid,
         \/ tab'[t].current \in {tab[t].current, Nil, NewSid}
         \/ \E r \in thread[t]["command"].todo : tab'[t].current = r.sid,
         d.at # "rotating", Secrets(t)'
  PROVE  LoginInv'
<1>0. "command" \in Threads BY DEF Threads
<1>1. ASSUME NEW u \in Tabs, NEW k \in Threads \ {"command"}
      PROVE  thread'[u][k].at = "idle" BY <1>1, IdleLocal DEF LoginInv, Step
<1>2. ASSUME NEW u \in Tabs \ {t},
             Building(thread'[u]["command"]), tab'[u].current # Nil
      PROVE  Unborn(u)'
  <2> DEFINE s == tab[u].current
             c == thread[u]["command"]
  <2>1. thread'[u]["command"] = c /\ tab'[u] = tab[u] /\ s # Nil /\ s \in Generated
    BY <1>0, <1>2 DEF Step, TypeInv, TabsTyped
  <2>2. Unborn(u) BY <1>2, <2>1 DEF LoginInv
  <2>3. tab[t].current # s /\ \A r \in thread[t]["command"].todo : r.sid # s
    BY <1>0, <2>2 DEF Unborn
  <2>4. s \notin ended' BY <2>2, <2>3 DEF Unborn
  <2>5. \A r \in rows' : r.sid # s BY <2>2 DEF Unborn, Step
  <2>6. ASSUME NEW w \in Tabs, NEW k \in Threads, NEW r \in thread'[w][k].todo
        PROVE  r.sid # s
    <3>1. CASE w # t BY <2>2, <2>6, <3>1 DEF Step, Unborn
    <3>2. CASE w = t /\ k # "command" BY <2>2, <2>6, <3>2, IdleLocal DEF Step, Unborn
    <3>3. CASE w = t /\ k = "command" BY <2>2, <2>3, <2>6, <3>3 DEF Step, Unborn
    <3> QED BY <3>1, <3>2, <3>3
  <2>7. NewSid # s BY <2>1, GeneratedFacts DEF TypeInv
  <2>8. tab'[t].current # s BY <2>1, <2>3, <2>7
  <2>9. ASSUME NEW w \in Tabs \ {u} PROVE tab'[w].current # s BY <2>2, <2>8, <2>9 DEF Step, Unborn
  <2>10. /\ origin'[s].user = c.user
         /\ c.at = "encrypting" => tab[u].info \in Data /\ tab[u].info.user = c.user
         /\ c.at = "putting" => c.copy.user = c.user BY <2>1, <2>2 DEF Unborn, Step
  <2> HIDE DEF s, c
  <2>11. tab'[u].current = s BY <2>1 DEF s
  <2> QED BY <2>1, <2>4, <2>5, <2>6, <2>9, <2>10, <2>11 DEF Unborn
<1>3. EndedStaysEnded' BY DEF EndedStaysEnded, LoginInv, Step
<1>4. RowsBelongToOwner'
  <2>1. \A r \in rows' : r \in rows /\ r.sid \in Generated BY DEF Step, TypeInv, RowsTyped
  <2> QED BY <2>1 DEF RowsBelongToOwner, LoginInv, Step
<1>5. ASSUME NEW u \in Tabs PROVE Secrets(u)'
  <2>1. CASE u = t BY <2>1
  <2>2. CASE u # t BY <1>2, <2>2 DEF Secrets
  <2> QED BY <2>1, <2>2
<1>6. \A u \in Tabs : (Building(thread[u]["command"]) /\ tab[u].current # Nil => Unborn(u))'
  BY <1>5 DEF Secrets
<1>7. \A u \in Tabs : thread'[u]["command"].at # "rotating" BY <1>0 DEF LoginInv, Step
<1> QED BY <1>1, <1>3, <1>4, <1>6, <1>7 DEF LoginInv

(* Nothing changes for a login that goes on.                                *)
LEMMA StillUnborn ==
  ASSUME TypeInv, LoginInv, NEW t \in Tabs, NEW d, Step(t, d), ended' = ended,
         tab'[t].current = tab[t].current, tab[t].current # Nil,
         Building(thread[t]["command"]), d.user = thread[t]["command"].user,
         d.at = "encrypting" => tab'[t].info \in Data /\ tab'[t].info.user = d.user,
         d.at = "putting" => d.copy.user = d.user
  PROVE  Unborn(t)'
<1> DEFINE s == tab[t].current
<1>0. "command" \in Threads /\ s \in Generated BY DEF Threads, TypeInv, TabsTyped
<1>1. Unborn(t) BY DEF LoginInv
<1>2. \A r \in rows' : r.sid # s BY <1>1 DEF Unborn, Step
<1>3. ASSUME NEW w \in Tabs, NEW k \in Threads, NEW r \in thread'[w][k].todo
      PROVE  r.sid # s
  <2>1. CASE w # t BY <1>1, <1>3, <2>1 DEF Step, Unborn
  <2>2. CASE w = t /\ k # "command" BY <1>1, <1>3, <2>2, IdleLocal DEF Step, Unborn
  <2>3. CASE w = t /\ k = "command" BY <1>0, <1>1, <1>3, <2>3 DEF Step, Unborn
  <2> QED BY <2>1, <2>2, <2>3
<1>4. \A w \in Tabs \ {t} : tab'[w].current # s BY <1>1 DEF Step, Unborn
<1>5. origin'[s].user = d.user /\ s \notin ended' /\ thread'[t]["command"] = d
  BY <1>0, <1>1 DEF Step, Unborn
<1> HIDE DEF s
<1>6. tab'[t].current = s BY DEF s
<1> QED BY <1>2, <1>3, <1>4, <1>5, <1>6 DEF Unborn

LEMMA CommandStep ==
  ASSUME TypeInv, NEW t \in Tabs, NEW d \in Local, Goto(t, "command", d),
         \A u \in Tabs \ {t} : tab'[u] = tab[u],
         \A sid \in Generated : sid \in Generated' /\ origin'[sid] = origin[sid],
         rows' \subseteq rows,
         \A r \in d.todo : r \in rows \/ r \in thread[t]["command"].todo
  PROVE  Step(t, d)
<1>1. "command" \in Threads BY DEF Threads
<1>2. /\ thread'[t]["command"] = d
      /\ \A u \in Tabs, j \in Threads :
           u # t \/ j # "command" => thread'[u][j] = thread[u][j] BY <1>1, GotoFacts DEF TypeInv
<1>3. \A u \in Tabs \ {t}, k \in Threads : thread'[u][k] = thread[u][k] BY <1>2
<1>4. \A k \in Threads \ {"command"} : thread'[t][k] \in {thread[t][k], Idle} BY <1>2
<1> QED BY <1>2, <1>3, <1>4 DEF Step

(* The command moves to a place where it builds nothing.                    *)
LEMMA PassesOn ==
  ASSUME TypeInv, LoginInv, NEW t \in Tabs, NEW d \in Local, Goto(t, "command", d),
         \A u \in Tabs \ {t} : tab'[u] = tab[u],
         tab'[t].current = tab[t].current \/ tab'[t].current = Nil,
         UNCHANGED <<origin, ended>>, rows' \subseteq rows,
         \A r \in d.todo : r \in rows \/ r \in thread[t]["command"].todo,
         ~ Building(d), d.at # "rotating"
  PROVE  LoginInv'
<1>1. Step(t, d)
  <2>1. \A sid \in Generated : sid \in Generated' /\ origin'[sid] = origin[sid] BY DEF Generated
  <2> QED BY <2>1, CommandStep
<1>2. Secrets(t)' BY <1>1 DEF Secrets, Step
<1> QED BY <1>1, <1>2, Elsewhere

LEMMA EndsOne ==
  ASSUME TypeInv, LoginInv, NEW t \in Tabs, NEW c, LocalTyped(c),
         c.todo = thread[t]["command"].todo \/ c.todo = {},
         BeginEnd(t, "command", c), UNCHANGED <<tab, inbox, origin, reloads, now>>
  PROVE  LoginInv'
<1>1. "command" \in Threads BY DEF Threads
<1>2. /\ \/ /\ rows' = Without(tab[t].current)
            /\ ended' = ended \cup {tab[t].current}
         \/ rows' = rows /\ ended' = ended
      /\ \E d \in Local :
              /\ Goto(t, "command", d) /\ LocalTyped(d)
              /\ d.at = "removed" /\ d.todo = c.todo BY <1>1, BeginEndFacts
<1>3. PICK d \in Local : Goto(t, "command", d) /\ d.at = "removed" /\ d.todo = c.todo BY <1>2
<1>4. /\ rows' \subseteq rows
      /\ ended' # ended => \A r \in rows' : r.sid # tab[t].current BY <1>2 DEF Without
<1>5. Step(t, d)
  <2>1. \A sid \in Generated : sid \in Generated' /\ origin'[sid] = origin[sid] BY DEF Generated
  <2> QED BY <1>3, <1>4, <2>1, CommandStep
<1>6. Secrets(t)' BY <1>3, <1>5 DEF Secrets, Step, Building
<1>7. d.at # "rotating" BY <1>3
<1> QED BY <1>2, <1>4, <1>5, <1>6, <1>7, Elsewhere

LEMMA NewLoginStep ==
  ASSUME TypeInv, LoginInv, NEW t \in Tabs,
         EndThenLogin(t, "command") \/ LoginWithoutOld(t)
  PROVE  LoginInv'
<1>0. "command" \in Threads BY DEF Threads
<1> DEFINE c == thread[t]["command"]
<1>1. /\ NewSid \in Sids /\ NewSid \notin Generated
      /\ Generated' = Generated \cup {NewSid}
      /\ \A sid \in Generated : origin'[sid] = origin[sid]
      /\ origin'[NewSid].user = c.user BY <1>0, NewLoginFacts
<1>2. PICK d \in Local : Goto(t, "command", d) /\ d.at = "device"
                         /\ d.user = c.user /\ d.todo = c.todo BY <1>0, NewLoginFacts
<1>3. tab'[t].current = NewSid /\ \A u \in Tabs \ {t} : tab'[u] = tab[u]
  BY <1>0, NewLoginFacts DEF Shows
<1>4. UNCHANGED <<rows, ended>> BY DEF EndThenLogin, LoginWithoutOld
<1>5. Step(t, d) BY <1>1, <1>2, <1>3, <1>4, CommandStep
<1>6. Unborn(t)'
  <2> DEFINE n == NewSid
  <2>1. n \notin ended' /\ \A r \in rows' : r.sid # n
    BY <1>1, <1>4 DEF TypeInv, RestTyped, RowsTyped
  <2>2. ASSUME NEW u \in Tabs, NEW k \in Threads, NEW r \in thread'[u][k].todo
        PROVE  r.sid # n
    <3>1. thread'[u][k] \in {thread[u][k], Idle, d} BY <1>5 DEF Step
    <3>2. \A q \in thread[u][k].todo : q.sid \in Generated BY SomeThread DEF LocalTyped
    <3>3. \A q \in d.todo : q.sid \in Generated BY <1>0, <1>2, SomeThread DEF LocalTyped
    <3> QED BY <1>1, <2>2, <3>1, <3>2, <3>3, IdleLocal
  <2>3. \A u \in Tabs \ {t} : tab'[u].current # n BY <1>1, <1>3, Constants DEF TypeInv, TabsTyped
  <2>4. thread'[t]["command"] = d BY <1>5 DEF Step
  <2>5. origin'[n].user = d.user BY <1>1, <1>2
  <2> HIDE DEF n
  <2>6. tab'[t].current = n BY <1>3 DEF n
  <2> QED BY <1>2, <2>1, <2>2, <2>3, <2>4, <2>5, <2>6 DEF Unborn
<1>7. Secrets(t)' /\ d.at # "rotating" BY <1>2, <1>6 DEF Secrets
<1>8. tab'[t].current \in {tab[t].current, Nil, NewSid} /\ \A sid \in ended' : sid \in ended
  BY <1>3, <1>4
<1> QED BY <1>5, <1>7, <1>8, Elsewhere

LEMMA FillInfoStep ==
  ASSUME TypeInv, LoginInv, NEW t \in Tabs, FillInfo(t)
  PROVE  LoginInv'
<1> DEFINE c == thread[t]["command"]
<1>1. PICK d \in Local : Goto(t, "command", d) /\ d.at = "encrypting"
                         /\ d.user = c.user /\ d.todo = c.todo BY FillInfoFacts
<1>2. PICK i \in Info : Shows(t, tab[t].current, i, tab[t].auth) /\ i.user = c.user BY FillInfoFacts
<1>3. /\ tab'[t].current = tab[t].current /\ tab'[t].info = i
      /\ \A u \in Tabs \ {t} : tab'[u] = tab[u] BY <1>2 DEF Shows
<1>4. UNCHANGED <<rows, origin, ended>> /\ c.at = "device" BY DEF FillInfo, At
<1>5. Step(t, d)
  <2>1. \A sid \in Generated : sid \in Generated' /\ origin'[sid] = origin[sid]
    BY <1>4 DEF Generated
  <2> QED BY <1>1, <1>3, <1>4, <2>1, CommandStep
<1>6. tab[t].current # Nil => Unborn(t)'
  <2>1. Building(c) /\ i \in Data BY <1>2, <1>4 DEF Building, Data
  <2>2. /\ d.at = "encrypting" => tab'[t].info \in Data /\ tab'[t].info.user = d.user
        /\ d.at # "putting" /\ d.user = c.user BY <1>1, <1>2, <1>3, <2>1
  <2> QED BY <1>3, <1>4, <1>5, <2>1, <2>2, StillUnborn
<1>7. Secrets(t)' /\ d.at # "rotating" BY <1>1, <1>3, <1>6 DEF Secrets
<1> QED BY <1>3, <1>4, <1>5, <1>7, Elsewhere

LEMMA PersistNewStep ==
  ASSUME TypeInv, LoginInv, NEW t \in Tabs, PersistNew(t)
  PROVE  LoginInv'
<1> DEFINE c == thread[t]["command"]
<1>1. PICK d \in Local : Goto(t, "command", d) /\ d.at = "putting"
                         /\ d.copy = Spread(tab[t].info)
                         /\ d.user = c.user /\ d.todo = c.todo BY PersistNewFacts
<1>2. UNCHANGED <<rows, tab, origin, ended>> /\ c.at = "encrypting" BY DEF PersistNew, At
<1>3. Step(t, d)
  <2>1. \A sid \in Generated : sid \in Generated' /\ origin'[sid] = origin[sid]
    BY <1>2 DEF Generated
  <2> QED BY <1>1, <1>2, <2>1, CommandStep
<1>4. tab[t].current # Nil => Unborn(t)'
  <2> SUFFICES ASSUME tab[t].current # Nil PROVE Unborn(t)' OBVIOUS
  <2>1. Building(c) BY <1>2 DEF Building
  <2>2. tab[t].info \in Data /\ tab[t].info.user = c.user BY <1>2, <2>1 DEF LoginInv, Unborn
  <2>3. d.copy.user = d.user /\ d.at # "encrypting" BY <1>1, <2>2, SpreadFacts, Constants
  <2> QED BY <1>1, <1>2, <1>3, <2>1, <2>3, StillUnborn
<1>5. Secrets(t)' /\ d.at # "rotating" BY <1>1, <1>2, <1>4 DEF Secrets
<1> QED BY <1>2, <1>3, <1>5, Elsewhere

(* A row is stored under an id nobody else could have ended.                *)
LEMMA PutStep ==
  ASSUME TypeInv, LoginInv, NEW t \in Tabs, Put(t, "command")
  PROVE  LoginInv'
<1> DEFINE c == thread[t]["command"]
           s == tab[t].current
           row == [sid |-> s, info |-> c.copy, last |-> now]
<1>0. "command" \in Threads BY DEF Threads
<1>1. /\ s \in Generated
      /\ rows' = Without(s) \cup {row} /\ row \in Row
      /\ UNCHANGED <<origin, ended>> /\ c.at = "putting"
      /\ tab'[t].current = s /\ tab'[t].info = tab[t].info
      /\ \A u \in Tabs \ {t} : tab'[u] = tab[u] BY <1>0, PutFacts DEF Put, At, Shows
<1>2. PICK d \in Local :
        /\ Goto(t, "command", d)
        /\ IF c.then = "return" THEN d = Idle
           ELSE d.at = "stored" /\ d.then = c.then /\ d.user = c.user /\ d.todo = c.todo
  BY <1>0, PutFacts
<1>3. /\ ~ Building(d) /\ d.at # "rotating"
      /\ \A r \in d.todo : r \in c.todo BY <1>2, IdleLocal DEF Building
<1>4. s # Nil /\ Unborn(t)
  <2>1. s # Nil BY <1>1, GeneratedFacts DEF TypeInv
  <2> QED BY <1>1, <2>1 DEF LoginInv, Building
<1>5. /\ s \notin ended /\ origin[s].user = c.user /\ c.copy.user = c.user
      /\ \A u \in Tabs \ {t} : tab[u].current # s
      /\ row.sid = s /\ row.info.user = c.user BY <1>1, <1>4 DEF Unborn
<1>6. /\ thread'[t]["command"] = d
      /\ \A u \in Tabs, j \in Threads :
           u # t \/ j # "command" => thread'[u][j] = thread[u][j]
  BY <1>0, <1>2, GotoFacts DEF TypeInv
<1> HIDE DEF row
<1>7. EndedStaysEnded' BY <1>1, <1>5 DEF EndedStaysEnded, LoginInv, Without
<1>8. RowsBelongToOwner'
  <2>1. \A r \in rows' : r = row \/ r \in rows BY <1>1 DEF Without
  <2> QED BY <1>1, <1>5, <2>1 DEF RowsBelongToOwner, LoginInv
<1>9. ASSUME NEW u \in Tabs, Building(thread'[u]["command"]), tab'[u].current # Nil
      PROVE  Unborn(u)'
  <2> DEFINE z == tab[u].current
  <2>1. u # t BY <1>3, <1>6, <1>9
  <2>2. thread'[u]["command"] = thread[u]["command"] /\ tab'[u] = tab[u] BY <1>0, <1>1, <1>6, <2>1
  <2>3. Unborn(u) BY <1>9, <2>2 DEF LoginInv
  <2>4. z # s BY <1>5, <2>1
  <2>5. \A r \in rows' : r.sid # z BY <1>1, <1>5, <2>3, <2>4 DEF Without, Unborn
  <2>6. ASSUME NEW w \in Tabs, NEW k \in Threads, NEW r \in thread'[w][k].todo
        PROVE  r.sid # z
    <3>1. r \in thread[w][k].todo BY <1>3, <1>6, <2>6
    <3> QED BY <2>3, <3>1 DEF Unborn
  <2>10. \A w \in Tabs : tab'[w].current = tab[w].current BY <1>1
  <2>7. /\ z \notin ended' /\ \A w \in Tabs \ {u} : tab'[w].current # z
        /\ origin'[z].user = thread[u]["command"].user BY <1>1, <2>3, <2>10 DEF Unborn
  <2>8. LET e == thread[u]["command"] IN
        /\ e.at = "encrypting" => tab'[u].info \in Data /\ tab'[u].info.user = e.user
        /\ e.at = "putting" => e.copy.user = e.user BY <2>2, <2>3 DEF Unborn
  <2> HIDE DEF z
  <2>9. tab'[u].current = z BY <2>2 DEF z
  <2> QED BY <2>2, <2>5, <2>6, <2>7, <2>8, <2>9 DEF Unborn
<1>10. \A u \in Tabs, k \in Threads \ {"command"} : thread'[u][k].at = "idle" BY <1>6 DEF LoginInv
<1>11. \A u \in Tabs : thread'[u]["command"].at # "rotating" BY <1>0, <1>3, <1>6 DEF LoginInv
<1> QED BY <1>7, <1>8, <1>9, <1>10, <1>11 DEF LoginInv

LEMMA SweepOneStep ==
  ASSUME TypeInv, LoginInv, NEW t \in Tabs, SweepOne(t)
  PROVE  LoginInv'
<1> DEFINE c == thread[t]["command"]
<1>1. PICK r \in c.todo :
              /\ rows' = Without(r.sid) /\ ended' = ended \cup {r.sid}
              /\ \E d \in Local : /\ Goto(t, "command", d)
                                  /\ d.at = "sweeping" /\ d.todo = c.todo \ {r} BY SweepOneFacts
<1>2. PICK d \in Local : Goto(t, "command", d) /\ d.at = "sweeping" /\ d.todo = c.todo \ {r} BY <1>1
<1>3. UNCHANGED <<tab, origin>> BY DEF SweepOne
<1>4. Step(t, d)
  <2>1. \A sid \in Generated : sid \in Generated' /\ origin'[sid] = origin[sid]
    BY <1>3 DEF Generated
  <2>2. rows' \subseteq rows BY <1>1 DEF Without
  <2> QED BY <1>2, <1>3, <2>1, <2>2, CommandStep
<1>5. \A sid \in ended' : \/ sid \in ended
                          \/ /\ \A q \in rows' : q.sid # sid
                             /\ \E q \in c.todo : sid = q.sid BY <1>1 DEF Without
<1>6. Secrets(t)' /\ d.at # "rotating" BY <1>2, <1>4 DEF Secrets, Step, Building
<1> QED BY <1>3, <1>4, <1>5, <1>6, Elsewhere

LEMMA DeliverStep ==
  ASSUME TypeInv, LoginInv, NEW t \in Tabs, Deliver(t)
  PROVE  LoginInv'
<1> DEFINE c == thread[t]["command"]
<1>1. UNCHANGED <<rows, thread, origin, ended>> BY DEF Deliver
<1>2. /\ \A u \in Tabs \ {t} : tab'[u] = tab[u]
      /\ \/ tab'[t].current = Nil
         \/ tab'[t].current = tab[t].current /\ tab'[t].info = tab[t].info BY DeliverFacts DEF Shows
<1>3. Step(t, c)
  <2>1. \A sid \in Generated : sid \in Generated' /\ origin'[sid] = origin[sid]
    BY <1>1 DEF Generated
  <2> QED BY <1>1, <1>2, <2>1 DEF Step
<1>4. Secrets(t)'
  <2> SUFFICES ASSUME Building(c), tab'[t].current # Nil PROVE Unborn(t)' BY <1>1 DEF Secrets
  <2>1. tab'[t].current = tab[t].current /\ tab'[t].info = tab[t].info /\ tab[t].current # Nil
    BY <1>2
  <2>2. /\ c.at = "encrypting" => tab[t].info \in Data /\ tab[t].info.user = c.user
        /\ c.at = "putting" => c.copy.user = c.user BY <2>1 DEF LoginInv, Unborn
  <2>3. /\ c.at = "encrypting" => tab'[t].info \in Data /\ tab'[t].info.user = c.user
        /\ c.at = "putting" => c.copy.user = c.user
        /\ c.user = thread[t]["command"].user /\ ended' = ended BY <1>1, <2>1, <2>2
  <2> HIDE DEF c
  <2>4. Building(thread[t]["command"]) BY DEF c
  <2> QED BY <1>3, <2>1, <2>3, <2>4, StillUnborn
<1>5. c.at # "rotating" BY DEF LoginInv
<1>6. /\ \A sid \in ended' : sid \in ended
      /\ tab'[t].current \in {tab[t].current, Nil, NewSid} BY <1>1, <1>2
<1> HIDE DEF c
<1> QED BY <1>3, <1>4, <1>5, <1>6, Elsewhere

LEMMA ReloadStep ==
  ASSUME TypeInv, LoginInv, NEW t \in Tabs, Reload(t)
  PROVE  LoginInv'
<1> DEFINE d == thread'[t]["command"]
<1>0. "command" \in Threads BY DEF Threads
<1>1. /\ Shows(t, Nil, Nil, FALSE)
      /\ \A u \in Tabs \ {t} : thread'[u] = thread[u]
      /\ \A k \in Threads \ {"command"} : thread'[t][k] = Idle
      /\ d = Idle \/ (d.at = "restoring" /\ d.todo = rows) BY <1>0, ReloadFacts
<1>2. UNCHANGED <<rows, origin, ended>> BY DEF Reload
<1>3. ~ Building(d) /\ d.at # "rotating" /\ \A r \in d.todo : r \in rows
  BY <1>1, IdleLocal DEF Building
<1>4. Step(t, d)
  <2>1. \A sid \in Generated : sid \in Generated' /\ origin'[sid] = origin[sid]
    BY <1>2 DEF Generated
  <2> QED BY <1>1, <1>2, <1>3, <2>1 DEF Step, Shows
<1>5. Secrets(t)' /\ tab'[t].current = Nil /\ ended' = ended BY <1>1, <1>2, <1>3 DEF Secrets, Shows
<1> HIDE DEF d
<1> QED BY <1>3, <1>4, <1>5, Elsewhere

LEMMA TryNextStep ==
  ASSUME TypeInv, LoginInv, NEW t \in Tabs, NEW y \in Tab,
         y.current \in Generated \cup {Nil}, y.current = tab[t].current \/ y.current = Nil,
         NEW base, (base = tab /\ y = tab[t]) \/ base = [tab EXCEPT ![t] = y],
         TryNext(t, base), UNCHANGED <<inbox, origin, ended, reloads, now>>
  PROVE  LoginInv'
<1> DEFINE c == thread[t]["command"]
<1>1. \A sid \in Generated : sid \in Generated' /\ origin'[sid] = origin[sid] BY DEF Generated
<1>2. CASE /\ rows' \in {{}, rows} /\ Shows(t, y.current, y.info, y.auth)
           /\ Goto(t, "command", Idle) BY <1>2, IdleLocal, PassesOn DEF Shows, Building
<1>3. CASE /\ rows' = rows
           /\ \E r \in c.todo :
                /\ r \in Row /\ Shows(t, r.sid, r.info, y.auth)
                /\ \E d \in Local : /\ Goto(t, "command", d)
                                    /\ d.at = "opening" /\ d.todo = c.todo \ {r}
  <2>1. PICK r \in c.todo : /\ Shows(t, r.sid, r.info, y.auth)
                            /\ \E d \in Local : /\ Goto(t, "command", d)
                                                /\ d.at = "opening" /\ d.todo = c.todo \ {r} BY <1>3
  <2>2. PICK d \in Local : Goto(t, "command", d) /\ d.at = "opening" /\ d.todo = c.todo \ {r}
    BY <2>1
  <2>3. tab'[t].current = r.sid /\ \A u \in Tabs \ {t} : tab'[u] = tab[u] BY <2>1 DEF Shows
  <2>4. Step(t, d) BY <1>1, <1>3, <2>2, <2>3, CommandStep
  <2>5. Secrets(t)' /\ d.at # "rotating" BY <2>2, <2>4 DEF Secrets, Step, Building
  <2>6. \A sid \in ended' : sid \in ended OBVIOUS
  <2> QED BY <2>3, <2>4, <2>5, <2>6, Elsewhere
<1> HIDE DEF c
<1>4. \/ /\ rows' \in {{}, rows} /\ Shows(t, y.current, y.info, y.auth)
         /\ Goto(t, "command", Idle)
      \/ /\ rows' = rows
         /\ \E r \in c.todo :
              /\ r \in Row /\ Shows(t, r.sid, r.info, y.auth)
              /\ \E d \in Local : /\ Goto(t, "command", d)
                                  /\ d.at = "opening" /\ d.todo = c.todo \ {r} BY TryNextFacts DEF c
<1> QED BY <1>2, <1>3, <1>4

LEMMA LoginStarts == Init => LoginInv
<1> SUFFICES ASSUME Init PROVE LoginInv OBVIOUS
<1>1. \A t \in Tabs, k \in Threads : thread[t][k].at = "idle" BY IdleLocal DEF Init
<1>2. \A t \in Tabs : ~ Building(thread[t]["command"]) BY <1>1 DEF Building, Threads
<1>3. EndedStaysEnded /\ RowsBelongToOwner BY DEF Init, EndedStaysEnded, RowsBelongToOwner
<1> QED BY <1>1, <1>2, <1>3 DEF LoginInv, Threads

(* Where the command waits, and nothing is built.                           *)
LEMMA ParksStep ==
  ASSUME TypeInv, LoginInv, NEW t \in Tabs,
         \/ EndAnnounces(t, "command") \/ EndReturns(t, "command")
         \/ EndThenLogoutAll(t, "command") \/ PutFails(t, "command")
         \/ Refused(t, "command")
         \/ Authenticate(t, "command") \/ SweepReturns(t) \/ RestoreSucceeds(t)
  PROVE  LoginInv'
<1> DEFINE c == thread[t]["command"]
<1>0. "command" \in Threads /\ tab \in [Tabs -> Tab] BY DEF Threads, TypeInv, TabsTyped
<1>1. CASE EndAnnounces(t, "command")
  <2> DEFINE d == Self(t, "command", "audited")
  <2>1. LocalTyped(d) /\ d.at = "audited" /\ d.todo = c.todo BY <1>0, SelfFacts DEF Labels
  <2>2. Goto(t, "command", d) /\ UNCHANGED <<rows, tab, origin, ended>> BY <1>1 DEF EndAnnounces
  <2> HIDE DEF d
  <2> QED BY <2>1, <2>2, PassesOn DEF Building, LocalTyped
<1>2. CASE EndReturns(t, "command") \/ EndThenLogoutAll(t, "command")
  <2>1. Shows(t, Nil, Nil, FALSE) /\ Goto(t, "command", Idle) BY <1>0, <1>2, EndReturnsTyped
  <2>2. UNCHANGED <<rows, origin, ended>> BY <1>2 DEF EndReturns, EndThenLogoutAll
  <2> QED BY <2>1, <2>2, IdleLocal, PassesOn DEF Building, Shows
<1>3. CASE PutFails(t, "command") \/ SweepReturns(t)
  <2>1. Goto(t, "command", Idle) /\ UNCHANGED <<rows, tab, origin, ended>>
    BY <1>3 DEF PutFails, SweepReturns
  <2> QED BY <2>1, IdleLocal, PassesOn DEF Building
<1>4. CASE Authenticate(t, "command") \/ RestoreSucceeds(t)
  <2>1. Shows(t, tab[t].current, tab[t].info, TRUE) /\ Goto(t, "command", Idle)
    BY <1>0, <1>4, AuthFacts
  <2>2. UNCHANGED <<rows, origin, ended>> BY <1>4 DEF Authenticate, RestoreSucceeds
  <2> QED BY <2>1, <2>2, IdleLocal, PassesOn DEF Building, Shows
<1>5. CASE Refused(t, "command")
  <2>1. /\ Goto(t, "command", Idle) /\ ended' \subseteq ended /\ UNCHANGED <<rows, origin>>
        /\ Shows(t, tab[t].current, tab[t].info, tab[t].auth) BY <1>0, <1>5, RefusedTyped
  <2>2. /\ \A sid \in Generated : sid \in Generated' /\ origin'[sid] = origin[sid]
        /\ \A u \in Tabs \ {t} : tab'[u] = tab[u] BY <2>1 DEF Generated, Shows
  <2>3. Step(t, Idle) BY <2>1, <2>2, IdleLocal, CommandStep
  <2>4. Secrets(t)' BY <2>3, IdleLocal DEF Secrets, Step, Building
  <2>5. \A sid \in ended' : sid \in ended BY <2>1
  <2>6. tab'[t].current = tab[t].current BY <2>1 DEF Shows
  <2>7. Idle.at # "rotating" /\ Idle \in Local BY IdleLocal
  <2> QED BY <2>1, <2>3, <2>4, <2>5, <2>6, <2>7, Elsewhere
<1> QED BY <1>1, <1>2, <1>3, <1>4, <1>5

LEMMA BeginsStep ==
  ASSUME TypeInv, LoginInv, NEW t \in Tabs,
         \/ \E user \in Users, remember \in BOOLEAN : Login(t, user, remember)
         \/ \E user \in Users : LogoutAll(t, user)
         \/ EnforceLimit(t)
  PROVE  LoginInv'
<1>1. ASSUME NEW user \in Users, NEW remember \in BOOLEAN, Login(t, user, remember)
      PROVE  LoginInv'
  <2>1. PICK d \in Local : Goto(t, "command", d) /\ d.at = "enforcing" /\ d.todo = RowsOf(user)
    BY <1>1, LoginFacts
  <2>2. UNCHANGED <<rows, tab, origin, ended>> /\ RowsOf(user) \subseteq rows
    BY <1>1 DEF Login, RowsOf
  <2> QED BY <2>1, <2>2, PassesOn DEF Building
<1>2. ASSUME NEW user \in Users, LogoutAll(t, user) PROVE LoginInv'
  <2>1. PICK d \in Local : Goto(t, "command", d) /\ d.at = "sweeping" /\ d.todo = RowsOf(user)
    BY <1>2, LogoutAllFacts
  <2>2. UNCHANGED <<rows, tab, origin, ended>> /\ RowsOf(user) \subseteq rows
    BY <1>2 DEF LogoutAll, RowsOf
  <2> QED BY <2>1, <2>2, PassesOn DEF Building
<1>3. CASE EnforceLimit(t)
  <2>1. PICK d \in Local : Goto(t, "command", d) /\ d.at = "ending" /\ d.todo = {}
    BY <1>3, EnforceLimitFacts
  <2>2. UNCHANGED <<tab, origin, ended>> /\ rows' \subseteq rows
    BY <1>3, EnforceLimitFacts DEF EnforceLimit
  <2> QED BY <2>1, <2>2, PassesOn DEF Building
<1> QED BY <1>1, <1>2, <1>3

LEMMA RestoresStep ==
  ASSUME TypeInv, LoginInv, NEW t \in Tabs,
         \/ RestoreFirst(t) \/ RestoreSkips(t) \/ EndThenRestore(t) \/ RestoreExpired(t)
  PROVE  LoginInv'
<1>0. tab[t] \in Tab /\ tab[t].current \in Generated \cup {Nil} BY DEF TypeInv, TabsTyped
<1>1. CASE RestoreFirst(t) \/ RestoreSkips(t)
  BY <1>0, <1>1, TryNextStep DEF RestoreFirst, RestoreSkips
<1>2. CASE EndThenRestore(t) BY <1>2, LoggedOutTab, TryNextStep DEF EndThenRestore
<1>3. CASE RestoreExpired(t)
  <2> DEFINE d == [thread[t]["command"] EXCEPT !.then = "restoreNext"]
  <2>1. LocalTyped(d) /\ d.todo = thread[t]["command"].todo
    BY <1>3, RestoreLocals DEF RestoreExpired
  <2>2. BeginEnd(t, "command", d) /\ UNCHANGED <<tab, inbox, origin, reloads, now>>
    BY <1>3 DEF RestoreExpired
  <2> HIDE DEF d
  <2> QED BY <2>1, <2>2, EndsOne
<1> QED BY <1>1, <1>2, <1>3

LEMMA LoginStep ==
  ASSUME LoginsAndLogouts, TypeInv, LoginInv, [Next]_vars
  PROVE  LoginInv'
<1>1. ASSUME NEW t \in Tabs, Start(t) PROVE LoginInv'
  <2>1. ~ Refresh(t) /\ ~ CheckExpires(t) /\ ~ CheckRotates(t) /\ ~ Cleanup(t)
    BY DEF LoginsAndLogouts, Refresh, CheckExpires, CheckRotates, Cleanup
  <2>2. CASE Logout(t) BY <2>2, IdleTyped, IdleLocal, EndsOne DEF Logout
  <2>3. CASE Reload(t) BY <2>3, ReloadStep
  <2> QED BY <1>1, <2>1, <2>2, <2>3, BeginsStep DEF Start
<1>2. ASSUME NEW t \in Tabs, CommandContinues(t) PROVE LoginInv'
  <2>0. "command" \in Threads /\ LocalTyped(thread[t]["command"]) BY SomeThread DEF Threads
  <2>1. ~ RestoreRotates(t) BY DEF LoginsAndLogouts, RestoreRotates
  <2>2. CASE LoginEndsOld(t) \/ SweepEndsOwn(t)
    BY <2>0, <2>2, EndsOne DEF LoginEndsOld, SweepEndsOwn
  <2>3. CASE LoginWithoutOld(t) BY <2>3, NewLoginStep
  <2>4. CASE FillInfo(t) BY <2>4, FillInfoStep
  <2>5. CASE PersistNew(t) BY <2>5, PersistNewStep
  <2>6. CASE SweepOne(t) BY <2>6, SweepOneStep
  <2>7. CASE EnforceLimit(t) BY <2>7, BeginsStep
  <2>8. CASE SweepReturns(t) \/ RestoreSucceeds(t) BY <2>8, ParksStep
  <2>9. CASE \/ RestoreFirst(t) \/ RestoreSkips(t) \/ EndThenRestore(t) \/ RestoreExpired(t)
    BY <2>9, RestoresStep
  <2> QED BY <1>2, <2>1, <2>2, <2>3, <2>4, <2>5, <2>6, <2>7, <2>8, <2>9 DEF CommandContinues
<1>3. ASSUME NEW t \in Tabs, NEW k \in Threads, Continue(t, k) PROVE LoginInv'
  <2>1. ~ At(t, k, "idle") \/ CommandContinues(t) \/ CleanOne(t)
    BY <1>3 DEF Continue, EndAnnounces, EndReturns, EndThenLogoutAll, EndThenLogin,
                RotateStores, Put, PutFails, Refused, Authenticate, At
  <2>2. ~ CleanOne(t) BY DEF CleanOne, At, LoginInv, Threads
  <2>3. CASE CommandContinues(t) BY <1>2, <2>3
  <2>4. CASE ~ CommandContinues(t)
    <3>1. k = "command" BY <2>1, <2>2, <2>4 DEF At, LoginInv
    <3>2. ~ RotateStores(t, k) BY <3>1 DEF RotateStores, At, LoginInv
    <3>3. CASE EndThenLogin(t, k) BY <3>1, <3>3, NewLoginStep
    <3>4. CASE Put(t, k) BY <3>1, <3>4, PutStep
    <3>5. CASE \/ EndAnnounces(t, k) \/ EndReturns(t, k) \/ EndThenLogoutAll(t, k)
               \/ PutFails(t, k) \/ Refused(t, k) \/ Authenticate(t, k) BY <3>1, <3>5, ParksStep
    <3> QED BY <1>3, <2>2, <2>4, <3>2, <3>3, <3>4, <3>5 DEF Continue
  <2> QED BY <2>3, <2>4
<1>4. ASSUME NEW t \in Tabs, Deliver(t) PROVE LoginInv' BY <1>4, DeliverStep
<1>5. CASE Tick \/ UNCHANGED vars
  <2>1. UNCHANGED <<rows, tab, thread, origin, ended>> BY <1>5 DEF Tick, vars
  <2>2. \A t \in Tabs : Unborn(t) => Unborn(t)' BY <2>1 DEF Unborn
  <2>3. (EndedStaysEnded /\ RowsBelongToOwner)'
    BY <2>1 DEF EndedStaysEnded, RowsBelongToOwner, LoginInv
  <2> QED BY <2>1, <2>2, <2>3 DEF LoginInv
<1> QED BY <1>1, <1>3, <1>4, <1>5 DEF Next

(* session_manager.js: however the logins and logouts of several tabs       *)
(* overlap and are refused, no row that a logout removed comes back into    *)
(* the store, and every row holds the data of the user its id was generated *)
(* for.                                                                    *)
THEOREM LoginsAreKept ==
  ASSUME LoginsAndLogouts
  PROVE  Spec => []StoreIsTrue
<1>1. Init => TypeInv /\ LoginInv BY TypeStart, LoginStarts
<1>2. ASSUME TypeInv, LoginInv, [Next]_vars PROVE TypeInv' /\ LoginInv' BY <1>2, TypeStep, LoginStep
<1>3. LoginInv => StoreIsTrue BY DEF LoginInv, StoreIsTrue
<1> QED BY <1>1, <1>2, <1>3, PTL DEF Spec
-----------------------------------------------------------------------------
(* One tab alone, whose threads never run side by side.                     *)
OneTab == ~ Overlap /\ \A t, u \in Tabs : t = u

(* The invariant speaks of store R, origins g, ended ids e and time n, of a *)
(* tab that shows x, and of its only thread that runs, with locals c.       *)
RowsTrue(R, g, e) ==
  /\ \A r, s \in R : r.sid = s.sid => r = s
  /\ \A r \in R : r.sid \notin e
  /\ \A r \in R : r.info.user = g[r.sid].user

Over(i, n) == n > i.expires \/ n - i.last > Timeout
Has(R, x) == \E r \in R : r.sid = x.current /\ r.info = x.info

TabTrue(x, g) ==
  /\ x.info # Nil => /\ x.info \in Info /\ x.current # Nil
                     /\ x.info.user = g[x.current].user
  /\ x.auth => x.info # Nil

(* What a thread that waits knows of its tab and the store.                 *)
ThreadTrue(c, x, R, g, n) ==
  /\ c.at = "device" => /\ x.current # Nil /\ x.info = Nil
                        /\ g[x.current].user = c.user
  /\ c.at \in {"encrypting", "putting", "stored", "opening", "rotating"} => x.info # Nil
  /\ c.at = "putting" => c.copy = x.info
  /\ c.at \in {"stored", "opening"} => Has(R, x)
  /\ c.at \in {"encrypting", "stored"} => ~ Over(x.info, n)
  /\ c.at \in {"putting", "rotating"} /\ c.then # "return" => ~ Over(x.info, n)
  /\ c.at = "sweeping" => \A r \in c.todo : g[r.sid].user = c.user
  /\ c.at = "restoring" => /\ c.todo = R /\ R # {}
                           /\ x.current = Nil /\ x.info = Nil /\ x.auth = FALSE
  /\ c.at = "opening" => \A r \in c.todo : r \in R /\ r.sid # x.current
  /\ c.at \in {"removed", "audited"} /\ c.then = "restoreNext" => c.todo \subseteq R
  /\ c.at = "cleaning" => \A r \in c.todo : r \in R /\ r.info.expires < n

(* The thread is about to forget the tab's session, or to store it.         *)
EndsIt(c, x) ==
  \/ c.at \in {"removed", "audited"}
  \/ c.at = "sweeping" /\ x.info # Nil /\ x.info.user = c.user
StoresIt(c) == c.at \in {"ending", "encrypting", "putting", "rotating", "refused"}

Settled(c, x, R, e, n) ==
  /\ x.current # Nil /\ x.info = Nil => c.at = "device"
  /\ x.current # Nil /\ x.current \in e => EndsIt(c, x)
  /\ x.kept /\ x.info # Nil /\ ~ Over(x.info, n) /\ ~ Has(R, x) =>
       EndsIt(c, x) \/ StoresIt(c)

Scene(c, x, R, g, e, n) ==
  TabTrue(x, g) /\ ThreadTrue(c, x, R, g, n) /\ Settled(c, x, R, e, n)

Sole(t, k) == \A j \in Threads \ {k} : thread[t][j].at = "idle"

OneTabInv ==
  /\ RowsTrue(rows, origin, ended)
  /\ \A t \in Tabs :
       /\ inbox[t] = <<>>
       /\ \E k \in Threads :
            Sole(t, k) /\ Scene(thread[t][k], tab[t], rows, origin, ended, now)

(* What every step of the tab must show: the invariant again, and a login   *)
(* of a page load only with a row that is stored and not expired.           *)
StaysTrue(t) ==
  /\ RowsTrue(rows', origin', ended')
  /\ \E k \in Threads :
       /\ \A j \in Threads \ {k} : thread'[t][j].at = "idle"
       /\ Scene(thread'[t][k], tab'[t], rows', origin', ended', now')
  /\ ~ tab[t].auth /\ tab'[t].auth =>
       ~ Expired(tab[t].info) /\ \E r \in rows : r.sid = tab[t].current

LEMMA OverFacts ==
  ASSUME NEW i \in Info
  PROVE  Expired(i) <=> Over(i, now) BY Constants DEF Expired, Over

LEMMA Concludes ==
  ASSUME TypeInv, NEW t \in Tabs, NEW k \in Threads, Sole(t, k),
         NEW d \in Local, Goto(t, k, d),
         RowsTrue(rows', origin', ended'),
         NEW y, tab'[t] = y,
         TabTrue(y, origin'), ThreadTrue(d, y, rows', origin', now'),
         Settled(d, y, rows', ended', now'),
         y.auth => tab[t].auth \/ (/\ ~ Expired(tab[t].info)
                                  /\ \E r \in rows : r.sid = tab[t].current)
  PROVE  StaysTrue(t)
<1>1. thread'[t][k] = d /\ \A j \in Threads \ {k} : thread'[t][j] = thread[t][j]
  BY GotoFacts DEF TypeInv
<1>2. \A j \in Threads \ {k} : thread'[t][j].at = "idle" BY <1>1 DEF Sole
<1>3. Scene(thread'[t][k], tab'[t], rows', origin', ended', now') BY <1>1 DEF Scene
<1> QED BY <1>2, <1>3 DEF StaysTrue

(* What the lemmas of the steps start from.                                 *)
Alone(t, k) ==
  /\ Sole(t, k) /\ RowsTrue(rows, origin, ended)
  /\ Scene(thread[t][k], tab[t], rows, origin, ended, now)

LEMMA InScene ==
  ASSUME NEW t \in Tabs, NEW k \in Threads, Alone(t, k)
  PROVE  /\ Sole(t, k) /\ RowsTrue(rows, origin, ended)
         /\ TabTrue(tab[t], origin)
         /\ ThreadTrue(thread[t][k], tab[t], rows, origin, now)
         /\ Settled(thread[t][k], tab[t], rows, ended, now) BY DEF Alone, Scene

(* A step that leaves tab and store alone.                                  *)
LEMMA OnlyMoves ==
  ASSUME TypeInv, NEW t \in Tabs, NEW k \in Threads, Alone(t, k),
         NEW d \in Local, Goto(t, k, d), UNCHANGED <<rows, tab, origin, ended, now>>,
         ThreadTrue(d, tab[t], rows, origin, now), Settled(d, tab[t], rows, ended, now)
  PROVE  StaysTrue(t)
<1> PICK y : y = tab[t] OBVIOUS
<1>1. RowsTrue(rows', origin', ended') /\ TabTrue(y, origin') BY InScene
<1>2. ThreadTrue(d, y, rows', origin', now') /\ Settled(d, y, rows', ended', now') OBVIOUS
<1>3. tab'[t] = y /\ Sole(t, k) /\ (y.auth => tab[t].auth) BY InScene
<1> QED BY <1>1, <1>2, <1>3, Concludes

LEMMA ForgetsTrue ==
  ASSUME TypeInv, NEW t \in Tabs, NEW k \in Threads, Alone(t, k),
         Shows(t, Nil, Nil, FALSE), Goto(t, k, Idle), UNCHANGED <<rows, origin, ended>>
  PROVE  StaysTrue(t)
<1> PICK y : y = tab'[t] OBVIOUS
<1>1. y.current = Nil /\ y.info = Nil /\ y.auth = FALSE BY DEF Shows
<1>2. RowsTrue(rows', origin', ended') /\ Sole(t, k) BY InScene
<1>3. TabTrue(y, origin') /\ ThreadTrue(Idle, y, rows', origin', now')
      /\ Settled(Idle, y, rows', ended', now') BY <1>1, IdleLocal DEF TabTrue, ThreadTrue, Settled
<1> QED BY <1>1, <1>2, <1>3, IdleLocal, Concludes

LEMMA ParksTrue ==
  ASSUME TypeInv, NEW t \in Tabs, NEW k \in Threads, Alone(t, k),
         \/ EndAnnounces(t, k) \/ EndReturns(t, k) \/ EndThenLogoutAll(t, k)
         \/ PutFails(t, k) \/ Refused(t, k) \/ Authenticate(t, k)
         \/ (k = "command" /\ (SweepReturns(t) \/ RestoreSucceeds(t)))
  PROVE  StaysTrue(t)
<1> DEFINE c == thread[t][k]
<1>0. /\ tab[t] \in Tab /\ tab[t].current \in Sids \cup {Nil}
      /\ TabTrue(tab[t], origin) /\ ThreadTrue(c, tab[t], rows, origin, now)
      /\ Settled(c, tab[t], rows, ended, now) BY SomeThread, InScene
<1>1. CASE EndAnnounces(t, k)
  <2> DEFINE d == Self(t, k, "audited")
  <2>1. /\ d \in Local /\ d.at = "audited" /\ d.todo = c.todo /\ d.then = c.then
        /\ d.copy = c.copy BY SelfFacts DEF Labels, LocalTyped
  <2>2. c.at = "removed" /\ Goto(t, k, d) /\ UNCHANGED <<rows, tab, origin, ended, now>>
    BY <1>1 DEF EndAnnounces, At
  <2> HIDE DEF d
  <2>3. ThreadTrue(d, tab[t], rows, origin, now) BY <1>0, <2>1, <2>2 DEF ThreadTrue
  <2>4. Settled(d, tab[t], rows, ended, now) BY <1>0, <2>1, <2>2 DEF Settled, EndsIt
  <2> QED BY <2>1, <2>2, <2>3, <2>4, OnlyMoves
<1>2. CASE EndReturns(t, k) \/ EndThenLogoutAll(t, k)
  <2>1. Shows(t, Nil, Nil, FALSE) /\ Goto(t, k, Idle) BY <1>2, EndReturnsTyped
  <2>2. UNCHANGED <<rows, origin, ended>> BY <1>2 DEF EndReturns, EndThenLogoutAll
  <2> QED BY <2>1, <2>2, ForgetsTrue
<1>3. ~ PutFails(t, k) BY <1>0, Constants DEF PutFails, StoredKey, At, ThreadTrue, TabTrue
<1>4. CASE k = "command" /\ SweepReturns(t)
  <2>1. /\ c.at = "sweeping" /\ ~ (tab[t].info # Nil /\ tab[t].info.user = c.user)
        /\ Goto(t, k, Idle) /\ UNCHANGED <<rows, tab, origin, ended, now>>
    BY <1>4 DEF SweepReturns, OwnSession, At
  <2>2. ThreadTrue(Idle, tab[t], rows, origin, now) BY IdleLocal DEF ThreadTrue
  <2>3. Settled(Idle, tab[t], rows, ended, now)
    BY <1>0, <2>1, IdleLocal DEF Settled, EndsIt, StoresIt
  <2> QED BY <2>1, <2>2, <2>3, IdleLocal, OnlyMoves
<1>5. CASE Authenticate(t, k) \/ (k = "command" /\ RestoreSucceeds(t))
  <2> PICK y : y = tab'[t] OBVIOUS
  <2>1. Shows(t, tab[t].current, tab[t].info, TRUE) /\ Goto(t, k, Idle) BY <1>5, AuthFacts
  <2>2. y.current = tab[t].current /\ y.info = tab[t].info BY <2>1 DEF Shows
  <2>3. UNCHANGED <<rows, origin, ended, now>> /\ c.at \in {"stored", "opening"}
    BY <1>5 DEF Authenticate, RestoreSucceeds, At
  <2>4. /\ tab[t].info \in Info /\ Has(rows, tab[t])
        /\ c.at = "stored" => ~ Over(tab[t].info, now) BY <1>0, <2>3 DEF ThreadTrue, TabTrue
  <2>5. ~ Expired(tab[t].info) /\ \E r \in rows : r.sid = tab[t].current
    <3>1. \E r \in rows : r.sid = tab[t].current BY <2>4 DEF Has
    <3>2. ~ Expired(tab[t].info) BY <1>5, <2>4, OverFacts DEF Authenticate, RestoreSucceeds, At
    <3> QED BY <3>1, <3>2
  <2>6. RowsTrue(rows', origin', ended') /\ Sole(t, k) BY <2>3, InScene
  <2>7. TabTrue(y, origin') BY <1>0, <2>2, <2>3, <2>4, Constants DEF TabTrue
  <2>8. ThreadTrue(Idle, y, rows', origin', now') BY IdleLocal DEF ThreadTrue
  <2>9. Settled(Idle, y, rows', ended', now')
    BY <1>0, <2>2, <2>3, <2>4, IdleLocal, Constants DEF Settled, EndsIt, StoresIt, Has
  <2> QED BY <2>1, <2>5, <2>6, <2>7, <2>8, <2>9, IdleLocal, Concludes
<1>6. CASE Refused(t, k)
  <2> PICK y : y = tab'[t] OBVIOUS
  <2>1. /\ Goto(t, k, Idle) /\ ended' \subseteq ended /\ UNCHANGED <<rows, origin, now>>
        /\ y.current = tab[t].current /\ y.info = tab[t].info /\ y.auth = tab[t].auth
    BY <1>6, RefusedTyped DEF Shows
  <2>2. /\ c.at \in {"putting", "refused", "sweeping", "cleaning", "enforcing"}
        /\ c.at \in {"cleaning", "enforcing"} => y = tab[t]
        /\ c.at = "sweeping" => y.current \notin ended' BY <1>6, <2>1 DEF Refused, At
  <2>3. c.at \in {"putting", "refused", "sweeping"} => y.kept = FALSE BY <1>6, ShowsKept DEF Refused
  <2>4. RowsTrue(rows', origin', ended') BY <2>1, InScene DEF RowsTrue
  <2>5. TabTrue(y, origin') BY <1>0, <2>1 DEF TabTrue
  <2>6. ThreadTrue(Idle, y, rows', origin', now') BY IdleLocal DEF ThreadTrue
  <2>7. Settled(Idle, y, rows', ended', now')
    BY <1>0, <2>1, <2>2, <2>3 DEF Settled, EndsIt, StoresIt, Has
  <2>8. Sole(t, k) /\ Idle \in Local BY InScene, IdleLocal
  <2> QED BY <2>1, <2>4, <2>5, <2>6, <2>7, <2>8, Concludes
<1> QED BY <1>1, <1>2, <1>3, <1>4, <1>5, <1>6

LEMMA BeginsTrue ==
  ASSUME TypeInv, NEW t \in Tabs, NEW k \in Threads, Alone(t, k),
         \/ /\ k = "command" /\ thread[t][k].at = "idle"
            /\ \E user \in Users :
                 \/ \E remember \in BOOLEAN : Login(t, user, remember)
                 \/ LogoutAll(t, user)
         \/ k = "cleanup" /\ thread[t][k].at = "idle" /\ Cleanup(t)
         \/ k = "command" /\ EnforceLimit(t)
  PROVE  StaysTrue(t)
<1>0. /\ TabTrue(tab[t], origin) /\ Settled(thread[t][k], tab[t], rows, ended, now)
      /\ RowsTrue(rows, origin, ended) /\ Sole(t, k) /\ RowsTyped /\ now \in Nat
  BY InScene DEF TypeInv, RestTyped
<1>1. ASSUME NEW user \in Users, NEW remember \in BOOLEAN, Login(t, user, remember),
             k = "command", thread[t][k].at = "idle"
      PROVE  StaysTrue(t)
  <2>1. PICK d \in Local : Goto(t, "command", d) /\ d.at = "enforcing" BY <1>1, LoginFacts
  <2>2. UNCHANGED <<rows, tab, origin, ended, now>> BY <1>1 DEF Login
  <2>3. ThreadTrue(d, tab[t], rows, origin, now) BY <2>1 DEF ThreadTrue
  <2>4. Settled(d, tab[t], rows, ended, now) BY <1>0, <1>1, <2>1 DEF Settled, EndsIt, StoresIt
  <2> QED BY <1>1, <2>1, <2>2, <2>3, <2>4, OnlyMoves
<1>2. ASSUME NEW user \in Users, LogoutAll(t, user), k = "command", thread[t][k].at = "idle"
      PROVE  StaysTrue(t)
  <2>1. PICK d \in Local : /\ Goto(t, "command", d) /\ d.at = "sweeping"
                           /\ d.user = user /\ d.todo = RowsOf(user) BY <1>2, LogoutAllFacts
  <2>2. UNCHANGED <<rows, tab, origin, ended, now>> BY <1>2 DEF LogoutAll
  <2>3. \A r \in d.todo : origin[r.sid].user = d.user BY <1>0, <2>1 DEF RowsOf, RowsTrue
  <2>4. ThreadTrue(d, tab[t], rows, origin, now) BY <2>1, <2>3 DEF ThreadTrue
  <2>5. Settled(d, tab[t], rows, ended, now) BY <1>0, <1>2, <2>1 DEF Settled, EndsIt, StoresIt
  <2> QED BY <1>2, <2>1, <2>2, <2>4, <2>5, OnlyMoves
<1>3. ASSUME Cleanup(t), k = "cleanup", thread[t][k].at = "idle" PROVE StaysTrue(t)
  <2>1. PICK d \in Local : /\ Goto(t, "cleanup", d) /\ d.at = "cleaning"
                           /\ d.todo = {r \in rows : r.info # Empty /\ r.info.expires < now}
    BY <1>3, CleanupFacts
  <2>2. UNCHANGED <<rows, tab, origin, ended, now>> BY <1>3 DEF Cleanup
  <2>3. ThreadTrue(d, tab[t], rows, origin, now) BY <2>1 DEF ThreadTrue
  <2>4. Settled(d, tab[t], rows, ended, now) BY <1>0, <1>3, <2>1 DEF Settled, EndsIt, StoresIt
  <2> QED BY <1>3, <2>1, <2>2, <2>3, <2>4, OnlyMoves
<1>4. ASSUME EnforceLimit(t), k = "command" PROVE StaysTrue(t)
  <2>1. PICK d \in Local : Goto(t, "command", d) /\ d.at = "ending" BY <1>4, EnforceLimitFacts
  <2>2. /\ UNCHANGED <<tab, origin, ended, now>> /\ rows' \subseteq rows
        /\ thread[t][k].at = "enforcing" BY <1>4, EnforceLimitFacts DEF EnforceLimit, At
  <2> PICK y : y = tab[t] OBVIOUS
  <2>3. RowsTrue(rows', origin', ended') BY <1>0, <2>2 DEF RowsTrue
  <2>4. ThreadTrue(d, y, rows', origin', now') BY <2>1 DEF ThreadTrue
  <2>5. Settled(d, y, rows', ended', now') BY <1>0, <2>1, <2>2 DEF Settled, EndsIt, StoresIt
  <2>6. tab'[t] = y /\ TabTrue(y, origin') /\ (y.auth => tab[t].auth) BY <1>0, <2>2
  <2> QED BY <1>0, <1>4, <2>1, <2>3, <2>4, <2>5, <2>6, Concludes
<1> QED BY <1>1, <1>2, <1>3, <1>4

LEMMA EndsTrue ==
  ASSUME TypeInv, NEW t \in Tabs, NEW k \in Threads, Alone(t, k),
         NEW c, LocalTyped(c), BeginEnd(t, k, c), UNCHANGED <<tab, inbox, origin, reloads, now>>,
         thread[t][k].at # "device",
         c.then = "restoreNext" =>
           \A r \in c.todo : r \in rows /\ r.sid # tab[t].current
  PROVE  StaysTrue(t)
<1> PICK y : y = tab[t] OBVIOUS
<1>1. /\ TabTrue(y, origin) /\ Settled(thread[t][k], y, rows, ended, now)
      /\ RowsTrue(rows, origin, ended) /\ Sole(t, k) BY InScene
<1>2. /\ y.current # Nil
      /\ \/ rows' = Without(y.current) /\ ended' = ended \cup {y.current}
         \/ rows' = rows /\ ended' = ended
      /\ \E d \in Local : Goto(t, k, d) /\ d.at = "removed" /\ d.then = c.then /\ d.todo = c.todo
  BY BeginEndFacts
<1>3. PICK d \in Local : Goto(t, k, d) /\ d.at = "removed" /\ d.then = c.then /\ d.todo = c.todo
  BY <1>2
<1>4. RowsTrue(rows', origin', ended') BY <1>1, <1>2 DEF RowsTrue, Without
<1>5. TabTrue(y, origin') /\ tab'[t] = y /\ (y.auth => tab[t].auth) BY <1>1
<1>6. ThreadTrue(d, y, rows', origin', now') BY <1>2, <1>3 DEF ThreadTrue, Without
<1>7. Settled(d, y, rows', ended', now') BY <1>1, <1>2, <1>3 DEF Settled, EndsIt
<1> QED BY <1>1, <1>3, <1>4, <1>5, <1>6, <1>7, Concludes

LEMMA NewLoginTrue ==
  ASSUME TypeInv, NEW t \in Tabs, NEW k \in Threads, Alone(t, k),
         EndThenLogin(t, k) \/ (k = "command" /\ LoginWithoutOld(t))
  PROVE  StaysTrue(t)
<1> PICK y : y = tab'[t] OBVIOUS
<1>1. TabTrue(tab[t], origin) /\ RowsTrue(rows, origin, ended) /\ Sole(t, k) BY InScene
<1>2. /\ NewSid \in Sids /\ NewSid \notin Generated
      /\ \A sid \in Generated : origin'[sid] = origin[sid]
      /\ origin'[NewSid].user = thread[t][k].user
      /\ \E d \in Local : Goto(t, k, d) /\ d.at = "device" /\ d.user = thread[t][k].user
      /\ \/ Shows(t, NewSid, Nil, FALSE)
         \/ LoginWithoutOld(t) /\ Shows(t, NewSid, tab[t].info, tab[t].auth) BY NewLoginFacts
<1>3. PICK d \in Local : Goto(t, k, d) /\ d.at = "device" /\ d.user = thread[t][k].user BY <1>2
<1>4. y.current = NewSid /\ y.info = Nil /\ y.auth = FALSE
  <2>1. LoginWithoutOld(t) => tab[t].info = Nil /\ tab[t].auth = FALSE
    BY <1>1, SomeThread DEF LoginWithoutOld, TabTrue
  <2> QED BY <1>2, <2>1 DEF Shows
<1>5. UNCHANGED <<rows, ended, now>> /\ ended \subseteq Generated /\ RowsTyped
  BY DEF EndThenLogin, LoginWithoutOld, TypeInv, RestTyped
<1>6. RowsTrue(rows', origin', ended') BY <1>1, <1>2, <1>5 DEF RowsTrue, RowsTyped
<1>7. y.current # Nil /\ y.current \notin ended' BY <1>2, <1>4, <1>5, Constants
<1>8. TabTrue(y, origin') BY <1>4 DEF TabTrue
<1>9. ThreadTrue(d, y, rows', origin', now') BY <1>2, <1>3, <1>4, <1>7 DEF ThreadTrue
<1>10. Settled(d, y, rows', ended', now') BY <1>3, <1>4, <1>7 DEF Settled
<1> QED BY <1>1, <1>3, <1>4, <1>6, <1>8, <1>9, <1>10, Concludes

LEMMA FillInfoTrue ==
  ASSUME TypeInv, NEW t \in Tabs, Alone(t, "command"), FillInfo(t)
  PROVE  StaysTrue(t)
<1> PICK y : y = tab'[t] OBVIOUS
<1> DEFINE c == thread[t]["command"]
<1>0. "command" \in Threads BY DEF Threads
<1>1. /\ TabTrue(tab[t], origin) /\ ThreadTrue(c, tab[t], rows, origin, now)
      /\ Settled(c, tab[t], rows, ended, now)
      /\ RowsTrue(rows, origin, ended) /\ Sole(t, "command") BY <1>0, InScene
<1>2. PICK d \in Local : Goto(t, "command", d) /\ d.at = "encrypting" BY FillInfoFacts
<1>3. PICK i \in Info : /\ Shows(t, tab[t].current, i, tab[t].auth)
                        /\ i.user = c.user /\ ~ Expired(i) BY FillInfoFacts
<1>4. y.current = tab[t].current /\ y.info = i /\ y.auth = tab[t].auth BY <1>3 DEF Shows
<1>5. UNCHANGED <<rows, origin, ended, now>> /\ c.at = "device" BY DEF FillInfo, At
<1>6. tab[t].current # Nil /\ origin[tab[t].current].user = c.user /\ ~ Over(i, now)
  BY <1>1, <1>3, <1>5, OverFacts DEF ThreadTrue
<1>7. TabTrue(y, origin') BY <1>3, <1>4, <1>5, <1>6, Constants DEF TabTrue
<1>8. ThreadTrue(d, y, rows', origin', now') BY <1>2, <1>4, <1>5, <1>6, Constants DEF ThreadTrue
<1>9. Settled(d, y, rows', ended', now')
  BY <1>1, <1>2, <1>4, <1>5, Constants DEF Settled, EndsIt, StoresIt
<1> QED BY <1>0, <1>1, <1>2, <1>4, <1>5, <1>7, <1>8, <1>9, Concludes

(* What is encrypted is what the tab shows.                                 *)
LEMMA PersistsTrue ==
  ASSUME TypeInv, NEW t \in Tabs, NEW k \in Threads, Alone(t, k),
         RotateStores(t, k) \/ (k = "command" /\ PersistNew(t))
  PROVE  StaysTrue(t)
<1> DEFINE c == thread[t][k]
<1>1. /\ TabTrue(tab[t], origin) /\ ThreadTrue(c, tab[t], rows, origin, now)
      /\ Settled(c, tab[t], rows, ended, now)
      /\ RowsTrue(rows, origin, ended) /\ Sole(t, k)
      /\ tab[t].info \in Data \cup {Nil} BY SomeThread, InScene
<1>2. c.at \in {"encrypting", "rotating"} /\ UNCHANGED <<rows, tab, origin, ended, now>>
  BY DEF RotateStores, PersistNew, At
<1>3. tab[t].info \in Info /\ Spread(tab[t].info) = tab[t].info
  BY <1>1, <1>2, SpreadFacts DEF ThreadTrue, TabTrue
<1>4. PICK d \in Local :
        /\ Goto(t, k, d) /\ d.at = "putting" /\ d.copy = tab[t].info
        /\ d.then = c.then \/ c.at = "encrypting"
  BY <1>3, PersistNewFacts, RotateStoresFacts DEF PersistNew, At
<1>5. ThreadTrue(d, tab[t], rows, origin, now) BY <1>1, <1>2, <1>3, <1>4, Constants DEF ThreadTrue
<1>6. Settled(d, tab[t], rows, ended, now)
  BY <1>1, <1>2, <1>3, <1>4, Constants DEF Settled, EndsIt, StoresIt
<1> QED BY <1>2, <1>4, <1>5, <1>6, OnlyMoves

LEMMA PutTrue ==
  ASSUME TypeInv, NEW t \in Tabs, NEW k \in Threads, Alone(t, k), Put(t, k)
  PROVE  StaysTrue(t)
<1> DEFINE c == thread[t][k]
           row == [sid |-> tab[t].current, info |-> c.copy, last |-> now]
<1> PICK y : y = tab'[t] OBVIOUS
<1>0. y.current = tab[t].current /\ y.info = tab[t].info /\ y.auth = tab[t].auth
  BY PutFacts DEF Shows
<1>2. UNCHANGED <<origin, ended, now>> /\ c.at = "putting" BY DEF Put, At
<1>1. /\ TabTrue(y, origin) /\ y.info # Nil /\ c.copy = y.info
      /\ c.then # "return" => ~ Over(y.info, now)
      /\ y.current \notin ended
      /\ RowsTrue(rows, origin, ended) /\ Sole(t, k)
  <2>1. /\ TabTrue(tab[t], origin) /\ ThreadTrue(c, tab[t], rows, origin, now)
        /\ Settled(c, tab[t], rows, ended, now)
        /\ RowsTrue(rows, origin, ended) /\ Sole(t, k) BY InScene
  <2>2. /\ tab[t].info # Nil /\ tab[t].current # Nil /\ c.copy = tab[t].info
        /\ c.then # "return" => ~ Over(tab[t].info, now)
        /\ tab[t].current \notin ended BY <1>2, <2>1 DEF TabTrue, ThreadTrue, Settled, EndsIt
  <2>3. TabTrue(y, origin) BY <1>0, <2>1 DEF TabTrue
  <2> QED BY <1>0, <2>1, <2>2, <2>3
<1>3. rows' = Without(y.current) \cup {row} BY <1>0, PutFacts
<1>4. PICK d \in Local : /\ Goto(t, k, d)
                         /\ \/ d = Idle
                            \/ d.at = "stored" /\ d.then = c.then /\ c.then # "return" BY PutFacts
<1>5. y.info \in Info /\ c.copy = y.info /\ y.info.user = origin[y.current].user
      /\ y.current \notin ended BY <1>1 DEF TabTrue
<1>6. row.sid = y.current /\ row.info = y.info BY <1>0, <1>5
<1> HIDE DEF row
<1>7. RowsTrue(rows', origin', ended') BY <1>1, <1>2, <1>3, <1>5, <1>6 DEF RowsTrue, Without
<1>8. Has(rows', y) BY <1>3, <1>6 DEF Has
<1>9. TabTrue(y, origin') /\ tab'[t] = y /\ (y.auth => tab[t].auth) BY <1>0, <1>1, <1>2
<1>10. ThreadTrue(d, y, rows', origin', now')
  BY <1>1, <1>2, <1>4, <1>5, <1>8, IdleLocal, Constants DEF ThreadTrue
<1>11. Settled(d, y, rows', ended', now') BY <1>1, <1>2, <1>4, <1>5, <1>8, Constants DEF Settled
<1> QED BY <1>1, <1>4, <1>7, <1>9, <1>10, <1>11, Concludes

LEMMA RefreshTrue ==
  ASSUME TypeInv, NEW t \in Tabs, Alone(t, "refresh"), Refresh(t),
         thread[t]["refresh"].at = "idle"
  PROVE  StaysTrue(t)
<1> PICK y : y = tab'[t] OBVIOUS
<1>0. "refresh" \in Threads BY DEF Threads
<1>1. /\ TabTrue(tab[t], origin) /\ Settled(thread[t]["refresh"], tab[t], rows, ended, now)
      /\ RowsTrue(rows, origin, ended) /\ Sole(t, "refresh") BY <1>0, InScene
<1>2. PICK i \in Info :
        /\ Shows(t, tab[t].current, i, tab[t].auth) /\ i.user = tab[t].info.user
        /\ \E d \in Local : /\ Goto(t, "refresh", d)
                            /\ d.at = "putting" /\ d.copy = i /\ d.then = "return" BY RefreshFacts
<1>3. PICK d \in Local : /\ Goto(t, "refresh", d)
                         /\ d.at = "putting" /\ d.copy = i /\ d.then = "return" BY <1>2
<1>4. y.current = tab[t].current /\ y.info = i /\ y.auth = tab[t].auth BY <1>2 DEF Shows
<1>5. UNCHANGED <<rows, origin, ended, now>> /\ tab[t].info # Nil BY DEF Refresh, HasSession
<1>6. TabTrue(y, origin') BY <1>1, <1>2, <1>4, <1>5, Constants DEF TabTrue
<1>7. ThreadTrue(d, y, rows', origin', now') BY <1>3, <1>4, Constants DEF ThreadTrue
<1>8. Settled(d, y, rows', ended', now')
  BY <1>1, <1>3, <1>4, <1>5, Constants DEF Settled, EndsIt, StoresIt
<1> QED BY <1>0, <1>1, <1>3, <1>4, <1>5, <1>6, <1>7, <1>8, Concludes

LEMMA RotateTrue ==
  ASSUME TypeInv, NEW t \in Tabs, NEW k \in Threads, Alone(t, k),
         thread[t][k].at \in {"idle", "opening"}, HasSession(t),
         NEW c, LocalTyped(c), Rotate(t, k, c), ~ Expired(tab[t].info),
         UNCHANGED <<inbox, ended, reloads, now>>
  PROVE  StaysTrue(t)
<1> PICK y : y = tab'[t] OBVIOUS
<1>1. /\ TabTrue(tab[t], origin) /\ RowsTrue(rows, origin, ended) /\ Sole(t, k)
      /\ ended \subseteq Generated /\ RowsTyped BY InScene DEF TypeInv, RestTyped
<1>2. /\ NewSid \in Sids /\ NewSid \notin Generated
      /\ \A sid \in Generated : origin'[sid] = origin[sid]
      /\ origin'[NewSid].user = tab[t].info.user
      /\ tab[t].info \in Info
      /\ rows' = Without(tab[t].current) \/ rows' = rows
      /\ \E d \in Local : Goto(t, k, d) /\ d.at \in {"rotating", "refused"}
      /\ \E i \in Info :
           /\ Shows(t, NewSid, i, tab[t].auth) /\ i.user = tab[t].info.user
           /\ i.expires = tab[t].info.expires /\ i.last = tab[t].info.last
  BY RotateFacts DEF HasSession
<1>3. PICK d \in Local : Goto(t, k, d) /\ d.at \in {"rotating", "refused"} BY <1>2
<1>4. PICK i \in Info :
        /\ Shows(t, NewSid, i, tab[t].auth) /\ i.user = tab[t].info.user
        /\ i.expires = tab[t].info.expires /\ i.last = tab[t].info.last BY <1>2
<1>5. y.current = NewSid /\ y.info = i /\ y.auth = tab[t].auth BY <1>4 DEF Shows
<1>6. ~ Over(i, now) BY <1>2, <1>4, OverFacts DEF Over
<1>7. RowsTrue(rows', origin', ended') BY <1>1, <1>2 DEF RowsTrue, RowsTyped, Without
<1>8. TabTrue(y, origin') BY <1>2, <1>4, <1>5, Constants DEF TabTrue
<1>9. ThreadTrue(d, y, rows', origin', now') BY <1>3, <1>4, <1>5, <1>6, Constants DEF ThreadTrue
<1>10. Settled(d, y, rows', ended', now')
  BY <1>1, <1>2, <1>3, <1>4, <1>5, Constants DEF Settled, StoresIt
<1> QED BY <1>1, <1>3, <1>5, <1>7, <1>8, <1>9, <1>10, Concludes

LEMMA SweepOneTrue ==
  ASSUME TypeInv, NEW t \in Tabs, Alone(t, "command"), SweepOne(t)
  PROVE  StaysTrue(t)
<1> DEFINE c == thread[t]["command"]
<1> PICK y : y = tab[t] OBVIOUS
<1>0. "command" \in Threads BY DEF Threads
<1>1. /\ TabTrue(y, origin) /\ ThreadTrue(c, y, rows, origin, now)
      /\ Settled(c, y, rows, ended, now)
      /\ RowsTrue(rows, origin, ended) /\ Sole(t, "command") BY <1>0, InScene
<1>2. PICK r \in c.todo :
        /\ rows' = Without(r.sid) /\ ended' = ended \cup {r.sid}
        /\ \E d \in Local : /\ Goto(t, "command", d) /\ d.at = "sweeping"
                            /\ d.user = c.user /\ d.todo = c.todo \ {r} BY SweepOneFacts
<1>3. PICK d \in Local : /\ Goto(t, "command", d) /\ d.at = "sweeping"
                         /\ d.user = c.user /\ d.todo = c.todo \ {r} BY <1>2
<1>4. UNCHANGED <<tab, origin, now>> /\ c.at = "sweeping" BY DEF SweepOne, At
<1>5. y.current = r.sid /\ y.current # Nil => EndsIt(d, y)
  <2> SUFFICES ASSUME y.current = r.sid, y.current # Nil PROVE EndsIt(d, y) OBVIOUS
  <2>1. y.info # Nil BY <1>1, <1>4 DEF Settled
  <2>2. y.info.user = c.user BY <1>1, <1>4, <2>1 DEF TabTrue, ThreadTrue
  <2> QED BY <1>3, <2>1, <2>2 DEF EndsIt
<1>6. EndsIt(c, y) => EndsIt(d, y) BY <1>3, <1>4 DEF EndsIt
<1>7. RowsTrue(rows', origin', ended') BY <1>1, <1>2, <1>4 DEF RowsTrue, Without
<1>8. TabTrue(y, origin') /\ tab'[t] = y /\ (y.auth => tab[t].auth) BY <1>1, <1>4
<1>9. ThreadTrue(d, y, rows', origin', now') BY <1>1, <1>3, <1>4 DEF ThreadTrue
<1>10. Settled(d, y, rows', ended', now')
  <2>1. y.current # Nil => y.info # Nil BY <1>1, <1>4 DEF Settled
  <2>2. y.current # Nil /\ y.current \in ended' => EndsIt(d, y)
    BY <1>1, <1>2, <1>5, <1>6 DEF Settled
  <2>3. ASSUME y.kept, y.info # Nil, ~ Over(y.info, now), ~ Has(rows', y) PROVE EndsIt(d, y)
    <3>1. CASE Has(rows, y)
      <4>1. PICK q \in rows : q.sid = y.current /\ q.info = y.info BY <3>1 DEF Has
      <4>2. q \notin rows' BY <2>3, <4>1 DEF Has
      <4>3. y.current = r.sid BY <1>2, <4>1, <4>2 DEF Without
      <4> QED BY <1>1, <1>5, <2>3, <4>3 DEF TabTrue
    <3>2. CASE ~ Has(rows, y) BY <1>1, <1>4, <1>6, <2>3, <3>2 DEF Settled, StoresIt
    <3> QED BY <3>1, <3>2
  <2> QED BY <1>4, <2>1, <2>2, <2>3 DEF Settled
<1> QED BY <1>0, <1>1, <1>3, <1>7, <1>8, <1>9, <1>10, Concludes

LEMMA CleanOneTrue ==
  ASSUME TypeInv, NEW t \in Tabs, Alone(t, "cleanup"), CleanOne(t)
  PROVE  StaysTrue(t)
<1> DEFINE c == thread[t]["cleanup"]
<1> PICK y : y = tab[t] OBVIOUS
<1>0. "cleanup" \in Threads BY DEF Threads
<1>1. /\ TabTrue(y, origin) /\ ThreadTrue(c, y, rows, origin, now)
      /\ Settled(c, y, rows, ended, now)
      /\ RowsTrue(rows, origin, ended) /\ Sole(t, "cleanup") BY <1>0, InScene
<1>2. PICK r \in c.todo :
        /\ rows' = Without(r.sid)
        /\ \E d \in Local : /\ Goto(t, "cleanup", d)
                            /\ d = Idle \/ (d.at = "cleaning" /\ d.todo \subseteq c.todo \ {r})
  BY CleanOneFacts
<1>3. PICK d \in Local :
        /\ Goto(t, "cleanup", d)
        /\ d = Idle \/ (d.at = "cleaning" /\ d.todo \subseteq c.todo \ {r}) BY <1>2
<1>4. UNCHANGED <<tab, origin, ended, now>> /\ c.at = "cleaning" BY DEF CleanOne, At
<1>5. \A q \in c.todo : q \in rows /\ q.info.expires < now BY <1>1, <1>4 DEF ThreadTrue
<1>6. RowsTrue(rows', origin', ended') BY <1>1, <1>2, <1>4 DEF RowsTrue, Without
<1>7. TabTrue(y, origin') /\ tab'[t] = y /\ (y.auth => tab[t].auth) BY <1>1, <1>4
<1>8. ThreadTrue(d, y, rows', origin', now')
  <2>1. CASE d = Idle BY <2>1, IdleLocal DEF ThreadTrue
  <2>2. CASE d.at = "cleaning" /\ d.todo \subseteq c.todo \ {r}
    <3>1. \A q \in d.todo : q \in rows' /\ q.info.expires < now'
      BY <1>1, <1>2, <1>4, <1>5, <2>2 DEF RowsTrue, Without
    <3> QED BY <2>2, <3>1 DEF ThreadTrue
  <2> QED BY <1>3, <2>1, <2>2
<1>9. Settled(d, y, rows', ended', now')
  <2>1. (y.current # Nil => y.info # Nil) /\ (y.current # Nil => y.current \notin ended)
    BY <1>1, <1>4 DEF Settled, EndsIt
  <2>2. ASSUME y.kept, y.info # Nil, ~ Over(y.info, now), ~ Has(rows', y) PROVE FALSE
    <3>1. Has(rows, y) BY <1>1, <1>4, <2>2 DEF Settled, EndsIt, StoresIt
    <3>2. PICK q \in rows : q.sid = y.current /\ q.info = y.info BY <3>1 DEF Has
    <3>3. q.sid = r.sid BY <1>2, <2>2, <3>2 DEF Has, Without
    <3>4. r = q BY <1>1, <1>5, <3>3 DEF RowsTrue
    <3>5. y.info.expires < now /\ y.info \in Info /\ now \in Nat
      BY <1>1, <1>5, <2>2, <3>2, <3>4 DEF TabTrue, TypeInv, RestTyped
    <3> QED BY <2>2, <3>5 DEF Over, Info
  <2> QED BY <1>4, <2>1, <2>2 DEF Settled
<1> QED BY <1>0, <1>1, <1>3, <1>6, <1>7, <1>8, <1>9, Concludes

LEMMA ReloadTrue ==
  ASSUME TypeInv, NEW t \in Tabs, NEW k \in Threads, Alone(t, k), Reload(t)
  PROVE  StaysTrue(t)
<1> PICK y : y = tab'[t] OBVIOUS
<1> PICK d : d = thread'[t]["command"] OBVIOUS
<1>0. "command" \in Threads BY DEF Threads
<1>1. y.current = Nil /\ y.info = Nil /\ y.auth = FALSE BY ReloadFacts DEF Shows
<1>2. \A j \in Threads \ {"command"} : thread'[t][j].at = "idle" BY ReloadFacts, IdleLocal
<1>3. d = Idle \/ (rows # {} /\ d.at = "restoring" /\ d.todo = rows) BY <1>0, ReloadFacts
<1>4. UNCHANGED <<rows, origin, ended, now>> BY DEF Reload
<1>5. RowsTrue(rows', origin', ended') BY <1>4, InScene
<1>6. Scene(d, y, rows', origin', ended', now')
  BY <1>1, <1>3, <1>4, IdleLocal DEF Scene, TabTrue, ThreadTrue, Settled
<1> QED BY <1>0, <1>1, <1>2, <1>5, <1>6 DEF StaysTrue

(* The next row tried, or none left: the tab shows no session before.       *)
LEMMA TryNextTrue ==
  ASSUME TypeInv, NEW t \in Tabs, Alone(t, "command"),
         NEW x \in Tab, x.current = Nil, x.info = Nil, x.auth = FALSE,
         NEW base, (base = tab /\ x = tab[t]) \/ base = [tab EXCEPT ![t] = x],
         thread[t]["command"].todo \subseteq rows,
         TryNext(t, base), UNCHANGED <<inbox, origin, ended, reloads, now>>
  PROVE  StaysTrue(t)
<1> DEFINE todo == thread[t]["command"].todo
<1> PICK y : y = tab'[t] OBVIOUS
<1>0. "command" \in Threads /\ x.current \in Generated \cup {Nil} BY DEF Threads
<1>1. RowsTrue(rows, origin, ended) /\ Sole(t, "command") BY <1>0, InScene
<1>2. \/ /\ rows' \in {{}, rows} /\ Shows(t, x.current, x.info, x.auth)
         /\ Goto(t, "command", Idle)
      \/ /\ rows' = rows
         /\ \E r \in todo :
              /\ r \in Row /\ Shows(t, r.sid, r.info, x.auth)
              /\ \E d \in Local : /\ Goto(t, "command", d)
                                  /\ d.at = "opening" /\ d.then = "return"
                                  /\ d.todo = todo \ {r} BY <1>0, TryNextFacts
<1>3. CASE /\ rows' \in {{}, rows} /\ Shows(t, x.current, x.info, x.auth)
           /\ Goto(t, "command", Idle)
  <2>1. y.current = Nil /\ y.info = Nil /\ y.auth = FALSE BY <1>3 DEF Shows
  <2>2. RowsTrue(rows', origin', ended') BY <1>1, <1>3 DEF RowsTrue
  <2>3. TabTrue(y, origin') /\ ThreadTrue(Idle, y, rows', origin', now')
        /\ Settled(Idle, y, rows', ended', now') BY <2>1, IdleLocal DEF TabTrue, ThreadTrue, Settled
  <2> QED BY <1>0, <1>1, <1>3, <2>1, <2>2, <2>3, IdleLocal, Concludes
<1>4. ASSUME NEW r \in todo, r \in Row, Shows(t, r.sid, r.info, x.auth),
             NEW d \in Local, Goto(t, "command", d), d.at = "opening",
             d.then = "return", d.todo = todo \ {r}, rows' = rows
      PROVE  StaysTrue(t)
  <2>1. y.current = r.sid /\ y.info = r.info /\ y.auth = FALSE BY <1>4 DEF Shows
  <2>2. r \in rows /\ r.sid \notin ended /\ r.info.user = origin[r.sid].user
    BY <1>1, <1>4 DEF RowsTrue
  <2>3. r.sid \in Generated /\ r.info \in Data /\ r.sid # Nil
    BY <1>4, <2>2, Constants DEF TypeInv, RowsTyped, Row
  <2>4. r.info.user \in Users BY <2>2, <2>3, GeneratedFacts DEF TypeInv, Birth
  <2>5. r.info \in Info BY <2>3, <2>4, Constants, DataUser
  <2>6. \A q \in d.todo : q \in rows' /\ q.sid # y.current BY <1>1, <1>4, <2>1, <2>2 DEF RowsTrue
  <2>7. Has(rows', y) BY <1>4, <2>1, <2>2 DEF Has
  <2>8. RowsTrue(rows', origin', ended') BY <1>1, <1>4
  <2>9. TabTrue(y, origin') BY <2>1, <2>2, <2>3, <2>5 DEF TabTrue
  <2>10. ThreadTrue(d, y, rows', origin', now')
    BY <1>4, <2>1, <2>5, <2>6, <2>7, Constants DEF ThreadTrue
  <2>11. Settled(d, y, rows', ended', now') BY <2>1, <2>2, <2>5, <2>7, Constants DEF Settled
  <2> QED BY <1>0, <1>1, <1>4, <2>1, <2>8, <2>9, <2>10, <2>11, Concludes
<1> QED BY <1>2, <1>3, <1>4

LEMMA RestoresTrue ==
  ASSUME TypeInv, NEW t \in Tabs, Alone(t, "command"),
         \/ RestoreFirst(t) \/ RestoreSkips(t) \/ RestoreExpired(t)
         \/ EndThenRestore(t) \/ RestoreRotates(t)
  PROVE  StaysTrue(t)
<1> DEFINE c == thread[t]["command"]
<1>0. "command" \in Threads BY DEF Threads
<1>1. /\ TabTrue(tab[t], origin) /\ ThreadTrue(c, tab[t], rows, origin, now)
      /\ Settled(c, tab[t], rows, ended, now) /\ tab[t] \in Tab /\ c.todo \subseteq c.todo
  BY <1>0, SomeThread, InScene
<1>2. CASE RestoreFirst(t)
  <2>1. /\ tab[t].current = Nil /\ tab[t].info = Nil /\ tab[t].auth = FALSE
        /\ c.todo \subseteq rows BY <1>1, <1>2 DEF RestoreFirst, At, ThreadTrue
  <2> QED BY <1>1, <1>2, <2>1, TryNextTrue DEF RestoreFirst
<1>3. ~ RestoreSkips(t) BY <1>1 DEF RestoreSkips, HasSession, At, ThreadTrue, TabTrue
<1>4. CASE RestoreExpired(t)
  <2> DEFINE d == [c EXCEPT !.then = "restoreNext"]
  <2>1. LocalTyped(d) /\ d.todo = c.todo BY <1>4, RestoreLocals DEF RestoreExpired
  <2>2. /\ BeginEnd(t, "command", d) /\ UNCHANGED <<tab, inbox, origin, reloads, now>>
        /\ c.at = "opening" BY <1>4 DEF RestoreExpired, At
  <2>3. \A r \in d.todo : r \in rows /\ r.sid # tab[t].current BY <1>1, <2>1, <2>2 DEF ThreadTrue
  <2> HIDE DEF d
  <2> QED BY <1>0, <2>1, <2>2, <2>3, EndsTrue
<1>5. CASE EndThenRestore(t)
  <2>1. c.todo \subseteq rows BY <1>1, <1>5 DEF EndThenRestore, At, ThreadTrue
  <2> QED BY <1>5, <2>1, LoggedOutTab, TryNextTrue DEF EndThenRestore
<1>6. CASE RestoreRotates(t)
  <2> DEFINE d == [Idle EXCEPT !.then = "restored"]
  <2>1. LocalTyped(d) BY <1>6, RestoreLocals DEF RestoreRotates
  <2>2. /\ Rotate(t, "command", d) /\ ~ Expired(tab[t].info) /\ HasSession(t)
        /\ UNCHANGED <<inbox, ended, reloads, now>> /\ c.at = "opening"
    BY <1>6 DEF RestoreRotates, At
  <2> HIDE DEF d
  <2> QED BY <1>0, <2>1, <2>2, RotateTrue
<1> QED BY <1>2, <1>3, <1>4, <1>5, <1>6

(* Where nothing runs, any thread may be taken for the one that does.       *)
LEMMA AnyIdle ==
  ASSUME OneTabInv, NEW t \in Tabs, Quiet(t), NEW k \in Threads
  PROVE  Alone(t, k) /\ thread[t][k].at = "idle"
<1>1. PICK j \in Threads : Scene(thread[t][j], tab[t], rows, origin, ended, now) BY DEF OneTabInv
<1>2. thread[t][j].at = "idle" /\ thread[t][k].at = "idle" /\ Sole(t, k) BY DEF Quiet, Sole
<1>3. ThreadTrue(thread[t][k], tab[t], rows, origin, now) BY <1>2 DEF ThreadTrue
<1>4. Settled(thread[t][k], tab[t], rows, ended, now)
  BY <1>1, <1>2 DEF Scene, Settled, EndsIt, StoresIt
<1> QED BY <1>1, <1>2, <1>3, <1>4 DEF Scene, Alone, OneTabInv

LEMMA StartTrue ==
  ASSUME OneTab, TypeInv, OneTabInv, NEW t \in Tabs, Start(t)
  PROVE  StaysTrue(t)
<1>0. {"command", "refresh", "check", "cleanup"} \subseteq Threads /\ LocalTyped(Idle)
  BY IdleTyped DEF Threads
<1>1. CASE Reload(t)
  <2>1. PICK k \in Threads : Alone(t, k) BY DEF OneTabInv, Alone
  <2> QED BY <1>1, <2>1, ReloadTrue
<1>2. CASE ~ Reload(t)
  <2>1. Quiet(t) BY <1>2 DEF Start, OneTab, Login, LogoutAll, Logout, Refresh, CheckExpires,
                CheckRotates, Cleanup, MayStart
  <2>2. \A k \in Threads : Alone(t, k) /\ thread[t][k].at = "idle" BY <2>1, AnyIdle
  <2>3. CASE \/ \E user \in Users, remember \in BOOLEAN : Login(t, user, remember)
             \/ \E user \in Users : LogoutAll(t, user)
             \/ Cleanup(t) BY <1>0, <2>2, <2>3, BeginsTrue
  <2>4. CASE Logout(t) BY <1>0, <2>2, <2>4, IdleLocal, EndsTrue DEF Logout
  <2>5. CASE Refresh(t) BY <1>0, <2>2, <2>5, RefreshTrue
  <2>6. CASE CheckExpires(t) BY <1>0, <2>2, <2>6, IdleLocal, EndsTrue DEF CheckExpires
  <2>7. CASE CheckRotates(t) BY <1>0, <2>2, <2>7, RotateTrue DEF CheckRotates
  <2> QED BY <1>2, <2>3, <2>4, <2>5, <2>6, <2>7 DEF Start
<1> QED BY <1>1, <1>2

(* A thread that goes on is the one that runs.                              *)
LEMMA ContinueTrue ==
  ASSUME TypeInv, OneTabInv, NEW t \in Tabs, NEW k \in Threads, Continue(t, k)
  PROVE  StaysTrue(t)
<1>0. "command" \in Threads /\ LocalTyped(thread[t]["command"]) BY SomeThread DEF Threads
<1>1. thread[t][k].at # "idle"
  BY DEF Continue, CommandContinues, EndAnnounces, EndReturns, EndThenLogoutAll,
         EndThenLogin, RotateStores, Put, PutFails, Refused, Authenticate, CleanOne,
         EnforceLimit, LoginEndsOld, LoginWithoutOld, FillInfo, PersistNew, SweepOne,
         SweepEndsOwn, SweepReturns, RestoreFirst, RestoreSkips, RestoreExpired,
         EndThenRestore, RestoreRotates, RestoreSucceeds, At
<1>2. Alone(t, k)
  <2>1. PICK j \in Threads :
          Sole(t, j) /\ Scene(thread[t][j], tab[t], rows, origin, ended, now) BY DEF OneTabInv
  <2>2. j = k BY <1>1, <2>1 DEF Sole
  <2> QED BY <2>1, <2>2 DEF Alone, OneTabInv
<1>3. CASE \/ EndAnnounces(t, k) \/ EndReturns(t, k) \/ EndThenLogoutAll(t, k)
           \/ PutFails(t, k) \/ Refused(t, k) \/ Authenticate(t, k)
           \/ (k = "command" /\ (SweepReturns(t) \/ RestoreSucceeds(t))) BY <1>2, <1>3, ParksTrue
<1>4. CASE EndThenLogin(t, k) \/ (k = "command" /\ LoginWithoutOld(t)) BY <1>2, <1>4, NewLoginTrue
<1>5. CASE RotateStores(t, k) \/ (k = "command" /\ PersistNew(t)) BY <1>2, <1>5, PersistsTrue
<1>6. CASE Put(t, k) BY <1>2, <1>6, PutTrue
<1>7. CASE k = "cleanup" /\ CleanOne(t) BY <1>2, <1>7, CleanOneTrue
<1>8. CASE k = "command" /\ (LoginEndsOld(t) \/ SweepEndsOwn(t))
  <2> DEFINE c == thread[t]["command"]
  <2>1. /\ BeginEnd(t, "command", c) /\ UNCHANGED <<tab, inbox, origin, reloads, now>>
        /\ c.at \in {"ending", "sweeping"} BY <1>8 DEF LoginEndsOld, SweepEndsOwn, At
  <2>2. c.then = "restoreNext" => c.todo = {}
    BY <1>0, <1>8 DEF LocalTyped, LoginEndsOld, SweepEndsOwn, At
  <2> QED BY <1>0, <1>2, <1>8, <2>1, <2>2, EndsTrue
<1>9. CASE /\ k = "command"
           /\ \/ RestoreFirst(t) \/ RestoreSkips(t) \/ RestoreExpired(t)
              \/ EndThenRestore(t) \/ RestoreRotates(t) BY <1>2, <1>9, RestoresTrue
<1>10. CASE k = "command" /\ (EnforceLimit(t) \/ FillInfo(t) \/ SweepOne(t))
  BY <1>2, <1>10, BeginsTrue, FillInfoTrue, SweepOneTrue
<1> QED BY <1>3, <1>4, <1>5, <1>6, <1>7, <1>8, <1>9, <1>10 DEF Continue, CommandContinues

(* The only tab has no other to hear from.                                  *)
LEMMA NothingArrives ==
  ASSUME OneTab, TypeInv, OneTabInv, NEW t \in Tabs,
         Start(t) \/ \E k \in Threads : Continue(t, k)
  PROVE  inbox'[t] = <<>>
<1>1. inbox \in [Tabs -> Seq(Message)] /\ inbox[t] = <<>> BY DEF TypeInv, InboxTyped, OneTabInv
<1>2. ASSUME NEW m, Post(t, m) PROVE inbox'[t] = <<>> BY <1>1, <1>2 DEF Post
<1>3. CASE Start(t)
  BY <1>1, <1>3 DEF Start, Login, LogoutAll, Logout, Refresh, CheckExpires, CheckRotates,
                    Cleanup, Reload
<1>4. ASSUME NEW k \in Threads, Continue(t, k) PROVE inbox'[t] = <<>>
  <2>1. CASE EndAnnounces(t, k) \/ EndThenLogoutAll(t, k) \/ SweepReturns(t)
    BY <1>2, <2>1 DEF EndAnnounces, EndThenLogoutAll, SweepReturns
  <2>2. CASE ~ (EndAnnounces(t, k) \/ EndThenLogoutAll(t, k) \/ SweepReturns(t))
    <3>1. inbox' = inbox BY <1>4, <2>2
         DEF Continue, CommandContinues, EndReturns, EndThenLogin, RotateStores, Put,
             PutFails, Refused, Authenticate, CleanOne, EnforceLimit, LoginEndsOld,
             LoginWithoutOld, FillInfo, PersistNew, SweepOne, SweepEndsOwn, RestoreFirst,
             RestoreSkips, RestoreExpired, EndThenRestore, RestoreRotates, RestoreSucceeds
    <3> QED BY <1>1, <3>1
  <2> QED BY <2>1, <2>2
<1> QED BY <1>3, <1>4

LEMMA OneTabStarts == Init => OneTabInv
<1> SUFFICES ASSUME Init PROVE OneTabInv OBVIOUS
<1>1. RowsTrue(rows, origin, ended) BY DEF Init, RowsTrue
<1>2. ASSUME NEW t \in Tabs
      PROVE  inbox[t] = <<>> /\ \E k \in Threads :
               Sole(t, k) /\ Scene(thread[t][k], tab[t], rows, origin, ended, now)
  <2>0. "command" \in Threads BY DEF Threads
  <2>1. inbox[t] = <<>> /\ tab[t] = LoggedOut /\ \A k \in Threads : thread[t][k] = Idle BY DEF Init
  <2>2. Sole(t, "command") BY <2>1, IdleLocal DEF Sole
  <2>3. Scene(Idle, LoggedOut, rows, origin, ended, now)
    BY IdleLocal, LoggedOutTab DEF Scene, TabTrue, ThreadTrue, Settled
  <2> QED BY <2>0, <2>1, <2>2, <2>3
<1> QED BY <1>1, <1>2 DEF OneTabInv

LEMMA OneTabStep ==
  ASSUME OneTab, TypeInv, OneTabInv, [Next]_vars
  PROVE  OneTabInv' /\ RestoresLive
<1>1. ASSUME NEW t \in Tabs, Start(t) \/ \E k \in Threads : Continue(t, k)
      PROVE  OneTabInv' /\ RestoresLive
  <2>1. StaysTrue(t) BY <1>1, StartTrue, ContinueTrue
  <2>2. inbox'[t] = <<>> BY <1>1, NothingArrives
  <2>3. \A u \in Tabs : u = t BY DEF OneTab
  <2>4. OneTabInv' BY <2>1, <2>2, <2>3 DEF OneTabInv, StaysTrue, Sole
  <2>5. RestoresLive BY <2>1, <2>3 DEF RestoresLive, StaysTrue
  <2> QED BY <2>4, <2>5
<1>2. ASSUME NEW t \in Tabs, Deliver(t) PROVE FALSE BY <1>2 DEF Deliver, OneTabInv
<1>3. CASE UNCHANGED vars BY <1>3 DEF vars, OneTabInv, Sole, RestoresLive
<1>4. CASE Tick
  <2>1. UNCHANGED <<rows, tab, thread, inbox, origin, ended>> /\ now' = now + 1
        /\ \A t \in Tabs : Quiet(t) BY <1>4 DEF Tick
  <2>2. ASSUME NEW t \in Tabs
        PROVE  inbox'[t] = <<>> /\ \E k \in Threads :
                 Sole(t, k)' /\ Scene(thread'[t][k], tab'[t], rows', origin', ended', now')
    <3>1. PICK k \in Threads :
            Sole(t, k) /\ Scene(thread[t][k], tab[t], rows, origin, ended, now) BY DEF OneTabInv
    <3>2. thread[t][k].at = "idle" BY <2>1 DEF Quiet
    <3>3. \A i \in Info : Over(i, now) => Over(i, now + 1)
      BY Constants DEF Over, Info, TypeInv, RestTyped
    <3>4. ThreadTrue(thread[t][k], tab[t], rows, origin, now + 1) BY <3>2 DEF ThreadTrue
    <3>5. TabTrue(tab[t], origin) /\ Settled(thread[t][k], tab[t], rows, ended, now)
      BY <3>1 DEF Scene
    <3>6. Settled(thread[t][k], tab[t], rows, ended, now + 1) BY <3>3, <3>5 DEF Settled, TabTrue
    <3>7. Scene(thread[t][k], tab[t], rows, origin, ended, now + 1) BY <3>4, <3>5, <3>6 DEF Scene
    <3> QED BY <2>1, <3>1, <3>7 DEF Sole, OneTabInv
  <2>3. RowsTrue(rows', origin', ended') BY <2>1 DEF OneTabInv
  <2>4. OneTabInv' BY <2>2, <2>3 DEF OneTabInv
  <2> QED BY <2>1, <2>4 DEF RestoresLive
<1> QED BY <1>1, <1>2, <1>3, <1>4 DEF Next

LEMMA OneTabIsSound ==
  ASSUME TypeInv, OneTabInv
  PROVE  SessionsAreTrue
<1>1. EndedStaysEnded /\ RowsBelongToOwner
  BY DEF OneTabInv, RowsTrue, EndedStaysEnded, RowsBelongToOwner
<1>2. ASSUME NEW t \in Tabs
      PROVE  /\ tab[t].auth => tab[t].current # Nil /\ tab[t].info # Nil
             /\ Quiet(t) /\ tab[t].kept /\ tab[t].auth /\ ~ Expired(tab[t].info) =>
                  \E r \in rows : r.sid = tab[t].current /\ r.info = tab[t].info
  <2>1. PICK k \in Threads : Scene(thread[t][k], tab[t], rows, origin, ended, now) BY DEF OneTabInv
  <2>2. TabTrue(tab[t], origin) /\ Settled(thread[t][k], tab[t], rows, ended, now) BY <2>1 DEF Scene
  <2>3. ASSUME Quiet(t), tab[t].kept, tab[t].auth, ~ Expired(tab[t].info)
        PROVE  \E r \in rows : r.sid = tab[t].current /\ r.info = tab[t].info
    <3>1. thread[t][k].at = "idle" /\ tab[t].info \in Info /\ tab[t].info # Nil
      BY <2>2, <2>3 DEF Quiet, TabTrue
    <3>2. ~ Over(tab[t].info, now) BY <2>3, <3>1, OverFacts
    <3> QED BY <2>2, <2>3, <3>1, <3>2 DEF Settled, EndsIt, StoresIt, Has
  <2> QED BY <2>2, <2>3 DEF TabTrue
<1>3. AuthMeansSession /\ LoggedInIsStored BY <1>2 DEF AuthMeansSession, LoggedInIsStored
<1> QED BY <1>1, <1>3, TypesHold DEF SessionsAreTrue

LEMMA OneTabInductive ==
  ASSUME OneTab
  PROVE  /\ Init => TypeInv /\ OneTabInv
         /\ TypeInv /\ OneTabInv /\ [Next]_vars =>
              TypeInv' /\ OneTabInv' /\ [RestoresLive]_vars
<1>1. Init => TypeInv /\ OneTabInv BY TypeStart, OneTabStarts
<1>2. ASSUME TypeInv, OneTabInv, [Next]_vars
      PROVE  TypeInv' /\ OneTabInv' /\ [RestoresLive]_vars BY <1>2, TypeStep, OneTabStep
<1> QED BY <1>1, <1>2

(* session_manager.js in one tab whose operations follow each other, but    *)
(* may be cut off by a page load at any await, and whose calls of the       *)
(* database may be refused: what was removed stays removed, each row        *)
(* belongs to its owner, logged in means a session is shown, and at rest it *)
(* is found again after a page load unless it has expired or its last write *)
(* was refused.                                                            *)
THEOREM SessionsStayTrue ==
  ASSUME OneTab
  PROVE  Spec => []SessionsAreTrue
<1>1. TypeInv /\ OneTabInv => SessionsAreTrue BY OneTabIsSound
<1> QED BY <1>1, OneTabInductive, PTL DEF Spec

(* A page load of the one tab logs in with a stored session that has not    *)
(* expired, only.                                                          *)
THEOREM RestoresStayLive ==
  ASSUME OneTab
  PROVE  Spec => RestoresOnlyLive
<1> QED BY OneTabInductive, PTL DEF Spec, RestoresOnlyLive
=============================================================================
