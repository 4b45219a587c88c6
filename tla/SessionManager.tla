--------------------------- MODULE SessionManager ---------------------------
(***************************************************************************)
(* core/auth/session_manager.js in several browser tabs: the sessions store *)
(* of IndexedDB is shared, every tab has its own current session, and tabs  *)
(* tell each other of logouts over a BroadcastChannel.                      *)
(*                                                                         *)
(* In a tab one command of the user (login, logout, end_all_user_sessions,  *)
(* or the restore of a page load) runs at a time; a refresh by the activity *)
(* listener, a validity check and the cleanup run beside it as threads of   *)
(* their own.  A thread stops at every await; a database request takes      *)
(* effect when it is issued and its answer continues the thread.  Awaits    *)
(* are short against the timeouts, so time passes only while no thread      *)
(* runs.  The configuration is the default one: 2FA off, encryption on.     *)
(* The cache of sessions (written, never read), analytics, the audit log,   *)
(* device data and the messages that receivers only log are left out.       *)
(***************************************************************************)
EXTENDS Integers, Sequences, FiniteSets

CONSTANTS
  Tabs, Users,
  NoUser,            \* user_id of a row stored without data
  Nil,               \* null
  MaxSessions,       \* max_concurrent_sessions
  Timeout,           \* timeout_duration
  RememberFor,       \* the 30 days of remember_me
  RotationInterval,  \* rotation_interval
  Ops,               \* the operations that happen
  Overlap,           \* may a tab's threads run side by side?
  MaxSid,            \* bound: session ids generated
  MaxReloads,        \* bound: page loads
  MaxInbox,          \* bound: messages under way to a tab
  MaxTime            \* bound: the clock

AllOps == {"login", "remember", "logout", "logoutAll", "refresh", "check",
           "rotate", "cleanup",
           "refuse"}   \* the database refuses a call

ASSUME SessionAssumption ==
  /\ MaxSessions \in Nat \ {0} /\ {MaxSid, MaxReloads} \subseteq Nat
  /\ {Timeout, RememberFor, RotationInterval} \subseteq Nat
  /\ NoUser \notin Users
  /\ Ops \subseteq AllOps /\ Overlap \in BOOLEAN

VARIABLES
  rows,     \* the store: records with the key, the session data, last_activity
  tab,      \* tab -> #current_session_id, #session_info, is_authenticated; history:
            \* kept, FALSE once a write of the session it shows was refused
  thread,   \* tab -> thread -> where it waits, and its locals
  inbox,    \* tab -> messages of the channel not yet delivered
  origin,   \* session id -> the user and the login it was generated for
  ended,    \* history: ids whose rows end_session or end_all did remove
  reloads,  \* page loads so far
  now       \* Date.now()

vars == <<rows, tab, thread, inbox, origin, ended, reloads, now>>

Sids == 1..MaxSid
Threads == {"command", "refresh", "check", "cleanup"}

(* #session_info; rotated is last_rotation || created_at, and sid is null   *)
(* when a logout arrived while the device data was collected.               *)
Info == [sid : Sids \cup {Nil}, user : Users, created : Nat, expires : Nat, last : Nat,
         rotated : Nat, remember : BOOLEAN]
(* {...null}: what is stored when #session_info is null by then.            *)
Empty == [sid |-> 0, user |-> NoUser, created |-> 0, expires |-> 0, last |-> 0,
          rotated |-> 0, remember |-> FALSE]
Data == Info \cup {Empty}
Row == [sid : Sids, info : Data, last : Nat]

ASSUME NilAssumption == Nil \notin Nat /\ Nil \notin Data

LoggedOut == [current |-> Nil, info |-> Nil, auth |-> FALSE, kept |-> TRUE]
Idle == [at |-> "idle", then |-> "return", user |-> NoUser, remember |-> FALSE,
         sid |-> Nil, copy |-> Empty, todo |-> {}]

(* Where a thread awaits.                                                   *)
Labels == {"idle", "enforcing", "ending", "removed", "audited", "device",
           "encrypting", "putting", "stored", "sweeping", "restoring",
           "opening", "rotating", "cleaning", "refused"}
(* What a thread does once end_session or #persist_session returns.         *)
Thens == {"return", "login", "logoutAll", "authenticate", "restoreNext",
          "restored"}

Spread(info) == IF info = Nil THEN Empty ELSE info
RowsOf(user) == {r \in rows : r.info.user = user}
Without(sid) == {r \in rows : r.sid # sid}

Generated == DOMAIN origin
NewSid == Len(origin) + 1
Root(sid) == origin[sid].root
SameLogin(s, sid) == {s, sid} \subseteq Generated /\ Root(s) = Root(sid)

Expiry(remember) == now + (IF remember THEN RememberFor ELSE Timeout)

(* Comparisons with the undefined fields of Empty are false.                *)
Expired(info) ==
  info # Empty /\ (now > info.expires \/ now - info.last > Timeout)
RotationDue(info) ==
  /\ info # Empty
  /\ now - info.created > RotationInterval
  /\ now - info.rotated > RotationInterval

Quiet(t) == \A k \in Threads : thread[t][k].at = "idle"
MayStart(t, k) == IF Overlap THEN thread[t][k].at = "idle" ELSE Quiet(t)

At(t, k, label) == thread[t][k].at = label
Goto(t, k, local) == thread' = [thread EXCEPT ![t][k] = local]
Self(t, k, label) == [thread[t][k] EXCEPT !.at = label]
Post(t, message) ==
  /\ \A u \in Tabs \ {t} : Len(inbox[u]) < MaxInbox
  /\ inbox' = [u \in Tabs |-> IF u = t THEN inbox[u]
                                       ELSE Append(inbox[u], message)]

Init ==
  /\ rows = {} /\ origin = <<>> /\ ended = {}
  /\ tab = [t \in Tabs |-> LoggedOut]
  /\ thread = [t \in Tabs |-> [k \in Threads |-> Idle]]
  /\ inbox = [t \in Tabs |-> <<>>]
  /\ reloads = 0 /\ now = 0

(* All tabs show the session of one login, as after they restored it.       *)
InitShared ==
  \E user \in Users, remember \in BOOLEAN :
    LET info == [sid |-> 1, user |-> user, created |-> 0,
                 expires |-> Expiry(remember), last |-> 0, rotated |-> 0,
                 remember |-> remember]
    IN
    /\ now = 0 /\ reloads = 0 /\ ended = {}
    /\ "remember" \notin Ops => ~ remember
    /\ rows = {[sid |-> 1, info |-> info, last |-> 0]}
    /\ origin = <<[user |-> user, root |-> 1]>>
    /\ tab = [t \in Tabs |-> [current |-> 1, info |-> info, auth |-> TRUE,
                              kept |-> TRUE]]
    /\ thread = [t \in Tabs |-> [k \in Threads |-> Idle]]
    /\ inbox = [t \in Tabs |-> <<>>]
-----------------------------------------------------------------------------
(* end_session up to its first await: the row of the current session, if    *)
(* there is one, is removed.  #remove_session catches a refusal, and the    *)
(* logout goes on.                                                          *)
M_BeginEnd(t, k, local) ==
  /\ tab[t].current # Nil
  /\ ended' = ended \cup {tab[t].current}
  /\ Goto(t, k, [local EXCEPT !.at = "removed", !.sid = tab[t].current])
  /\ UNCHANGED rows
BeginEnd(t, k, local) ==
  /\ tab[t].current # Nil
  /\ \/ /\ rows' = Without(tab[t].current)
        /\ ended' = ended \cup {tab[t].current}
     \/ "refuse" \in Ops /\ UNCHANGED <<rows, ended>>
  /\ Goto(t, k, [local EXCEPT !.at = "removed", !.sid = tab[t].current])

M_EndAnnounces(t, k) ==
  /\ At(t, k, "removed")
  /\ Goto(t, k, Self(t, k, "audited"))
  /\ UNCHANGED <<rows, tab, inbox, origin, ended, reloads, now>>
EndAnnounces(t, k) ==
  /\ At(t, k, "removed")
  /\ Post(t, [type |-> "SESSION_ENDED", sid |-> thread[t][k].sid])
  /\ Goto(t, k, Self(t, k, "audited"))
  /\ UNCHANGED <<rows, tab, origin, ended, reloads, now>>

(* The rest of end_session, then its caller.  Whatever session the tab has  *)
(* by now is the one it forgets.                                           *)
EndReturns(t, k) ==
  /\ At(t, k, "audited") /\ thread[t][k].then = "return"
  /\ tab' = [tab EXCEPT ![t] = LoggedOut]
  /\ Goto(t, k, Idle)
  /\ UNCHANGED <<rows, inbox, origin, ended, reloads, now>>

EndThenLogoutAll(t, k) ==
  /\ At(t, k, "audited") /\ thread[t][k].then = "logoutAll"
  /\ tab' = [tab EXCEPT ![t] = LoggedOut]
  /\ Post(t, [type |-> "LOGOUT_ALL", sid |-> Nil])
  /\ Goto(t, k, Idle)
  /\ UNCHANGED <<rows, origin, ended, reloads, now>>

Generate(user, root) ==
  /\ NewSid \in Sids
  /\ origin' = Append(origin, [user |-> user, root |-> root])

EndThenLogin(t, k) ==
  /\ At(t, k, "audited") /\ thread[t][k].then = "login"
  /\ Generate(thread[t][k].user, NewSid)
  /\ tab' = [tab EXCEPT ![t] = [LoggedOut EXCEPT !.current = NewSid]]
  /\ Goto(t, k, Self(t, k, "device"))
  /\ UNCHANGED <<rows, inbox, ended, reloads, now>>

Logout(t) ==
  /\ "logout" \in Ops /\ MayStart(t, "command")
  /\ BeginEnd(t, "command", Idle)
  /\ UNCHANGED <<tab, inbox, origin, reloads, now>>
-----------------------------------------------------------------------------
(* create_session, with the rows #enforce_concurrent_session_limit reads.   *)
Login(t, user, remember) ==
  /\ "login" \in Ops /\ (remember => "remember" \in Ops)
  /\ MayStart(t, "command")
  /\ Goto(t, "command", [Idle EXCEPT !.at = "enforcing", !.user = user,
                           !.remember = remember, !.then = "login",
                           !.todo = RowsOf(user)])
  /\ UNCHANGED <<rows, tab, inbox, origin, ended, reloads, now>>

LimitReached(found) == Cardinality(found) >= MaxSessions

EnforceLimit(t) ==
  /\ At(t, "command", "enforcing")
  /\ LET found == thread[t]["command"].todo IN
     IF LimitReached(found)
       THEN \E r \in found :
              /\ \A s \in found : r.info.created <= s.info.created
              /\ rows' = Without(r.sid)
       ELSE UNCHANGED rows
  /\ Goto(t, "command", [Self(t, "command", "ending") EXCEPT !.todo = {}])
  /\ UNCHANGED <<tab, inbox, origin, ended, reloads, now>>

LoginEndsOld(t) ==
  /\ At(t, "command", "ending")
  /\ BeginEnd(t, "command", thread[t]["command"])
  /\ UNCHANGED <<tab, inbox, origin, reloads, now>>

LoginWithoutOld(t) ==
  /\ At(t, "command", "ending") /\ tab[t].current = Nil
  /\ Generate(thread[t]["command"].user, NewSid)
  /\ tab' = [tab EXCEPT ![t].current = NewSid]
  /\ Goto(t, "command", Self(t, "command", "device"))
  /\ UNCHANGED <<rows, inbox, ended, reloads, now>>

(* device_info has arrived: #session_info is filled in. *)
FillInfo(t) ==
  /\ At(t, "command", "device")
  /\ LET c == thread[t]["command"] IN
     tab' = [tab EXCEPT ![t].info =
       [sid |-> tab[t].current, user |-> c.user, created |-> now,
        expires |-> Expiry(c.remember), last |-> now, rotated |-> now,
        remember |-> c.remember]]
  /\ Goto(t, "command", Self(t, "command", "encrypting"))
  /\ UNCHANGED <<rows, inbox, origin, ended, reloads, now>>

(* #persist_session: a copy is encrypted, then stored under the id that is  *)
(* current by then.                                                        *)
Persist(t, k, local, info) ==
  Goto(t, k, [local EXCEPT !.at = "putting", !.copy = Spread(info)])

PersistNew(t) ==
  /\ At(t, "command", "encrypting")
  /\ Persist(t, "command", [thread[t]["command"] EXCEPT !.then = "authenticate"],
             tab[t].info)
  /\ UNCHANGED <<rows, tab, inbox, origin, ended, reloads, now>>

StoredKey(t, k) == tab[t].current

Put(t, k) ==
  /\ At(t, k, "putting")
  /\ StoredKey(t, k) \in Sids
  /\ rows' = Without(StoredKey(t, k)) \cup
       {[sid |-> StoredKey(t, k), info |-> thread[t][k].copy, last |-> now]}
  /\ tab' = [tab EXCEPT ![t].kept = TRUE]
  /\ Goto(t, k, IF thread[t][k].then = "return" THEN Idle ELSE Self(t, k, "stored"))
  /\ UNCHANGED <<inbox, origin, ended, reloads, now>>

(* The database refuses a row without a key; the operation fails. *)
PutFails(t, k) ==
  /\ At(t, k, "putting")
  /\ StoredKey(t, k) \notin Sids
  /\ Goto(t, k, Idle)
  /\ UNCHANGED <<rows, tab, inbox, origin, ended, reloads, now>>

Authenticate(t, k) ==
  /\ At(t, k, "stored")
  /\ tab' = [tab EXCEPT ![t].auth = TRUE]
  /\ Goto(t, k, Idle)
  /\ UNCHANGED <<rows, inbox, origin, ended, reloads, now>>
-----------------------------------------------------------------------------
HasSession(t) == tab[t].current # Nil /\ tab[t].info # Nil

Touched(info) ==
  [info EXCEPT !.last = now,
               !.expires = IF info.remember THEN Expiry(TRUE) ELSE @]

(* The activity listener is set up once the restore has ended.              *)
Restoring(t) ==
  \/ thread[t]["command"].at \in {"restoring", "opening"}
  \/ thread[t]["command"].then \in {"restoreNext", "restored"}

(* refresh, for every mousedown, keydown, scroll or touchstart. *)
Refresh(t) ==
  /\ "refresh" \in Ops /\ MayStart(t, "refresh") /\ ~ Restoring(t)
  /\ HasSession(t)
  /\ tab[t].info # Empty
  /\ tab' = [tab EXCEPT ![t].info = Touched(@)]
  /\ Persist(t, "refresh", Idle, Touched(tab[t].info))
  /\ UNCHANGED <<rows, inbox, origin, ended, reloads, now>>

(* #rotate_session up to its first await, the removal of the old row. *)
Rotate(t, k, local) ==
  /\ tab[t].info # Nil /\ tab[t].info # Empty
  /\ Generate(tab[t].info.user, Root(tab[t].current))
  /\ tab' = [tab EXCEPT ![t].current = NewSid, ![t].info.sid = NewSid,
                        ![t].info.rotated = now]
  /\ \/ /\ rows' = Without(tab[t].current)
        /\ Goto(t, k, [local EXCEPT !.at = "rotating"])
     \/ /\ "refuse" \in Ops /\ UNCHANGED rows
        /\ Goto(t, k, [local EXCEPT !.at = "refused"])

(* is_valid, apart from the restore. *)
CheckExpires(t) ==
  /\ "check" \in Ops /\ MayStart(t, "check")
  /\ HasSession(t)
  /\ Expired(tab[t].info)
  /\ BeginEnd(t, "check", Idle)
  /\ UNCHANGED <<tab, inbox, origin, reloads, now>>

CheckRotates(t) ==
  /\ "rotate" \in Ops /\ MayStart(t, "check")
  /\ HasSession(t)
  /\ ~ Expired(tab[t].info) /\ RotationDue(tab[t].info)
  /\ Rotate(t, "check", Idle)
  /\ UNCHANGED <<inbox, ended, reloads, now>>

RotateStores(t, k) ==
  /\ At(t, k, "rotating")
  /\ Persist(t, k, thread[t][k], tab[t].info)
  /\ UNCHANGED <<rows, tab, inbox, origin, ended, reloads, now>>
-----------------------------------------------------------------------------
(* end_all_user_sessions: the rows found are deleted one by one, then the   *)
(* tab's own session is ended if it is this user's.                         *)
LogoutAll(t, user) ==
  /\ "logoutAll" \in Ops /\ MayStart(t, "command")
  /\ Goto(t, "command", [Idle EXCEPT !.at = "sweeping", !.user = user,
                           !.then = "logoutAll", !.todo = RowsOf(user)])
  /\ UNCHANGED <<rows, tab, inbox, origin, ended, reloads, now>>

SweepOne(t) ==
  /\ At(t, "command", "sweeping")
  /\ \E r \in thread[t]["command"].todo :
       /\ rows' = Without(r.sid)
       /\ ended' = ended \cup {r.sid}
       /\ Goto(t, "command", [thread[t]["command"] EXCEPT !.todo = @ \ {r}])
  /\ UNCHANGED <<tab, inbox, origin, reloads, now>>

OwnSession(t) ==
  tab[t].info # Nil /\ tab[t].info.user = thread[t]["command"].user

SweepEndsOwn(t) ==
  /\ At(t, "command", "sweeping") /\ thread[t]["command"].todo = {}
  /\ OwnSession(t)
  /\ BeginEnd(t, "command", thread[t]["command"])
  /\ UNCHANGED <<tab, inbox, origin, reloads, now>>

SweepReturns(t) ==
  /\ At(t, "command", "sweeping") /\ thread[t]["command"].todo = {}
  /\ ~ OwnSession(t)
  /\ Post(t, [type |-> "LOGOUT_ALL", sid |-> Nil])
  /\ Goto(t, "command", Idle)
  /\ UNCHANGED <<rows, tab, origin, ended, reloads, now>>

(* #handle_remote_session_ended and #handle_remote_logout_all. *)
Forgets(t, message) ==
  message.type = "LOGOUT_ALL" \/ message.sid = tab[t].current

Deliver(t) ==
  /\ inbox[t] # <<>>
  /\ inbox' = [inbox EXCEPT ![t] = Tail(@)]
  /\ tab' = IF Forgets(t, Head(inbox[t])) THEN [tab EXCEPT ![t] = LoggedOut]
                                          ELSE tab
  /\ UNCHANGED <<rows, thread, origin, ended, reloads, now>>
-----------------------------------------------------------------------------
(* A page load, at any moment: what ran in the tab is gone, and #initialize *)
(* reads the store.                                                        *)
Reload(t) ==
  /\ reloads < MaxReloads
  /\ reloads' = reloads + 1
  /\ tab' = [tab EXCEPT ![t] = LoggedOut]
  /\ inbox' = [inbox EXCEPT ![t] = <<>>]
  /\ thread' = [thread EXCEPT ![t] =
       [k \in Threads |-> IF k = "command" /\ rows # {}
                            THEN [Idle EXCEPT !.at = "restoring", !.todo = rows]
                            ELSE Idle]]
  /\ UNCHANGED <<rows, origin, ended, now>>

(* One turn of the loop of #restore_session over the rows left: the newest  *)
(* one becomes current, or, when none is left, the store is cleared.        *)
TryNext(t, base) ==
  LET todo == thread[t]["command"].todo IN
  \/ /\ todo = {}
     /\ rows' = {} \/ ("refuse" \in Ops /\ UNCHANGED rows)
     /\ tab' = base
     /\ Goto(t, "command", Idle)
  \/ \E r \in todo :
       /\ \A s \in todo : s.last <= r.last
       /\ tab' = [base EXCEPT ![t].current = r.sid, ![t].info = r.info]
       /\ Goto(t, "command", [Idle EXCEPT !.at = "opening", !.todo = todo \ {r}])
       /\ UNCHANGED rows

RestoreFirst(t) ==
  /\ At(t, "command", "restoring")
  /\ TryNext(t, tab)
  /\ UNCHANGED <<inbox, origin, ended, reloads, now>>

(* The user data is decrypted; is_valid is asked. *)
RestoreSkips(t) ==
  /\ At(t, "command", "opening")
  /\ ~ HasSession(t)
  /\ TryNext(t, tab)
  /\ UNCHANGED <<inbox, origin, ended, reloads, now>>

RestoreExpired(t) ==
  /\ At(t, "command", "opening")
  /\ HasSession(t) /\ Expired(tab[t].info)
  /\ BeginEnd(t, "command", [thread[t]["command"] EXCEPT !.then = "restoreNext"])
  /\ UNCHANGED <<tab, inbox, origin, reloads, now>>

EndThenRestore(t) ==
  /\ At(t, "command", "audited") /\ thread[t]["command"].then = "restoreNext"
  /\ TryNext(t, [tab EXCEPT ![t] = LoggedOut])
  /\ UNCHANGED <<inbox, origin, ended, reloads, now>>

RestoreRotates(t) ==
  /\ "rotate" \in Ops /\ At(t, "command", "opening")
  /\ HasSession(t)
  /\ ~ Expired(tab[t].info) /\ RotationDue(tab[t].info)
  /\ Rotate(t, "command", [Idle EXCEPT !.then = "restored"])
  /\ UNCHANGED <<inbox, ended, reloads, now>>

M_RestoreSucceeds(t) ==
  /\ At(t, "command", "opening")
  /\ HasSession(t)
  /\ tab' = [tab EXCEPT ![t].auth = TRUE]
  /\ Goto(t, "command", Idle)
  /\ UNCHANGED <<rows, inbox, origin, ended, reloads, now>>
RestoreSucceeds(t) ==
  /\ At(t, "command", "opening")
  /\ HasSession(t)
  /\ ~ Expired(tab[t].info)
  /\ "rotate" \in Ops => ~ RotationDue(tab[t].info)
  /\ tab' = [tab EXCEPT ![t].auth = TRUE]
  /\ Goto(t, "command", Idle)
  /\ UNCHANGED <<rows, inbox, origin, ended, reloads, now>>

(* #cleanup_expired_sessions. *)
Cleanup(t) ==
  /\ "cleanup" \in Ops /\ MayStart(t, "cleanup")
  /\ LET old == {r \in rows : r.info # Empty /\ r.info.expires < now} IN
     /\ old # {}
     /\ Goto(t, "cleanup", [Idle EXCEPT !.at = "cleaning", !.todo = old])
  /\ UNCHANGED <<rows, tab, inbox, origin, ended, reloads, now>>

CleanOne(t) ==
  /\ At(t, "cleanup", "cleaning")
  /\ \E r \in thread[t]["cleanup"].todo :
       LET rest == thread[t]["cleanup"].todo \ {r} IN
       /\ rows' = Without(r.sid)
       /\ Goto(t, "cleanup", IF rest = {} THEN Idle
                             ELSE [thread[t]["cleanup"] EXCEPT !.todo = rest])
  /\ UNCHANGED <<tab, inbox, origin, ended, reloads, now>>

(* A write that a thread issued is refused: the operation ends there, the   *)
(* tab shows what it shows.  An end_all_user_sessions that stops half way   *)
(* tells nobody: the tabs whose rows it had removed go on with them.        *)
Refused(t, k) ==
  /\ "refuse" \in Ops
  /\ \/ At(t, k, "putting") \/ At(t, k, "refused") \/ At(t, k, "cleaning")
     \/ At(t, k, "enforcing") /\ LimitReached(thread[t][k].todo)
     \/ At(t, k, "sweeping") /\ thread[t][k].todo # {}
  /\ tab' = IF thread[t][k].at \in {"putting", "refused", "sweeping"}
              THEN [tab EXCEPT ![t].kept = FALSE] ELSE tab
  /\ ended' = IF At(t, k, "sweeping") THEN ended \ {tab[u].current : u \in Tabs}
                                       ELSE ended
  /\ Goto(t, k, Idle)
  /\ UNCHANGED <<rows, inbox, origin, reloads, now>>

Tick ==
  /\ now < MaxTime
  /\ \A t \in Tabs : Quiet(t)
  /\ now' = now + 1
  /\ UNCHANGED <<rows, tab, thread, inbox, origin, ended, reloads>>
-----------------------------------------------------------------------------
CommandContinues(t) ==
  \/ EnforceLimit(t) \/ LoginEndsOld(t) \/ LoginWithoutOld(t)
  \/ FillInfo(t) \/ PersistNew(t)
  \/ SweepOne(t) \/ SweepEndsOwn(t) \/ SweepReturns(t)
  \/ RestoreFirst(t) \/ RestoreSkips(t) \/ RestoreExpired(t)
  \/ EndThenRestore(t) \/ RestoreRotates(t) \/ RestoreSucceeds(t)

(* A thread that awaits something goes on. *)
Continue(t, k) ==
  \/ EndAnnounces(t, k) \/ EndReturns(t, k) \/ EndThenLogoutAll(t, k)
  \/ EndThenLogin(t, k) \/ RotateStores(t, k)
  \/ Put(t, k) \/ PutFails(t, k) \/ Refused(t, k) \/ Authenticate(t, k)
  \/ k = "command" /\ CommandContinues(t)
  \/ k = "cleanup" /\ CleanOne(t)

Start(t) ==
  \/ \E user \in Users, remember \in BOOLEAN : Login(t, user, remember)
  \/ \E user \in Users : LogoutAll(t, user)
  \/ Logout(t) \/ Refresh(t) \/ CheckExpires(t) \/ CheckRotates(t)
  \/ Cleanup(t) \/ Reload(t)

Next ==
  \/ \E t \in Tabs : \/ Start(t)
                     \/ \E k \in Threads : Continue(t, k)
                     \/ Deliver(t)
  \/ Tick

Spec == Init /\ [][Next]_vars

(* Tabs that show one login, until one of them logs out or finds it         *)
(* expired: no login, page load, rotation or cleanup.                       *)
SharedContinue(t, k) ==
  \/ EndAnnounces(t, k) \/ EndReturns(t, k)
  \/ Put(t, k) \/ PutFails(t, k) \/ Refused(t, k)

SharedNext ==
  \/ \E t \in Tabs : \/ Logout(t) \/ Refresh(t) \/ CheckExpires(t) \/ Deliver(t)
                     \/ \E k \in Threads : SharedContinue(t, k)
  \/ Tick

(* Every await is answered and every message delivered. *)
FairSharedSpec ==
  /\ InitShared /\ [][SharedNext]_vars
  /\ \A t \in Tabs : /\ \A k \in Threads : WF_vars(SharedContinue(t, k))
                     /\ WF_vars(Deliver(t))
-----------------------------------------------------------------------------
Local == [at : Labels, then : Thens, user : Users \cup {NoUser},
          remember : BOOLEAN, sid : Sids \cup {Nil}, copy : Data,
          todo : SUBSET Row]
TypeOK ==
  /\ \A r \in rows : r \in Row
  /\ \A t \in Tabs :
       /\ tab[t].current \in Sids \cup {Nil}
       /\ tab[t].info \in Data \cup {Nil} /\ {tab[t].auth, tab[t].kept} \subseteq BOOLEAN
       /\ \A k \in Threads :
            LET c == thread[t][k] IN
            c.at \in Labels /\ c.then \in Thens /\ c.copy \in Data
       /\ \A i \in DOMAIN inbox[t] :
            inbox[t][i].type \in {"SESSION_ENDED", "LOGOUT_ALL"}
  /\ \A sid \in Generated :
       origin[sid].user \in Users /\ Root(sid) \in 1..sid
  /\ ended \subseteq Generated /\ reloads \in 0..MaxReloads

(* What end_session and end_all_user_sessions removed is final: no such row *)
(* comes back, from which a later page load would log the user in again.    *)
(* A row whose removal was refused was not removed: it stays, and the next  *)
(* page load logs in with it.                                              *)
EndedStaysEnded == \A r \in rows : r.sid \notin ended

(* The row under a session id holds the data of the user the id was         *)
(* generated for, although it is stored under whatever id is current after  *)
(* the encryption.                                                         *)
RowsBelongToOwner == \A r \in rows : r.info.user = origin[r.sid].user

(* The application state says authenticated only while the tab has a        *)
(* session.                                                                *)
AuthMeansSession ==
  \A t \in Tabs : tab[t].auth => tab[t].current # Nil /\ tab[t].info # Nil

(* A page load logs in with a stored session only, and never with an        *)
(* expired one.                                                            *)
RestoresLive ==
  \A t \in Tabs :
    ~ tab[t].auth /\ tab'[t].auth =>
      /\ ~ Expired(tab[t].info)
      /\ \E r \in rows : r.sid = tab[t].current

(* At rest, a tab that is logged in and not expired finds its row, with the *)
(* data it shows, again after a page load, unless the last write of its     *)
(* session was refused.                                                    *)
LoggedInIsStored ==
  \A t \in Tabs :
    Quiet(t) /\ tab[t].kept /\ tab[t].auth /\ ~ Expired(tab[t].info) =>
      \E r \in rows : r.sid = tab[t].current /\ r.info = tab[t].info

(* What tabs and store say of a session is true at every await.             *)
SessionsAreTrue ==
  TypeOK /\ EndedStaysEnded /\ RowsBelongToOwner /\ AuthMeansSession /\ LoggedInIsStored

(* However logins and logouts of several tabs overlap and are refused, no   *)
(* row that was removed comes back, and none changes hands.                 *)
StoreIsTrue == EndedStaysEnded /\ RowsBelongToOwner

(* The only way into a session without a login is a page load that finds a  *)
(* live one.                                                               *)
RestoresOnlyLive == [][RestoresLive]_vars

(* Logging out in one tab logs out every tab with the session of that       *)
(* login, also when the removal of its row was refused: "synchronisation    *)
(* between tabs" (enable_cross_tab_sync).                                   *)
Ending(t, sid) == \E k \in Threads : At(t, k, "removed") /\ thread[t][k].sid = sid
LogoutPropagates ==
  \A sid \in Sids :
    (\E t \in Tabs : Ending(t, sid))
      ~> \A t \in Tabs : ~ SameLogin(tab[t].current, sid)
=============================================================================
