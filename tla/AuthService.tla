---------------------------- MODULE AuthService ----------------------------
(***************************************************************************)
(* core/auth/auth_service.js: logins, logouts, token refreshes and profile *)
(* updates of one user that overlap at their awaits.  The page's idea of   *)
(* the user (current_user, current_tokens) and the state manager's are     *)
(* set at different moments; the repository's session rows and the refresh *)
(* tokens are shared by all calls.  The repository, the token manager and  *)
(* the password hasher are external: their answers are arbitrary.          *)
(* register is in RegisterScreen.                                          *)
(***************************************************************************)
EXTENDS Naturals, FiniteSets

CONSTANTS Calls,      \* the operations of a run
          MaxToken,   \* bound: refresh tokens issued
          None

VARIABLES logged_in,   \* current_user is set
          tokens,      \* current_tokens: a refresh token, 0 for none
          state,       \* state_manager: [user |-> BOOLEAN, token |-> token]
          rows,        \* auth_repository: tokens of the stored sessions
          live,        \* refresh tokens that are not revoked
          issued,      \* tokens issued so far
          calls        \* what each operation waits for

vars == <<logged_in, tokens, state, rows, live, issued, calls>>

Token == 0..MaxToken
Idle == [op |-> "none", at |-> "idle", token |-> 0, list |-> {}]

Init ==
  /\ logged_in = FALSE /\ tokens = 0
  /\ state = [user |-> FALSE, token |-> 0]
  /\ rows = {} /\ live = {} /\ issued = 0
  /\ calls = [c \in Calls |-> Idle]

At(c, op, at) == calls[c].op = op /\ calls[c].at = at
Goes(c, r) == calls' = [calls EXCEPT ![c] = r]
Moves(c, at) == Goes(c, [calls[c] EXCEPT !.at = at])
Ends(c) == Goes(c, Idle)

-----------------------------------------------------------------------------
(* _revoke_previous_sessions: read the rows, revoke them one by one, then  *)
(* delete all rows of the user, those read and those written since.        *)

StartRevoke(c, op) ==
  Goes(c, [Idle EXCEPT !.op = op, !.at = "find"])

Found(c) ==
  /\ calls[c].at = "find"
  /\ Goes(c, [calls[c] EXCEPT !.at = "revoke", !.list = rows])
  /\ UNCHANGED <<logged_in, tokens, state, rows, live, issued>>

RevokeOne(c, t) ==
  /\ calls[c].at = "revoke" /\ t \in calls[c].list
  /\ live' = live \ {t}
  /\ Goes(c, [calls[c] EXCEPT !.list = @ \ {t}])
  /\ UNCHANGED <<logged_in, tokens, state, rows, issued>>

DeleteRows(c) ==
  /\ calls[c].at = "revoke" /\ calls[c].list = {}
  /\ rows' = {}
  /\ Moves(c, "deleted")
  /\ UNCHANGED <<logged_in, tokens, state, live, issued>>

-----------------------------------------------------------------------------
(* Logging in, with or without remember_me. *)

Login(c, remember) ==
  /\ calls[c] = Idle
  /\ \/ remember /\ StartRevoke(c, "login")
     \/ ~remember /\ Goes(c, [Idle EXCEPT !.op = "login", !.at = "deleted"])
  /\ UNCHANGED <<logged_in, tokens, state, rows, live, issued>>

GenerateToken(c) ==
  /\ At(c, "login", "deleted") /\ issued < MaxToken
  /\ issued' = issued + 1
  /\ live' = live \cup {issued'}
  /\ Goes(c, [calls[c] EXCEPT !.at = "save", !.token = issued'])
  /\ UNCHANGED <<logged_in, tokens, state, rows>>

SaveSession(c) ==
  /\ At(c, "login", "save")
  /\ rows' = rows \cup {calls[c].token}
  /\ Moves(c, "update")
  /\ UNCHANGED <<logged_in, tokens, state, live, issued>>

(* After update_user: the user, the tokens and the state in one step. *)
LoginEnds(c) ==
  /\ At(c, "login", "update")
  /\ logged_in' = TRUE
  /\ tokens' = calls[c].token
  /\ state' = [user |-> TRUE, token |-> calls[c].token]
  /\ Ends(c)
  /\ UNCHANGED <<rows, live, issued>>

(* A wrong password, a limited rate or a failing repository. *)
LoginFails(c) ==
  /\ calls[c].op = "login"
  /\ Ends(c)
  /\ UNCHANGED <<logged_in, tokens, state, rows, live, issued>>

-----------------------------------------------------------------------------
Logout(c) ==
  /\ calls[c] = Idle /\ logged_in
  /\ StartRevoke(c, "logout")
  /\ UNCHANGED <<logged_in, tokens, state, rows, live, issued>>

(* Mutant: without rows left there is nothing to log out of. *)
M_LogoutEnds(c) ==
  /\ At(c, "logout", "deleted")
  /\ logged_in' = (logged_in /\ rows = {})
  /\ tokens' = 0
  /\ state' = [user |-> FALSE, token |-> 0]
  /\ Ends(c)
  /\ UNCHANGED <<rows, live, issued>>

LogoutEnds(c) ==
  /\ At(c, "logout", "deleted")
  /\ logged_in' = FALSE /\ tokens' = 0
  /\ state' = [user |-> FALSE, token |-> 0]
  /\ Ends(c)
  /\ UNCHANGED <<rows, live, issued>>

(* A call of the repository or the token manager is rejected while the rows *)
(* are revoked: the logout is rejected with the page still logged in.       *)
LogoutFails(c) ==
  /\ calls[c].op = "logout" /\ calls[c].at \in {"find", "revoke"}
  /\ Moves(c, "failed")
  /\ UNCHANGED <<logged_in, tokens, state, rows, live, issued>>

LogoutRejects(c) ==
  /\ At(c, "logout", "failed")
  /\ Ends(c)
  /\ UNCHANGED <<logged_in, tokens, state, rows, live, issued>>

-----------------------------------------------------------------------------
(* refresh_tokens uses the state manager's token, not the page's. *)

Refresh(c) ==
  /\ calls[c] = Idle /\ state.token # 0
  /\ Goes(c, [Idle EXCEPT !.op = "refresh", !.at = "asked", !.token = state.token])
  /\ UNCHANGED <<logged_in, tokens, state, rows, live, issued>>

(* The answer is dispatched at once; current_tokens follows the await. *)
Refreshed(c) ==
  /\ At(c, "refresh", "asked")
  /\ calls[c].token \in live /\ issued < MaxToken
  /\ issued' = issued + 1
  /\ live' = (live \ {calls[c].token}) \cup {issued'}
  /\ state' = [state EXCEPT !.token = issued']
  /\ Goes(c, [calls[c] EXCEPT !.at = "dispatched", !.token = issued'])
  /\ UNCHANGED <<logged_in, tokens, rows>>

RefreshEnds(c) ==
  /\ At(c, "refresh", "dispatched")
  /\ tokens' = calls[c].token
  /\ Ends(c)
  /\ UNCHANGED <<logged_in, state, rows, live, issued>>

(* A token that is gone, or a failing service: the catch logs out. *)
RefreshFails(c) ==
  /\ At(c, "refresh", "asked")
  /\ IF logged_in THEN StartRevoke(c, "logout") ELSE Ends(c)
  /\ UNCHANGED <<logged_in, tokens, state, rows, live, issued>>

-----------------------------------------------------------------------------
(* update_profile sets the user again after its await. *)

UpdateProfile(c) ==
  /\ calls[c] = Idle /\ logged_in
  /\ Goes(c, [Idle EXCEPT !.op = "profile", !.at = "update"])
  /\ UNCHANGED <<logged_in, tokens, state, rows, live, issued>>

ProfileUpdated(c) ==
  /\ At(c, "profile", "update")
  /\ logged_in' = TRUE
  /\ state' = [user |-> TRUE, token |-> tokens]
  /\ Ends(c)
  /\ UNCHANGED <<tokens, rows, live, issued>>

ProfileFails(c) ==
  /\ At(c, "profile", "update")
  /\ Ends(c)
  /\ UNCHANGED <<logged_in, tokens, state, rows, live, issued>>

(* A page load: check_auth restores what the state manager kept. *)
Reload ==
  /\ \A c \in Calls : calls[c] = Idle
  /\ state.user /\ state.token # 0
  /\ logged_in' = TRUE /\ tokens' = state.token
  /\ UNCHANGED <<state, rows, live, issued, calls>>

Starts(c) ==
  \/ \E b \in BOOLEAN : Login(c, b)
  \/ Logout(c) \/ Refresh(c) \/ UpdateProfile(c)

(* The awaited calls are answered, one way or another. *)
Continues(c) ==
  \/ Found(c) \/ DeleteRows(c) \/ \E t \in 1..MaxToken : RevokeOne(c, t)
  \/ GenerateToken(c) \/ SaveSession(c) \/ LoginEnds(c) \/ LoginFails(c)
  \/ LogoutEnds(c) \/ LogoutFails(c) \/ LogoutRejects(c)
  \/ Refreshed(c) \/ RefreshEnds(c) \/ RefreshFails(c)
  \/ ProfileUpdated(c) \/ ProfileFails(c)

Next == Reload \/ \E c \in Calls : Starts(c) \/ Continues(c)

Fairness == \A c \in Calls : WF_vars(Continues(c))

Spec == Init /\ [][Next]_vars /\ Fairness

-----------------------------------------------------------------------------
TypeOK ==
  /\ logged_in \in BOOLEAN /\ tokens \in Token /\ issued \in Token
  /\ state \in [user : BOOLEAN, token : Token]
  /\ rows \subseteq 1..issued /\ live \subseteq 1..issued
  /\ \A c \in Calls :
       /\ calls[c].at \in {"idle", "find", "revoke", "deleted", "save",
                           "update", "asked", "dispatched", "failed"}
       /\ calls[c].op \in {"none", "login", "logout", "refresh", "profile"}
       /\ calls[c].token \in Token
       /\ calls[c].list \subseteq 1..issued

(* A logout, asked for or forced by a refresh that failed, ends: rejected,  *)
(* when one of its calls was, or else with the page logged out at that      *)
(* moment, whatever other calls do to the rows it is revoking; a login that *)
(* ends after it may log in again.                                         *)
LogoutLogsOut ==
  \A c \in Calls :
    calls[c].op = "logout" ~> ~logged_in \/ At(c, "logout", "failed")

=============================================================================
