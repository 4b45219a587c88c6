--------------------------- MODULE MCPagesProofs ---------------------------
(***************************************************************************)
(* The pages a learner meets keep what they promise, for any number of     *)
(* addresses, calls, tokens, values, players and requests, and any limits. *)
(* Each machine has an inductive invariant of its own; a step of the pages *)
(* together is a step of one of them and leaves the others alone.          *)
(***************************************************************************)
EXTENDS MCPages, FiniteSetTheorems, SequenceTheorems, WellFoundedInduction, TLAPS

-----------------------------------------------------------------------------
(***************************************************************************)
(* login_screen.js: what is in flight is shown. Buttons that stay enabled  *)
(* redraw the form from its state, whose loading a login in flight has set.*)
(***************************************************************************)
LEMMA LoginLimits == LoginAttempts \in Nat /\ Accounts \subseteq Emails BY LimitsAssumption

FormState == [email : Emails \cup {None}, tab : L!Tabs, loading : BOOLEAN,
              online : BOOLEAN, remember : BOOLEAN, passed : BOOLEAN,
              fits : BOOLEAN, two_factor : BOOLEAN, timer : BOOLEAN]
FormMarkup == [tab : L!Tabs, loading : BOOLEAN, online : BOOLEAN,
               asks : {"nothing", "current", "old"},
               two_factor : BOOLEAN, otp_open : BOOLEAN]
LoginCall == [email : Emails, at : {"service", "session"}, second : BOOLEAN]

LoginInv == L!LoginTypeOK /\ L!InFlightIsShown

LEMMA MarkupFacts ==
  ASSUME NEW s \in FormState
  PROVE  L!Markup(s) \in FormMarkup /\ L!Markup(s).loading = s.loading
  BY DEF FormState, FormMarkup, L!Markup

LEMMA LoginStarts == L!LoginInit => LoginInv
  <1> SUFFICES ASSUME L!LoginInit PROVE LoginInv OBVIOUS
  <1>1. st \in FormState BY DEF L!LoginInit, FormState, L!Tabs
  <1>2. page_shown \in FormMarkup BY <1>1, MarkupFacts DEF L!LoginInit
  <1>3. {typed, otp_call, stored, session} \subseteq Emails \cup {None} BY DEF L!LoginInit
  <1>4. checking = FALSE /\ call = None /\ login_attempts = 0 BY DEF L!LoginInit
  <1>5. checking \in BOOLEAN BY <1>4
  <1>8. login_attempts \in 0..LoginAttempts
    <2> HIDE <1>4
    <2>1. login_attempts = 0 BY <1>4
    <2> QED BY <2>1, LoginLimits
  <1>6. L!LoginTypeOK BY <1>1, <1>2, <1>3, <1>4, <1>5, <1>8 DEF L!LoginTypeOK, FormState, FormMarkup
  <1>7. L!InFlightIsShown BY <1>4 DEF L!InFlightIsShown
  <1> QED BY <1>6, <1>7 DEF LoginInv

(* A form redrawn from a state of the same loading. *)
LEMMA RedrawKeeps ==
  ASSUME LoginInv, NEW s \in FormState, s.loading = st.loading, L!Redraw(s)
  PROVE  LoginInv'
  <1>1. st' \in FormState /\ page_shown' \in FormMarkup /\ page_shown'.loading = s.loading
    BY MarkupFacts DEF L!Redraw, L!Render
  <1>2. st' = s /\ UNCHANGED <<typed, checking, call, otp_call, stored, session, login_attempts>>
    BY DEF L!Redraw, L!Render
  <1> QED BY <1>1, <1>2 DEF LoginInv, L!LoginTypeOK, L!InFlightIsShown, FormState, FormMarkup

LEMMA LoginKeeps == LoginInv /\ [L!LoginNext]_(L!login_vars) => LoginInv'
  <1> SUFFICES ASSUME LoginInv, [L!LoginNext]_(L!login_vars) PROVE LoginInv' OBVIOUS
  <1> USE LoginLimits
  <1>0. /\ st \in FormState /\ page_shown \in FormMarkup
        /\ {typed, otp_call, stored, session} \subseteq Emails \cup {None}
        /\ checking \in BOOLEAN /\ login_attempts \in 0..LoginAttempts
        /\ call = None \/ call \in LoginCall
        /\ call # None => st.loading /\ page_shown.loading
    BY DEF LoginInv, L!LoginTypeOK, L!InFlightIsShown, FormState, FormMarkup, LoginCall
  <1> DEFINE Good == /\ st' \in FormState /\ page_shown' \in FormMarkup
                     /\ {typed', otp_call', stored', session'} \subseteq Emails \cup {None}
                     /\ checking' \in BOOLEAN /\ login_attempts' \in 0..LoginAttempts
                     /\ call' = None \/ call' \in LoginCall
                     /\ call' # None => st'.loading /\ page_shown'.loading
  <1>g. Good => LoginInv'
    BY DEF LoginInv, L!LoginTypeOK, L!InFlightIsShown, FormState, FormMarkup, LoginCall
  <1>1. ASSUME NEW e \in Emails, L!TypeEmail(e) PROVE LoginInv' BY <1>0, <1>1, <1>g DEF L!TypeEmail
  <1>2. ASSUME NEW e \in Emails \cup {None}, L!SetEmail(e) PROVE LoginInv'
    BY <1>0, <1>2, RedrawKeeps DEF L!SetEmail, FormState
  <1>3. ASSUME L!EmailTyped PROVE LoginInv'
    <2>1. st' \in FormState /\ st'.loading = st.loading BY <1>0, <1>3 DEF L!EmailTyped, FormState
    <2> QED BY <1>0, <1>3, <1>g, <2>1 DEF L!EmailTyped
  <1>4. ASSUME NEW b \in BOOLEAN, L!TypeCaptcha(b) PROVE LoginInv'
    <2>1. st' \in FormState /\ st'.loading = st.loading BY <1>0, <1>4 DEF L!TypeCaptcha, FormState
    <2> QED BY <1>0, <1>4, <1>g, <2>1 DEF L!TypeCaptcha
  <1>5. ASSUME NEW b \in BOOLEAN, L!RefreshCaptcha(b) PROVE LoginInv'
    BY <1>0, <1>5, RedrawKeeps DEF L!RefreshCaptcha, L!NewCaptcha, FormState
  <1>6. ASSUME NEW b \in BOOLEAN, L!OtpAnswered(b) PROVE LoginInv'
    <2>1. st' \in FormState /\ st'.loading = st.loading BY <1>0, <1>6 DEF L!OtpAnswered, FormState
    <2> QED BY <1>0, <1>6, <1>g, <2>1 DEF L!OtpAnswered
  <1>7. ASSUME NEW b \in BOOLEAN, L!Submit(b) PROVE LoginInv'
    <2>1. /\ call = None
          /\ login_attempts' \in 0..LoginAttempts
          /\ UNCHANGED <<typed, checking, otp_call, stored, session>>
      BY <1>0, <1>7 DEF L!Submit, L!SubmitEnabled
    <2>2. CASE UNCHANGED <<st, page_shown, call>> BY <1>0, <1>g, <2>1, <2>2
    <2>3. CASE L!Render(st) /\ UNCHANGED call BY <1>0, <1>g, <2>1, <2>3, MarkupFacts DEF L!Render
    <2>4. CASE /\ L!Valid(b)
               /\ L!Render([st EXCEPT !.loading = TRUE])
               /\ call' = [email |-> st.email, at |-> "service",
                           second |-> st.two_factor /\ st.tab = "password"]
      <3>1. [st EXCEPT !.loading = TRUE] \in FormState /\ [st EXCEPT !.loading = TRUE].loading
        BY <1>0 DEF FormState
      <3>2. st' \in FormState /\ page_shown' \in FormMarkup /\ st'.loading /\ page_shown'.loading
        BY <2>4, <3>1, MarkupFacts DEF L!Render
      <3>3. call' \in LoginCall BY <1>0, <2>4 DEF L!Valid, FormState, LoginCall
      <3> QED BY <1>0, <1>g, <2>1, <3>2, <3>3
    <2> QED BY <1>7, <2>2, <2>3, <2>4 DEF L!Submit
  <1>8. ASSUME L!TypeOther PROVE LoginInv' BY <1>0, <1>8, <1>g DEF L!TypeOther
  <1>9. ASSUME L!CaptchaChecked PROVE LoginInv'
    <2>1. st' \in FormState /\ st'.loading = st.loading
      BY <1>0, <1>9 DEF L!CaptchaChecked, FormState
    <2> QED BY <1>0, <1>9, <1>g, <2>1 DEF L!CaptchaChecked
  <1>10. ASSUME L!ToggleRemember PROVE LoginInv'
    <2>1. st' \in FormState /\ st'.loading = st.loading
      BY <1>0, <1>10 DEF L!ToggleRemember, FormState
    <2> QED BY <1>0, <1>10, <1>g, <2>1 DEF L!ToggleRemember
  <1>11. ASSUME L!TogglePassword PROVE LoginInv' BY <1>0, <1>11, RedrawKeeps DEF L!TogglePassword
  <1>12. ASSUME NEW t \in L!Tabs, L!SelectTab(t) PROVE LoginInv'
    BY <1>0, <1>12, RedrawKeeps DEF L!SelectTab, FormState
  <1>13. ASSUME NEW e \in Accounts, L!SelectAccount(e) PROVE LoginInv'
    <2>1. (e \in Protected) \in BOOLEAN OBVIOUS
    <2> QED BY <1>0, <1>13, <2>1, RedrawKeeps DEF L!SelectAccount, FormState
  <1>14. ASSUME L!ResetForm PROVE LoginInv'
    BY <1>0, <1>14, RedrawKeeps DEF L!ResetForm, L!NewCaptcha, FormState
  <1>15. ASSUME L!NetworkChange PROVE LoginInv'
    <2>1. st' \in FormState /\ st'.loading = st.loading
      BY <1>0, <1>15 DEF L!NetworkChange, FormState
    <2> QED BY <1>0, <1>15, <1>g, <2>1 DEF L!NetworkChange
  <1>16. ASSUME L!RequestOtp PROVE LoginInv' BY <1>0, <1>16, <1>g DEF L!RequestOtp, FormState
  <1>17. ASSUME L!OtpExpires PROVE LoginInv'
    <2>1. st' \in FormState /\ st'.loading = st.loading BY <1>0, <1>17 DEF L!OtpExpires, FormState
    <2> QED BY <1>0, <1>17, <1>g, <2>1 DEF L!OtpExpires
  <1>18. ASSUME L!LoginRefused PROVE LoginInv'
    <2> DEFINE s == [st EXCEPT !.loading = FALSE]
    <2>1. s \in FormState BY <1>0 DEF FormState
    <2>2. L!Markup(s) \in FormMarkup BY <2>1, MarkupFacts
    <2>3. PICK fits \in BOOLEAN : st' = L!NewCaptcha(s, fits)
      BY <1>18 DEF L!LoginRefused, L!GiveBack
    <2>4. st' \in FormState BY <2>1, <2>3 DEF L!NewCaptcha, FormState
    <2>5. page_shown' \in FormMarkup
      BY <1>18, <2>2 DEF L!LoginRefused, L!GiveBack, L!Outdated, FormMarkup
    <2> QED BY <1>0, <1>18, <1>g, <2>4, <2>5 DEF L!LoginRefused, L!GiveBack
  <1>19. ASSUME L!SecondFactorWanted PROVE LoginInv'
    <2>1. [st EXCEPT !.loading = FALSE, !.two_factor = TRUE] \in FormState BY <1>0 DEF FormState
    <2>2. st' \in FormState /\ page_shown' \in FormMarkup
      BY <1>19, <2>1, MarkupFacts DEF L!SecondFactorWanted, L!Render
    <2> QED BY <1>0, <1>19, <1>g, <2>2 DEF L!SecondFactorWanted
  <1>20. ASSUME L!LoginAccepted PROVE LoginInv'
    <2>1. call' \in LoginCall /\ stored' \in Emails \cup {None}
      BY <1>0, <1>20 DEF L!LoginAccepted, LoginCall, FormState
    <2> QED BY <1>0, <1>20, <1>g, <2>1 DEF L!LoginAccepted
  <1>21. ASSUME L!SessionOpened PROVE LoginInv'
    <2>1. session' \in Emails BY <1>0, <1>21 DEF L!SessionOpened, LoginCall
    <2> QED BY <1>0, <1>21, <1>g, <2>1 DEF L!SessionOpened
  <1>22. CASE UNCHANGED L!login_vars BY <1>0, <1>22, <1>g DEF L!login_vars
  <1> QED BY <1>1, <1>2, <1>3, <1>4, <1>5, <1>6, <1>7, <1>8, <1>9, <1>10, <1>11, <1>12, <1>13,
       <1>14, <1>15, <1>16, <1>17, <1>18, <1>19, <1>20, <1>21, <1>22 DEF L!LoginNext, L!Answered

-----------------------------------------------------------------------------
(***************************************************************************)
(* register_screen.js with AuthService.register: the one promise the       *)
(* service keeps tells how many accounts there are, and only its success   *)
(* leads from the form to the home screen.                                 *)
(***************************************************************************)
LEMMA RegisterLimits == MaxDrafts \in Nat /\ MaxMinutes \in Nat BY LimitsAssumption

RegisterInv ==
  /\ L!RegisterTypeOK
  /\ accounts = (IF pending = "created" THEN 1 ELSE 0)
  /\ at = "clearing" \/ page = "home" => pending = "created"

LEMMA RegisterStarts == L!RegisterInit => RegisterInv
  <1> SUFFICES ASSUME L!RegisterInit PROVE RegisterInv OBVIOUS
  <1>1. /\ form \in [valid : BOOLEAN, captcha : BOOLEAN, loading : BOOLEAN]
        /\ limit \in [count : 0..5, old : BOOLEAN] BY DEF L!RegisterInit
  <1>2. /\ button \in BOOLEAN /\ online \in BOOLEAN /\ saving \in BOOLEAN
        /\ drafts = {} /\ draft_id = 0 /\ accounts = 0 /\ minutes = 0
        /\ at = "idle" /\ pending = "none" /\ page = "form" BY DEF L!RegisterInit
  <1>3. drafts \subseteq 1..MaxDrafts /\ draft_id \in 0..MaxDrafts /\ minutes \in 0..MaxMinutes
    BY <1>2, RegisterLimits
  <1> QED BY <1>1, <1>2, <1>3 DEF RegisterInv, L!RegisterTypeOK

LEMMA DraftIds ==
  ASSUME NEW S \in SUBSET (1..MaxDrafts)
  PROVE  L!Cardinality(S) \in Nat
  <1>1. IsFiniteSet(1..MaxDrafts) BY RegisterLimits, FS_Interval
  <1>2. Cardinality(S) \in Nat BY <1>1, FS_Subset, FS_CardinalityType
  <1> QED BY <1>2 DEF Cardinality, L!Cardinality

LEMMA RegisterKeeps == RegisterInv /\ [L!RegisterNext]_(L!register_vars) => RegisterInv'
  <1> SUFFICES ASSUME RegisterInv, [L!RegisterNext]_(L!register_vars) PROVE RegisterInv' OBVIOUS
  <1> DEFINE Form == [valid : BOOLEAN, captcha : BOOLEAN, loading : BOOLEAN]
             Limit == [count : 0..5, old : BOOLEAN]
  <1>0. /\ form \in Form /\ limit \in Limit
        /\ button \in BOOLEAN /\ online \in BOOLEAN /\ saving \in BOOLEAN
        /\ drafts \subseteq 1..MaxDrafts /\ draft_id \in 0..MaxDrafts
        /\ at \in {"idle", "register", "clearing"}
        /\ pending \in {"none", "running", "created", "failed"}
        /\ page \in {"form", "home", "disposed"} /\ minutes \in 0..MaxMinutes
        /\ accounts = (IF pending = "created" THEN 1 ELSE 0)
        /\ at = "clearing" => pending = "created"
        /\ page = "home" => pending = "created" BY DEF RegisterInv, L!RegisterTypeOK
  <1>g. ASSUME form' \in Form, limit' \in Limit,
               button' \in BOOLEAN, online' \in BOOLEAN, saving' \in BOOLEAN,
               drafts' \subseteq 1..MaxDrafts, draft_id' \in 0..MaxDrafts,
               at' \in {"idle", "register", "clearing"},
               pending' \in {"none", "running", "created", "failed"},
               page' \in {"form", "home", "disposed"}, minutes' \in 0..MaxMinutes,
               accounts' = (IF pending' = "created" THEN 1 ELSE 0),
               at' = "clearing" => pending' = "created",
               page' = "home" => pending' = "created"
        PROVE  RegisterInv'
    <2>1. accounts' \in 0..1 BY <1>g
    <2> QED BY <1>g, <2>1 DEF RegisterInv, L!RegisterTypeOK
  <1>e. /\ \A b \in BOOLEAN : /\ [form EXCEPT !.valid = b] \in Form
                            /\ [form EXCEPT !.captcha = b] \in Form
                            /\ [form EXCEPT !.loading = b] \in Form
        /\ [limit EXCEPT !.old = TRUE] \in Limit
        /\ \A f \in Form, on \in BOOLEAN : L!Enabled(f, on) \in BOOLEAN
        /\ L!Counted \in 0..5
        /\ \A n \in 0..5 : [limit EXCEPT !.count = n] \in Limit
    <2>1. \A b \in BOOLEAN : /\ [form EXCEPT !.valid = b] \in Form
                            /\ [form EXCEPT !.captcha = b] \in Form
                            /\ [form EXCEPT !.loading = b] \in Form BY <1>0
    <2>2. [limit EXCEPT !.old = TRUE] \in Limit BY <1>0
    <2>3. \A f \in Form, on \in BOOLEAN : L!Enabled(f, on) \in BOOLEAN BY DEF L!Enabled
    <2>4. L!Counted \in 0..5 BY <1>0 DEF L!Counted
    <2>5. \A n \in 0..5 : [limit EXCEPT !.count = n] \in Limit BY <1>0
    <2> QED BY <2>1, <2>2, <2>3, <2>4, <2>5
  <1> HIDE DEF Form, Limit
  <1>1. ASSUME NEW b \in BOOLEAN, L!Type(b) PROVE RegisterInv' BY <1>0, <1>e, <1>g, <1>1 DEF L!Type
  <1>2. ASSUME NEW b \in BOOLEAN, L!CaptchaValidated(b) PROVE RegisterInv'
    BY <1>0, <1>e, <1>g, <1>2 DEF L!CaptchaValidated
  <1>3. ASSUME L!DraftSaved PROVE RegisterInv'
    <2>1. L!Cardinality(drafts) \in Nat BY <1>0, DraftIds
    <2>2. PICK id \in 1..MaxDrafts : drafts' = drafts \cup {id} /\ draft_id' = id
      <3> DEFINE id == IF draft_id # 0 THEN draft_id ELSE L!Cardinality(drafts) + 1
      <3>1. id \in 1..MaxDrafts BY <1>0, <1>3, <2>1, RegisterLimits DEF L!DraftSaved
      <3> QED BY <1>3, <3>1 DEF L!DraftSaved
    <2>3. drafts' \subseteq 1..MaxDrafts /\ draft_id' \in 0..MaxDrafts BY <1>0, <2>2, RegisterLimits
    <2> QED BY <1>0, <1>g, <1>3, <2>3 DEF L!DraftSaved
  <1>4. ASSUME L!Network PROVE RegisterInv'
    <2>1. online' \in BOOLEAN /\ button' \in BOOLEAN BY <1>0, <1>4 DEF L!Network
    <2>2. page' = "form" \/ page' = page BY <1>4 DEF L!Network
    <2> QED BY <1>0, <1>g, <1>4, <2>1, <2>2 DEF L!Network
  <1>5. ASSUME L!MinutePasses PROVE RegisterInv'
    <2>1. minutes' \in 0..MaxMinutes BY <1>0, <1>5, RegisterLimits DEF L!MinutePasses
    <2> QED BY <1>0, <1>e, <1>g, <1>5, <2>1 DEF L!MinutePasses
  <1>6. ASSUME L!HandleRegister PROVE RegisterInv'
    <2>1. CASE L!Sent
      <3>1. limit' \in Limit BY <1>e, <2>1, RegisterLimits DEF L!Sent, Limit
      <3> QED BY <1>0, <1>e, <1>g, <1>6, <2>1, <3>1 DEF L!HandleRegister, L!Sent
    <2>2. CASE L!Refused /\ UNCHANGED <<form, at, pending>>
      <3>1. /\ limit' \in Limit /\ button' \in BOOLEAN
            /\ page' = "form" \/ page' = page BY <1>0, <1>e, <2>2 DEF L!Refused
      <3> QED BY <1>0, <1>g, <1>6, <2>2, <3>1 DEF L!HandleRegister
    <2> QED BY <1>6, <2>1, <2>2 DEF L!HandleRegister
  <1>7. ASSUME NEW ok \in BOOLEAN, L!RegisterEnds(ok) PROVE RegisterInv'
    BY <1>0, <1>g, <1>7 DEF L!RegisterEnds
  <1>s. ASSUME NEW p \in {"form", "home"}, L!Settle(p), online' = online
        PROVE  /\ at' = "idle" /\ page' = p
               /\ form' \in Form /\ button' \in BOOLEAN BY <1>0, <1>e, <1>s DEF L!Settle
  <1>8. ASSUME L!RegisterFailed PROVE RegisterInv' BY <1>0, <1>g, <1>s, <1>8 DEF L!RegisterFailed
  <1>9. ASSUME L!Registered PROVE RegisterInv' BY <1>0, <1>g, <1>9 DEF L!Registered
  <1>10. ASSUME L!DraftCleared PROVE RegisterInv'
    <2>1. drafts' \subseteq 1..MaxDrafts /\ draft_id' \in 0..MaxDrafts
      BY <1>0, <1>10, RegisterLimits DEF L!DraftCleared
    <2> QED BY <1>0, <1>g, <1>s, <1>10, <2>1 DEF L!DraftCleared
  <1>11. ASSUME L!Dispose PROVE RegisterInv' BY <1>0, <1>g, <1>11 DEF L!Dispose
  <1>12. CASE UNCHANGED L!register_vars BY <1>0, <1>g, <1>12 DEF L!register_vars
  <1> QED BY <1>1, <1>2, <1>3, <1>4, <1>5, <1>6, <1>7, <1>8, <1>9, <1>10, <1>11, <1>12
       DEF L!RegisterNext, L!RegisterAnswers

LEMMA RegisterImplies == RegisterInv => L!OneAccountPerPage
  BY DEF RegisterInv, L!RegisterTypeOK, L!OneAccountPerPage

-----------------------------------------------------------------------------
(***************************************************************************)
(* auth_service.js: a call that waits to save or to show a token holds one *)
(* that was issued.                                                        *)
(***************************************************************************)
TokenCall(n) ==
  [op : {"none", "login", "logout", "refresh", "profile"},
   at : {"idle", "find", "revoke", "deleted", "save", "update", "asked", "dispatched",
         "failed"},
   token : 0..n, list : SUBSET (1..n)]
Holds(r) == r.at = "save" => r.token > 0

AuthInv ==
  /\ issued \in 0..MaxToken /\ logged_in \in BOOLEAN /\ tokens \in 0..issued
  /\ state \in [user : BOOLEAN, token : 0..issued]
  /\ rows \subseteq 1..issued /\ live \subseteq 1..issued
  /\ calls \in [Calls -> TokenCall(issued)]
  /\ \A c \in Calls : Holds(calls[c])

LEMMA AuthLimits == MaxToken \in Nat BY LimitsAssumption

LEMMA IdleFacts ==
  ASSUME NEW n \in Nat
  PROVE  A!Idle \in TokenCall(n) /\ Holds(A!Idle) BY DEF A!Idle, TokenCall, Holds

LEMMA MoreTokens ==
  ASSUME NEW n \in Nat, NEW m \in Nat, n <= m, NEW r \in TokenCall(n)
  PROVE  r \in TokenCall(m) BY DEF TokenCall

LEMMA GivenToken ==
  ASSUME NEW n \in Nat, NEW r \in TokenCall(n), NEW m \in 1..n,
         NEW w \in {"save", "dispatched"}
  PROVE  LET s == [r EXCEPT !.at = w, !.token = m] IN s \in TokenCall(n) /\ Holds(s)
  <1> DEFINE q == [r EXCEPT !.at = w]
             s == [r EXCEPT !.at = w, !.token = m]
  <1>1. q \in TokenCall(n) BY DEF TokenCall
  <1>2. s = [q EXCEPT !.token = m] /\ m \in 0..n /\ m > 0 OBVIOUS
  <1>3. s \in TokenCall(n) /\ s.token = m
    <2> HIDE DEF q, s
    <2> QED BY <1>1, <1>2 DEF TokenCall
  <1> QED BY <1>2, <1>3 DEF Holds

LEMMA AuthStarts == A!Init => AuthInv
  <1> SUFFICES ASSUME A!Init PROVE AuthInv OBVIOUS
  <1>1. issued = 0 /\ state \in [user : BOOLEAN, token : 0..issued] BY DEF A!Init
  <1>2. /\ logged_in \in BOOLEAN /\ tokens \in 0..issued
        /\ rows \subseteq 1..issued /\ live \subseteq 1..issued BY <1>1 DEF A!Init
  <1>3. calls \in [Calls -> TokenCall(issued)] /\ \A c \in Calls : Holds(calls[c])
    BY <1>1, IdleFacts DEF A!Init
  <1> QED BY <1>1, <1>2, <1>3, AuthLimits DEF AuthInv

LEMMA AuthImplies == AuthInv => A!TypeOK
  <1> SUFFICES ASSUME AuthInv PROVE A!TypeOK OBVIOUS
  <1>1. /\ logged_in \in BOOLEAN /\ tokens \in A!Token /\ issued \in A!Token
        /\ rows \subseteq 1..issued /\ live \subseteq 1..issued BY AuthLimits DEF AuthInv, A!Token
  <1>2. state \in [user : BOOLEAN, token : A!Token] BY AuthLimits DEF AuthInv, A!Token
  <1>3. ASSUME NEW c \in Calls
        PROVE  /\ calls[c].at \in {"idle", "find", "revoke", "deleted", "save",
                                   "update", "asked", "dispatched", "failed"}
               /\ calls[c].op \in {"none", "login", "logout", "refresh", "profile"}
               /\ calls[c].token \in A!Token
               /\ calls[c].list \subseteq 1..issued
    <2>1. calls[c] \in TokenCall(issued) BY <1>3 DEF AuthInv
    <2> QED BY <2>1, AuthLimits DEF AuthInv, TokenCall, A!Token
  <1> QED BY <1>1, <1>2, <1>3 DEF A!TypeOK

(* One call moves; the tokens issued grow. *)
LEMMA CallMoves ==
  ASSUME AuthInv, NEW c \in Calls, NEW r, A!Goes(c, r),
         issued' \in issued..MaxToken, r \in TokenCall(issued'), Holds(r),
         logged_in' \in BOOLEAN, tokens' \in 0..issued',
         state' \in [user : BOOLEAN, token : 0..issued'],
         rows' \subseteq 1..issued', live' \subseteq 1..issued'
  PROVE  AuthInv'
  <1>1. issued \in Nat /\ issued' \in Nat /\ issued <= issued' /\ issued' \in 0..MaxToken
    BY AuthLimits DEF AuthInv
  <1>2. \A d \in Calls : calls[d] \in TokenCall(issued') /\ Holds(calls[d])
    BY <1>1, MoreTokens DEF AuthInv
  <1>3. \A d \in Calls : calls'[d] = IF d = c THEN r ELSE calls[d] BY DEF A!Goes, AuthInv
  <1>4. \A d \in Calls : calls'[d] \in TokenCall(issued') /\ Holds(calls'[d]) BY <1>2, <1>3
  <1>5. calls' \in [Calls -> TokenCall(issued')] BY <1>4 DEF A!Goes, AuthInv
  <1> QED BY <1>1, <1>4, <1>5 DEF AuthInv

(* A call moves on and nothing else changes. *)
LEMMA CallAlone ==
  ASSUME AuthInv, NEW c \in Calls, NEW r \in TokenCall(issued), Holds(r), A!Goes(c, r),
         UNCHANGED <<logged_in, tokens, state, rows, live, issued>>
  PROVE  AuthInv'
  <1>1. issued' \in issued..MaxToken BY AuthLimits DEF AuthInv
  <1>2. /\ logged_in' \in BOOLEAN /\ tokens' \in 0..issued'
        /\ state' \in [user : BOOLEAN, token : 0..issued']
        /\ rows' \subseteq 1..issued' /\ live' \subseteq 1..issued' BY DEF AuthInv
  <1> QED BY <1>1, <1>2, CallMoves

LEMMA AuthKeeps == AuthInv /\ [A!Next]_(A!vars) => AuthInv'
  <1> SUFFICES ASSUME AuthInv, [A!Next]_(A!vars) PROVE AuthInv' OBVIOUS
  <1>0. /\ issued \in 0..MaxToken /\ issued \in Nat
        /\ logged_in \in BOOLEAN /\ tokens \in 0..issued
        /\ state \in [user : BOOLEAN, token : 0..issued]
        /\ rows \subseteq 1..issued /\ live \subseteq 1..issued
        /\ A!Idle \in TokenCall(issued) /\ Holds(A!Idle)
        /\ \A c \in Calls : calls[c] \in TokenCall(issued) /\ Holds(calls[c])
    BY AuthLimits, IdleFacts DEF AuthInv
  <1>i. /\ issued \in issued..MaxToken
        /\ issued < MaxToken => issued + 1 \in issued..MaxToken BY <1>0, AuthLimits
  <1>r. ASSUME NEW op \in {"login", "logout"}
        PROVE  LET r == [A!Idle EXCEPT !.op = op, !.at = "find"]
               IN  r \in TokenCall(issued) /\ Holds(r) BY <1>0 DEF A!Idle, TokenCall, Holds
  <1>1. ASSUME NEW c \in Calls, NEW b \in BOOLEAN, A!Login(c, b) PROVE AuthInv'
    <2> DEFINE r == [A!Idle EXCEPT !.op = "login", !.at = "deleted"]
    <2>1. r \in TokenCall(issued) /\ Holds(r) BY <1>0 DEF A!Idle, TokenCall, Holds
    <2> QED BY <1>r, <1>1, <2>1, CallAlone DEF A!Login, A!StartRevoke
  <1>2. ASSUME NEW c \in Calls, A!Logout(c) PROVE AuthInv'
    BY <1>r, <1>2, CallAlone DEF A!Logout, A!StartRevoke
  <1>3. ASSUME NEW c \in Calls, A!Refresh(c) PROVE AuthInv'
    <2> DEFINE r == [A!Idle EXCEPT !.op = "refresh", !.at = "asked", !.token = state.token]
    <2>1. r \in TokenCall(issued) /\ Holds(r) BY <1>0 DEF A!Idle, TokenCall, Holds
    <2> QED BY <1>3, <2>1, CallAlone DEF A!Refresh
  <1>4. ASSUME NEW c \in Calls, A!UpdateProfile(c) PROVE AuthInv'
    <2> DEFINE r == [A!Idle EXCEPT !.op = "profile", !.at = "update"]
    <2>1. r \in TokenCall(issued) /\ Holds(r) BY <1>0 DEF A!Idle, TokenCall, Holds
    <2> QED BY <1>4, <2>1, CallAlone DEF A!UpdateProfile
  <1>5. ASSUME NEW c \in Calls, A!Found(c) PROVE AuthInv'
    <2> DEFINE r == [calls[c] EXCEPT !.at = "revoke", !.list = rows]
    <2>1. r \in TokenCall(issued) /\ Holds(r) BY <1>0 DEF TokenCall, Holds
    <2> QED BY <1>5, <2>1, CallAlone DEF A!Found
  <1>6. ASSUME NEW c \in Calls, A!DeleteRows(c) PROVE AuthInv'
    <2> DEFINE r == [calls[c] EXCEPT !.at = "deleted"]
    <2>1. r \in TokenCall(issued) /\ Holds(r) BY <1>0 DEF TokenCall, Holds
    <2>2. A!Goes(c, r) BY <1>6 DEF A!DeleteRows, A!Moves
    <2>3. /\ issued' = issued /\ logged_in' = logged_in /\ tokens' = tokens /\ state' = state
          /\ rows' = {} /\ live' = live BY <1>6 DEF A!DeleteRows
    <2> QED BY <1>0, <1>i, <2>1, <2>2, <2>3, CallMoves
  <1>7. ASSUME NEW c \in Calls, NEW t \in 1..MaxToken, A!RevokeOne(c, t) PROVE AuthInv'
    <2> DEFINE r == [calls[c] EXCEPT !.list = @ \ {t}]
    <2>1. r \in TokenCall(issued) /\ Holds(r) BY <1>0 DEF TokenCall, Holds
    <2>2. A!Goes(c, r) BY <1>7 DEF A!RevokeOne
    <2>3. /\ issued' = issued /\ logged_in' = logged_in /\ tokens' = tokens /\ state' = state
          /\ rows' = rows /\ live' \subseteq live BY <1>7 DEF A!RevokeOne
    <2> QED BY <1>0, <1>i, <2>1, <2>2, <2>3, CallMoves
  <1>8. ASSUME NEW c \in Calls, A!GenerateToken(c) PROVE AuthInv'
    <2> DEFINE r == [calls[c] EXCEPT !.at = "save", !.token = issued + 1]
    <2>0. calls[c] \in TokenCall(issued + 1) BY <1>0, MoreTokens
    <2>1. r \in TokenCall(issued + 1) /\ Holds(r)
      <3>1. issued + 1 \in Nat /\ issued + 1 \in 1..(issued + 1) BY <1>0
      <3> QED BY <2>0, <3>1, GivenToken
    <2>2. issued' = issued + 1 /\ issued' \in issued..MaxToken /\ A!Goes(c, r)
      BY <1>8, <1>i DEF A!GenerateToken
    <2>3. /\ logged_in' = logged_in /\ tokens' = tokens /\ state' = state /\ rows' = rows
          /\ live' = live \cup {issued + 1} BY <1>8 DEF A!GenerateToken
    <2>4. /\ tokens' \in 0..issued' /\ rows' \subseteq 1..issued' /\ live' \subseteq 1..issued'
      BY <1>0, <2>2, <2>3
    <2>5. state' \in [user : BOOLEAN, token : 0..issued'] BY <1>0, <2>2, <2>3
    <2>6. r \in TokenCall(issued') /\ logged_in' \in BOOLEAN BY <1>0, <2>1, <2>2, <2>3
    <2> HIDE DEF r
    <2> QED BY <2>1, <2>2, <2>4, <2>5, <2>6, CallMoves
  <1>9. ASSUME NEW c \in Calls, A!SaveSession(c) PROVE AuthInv'
    <2> DEFINE r == [calls[c] EXCEPT !.at = "update"]
    <2>1. r \in TokenCall(issued) /\ Holds(r) BY <1>0 DEF TokenCall, Holds
    <2>2. A!Goes(c, r) BY <1>9 DEF A!SaveSession, A!Moves
    <2>3. calls[c].token \in 1..issued BY <1>0, <1>9 DEF A!SaveSession, A!At, TokenCall, Holds
    <2>4. /\ issued' = issued /\ logged_in' = logged_in /\ tokens' = tokens /\ state' = state
          /\ rows' = rows \cup {calls[c].token} /\ live' = live BY <1>9 DEF A!SaveSession
    <2>5. rows' \subseteq 1..issued' BY <1>0, <2>3, <2>4
    <2> HIDE DEF r
    <2> QED BY <1>0, <1>i, <2>1, <2>2, <2>4, <2>5, CallMoves
  <1>10. ASSUME NEW c \in Calls, A!LoginEnds(c) PROVE AuthInv'
    <2>1. calls[c].token \in 0..issued BY <1>0 DEF TokenCall
    <2>2. A!Goes(c, A!Idle) BY <1>10 DEF A!LoginEnds, A!Ends
    <2>3. /\ issued' = issued /\ logged_in' = TRUE /\ rows' = rows /\ live' = live
          /\ tokens' = calls[c].token BY <1>10 DEF A!LoginEnds
    <2>4. state' \in [user : BOOLEAN, token : 0..issued'] BY <1>10, <2>1, <2>3 DEF A!LoginEnds
    <2> QED BY <1>0, <1>i, <2>1, <2>2, <2>3, <2>4, CallMoves
  <1>11. ASSUME NEW c \in Calls, A!LoginFails(c) PROVE AuthInv'
    BY <1>0, <1>11, CallAlone DEF A!LoginFails, A!Ends
  <1>20. ASSUME NEW c \in Calls, A!LogoutFails(c) PROVE AuthInv'
    <2> DEFINE r == [calls[c] EXCEPT !.at = "failed"]
    <2>1. r \in TokenCall(issued) /\ Holds(r) BY <1>0 DEF TokenCall, Holds
    <2> QED BY <1>20, <2>1, CallAlone DEF A!LogoutFails, A!Moves
  <1>21. ASSUME NEW c \in Calls, A!LogoutRejects(c) PROVE AuthInv'
    BY <1>0, <1>21, CallAlone DEF A!LogoutRejects, A!Ends
  <1>12. ASSUME NEW c \in Calls, A!LogoutEnds(c) PROVE AuthInv'
    <2>1. A!Goes(c, A!Idle) BY <1>12 DEF A!LogoutEnds, A!Ends
    <2>2. /\ issued' = issued /\ logged_in' = FALSE /\ tokens' = 0 /\ rows' = rows /\ live' = live
      BY <1>12 DEF A!LogoutEnds
    <2>3. state' \in [user : BOOLEAN, token : 0..issued'] BY <1>0, <1>12, <2>2 DEF A!LogoutEnds
    <2>4. tokens' \in 0..issued' BY <1>0, <2>2
    <2>5. logged_in' \in BOOLEAN BY <2>2
    <2> QED BY <1>0, <1>i, <2>1, <2>2, <2>3, <2>4, <2>5, CallMoves
  <1>13. ASSUME NEW c \in Calls, A!Refreshed(c) PROVE AuthInv'
    <2> DEFINE r == [calls[c] EXCEPT !.at = "dispatched", !.token = issued + 1]
    <2>0. calls[c] \in TokenCall(issued + 1) BY <1>0, MoreTokens
    <2>1. r \in TokenCall(issued + 1) /\ Holds(r)
      <3>1. issued + 1 \in Nat /\ issued + 1 \in 1..(issued + 1) BY <1>0
      <3> QED BY <2>0, <3>1, GivenToken
    <2>2. issued' = issued + 1 /\ issued' \in issued..MaxToken /\ A!Goes(c, r)
      BY <1>13, <1>i DEF A!Refreshed
    <2>3. /\ logged_in' = logged_in /\ tokens' = tokens /\ rows' = rows
          /\ state' = [state EXCEPT !.token = issued + 1]
          /\ live' = (live \ {calls[c].token}) \cup {issued + 1} BY <1>13 DEF A!Refreshed
    <2>4. /\ tokens' \in 0..issued' /\ rows' \subseteq 1..issued' /\ live' \subseteq 1..issued'
      BY <1>0, <2>2, <2>3
    <2>5. state' \in [user : BOOLEAN, token : 0..issued'] BY <1>0, <2>2, <2>3
    <2>6. r \in TokenCall(issued') /\ logged_in' \in BOOLEAN BY <1>0, <2>1, <2>2, <2>3
    <2> HIDE DEF r
    <2> QED BY <2>1, <2>2, <2>4, <2>5, <2>6, CallMoves
  <1>14. ASSUME NEW c \in Calls, A!RefreshEnds(c) PROVE AuthInv'
    <2>1. calls[c].token \in 0..issued BY <1>0 DEF TokenCall
    <2>2. A!Goes(c, A!Idle) BY <1>14 DEF A!RefreshEnds, A!Ends
    <2>3. /\ issued' = issued /\ logged_in' = logged_in /\ rows' = rows /\ live' = live
          /\ state' = state /\ tokens' = calls[c].token BY <1>14 DEF A!RefreshEnds
    <2> QED BY <1>0, <1>i, <2>1, <2>2, <2>3, CallMoves
  <1>15. ASSUME NEW c \in Calls, A!RefreshFails(c) PROVE AuthInv'
    BY <1>0, <1>r, <1>15, CallAlone DEF A!RefreshFails, A!StartRevoke, A!Ends
  <1>16. ASSUME NEW c \in Calls, A!ProfileUpdated(c) PROVE AuthInv'
    <2>1. A!Goes(c, A!Idle) BY <1>16 DEF A!ProfileUpdated, A!Ends
    <2>2. /\ issued' = issued /\ logged_in' = TRUE /\ tokens' = tokens /\ rows' = rows
          /\ live' = live BY <1>16 DEF A!ProfileUpdated
    <2>3. state' \in [user : BOOLEAN, token : 0..issued'] BY <1>0, <1>16, <2>2 DEF A!ProfileUpdated
    <2> QED BY <1>0, <1>i, <2>1, <2>2, <2>3, CallMoves
  <1>17. ASSUME NEW c \in Calls, A!ProfileFails(c) PROVE AuthInv'
    BY <1>0, <1>17, CallAlone DEF A!ProfileFails, A!Ends
  <1>18. ASSUME A!Reload PROVE AuthInv'
    <2>1. tokens' \in 0..issued /\ logged_in' = TRUE BY <1>0, <1>18 DEF A!Reload
    <2> QED BY <1>0, <1>18, <2>1 DEF A!Reload, AuthInv
  <1>19. CASE UNCHANGED A!vars BY <1>19 DEF A!vars, AuthInv
  <1> QED BY <1>1, <1>2, <1>3, <1>4, <1>5, <1>6, <1>7, <1>8, <1>9, <1>10, <1>11, <1>12, <1>13,
       <1>14, <1>15, <1>16, <1>17, <1>18, <1>19, <1>20, <1>21 DEF A!Next, A!Starts, A!Continues

-----------------------------------------------------------------------------
(***************************************************************************)
(* form_input.js: what the validators say of the value is in the list of   *)
(* errors once the latest run, the one that emptied the list, has asked.   *)
(* An older run that ends later only adds to the list, and its verdict is  *)
(* about the list.                                                         *)
(***************************************************************************)
LEMMA InputLimits == MaxRuns \in Nat BY LimitsAssumption

ValidationRun == [at : {"sync", "async", "done"}, asked : Values]
Verdict == [valid : BOOLEAN, validating : BOOLEAN]

InputValues ==
  /\ value \in Values /\ original \in Values
  /\ errors \subseteq {"sync", "async", "aborted"}
  /\ verdict \in Verdict
  /\ debounce \in BOOLEAN /\ unchecked \in BOOLEAN
  /\ runs \in Seq(ValidationRun) /\ Len(runs) <= MaxRuns
  /\ run_controller \in 0..Len(runs) /\ aborted \subseteq 1..Len(runs)

Latest == runs[Len(runs)]
InputErrors ==
  /\ (\A r \in 1..Len(runs) : runs[r].at = "done") => (verdict.valid <=> errors = {})
  /\ Len(runs) = 0 => unchecked
  /\ Len(runs) # 0 /\ Latest.at # "sync" =>
       /\ ~unchecked /\ ~debounce => value = Latest.asked
       /\ Latest.asked \in SyncBad => errors # {}
       /\ Latest.at = "done" /\ Latest.asked \in AsyncBad => errors # {}

InputInv == InputValues /\ InputErrors

LEMMA RunFacts ==
  ASSUME NEW s \in Seq(ValidationRun)
  PROVE  Len(s) \in Nat /\ DOMAIN s = 1..Len(s) /\ Cardinality(DOMAIN s) = Len(s)
  <1>1. Len(s) \in Nat /\ DOMAIN s = 1..Len(s) BY LenProperties
  <1>2. Cardinality(1..Len(s)) = Len(s)
    <2> HIDE <1>1
    <2>1. 1 \in Int /\ Len(s) \in Int /\ Len(s) >= 0 BY <1>1
    <2> DEFINE n == Len(s)
    <2>2. Cardinality(1..n) = IF 1 > n THEN 0 ELSE n - 1 + 1
      <3> HIDE DEF n
      <3>1. n \in Int BY <2>1 DEF n
      <3> QED BY <3>1, FS_Interval
    <2> QED BY <2>1, <2>2
  <1> QED BY <1>1, <1>2

LEMMA InputSizes ==
  ASSUME InputValues
  PROVE  /\ F!Runs = 1..Len(runs) /\ F!Last = Len(runs) /\ Len(runs) \in Nat
         /\ \A r \in 1..Len(runs) : runs[r] \in ValidationRun
  <1>1. runs \in Seq(ValidationRun) BY DEF InputValues
  <1>2. Len(runs) \in Nat /\ DOMAIN runs = 1..Len(runs) /\ Cardinality(DOMAIN runs) = Len(runs)
    BY <1>1, RunFacts
  <1>3. F!Runs = 1..Len(runs) BY <1>2 DEF F!Runs
  <1>4. F!Last = Len(runs) BY <1>2 DEF F!Last, F!Runs, F!Cardinality, Cardinality
  <1>5. \A r \in 1..Len(runs) : runs[r] \in ValidationRun BY <1>1, ElementOfSeq
  <1> QED BY <1>2, <1>3, <1>4, <1>5

LEMMA InputStarts == F!InputInit => InputInv
  <1> SUFFICES ASSUME F!InputInit PROVE InputInv OBVIOUS
  <1>1. runs \in Seq(ValidationRun) /\ Len(runs) = 0 BY EmptySeq DEF F!InputInit
  <1>2. /\ value \in Values /\ original \in Values /\ errors = {} /\ aborted = {}
        /\ debounce \in BOOLEAN /\ unchecked = TRUE BY DEF F!InputInit
  <1>3. verdict \in Verdict /\ verdict.valid BY DEF F!InputInit, Verdict
  <1>4. run_controller = 0 BY DEF F!InputInit
  <1>5. run_controller \in 0..Len(runs) /\ Len(runs) <= MaxRuns BY <1>1, <1>4, InputLimits
  <1>6. InputValues BY <1>1, <1>2, <1>3, <1>5 DEF InputValues
  <1>7. InputErrors BY <1>1, <1>2, <1>3 DEF InputErrors
  <1> QED BY <1>6, <1>7 DEF InputInv

(* A new run empties the list; the run before it is aborted. *)
LEMMA RunStarts ==
  ASSUME InputInv, NEW valid \in BOOLEAN, F!StartRun(valid),
         value' \in Values, debounce' \in BOOLEAN
  PROVE  InputInv'
  <1> DEFINE run == [at |-> "sync", asked |-> value]
  <1>1. run \in ValidationRun BY DEF InputInv, InputValues, ValidationRun
  <1>2. runs \in Seq(ValidationRun) /\ runs' = Append(runs, run)
    BY DEF InputInv, InputValues, F!StartRun
  <1>3. /\ runs' \in Seq(ValidationRun) /\ Len(runs') = Len(runs) + 1
        /\ runs'[Len(runs) + 1] = run
    <2> HIDE DEF run
    <2> QED BY <1>1, <1>2
  <1>4. Len(runs) \in Nat /\ Len(runs) < MaxRuns BY InputSizes DEF InputInv, F!StartRun
  <1> DEFINE n == Len(runs)  m == Len(runs')
  <1>5. n \in Nat /\ n < MaxRuns /\ m = n + 1 BY <1>3, <1>4
  <1>6. run_controller' = run_controller /\ run_controller \in 0..n /\ aborted \subseteq 1..n
    BY DEF InputInv, InputValues, F!StartRun
  <1>7. aborted' \subseteq aborted \cup {run_controller} /\ (run_controller = 0 => aborted' = aborted)
    BY DEF F!StartRun
  <1>8. m <= MaxRuns /\ run_controller' \in 0..m /\ aborted' \subseteq 1..m
    <2> HIDE DEF n, m
    <2> QED BY <1>5, <1>6, <1>7, InputLimits
  <1>9. /\ errors' = {} /\ original' = original /\ unchecked' = FALSE
        /\ verdict' \in Verdict BY DEF F!StartRun, Verdict
  <1>10. InputValues' BY <1>3, <1>8, <1>9 DEF InputInv, InputValues
  <1>11. Latest'.at = "sync" /\ m # 0 /\ m \in 1..m
    <2>1. Latest' = runs'[m] BY DEF Latest
    <2>2. runs'[m] = run BY <1>3, <1>5
    <2> HIDE DEF n, m
    <2>3. m # 0 /\ m \in 1..m BY <1>5
    <2> QED BY <2>1, <2>2, <2>3
  <1>12. ~ \A r \in 1..m : runs'[r].at = "done" BY <1>11 DEF Latest
  <1> QED BY <1>10, <1>11, <1>12 DEF InputInv, InputErrors

(* The run r goes on and may add errors; a run that is done gave its       *)
(* verdict on the list.                                                    *)
LEMMA RunGoesOn ==
  ASSUME InputInv, NEW r \in 1..Len(runs), NEW run \in ValidationRun,
         runs' = [runs EXCEPT ![r] = run],
         runs[r].at # "sync" => run.asked = runs[r].asked,
         runs[r].at = "sync" => run.asked = value,
         run.at # "sync",
         errors \subseteq errors', errors' \subseteq {"sync", "async", "aborted"},
         runs[r].at = "sync" /\ value \in SyncBad => errors' # {},
         run.at = "done" => verdict' \in Verdict /\ (verdict'.valid <=> errors' = {}),
         run.at # "done" => verdict' = verdict,
         run.at = "done" /\ run.asked \in AsyncBad => errors' # {},
         run_controller' \in {run_controller, r}, aborted' = aborted,
         UNCHANGED <<value, original, debounce, unchecked>>
  PROVE  InputInv'
  <1>1. /\ runs \in Seq(ValidationRun) /\ Len(runs) \in Nat
        /\ \A q \in 1..Len(runs) : runs[q] \in ValidationRun BY InputSizes DEF InputInv, InputValues
  <1>2. /\ runs' \in Seq(ValidationRun) /\ Len(runs') = Len(runs)
        /\ \A q \in 1..Len(runs) : runs'[q] = IF q = r THEN run ELSE runs[q] BY <1>1, ExceptSeq
  <1>3. verdict' \in Verdict BY DEF InputInv, InputValues, ValidationRun
  <1>4. run_controller' \in 0..Len(runs') BY <1>1, <1>2 DEF InputInv, InputValues
  <1>5. InputValues' BY <1>2, <1>3, <1>4 DEF InputInv, InputValues
  <1>6. ASSUME \A q \in 1..Len(runs') : runs'[q].at = "done"
        PROVE  verdict'.valid <=> errors' = {} BY <1>2, <1>6
  <1>7. Len(runs) # 0 BY <1>1
  <1>8. CASE r = Len(runs)
    <2>1. Latest' = run BY <1>2, <1>8 DEF Latest
    <2>2. Latest = runs[r] BY <1>8 DEF Latest
    <2>3. ~unchecked' /\ ~debounce' => value' = run.asked BY <1>7, <2>2 DEF InputInv, InputErrors
    <2>4. run.asked \in SyncBad => errors' # {} BY <1>7, <2>2 DEF InputInv, InputErrors
    <2> QED BY <1>2, <1>5, <1>6, <1>7, <2>1, <2>3, <2>4 DEF InputInv, InputErrors
  <1>9. CASE r # Len(runs)
    <2>1. Latest' = Latest
      <3>1. Len(runs) \in 1..Len(runs) BY <1>1, <1>7
      <3> QED BY <1>2, <1>9, <3>1 DEF Latest
    <2> QED BY <1>2, <1>5, <1>6, <1>7, <2>1 DEF InputInv, InputErrors
  <1> QED BY <1>8, <1>9

LEMMA InputKeeps == InputInv /\ [F!InputNext]_(F!input_vars) => InputInv'
  <1> SUFFICES ASSUME InputInv, [F!InputNext]_(F!input_vars) PROVE InputInv' OBVIOUS
  <1>0. /\ value \in Values /\ original \in Values /\ errors \subseteq {"sync", "async", "aborted"}
        /\ verdict \in Verdict /\ verdict.valid \in BOOLEAN
        /\ debounce \in BOOLEAN /\ unchecked \in BOOLEAN
        /\ F!Runs = 1..Len(runs) /\ \A r \in 1..Len(runs) : runs[r] \in ValidationRun
    BY InputSizes DEF InputInv, InputValues, Verdict
  <1>1. ASSUME NEW v \in Values, F!HandleInput(v) PROVE InputInv'
    <2>1. /\ value' \in Values /\ debounce' = TRUE
          /\ UNCHANGED <<original, errors, verdict, runs, run_controller, aborted, unchecked>>
      BY <1>1 DEF F!HandleInput
    <2> QED BY <2>1 DEF InputInv, InputValues, InputErrors, Latest
  <1>2. ASSUME NEW v \in Values, F!SetValue(v) PROVE InputInv'
    BY <1>0, <1>2, RunStarts DEF F!SetValue
  <1>3. ASSUME NEW v \in Values, F!SetValueUnchecked(v) PROVE InputInv'
    <2>1. /\ value' \in Values /\ unchecked' = TRUE
          /\ UNCHANGED <<original, errors, verdict, debounce, runs, run_controller, aborted>>
      BY <1>3 DEF F!SetValueUnchecked
    <2> QED BY <2>1 DEF InputInv, InputValues, InputErrors, Latest
  <1>4. ASSUME F!DebounceOver PROVE InputInv' BY <1>0, <1>4, RunStarts DEF F!DebounceOver
  <1>5. ASSUME F!HandleBlur PROVE InputInv' BY <1>0, <1>5, RunStarts DEF F!HandleBlur
  <1>6. ASSUME F!InputReset PROVE InputInv' BY <1>0, <1>6, RunStarts DEF F!InputReset
  <1>7. ASSUME F!InputDestroy PROVE InputInv'
    <2>1. /\ debounce' = FALSE /\ unchecked' = (unchecked \/ debounce)
          /\ UNCHANGED <<value, original, errors, verdict, runs, run_controller>>
      BY <1>7 DEF F!InputDestroy
    <2>2. aborted' \subseteq 1..Len(runs)
      <3>1. aborted \subseteq 1..Len(runs) /\ run_controller \in 0..Len(runs)
        BY DEF InputInv, InputValues
      <3>2. aborted' = IF run_controller = 0 THEN aborted ELSE aborted \cup {run_controller}
        BY <1>7 DEF F!InputDestroy
      <3> QED BY <3>1, <3>2
    <2> QED BY <1>0, <2>1, <2>2 DEF InputInv, InputValues, InputErrors, Latest
  <1>8. ASSUME NEW r \in 1..Len(runs), F!AskAsync(r) PROVE InputInv'
    <2> DEFINE run == [at |-> "async", asked |-> value]
    <2>1. run \in ValidationRun BY <1>0 DEF ValidationRun
    <2> HIDE DEF run
    <2>2. run.at = "async" /\ run.asked = value BY DEF run
    <2>3. /\ runs[r].at = "sync" /\ runs' = [runs EXCEPT ![r] = run] /\ run_controller' = r
          /\ UNCHANGED <<value, original, verdict, debounce, aborted, unchecked>>
          /\ errors' = errors \cup (IF value \in SyncBad THEN {"sync"} ELSE {})
      BY <1>8 DEF F!AskAsync, run
    <2> QED BY <1>0, <2>1, <2>2, <2>3, RunGoesOn
  <1>9. ASSUME NEW r \in 1..Len(runs), NEW found \in SUBSET {"async", "aborted"},
               F!Conclude(r, found), runs[r].at = "async",
               runs[r].asked \in AsyncBad => found # {}
        PROVE  InputInv'
    <2> DEFINE run == [runs[r] EXCEPT !.at = "done"]
    <2>1. run \in ValidationRun /\ run.at = "done" /\ run.asked = runs[r].asked
      BY <1>0 DEF ValidationRun
    <2>2. /\ runs' = [runs EXCEPT ![r] = run] /\ errors' = errors \cup found
          /\ UNCHANGED <<value, original, debounce, run_controller, aborted, unchecked>>
      BY <1>9 DEF F!Conclude
    <2>3. verdict' \in Verdict /\ (verdict'.valid <=> errors' = {})
      <3>1. verdict' = [valid |-> errors' = {}, validating |-> FALSE] BY <1>9 DEF F!Conclude
      <3> QED BY <3>1 DEF Verdict
    <2> HIDE DEF run
    <2> QED BY <1>0, <1>9, <2>1, <2>2, <2>3, RunGoesOn
  <1>10. ASSUME NEW r \in 1..Len(runs), F!AsyncAnswered(r) PROVE InputInv'
    BY <1>9, <1>10 DEF F!AsyncAnswered
  <1>11. ASSUME NEW r \in 1..Len(runs), F!AsyncAborted(r) PROVE InputInv'
    BY <1>9, <1>11 DEF F!AsyncAborted
  <1>12. CASE UNCHANGED F!input_vars
    BY <1>12 DEF F!input_vars, InputInv, InputValues, InputErrors, Latest
  <1> QED BY <1>0, <1>1, <1>2, <1>3, <1>4, <1>5, <1>6, <1>7, <1>8, <1>10, <1>11, <1>12
       DEF F!InputNext, F!RunProceeds

LEMMA InputImplies == InputInv => F!InputTypeOK /\ F!AcceptedIsValid
  <1> SUFFICES ASSUME InputInv PROVE F!InputTypeOK /\ F!AcceptedIsValid OBVIOUS
  <1>0. /\ F!Runs = 1..Len(runs) /\ F!Last = Len(runs) /\ Len(runs) \in Nat
        /\ \A r \in 1..Len(runs) : runs[r] \in ValidationRun BY InputSizes DEF InputInv
  <1>1. F!InputTypeOK BY <1>0 DEF InputInv, InputValues, ValidationRun, Verdict, F!InputTypeOK
  <1>2. ASSUME F!Quiet PROVE verdict.valid = (errors = {})
    <2>1. verdict.valid <=> errors = {} BY <1>0, <1>2 DEF F!Quiet, InputInv, InputErrors
    <2>2. verdict.valid \in BOOLEAN BY DEF InputInv, InputValues, Verdict
    <2> QED BY <2>1, <2>2
  <1>3. ASSUME F!Quiet, verdict.valid, ~unchecked, ~debounce
        PROVE  value \notin SyncBad \cup AsyncBad
    <2>1. errors = {} /\ Len(runs) # 0 BY <1>2, <1>3 DEF InputInv, InputErrors
    <2>2. Latest.at = "done"
      <3>1. Len(runs) \in F!Runs BY <1>0, <2>1
      <3> QED BY <1>3, <3>1 DEF F!Quiet, Latest
    <2> QED BY <1>3, <2>1, <2>2 DEF InputInv, InputErrors
  <1> QED BY <1>1, <1>2, <1>3 DEF F!AcceptedIsValid

-----------------------------------------------------------------------------
(***************************************************************************)
(* choice_button.js, progress_bar.js: what the runs check of the button    *)
(* and of the bar is inductive as it stands.                               *)
(***************************************************************************)
LEMMA ButtonLimits == MaxShakes \in Nat BY LimitsAssumption

Looks == {"default", "selected", "correct", "wrong", "disabled", "hover", "focus"}

ButtonInv ==
  /\ buttonState \in Looks /\ shakes \in 0..MaxShakes
  /\ inside \in BOOLEAN /\ focused \in BOOLEAN
  /\ buttonState = "hover" => inside
  /\ buttonState = "focus" => focused
  /\ running = tracked /\ (running = {} \/ \E a \in running : running = {a})

LEMMA ButtonStarts == F!ButtonInit => ButtonInv
  <1> SUFFICES ASSUME F!ButtonInit PROVE ButtonInv OBVIOUS
  <1>1. shakes \in 0..MaxShakes BY ButtonLimits DEF F!ButtonInit
  <1> QED BY <1>1 DEF F!ButtonInit, ButtonInv, Looks

LEMMA ButtonImplies == ButtonInv => F!ButtonTypeOK /\ F!HighlightsEnd
  <1> SUFFICES ASSUME ButtonInv PROVE F!ButtonTypeOK /\ F!HighlightsEnd OBVIOUS
  <1>1. F!ButtonTypeOK BY DEF ButtonInv, F!ButtonTypeOK, F!CanTransition, Looks
  <1>2. Cardinality(running) <= 1
    <2>1. CASE running = {} BY <2>1, FS_EmptySet
    <2>2. ASSUME NEW a, running = {a} PROVE Cardinality(running) <= 1
      <3>1. Cardinality({a}) = 1 BY FS_Singleton
      <3> QED BY <2>2, <3>1
    <2> QED BY <2>1, <2>2 DEF ButtonInv
  <1> QED BY <1>1, <1>2 DEF ButtonInv, F!HighlightsEnd, F!Cardinality, Cardinality

(* setState follows the table, plays one animation, and counts a shake. *)
LEMMA StateSet ==
  ASSUME ButtonInv, NEW s \in Looks, F!SetState(s)
  PROVE  /\ buttonState' \in {buttonState, s}
         /\ s \in F!CanTransition[buttonState] => buttonState' = s
         /\ shakes' \in 0..MaxShakes
         /\ running' = tracked' /\ (running' = {} \/ \E a : running' = {a})
  <1>1. CASE s \notin F!CanTransition[buttonState] BY <1>1 DEF F!SetState, F!moves, ButtonInv
  <1>2. CASE s \in F!CanTransition[buttonState]
    <2>1. buttonState' = s BY <1>2 DEF F!SetState
    <2>2. shakes' \in 0..MaxShakes
      <3>1. IF s = "wrong" THEN shakes < MaxShakes /\ shakes' = shakes + 1 ELSE shakes' = shakes
        BY <1>2 DEF F!SetState
      <3> QED BY <3>1, ButtonLimits DEF ButtonInv
    <2>3. running' = tracked' /\ (running' = {} \/ \E a : running' = {a})
      <3>1. \/ \E a : F!Play(a)
            \/ UNCHANGED <<running, tracked>> BY <1>2 DEF F!SetState
      <3> QED BY <3>1 DEF ButtonInv, F!Play
    <2> QED BY <1>2, <2>1, <2>2, <2>3
  <1> QED BY <1>1, <1>2

LEMMA ButtonKeeps == ButtonInv /\ [F!ButtonNext]_(F!button_vars) => ButtonInv'
  <1> SUFFICES ASSUME ButtonInv, [F!ButtonNext]_(F!button_vars) PROVE ButtonInv' OBVIOUS
  <1>m. ASSUME UNCHANGED <<buttonState, F!moves>>
        PROVE  /\ buttonState' = buttonState /\ shakes' \in 0..MaxShakes
               /\ running' = tracked' /\ (running' = {} \/ \E a : running' = {a})
    BY <1>m DEF F!moves, ButtonInv
  <1>d. /\ "default" \in F!CanTransition["hover"]
        /\ "default" \in F!CanTransition["focus"] BY DEF F!CanTransition
  <1>1. ASSUME F!MouseEnter PROVE ButtonInv'
    <2>1. CASE UNCHANGED <<buttonState, F!moves>> BY <1>m, <1>1, <2>1 DEF F!MouseEnter, ButtonInv
    <2>2. CASE F!SetState("hover")
      <3>1. "hover" \in Looks BY DEF Looks
      <3> QED BY <1>1, <2>2, <3>1, StateSet DEF F!MouseEnter, ButtonInv
    <2> QED BY <1>1, <2>1, <2>2 DEF F!MouseEnter
  <1>s. "default" \in Looks /\ "disabled" \in Looks /\ "focus" \in Looks BY DEF Looks
  <1>2. ASSUME F!MouseLeave PROVE ButtonInv'
    <2>1. CASE buttonState \in {"hover", "selected"} /\ F!SetState("default")
      <3>1. buttonState' # "hover" BY <1>d, <1>s, <2>1, StateSet
      <3> QED BY <1>s, <1>2, <2>1, <3>1, StateSet DEF F!MouseLeave, ButtonInv
    <2>2. CASE buttonState \notin {"hover", "selected"} /\ UNCHANGED <<buttonState, F!moves>>
      BY <1>m, <1>2, <2>2 DEF F!MouseLeave, ButtonInv
    <2> QED BY <1>2, <2>1, <2>2 DEF F!MouseLeave
  <1>3. ASSUME F!Focus PROVE ButtonInv'
    <2>1. CASE UNCHANGED <<buttonState, F!moves>> BY <1>m, <1>3, <2>1 DEF F!Focus, ButtonInv
    <2>2. CASE F!SetState("focus") BY <1>s, <1>3, <2>2, StateSet DEF F!Focus, ButtonInv
    <2> QED BY <1>3, <2>1, <2>2 DEF F!Focus
  <1>4. ASSUME F!Blur PROVE ButtonInv'
    <2>1. CASE buttonState = "focus" /\ F!SetState("default")
      <3>1. buttonState' = "default" BY <1>d, <1>s, <2>1, StateSet
      <3> QED BY <1>s, <1>4, <2>1, <3>1, StateSet DEF F!Blur, ButtonInv
    <2>2. CASE buttonState # "focus" /\ UNCHANGED <<buttonState, F!moves>>
      BY <1>m, <1>4, <2>2 DEF F!Blur, ButtonInv
    <2> QED BY <1>4, <2>1, <2>2 DEF F!Blur
  <1>5. ASSUME NEW s \in Looks \ {"hover", "focus"}, F!SetState(s), UNCHANGED <<inside, focused>>
        PROVE  ButtonInv' BY <1>5, StateSet DEF ButtonInv
  <1>6. ASSUME NEW b \in BOOLEAN, F!SetDisabled(b) PROVE ButtonInv'
    <2>1. "default" \in Looks \ {"hover", "focus"} /\ "disabled" \in Looks \ {"hover", "focus"}
      BY DEF Looks
    <2> QED BY <1>5, <1>6, <2>1 DEF F!SetDisabled
  <1>7. ASSUME NEW b \in BOOLEAN, F!SetLoading(b) PROVE ButtonInv'
    <2>1. "default" \in Looks \ {"hover", "focus"} BY DEF Looks
    <2>2. CASE UNCHANGED <<buttonState, F!moves>> BY <1>m, <1>7, <2>2 DEF F!SetLoading, ButtonInv
    <2> QED BY <1>5, <1>7, <2>1, <2>2 DEF F!SetLoading
  <1>8. ASSUME NEW s \in {"selected", "default", "correct", "wrong"}, F!Mark(s) PROVE ButtonInv'
    <2>1. s \in Looks \ {"hover", "focus"} BY DEF Looks
    <2> QED BY <1>5, <1>8, <2>1 DEF F!Mark
  <1>9. ASSUME NEW a \in {"pulse", "bounce", "shake", "glow"}, F!PlayAnimation(a) PROVE ButtonInv'
    <2>1. shakes' \in 0..MaxShakes BY <1>9, ButtonLimits DEF F!PlayAnimation, ButtonInv
    <2>2. UNCHANGED <<buttonState, inside, focused>> /\ running' = {a} /\ tracked' = {a}
      BY <1>9 DEF F!PlayAnimation, F!Play, F!look, ButtonInv
    <2> QED BY <2>1, <2>2 DEF ButtonInv
  <1>10. ASSUME F!StopAnimation PROVE ButtonInv' BY <1>10 DEF F!StopAnimation, F!look, ButtonInv
  <1>11. ASSUME F!ShakeEnds PROVE ButtonInv'
    <2>1. shakes' \in 0..MaxShakes BY <1>11, ButtonLimits DEF F!ShakeEnds, ButtonInv
    <2> QED BY <1>11, <2>1 DEF F!ShakeEnds, F!look, ButtonInv
  <1>12. CASE UNCHANGED F!button_vars BY <1>12 DEF F!button_vars, ButtonInv
  <1> QED BY <1>1, <1>2, <1>3, <1>4, <1>6, <1>7, <1>8, <1>9, <1>10, <1>11, <1>12 DEF F!ButtonNext

BarInv == F!BarTypeOK /\ F!LockIsReleased

LEMMA BarStarts == F!BarInit => BarInv
  BY LimitsAssumption DEF F!BarInit, BarInv, F!BarTypeOK, F!LockIsReleased

LEMMA BarKeeps == BarInv /\ [F!BarNext]_(F!bar_vars) => BarInv'
  <1> SUFFICES ASSUME BarInv, [F!BarNext]_(F!bar_vars) PROVE BarInv' OBVIOUS
  <1> USE DEF BarInv, F!BarTypeOK, F!LockIsReleased
  <1>1. ASSUME NEW p \in Percents, F!Render(p) PROVE BarInv' BY <1>1 DEF F!Render
  <1>2. ASSUME NEW p \in Percents, F!UpdatePercent(p) PROVE BarInv'
    BY <1>2 DEF F!UpdatePercent, F!Accepted, F!Told
  <1>3. ASSUME F!UpdateEmitted PROVE BarInv' BY <1>3 DEF F!UpdateEmitted, F!Told
  <1>4. ASSUME F!UpdateEnds PROVE BarInv' BY <1>4 DEF F!UpdateEnds
  <1>5. ASSUME F!BarReset PROVE BarInv' BY <1>5 DEF F!BarReset, F!Told
  <1>6. ASSUME F!BarDestroy PROVE BarInv' BY <1>6 DEF F!BarDestroy
  <1>7. CASE UNCHANGED F!bar_vars BY <1>7 DEF F!bar_vars
  <1> QED BY <1>1, <1>2, <1>3, <1>4, <1>5, <1>6, <1>7 DEF F!BarNext

-----------------------------------------------------------------------------
(***************************************************************************)
(* audio-service.js: only a call of the queue keeps it processing, and     *)
(* there is one at a time.                                                 *)
(***************************************************************************)

(* A set of numbers that leaves out none below its own is an interval. *)
LEMMA PrefixIsInterval ==
  ASSUME NEW n \in Nat, NEW S \in SUBSET (1..n), \A i \in S : \A j \in 1..i : j \in S
  PROVE  Cardinality(S) \in 0..n /\ S = 1..Cardinality(S)
  <1> DEFINE T == {i \in Nat : i > 0 /\ i \notin S}
  <1>1. T \subseteq Nat /\ T # {}
    <2>1. n + 1 \in T OBVIOUS
    <2> QED BY <2>1
  <1>2. PICK m \in T : \A k \in T : <<k, m>> \notin OpToRel(<, Nat)
    <2> HIDE DEF T
    <2> QED BY <1>1, WFMin, NatLessThanWellFounded, Zenon
  <1>3. \A k \in T : ~(k < m)
    <2>1. \A k \in T : k \in Nat /\ m \in Nat OBVIOUS
    <2> HIDE DEF T
    <2> QED BY <1>2, <2>1, Zenon DEF OpToRel
  <1>m. m \in Nat /\ m > 0 OBVIOUS
  <1>n. m - 1 <= n BY <1>3
  <1>r. \A i \in 1..(m - 1) : i \in S BY <1>3
  <1>i. \A i \in S : i \in Nat /\ i >= 1 /\ i <= m - 1 OBVIOUS
  <1> HIDE DEF T
  <1>4. S = 1..(m - 1) /\ m - 1 \in 0..n
    <2> DEFINE k == m - 1
    <2>1. k \in Nat /\ k <= n BY <1>m, <1>n
    <2>2. (\A i \in 1..k : i \in S) /\ (\A i \in S : i \in Nat /\ i >= 1 /\ i <= k) BY <1>r, <1>i
    <2> HIDE DEF k
    <2>3. ASSUME NEW i \in S PROVE i \in 1..k BY <2>1, <2>2
    <2>4. S = 1..k BY <2>2, <2>3
    <2>5. k \in 0..n BY <2>1
    <2> QED BY <2>4, <2>5 DEF k
  <1>5. Cardinality(1..(m - 1)) = m - 1
    <2> DEFINE k == m - 1
    <2>1. k \in Nat BY <1>4
    <2> HIDE DEF k
    <2>2. 1 \in Int /\ k \in Int BY <2>1
    <2>3. Cardinality(1..k) = IF 1 > k THEN 0 ELSE k - 1 + 1 BY <2>2, FS_Interval
    <2>4. Cardinality(1..k) = k BY <2>1, <2>3
    <2> QED BY <2>4 DEF k
  <1> QED BY <1>4, <1>5

Res == Words \cup Files
QueueItem == [res : Res, priority : 0..1]
PlayerState ==
  [res : Res \cup {No}, step : {"none", "load", "play", "cached"},
   state : {"none", "loading", "idle", "playing", "paused", "stopped", "ended", "error"}]
PlayCall == [asked : Res \cup {No}, queued : BOOLEAN]

PlayersInv ==
  /\ player \in [Players -> PlayerState] /\ plays \in [Players -> PlayCall]
  /\ kept \in [U!Keys -> Players \cup {No}] /\ activePlayer \in Players \cup {No}
  /\ \A p \in Players : player[p].step # "none" <=> plays[p] # U!NoCall

Sorted(q) == \A i, j \in 1..Len(q) : i < j => q[i].priority <= q[j].priority
QueueInv ==
  /\ queue \in Seq(QueueItem) /\ Len(queue) <= MaxQueue /\ Sorted(queue)
  /\ processing \in BOOLEAN
  /\ queue # <<>> => processing

TurnsInv ==
  /\ \A p \in Players : plays[p].queued => processing
  /\ \A p, q \in Players : plays[p].queued /\ plays[q].queued => p = q

AudioInv == PlayersInv /\ QueueInv /\ TurnsInv

LEMMA AudioLimits == MaxQueue \in Nat /\ No \notin Res BY LimitsAssumption, NoAssumption DEF Res

LEMMA AudioNulls ==
  /\ U!NoPlayer \in PlayerState /\ U!NoPlayer.step = "none"
  /\ U!NoCall \in PlayCall /\ ~U!NoCall.queued BY DEF U!NoPlayer, U!NoCall, PlayerState, PlayCall

LEMMA AudioStarts == U!Init => AudioInv
  <1> SUFFICES ASSUME U!Init PROVE AudioInv OBVIOUS
  <1>1. /\ player = [p \in Players |-> U!NoPlayer] /\ plays = [p \in Players |-> U!NoCall]
        /\ kept = [k \in U!Keys |-> No] /\ activePlayer = No
        /\ queue = <<>> /\ processing = FALSE BY DEF U!Init
  <1>2. PlayersInv BY <1>1, AudioNulls DEF PlayersInv
  <1>3. queue \in Seq(QueueItem) /\ Len(queue) = 0 BY <1>1, EmptySeq
  <1>4. Len(queue) <= MaxQueue /\ Sorted(queue) BY <1>3, AudioLimits DEF Sorted
  <1>5. QueueInv BY <1>1, <1>3, <1>4 DEF QueueInv
  <1>6. TurnsInv BY <1>1, AudioNulls DEF TurnsInv
  <1> QED BY <1>2, <1>5, <1>6 DEF AudioInv

LEMMA AudioImplies == AudioInv => U!TypeOK /\ U!QueueIsServed
  <1> SUFFICES ASSUME AudioInv PROVE U!TypeOK /\ U!QueueIsServed OBVIOUS
  <1>1. ASSUME NEW p \in Players
        PROVE  /\ (player[p].step # "none") = (plays[p] # U!NoCall)
               /\ player[p].res \in Words \cup Files \cup {No}
    <2>1. player[p] \in PlayerState BY DEF AudioInv, PlayersInv
    <2> QED BY <2>1 DEF AudioInv, PlayersInv, PlayerState, Res
  <1>2. U!TypeOK BY <1>1 DEF U!TypeOK, AudioInv, PlayersInv, QueueInv
  <1> DEFINE S == {p \in Players : plays[p].queued}
  <1>3. S = {} \/ \E a : S = {a}
    <2>1. \A a, b \in S : a = b BY DEF AudioInv, TurnsInv
    <2> HIDE DEF S
    <2>2. ASSUME NEW a \in S PROVE S = {a} BY <2>1, <2>2
    <2> QED BY <2>2
  <1>4. Cardinality(S) <= 1
    <2> HIDE DEF S
    <2>1. CASE S = {} BY <2>1, FS_EmptySet
    <2>2. ASSUME NEW a, S = {a} PROVE Cardinality(S) <= 1
      <3>1. Cardinality({a}) = 1 BY FS_Singleton
      <3> QED BY <2>2, <3>1
    <2> QED BY <1>3, <2>1, <2>2
  <1>5. U!Cardinality(S) <= 1 BY <1>4 DEF Cardinality, U!Cardinality
  <1>6. U!QueueIsServed BY <1>5 DEF U!QueueIsServed, AudioInv, QueueInv, Sorted
  <1> QED BY <1>2, <1>6

(* play takes a player without a call: the cached one, or one never used.  *)
LEMMA PlayTakes ==
  ASSUME PlayersInv, NEW res \in Res, NEW queued \in BOOLEAN, U!PlayOf(res, queued)
  PROVE  \E p \in Players :
           /\ plays[p] = U!NoCall
           /\ plays' = [plays EXCEPT ![p] = [asked |-> res, queued |-> queued]]
           /\ player' \in [Players -> PlayerState]
           /\ player'[p].step # "none"
           /\ \A q \in Players : q # p => player'[q] = player[q]
  <1> DEFINE k == kept[U!Key(res)]
  <1>1. U!Key(res) \in U!Keys BY DEF U!Key, U!Keys, Res
  <1>2. CASE k # No
    <2>1. k \in Players BY <1>1, <1>2 DEF PlayersInv
    <2>2. /\ plays[k] = U!NoCall
          /\ player' = [player EXCEPT ![k].step = "cached"]
          /\ plays' = [plays EXCEPT ![k] = [asked |-> res, queued |-> queued]] BY <1>2 DEF U!PlayOf
    <2> HIDE DEF k
    <2>3. [player[k] EXCEPT !.step = "cached"] \in PlayerState BY <2>1 DEF PlayersInv, PlayerState
    <2>4. /\ player' \in [Players -> PlayerState]
          /\ player'[k].step # "none"
          /\ \A q \in Players : q # k => player'[q] = player[q]
      <3>1. player' = [player EXCEPT ![k] = [player[k] EXCEPT !.step = "cached"]]
        BY <2>1, <2>2 DEF PlayersInv
      <3>2. [player[k] EXCEPT !.step = "cached"].step = "cached" BY <2>1 DEF PlayersInv, PlayerState
      <3> QED BY <2>1, <2>3, <3>1, <3>2 DEF PlayersInv
    <2> QED BY <2>1, <2>2, <2>4
  <1>3. CASE k = No
    <2>1. PICK p \in {CHOOSE q \in U!Free : TRUE} :
            /\ player' = [player EXCEPT ![p] = [res |-> res, state |-> "loading", step |-> "load"]]
            /\ plays' = [plays EXCEPT ![p] = [asked |-> res, queued |-> queued]]
      BY <1>3 DEF U!PlayOf
    <2>2. U!Free # {} BY <1>3 DEF U!PlayOf
    <2>3. p \in U!Free BY <2>2
    <2>4. p \in Players /\ player[p] = U!NoPlayer BY <2>3 DEF U!Free
    <2>5. plays[p] = U!NoCall BY <2>4, AudioNulls DEF PlayersInv
    <2>6. [res |-> res, state |-> "loading", step |-> "load"] \in PlayerState BY DEF PlayerState
    <2>7. /\ player' \in [Players -> PlayerState]
          /\ player'[p].step # "none"
          /\ \A q \in Players : q # p => player'[q] = player[q] BY <2>1, <2>4, <2>6 DEF PlayersInv
    <2> QED BY <2>1, <2>4, <2>5, <2>7
  <1> QED BY <1>2, <1>3

(* After play, a call of the queue needs that there was none before.       *)
LEMMA PlayKeeps ==
  ASSUME PlayersInv, TurnsInv, NEW res \in Res, NEW queued \in BOOLEAN,
         U!PlayOf(res, queued), UNCHANGED <<kept, activePlayer>>,
         processing => processing',
         queued => processing' /\ \A q \in Players : ~plays[q].queued
  PROVE  PlayersInv' /\ TurnsInv'
  <1>1. PICK p \in Players :
           /\ plays[p] = U!NoCall
           /\ plays' = [plays EXCEPT ![p] = [asked |-> res, queued |-> queued]]
           /\ player' \in [Players -> PlayerState]
           /\ player'[p].step # "none"
           /\ \A q \in Players : q # p => player'[q] = player[q] BY PlayTakes
  <1>2. /\ [asked |-> res, queued |-> queued] \in PlayCall
        /\ [asked |-> res, queued |-> queued] # U!NoCall
        /\ [asked |-> res, queued |-> queued].queued = queued BY AudioLimits DEF PlayCall, U!NoCall
  <1>3. /\ plays' \in [Players -> PlayCall] /\ plays'[p] # U!NoCall /\ plays'[p].queued = queued
        /\ \A q \in Players : q # p => plays'[q] = plays[q] BY <1>1, <1>2 DEF PlayersInv
  <1>4. PlayersInv' BY <1>1, <1>3 DEF PlayersInv
  <1>5. TurnsInv' BY <1>3 DEF TurnsInv
  <1> QED BY <1>4, <1>5

(* A call that settles: the player p is left without one.                  *)
LEMMA SettleKeeps ==
  ASSUME AudioInv, NEW p \in Players, NEW r \in PlayerState, r.step = "none",
         player' = [player EXCEPT ![p] = r],
         plays' = [plays EXCEPT ![p] = U!NoCall], U!ItemSettled(p),
         UNCHANGED <<kept, queue>>, activePlayer' \in {activePlayer, p}
  PROVE  AudioInv'
  <1>1. /\ player' \in [Players -> PlayerState] /\ player'[p] = r
        /\ \A q \in Players : q # p => player'[q] = player[q] BY DEF AudioInv, PlayersInv
  <1>2. /\ plays' \in [Players -> PlayCall] /\ plays'[p] = U!NoCall
        /\ \A q \in Players : q # p => plays'[q] = plays[q] BY AudioNulls DEF AudioInv, PlayersInv
  <1>3. PlayersInv' BY <1>1, <1>2 DEF AudioInv, PlayersInv
  <1>4. processing' \in BOOLEAN /\ (processing' <=> processing /\ ~(plays[p].queued /\ queue = <<>>))
    BY DEF U!ItemSettled
  <1>5. QueueInv' BY <1>4 DEF AudioInv, QueueInv
  <1>6. TurnsInv' BY <1>2, <1>4, AudioNulls DEF AudioInv, TurnsInv
  <1> QED BY <1>3, <1>5, <1>6 DEF AudioInv

(* A player's state changes, its call goes on.                             *)
LEMMA StateKeeps ==
  ASSUME AudioInv, NEW p \in Players, NEW r \in PlayerState, r.step = player[p].step,
         player' = [player EXCEPT ![p] = r], UNCHANGED <<plays, kept>>,
         activePlayer' \in {activePlayer, No}
  PROVE  PlayersInv' /\ (UNCHANGED <<queue, processing>> => AudioInv')
  <1>1. /\ player' \in [Players -> PlayerState] /\ player'[p] = r
        /\ \A q \in Players : q # p => player'[q] = player[q] BY DEF AudioInv, PlayersInv
  <1>2. PlayersInv' BY <1>1 DEF AudioInv, PlayersInv
  <1>3. UNCHANGED <<queue, processing>> => QueueInv' /\ TurnsInv'
    BY DEF AudioInv, QueueInv, TurnsInv
  <1> QED BY <1>2, <1>3 DEF AudioInv

(* The place of a priority: behind those that are as urgent, before the    *)
(* first that is less.                                                     *)
LEMMA PlaceFacts ==
  ASSUME QueueInv, NEW priority \in 0..1
  PROVE  /\ U!Place(priority) \in 0..Len(queue)
         /\ \A i \in 1..U!Place(priority) : queue[i].priority <= priority
         /\ \A i \in 1..Len(queue) : i > U!Place(priority) => queue[i].priority >= priority
  <1> DEFINE m == Len(queue)
             S == {i \in 1..m : \A j \in 1..i : queue[j].priority <= priority}
             n == Cardinality(S)
  <1>1. m \in Nat BY LenProperties DEF QueueInv
  <1>2. \A i \in S : \A j \in 1..i : j \in S BY <1>1
  <1>3. n \in 0..m /\ S = 1..n
    <2>1. S \in SUBSET (1..m) OBVIOUS
    <2> HIDE DEF S, m
    <2> QED BY <1>1, <1>2, <2>1, PrefixIsInterval
  <1>4. U!Place(priority) = n BY DEF U!Place, U!Cardinality, Cardinality
  <1>5. \A i \in 1..m : queue[i].priority \in 0..1
    <2>1. \A i \in 1..m : queue[i] \in QueueItem BY ElementOfSeq DEF QueueInv
    <2> QED BY <2>1 DEF QueueItem
  <1>6. \A i \in 1..n : queue[i].priority <= priority
    <2>1. \A i \in S : i \in 1..i /\ queue[i].priority <= priority BY <1>1
    <2> HIDE DEF S
    <2> QED BY <1>3, <2>1
  <1>7. ASSUME NEW i \in 1..m, i > n PROVE queue[i].priority >= priority
    <2>1. i \notin S
      <3> HIDE DEF S
      <3> QED BY <1>3, <1>7
    <2>2. PICK j \in 1..i : ~(queue[j].priority <= priority) BY <2>1
    <2>3. j \in 1..m /\ j <= i BY <1>1, <2>2
    <2>4. queue[j].priority <= queue[i].priority
      <3>1. CASE j = i BY <1>5, <3>1
      <3>2. CASE j < i BY <1>7, <2>3, <3>2 DEF QueueInv, Sorted
      <3> QED BY <1>1, <2>3, <3>1, <3>2
    <2> QED BY <1>5, <2>2, <2>3, <2>4
  <1> QED BY <1>3, <1>4, <1>6, <1>7

LEMMA EnqueueKeeps ==
  ASSUME QueueInv, NEW res \in Res, NEW priority \in 0..1, Len(queue) < MaxQueue,
         processing, processing' = processing,
         queue' = SubSeq(queue, 1, U!Place(priority))
                    \o <<[res |-> res, priority |-> priority]>>
                    \o SubSeq(queue, U!Place(priority) + 1, Len(queue))
  PROVE  QueueInv'
  <1> DEFINE m == Len(queue)  n == U!Place(priority)
             item == [res |-> res, priority |-> priority]
             s == SubSeq(queue, 1, n)  t == SubSeq(queue, n + 1, m)  one == <<item>>
  <1>1. /\ m \in Nat /\ queue \in Seq(QueueItem)
        /\ \A i \in 1..m : queue[i] \in QueueItem BY LenProperties, ElementOfSeq DEF QueueInv
  <1>2. /\ n \in 0..m
        /\ \A i \in 1..n : queue[i].priority <= priority
        /\ \A i \in 1..m : i > n => queue[i].priority >= priority BY PlaceFacts
  <1>3. item \in QueueItem BY DEF QueueItem
  <1>4. \A i \in 1..m : queue[i].priority \in Nat BY <1>1 DEF QueueItem
  <1>5. \A i, j \in 1..m : i < j => queue[i].priority <= queue[j].priority BY DEF QueueInv, Sorted
  <1>6. item.priority = priority OBVIOUS
  <1> HIDE DEF n, item, m
  <1>7. /\ s \in Seq(QueueItem) /\ Len(s) = n
        /\ \A i \in 1..n : s[i] = queue[i]
    <2>1. \A i \in 1..n : queue[i] \in QueueItem BY <1>1, <1>2
    <2>2. 1 \in Int /\ n \in Int BY <1>2
    <2>3. /\ s \in Seq(QueueItem) /\ Len(s) = IF 1 <= n THEN n - 1 + 1 ELSE 0
          /\ \A i \in 1..(n - 1 + 1) : s[i] = queue[1 + i - 1] BY <2>1, <2>2, SubSeqProperties
    <2> HIDE DEF s
    <2>4. n - 1 + 1 = n /\ \A i \in 1..n : 1 + i - 1 = i BY <1>1, <1>2
    <2> QED BY <1>1, <1>2, <2>3, <2>4
  <1>8. /\ t \in Seq(QueueItem) /\ Len(t) = m - n
        /\ \A i \in 1..(m - n) : t[i] = queue[n + i]
    <2>1. \A i \in (n + 1)..m : queue[i] \in QueueItem BY <1>1, <1>2
    <2>2. n + 1 \in Int /\ m \in Int BY <1>1, <1>2
    <2>3. /\ t \in Seq(QueueItem) /\ Len(t) = IF n + 1 <= m THEN m - (n + 1) + 1 ELSE 0
          /\ \A i \in 1..(m - (n + 1) + 1) : t[i] = queue[n + 1 + i - 1]
      BY <2>1, <2>2, SubSeqProperties
    <2> HIDE DEF t
    <2>4. m - (n + 1) + 1 = m - n /\ \A i \in 1..(m - n) : n + 1 + i - 1 = n + i BY <1>1, <1>2
    <2> QED BY <1>1, <1>2, <2>3, <2>4
  <1>9. one \in Seq(QueueItem) /\ Len(one) = 1 /\ one[1] = item BY <1>3
  <1> HIDE DEF s, t, one
  <1> DEFINE a == s \o one
  <1>10. /\ a \in Seq(QueueItem) /\ Len(a) = n + 1
         /\ \A i \in 1..(n + 1) : a[i] = IF i <= n THEN queue[i] ELSE item
    <2>1. /\ a \in Seq(QueueItem) /\ Len(a) = Len(s) + Len(one)
          /\ \A i \in 1..(Len(s) + Len(one)) : a[i] = IF i <= Len(s) THEN s[i] ELSE one[i - Len(s)]
      BY <1>7, <1>9, ConcatProperties
    <2> HIDE DEF a
    <2>2. \A i \in 1..(n + 1) : i <= n \/ i - n = 1 BY <1>1, <1>2
    <2> QED BY <1>2, <1>7, <1>9, <2>1, <2>2
  <1> HIDE DEF a
  <1> DEFINE q == a \o t
  <1>11. /\ q \in Seq(QueueItem) /\ Len(q) = m + 1
         /\ \A i \in 1..(m + 1) : q[i] = IF i <= n THEN queue[i]
                                      ELSE IF i = n + 1 THEN item ELSE queue[i - 1]
    <2>1. /\ q \in Seq(QueueItem) /\ Len(q) = Len(a) + Len(t)
          /\ \A i \in 1..(Len(a) + Len(t)) : q[i] = IF i <= Len(a) THEN a[i] ELSE t[i - Len(a)]
      BY <1>8, <1>10, ConcatProperties
    <2> HIDE DEF q
    <2>2. Len(a) + Len(t) = m + 1 BY <1>1, <1>2, <1>8, <1>10
    <2>3. \A i \in 1..(m + 1) : i > n + 1 => i - (n + 1) \in 1..(m - n) /\ n + (i - (n + 1)) = i - 1
      BY <1>1, <1>2
    <2>4. \A i \in 1..(m + 1) : i > n + 1 => q[i] = queue[i - 1]
      BY <1>2, <1>8, <1>10, <2>1, <2>2, <2>3
    <2>5. \A i \in 1..(m + 1) : i <= n + 1 => q[i] = IF i <= n THEN queue[i] ELSE item
      BY <1>2, <1>10, <2>1, <2>2
    <2> QED BY <1>1, <1>2, <2>1, <2>2, <2>4, <2>5
  <1> HIDE DEF q
  <1>12. queue' = q BY DEF q, a, s, t, one, item, n, m
  <1>13. \A i, j \in 1..(m + 1) : i < j => q[i].priority <= q[j].priority
    <2> DEFINE w(i) == queue[i].priority
    <2>1. \A i \in 1..(m + 1) : q[i].priority = IF i <= n THEN w(i)
                                               ELSE IF i = n + 1 THEN priority ELSE w(i - 1)
      BY <1>6, <1>11
    <2>2. /\ \A i \in 1..n : w(i) <= priority
          /\ \A i \in 1..m : i > n => w(i) >= priority
          /\ \A i \in 1..m : w(i) \in Nat
          /\ \A i, j \in 1..m : i < j => w(i) <= w(j) BY <1>2, <1>4, <1>5
    <2> HIDE DEF w
    <2>3. \A i, j \in 1..(m + 1) : i < j =>
            (IF i <= n THEN w(i) ELSE IF i = n + 1 THEN priority ELSE w(i - 1))
              <= (IF j <= n THEN w(j) ELSE IF j = n + 1 THEN priority ELSE w(j - 1))
      <3> TAKE i, j \in 1..(m + 1)
      <3> HAVE i < j
      <3>1. i \in Nat /\ j \in Nat /\ n \in Nat BY <1>1, <1>2
      <3>2. CASE i <= n
        <4>1. i \in 1..m /\ w(i) <= priority BY <1>1, <1>2, <2>2, <3>1, <3>2
        <4>2. CASE j <= n BY <1>1, <1>2, <2>2, <3>1, <3>2, <4>1, <4>2
        <4>3. CASE j = n + 1 BY <3>1, <3>2, <4>1, <4>3
        <4>4. CASE j > n + 1
          <5>1. j - 1 \in 1..m /\ j - 1 > n BY <1>1, <3>1, <4>4
          <5>2. w(j - 1) >= priority /\ w(j - 1) \in Nat /\ w(i) \in Nat BY <2>2, <4>1, <5>1
          <5>3. w(i) <= w(j - 1) BY <4>1, <5>2
          <5> QED BY <3>1, <3>2, <4>4, <5>3
        <4> QED BY <3>1, <4>2, <4>3, <4>4
      <3>3. CASE i = n + 1
        <4>1. j - 1 \in 1..m /\ j - 1 > n BY <1>1, <3>1, <3>3
        <4>2. priority <= w(j - 1) BY <2>2, <4>1
        <4> QED BY <3>1, <3>3, <4>2
      <3>4. CASE i > n + 1
        <4>1. i - 1 \in 1..m /\ j - 1 \in 1..m /\ i - 1 < j - 1 BY <1>1, <3>1, <3>4
        <4>2. w(i - 1) <= w(j - 1) BY <2>2, <4>1
        <4> QED BY <3>1, <3>4, <4>2
      <3> QED BY <3>1, <3>2, <3>3, <3>4
    <2> QED BY <2>1, <2>3
  <1>14. Sorted(queue') /\ Len(queue') <= MaxQueue
    <2>1. Len(queue') = m + 1 BY <1>11, <1>12
    <2>2. m + 1 <= MaxQueue BY <1>1, AudioLimits DEF m
    <2> QED BY <1>12, <1>13, <2>1, <2>2 DEF Sorted
  <1> QED BY <1>11, <1>12, <1>14 DEF QueueInv

LEMMA AudioKeeps == AudioInv /\ [U!Next]_(U!vars) => AudioInv'
  <1> SUFFICES ASSUME AudioInv, [U!Next]_(U!vars) PROVE AudioInv' OBVIOUS
  <1>0. /\ PlayersInv /\ QueueInv /\ TurnsInv /\ processing \in BOOLEAN
        /\ \A p \in Players : player[p] \in PlayerState BY DEF AudioInv, PlayersInv, QueueInv
  <1>w. U!Waiting => processing /\ \A p \in Players : ~plays[p].queued BY DEF U!Waiting
  <1>1. ASSUME NEW r \in Res, U!Play(r) PROVE AudioInv'
    <2>1. U!PlayOf(r, FALSE) /\ UNCHANGED <<kept, activePlayer, queue, processing>>
      BY <1>1 DEF U!Play
    <2>2. PlayersInv' /\ TurnsInv' BY <1>0, <2>1, PlayKeeps
    <2> QED BY <1>0, <2>1, <2>2 DEF AudioInv, QueueInv
  <1>2. ASSUME NEW r \in Res, NEW priority \in 0..1, U!PlayWithPriority(r, priority) PROVE AudioInv'
    <2>1. CASE processing
      <3>1. QueueInv' BY <1>0, <1>2, <2>1, EnqueueKeeps DEF U!PlayWithPriority
      <3>2. UNCHANGED <<player, plays, kept, activePlayer, processing>>
        BY <1>2, <2>1 DEF U!PlayWithPriority
      <3> QED BY <1>0, <3>1, <3>2 DEF AudioInv, PlayersInv, TurnsInv
    <2>2. CASE ~processing
      <3>1. /\ U!PlayOf(r, TRUE) /\ processing' = TRUE
            /\ UNCHANGED <<kept, activePlayer, queue>> BY <1>2, <2>2 DEF U!PlayWithPriority
      <3>2. \A q \in Players : ~plays[q].queued BY <1>0, <2>2 DEF TurnsInv
      <3>3. PlayersInv' /\ TurnsInv' BY <1>0, <3>1, <3>2, PlayKeeps
      <3> QED BY <1>0, <3>1, <3>3 DEF AudioInv, QueueInv
    <2> QED BY <2>1, <2>2
  <1>3. ASSUME NEW p \in Players, U!Loaded(p) PROVE AudioInv'
    <2> DEFINE r == [player[p] EXCEPT !.step = "play",
                       !.state = IF player[p].res \in Words THEN @ ELSE "idle"]
    <2>1. r \in PlayerState /\ r.step = "play" BY <1>0 DEF PlayerState
    <2>2. player' = [player EXCEPT ![p] = r] BY <1>0, <1>3 DEF U!Loaded, PlayersInv
    <2>3. /\ player[p].step = "load" /\ UNCHANGED <<plays, activePlayer, queue, processing>>
          /\ kept' = [kept EXCEPT ![U!Key(player[p].res)] = p] BY <1>3 DEF U!Loaded
    <2> HIDE DEF r
    <2>4. /\ player' \in [Players -> PlayerState] /\ player'[p] = r
          /\ \A q \in Players : q # p => player'[q] = player[q] BY <1>0, <2>1, <2>2 DEF PlayersInv
    <2>5. kept' \in [U!Keys -> Players \cup {No}] BY <1>0, <2>3 DEF PlayersInv
    <2>6. PlayersInv' BY <1>0, <2>1, <2>3, <2>4, <2>5 DEF PlayersInv
    <2> QED BY <1>0, <2>3, <2>6 DEF AudioInv, QueueInv, TurnsInv
  <1>4. ASSUME NEW p \in Players, U!Played(p) PROVE AudioInv'
    <2> DEFINE r == [player[p] EXCEPT !.step = "none",
                       !.state = IF player[p].res \in Words THEN @ ELSE "playing"]
    <2>1. r \in PlayerState /\ r.step = "none" BY <1>0 DEF PlayerState
    <2>2. player' = [player EXCEPT ![p] = r] BY <1>0, <1>4 DEF U!Played, PlayersInv
    <2>3. /\ plays' = [plays EXCEPT ![p] = U!NoCall] /\ U!ItemSettled(p)
          /\ UNCHANGED <<kept, queue>> /\ activePlayer' \in {activePlayer, p} BY <1>4 DEF U!Played
    <2> HIDE DEF r
    <2> QED BY <2>1, <2>2, <2>3, SettleKeeps
  <1>5. ASSUME NEW p \in Players, U!PlayFails(p) PROVE AudioInv'
    <2> DEFINE r == [player[p] EXCEPT !.step = "none", !.state = "error"]
    <2>1. r \in PlayerState /\ r.step = "none" BY <1>0 DEF PlayerState
    <2>2. player' = [player EXCEPT ![p] = r] BY <1>0, <1>5 DEF U!PlayFails, PlayersInv
    <2>3. /\ plays' = [plays EXCEPT ![p] = U!NoCall] /\ U!ItemSettled(p)
          /\ UNCHANGED <<kept, queue>> /\ activePlayer' \in {activePlayer, p}
      BY <1>5 DEF U!PlayFails
    <2> HIDE DEF r
    <2> QED BY <2>1, <2>2, <2>3, SettleKeeps
  <1>s. ASSUME NEW p \in Players,
               NEW s \in {"playing", "paused", "stopped", "ended"}
        PROVE  /\ [player[p] EXCEPT !.state = s] \in PlayerState
               /\ [player[p] EXCEPT !.state = s].step = player[p].step
               /\ [player EXCEPT ![p].state = s] = [player EXCEPT ![p] = [player[p] EXCEPT !.state = s]]
    BY <1>0 DEF PlayerState, PlayersInv
  <1>a. activePlayer # No => activePlayer \in Players BY <1>0 DEF PlayersInv
  <1>6. ASSUME NEW p \in Players, U!Ended(p) PROVE AudioInv'
    <2>1. /\ player' = [player EXCEPT ![p].state = "ended"]
          /\ UNCHANGED <<plays, kept, activePlayer, queue, processing>> BY <1>6 DEF U!Ended
    <2> QED BY <1>s, <2>1, StateKeeps
  <1>7. ASSUME U!TakeItem PROVE AudioInv'
    <2>1. /\ queue # <<>> /\ U!PlayOf(Head(queue).res, TRUE) /\ queue' = Tail(queue)
          /\ UNCHANGED <<kept, activePlayer, processing>>
          /\ processing /\ \A p \in Players : ~plays[p].queued BY <1>7, <1>w DEF U!TakeItem
    <2>2. /\ Head(queue) \in QueueItem /\ Tail(queue) \in Seq(QueueItem)
          /\ Len(Tail(queue)) = Len(queue) - 1 /\ Len(queue) \in Nat
          /\ \A i \in 1..Len(Tail(queue)) : Tail(queue)[i] = queue[i + 1]
      BY <1>0, <2>1, HeadTailProperties, LenProperties DEF QueueInv
    <2>3. Head(queue).res \in Res BY <2>2 DEF QueueItem
    <2>4. PlayersInv' /\ TurnsInv' BY <1>0, <2>1, <2>3, PlayKeeps
    <2> DEFINE n == Len(queue)  q == Tail(queue)
    <2>5. /\ n \in Nat /\ n <= MaxQueue
          /\ \A i, j \in 1..n : i < j => queue[i].priority <= queue[j].priority
      BY <1>0, <2>2 DEF QueueInv, Sorted
    <2>6. Len(q) = n - 1 /\ \A i \in 1..Len(q) : q[i] = queue[i + 1] BY <2>2
    <2> HIDE DEF n, q
    <2>7. n - 1 <= MaxQueue BY <2>5, AudioLimits
    <2>8. \A i, j \in 1..(n - 1) : i < j => q[i].priority <= q[j].priority
      <3> TAKE i, j \in 1..(n - 1)
      <3> HAVE i < j
      <3>1. i + 1 \in 1..n /\ j + 1 \in 1..n /\ i + 1 < j + 1 BY <2>5
      <3>2. queue[i + 1].priority <= queue[j + 1].priority BY <2>5, <3>1
      <3> QED BY <2>6, <3>2
    <2>9. Len(q) <= MaxQueue /\ Sorted(q) BY <2>6, <2>7, <2>8 DEF Sorted
    <2> QED BY <1>0, <2>1, <2>2, <2>4, <2>9 DEF AudioInv, QueueInv, q
  <1>8. ASSUME U!QueueDone PROVE AudioInv'
    <2>1. /\ processing' = FALSE /\ queue = <<>>
          /\ UNCHANGED <<player, plays, kept, activePlayer, queue>>
          /\ \A p \in Players : ~plays[p].queued BY <1>8, <1>w DEF U!QueueDone
    <2> QED BY <1>0, <2>1 DEF AudioInv, PlayersInv, QueueInv, TurnsInv
  <1>9. ASSUME U!Stop PROVE AudioInv'
    <2>1. queue' = <<>> /\ activePlayer' = No /\ UNCHANGED <<plays, kept, processing>>
      BY <1>9 DEF U!Stop
    <2>2. PlayersInv'
      <3>1. CASE activePlayer = No
        <4>1. player' = player BY <1>9, <3>1 DEF U!Stop
        <4> QED BY <1>0, <2>1, <4>1 DEF PlayersInv
      <3>2. CASE activePlayer # No
        <4>1. player' = [player EXCEPT ![activePlayer].state = "stopped"] BY <1>9, <3>2 DEF U!Stop
        <4> QED BY <1>a, <1>s, <2>1, <3>2, <4>1, StateKeeps
      <3> QED BY <3>1, <3>2
    <2>3. queue' \in Seq(QueueItem) /\ Len(queue') = 0 BY <2>1, EmptySeq
    <2>4. Len(queue') <= MaxQueue /\ Sorted(queue') BY <2>3, AudioLimits DEF Sorted
    <2> QED BY <1>0, <2>1, <2>2, <2>3, <2>4 DEF AudioInv, QueueInv, TurnsInv
  <1>10. ASSUME U!Pause PROVE AudioInv'
    <2>1. /\ activePlayer # No /\ player' = [player EXCEPT ![activePlayer].state = "paused"]
          /\ UNCHANGED <<plays, kept, activePlayer, queue, processing>> BY <1>10 DEF U!Pause
    <2> QED BY <1>a, <1>s, <2>1, StateKeeps
  <1>11. ASSUME U!Resume PROVE AudioInv'
    <2>1. /\ activePlayer # No /\ player' = [player EXCEPT ![activePlayer].state = "playing"]
          /\ UNCHANGED <<plays, kept, activePlayer, queue, processing>> BY <1>11 DEF U!Resume
    <2> QED BY <1>a, <1>s, <2>1, StateKeeps
  <1>12. ASSUME NEW k \in U!Keys, U!Evicted(k) PROVE AudioInv'
    <2>1. /\ kept' = [kept EXCEPT ![k] = No]
          /\ UNCHANGED <<player, plays, activePlayer, queue, processing>> BY <1>12 DEF U!Evicted
    <2> QED BY <1>0, <2>1 DEF AudioInv, PlayersInv, QueueInv, TurnsInv
  <1>13. CASE UNCHANGED U!vars BY <1>0, <1>13 DEF U!vars, AudioInv, PlayersInv, QueueInv, TurnsInv
  <1> QED BY <1>1, <1>2, <1>3, <1>4, <1>5, <1>6, <1>7, <1>8, <1>9, <1>10, <1>11, <1>12, <1>13
       DEF U!Next, Res

-----------------------------------------------------------------------------
(***************************************************************************)
(* review_screen.js: as long as no calls overlap there is one answer under *)
(* way for the session the page shows, and it is for the card shown.       *)
(***************************************************************************)
LEMMA ReviewLimits == MaxSessions \in Nat /\ Cards \in Nat /\ Cards >= 1 BY LimitsAssumption

Review == [id : Nat \ {0}, index : 1..Cards, results : Seq(Nat)]
LoadSteps == {"none", "fetch", "aborted", "cache"}
Sections == {"none", "loading", "empty", "review", "complete", "error", "destroyed"}

ScreenTyped ==
  /\ machine \in DOMAIN V!Transitions /\ shown \in Sections
  /\ loads \in [Loads -> LoadSteps] /\ raced \in BOOLEAN
SessionsTyped ==
  /\ sessions \in 0..MaxSessions
  /\ review_session = V!NoSession \/ (review_session \in Review /\ review_session.id <= sessions)
  /\ answers \in [Answers -> 0..sessions] /\ completing \subseteq Answers
  /\ \A a \in completing : answers[a] # 0

InOrder(s) ==
  LET r == s.results IN
  /\ \A i \in 1..Len(r) : r[i] \in (IF i = 1 THEN {1} ELSE {r[i - 1], r[i - 1] + 1})
  /\ s.index \in (IF r = <<>> THEN {1} ELSE {r[Len(r)], r[Len(r)] + 1})
Answering(s) == s.results # <<>> /\ s.index = s.results[Len(s.results)]
Finished(s) == s.results # <<>> /\ s.results[Len(s.results)] = Cards

CardsInOrder ==
  review_session # V!NoSession /\ ~raced =>
    /\ InOrder(review_session)
    /\ machine = "completed" => Finished(review_session)
    /\ \A a \in Answers : answers[a] = review_session.id => Answering(review_session)
    /\ \A a, b \in Answers :
         answers[a] = review_session.id /\ answers[b] = review_session.id => a = b
    /\ \A a \in completing : answers[a] = review_session.id => review_session.index = Cards

ReviewInv == ScreenTyped /\ SessionsTyped /\ CardsInOrder

LEMMA MachineFacts ==
  ASSUME NEW m \in DOMAIN V!Transitions
  PROVE  /\ \A to \in DOMAIN V!Transitions : V!After(m, to) \in DOMAIN V!Transitions
         /\ V!After(m, "loading") # "completed"
         /\ V!After(V!After(m, "loading"), "error") # "completed"
         /\ V!After(m, "empty") = "completed" => m = "completed"
         /\ V!After(m, "in_progress") = "completed" => m = "completed" BY DEF V!After, V!Transitions

LEMMA NoReview == /\ V!NoSession \notin Review
                  /\ V!NoSession.index = 0
                  /\ \A s \in Review : s # V!NoSession
  <1>1. V!NoSession.id = 0 /\ V!NoSession.index = 0 BY DEF V!NoSession
  <1>2. \A s \in Review : s.id # 0 BY DEF Review
  <1> QED BY <1>1, <1>2

LEMMA ReviewStarts == V!Init => ReviewInv
  <1> SUFFICES ASSUME V!Init PROVE ReviewInv OBVIOUS
  <1>1. /\ machine = "loading" /\ shown = "none" /\ review_session = V!NoSession
        /\ loads = [l \in Loads |-> "none"] /\ answers = [a \in Answers |-> 0]
        /\ completing = {} /\ sessions = 0 /\ raced = FALSE BY DEF V!Init
  <1>2. raced \in BOOLEAN BY <1>1
  <1>3. ScreenTyped BY <1>1, <1>2 DEF ScreenTyped, V!Transitions, Sections, LoadSteps
  <1>4. SessionsTyped
    <2>1. sessions \in 0..MaxSessions BY <1>1, ReviewLimits
    <2>2. answers \in [Answers -> 0..sessions] BY <1>1
    <2> QED BY <1>1, <2>1, <2>2 DEF SessionsTyped
  <1> QED BY <1>1, <1>3, <1>4 DEF ReviewInv, CardsInOrder

LEMMA ReviewImplies == ReviewInv => V!TypeOK /\ V!NoCardIsPassedOver
  <1> SUFFICES ASSUME ReviewInv PROVE V!TypeOK /\ V!NoCardIsPassedOver OBVIOUS
  <1>1. V!TypeOK
    <2>1. review_session.index \in 0..Cards
      <3>1. CASE review_session = V!NoSession BY <3>1, NoReview, ReviewLimits
      <3>2. CASE review_session \in Review BY <3>2, ReviewLimits DEF Review
      <3> QED BY <3>1, <3>2 DEF ReviewInv, SessionsTyped
    <2>2. answers \in [Answers -> 0..MaxSessions] BY ReviewLimits DEF ReviewInv, SessionsTyped
    <2> QED BY <2>1, <2>2 DEF V!TypeOK, ReviewInv, ScreenTyped, SessionsTyped, Sections, LoadSteps
  <1>2. V!NoCardIsPassedOver BY DEF ReviewInv, CardsInOrder, InOrder, Finished, V!NoCardIsPassedOver
  <1> QED BY <1>1, <1>2

(* An answer is the result of the card shown, which follows the last one.  *)
LEMMA AnswerKeepsOrder ==
  ASSUME NEW s \in Review, InOrder(s)
  PROVE  LET t == [s EXCEPT !.results = Append(@, s.index)] IN
         t \in Review /\ t.id = s.id /\ InOrder(t) /\ Answering(t)
  <1> DEFINE r == s.results
             q == Append(r, s.index)
             t == [s EXCEPT !.results = Append(@, s.index)]
  <1>1. r \in Seq(Nat) /\ s.index \in Nat /\ s.index \in 1..Cards /\ s.id \in Nat \ {0}
    BY ReviewLimits DEF Review
  <1>2. t.id = s.id /\ t.index = s.index /\ t.results = q BY DEF Review
  <1>3. q \in Seq(Nat) /\ Len(q) = Len(r) + 1 /\ q[Len(r) + 1] = s.index
        /\ \A i \in 1..Len(r) : q[i] = r[i] BY <1>1, AppendProperties
  <1>4. t \in Review BY <1>1, <1>3 DEF Review
  <1>5. /\ \A i \in 1..Len(r) : r[i] \in (IF i = 1 THEN {1} ELSE {r[i - 1], r[i - 1] + 1})
        /\ s.index \in (IF r = <<>> THEN {1} ELSE {r[Len(r)], r[Len(r)] + 1}) BY DEF InOrder
  <1>6. Len(r) \in Nat /\ (r = <<>> <=> Len(r) = 0) /\ q # <<>>
    BY <1>1, <1>3, LenProperties, EmptySeq
  <1> HIDE DEF r, q, t
  <1>7. \A i \in 1..Len(q) : q[i] \in (IF i = 1 THEN {1} ELSE {q[i - 1], q[i - 1] + 1})
    <2> SUFFICES ASSUME NEW i \in 1..Len(q)
                 PROVE  q[i] \in (IF i = 1 THEN {1} ELSE {q[i - 1], q[i - 1] + 1})
      OBVIOUS
    <2>1. CASE i \in 1..Len(r)
      <3>1. q[i] = r[i] /\ r[i] \in (IF i = 1 THEN {1} ELSE {r[i - 1], r[i - 1] + 1})
        BY <1>3, <1>5, <2>1
      <3>2. i # 1 => i - 1 \in 1..Len(r) BY <1>6, <2>1
      <3>3. i # 1 => q[i - 1] = r[i - 1] BY <1>3, <3>2
      <3> QED BY <3>1, <3>3
    <2>2. CASE i = Len(r) + 1 BY <1>3, <1>5, <1>6, <2>2
    <2> QED BY <1>3, <1>6, <2>1, <2>2
  <1>8. InOrder(t) BY <1>2, <1>3, <1>6, <1>7 DEF InOrder
  <1>9. Answering(t) BY <1>2, <1>3, <1>6 DEF Answering
  <1> QED BY <1>2, <1>4, <1>8, <1>9 DEF t

(* The next card follows the one whose answer was submitted. *)
LEMMA NextKeepsOrder ==
  ASSUME NEW s \in Review, s.index < Cards
  PROVE  LET t == [s EXCEPT !.index = @ + 1] IN
         /\ t \in Review /\ t.id = s.id
         /\ Finished(s) = Finished(t)
         /\ InOrder(s) /\ Answering(s) => InOrder(t)
  <1> DEFINE t == [s EXCEPT !.index = @ + 1]
  <1>1. t.id = s.id /\ t.index = s.index + 1 /\ t.results = s.results BY DEF Review
  <1>2. s.index + 1 \in 1..Cards BY ReviewLimits DEF Review
  <1>3. t \in Review BY <1>2 DEF Review
  <1> HIDE DEF t
  <1>4. Finished(s) = Finished(t) BY <1>1 DEF Finished
  <1>5. InOrder(s) /\ Answering(s) => InOrder(t) BY <1>1 DEF InOrder, Answering
  <1> QED BY <1>1, <1>3, <1>4, <1>5 DEF t

LEMMA ReviewKeeps == ReviewInv /\ [V!Next]_(V!vars) => ReviewInv'
  <1> SUFFICES ASSUME ReviewInv, [V!Next]_(V!vars) PROVE ReviewInv' OBVIOUS
  <1>0. ScreenTyped /\ SessionsTyped /\ CardsInOrder BY DEF ReviewInv
  <1>t. /\ machine \in DOMAIN V!Transitions /\ shown \in Sections
        /\ loads \in [Loads -> LoadSteps] /\ raced \in BOOLEAN
        /\ sessions \in 0..MaxSessions /\ answers \in [Answers -> 0..sessions]
        /\ completing \subseteq Answers
        /\ review_session = V!NoSession \/ (review_session \in Review /\ review_session.id <= sessions)
    BY <1>0 DEF ScreenTyped, SessionsTyped
  <1>s. \A l \in Loads, known \in BOOLEAN : \A states \in [Loads -> LoadSteps] :
          V!Start(l, known, states) =>
            /\ machine' \in DOMAIN V!Transitions /\ machine' # "completed"
            /\ shown' \in Sections /\ loads' \in [Loads -> LoadSteps]
            /\ shown' = "destroyed" <=> shown = "destroyed"
    <2> SUFFICES ASSUME NEW l \in Loads, NEW known \in BOOLEAN, NEW states \in [Loads -> LoadSteps],
                        V!Start(l, known, states)
                 PROVE  /\ machine' \in DOMAIN V!Transitions /\ machine' # "completed"
                        /\ shown' \in Sections /\ loads' \in [Loads -> LoadSteps]
                        /\ shown' = "destroyed" <=> shown = "destroyed"
      OBVIOUS
    <2>1. machine' \in DOMAIN V!Transitions /\ machine' # "completed"
      BY <1>t, MachineFacts DEF V!Start, V!Transitions
    <2>2. shown' \in Sections /\ (shown' = "destroyed" <=> shown = "destroyed")
      BY <1>t DEF V!Start, V!Show, Sections
    <2>3. loads' \in [Loads -> LoadSteps] BY DEF V!Start, LoadSteps
    <2> QED BY <2>1, <2>2, <2>3
  <1>a. V!Aborted \in [Loads -> LoadSteps] BY <1>t DEF V!Aborted, LoadSteps
  <1>c. ASSUME machine' \in DOMAIN V!Transitions, machine' # "completed",
               shown' \in Sections, loads' \in [Loads -> LoadSteps],
               review_session' \in {review_session, V!NoSession},
               UNCHANGED <<answers, completing, sessions, raced>>
        PROVE  ReviewInv'
    <2>1. ScreenTyped' BY <1>t, <1>c DEF ScreenTyped
    <2>2. SessionsTyped' BY <1>0, <1>t, <1>c DEF SessionsTyped
    <2>3. CardsInOrder' BY <1>0, <1>c DEF CardsInOrder
    <2> QED BY <2>1, <2>2, <2>3 DEF ReviewInv
  <1>1. ASSUME NEW l \in Loads, NEW known \in BOOLEAN, V!FirstStart(l, known) PROVE ReviewInv'
    BY <1>t, <1>s, <1>c, <1>1 DEF V!FirstStart
  <1>2. ASSUME NEW l \in Loads, NEW known \in BOOLEAN, V!Retry(l, known) PROVE ReviewInv'
    BY <1>t, <1>s, <1>c, <1>2 DEF V!Retry
  <1>3. ASSUME NEW l \in Loads, NEW known \in BOOLEAN, V!Reset(l, known) PROVE ReviewInv'
    BY <1>a, <1>s, <1>c, <1>3 DEF V!Reset
  <1>4. ASSUME NEW l \in Loads, V!Fetched(l) PROVE ReviewInv'
    <2>1. loads' \in [Loads -> LoadSteps] BY <1>t, <1>4 DEF V!Fetched, LoadSteps
    <2>2. UNCHANGED <<machine, shown, review_session, answers, completing, sessions, raced>>
      BY <1>4 DEF V!Fetched
    <2> QED BY <1>0, <2>1, <2>2 DEF ReviewInv, ScreenTyped, SessionsTyped, CardsInOrder
  <1>5. ASSUME NEW l \in Loads, V!Loaded(l) PROVE ReviewInv'
    <2> DEFINE s == [id |-> sessions + 1, index |-> 1, results |-> <<>>]
    <2>1. /\ loads' = [loads EXCEPT ![l] = "none"] /\ sessions < MaxSessions
          /\ review_session' = s /\ sessions' = sessions + 1
          /\ machine' = V!After(machine, "in_progress")
          /\ shown' = IF shown = "destroyed" THEN shown ELSE "review"
          /\ raced' = (review_session # V!NoSession \/ shown = "destroyed" \/ machine = "completed")
          /\ answers' = answers /\ completing' = completing BY <1>5 DEF V!Loaded, V!Show
    <2>2. ScreenTyped'
      <3>1. machine' \in DOMAIN V!Transitions BY <1>t, <2>1, MachineFacts DEF V!Transitions
      <3>2. loads' \in [Loads -> LoadSteps] /\ shown' \in Sections
        BY <1>t, <2>1 DEF LoadSteps, Sections
      <3>3. raced' \in BOOLEAN BY <2>1
      <3> QED BY <3>1, <3>2, <3>3 DEF ScreenTyped
    <2>3. s \in Review
      <3>1. <<>> \in Seq(Nat) OBVIOUS
      <3>2. sessions + 1 \in Nat \ {0} /\ 1 \in 1..Cards BY <1>t, ReviewLimits
      <3> QED BY <3>1, <3>2 DEF Review
    <2>4. sessions' \in 0..MaxSessions /\ answers' \in [Answers -> 0..sessions']
      BY <1>t, <2>1, ReviewLimits
    <2>5. SessionsTyped' BY <1>0, <1>t, <2>1, <2>3, <2>4 DEF SessionsTyped
    <2>7. CardsInOrder'
      <3> SUFFICES ASSUME ~raced' PROVE CardsInOrder' BY DEF CardsInOrder
      <3>1. InOrder(s) BY DEF InOrder
      <3>2. \A a \in Answers : answers[a] # s.id BY <1>t
      <3>3. machine' # "completed" BY <1>t, <2>1, MachineFacts
      <3> QED BY <1>t, <2>1, <3>1, <3>2, <3>3 DEF CardsInOrder
    <2> QED BY <2>2, <2>5, <2>7 DEF ReviewInv
  <1>6. ASSUME NEW l \in Loads, V!LoadedNone(l) PROVE ReviewInv'
    <2>1. /\ loads' = [loads EXCEPT ![l] = "none"] /\ machine' = V!After(machine, "empty")
          /\ shown' = IF shown = "destroyed" THEN shown ELSE "empty"
          /\ UNCHANGED <<review_session, answers, completing, sessions, raced>>
      BY <1>6 DEF V!LoadedNone, V!Show
    <2>2. machine' \in DOMAIN V!Transitions /\ (machine' = "completed" => machine = "completed")
      BY <1>t, <2>1, MachineFacts DEF V!Transitions
    <2>3. loads' \in [Loads -> LoadSteps] /\ shown' \in Sections
      BY <1>t, <2>1 DEF LoadSteps, Sections
    <2>4. ScreenTyped' /\ SessionsTyped' BY <1>0, <2>1, <2>2, <2>3 DEF ScreenTyped, SessionsTyped
    <2>5. CardsInOrder' BY <1>0, <2>1, <2>2 DEF CardsInOrder
    <2> QED BY <2>4, <2>5 DEF ReviewInv
  <1>7. ASSUME NEW a \in Answers, V!HandleAnswer(a) PROVE ReviewInv'
    <2> DEFINE s == review_session
               t == [s EXCEPT !.results = Append(@, s.index)]
    <2>1. /\ answers[a] = 0 /\ machine = "in_progress" /\ s # V!NoSession
          /\ review_session' = t /\ answers' = [answers EXCEPT ![a] = s.id]
          /\ raced' = (raced \/ \E b \in Answers : answers[b] = s.id)
          /\ UNCHANGED <<machine, shown, loads, completing, sessions>> BY <1>7 DEF V!HandleAnswer
    <2>2. s \in Review /\ s.id <= sessions BY <1>t, <2>1
    <2>3. s.results \in Seq(Nat) /\ s.index \in 1..Cards /\ s.id \in Nat \ {0} /\ s.index \in Nat
      BY <2>2, ReviewLimits DEF Review
    <2>4. t \in Review /\ t.id = s.id
      <3>1. Append(s.results, s.index) \in Seq(Nat) BY <2>3, AppendProperties
      <3> QED BY <2>2, <2>3, <3>1 DEF Review
    <2>5. ScreenTyped'
      <3>1. raced' \in BOOLEAN BY <2>1
      <3> QED BY <1>t, <2>1, <3>1 DEF ScreenTyped
    <2> HIDE DEF t
    <2>6. SessionsTyped'
      <3>1. answers' \in [Answers -> 0..sessions] BY <1>t, <2>1, <2>2, <2>3
      <3>2. \A b \in completing : answers'[b] # 0 BY <1>0, <1>t, <2>1, <2>3 DEF SessionsTyped
      <3> QED BY <1>t, <2>1, <2>2, <2>4, <3>1, <3>2 DEF SessionsTyped
    <2>8. CardsInOrder'
      <3> SUFFICES ASSUME ~raced' PROVE CardsInOrder' BY DEF CardsInOrder
      <3>1. ~raced /\ \A b \in Answers : answers[b] # s.id BY <2>1
      <3>2. InOrder(s) BY <1>0, <2>1, <3>1 DEF CardsInOrder
      <3>3. InOrder(t) /\ Answering(t) BY <2>2, <3>2, AnswerKeepsOrder DEF t
      <3>4. \A b \in Answers : answers'[b] = s.id => b = a BY <1>t, <2>1, <3>1
      <3>6. \A b \in completing : answers'[b] # t.id BY <1>0, <1>t, <2>1, <2>4, <3>4 DEF SessionsTyped
      <3> QED BY <2>1, <2>4, <3>3, <3>4, <3>6 DEF CardsInOrder
    <2> QED BY <2>5, <2>6, <2>8 DEF ReviewInv
  <1>8. ASSUME NEW a \in Answers, V!Submitted(a) PROVE ReviewInv'
    <2> DEFINE s == review_session
    <2>1. /\ answers[a] # 0 /\ a \notin completing
          /\ raced' = (raced \/ (s # V!NoSession /\ s.id # answers[a]))
          /\ shown' \in {shown, "review"}
          /\ UNCHANGED <<machine, loads, sessions>> BY <1>8 DEF V!Submitted, V!Overtaken, V!Show
    <2>2. ScreenTyped'
      <3>1. raced' \in BOOLEAN BY <2>1
      <3> QED BY <1>t, <2>1, <3>1 DEF ScreenTyped, Sections
    <2>3. ASSUME s # V!NoSession
          PROVE  /\ s \in Review /\ s.id <= sessions
                 /\ s.id \in Nat \ {0} /\ s.index \in 1..Cards BY <1>t, <2>3 DEF Review
    <2>4. s # V!NoSession /\ ~raced' =>
            /\ ~raced /\ answers[a] = s.id /\ InOrder(s) /\ Answering(s)
            /\ machine = "completed" => Finished(s)
            /\ \A b \in Answers : answers[b] = s.id => b = a BY <1>0, <2>1 DEF CardsInOrder
    <2>5. CASE s # V!NoSession /\ V!IsComplete
      <3>1. completing' = completing \cup {a} /\ UNCHANGED <<answers, review_session>>
        BY <1>8, <2>5 DEF V!Submitted
      <3>2. SessionsTyped' BY <1>0, <2>1, <3>1 DEF SessionsTyped
      <3>3. s.index = Cards
        <4>1. s.index >= Cards BY <2>5 DEF V!IsComplete
        <4> QED BY <2>3, <2>5, <4>1, ReviewLimits
      <3>4. CardsInOrder' BY <1>0, <2>1, <2>4, <3>1, <3>3 DEF CardsInOrder
      <3> QED BY <2>2, <3>2, <3>4 DEF ReviewInv
    <2>6. ASSUME ~(s # V!NoSession /\ V!IsComplete) PROVE ReviewInv'
      <3>1. /\ answers' = [answers EXCEPT ![a] = 0] /\ completing' = completing
            /\ review_session' = IF s = V!NoSession THEN s ELSE [s EXCEPT !.index = @ + 1]
        BY <1>8, <2>6 DEF V!Submitted
      <3>2. /\ answers' \in [Answers -> 0..sessions] /\ answers'[a] = 0
            /\ \A b \in Answers : b # a => answers'[b] = answers[b]
            /\ \A b \in completing : answers'[b] # 0 BY <1>0, <1>t, <2>1, <3>1 DEF SessionsTyped
      <3>3. CASE s = V!NoSession
        <4>1. SessionsTyped' BY <1>t, <2>1, <3>1, <3>2, <3>3 DEF SessionsTyped
        <4>2. CardsInOrder' BY <3>1, <3>3 DEF CardsInOrder
        <4> QED BY <2>2, <4>1, <4>2 DEF ReviewInv
      <3>4. CASE s # V!NoSession
        <4> DEFINE t == [s EXCEPT !.index = @ + 1]
        <4>1. s.index < Cards
          <5>1. ~(s.index >= Cards) BY <2>6, <3>4 DEF V!IsComplete
          <5> QED BY <2>3, <3>4, <5>1, ReviewLimits
        <4>2. /\ t \in Review /\ t.id = s.id /\ Finished(s) = Finished(t)
              /\ InOrder(s) /\ Answering(s) => InOrder(t) BY <2>3, <3>4, <4>1, NextKeepsOrder
        <4>3. review_session' = t BY <3>1, <3>4
        <4> HIDE DEF t
        <4>4. SessionsTyped' BY <1>t, <2>1, <2>3, <3>1, <3>2, <3>4, <4>2, <4>3 DEF SessionsTyped
        <4>5. CardsInOrder'
          <5> SUFFICES ASSUME ~raced' PROVE CardsInOrder' BY DEF CardsInOrder
          <5>1. \A b \in Answers : answers'[b] # s.id BY <2>3, <2>4, <3>2, <3>4
          <5>2. /\ InOrder(t) /\ completing' \subseteq Answers
                /\ machine' = "completed" => Finished(t) BY <1>t, <2>1, <2>4, <3>1, <3>4, <4>2
          <5> QED BY <4>2, <4>3, <5>1, <5>2 DEF CardsInOrder
        <4> QED BY <2>2, <4>4, <4>5 DEF ReviewInv
      <3> QED BY <3>3, <3>4
    <2> QED BY <2>5, <2>6
  <1>14. ASSUME NEW a \in Answers, answers' = [answers EXCEPT ![a] = 0],
                completing' = completing \ {a}, UNCHANGED <<review_session, sessions>>
         PROVE  /\ SessionsTyped'
                /\ \A b \in Answers : answers'[b] \in {answers[b], 0}
    <2>1. answers' \in [Answers -> 0..sessions]
          /\ \A b \in Answers : answers'[b] \in {answers[b], 0}
          /\ \A c \in completing' : answers'[c] = answers[c] BY <1>t, <1>14
    <2> QED BY <1>0, <1>14, <2>1 DEF SessionsTyped
  <1>13. ASSUME NEW a \in Answers, V!Saved(a) PROVE ReviewInv'
    <2> DEFINE s == review_session
    <2>1. /\ a \in completing /\ completing' = completing \ {a}
          /\ answers' = [answers EXCEPT ![a] = 0]
          /\ raced' = (raced \/ (s # V!NoSession /\ s.id # answers[a]))
          /\ machine' = V!After(machine, "completed")
          /\ shown' \in {shown, "complete"} /\ UNCHANGED <<review_session, loads, sessions>>
      BY <1>13 DEF V!Saved, V!Overtaken, V!Show
    <2>2. ScreenTyped'
      <3>1. raced' \in BOOLEAN BY <2>1
      <3>2. machine' \in DOMAIN V!Transitions BY <1>t, <2>1, MachineFacts DEF V!Transitions
      <3> QED BY <1>t, <2>1, <3>1, <3>2 DEF ScreenTyped, Sections
    <2>3. SessionsTyped' /\ \A b \in Answers : answers'[b] \in {answers[b], 0} BY <1>14, <2>1
    <2>4. CardsInOrder'
      <3> SUFFICES ASSUME s # V!NoSession, ~raced' PROVE CardsInOrder' BY <2>1 DEF CardsInOrder
      <3>1. ~raced /\ answers[a] = s.id /\ s.id # 0 BY <1>t, <2>1 DEF Review
      <3>2. Finished(s) BY <1>0, <2>1, <3>1 DEF CardsInOrder, Answering, Finished
      <3>3. \A b \in Answers : answers'[b] = s.id => answers[b] = s.id BY <2>3, <3>1
      <3>4. completing' \subseteq completing BY <2>1
      <3> QED BY <1>0, <1>t, <2>1, <3>1, <3>2, <3>3, <3>4 DEF CardsInOrder
    <2> QED BY <2>2, <2>3, <2>4 DEF ReviewInv
  <1>9. ASSUME NEW a \in Answers, V!SubmitFails(a) PROVE ReviewInv'
    <2>1. answers' = [answers EXCEPT ![a] = 0] /\ completing' = completing \ {a}
          /\ UNCHANGED <<machine, shown, review_session, loads, sessions, raced>>
      BY <1>9 DEF V!SubmitFails
    <2>2. SessionsTyped' /\ \A b \in Answers : answers'[b] \in {answers[b], 0} BY <1>14, <2>1
    <2>3. ScreenTyped' BY <1>0, <2>1 DEF ScreenTyped
    <2>4. CardsInOrder'
      <3> SUFFICES ASSUME review_session # V!NoSession, ~raced PROVE CardsInOrder'
        BY <2>1 DEF CardsInOrder
      <3>1. review_session.id # 0 BY <1>t DEF Review
      <3>2. \A b \in Answers : answers'[b] = review_session.id => answers[b] = review_session.id
        BY <2>2, <3>1
      <3>3. completing' \subseteq completing BY <2>1
      <3> QED BY <1>0, <1>t, <2>1, <3>2, <3>3 DEF CardsInOrder
    <2> QED BY <2>2, <2>3, <2>4 DEF ReviewInv
  <1>10. ASSUME V!Pause PROVE ReviewInv' BY <1>c, <1>t, <1>10 DEF V!Pause, V!Transitions
  <1>11. ASSUME V!Destroy PROVE ReviewInv'
    <2>1. loads' = V!Aborted /\ shown' = "destroyed" /\ review_session' = V!NoSession
          /\ UNCHANGED <<machine, answers, completing, sessions, raced>> BY <1>11 DEF V!Destroy
    <2>2. ScreenTyped' /\ SessionsTyped'
      BY <1>0, <1>t, <1>a, <2>1 DEF ScreenTyped, SessionsTyped, Sections
    <2> QED BY <2>1, <2>2 DEF ReviewInv, CardsInOrder
  <1>12. ASSUME UNCHANGED V!vars PROVE ReviewInv'
    BY <1>0, <1>12 DEF V!vars, ReviewInv, ScreenTyped, SessionsTyped, CardsInOrder
  <1> QED
    BY <1>1, <1>2, <1>3, <1>4, <1>5, <1>6, <1>7, <1>8, <1>9, <1>13, <1>10, <1>11, <1>12 DEF V!Next

-----------------------------------------------------------------------------
(***************************************************************************)
(* exercise_service.js: the distance of two words is the least number of   *)
(* edits that makes one of the other.  The words of the generator have at  *)
(* most two letters, so that the table and the words that edits reach can  *)
(* be written out.                                                         *)
(***************************************************************************)
LEMMA LeastOfThree ==
  ASSUME NEW x \in Nat, NEW y \in Nat, NEW z \in Nat
  PROVE  LET m == G!Min({x, y, z}) IN
         m \in {x, y, z} /\ m <= x /\ m <= y /\ m <= z
  <1> DEFINE T == {x, y, z}
  <1>1. \E m \in T : \A n \in T : m =< n
    <2>1. CASE x <= y /\ x <= z BY <2>1
    <2>2. CASE y <= x /\ y <= z BY <2>2
    <2>3. CASE z <= x /\ z <= y BY <2>3
    <2> QED BY <2>1, <2>2, <2>3
  <1>2. G!Min(T) \in T /\ \A n \in T : G!Min(T) =< n
    <2> HIDE DEF T
    <2> QED BY <1>1 DEF G!Min
  <1> QED BY <1>2

LEMMA LeastOfTwo ==
  ASSUME NEW x \in Nat, NEW y \in Nat
  PROVE  G!Min({x, y}) <= y
  <1> DEFINE T == {x, y}
  <1>1. \E m \in T : \A n \in T : m =< n
    <2>1. CASE x <= y BY <2>1
    <2>2. CASE y <= x BY <2>2
    <2> QED BY <2>1, <2>2
  <1>2. \A n \in T : G!Min(T) =< n
    <2> HIDE DEF T
    <2> QED BY <1>1 DEF G!Min
  <1> QED BY <1>2

Places(a, b) == (0..Len(a)) \X (0..Len(b))
Cost(a, b, i, j) == IF a[i] = b[j] THEN 0 ELSE 1
Entry(a, b, d, i, j) ==
  IF i = 0 THEN j ELSE IF j = 0 THEN i
  ELSE G!Min({d[<<i - 1, j>>] + 1, d[<<i, j - 1>>] + 1,
              d[<<i - 1, j - 1>>] + (IF a[i] = b[j] THEN 0 ELSE 1)})
IsTable(a, b, d) == d = [p \in Places(a, b) |-> Entry(a, b, d, p[1], p[2])]

(* What the table of two words holds. *)
Value(a, b, i, j) ==
  IF i = 0 THEN j ELSE IF j = 0 THEN i
  ELSE IF i = 1 /\ j = 1 THEN Cost(a, b, 1, 1)
  ELSE IF i = 1 THEN IF a[1] \in {b[1], b[2]} THEN 1 ELSE 2
  ELSE IF j = 1 THEN IF b[1] \in {a[1], a[2]} THEN 1 ELSE 2
  ELSE Cost(a, b, 1, 1) + Cost(a, b, 2, 2)

Short(w) == Len(w) \in {1, 2}

LEMMA TableOfWords ==
  ASSUME NEW a, NEW b, Short(a), Short(b)
  PROVE  IsTable(a, b, [p \in Places(a, b) |-> Value(a, b, p[1], p[2])])
  <1> DEFINE d == [p \in Places(a, b) |-> Value(a, b, p[1], p[2])]
             m == Len(a)
             n == Len(b)
  <1>1. m \in {1, 2} /\ n \in {1, 2} /\ Places(a, b) = (0..m) \X (0..n) BY DEF Short, Places
  <1> HIDE DEF m, n
  <1>2. \A i \in 0..m, j \in 0..n : d[<<i, j>>] = Value(a, b, i, j) BY <1>1
  <1> HIDE DEF d
  <1>3. Cost(a, b, 1, 1) \in {0, 1} /\ Cost(a, b, 2, 2) \in {0, 1} BY DEF Cost
  <1>4. ASSUME NEW i \in 0..m, NEW j \in 0..n
        PROVE  Value(a, b, i, j) = Entry(a, b, d, i, j)
    <2>1. CASE i = 0 \/ j = 0 BY <2>1 DEF Value, Entry
    <2>2. CASE i = 1 /\ j = 1
      <3>1. d[<<0, 1>>] = 1 /\ d[<<1, 0>>] = 1 /\ d[<<0, 0>>] = 0 BY <1>1, <1>2, <2>2 DEF Value
      <3>2. Entry(a, b, d, 1, 1) = G!Min({2, 2, Cost(a, b, 1, 1)})
        <4>1. 1 - 1 = 0 /\ 1 + 1 = 2 /\ 0 + Cost(a, b, 1, 1) = Cost(a, b, 1, 1) BY <1>3
        <4> QED BY <3>1, <4>1 DEF Entry, Cost
      <3>3. G!Min({2, 2, Cost(a, b, 1, 1)}) = Cost(a, b, 1, 1) BY <1>3, LeastOfThree
      <3> QED BY <2>2, <3>2, <3>3 DEF Value
    <2>3. CASE i = 1 /\ j = 2
      <3>1. d[<<0, 2>>] = 2 /\ d[<<1, 1>>] = Cost(a, b, 1, 1) /\ d[<<0, 1>>] = 1
        BY <1>1, <1>2, <2>3 DEF Value
      <3> DEFINE c == IF a[1] = b[2] THEN 0 ELSE 1
      <3>2. Entry(a, b, d, 1, 2) = G!Min({3, Cost(a, b, 1, 1) + 1, 1 + c})
        <4>1. 1 - 1 = 0 /\ 2 - 1 = 1 /\ 2 + 1 = 3 OBVIOUS
        <4> QED BY <3>1, <4>1 DEF Entry
      <3>3. Value(a, b, 1, 2) = IF Cost(a, b, 1, 1) = 0 \/ c = 0 THEN 1 ELSE 2 BY DEF Value, Cost
      <3>4. c \in {0, 1} OBVIOUS
      <3> HIDE DEF c
      <3>5. G!Min({3, Cost(a, b, 1, 1) + 1, 1 + c})
              = IF Cost(a, b, 1, 1) = 0 \/ c = 0 THEN 1 ELSE 2
        <4> DEFINE x == Cost(a, b, 1, 1) + 1
                   y == 1 + c
        <4>1. x \in {1, 2} /\ y \in {1, 2} /\ (Cost(a, b, 1, 1) = 0 <=> x = 1) /\ (c = 0 <=> y = 1)
          BY <1>3, <3>4
        <4> HIDE DEF x, y
        <4>2. LET l == G!Min({3, x, y}) IN l \in {3, x, y} /\ l <= 3 /\ l <= x /\ l <= y
          BY <4>1, LeastOfThree
        <4> QED BY <4>1, <4>2 DEF x, y
      <3> QED BY <2>3, <3>2, <3>3, <3>5
    <2>4. CASE i = 2 /\ j = 1
      <3>1. d[<<1, 1>>] = Cost(a, b, 1, 1) /\ d[<<2, 0>>] = 2 /\ d[<<1, 0>>] = 1
        BY <1>1, <1>2, <2>4 DEF Value
      <3> DEFINE c == IF a[2] = b[1] THEN 0 ELSE 1
      <3>2. Entry(a, b, d, 2, 1) = G!Min({Cost(a, b, 1, 1) + 1, 3, 1 + c})
        <4>1. 1 - 1 = 0 /\ 2 - 1 = 1 /\ 2 + 1 = 3 OBVIOUS
        <4> QED BY <3>1, <4>1 DEF Entry
      <3>3. Value(a, b, 2, 1) = IF Cost(a, b, 1, 1) = 0 \/ c = 0 THEN 1 ELSE 2 BY DEF Value, Cost
      <3>4. c \in {0, 1} OBVIOUS
      <3> HIDE DEF c
      <3>5. G!Min({Cost(a, b, 1, 1) + 1, 3, 1 + c})
              = IF Cost(a, b, 1, 1) = 0 \/ c = 0 THEN 1 ELSE 2
        <4> DEFINE x == Cost(a, b, 1, 1) + 1
                   y == 1 + c
        <4>1. x \in {1, 2} /\ y \in {1, 2} /\ (Cost(a, b, 1, 1) = 0 <=> x = 1) /\ (c = 0 <=> y = 1)
          BY <1>3, <3>4
        <4> HIDE DEF x, y
        <4>2. LET l == G!Min({x, 3, y}) IN l \in {3, x, y} /\ l <= 3 /\ l <= x /\ l <= y
          BY <4>1, LeastOfThree
        <4> QED BY <4>1, <4>2 DEF x, y
      <3> QED BY <2>4, <3>2, <3>3, <3>5
    <2>5. CASE i = 2 /\ j = 2
      <3> DEFINE x == d[<<1, 2>>]
                 y == d[<<2, 1>>]
                 e == Cost(a, b, 1, 1)
                 c == Cost(a, b, 2, 2)
      <3>1. /\ d[<<1, 1>>] = e
            /\ x = IF a[1] \in {b[1], b[2]} THEN 1 ELSE 2
            /\ y = IF b[1] \in {a[1], a[2]} THEN 1 ELSE 2 BY <1>1, <1>2, <2>5 DEF Value
      <3>2. x \in {1, 2} /\ y \in {1, 2} /\ e \in {0, 1} /\ c \in {0, 1} BY <1>3, <3>1
      <3>3. Entry(a, b, d, 2, 2) = G!Min({x + 1, y + 1, e + c})
        <4>1. 2 - 1 = 1 OBVIOUS
        <4> QED BY <3>1, <4>1 DEF Entry, Cost
      <3>4. Value(a, b, 2, 2) = e + c BY DEF Value
      <3> HIDE DEF x, y, e, c
      <3>5. G!Min({x + 1, y + 1, e + c}) = e + c
        <4> DEFINE u == x + 1
                   v == y + 1
                   w == e + c
        <4>1. u \in {2, 3} /\ v \in {2, 3} /\ w \in {0, 1, 2} BY <3>2
        <4> HIDE DEF u, v, w
        <4>2. LET l == G!Min({u, v, w}) IN l \in {u, v, w} /\ l <= u /\ l <= v /\ l <= w
          BY <4>1, LeastOfThree
        <4> QED BY <4>1, <4>2 DEF u, v, w
      <3> QED BY <2>5, <3>3, <3>4, <3>5
    <2> QED BY <1>1, <2>1, <2>2, <2>3, <2>4, <2>5
  <1>5. \A p \in Places(a, b) : p[1] \in 0..m /\ p[2] \in 0..n BY <1>1
  <1>6. [p \in Places(a, b) |-> Value(a, b, p[1], p[2])]
          = [p \in Places(a, b) |-> Entry(a, b, d, p[1], p[2])] BY <1>4, <1>5
  <1> QED BY <1>6 DEF IsTable, d

(* There is one table. *)
LEMMA TableIsUnique ==
  ASSUME NEW a, NEW b, NEW d, Short(a), Short(b), IsTable(a, b, d)
  PROVE  \A i \in 0..Len(a), j \in 0..Len(b) : d[<<i, j>>] = Value(a, b, i, j)
  <1> DEFINE t == [p \in Places(a, b) |-> Value(a, b, p[1], p[2])]
             m == Len(a)
             n == Len(b)
  <1>1. m \in {1, 2} /\ n \in {1, 2} /\ Places(a, b) = (0..m) \X (0..n) BY DEF Short, Places
  <1>2. IsTable(a, b, t) BY TableOfWords
  <1> HIDE DEF m, n
  <1>3. \A i \in 0..m, j \in 0..n :
          d[<<i, j>>] = Entry(a, b, d, i, j) /\ t[<<i, j>>] = Entry(a, b, t, i, j)
    <2> HIDE DEF t
    <2> QED BY <1>1, <1>2 DEF IsTable
  <1>4. \A i \in 0..m, j \in 0..n : t[<<i, j>>] = Value(a, b, i, j) BY <1>1
  <1> HIDE DEF t
  <1> DEFINE Same(i, j) == d[<<i, j>>] = t[<<i, j>>]
  <1>5. \A i \in 0..m, j \in 0..n : i = 0 \/ j = 0 => Same(i, j)
    <2>1. \A f, i, j : i = 0 => Entry(a, b, f, i, j) = j BY DEF Entry
    <2>2. \A f, i, j : i # 0 /\ j = 0 => Entry(a, b, f, i, j) = i BY DEF Entry
    <2>3. \A i, j : i = 0 \/ j = 0 => Entry(a, b, d, i, j) = Entry(a, b, t, i, j) BY <2>1, <2>2
    <2> QED BY <1>3, <2>3
  <1>6. ASSUME NEW i \in 1..m, NEW j \in 1..n, Same(i - 1, j), Same(i, j - 1), Same(i - 1, j - 1)
        PROVE  Same(i, j)
    <2>1. i \in 0..m /\ j \in 0..n /\ i # 0 /\ j # 0 BY <1>1
    <2>2. Entry(a, b, d, i, j) = Entry(a, b, t, i, j) BY <1>6, <2>1 DEF Entry
    <2> QED BY <1>3, <2>1, <2>2
  <1>7. Same(1, 1)
    <2>1. 1 \in 1..m /\ 1 \in 1..n /\ 0 \in 0..m /\ 0 \in 0..n /\ 1 \in 0..m /\ 1 \in 0..n /\ 1 - 1 = 0
      BY <1>1
    <2>2. Same(0, 1) /\ Same(1, 0) /\ Same(0, 0) BY <1>5, <2>1
    <2> HIDE DEF Same
    <2> QED BY <1>6, <2>1, <2>2
  <1>8. n = 2 => Same(1, 2)
    <2> SUFFICES ASSUME n = 2 PROVE Same(1, 2) OBVIOUS
    <2>1. 1 \in 1..m /\ 2 \in 1..n /\ 0 \in 0..m /\ 1 \in 0..n /\ 2 \in 0..n /\ 1 - 1 = 0 /\ 2 - 1 = 1
      BY <1>1
    <2>2. Same(0, 2) /\ Same(0, 1) BY <1>5, <2>1
    <2> HIDE DEF Same
    <2> QED BY <1>6, <1>7, <2>1, <2>2
  <1>9. m = 2 => Same(2, 1)
    <2> SUFFICES ASSUME m = 2 PROVE Same(2, 1) OBVIOUS
    <2>1. 1 \in 1..n /\ 2 \in 1..m /\ 0 \in 0..n /\ 1 \in 0..m /\ 2 \in 0..m /\ 1 - 1 = 0 /\ 2 - 1 = 1
      BY <1>1
    <2>2. Same(2, 0) /\ Same(1, 0) BY <1>5, <2>1
    <2> HIDE DEF Same
    <2> QED BY <1>6, <1>7, <2>1, <2>2
  <1>10. m = 2 /\ n = 2 => Same(2, 2)
    <2> SUFFICES ASSUME m = 2, n = 2 PROVE Same(2, 2) OBVIOUS
    <2>1. 2 \in 1..n /\ 2 \in 1..m /\ 2 - 1 = 1 OBVIOUS
    <2> HIDE DEF Same
    <2> QED BY <1>6, <1>7, <1>8, <1>9, <2>1
  <1>11. \A i \in 0..m, j \in 0..n : Same(i, j)
    <2> HIDE DEF Same
    <2> QED BY <1>1, <1>5, <1>7, <1>8, <1>9, <1>10
  <1> QED BY <1>4, <1>11 DEF m, n

LEMMA DistanceOfWords ==
  ASSUME NEW a, NEW b, Short(a), Short(b)
  PROVE  G!Distance(a, b) = Value(a, b, Len(a), Len(b))
  <1> DEFINE t == CHOOSE t : IsTable(a, b, t)
  <1>1. IsTable(a, b, t) BY TableOfWords
  <1>2. G!Distance(a, b) = t[<<Len(a), Len(b)>>] BY DEF G!Distance, IsTable, Entry, Places
  <1> HIDE DEF t
  <1>3. Len(a) \in 0..Len(a) /\ Len(b) \in 0..Len(b) BY DEF Short
  <1> QED BY <1>1, <1>2, <1>3, TableIsUnique

LEMMA WordFacts ==
  ASSUME NEW w \in G!Texts, w # <<>>
  PROVE  w \in Seq(Letters) /\ Short(w) /\ DOMAIN w = 1..Len(w)
  <1>1. PICK n \in 0..2 : w \in [1..n -> Letters] BY DEF G!Texts
  <1>2. w \in Seq(Letters) BY <1>1, SeqDef
  <1>3. Len(w) \in Nat \ {0} /\ DOMAIN w = 1..Len(w) BY <1>2, LenProperties, EmptySeq
  <1>4. 1..n = 1..Len(w) BY <1>1, <1>3
  <1>5. Len(w) = n
    <2> DEFINE k == Len(w)
    <2>1. k \in Nat \ {0} /\ n \in 0..2 /\ 1..n = 1..k BY <1>1, <1>3, <1>4
    <2> HIDE DEF k
    <2>2. k \in 1..k BY <2>1
    <2>3. k \in 1..n BY <2>1, <2>2
    <2>4. n \in 1..n BY <2>1, <2>3
    <2>5. n \in 1..k BY <2>1, <2>4
    <2>6. k = n BY <2>1, <2>3, <2>5
    <2> QED BY <2>6 DEF k
  <1> QED BY <1>1, <1>2, <1>3, <1>5 DEF Short

LEMMA Removal ==
  ASSUME NEW w \in Seq(Letters), NEW i \in 1..Len(w)
  PROVE  LET v == SubSeq(w, 1, i - 1) \o SubSeq(w, i + 1, Len(w)) IN
         /\ v \in Seq(Letters) /\ Len(v) = Len(w) - 1
         /\ \A j \in 1..(Len(w) - 1) : v[j] = IF j < i THEN w[j] ELSE w[j + 1]
  <1> DEFINE s == SubSeq(w, 1, i - 1)
             t == SubSeq(w, i + 1, Len(w))
  <1>1. Len(w) \in Nat /\ \A j \in 1..Len(w) : w[j] \in Letters BY LenProperties
  <1>2. s \in Seq(Letters) /\ Len(s) = i - 1 /\ \A j \in 1..(i - 1) : s[j] = w[j]
    <2>1. 1 \in Int /\ i - 1 \in Int /\ \A j \in 1..(i - 1) : w[j] \in Letters BY <1>1
    <2>2. /\ s \in Seq(Letters) /\ Len(s) = IF 1 <= i - 1 THEN i - 1 - 1 + 1 ELSE 0
          /\ \A j \in 1..(i - 1 - 1 + 1) : s[j] = w[1 + j - 1] BY <2>1, SubSeqProperties
    <2> HIDE DEF s
    <2> QED BY <1>1, <2>2
  <1>3. t \in Seq(Letters) /\ Len(t) = Len(w) - i /\ \A j \in 1..(Len(w) - i) : t[j] = w[i + j]
    <2>1. i + 1 \in Int /\ Len(w) \in Int /\ \A j \in (i + 1)..Len(w) : w[j] \in Letters BY <1>1
    <2>2. /\ t \in Seq(Letters)
          /\ Len(t) = IF i + 1 <= Len(w) THEN Len(w) - (i + 1) + 1 ELSE 0
          /\ \A j \in 1..(Len(w) - (i + 1) + 1) : t[j] = w[i + 1 + j - 1] BY <2>1, SubSeqProperties
    <2> HIDE DEF t
    <2> QED BY <1>1, <2>2
  <1> HIDE DEF s, t
  <1>4. /\ s \o t \in Seq(Letters) /\ Len(s \o t) = Len(s) + Len(t)
        /\ \A j \in 1..(Len(s) + Len(t)) :
             (s \o t)[j] = IF j <= Len(s) THEN s[j] ELSE t[j - Len(s)]
    BY <1>2, <1>3, ConcatProperties
  <1>5. Len(s) + Len(t) = Len(w) - 1 BY <1>1, <1>2, <1>3
  <1>6. ASSUME NEW j \in 1..(Len(w) - 1)
        PROVE  (s \o t)[j] = IF j < i THEN w[j] ELSE w[j + 1]
    <2>1. CASE j < i
      <3>1. j <= Len(s) /\ j \in 1..(i - 1) BY <1>1, <1>2, <2>1
      <3> QED BY <1>2, <1>4, <1>5, <2>1, <3>1
    <2>2. CASE ~(j < i)
      <3>1. ~(j <= Len(s)) /\ j - Len(s) \in 1..(Len(w) - i) /\ i + (j - Len(s)) = j + 1
        BY <1>1, <1>2, <2>2
      <3>2. (s \o t)[j] = t[j - Len(s)] BY <1>4, <1>5, <3>1
      <3>3. t[j - Len(s)] = w[i + (j - Len(s))] BY <1>3, <3>1
      <3> QED BY <2>2, <3>1, <3>2, <3>3
    <2> QED BY <2>1, <2>2
  <1> QED BY <1>4, <1>5, <1>6 DEF s, t

LEMMA Addition ==
  ASSUME NEW w \in Seq(Letters), NEW i \in 0..Len(w), NEW x \in Letters
  PROVE  LET v == SubSeq(w, 1, i) \o <<x>> \o SubSeq(w, i + 1, Len(w)) IN
         /\ v \in Seq(Letters) /\ Len(v) = Len(w) + 1
         /\ \A j \in 1..(Len(w) + 1) :
              v[j] = IF j <= i THEN w[j] ELSE IF j = i + 1 THEN x ELSE w[j - 1]
  <1> DEFINE s == SubSeq(w, 1, i)
             t == SubSeq(w, i + 1, Len(w))
             u == <<x>>
  <1>1. Len(w) \in Nat /\ \A j \in 1..Len(w) : w[j] \in Letters BY LenProperties
  <1>2. s \in Seq(Letters) /\ Len(s) = i /\ \A j \in 1..i : s[j] = w[j]
    <2>1. 1 \in Int /\ i \in Int /\ \A j \in 1..i : w[j] \in Letters BY <1>1
    <2>2. /\ s \in Seq(Letters) /\ Len(s) = IF 1 <= i THEN i - 1 + 1 ELSE 0
          /\ \A j \in 1..(i - 1 + 1) : s[j] = w[1 + j - 1] BY <2>1, SubSeqProperties
    <2> HIDE DEF s
    <2> QED BY <1>1, <2>2
  <1>3. t \in Seq(Letters) /\ Len(t) = Len(w) - i /\ \A j \in 1..(Len(w) - i) : t[j] = w[i + j]
    <2>1. i + 1 \in Int /\ Len(w) \in Int /\ \A j \in (i + 1)..Len(w) : w[j] \in Letters BY <1>1
    <2>2. /\ t \in Seq(Letters)
          /\ Len(t) = IF i + 1 <= Len(w) THEN Len(w) - (i + 1) + 1 ELSE 0
          /\ \A j \in 1..(Len(w) - (i + 1) + 1) : t[j] = w[i + 1 + j - 1] BY <2>1, SubSeqProperties
    <2> HIDE DEF t
    <2> QED BY <1>1, <2>2
  <1>u. u \in Seq(Letters) /\ Len(u) = 1 /\ u[1] = x OBVIOUS
  <1> HIDE DEF s, t, u
  <1> DEFINE q == s \o u
  <1>4. /\ q \in Seq(Letters) /\ Len(q) = Len(s) + Len(u)
        /\ \A j \in 1..(Len(s) + Len(u)) : q[j] = IF j <= Len(s) THEN s[j] ELSE u[j - Len(s)]
    BY <1>2, <1>u, ConcatProperties
  <1>5. Len(q) = i + 1 BY <1>2, <1>4, <1>u
  <1>6. (\A j \in 1..i : q[j] = w[j]) /\ q[i + 1] = x
    <2>1. ASSUME NEW j \in 1..i PROVE q[j] = w[j]
      <3>1. j \in 1..(Len(s) + Len(u)) /\ j <= Len(s) BY <1>2, <1>u
      <3> QED BY <1>2, <1>4, <3>1
    <2>2. i + 1 \in 1..(Len(s) + Len(u)) /\ ~(i + 1 <= Len(s)) /\ i + 1 - Len(s) = 1 BY <1>2, <1>u
    <2>3. q[i + 1] = x BY <1>4, <1>u, <2>2
    <2> QED BY <2>1, <2>3
  <1> HIDE DEF q
  <1>7. /\ q \o t \in Seq(Letters) /\ Len(q \o t) = Len(q) + Len(t)
        /\ \A j \in 1..(Len(q) + Len(t)) :
             (q \o t)[j] = IF j <= Len(q) THEN q[j] ELSE t[j - Len(q)]
    <2>1. q \in Seq(Letters) /\ t \in Seq(Letters) BY <1>3, <1>4
    <2> QED BY <2>1, ConcatProperties
  <1>8. Len(q) + Len(t) = Len(w) + 1 BY <1>1, <1>3, <1>5
  <1>9. ASSUME NEW j \in 1..(Len(w) + 1)
        PROVE  (q \o t)[j] = IF j <= i THEN w[j] ELSE IF j = i + 1 THEN x ELSE w[j - 1]
    <2>1. CASE j <= i + 1
      <3>1. j <= Len(q) /\ (j \in 1..i \/ j = i + 1) BY <1>5, <2>1
      <3>2. (q \o t)[j] = q[j] BY <1>7, <1>8, <3>1
      <3> QED BY <1>6, <3>1, <3>2
    <2>2. CASE ~(j <= i + 1)
      <3>1. ~(j <= Len(q)) /\ j - Len(q) \in 1..(Len(w) - i) /\ i + (j - Len(q)) = j - 1
        BY <1>1, <1>5, <2>2
      <3>2. (q \o t)[j] = t[j - Len(q)] BY <1>7, <1>8, <3>1
      <3>3. t[j - Len(q)] = w[i + (j - Len(q))] BY <1>3, <3>1
      <3>4. ~(j <= i) /\ j # i + 1 BY <2>2
      <3> QED BY <3>1, <3>2, <3>3, <3>4
    <2> QED BY <2>1, <2>2
  <1> QED BY <1>7, <1>8, <1>9 DEF s, t, u, q

Changed(w, i, x) == [w EXCEPT ![i] = x]
Removed(w, i) == SubSeq(w, 1, i - 1) \o SubSeq(w, i + 1, Len(w))
Added(w, i, x) == SubSeq(w, 1, i) \o <<x>> \o SubSeq(w, i + 1, Len(w))

LEMMA KindsOfEdits ==
  ASSUME NEW w
  PROVE  G!Edits(w) = {Changed(w, i, x) : i \in DOMAIN w, x \in Letters}
                      \cup {Removed(w, i) : i \in DOMAIN w}
                      \cup {Added(w, i, x) : i \in 0..Len(w), x \in Letters}
  BY DEF G!Edits, Changed, Removed, Added

LEMMA AdditionsAreEdits ==
  ASSUME NEW w, NEW i \in 0..Len(w), NEW x \in Letters
  PROVE  Added(w, i, x) \in G!Edits(w)
  <1> DEFINE Additions == {Added(w, k, y) : k \in 0..Len(w), y \in Letters}
             Changes == {Changed(w, k, y) : k \in DOMAIN w, y \in Letters}
             Removals == {Removed(w, k) : k \in DOMAIN w}
  <1>1. Added(w, i, x) \in Additions OBVIOUS
  <1>2. G!Edits(w) = Changes \cup Removals \cup Additions BY DEF G!Edits, Changed, Removed, Added
  <1> HIDE DEF Additions, Changes, Removals
  <1> QED BY <1>1, <1>2

(* What an edit leaves of a word. *)
Nearby(w, v) ==
  \/ Len(v) = Len(w) /\ \E i \in 1..Len(w) : \A j \in 1..Len(w) : j # i => v[j] = w[j]
  \/ Len(v) = Len(w) - 1 /\ \A j \in 1..Len(v) : v[j] \in {w[j], w[j + 1]}
  \/ Len(v) = Len(w) + 1 /\ \A j \in 1..Len(w) : w[j] \in {v[j], v[j + 1]}

LEMMA EditsAreNearby ==
  ASSUME NEW w \in Seq(Letters), NEW v \in G!Edits(w)
  PROVE  v \in Seq(Letters) /\ Nearby(w, v)
  <1>1. Len(w) \in Nat /\ DOMAIN w = 1..Len(w) BY LenProperties
  <1>2. \/ \E i \in 1..Len(w), x \in Letters : v = Changed(w, i, x)
        \/ \E i \in 1..Len(w) : v = Removed(w, i)
        \/ \E i \in 0..Len(w), x \in Letters : v = Added(w, i, x)
    <2> DEFINE Changes == {Changed(w, i, x) : i \in DOMAIN w, x \in Letters}
               Removals == {Removed(w, i) : i \in DOMAIN w}
               Additions == {Added(w, i, x) : i \in 0..Len(w), x \in Letters}
    <2>1. v \in Changes \/ v \in Removals \/ v \in Additions BY KindsOfEdits
    <2>2. v \in Changes => \E i \in 1..Len(w), x \in Letters : v = Changed(w, i, x) BY <1>1
    <2>3. v \in Removals => \E i \in 1..Len(w) : v = Removed(w, i) BY <1>1
    <2>4. v \in Additions => \E i \in 0..Len(w), x \in Letters : v = Added(w, i, x) OBVIOUS
    <2> QED BY <2>1, <2>2, <2>3, <2>4
  <1>3. ASSUME NEW i \in 1..Len(w), NEW x \in Letters, v = Changed(w, i, x)
        PROVE  v \in Seq(Letters) /\ Nearby(w, v)
    <2>1. /\ v \in Seq(Letters) /\ Len(v) = Len(w)
          /\ \A j \in 1..Len(w) : v[j] = IF j = i THEN x ELSE w[j] BY <1>3, ExceptSeq DEF Changed
    <2> QED BY <2>1 DEF Nearby
  <1>4. ASSUME NEW i \in 1..Len(w), v = Removed(w, i)
        PROVE  v \in Seq(Letters) /\ Nearby(w, v)
    <2>1. /\ v \in Seq(Letters) /\ Len(v) = Len(w) - 1
          /\ \A j \in 1..(Len(w) - 1) : v[j] = IF j < i THEN w[j] ELSE w[j + 1]
      BY <1>4, Removal DEF Removed
    <2> QED BY <2>1 DEF Nearby
  <1>5. ASSUME NEW i \in 0..Len(w), NEW x \in Letters, v = Added(w, i, x)
        PROVE  v \in Seq(Letters) /\ Nearby(w, v)
    <2>1. /\ v \in Seq(Letters) /\ Len(v) = Len(w) + 1
          /\ \A j \in 1..(Len(w) + 1) :
               v[j] = IF j <= i THEN w[j] ELSE IF j = i + 1 THEN x ELSE w[j - 1]
      BY <1>5, Addition DEF Added
    <2>2. ASSUME NEW j \in 1..Len(w) PROVE w[j] \in {v[j], v[j + 1]}
      <3>1. j \in 1..(Len(w) + 1) /\ j + 1 \in 1..(Len(w) + 1) /\ j + 1 - 1 = j BY <1>1
      <3>2. j <= i => v[j] = w[j] BY <2>1, <3>1
      <3>3. ~(j <= i) => ~(j + 1 <= i) /\ j + 1 # i + 1 BY <1>1
      <3>4. ~(j <= i) => v[j + 1] = w[j + 1 - 1] BY <2>1, <3>1, <3>3
      <3> QED BY <3>1, <3>2, <3>4
    <2> QED BY <2>1, <2>2 DEF Nearby
  <1> QED BY <1>2, <1>3, <1>4, <1>5

LEMMA ChangeIsEdit ==
  ASSUME NEW w \in Seq(Letters), NEW v \in Seq(Letters), Len(v) = Len(w),
         NEW i \in 1..Len(w), \A j \in 1..Len(w) : j # i => v[j] = w[j]
  PROVE  v \in G!Edits(w)
  <1>1. DOMAIN w = 1..Len(w) /\ v[i] \in Letters BY LenProperties
  <1> DEFINE u == Changed(w, i, v[i])
  <1>2. u \in Seq(Letters) /\ Len(u) = Len(w) /\ \A j \in 1..Len(w) : u[j] = IF j = i THEN v[i] ELSE w[j]
    BY <1>1, ExceptSeq DEF Changed
  <1>3. u \in G!Edits(w) BY <1>1, KindsOfEdits
  <1> HIDE DEF u
  <1>4. \A j \in 1..Len(v) : v[j] = u[j] BY <1>2
  <1>5. u = v BY <1>2, <1>4, SeqEqual
  <1> QED BY <1>3, <1>5

LEMMA RemovalIsEdit ==
  ASSUME NEW w \in Seq(Letters), NEW v \in Seq(Letters), Len(w) = 2, Len(v) = 1,
         v[1] \in {w[1], w[2]}
  PROVE  v \in G!Edits(w)
  <1>1. PICK i \in 1..2 : v[1] = w[3 - i]
    <2>1. 3 - 1 = 2 /\ 3 - 2 = 1 OBVIOUS
    <2> QED BY <2>1
  <1> DEFINE u == Removed(w, i)
  <1>2. u \in G!Edits(w)
    <2>1. i \in DOMAIN w BY LenProperties
    <2> QED BY <2>1, KindsOfEdits
  <1>3. /\ u \in Seq(Letters) /\ Len(u) = Len(w) - 1
        /\ \A j \in 1..(Len(w) - 1) : u[j] = IF j < i THEN w[j] ELSE w[j + 1] BY Removal DEF Removed
  <1> HIDE DEF u
  <1>4. Len(u) = 1 /\ u[1] = v[1]
    <2>1. Len(u) = 1 /\ u[1] = IF 1 < i THEN w[1] ELSE w[2] BY <1>3
    <2>2. CASE i = 1 BY <1>1, <2>1, <2>2
    <2>3. CASE i = 2 BY <1>1, <2>1, <2>3
    <2> QED BY <2>1, <2>2, <2>3
  <1>5. u = v BY <1>3, <1>4, SeqEqual
  <1> QED BY <1>2, <1>5

LEMMA AdditionIsEdit ==
  ASSUME NEW w \in Seq(Letters), NEW v \in Seq(Letters), Len(w) = 1, Len(v) = 2,
         w[1] \in {v[1], v[2]}
  PROVE  v \in G!Edits(w)
  <1>1. v[1] \in Letters /\ v[2] \in Letters BY LenProperties
  <1>2. PICK i \in 0..1 : w[1] = v[2 - i]
    <2>1. 2 - 0 = 2 /\ 2 - 1 = 1 OBVIOUS
    <2> QED BY <2>1
  <1> DEFINE x == v[i + 1]
             u == Added(w, i, x)
  <1>3. i \in 0..Len(w) /\ x \in Letters BY <1>1
  <1>4. u \in G!Edits(w) BY <1>3, AdditionsAreEdits
  <1>5. /\ u \in Seq(Letters) /\ Len(u) = Len(w) + 1
        /\ \A j \in 1..(Len(w) + 1) :
             u[j] = IF j <= i THEN w[j] ELSE IF j = i + 1 THEN x ELSE w[j - 1]
    BY <1>3, Addition DEF Added
  <1> HIDE DEF u, x
  <1>6. Len(u) = 2 /\ u[1] = v[1] /\ u[2] = v[2]
    <2>1. Len(u) = 2 /\ 1 \in 1..(Len(w) + 1) /\ 2 \in 1..(Len(w) + 1) BY <1>5
    <2>2. CASE i = 0
      <3>1. u[1] = x /\ u[2] = w[1] BY <1>5, <2>1, <2>2
      <3>2. x = v[1] /\ w[1] = v[2] BY <1>2, <2>2 DEF x
      <3> QED BY <2>1, <3>1, <3>2
    <2>3. CASE i = 1
      <3>1. u[1] = w[1] /\ u[2] = x BY <1>5, <2>1, <2>3
      <3>2. x = v[2] /\ w[1] = v[1] BY <1>2, <2>3 DEF x
      <3> QED BY <2>1, <3>1, <3>2
    <2> QED BY <2>2, <2>3
  <1>7. u = v BY <1>5, <1>6, SeqEqual
  <1> QED BY <1>4, <1>7

Around(S) == S \cup UNION {G!Edits(v) : v \in S}
Stage(w, r, k) == IF k = 0 THEN {w} ELSE r[k - 1] \cup UNION {G!Edits(v) : v \in r[k - 1]}
IsReach(w, n, r) == r = [k \in 0..n |-> Stage(w, r, k)]
StageValue(w, k) == IF k = 0 THEN {w} ELSE IF k = 1 THEN Around({w}) ELSE Around(Around({w}))

LEMMA ReachedWords ==
  ASSUME NEW w, NEW n \in 0..2
  PROVE  G!Reached(w, n) = StageValue(w, n)
  <1> DEFINE f == [k \in 0..n |-> StageValue(w, k)]
  <1>1. IsReach(w, n, f)
    <2>1. ASSUME NEW k \in 0..n PROVE StageValue(w, k) = Stage(w, f, k)
      <3>1. k # 0 => k - 1 \in 0..n /\ f[k - 1] = StageValue(w, k - 1) OBVIOUS
      <3>2. CASE k = 0 BY <3>2 DEF Stage, StageValue
      <3>3. CASE k = 1
        <4>1. f[k - 1] = {w} BY <3>1, <3>3 DEF StageValue
        <4>2. Stage(w, f, k) = Around({w}) BY <3>3, <4>1 DEF Stage, Around
        <4> QED BY <3>3, <4>2 DEF StageValue
      <3>4. CASE k = 2
        <4>1. f[k - 1] = Around({w}) BY <3>1, <3>4 DEF StageValue
        <4>2. Stage(w, f, k) = Around(Around({w})) BY <3>4, <4>1 DEF Stage, Around
        <4> QED BY <3>4, <4>2 DEF StageValue
      <3> QED BY <3>2, <3>3, <3>4
    <2>2. [k \in 0..n |-> StageValue(w, k)] = [k \in 0..n |-> Stage(w, f, k)]
      <3> HIDE DEF f
      <3> QED BY <2>1
    <2> QED BY <2>2 DEF IsReach
  <1> DEFINE r == CHOOSE r : IsReach(w, n, r)
  <1>2. IsReach(w, n, r) BY <1>1
  <1>3. G!Reached(w, n) = r[n] BY DEF G!Reached, IsReach, Stage
  <1> HIDE DEF f, r
  <1>4. \A k \in 0..n : r[k] = Stage(w, r, k) BY <1>2 DEF IsReach
  <1>5. r[0] = {w}
    <2>1. r[0] = Stage(w, r, 0) BY <1>4
    <2>2. Stage(w, r, 0) = {w} BY DEF Stage
    <2> QED BY <2>1, <2>2
  <1>6. n >= 1 => r[1] = Around({w})
    <2> SUFFICES ASSUME n >= 1 PROVE r[1] = Around({w}) OBVIOUS
    <2>1. 1 \in 0..n /\ 1 - 1 = 0 OBVIOUS
    <2>2. r[1] = Stage(w, r, 1) BY <1>4, <2>1
    <2>3. Stage(w, r, 1) = Around(r[1 - 1]) BY DEF Stage, Around
    <2> QED BY <1>5, <2>1, <2>2, <2>3
  <1>7. n = 2 => r[2] = Around(Around({w}))
    <2> SUFFICES ASSUME n = 2 PROVE r[2] = Around(Around({w})) OBVIOUS
    <2>1. 2 \in 0..n /\ 2 - 1 = 1 OBVIOUS
    <2>2. r[2] = Stage(w, r, 2) BY <1>4, <2>1
    <2>3. Stage(w, r, 2) = Around(r[2 - 1]) BY DEF Stage, Around
    <2> QED BY <1>6, <2>1, <2>2, <2>3
  <1> QED BY <1>3, <1>5, <1>6, <1>7 DEF StageValue

LEMMA ReachedFacts ==
  ASSUME NEW w
  PROVE  /\ \A v : v \in G!Reached(w, 0) <=> v = w
         /\ \A v : v \in G!Reached(w, 1) <=> v = w \/ v \in G!Edits(w)
         /\ \A u \in G!Edits(w) : \A v \in G!Edits(u) : v \in G!Reached(w, 2)
  <1>1. /\ G!Reached(w, 0) = {w} /\ G!Reached(w, 1) = Around({w})
        /\ G!Reached(w, 2) = Around(Around({w})) BY ReachedWords DEF StageValue
  <1>2. \A v : v \in Around({w}) <=> v = w \/ v \in G!Edits(w) BY DEF Around
  <1>3. \A S : \A u \in S : \A v \in G!Edits(u) : v \in Around(S) BY DEF Around
  <1>4. ASSUME NEW u \in G!Edits(w), NEW v \in G!Edits(u) PROVE v \in G!Reached(w, 2)
    <2>1. u \in Around({w}) BY <1>2
    <2>2. v \in Around(Around({w})) BY <1>3, <2>1
    <2> QED BY <1>1, <2>2
  <1>5. \A v : v \in G!Reached(w, 0) <=> v = w BY <1>1
  <1>6. \A v : v \in G!Reached(w, 1) <=> v = w \/ v \in G!Edits(w) BY <1>1, <1>2
  <1> QED BY <1>4, <1>5, <1>6

(* So many edits make one word of the other, and no fewer do.              *)
IsEditDistance(a, b, d) ==
  /\ d \in Nat /\ b \in G!Reached(a, d)
  /\ d > 0 => b \notin G!Reached(a, d - 1)

LEMMA DistanceIsLeast ==
  ASSUME NEW a \in Seq(Letters), NEW b \in Seq(Letters), Short(a), Short(b)
  PROVE  IsEditDistance(a, b, G!Distance(a, b))
  <1> DEFINE d == G!Distance(a, b)
  <1>1. d = Value(a, b, Len(a), Len(b)) BY DistanceOfWords
  <1> SUFFICES IsEditDistance(a, b, d) OBVIOUS
  <1> HIDE DEF d
  <1>2. /\ a[1] \in Letters /\ b[1] \in Letters
        /\ Len(a) = 2 => a[2] \in Letters
        /\ Len(b) = 2 => b[2] \in Letters
    <2>1. \A i \in 1..Len(a) : a[i] \in Letters BY LenProperties
    <2>2. \A i \in 1..Len(b) : b[i] \in Letters BY LenProperties
    <2> QED BY <2>1, <2>2 DEF Short
  <1>e. \A v \in G!Edits(a) : Nearby(a, v) BY EditsAreNearby
  <1>z. d = 0 /\ a = b => IsEditDistance(a, b, d) BY ReachedFacts DEF IsEditDistance
  <1>o. d = 1 /\ a # b /\ b \in G!Edits(a) => IsEditDistance(a, b, d)
    <2>1. 1 \in Nat /\ 1 - 1 = 0 OBVIOUS
    <2> QED BY <2>1, ReachedFacts DEF IsEditDistance
  <1>t. ASSUME d = 2, a # b, ~Nearby(a, b), NEW u \in G!Edits(a), b \in G!Edits(u)
        PROVE  IsEditDistance(a, b, d)
    <2>1. 2 \in Nat /\ 2 - 1 = 1 OBVIOUS
    <2>2. b \in G!Reached(a, 2) BY <1>t, ReachedFacts
    <2>3. b \notin G!Reached(a, 1) BY <1>e, <1>t, ReachedFacts
    <2> QED BY <1>t, <2>1, <2>2, <2>3 DEF IsEditDistance
  <1>3. CASE Len(a) = 1 /\ Len(b) = 1
    <2>1. d = IF a[1] = b[1] THEN 0 ELSE 1 BY <1>1, <1>3 DEF Value, Cost
    <2>2. CASE a[1] = b[1]
      <3>1. \A i \in 1..Len(a) : a[i] = b[i] BY <1>3, <2>2
      <3>2. a = b BY <1>3, <3>1, SeqEqual
      <3> QED BY <1>z, <2>1, <2>2, <3>2
    <2>3. CASE a[1] # b[1]
      <3>1. 1 \in 1..Len(a) /\ \A j \in 1..Len(a) : j # 1 => b[j] = a[j] BY <1>3
      <3>2. b \in G!Edits(a) BY <1>3, <3>1, ChangeIsEdit
      <3> QED BY <1>o, <2>1, <2>3, <3>2
    <2> QED BY <2>2, <2>3
  <1>4. CASE Len(a) = 1 /\ Len(b) = 2
    <2>1. d = IF a[1] \in {b[1], b[2]} THEN 1 ELSE 2 BY <1>1, <1>4 DEF Value
    <2>2. a # b BY <1>4
    <2>3. CASE a[1] \in {b[1], b[2]}
      <3>1. b \in G!Edits(a) BY <1>4, <2>3, AdditionIsEdit
      <3> QED BY <1>o, <2>1, <2>2, <2>3, <3>1
    <2>4. CASE a[1] \notin {b[1], b[2]}
      <3> DEFINE u == Changed(a, 1, b[1])
      <3>1. 1 \in 1..Len(a) /\ 1 \in DOMAIN a BY <1>4, LenProperties
      <3>2. u \in Seq(Letters) /\ Len(u) = 1 /\ u[1] = b[1]
        BY <1>2, <1>4, <3>1, ExceptSeq DEF Changed
      <3> HIDE DEF u
      <3>3. \A j \in 1..Len(a) : j # 1 => u[j] = a[j] BY <1>4
      <3>4. u \in G!Edits(a) BY <1>4, <3>1, <3>2, <3>3, ChangeIsEdit
      <3>5. b \in G!Edits(u) BY <1>4, <3>2, AdditionIsEdit
      <3>6. ~Nearby(a, b)
        <4>1. 1 + 1 = 2 /\ 1 \in 1..1 /\ 2 # 1 /\ 2 # 1 - 1 OBVIOUS
        <4> QED BY <1>4, <2>4, <4>1 DEF Nearby
      <3> QED BY <1>t, <2>1, <2>2, <2>4, <3>4, <3>5, <3>6
    <2> QED BY <2>3, <2>4
  <1>5. CASE Len(a) = 2 /\ Len(b) = 1
    <2>1. d = IF b[1] \in {a[1], a[2]} THEN 1 ELSE 2 BY <1>1, <1>5 DEF Value
    <2>2. a # b BY <1>5
    <2>3. CASE b[1] \in {a[1], a[2]}
      <3>1. b \in G!Edits(a) BY <1>5, <2>3, RemovalIsEdit
      <3> QED BY <1>o, <2>1, <2>2, <2>3, <3>1
    <2>4. CASE b[1] \notin {a[1], a[2]}
      <3> DEFINE u == Changed(a, 1, b[1])
      <3>1. 1 \in 1..Len(a) BY <1>5
      <3>2. u \in Seq(Letters) /\ Len(u) = 2 /\ u[1] = b[1]
            /\ \A j \in 1..Len(a) : j # 1 => u[j] = a[j] BY <1>2, <1>5, <3>1, ExceptSeq DEF Changed
      <3> HIDE DEF u
      <3>4. u \in G!Edits(a) BY <1>5, <3>1, <3>2, ChangeIsEdit
      <3>5. b \in G!Edits(u) BY <1>5, <3>2, RemovalIsEdit
      <3>6. ~Nearby(a, b)
        <4>1. 1 + 1 = 2 /\ 1 \in 1..1 /\ 1 # 2 /\ 1 # 2 + 1 OBVIOUS
        <4> QED BY <1>5, <2>4, <4>1 DEF Nearby
      <3> QED BY <1>t, <2>1, <2>2, <2>4, <3>4, <3>5, <3>6
    <2> QED BY <2>3, <2>4
  <1>6. CASE Len(a) = 2 /\ Len(b) = 2
    <2>1. d = (IF a[1] = b[1] THEN 0 ELSE 1) + (IF a[2] = b[2] THEN 0 ELSE 1)
      BY <1>1, <1>6 DEF Value, Cost
    <2>2. CASE a[1] = b[1] /\ a[2] = b[2]
      <3>1. \A i \in 1..Len(a) : a[i] = b[i] BY <1>6, <2>2
      <3>2. a = b BY <1>6, <3>1, SeqEqual
      <3> QED BY <1>z, <2>1, <2>2, <3>2
    <2>3. CASE a[1] = b[1] /\ a[2] # b[2]
      <3>1. 2 \in 1..Len(a) /\ \A j \in 1..Len(a) : j # 2 => b[j] = a[j] BY <1>6, <2>3
      <3>2. b \in G!Edits(a) BY <1>6, <3>1, ChangeIsEdit
      <3> QED BY <1>o, <2>1, <2>3, <3>2
    <2>4. CASE a[1] # b[1] /\ a[2] = b[2]
      <3>1. 1 \in 1..Len(a) /\ \A j \in 1..Len(a) : j # 1 => b[j] = a[j] BY <1>6, <2>4
      <3>2. b \in G!Edits(a) BY <1>6, <3>1, ChangeIsEdit
      <3> QED BY <1>o, <2>1, <2>4, <3>2
    <2>5. CASE a[1] # b[1] /\ a[2] # b[2]
      <3> DEFINE u == Changed(a, 1, b[1])
      <3>1. 1 \in 1..Len(a) /\ 2 \in 1..Len(a) /\ 1 # 2 BY <1>6
      <3>2. u \in Seq(Letters) /\ Len(u) = 2 /\ u[1] = b[1]
            /\ \A j \in 1..Len(a) : j # 1 => u[j] = a[j] BY <1>2, <1>6, <3>1, ExceptSeq DEF Changed
      <3> HIDE DEF u
      <3>4. u \in G!Edits(a) BY <1>6, <3>1, <3>2, ChangeIsEdit
      <3>5. \A j \in 1..Len(u) : j # 2 => b[j] = u[j] BY <3>2
      <3>6. b \in G!Edits(u) BY <1>6, <3>1, <3>2, <3>5, ChangeIsEdit
      <3>7. ~Nearby(a, b)
        <4>1. 2 # 2 - 1 /\ 2 # 2 + 1 OBVIOUS
        <4>2. ASSUME NEW i \in 1..Len(a), \A j \in 1..Len(a) : j # i => b[j] = a[j] PROVE FALSE
          <5>1. i # 1 \/ i # 2 BY <3>1
          <5> QED BY <2>5, <3>1, <4>2, <5>1
        <4> QED BY <1>6, <4>1, <4>2 DEF Nearby
      <3>8. a # b BY <2>5
      <3>9. d = 2 BY <2>1, <2>5
      <3> QED BY <1>t, <3>4, <3>6, <3>7, <3>8, <3>9
    <2> QED BY <2>2, <2>3, <2>4, <2>5
  <1> QED BY <1>3, <1>4, <1>5, <1>6 DEF Short

LEMMA MeasuredWords ==
  ASSUME NEW a \in G!Texts, NEW b \in G!Texts, a # <<>>, b # <<>>
  PROVE  IsEditDistance(a, b, G!Distance(a, b)) BY WordFacts, DistanceIsLeast

-----------------------------------------------------------------------------
(***************************************************************************)
(* exercise_service.js: the exercises of a call are of different words,    *)
(* and their options are other words than the one asked.                   *)
(***************************************************************************)
LEMMA GeneratorLimits ==
  MaxCount \in Nat /\ OptionCount \in Nat /\ MaxTries \in Nat BY LimitsAssumption

LEMMA TriesGrow ==
  ASSUME NEW n \in Nat, NEW m \in Nat, n <= m
  PROVE  MaxTries * n \in Nat /\ MaxTries * n <= MaxTries * m
  <1> DEFINE k == m - n
             t == MaxTries
  <1>1. t \in Nat /\ k \in Nat /\ m = n + k BY GeneratorLimits
  <1> HIDE DEF k, t
  <1>2. t * n \in Nat /\ t * k \in Nat /\ t * (n + k) = t * n + t * k BY <1>1
  <1>3. t * n <= t * m BY <1>1, <1>2
  <1> QED BY <1>2, <1>3 DEF t

LEMMA VocabularyFacts ==
  ASSUME vocabulary \in ExerciseWords
  PROVE  Len(vocabulary) \in Nat BY DEF ExerciseWords

WordIds == 1..Len(vocabulary)
Item == [id : WordIds, type : {"multiple-choice", "fill-blank"}, vocab : SUBSET WordIds]

GeneratorTyped ==
  /\ vocabulary \in ExerciseWords /\ asked \in 0..MaxCount
  /\ generate_tries \in Nat /\ generate_tries <= MaxTries * asked
  /\ phase \in {"idle", "choosing", "drawing", "returned", "thrown"}
  /\ exercises \in Seq(Item) /\ Len(exercises) <= asked
  /\ phase = "idle" => exercises = <<>> /\ generate_tries = 0
AllDifferent == \A i, j \in 1..Len(exercises) : exercises[i].id = exercises[j].id => i = j
ShortIsLimited == phase = "returned" => Len(exercises) = asked \/ generate_tries = MaxTries * asked
OptionsAreOthers ==
  phase = "drawing" => exercises # <<>> /\ drawn \subseteq {vocabulary[i] : i \in G!Others}
Measured ==
  \A m \in distance_cache : m \in G!Texts \X G!Texts \X Nat /\ IsEditDistance(m[1], m[2], m[3])

GeneratorInv ==
  GeneratorTyped /\ AllDifferent /\ ShortIsLimited /\ OptionsAreOthers /\ Measured

LEMMA GeneratorStarts == G!GeneratorInit => GeneratorInv
  <1> SUFFICES ASSUME G!GeneratorInit PROVE GeneratorInv OBVIOUS
  <1>1. /\ vocabulary \in ExerciseWords /\ asked = 0 /\ generate_tries = 0
        /\ exercises = <<>> /\ drawn = {} /\ phase = "idle" /\ distance_cache = {}
    BY DEF G!GeneratorInit
  <1>2. exercises \in Seq(Item) /\ Len(exercises) = 0 BY <1>1, EmptySeq
  <1>3. 0 \in 0..MaxCount /\ 0 <= MaxTries * 0 BY GeneratorLimits, TriesGrow
  <1>4. GeneratorTyped BY <1>1, <1>2, <1>3 DEF GeneratorTyped
  <1> QED BY <1>1, <1>2, <1>4
    DEF GeneratorInv, AllDifferent, ShortIsLimited, OptionsAreOthers, Measured

LEMMA GeneratorImplies == GeneratorInv => G!GeneratorTypeOK /\ G!ExercisesAreDistinct
  <1> SUFFICES ASSUME GeneratorInv PROVE G!GeneratorTypeOK /\ G!ExercisesAreDistinct OBVIOUS
  <1>0. GeneratorTyped /\ AllDifferent /\ ShortIsLimited /\ OptionsAreOthers /\ Measured
    BY DEF GeneratorInv
  <1>t. /\ asked \in 0..MaxCount /\ generate_tries \in Nat /\ exercises \in Seq(Item)
        /\ Len(exercises) \in Nat /\ DOMAIN exercises = 1..Len(exercises)
        /\ vocabulary \in ExerciseWords BY <1>0, LenProperties DEF GeneratorTyped
  <1>1. G!GeneratorTypeOK
    <2>1. generate_tries \in 0..MaxTries * MaxCount
      <3>1. asked \in Nat /\ MaxCount \in Nat /\ asked <= MaxCount BY <1>t, GeneratorLimits
      <3>2. MaxTries * asked \in Nat /\ MaxTries * asked <= MaxTries * MaxCount
            /\ MaxTries * MaxCount \in Nat BY <3>1, TriesGrow
      <3> DEFINE x == MaxTries * asked
                 y == MaxTries * MaxCount
      <3>3. generate_tries <= x BY <1>0 DEF GeneratorTyped
      <3> HIDE DEF x, y
      <3>4. x \in Nat /\ x <= y /\ y \in Nat BY <3>2 DEF x, y
      <3>5. generate_tries \in 0..y BY <1>t, <3>3, <3>4
      <3> QED BY <3>5 DEF y
    <2>2. Len(exercises) <= MaxCount BY <1>0, <1>t, GeneratorLimits DEF GeneratorTyped
    <2>3. distance_cache \subseteq G!Texts \X G!Texts \X Nat BY <1>0 DEF Measured
    <2> QED BY <1>0, <1>t, <2>1, <2>2, <2>3 DEF G!GeneratorTypeOK, GeneratorTyped
  <1>2. Cardinality(G!Used) = Len(exercises)
    <2> DEFINE n == Len(exercises)
               f == [i \in 1..n |-> exercises[i].id]
    <2>1. IsFiniteSet(1..n) /\ Cardinality(1..n) = n
      <3>1. 1 \in Int /\ n \in Int BY <1>t
      <3> HIDE DEF n
      <3>2. IsFiniteSet(1..n) /\ Cardinality(1..n) = IF 1 > n THEN 0 ELSE n - 1 + 1
        BY <3>1, FS_Interval
      <3> QED BY <1>t, <3>2 DEF n
    <2>2. G!Used = {exercises[i].id : i \in 1..n} BY <1>t DEF G!Used
    <2>3. \A i, j \in 1..n : exercises[i].id = exercises[j].id => i = j BY <1>0 DEF AllDifferent
    <2> HIDE DEF n
    <2>4. f \in Surjection(1..n, G!Used) BY <2>2 DEF Surjection
    <2>5. f \in Injection(1..n, G!Used)
      <3>1. f \in [1..n -> G!Used] BY <2>4 DEF Surjection
      <3>2. \A i, j \in 1..n : f[i] = f[j] => i = j BY <2>3
      <3> HIDE DEF f
      <3> QED BY <3>1, <3>2 DEF Injection, IsInjective
    <2> HIDE DEF f
    <2>6. Cardinality(G!Used) = Cardinality(1..n) BY <2>1, <2>4, <2>5, FS_Surjection
    <2> QED BY <2>1, <2>6 DEF n
  <1>3. ASSUME phase = "drawing"
        PROVE  /\ G!Correct \notin drawn
               /\ G!WantsMore /\ {vocabulary[i] : i \in G!Others} \subseteq drawn =>
                    \E i, j \in G!Others : i # j /\ vocabulary[i] = vocabulary[j]
    <2> DEFINE others == G!Others
               texts == {vocabulary[i] : i \in others}
    <2>1. drawn \subseteq texts BY <1>0, <1>3 DEF OptionsAreOthers
    <2>2. \A i \in others : vocabulary[i] # G!Correct BY DEF G!Others
    <2>3. IsFiniteSet(others)
      <3>1. Len(exercises) \in 1..Len(exercises) BY <1>0, <1>3, <1>t, EmptySeq DEF OptionsAreOthers
      <3>2. G!Last \in Item BY <1>t, <3>1, LenProperties DEF G!Last
      <3>3. others \in SUBSET WordIds BY <3>2 DEF G!Others, Item
      <3>4. IsFiniteSet(WordIds) BY <1>t, VocabularyFacts, FS_Interval DEF WordIds
      <3> QED BY <3>3, <3>4, FS_Subset
    <2>4. ASSUME G!WantsMore, texts \subseteq drawn
          PROVE  \E i, j \in others : i # j /\ vocabulary[i] = vocabulary[j]
      <3> DEFINE f == [i \in others |-> vocabulary[i]]
      <3>1. texts = drawn BY <2>1, <2>4
      <3>2. f \in Surjection(others, drawn)
        <4> HIDE DEF others
        <4> QED BY <3>1 DEF Surjection
      <3>3. IsFiniteSet(drawn)
        <4> HIDE DEF f, others
        <4> QED BY <2>3, <3>2, FS_Surjection
      <3>4. Cardinality(drawn) \in Nat /\ Cardinality(others) \in Nat
        <4> HIDE DEF others
        <4> QED BY <2>3, <3>3, FS_CardinalityType
      <3>5. Cardinality(drawn) < G!Min({OptionCount, Cardinality(others)})
        BY <2>4 DEF G!WantsMore, Cardinality, G!Cardinality
      <3>6. Cardinality(drawn) < Cardinality(others)
        <4> DEFINE c == Cardinality(others)
                   m == G!Min({OptionCount, c})
        <4>1. c \in Nat /\ m <= c BY <3>4, GeneratorLimits, LeastOfTwo
        <4>2. m \in {OptionCount, c}
          <5> HIDE DEF c
          <5> QED BY <4>1, GeneratorLimits, LeastOfThree
        <4>3. m \in Nat
          <5> HIDE DEF c, m
          <5> QED BY <4>1, <4>2, GeneratorLimits
        <4>4. Cardinality(drawn) < m BY <3>5
        <4> HIDE DEF c, m
        <4>5. Cardinality(drawn) < c BY <3>4, <4>1, <4>3, <4>4
        <4> QED BY <4>5 DEF c
      <3>7. f \in [others -> drawn] BY <3>1
      <3> HIDE DEF f, others
      <3>8. \E i, j \in others : i # j /\ f[i] = f[j] BY <2>3, <3>3, <3>6, <3>7, FS_PigeonHole
      <3> QED BY <3>8 DEF f
    <2> HIDE DEF others
    <2>5. G!Correct \notin drawn BY <2>1, <2>2
    <2> QED BY <2>4, <2>5 DEF others
  <1>4. \A m \in distance_cache :
          /\ m[2] \in G!Reached(m[1], m[3])
          /\ m[3] > 0 => m[2] \notin G!Reached(m[1], m[3] - 1) BY <1>0 DEF Measured, IsEditDistance
  <1>5. G!Cardinality(G!Used) = Len(exercises) BY <1>2 DEF Cardinality, G!Cardinality
  <1>6. G!ExercisesAreDistinct BY <1>0, <1>3, <1>4, <1>5 DEF G!ExercisesAreDistinct, ShortIsLimited
  <1> QED BY <1>1, <1>6

(* An exercise of a word that was not asked yet. *)
LEMMA NewExercise ==
  ASSUME GeneratorTyped, AllDifferent, NEW e \in Item, e.id \notin G!Used
  PROVE  LET s == Append(exercises, e) IN
         /\ s \in Seq(Item) /\ Len(s) = Len(exercises) + 1 /\ s # <<>>
         /\ \A i, j \in 1..Len(s) : s[i].id = s[j].id => i = j
  <1> DEFINE s == Append(exercises, e)
             n == Len(exercises)
  <1>1. exercises \in Seq(Item) /\ n \in Nat /\ DOMAIN exercises = 1..n
    BY LenProperties DEF GeneratorTyped
  <1>2. /\ s \in Seq(Item) /\ Len(s) = n + 1 /\ s # <<>> /\ s[n + 1] = e
        /\ \A i \in 1..n : s[i] = exercises[i] BY <1>1, AppendProperties
  <1>3. \A i \in 1..n : exercises[i].id # e.id BY <1>1 DEF G!Used
  <1>4. \A i, j \in 1..n : exercises[i].id = exercises[j].id => i = j BY DEF AllDifferent
  <1> HIDE DEF s, n
  <1>5. ASSUME NEW i \in 1..(n + 1), NEW j \in 1..(n + 1), s[i].id = s[j].id PROVE i = j
    <2>1. (i \in 1..n \/ i = n + 1) /\ (j \in 1..n \/ j = n + 1) BY <1>1
    <2> QED BY <1>2, <1>3, <1>4, <1>5, <2>1
  <1> QED BY <1>2, <1>5 DEF s, n

LEMMA GeneratorKeeps ==
  GeneratorInv /\ [G!GeneratorNext]_(G!generator_vars) => GeneratorInv'
  <1> SUFFICES ASSUME GeneratorInv, [G!GeneratorNext]_(G!generator_vars) PROVE GeneratorInv' OBVIOUS
  <1>0. GeneratorTyped /\ AllDifferent /\ ShortIsLimited /\ OptionsAreOthers /\ Measured
    BY DEF GeneratorInv
  <1>t. /\ vocabulary \in ExerciseWords /\ asked \in 0..MaxCount /\ generate_tries \in Nat
        /\ generate_tries <= MaxTries * asked
        /\ exercises \in Seq(Item) /\ Len(exercises) \in Nat /\ Len(exercises) <= asked
    BY <1>0, LenProperties DEF GeneratorTyped
  <1>m. MaxTries * asked \in Nat
    <2>1. asked \in Nat /\ asked <= asked BY <1>t, GeneratorLimits
    <2> QED BY <2>1, TriesGrow
  <1> DEFINE limit_of_tries == MaxTries * asked
  <1>goes. G!Goes => /\ phase = "choosing" /\ Len(exercises) < asked
                     /\ generate_tries + 1 \in Nat /\ generate_tries + 1 <= MaxTries * asked
    <2>1. limit_of_tries \in Nat BY <1>m
    <2>2. G!Goes => phase = "choosing" /\ Len(exercises) < asked /\ generate_tries < limit_of_tries
      BY DEF G!Goes
    <2> HIDE DEF limit_of_tries
    <2>3. G!Goes => generate_tries + 1 \in Nat /\ generate_tries + 1 <= limit_of_tries
      BY <1>t, <2>1, <2>2
    <2> QED BY <2>2, <2>3 DEF limit_of_tries
  (* What leaves the exercises and the words as they are. *)
  <1>k. ASSUME UNCHANGED <<vocabulary, asked, exercises, distance_cache>>,
               phase' \in {"choosing", "returned"},
               generate_tries' \in Nat, generate_tries' <= MaxTries * asked, ShortIsLimited'
        PROVE  GeneratorInv'
    <2>1. GeneratorTyped' BY <1>0, <1>k DEF GeneratorTyped, Item, WordIds
    <2>2. AllDifferent' /\ OptionsAreOthers' /\ Measured'
      BY <1>0, <1>k DEF AllDifferent, OptionsAreOthers, Measured
    <2> QED BY <1>k, <2>1, <2>2 DEF GeneratorInv
  <1>1. ASSUME G!Return PROVE GeneratorInv'
    <2>1. /\ phase = "choosing" /\ phase' = "returned" /\ ~G!Goes
          /\ UNCHANGED <<vocabulary, asked, generate_tries, exercises, distance_cache>>
      BY <1>1 DEF G!Return
    <2>2. Len(exercises) = asked \/ generate_tries = MaxTries * asked
      <3>1. limit_of_tries \in Nat /\ generate_tries <= limit_of_tries BY <1>m, <1>t
      <3>2. ~(Len(exercises) < asked) \/ ~(generate_tries < limit_of_tries) BY <2>1 DEF G!Goes
      <3> HIDE DEF limit_of_tries
      <3>3. Len(exercises) = asked \/ generate_tries = limit_of_tries BY <1>t, <3>1, <3>2
      <3> QED BY <3>3 DEF limit_of_tries
    <2>3. ShortIsLimited' BY <2>1, <2>2 DEF ShortIsLimited
    <2> QED BY <1>k, <1>t, <2>1, <2>3
  <1>2. ASSUME G!Limited PROVE GeneratorInv'
    <2>1. /\ G!Goes /\ generate_tries' = generate_tries + 1
          /\ UNCHANGED <<vocabulary, asked, exercises, drawn, phase, distance_cache>>
      BY <1>2 DEF G!Limited
    <2>2. phase' = "choosing" /\ generate_tries' \in Nat /\ generate_tries' <= MaxTries * asked
      BY <1>goes, <2>1
    <2>3. ShortIsLimited' BY <2>2 DEF ShortIsLimited
    <2> QED BY <1>k, <2>1, <2>2, <2>3
  <1>3. ASSUME G!NotFound PROVE GeneratorInv'
    <2>1. /\ phase' = "thrown" /\ exercises' = <<>>
          /\ UNCHANGED <<vocabulary, asked, generate_tries, drawn, distance_cache>>
      BY <1>3 DEF G!NotFound
    <2>2. exercises' \in Seq(Item) /\ Len(exercises') = 0 /\ 0 <= asked
      BY <1>t, <2>1, EmptySeq, GeneratorLimits
    <2>3. GeneratorTyped' BY <1>t, <2>1, <2>2 DEF GeneratorTyped, Item, WordIds
    <2>4. AllDifferent' BY <2>2 DEF AllDifferent
    <2>5. ShortIsLimited' /\ OptionsAreOthers' /\ Measured'
      BY <1>0, <2>1 DEF ShortIsLimited, OptionsAreOthers, Measured
    <2> QED BY <2>3, <2>4, <2>5 DEF GeneratorInv
  <1>4. ASSUME G!Drawn PROVE GeneratorInv'
    <2>1. phase' = "choosing" /\ UNCHANGED <<vocabulary, asked, generate_tries, exercises, drawn, distance_cache>>
      BY <1>4 DEF G!Drawn
    <2>2. ShortIsLimited' BY <2>1 DEF ShortIsLimited
    <2> QED BY <1>k, <1>t, <2>1, <2>2
  <1>5. ASSUME NEW n \in 1..MaxCount, G!GenerateMultiple(n) PROVE GeneratorInv'
    <2>1. /\ phase = "idle" /\ asked' = n /\ phase' = "choosing"
          /\ UNCHANGED <<vocabulary, generate_tries, exercises, drawn, distance_cache>>
      BY <1>5 DEF G!GenerateMultiple
    <2>2. exercises = <<>> /\ generate_tries = 0 BY <1>0, <2>1 DEF GeneratorTyped
    <2>3. n \in Nat /\ n \in 0..MaxCount /\ MaxTries * n \in Nat
      <3>1. n \in Nat /\ n <= n BY GeneratorLimits
      <3> QED BY <3>1, GeneratorLimits, TriesGrow
    <2>4. generate_tries' <= MaxTries * n
      <3> DEFINE x == MaxTries * n
      <3>1. x \in Nat BY <2>3
      <3> HIDE DEF x
      <3>2. generate_tries' <= x BY <2>1, <2>2, <3>1
      <3> QED BY <3>2 DEF x
    <2>5. Len(exercises) = 0 /\ Len(exercises) <= n BY <2>2, <2>3, EmptySeq
    <2>6. GeneratorTyped' BY <1>0, <1>t, <2>1, <2>3, <2>4, <2>5 DEF GeneratorTyped, Item, WordIds
    <2>7. AllDifferent' /\ ShortIsLimited' /\ OptionsAreOthers' /\ Measured'
      BY <1>0, <2>1 DEF AllDifferent, ShortIsLimited, OptionsAreOthers, Measured
    <2> QED BY <2>6, <2>7 DEF GeneratorInv
  <1>6. ASSUME NEW id \in G!Ids, G!Draw(id) PROVE GeneratorInv'
    <2>1. /\ phase = "drawing" /\ id \in G!Others /\ drawn' = drawn \cup {vocabulary[id]}
          /\ UNCHANGED <<vocabulary, asked, generate_tries, exercises, phase, distance_cache>>
      BY <1>6 DEF G!Draw
    <2>2. GeneratorTyped' /\ AllDifferent' /\ ShortIsLimited' /\ Measured'
      BY <1>0, <2>1 DEF GeneratorTyped, Item, WordIds, AllDifferent, ShortIsLimited, Measured
    <2>3. G!Others' = G!Others BY <2>1 DEF G!Others, G!Last, G!Correct
    <2>4. OptionsAreOthers'
      <3>1. drawn \subseteq {vocabulary[i] : i \in G!Others} /\ exercises # <<>>
        BY <1>0, <2>1 DEF OptionsAreOthers
      <3>2. vocabulary[id] \in {vocabulary[i] : i \in G!Others} BY <2>1
      <3>3. drawn' \subseteq {vocabulary[i] : i \in G!Others} BY <2>1, <3>1, <3>2
      <3>4. {vocabulary[i] : i \in G!Others}' = {vocabulary[i] : i \in G!Others} BY <2>1, <2>3
      <3> QED BY <2>1, <3>1, <3>3, <3>4 DEF OptionsAreOthers
    <2> QED BY <2>2, <2>4 DEF GeneratorInv
  <1>7. ASSUME NEW id \in G!Ids, NEW t \in {"multiple-choice", "fill-blank"}, G!Choose(id, t)
        PROVE  GeneratorInv'
    <2> DEFINE e == [id |-> id, type |-> t, vocab |-> G!Candidates]
    <2>1. /\ G!Goes /\ id \in G!Candidates /\ generate_tries' = generate_tries + 1
          /\ exercises' = Append(exercises, e) /\ drawn' = {}
          /\ phase' = (IF t = "fill-blank" THEN "choosing" ELSE "drawing")
          /\ UNCHANGED <<vocabulary, asked, distance_cache>> BY <1>7 DEF G!Choose
    <2>2. e \in Item
      <3>1. id \in WordIds BY DEF WordIds, G!Ids
      <3>2. G!Candidates \in SUBSET WordIds BY DEF WordIds, G!Ids, G!Candidates
      <3> QED BY <3>1, <3>2 DEF Item
    <2>3. e.id \notin G!Used BY <2>1 DEF G!Candidates
    <2> HIDE DEF e
    <2>4. /\ exercises' \in Seq(Item) /\ Len(exercises') = Len(exercises) + 1 /\ exercises' # <<>>
          /\ \A i, j \in 1..Len(exercises') : exercises'[i].id = exercises'[j].id => i = j
      BY <1>0, <2>1, <2>2, <2>3, NewExercise
    <2>5. phase' \in {"choosing", "drawing"} BY <2>1
    <2>6. Len(exercises') <= asked BY <1>goes, <1>t, <2>1, <2>4, GeneratorLimits
    <2>7. GeneratorTyped' BY <1>goes, <1>t, <2>1, <2>4, <2>5, <2>6 DEF GeneratorTyped, Item, WordIds
    <2>8. AllDifferent' /\ ShortIsLimited' /\ OptionsAreOthers' /\ Measured'
      BY <1>0, <2>1, <2>4, <2>5 DEF AllDifferent, ShortIsLimited, OptionsAreOthers, Measured
    <2> QED BY <2>7, <2>8 DEF GeneratorInv
  <1>8. ASSUME NEW a \in G!Texts, NEW b \in G!Texts, G!Measure(a, b) PROVE GeneratorInv'
    <2> DEFINE m == <<a, b, G!Distance(a, b)>>
    <2>1. /\ a # <<>> /\ b # <<>> /\ distance_cache' = distance_cache \cup {m}
          /\ UNCHANGED <<vocabulary, asked, generate_tries, exercises, drawn, phase>>
      BY <1>8 DEF G!Measure
    <2>2. IsEditDistance(a, b, G!Distance(a, b)) BY <2>1, MeasuredWords
    <2>3. m \in G!Texts \X G!Texts \X Nat /\ m[1] = a /\ m[2] = b /\ m[3] = G!Distance(a, b)
      BY <2>2 DEF IsEditDistance
    <2> HIDE DEF m
    <2>4. Measured' BY <1>0, <2>1, <2>2, <2>3 DEF Measured
    <2>5. GeneratorTyped' /\ AllDifferent' /\ ShortIsLimited'
      BY <1>0, <2>1 DEF GeneratorTyped, Item, WordIds, AllDifferent, ShortIsLimited
    <2>6. OptionsAreOthers' BY <1>0, <2>1 DEF OptionsAreOthers, G!Others, G!Last, G!Correct
    <2> QED BY <2>4, <2>5, <2>6 DEF GeneratorInv
  <1>9. ASSUME UNCHANGED G!generator_vars PROVE GeneratorInv'
    BY <1>0, <1>9 DEF G!generator_vars, GeneratorInv, GeneratorTyped, Item, WordIds, AllDifferent,
       ShortIsLimited, OptionsAreOthers, G!Others, G!Last, G!Correct, Measured
  <1> QED BY <1>1, <1>2, <1>3, <1>4, <1>5, <1>6, <1>7, <1>8, <1>9 DEF G!GeneratorNext

-----------------------------------------------------------------------------
(***************************************************************************)
(* exercise_card.js: the time limit, the attempts and the inputs of a card *)
(* end together.                                                           *)
(***************************************************************************)
LEMMA CardLimits == CardAttempts \in Nat /\ CardAttempts >= 1 BY LimitsAssumption

CardInv == G!CardTypeOK /\ G!AnswersAreBounded

LEMMA CardStarts == G!CardInit => CardInv
  <1> SUFFICES ASSUME G!CardInit PROVE CardInv OBVIOUS
  <1>1. /\ exercise = "none" /\ renderer = "none" /\ cardState = "none"
        /\ attempts = 0 /\ timer = FALSE /\ advances = 0 BY DEF G!CardInit
  <1>2. timer \in BOOLEAN BY <1>1
  <1>3. attempts \in 0..CardAttempts + 1 /\ advances \in 0..G!MaxTimeouts
    BY <1>1, CardLimits DEF G!MaxTimeouts
  <1>4. G!CardTypeOK BY <1>1, <1>2, <1>3 DEF G!CardTypeOK
  <1>5. G!AnswersAreBounded BY <1>1 DEF G!AnswersAreBounded
  <1> QED BY <1>4, <1>5 DEF CardInv

LEMMA CardKeeps == CardInv /\ [G!CardNext]_(G!card_vars) => CardInv'
  <1> SUFFICES ASSUME CardInv, [G!CardNext]_(G!card_vars) PROVE CardInv' OBVIOUS
  <1> DEFINE States == {"none", "ready", "correct", "wrong", "timeout", "skipped"}
  <1>0. /\ exercise \in G!Types \cup {"none"} /\ renderer \in G!Rendered \cup {"none"}
        /\ renderer \in {exercise, "none"} /\ cardState \in States
        /\ attempts \in 0..CardAttempts + 1 /\ timer \in BOOLEAN /\ advances \in 0..2
    BY DEF CardInv, G!CardTypeOK, G!MaxTimeouts
  <1>b. /\ timer => cardState = "ready" \/ (cardState = "skipped" /\ renderer = "translation")
        /\ cardState = "ready" => attempts < CardAttempts
        /\ renderer \in {"choice", "blank"} /\ cardState \in {"correct", "wrong"} => disabled
    BY DEF CardInv, G!AnswersAreBounded
  <1> DEFINE Typed == /\ exercise' \in G!Types \cup {"none"} /\ renderer' \in G!Rendered \cup {"none"}
                      /\ renderer' \in {exercise', "none"} /\ cardState' \in States
                      /\ attempts' \in 0..CardAttempts + 1 /\ timer' \in BOOLEAN /\ advances' \in 0..2
             Bounded ==
               /\ timer' => cardState' = "ready" \/ (cardState' = "skipped" /\ renderer' = "translation")
               /\ cardState' = "ready" => attempts' < CardAttempts
               /\ renderer' \in {"choice", "blank"} /\ cardState' \in {"correct", "wrong"} => disabled'
  <1>g. Typed /\ Bounded => CardInv'
    BY DEF CardInv, G!CardTypeOK, G!AnswersAreBounded, G!MaxTimeouts
  <1>1. ASSUME NEW t \in G!Types, NEW limited \in BOOLEAN, G!Render(t, limited) PROVE CardInv'
    <2>1. CASE G!Destroyable
      <3>1. /\ exercise' = t /\ cardState' = "ready" /\ attempts' = 0 /\ timer' = limited
            /\ renderer' = (IF t \in G!Rendered THEN t ELSE "none") /\ advances' = advances
        BY <1>1, <2>1 DEF G!Render
      <3>2. attempts' \in 0..CardAttempts + 1 /\ attempts' < CardAttempts BY <3>1, CardLimits
      <3>3. timer' \in BOOLEAN BY <3>1
      <3> QED BY <1>0, <1>g, <3>1, <3>2, <3>3
    <2>2. CASE ~G!Destroyable
      <3>1. timer' = FALSE /\ UNCHANGED <<exercise, renderer, cardState, attempts, advances>>
            /\ renderer = "translation" BY <1>1, <2>2 DEF G!Render, G!Destroyable
      <3>2. timer' \in BOOLEAN BY <3>1
      <3> QED BY <1>0, <1>b, <1>g, <3>1, <3>2
    <2> QED BY <2>1, <2>2
  <1>2. ASSUME G!Destroy PROVE CardInv'
    <2>1. timer' = FALSE /\ disabled' = FALSE /\ advances' = advances BY <1>2 DEF G!Destroy
    <2>2. timer' \in BOOLEAN BY <2>1
    <2>3. \/ /\ exercise' = "none" /\ renderer' = "none" /\ cardState' = "none" /\ attempts' = 0
          \/ /\ UNCHANGED <<exercise, renderer, cardState, attempts>> /\ renderer = "translation"
      BY <1>2 DEF G!Destroy, G!Destroyable
    <2>4. Typed
      <3>1. attempts' \in 0..CardAttempts + 1 BY <1>0, <2>3, CardLimits
      <3> QED BY <1>0, <2>1, <2>2, <2>3, <3>1
    <2>5. Bounded BY <1>b, <2>1, <2>3
    <2> QED BY <1>g, <2>4, <2>5
  <1>3. ASSUME NEW correct \in BOOLEAN, G!Update(correct) PROVE CardInv'
    <2> DEFINE s == IF correct THEN "correct"
                    ELSE IF G!TooOften(attempts + 1) THEN "wrong" ELSE "ready"
    <2>1. /\ attempts <= CardAttempts /\ advances < 2 /\ attempts' = attempts + 1
          /\ cardState' = s /\ timer' = (timer /\ s = "ready")
          /\ advances' = advances + (IF correct THEN 1 ELSE 0)
          /\ disabled' = (IF renderer \in {"choice", "blank"} THEN s \in {"correct", "wrong"} ELSE disabled)
          /\ UNCHANGED <<exercise, renderer>> BY <1>3 DEF G!Update, G!UpdateState, G!MaxTimeouts
    <2>2. s \in {"correct", "wrong", "ready"} /\ (s = "ready" => ~(attempts + 1 >= CardAttempts))
      BY DEF G!TooOften
    <2> HIDE DEF s
    <2>3. attempts' \in 0..CardAttempts + 1 /\ advances' \in 0..2 BY <1>0, <2>1, CardLimits
    <2>4. timer' \in BOOLEAN BY <2>1
    <2>5. s = "ready" => attempts' < CardAttempts BY <1>0, <2>1, <2>2, CardLimits
    <2>6. Typed BY <1>0, <2>1, <2>2, <2>3, <2>4
    <2>7. Bounded BY <2>1, <2>2, <2>5
    <2> QED BY <1>g, <2>6, <2>7
  <1>4. ASSUME G!Skip PROVE CardInv'
    <2>1. /\ cardState' = "skipped" /\ timer' = (timer /\ renderer = "translation")
          /\ UNCHANGED <<exercise, renderer, attempts, advances>> BY <1>4 DEF G!Skip
    <2>2. timer' \in BOOLEAN BY <2>1
    <2> QED BY <1>0, <1>g, <2>1, <2>2
  <1>5. ASSUME G!HandleTimeout PROVE CardInv'
    <2>1. /\ timer /\ timer' = FALSE /\ UNCHANGED <<exercise, renderer, attempts, advances>>
          /\ IF cardState = "ready" THEN cardState' = "timeout" ELSE UNCHANGED <<cardState, disabled>>
      BY <1>5 DEF G!HandleTimeout
    <2>2. timer' \in BOOLEAN BY <2>1
    <2> QED BY <1>0, <1>b, <1>g, <2>1, <2>2
  <1>6. ASSUME G!Advance PROVE CardInv'
    <2>1. /\ advances > 0 /\ advances' = advances - 1
          /\ UNCHANGED <<exercise, renderer, cardState, attempts, timer, disabled>>
      BY <1>6 DEF G!Advance
    <2>2. advances' \in 0..2 BY <1>0, <2>1
    <2> QED BY <1>0, <1>b, <1>g, <2>1, <2>2
  <1>7. ASSUME G!ShowHint PROVE CardInv'
    <2>1. /\ disabled' = (IF renderer \in {"choice", "blank"} THEN cardState \in {"correct", "wrong"} ELSE disabled)
          /\ UNCHANGED <<exercise, renderer, cardState, attempts, timer, advances>>
      BY <1>7 DEF G!ShowHint, G!UpdateState
    <2> QED BY <1>0, <1>b, <1>g, <2>1
  <1>8. ASSUME UNCHANGED <<exercise, renderer, cardState, attempts, timer, disabled, advances>>
        PROVE  CardInv' BY <1>0, <1>b, <1>g, <1>8
  <1>9. ASSUME G!ClickOption \/ G!SubmitText \/ G!Flip \/ G!UpdateFails \/ UNCHANGED G!card_vars
        PROVE  CardInv'
    BY <1>8, <1>9 DEF G!ClickOption, G!SubmitText, G!Flip, G!Answered, G!UpdateFails, G!card_vars
  <1> QED BY <1>1, <1>2, <1>3, <1>4, <1>5, <1>6, <1>7, <1>9 DEF G!CardNext

-----------------------------------------------------------------------------
(***************************************************************************)
(* The pages together: a step is one of one machine, and leaves the others *)
(* where they were.                                                        *)
(***************************************************************************)
IInv == /\ LoginInv /\ RegisterInv /\ AuthInv
        /\ InputInv /\ ButtonInv /\ BarInv
        /\ AudioInv /\ GeneratorInv /\ CardInv /\ ReviewInv

LEMMA Starts == Init => IInv
  <1> SUFFICES ASSUME Init PROVE IInv OBVIOUS
  <1>1. /\ L!LoginInit /\ L!RegisterInit /\ A!Init /\ F!InputInit /\ F!ButtonInit
        /\ F!BarInit /\ U!Init /\ G!GeneratorInit /\ G!CardInit /\ V!Init BY DEF Init
  <1> QED BY <1>1, LoginStarts, RegisterStarts, AuthStarts, InputStarts, ButtonStarts, BarStarts,
       AudioStarts, GeneratorStarts, CardStarts, ReviewStarts DEF IInv

(* A step of the pages is one of each machine, or leaves it alone.         *)
LEMMA Steps ==
  [Next]_vars => /\ [L!LoginNext]_(L!login_vars) /\ [L!RegisterNext]_(L!register_vars)
                 /\ [A!Next]_(A!vars) /\ [F!InputNext]_(F!input_vars)
                 /\ [F!ButtonNext]_(F!button_vars) /\ [F!BarNext]_(F!bar_vars)
                 /\ [U!Next]_(U!vars) /\ [G!GeneratorNext]_(G!generator_vars)
                 /\ [G!CardNext]_(G!card_vars) /\ [V!Next]_(V!vars)
  BY DEF Next, vars, LoginStep, RegisterStep, AuthStep, InputStep, ButtonStep, BarStep,
     AudioStep, ExercisesStep, CardStep, ReviewStep, L!login_vars, L!register_vars, A!vars,
     F!input_vars, F!button_vars, F!bar_vars, U!vars, G!generator_vars, G!card_vars, V!vars

LEMMA Keep == IInv /\ [Next]_vars => IInv'
  <1> SUFFICES ASSUME IInv, [Next]_vars PROVE IInv' OBVIOUS
  <1>1. LoginInv' /\ RegisterInv' /\ AuthInv'
    BY Steps, LoginKeeps, RegisterKeeps, AuthKeeps DEF IInv
  <1>2. InputInv' /\ ButtonInv' /\ BarInv' BY Steps, InputKeeps, ButtonKeeps, BarKeeps DEF IInv
  <1>3. AudioInv' /\ GeneratorInv' BY Steps, AudioKeeps, GeneratorKeeps DEF IInv
  <1>4. CardInv' /\ ReviewInv' BY Steps, CardKeeps, ReviewKeeps DEF IInv
  <1> QED BY <1>1, <1>2, <1>3, <1>4 DEF IInv

LEMMA Always == Spec => []IInv BY Starts, Keep, PTL DEF Spec

(* Every behaviour of the pages together is one of each machine, with the  *)
(* fairness the login page and the authentication service have.            *)
THEOREM EachIsItself ==
  Spec => /\ L!LoginSpec /\ L!RegisterSpec /\ A!Spec
          /\ F!InputSpec /\ F!ButtonSpec /\ F!BarSpec
          /\ U!Spec /\ G!GeneratorSpec /\ G!CardSpec /\ V!Spec
  <1>1. Init => /\ L!LoginInit /\ L!RegisterInit /\ A!Init /\ F!InputInit /\ F!ButtonInit
                /\ F!BarInit /\ U!Init /\ G!GeneratorInit /\ G!CardInit /\ V!Init BY DEF Init
  <1> QED BY <1>1, Steps, PTL DEF Spec, L!LoginSpec, L!RegisterSpec, A!Spec, F!InputSpec,
       F!ButtonSpec, F!BarSpec, U!Spec, G!GeneratorSpec, G!CardSpec, V!Spec

(* The variables of every page have values of their kinds.                 *)
THEOREM ValuesAreTyped == Spec => []TypeOK
  <1>1. IInv => TypeOK
    <2> SUFFICES ASSUME IInv PROVE TypeOK OBVIOUS
    <2>1. L!TypeOK /\ A!TypeOK BY AuthImplies DEF IInv, LoginInv, RegisterInv, L!TypeOK
    <2>2. F!TypeOK BY InputImplies, ButtonImplies DEF IInv, BarInv, F!TypeOK
    <2>3. U!TypeOK /\ G!TypeOK /\ V!TypeOK
      BY AudioImplies, GeneratorImplies, ReviewImplies DEF IInv, CardInv, G!TypeOK
    <2> QED BY <2>1, <2>2, <2>3 DEF TypeOK
  <1> QED BY <1>1, Always, PTL

(* login_screen.js: whatever is typed, resent, redrawn or restored while a *)
(* login is in flight, the page shows it as loading, so that one press     *)
(* makes one call; register_screen.js: whatever drafts are saved, resumed  *)
(* or limited, a page creates one account.                                 *)
THEOREM PagesEnterOnce == Spec => []EntersOnce
  <1>1. IInv => EntersOnce BY RegisterImplies DEF IInv, LoginInv, EntersOnce
  <1> QED BY <1>1, Always, PTL

(* form_input.js, choice_button.js, progress_bar.js: for any values and    *)
(* however validations, debounces and aborts overlap, an accepted value is *)
(* one every validator passes; the look of a button ends with its cause;   *)
(* the lock of a bar is held only while its listeners run.                 *)
THEOREM ControlsAreTrue == Spec => []ControlsSettle
  <1>1. IInv => ControlsSettle BY InputImplies, ButtonImplies DEF IInv, BarInv, ControlsSettle
  <1> QED BY <1>1, Always, PTL

(* audio-service.js: for any players and files, one call at a time serves  *)
(* the queue, which stays sorted by urgency, and no request waits with     *)
(* nobody to take it.                                                      *)
THEOREM QueueServed == Spec => []QueueIsServed
  <1>1. IInv => QueueIsServed BY AudioImplies DEF IInv, QueueIsServed
  <1> QED BY <1>1, Always, PTL

(* exercise_service.js: for any words and limits no word is asked twice, a *)
(* call that comes short was limited, a drawing that ends in no option has *)
(* a word that occurs twice, and a cached distance is the least number of  *)
(* edits; exercise_card.js: a time limit runs only for what waits for its  *)
(* answer; review_screen.js: no card is passed over.                       *)
THEOREM ExercisesBounded == Spec => []ExercisesAreBounded
  <1>1. IInv => ExercisesAreBounded
    BY GeneratorImplies, ReviewImplies DEF IInv, CardInv, ExercisesAreBounded
  <1> QED BY <1>1, Always, PTL
=============================================================================
