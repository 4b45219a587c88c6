--------------------------- MODULE AccountScreens ---------------------------
(***************************************************************************)
(* The screens on which a user logs in and registers. The two machines     *)
(* share no state: each screen is a page of its own.                       *)
(***************************************************************************)
EXTENDS Naturals, FiniteSets

-----------------------------------------------------------------------------
(***************************************************************************)
(* ui/screens/login_screen.js: the form of the login screen.  What the     *)
(* handlers decide is in st (this._state); what the user can press is in   *)
(* shown, the markup of the last _render, which not every change of st     *)
(* refreshes.  The calls to the authentication, one-time-code and session  *)
(* services are answered later.  A captcha question is abstracted to       *)
(* whether the typed answer is the expected one; the contents of the       *)
(* password and code fields to whether they pass validation, an arbitrary  *)
(* choice; error texts, animations and metrics are left out.               *)
(***************************************************************************)

CONSTANTS Emails,       \* the well-formed addresses a user may type
          Protected,    \* those with two-step verification
          Accounts,     \* those saved for quick login when the page loads
          None,         \* no address, no call
          LoginMaxAttempts   \* bound: submissions

VARIABLES st,         \* this._state
          shown,      \* what the markup of the last _render offers
          typed,      \* an address in the input, its debounce still running
          checking,   \* the delayed check of the captcha answer is due
          call,       \* the login in flight
          otp_call,   \* the address a code was requested for, not answered yet
          stored,     \* localStorage: the remembered address
          session,    \* the user whose session is open: the page is left
          attempts

login_vars == <<st, shown, typed, checking, call, otp_call, stored, session, attempts>>

Tabs == {"password", "otp"}

(* The markup generated from a state. *)
Markup(s) == [tab |-> s.tab, loading |-> s.loading, online |-> s.online,
              asks |-> IF s.passed THEN "nothing" ELSE "current",
              two_factor |-> s.two_factor, otp_open |-> s.timer]

Render(s) == st' = s /\ shown' = Markup(s)

(* A new question: whatever is in the answer field may or may not fit it. *)
NewCaptcha(s, fits) == [s EXCEPT !.passed = FALSE, !.fits = fits]
(* The same without a render: a question on the page is now an old one. *)
Outdated(m) == IF m.asks = "nothing" THEN m ELSE [m EXCEPT !.asks = "old"]

LoginInit ==
  /\ \E e \in Emails \cup {None} :
       /\ stored = e
       /\ st = [email |-> e, tab |-> "password", loading |-> FALSE, online |-> TRUE,
                remember |-> (e # None), passed |-> FALSE, fits |-> FALSE,
                two_factor |-> FALSE, timer |-> FALSE]
  /\ shown = Markup(st)
  /\ typed = None /\ checking = FALSE
  /\ call = None /\ otp_call = None /\ session = None /\ attempts = 0

Here == session = None

-----------------------------------------------------------------------------
(* The user and the page that owns the screen. *)

TypeEmail(e) ==
  /\ Here /\ ~shown.loading
  /\ typed' = e
  /\ UNCHANGED <<st, shown, checking, call, otp_call, stored, session, attempts>>

(* The debounced handler: the input may belong to a markup replaced since. *)
EmailTyped ==
  /\ Here /\ typed # None
  /\ st' = [st EXCEPT !.email = typed]
  /\ typed' = None /\ checking' = FALSE
  /\ UNCHANGED <<shown, call, otp_call, stored, session, attempts>>

TypeCaptcha(fits) ==
  /\ Here /\ ~shown.loading /\ shown.asks # "nothing"
  /\ st' = [st EXCEPT !.fits = fits]
  /\ checking' = TRUE
  /\ UNCHANGED <<shown, typed, call, otp_call, stored, session, attempts>>

(* The other fields change nothing modelled but the pending check. *)
TypeOther ==
  /\ Here /\ ~shown.loading
  /\ checking' = FALSE
  /\ UNCHANGED <<st, shown, typed, call, otp_call, stored, session, attempts>>

CaptchaChecked ==
  /\ Here /\ checking
  /\ checking' = FALSE
  /\ st' = [st EXCEPT !.passed = @ \/ st.fits]
  /\ UNCHANGED <<shown, typed, call, otp_call, stored, session, attempts>>

ToggleRemember ==
  /\ Here /\ ~shown.loading /\ shown.tab = "password"
  /\ st' = [st EXCEPT !.remember = ~@]
  /\ UNCHANGED <<shown, typed, checking, call, otp_call, stored, session, attempts>>

(* Buttons that stay enabled while a login is in flight. *)
(* Mutant: redrawing the form also ends its loading state. *)
M_Redraw(s) ==
  /\ Here
  /\ Render([s EXCEPT !.loading = FALSE])
  /\ UNCHANGED <<typed, checking, call, otp_call, stored, session, attempts>>

Redraw(s) ==
  /\ Here
  /\ Render(s)
  /\ UNCHANGED <<typed, checking, call, otp_call, stored, session, attempts>>

TogglePassword == shown.tab = "password" /\ Redraw(st)
RefreshCaptcha(fits) == shown.asks # "nothing" /\ Redraw(NewCaptcha(st, fits))
SelectTab(t) == Redraw([st EXCEPT !.tab = t])
SelectAccount(e) ==
  Redraw([st EXCEPT !.email = e, !.two_factor = e \in Protected])
SetEmail(e) == Redraw([st EXCEPT !.email = e])
ResetForm ==
  Redraw(NewCaptcha([st EXCEPT !.email = None, !.two_factor = FALSE], FALSE))

NetworkChange ==
  /\ Here
  /\ st' = [st EXCEPT !.online = ~@]
  /\ UNCHANGED <<shown, typed, checking, call, otp_call, stored, session, attempts>>

-----------------------------------------------------------------------------
(* One-time codes. *)

RequestOtp ==
  /\ Here /\ shown.tab = "otp" /\ ~shown.loading /\ shown.online
  /\ otp_call = None
  /\ st.email # None
  /\ otp_call' = st.email
  /\ UNCHANGED <<st, shown, typed, checking, call, stored, session, attempts>>

(* The code is on its way: the countdown starts, the field is not redrawn. *)
OtpAnswered(sent) ==
  /\ Here /\ otp_call # None
  /\ otp_call' = None
  /\ st' = [st EXCEPT !.timer = @ \/ sent]
  /\ UNCHANGED <<shown, typed, checking, call, stored, session, attempts>>

OtpExpires ==
  /\ Here /\ st.timer
  /\ st' = [st EXCEPT !.timer = FALSE]
  /\ UNCHANGED <<shown, typed, checking, call, otp_call, stored, session, attempts>>

-----------------------------------------------------------------------------
(* Submission. *)

Valid(fields) ==
  /\ st.email # None /\ fields
  /\ st.passed \/ st.fits
  /\ st.tab = "otp" => st.timer

SubmitEnabled == ~shown.loading /\ shown.online

Submit(fields) ==
  /\ Here /\ SubmitEnabled
  /\ attempts < LoginMaxAttempts
  /\ attempts' = attempts + 1
  /\ \/ /\ ~Valid(fields)
        /\ UNCHANGED <<st, shown, call>>
     \/ /\ Valid(fields) /\ ~st.online
        /\ Render(st)
        /\ UNCHANGED call
     \/ /\ Valid(fields) /\ st.online
        /\ Render([st EXCEPT !.loading = TRUE])
        /\ call' = [email |-> st.email, at |-> "service",
                    second |-> st.two_factor /\ st.tab = "password"]
  /\ UNCHANGED <<typed, checking, otp_call, stored, session>>

(* The form is redrawn first, then given a question that is not drawn. *)
GiveBack ==
  LET s == [st EXCEPT !.loading = FALSE] IN
  /\ \E fits \in BOOLEAN : st' = NewCaptcha(s, fits)
  /\ shown' = Outdated(Markup(s))
  /\ call' = None

LoginRefused ==
  /\ Here /\ call # None
  /\ GiveBack
  /\ UNCHANGED <<typed, checking, otp_call, stored, session, attempts>>

(* The service wants the second factor and the form does not ask for it. *)
SecondFactorWanted ==
  /\ Here /\ call # None /\ call.at = "service"
  /\ call.email \in Protected /\ ~call.second /\ ~st.two_factor
  /\ Render([st EXCEPT !.loading = FALSE, !.two_factor = TRUE])
  /\ call' = None
  /\ UNCHANGED <<typed, checking, otp_call, stored, session, attempts>>

(* save_remembered_email stores what the form holds now. *)
LoginAccepted ==
  /\ Here /\ call # None /\ call.at = "service"
  /\ call' = [call EXCEPT !.at = "session"]
  /\ stored' = IF st.remember THEN st.email ELSE stored
  /\ UNCHANGED <<st, shown, typed, checking, otp_call, session, attempts>>

SessionOpened ==
  /\ Here /\ call # None /\ call.at = "session"
  /\ session' = call.email
  /\ call' = None
  /\ UNCHANGED <<st, shown, typed, checking, otp_call, stored, attempts>>

Answered == LoginRefused \/ SecondFactorWanted \/ LoginAccepted \/ SessionOpened

LoginNext ==
  \/ \E e \in Emails : TypeEmail(e) \/ SetEmail(e)
  \/ EmailTyped
  \/ \E b \in BOOLEAN : TypeCaptcha(b) \/ RefreshCaptcha(b) \/ OtpAnswered(b) \/ Submit(b)
  \/ TypeOther \/ CaptchaChecked \/ ToggleRemember \/ TogglePassword
  \/ \E t \in Tabs : SelectTab(t)
  \/ \E e \in Accounts : SelectAccount(e)
  \/ ResetForm \/ NetworkChange
  \/ RequestOtp \/ OtpExpires
  \/ Answered

(* The services answer: with an outcome or, at the latest, an error. *)
LoginFairness == WF_login_vars(Answered)

LoginSpec == LoginInit /\ [][LoginNext]_login_vars /\ LoginFairness

-----------------------------------------------------------------------------
LoginTypeOK ==
  /\ st \in [email : Emails \cup {None}, tab : Tabs, loading : BOOLEAN,
             online : BOOLEAN, remember : BOOLEAN, passed : BOOLEAN,
             fits : BOOLEAN, two_factor : BOOLEAN, timer : BOOLEAN]
  /\ shown \in [tab : Tabs, loading : BOOLEAN, online : BOOLEAN,
                asks : {"nothing", "current", "old"},
                two_factor : BOOLEAN, otp_open : BOOLEAN]
  /\ {typed, otp_call, stored, session} \subseteq Emails \cup {None}
  /\ checking \in BOOLEAN /\ attempts \in 0..LoginMaxAttempts
  /\ call = None \/ call \in [email : Emails, at : {"service", "session"},
                              second : BOOLEAN]

(* While a login is in flight the form on the page cannot be submitted     *)
(* again, whatever is redrawn in the meantime: one press, one login call.  *)
InFlightIsShown == call # None => st.loading /\ shown.loading

(* A form that shows a login in progress is given back or left for good.   *)
LoginSettles == shown.loading ~> (~shown.loading \/ session # None)

-----------------------------------------------------------------------------
(***************************************************************************)
(* ui/screens/register_screen.js and AuthService.register behind it: the   *)
(* form, the limit of five attempts per minute, the drafts written on      *)
(* every keystroke, and the one registration promise the service keeps for *)
(* the life of the page.  The field contents are abstracted to whether     *)
(* they are valid; two-factor setup, tracking and error texts are left     *)
(* out.  The repository and the network are external.                      *)
(***************************************************************************)

CONSTANTS MaxDrafts,    \* bound: draft ids
          RegisterMaxAttempts,  \* max_attempts in check_rate_limit
          MaxMinutes    \* bound: minutes that pass

VARIABLES form,       \* [valid, captcha, loading]: what the screen decides with
          button,     \* the submit button on the page can be pressed
          limit,      \* [count, old]: registration_attempts, last_attempt_time
          online,
          drafts,     \* rows of register_drafts
          draft_id,   \* #draft_id, 0 for none
          saving,     \* a draft waits for the database
          at,         \* where handle_register waits
          pending,    \* AuthService._pending_register
          accounts,   \* users created
          page,       \* "form", "home" or "disposed"
          minutes     \* minutes passed

register_vars == <<form, button, limit, online, drafts, draft_id, saving, at, pending,
          accounts, page, minutes>>

Enabled(f, on) == ~f.loading /\ on /\ f.captcha

RegisterInit ==
  /\ form = [valid |-> FALSE, captcha |-> FALSE, loading |-> FALSE]
  /\ button = FALSE
  /\ limit = [count |-> 0, old |-> TRUE]
  /\ online = TRUE
  /\ drafts = {} /\ draft_id = 0 /\ saving = FALSE
  /\ at = "idle" /\ pending = "none" /\ accounts = 0
  /\ page = "form" /\ minutes = 0

-----------------------------------------------------------------------------
(* Typing: the fields stay editable while a registration is in flight. *)
Type(valid) ==
  /\ page = "form"
  /\ form' = [form EXCEPT !.valid = valid]
  /\ saving' = TRUE
  /\ UNCHANGED <<button, limit, online, drafts, draft_id, at, pending, accounts,
                 page, minutes>>

(* The id is chosen after the await; load_draft never finds such an id. *)
DraftSaved ==
  /\ saving
  /\ LET id == IF draft_id # 0 THEN draft_id ELSE Cardinality(drafts) + 1 IN
     /\ id <= MaxDrafts
     /\ drafts' = drafts \cup {id}
     /\ draft_id' = id
  /\ saving' = FALSE
  /\ UNCHANGED <<form, button, limit, online, at, pending, accounts, page, minutes>>

(* The widget's answer redraws the form, with a new widget. *)
CaptchaValidated(ok) ==
  /\ page = "form"
  /\ form' = [form EXCEPT !.captcha = ok]
  /\ button' = Enabled(form', online)
  /\ UNCHANGED <<limit, online, drafts, draft_id, saving, at, pending, accounts,
                 page, minutes>>

(* Going offline redraws the form, even that of a screen that is gone. *)
Network ==
  /\ online' = ~online
  /\ page' = IF online' THEN page ELSE "form"
  /\ button' = (page' = "form" /\ Enabled(form, online'))
  /\ UNCHANGED <<form, limit, drafts, draft_id, saving, at, pending, accounts, minutes>>

MinutePasses ==
  /\ minutes < MaxMinutes
  /\ minutes' = minutes + 1
  /\ limit' = [limit EXCEPT !.old = TRUE]
  /\ UNCHANGED <<form, button, online, drafts, draft_id, saving, at, pending,
                 accounts, page>>

-----------------------------------------------------------------------------
(* handle_register, from the button or from Enter anywhere in the document:*)
(* the keypress listener outlives the screen.                              *)
Pressed == page = "form" /\ button
EnterKey == ~form.loading /\ form.captcha

Counted == IF limit.old THEN 0 ELSE limit.count

(* A refusal for being offline or too fast is drawn, one for the fields is *)
(* only marked on them.                                                    *)
Refused ==
  \/ /\ ~online \/ Counted >= RegisterMaxAttempts
     /\ page' = "form" /\ button' = Enabled(form, online)
     /\ limit' = IF online THEN [limit EXCEPT !.count = Counted] ELSE limit
  \/ /\ online /\ Counted < RegisterMaxAttempts /\ ~(form.valid /\ form.captcha)
     /\ limit' = [limit EXCEPT !.count = Counted]
     /\ UNCHANGED <<page, button>>

(* Mutant: the attempts are counted, not limited. *)
M_SentUnlimited ==
  /\ online /\ form.valid /\ form.captcha
  /\ form' = [form EXCEPT !.loading = TRUE]
  /\ button' = FALSE
  /\ limit' = [count |-> Counted + 1, old |-> FALSE]
  /\ at' = "register"
  /\ pending' = IF pending = "none" THEN "running" ELSE pending
  /\ UNCHANGED page

Sent ==
  /\ online /\ Counted < RegisterMaxAttempts /\ form.valid /\ form.captcha
  /\ form' = [form EXCEPT !.loading = TRUE]
  /\ button' = FALSE
  /\ limit' = [count |-> Counted + 1, old |-> FALSE]
  /\ at' = "register"
  /\ pending' = IF pending = "none" THEN "running" ELSE pending
  /\ UNCHANGED page

HandleRegister ==
  /\ Pressed \/ EnterKey
  /\ ~form.loading
  /\ Sent \/ (Refused /\ UNCHANGED <<form, at, pending>>)
  /\ UNCHANGED <<online, drafts, draft_id, saving, accounts, minutes>>

(* AuthService._register_impl ends; its promise is kept. *)
RegisterEnds(ok) ==
  /\ pending = "running"
  /\ pending' = IF ok THEN "created" ELSE "failed"
  /\ accounts' = IF ok THEN accounts + 1 ELSE accounts
  /\ UNCHANGED <<form, button, limit, online, drafts, draft_id, saving, at, page,
                 minutes>>

Settle(p) ==
  /\ at' = "idle"
  /\ form' = [form EXCEPT !.loading = FALSE]
  /\ page' = p
  /\ button' = (p = "form" /\ Enabled(form', online))

(* The error is drawn, whether the screen is still there or not. *)
RegisterFailed ==
  /\ at = "register" /\ pending = "failed"
  /\ Settle("form")
  /\ UNCHANGED <<limit, online, drafts, draft_id, saving, pending, accounts, minutes>>

Registered ==
  /\ at = "register" /\ pending = "created"
  /\ at' = "clearing"
  /\ UNCHANGED <<form, button, limit, online, drafts, draft_id, saving, pending,
                 accounts, page, minutes>>

(* clear_draft deletes the row whose id it holds, then the page changes. *)
DraftCleared ==
  /\ at = "clearing"
  /\ drafts' = drafts \ {draft_id}
  /\ draft_id' = 0
  /\ Settle("home")
  /\ UNCHANGED <<limit, online, saving, pending, accounts, minutes>>

Dispose ==
  /\ page # "disposed"
  /\ page' = "disposed" /\ button' = FALSE
  /\ UNCHANGED <<form, limit, online, drafts, draft_id, saving, at, pending,
                 accounts, minutes>>

RegisterAnswers == (\E ok \in BOOLEAN : RegisterEnds(ok)) \/ RegisterFailed \/ Registered
           \/ DraftCleared

RegisterNext ==
  \/ \E b \in BOOLEAN : Type(b) \/ CaptchaValidated(b)
  \/ DraftSaved \/ Network \/ MinutePasses
  \/ HandleRegister \/ RegisterAnswers
  \/ Dispose

RegisterSpec == RegisterInit /\ [][RegisterNext]_register_vars

-----------------------------------------------------------------------------
RegisterTypeOK ==
  /\ form \in [valid : BOOLEAN, captcha : BOOLEAN, loading : BOOLEAN]
  /\ button \in BOOLEAN /\ online \in BOOLEAN /\ saving \in BOOLEAN
  /\ limit \in [count : 0..RegisterMaxAttempts, old : BOOLEAN]
  /\ drafts \subseteq 1..MaxDrafts /\ draft_id \in 0..MaxDrafts
  /\ at \in {"idle", "register", "clearing"}
  /\ pending \in {"none", "running", "created", "failed"}
  /\ accounts \in 0..1 /\ page \in {"form", "home", "disposed"}
  /\ minutes \in 0..MaxMinutes

(* However often the form is sent, also by the Enter listener of a screen  *)
(* that is gone, the page creates one account, and only a page whose       *)
(* account exists is taken to the home screen.                             *)
OneAccountPerPage ==
  /\ accounts <= 1
  /\ page = "home" => accounts = 1

-----------------------------------------------------------------------------
(* The values of the variables of every machine. *)
TypeOK == LoginTypeOK /\ RegisterTypeOK
=============================================================================
