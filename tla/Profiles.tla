------------------------------ MODULE Profiles ------------------------------
(***************************************************************************)
(* The profile of a learner: the service that stores it and the screen on  *)
(* which it is edited. The screen calls a service it is given, so that the *)
(* machines share no state.                                                *)
(***************************************************************************)
EXTENDS Naturals, Sequences, FiniteSets

-----------------------------------------------------------------------------
(***************************************************************************)
(* features/profile/profile_service.js: the profile of the user the        *)
(* service was made for, read and replaced in db.users (external) with     *)
(* retries and a signal, with a cache, backups in localStorage, a delayed  *)
(* dispatch and listeners that are told up to a limit.  A profile is the   *)
(* set of updates it carries; a backup is the profile an update replaced.  *)
(***************************************************************************)

CONSTANTS Updates,     \* calls of update_profile, each with its own field
          Reader,      \* a call of get_current_profile
          MaxBackups,  \* 5 in the code
          MaxEvents,   \* MAX_EVENTS_PER_INTERVAL, 10 in the code
          No

VARIABLES stored,      \* db.users: the profile
          cached_profile, \* or No
          backups,     \* localStorage: the profiles replaced, newest first
          operation,   \* calls: [at, tries, profile, signal]
          dispatching, \* the profile of the delayed dispatch, or No
          dispatched,  \* the profile the state was last told, or No
          events,      \* events of this interval
          mixed        \* a call began while another one was under way

service_vars == <<stored, cached_profile, backups, operation, dispatching, dispatched, events, mixed>>

Tries == 3             \* MAX_RETRIES
ProfileCalls == Updates \cup {Reader}
Idle == [at |-> "none", tries |-> 0, profile |-> {}, signal |-> "open"]
Over(at) == [Idle EXCEPT !.at = at]

ServiceInit ==
  /\ stored = {} /\ cached_profile = No /\ backups = <<>>
  /\ operation = [c \in ProfileCalls |-> Idle]
  /\ dispatching = No /\ dispatched = No
  /\ events = 0 /\ mixed = FALSE

Rest == <<backups, dispatching, dispatched, events>>

-----------------------------------------------------------------------------
(* update_profile, get_current_profile: valid data and a user who is known; *)
(* the first read is tried.                                                *)
Begins(c) ==
  /\ operation[c] = Idle
  /\ operation' = [operation EXCEPT ![c].at = "get", ![c].tries = 1]
  /\ mixed' = (mixed \/ \E d \in ProfileCalls : operation[d].at \in {"get", "update", "stored", "cache"})
  /\ UNCHANGED <<stored, cached_profile, Rest>>

UpdateProfile(c) == c \in Updates /\ Begins(c)
GetCurrentProfile == cached_profile = No /\ Begins(Reader)

(* An update starts to write its own profile, under a signal of its own. *)
ToWrite(c) == [at |-> "update", tries |-> 1, profile |-> stored \cup {c}, signal |-> "open"]

(* db.users.get, which may answer before it hears of an abort; an update   *)
(* backs the profile up, #auto_backup.                                     *)
Got(c) ==
  /\ operation[c].at = "get"
  /\ IF c = Reader
     THEN /\ operation' = [operation EXCEPT ![c].at = "cache", ![c].profile = stored]
          /\ UNCHANGED backups
     ELSE /\ backups' = SubSeq(<<stored>> \o backups, 1,
                          IF Len(backups) < MaxBackups THEN Len(backups) + 1 ELSE MaxBackups)
          /\ operation' = [operation EXCEPT ![c] = ToWrite(c)]
  /\ UNCHANGED <<stored, cached_profile, dispatching, dispatched, events, mixed>>

(* localStorage is full: #auto_backup logs and the update goes on. *)
BackupFails(c) ==
  /\ c \in Updates /\ operation[c].at = "get"
  /\ operation' = [operation EXCEPT ![c] = ToWrite(c)]
  /\ UNCHANGED <<stored, cached_profile, mixed, Rest>>

(* #cache_profile *)
Cached ==
  /\ operation[Reader].at = "cache"
  /\ cached_profile' = operation[Reader].profile
  /\ operation' = [operation EXCEPT ![Reader] = Idle]
  /\ UNCHANGED <<stored, mixed, Rest>>

(* db.users.update: the row is written, in a first try or a later one,     *)
(* before or after an abort ...                                            *)
Commits(c) ==
  /\ operation[c].at = "update"
  /\ stored' = operation[c].profile
  /\ operation' = [operation EXCEPT ![c].at = "stored"]
  /\ UNCHANGED <<cached_profile, mixed, Rest>>

(* Mutant: the cache keeps the old profile. *)
M_Written(c) ==
  /\ operation[c].at = "stored"
  /\ dispatching' = operation[c].profile
  /\ operation' = [operation EXCEPT ![c] = Over("done")]
  /\ UNCHANGED <<stored, backups, dispatched, cached_profile, events, mixed>>

(* ... and its answer arrives: #invalidate_cache, #debounce of the         *)
(* dispatch, and the listeners, if the interval still has room:            *)
(* #check_rate_limit.  If the answer is lost the call fails instead.       *)
Written(c) ==
  /\ operation[c].at = "stored"
  /\ cached_profile' = No
  /\ dispatching' = operation[c].profile
  /\ operation' = [operation EXCEPT ![c] = Over("done")]
  /\ events' = IF events < MaxEvents THEN events + 1 ELSE events
  /\ UNCHANGED <<stored, backups, dispatched, mixed>>

Running == {c \in ProfileCalls : operation[c].at \in {"get", "update", "stored"}}

(* #with_retry: an error is tried again, whether the row was written or    *)
(* not; a third one, or an abort, ends the call.                           *)
Again(o) == [o EXCEPT !.at = IF o.at = "get" THEN "get" ELSE "update", !.tries = o.tries + 1]
Failed(c) ==
  /\ c \in Running
  /\ operation' = [operation EXCEPT ![c] =
       IF @.tries < Tries /\ @.signal = "open" THEN Again(operation[c])
       ELSE Over(IF c = Reader THEN "none" ELSE "failed")]
  /\ UNCHANGED <<stored, cached_profile, mixed, Rest>>

Abort(cs) ==
  operation' = [c \in ProfileCalls |->
    IF c \in cs THEN [operation[c] EXCEPT !.signal = "aborted"] ELSE operation[c]]

(* abort_all_operations: the signals that are open.  A call that waits     *)
(* between two tries has none and goes on with a new one.                  *)
AbortAllOperations ==
  /\ \E cs \in SUBSET Running \ {{}} :
       /\ \A c \in Running \ cs : operation[c].tries > 1 /\ operation[c].at # "stored"
       /\ Abort(cs)
  /\ UNCHANGED <<stored, cached_profile, mixed, Rest>>

(* #create_operation_signal: thirty seconds are over. *)
TimesOut(c) ==
  /\ c \in Running /\ operation[c].signal = "open"
  /\ Abort({c})
  /\ UNCHANGED <<stored, cached_profile, mixed, Rest>>

(* The timer of #debounce: the last update of a burst is dispatched. *)
Dispatch ==
  /\ dispatching # No
  /\ dispatched' = dispatching /\ dispatching' = No
  /\ UNCHANGED <<stored, cached_profile, operation, backups, events, mixed>>

IntervalEnds ==
  /\ events > 0 /\ events' = 0
  /\ UNCHANGED <<stored, cached_profile, operation, backups, dispatching, dispatched, mixed>>

CacheExpires ==
  /\ cached_profile # No /\ cached_profile' = No
  /\ UNCHANGED <<stored, operation, mixed, Rest>>

(* dispose: signals, timers and cache; calls end by themselves. *)
Dispose ==
  /\ dispatching # No \/ cached_profile # No
  /\ dispatching' = No /\ cached_profile' = No /\ events' = 0
  /\ Abort(Running)
  /\ UNCHANGED <<stored, backups, dispatched, mixed>>

ServiceNext ==
  \/ \E c \in ProfileCalls : \/ UpdateProfile(c) \/ Got(c) \/ BackupFails(c) \/ Commits(c)
                      \/ Written(c) \/ Failed(c) \/ TimesOut(c)
  \/ GetCurrentProfile \/ Cached \/ AbortAllOperations \/ Dispatch \/ IntervalEnds
  \/ CacheExpires \/ Dispose

ServiceSpec == ServiceInit /\ [][ServiceNext]_service_vars

-----------------------------------------------------------------------------
ServiceTypeOK ==
  /\ stored \subseteq Updates
  /\ cached_profile \in (SUBSET Updates) \cup {No}
  /\ Len(backups) <= MaxBackups /\ \A i \in DOMAIN backups : backups[i] \subseteq Updates
  /\ dispatching \in (SUBSET Updates) \cup {No} /\ dispatched \in (SUBSET Updates) \cup {No}
  /\ events \in 0..MaxEvents

(* Updates that do not overlap are all kept, however often they are tried, *)
(* aborted or lose their answer: the row has the field of every update     *)
(* that was answered, what is cached or about to be dispatched has them    *)
(* all and nothing the row has not, and the newest backup is an earlier    *)
(* row.  (A call that overlaps another one writes the row it read.)        *)
Answered == {c \in Updates : operation[c].at = "done"}
UpdatesAreKept ==
  ~mixed =>
    /\ \A p \in {stored, cached_profile, dispatching} \ {No} :
         Answered \subseteq p /\ p \subseteq stored
    /\ backups # <<>> => Head(backups) \subseteq stored

-----------------------------------------------------------------------------
(***************************************************************************)
(* ui/screens/profile_edit_screen.js: the form of the profile.  Edits mark *)
(* it dirty, are checked and kept as a draft in localStorage, at the end   *)
(* of timers, until the service saved them.  Drawing the screen again, for *)
(* a user who was loaded or saved, makes a form without listeners.         *)
(***************************************************************************)

CONSTANTS Texts,      \* what a form may hold
          WrongTexts, \* those the rules refuse
          NoText      \* no draft, nothing to save

VARIABLES form_text, saved_text,   \* formData, and the profile of the service
          user_known,              \* state.user
          proxied, listening,      \* formData is the proxy; the form has its listeners
          isDirty, isSaving, isValid, isOnline, hasDraft,
          draft,                   \* localStorage: the text, or NoText
          validating, drafting,    \* the debounced calls that wait
          profile_load,            \* #loadUserData is under way
          profile_save,            \* the text that updateProfile was given, or NoText
          edit_closed,             \* destroy was called
          edited_meanwhile         \* typed while a save was under way

form == <<form_text, user_known, proxied, listening>>
flags == <<isDirty, isSaving, isValid, hasDraft>>
timers == <<validating, drafting>>
calls == <<profile_load, profile_save>>
edit_vars == <<saved_text, form, flags, isOnline, draft, timers, calls, edit_closed, edited_meanwhile>>

Wrong(t) == t \in WrongTexts

(* constructor: a draft is offered, and taken through the proxy; without a *)
(* user one is loaded.                                                     *)
EditInit ==
  /\ saved_text \in Texts \ WrongTexts /\ user_known \in BOOLEAN
  /\ draft \in Texts \cup {NoText}
  /\ hasDraft \in IF draft = NoText THEN {FALSE} ELSE BOOLEAN
  /\ form_text = IF hasDraft THEN draft ELSE IF user_known THEN saved_text ELSE NoText
  /\ isDirty = hasDraft /\ validating = hasDraft /\ drafting = hasDraft
  /\ isSaving = FALSE /\ isValid = TRUE /\ isOnline \in BOOLEAN
  /\ proxied = TRUE /\ listening = TRUE
  /\ profile_load = ~user_known /\ profile_save = NoText
  /\ edit_closed = FALSE /\ edited_meanwhile = FALSE

-----------------------------------------------------------------------------
(* #handleFormChange, the set of #createFormProxy, #validateField.  The    *)
(* service was given the live formData: whether a save under way still     *)
(* reads the change is up to it.                                           *)
HandleFormChange(t) ==
  /\ listening /\ ~edit_closed /\ form_text # t
  /\ form_text' = t /\ isValid' = ~Wrong(t)
  /\ isDirty' = (isDirty \/ proxied)
  /\ validating' = (validating \/ proxied) /\ drafting' = (drafting \/ proxied)
  /\ edited_meanwhile' = (edited_meanwhile \/ profile_save # NoText)
  /\ profile_save' = profile_save \/ (profile_save # NoText /\ profile_save' = t)
  /\ UNCHANGED <<saved_text, user_known, proxied, listening, isSaving, hasDraft, isOnline,
                 draft, profile_load, edit_closed>>

(* #debouncedValidate *)
Validate ==
  /\ validating /\ validating' = FALSE
  /\ isValid' = ~Wrong(form_text)
  /\ UNCHANGED <<saved_text, form, isDirty, isSaving, hasDraft, isOnline, draft, drafting,
                 calls, edit_closed, edited_meanwhile>>

(* #saveDraft, at the end of the timer or, of a valid form, each half minute *)
SaveDraft ==
  /\ drafting \/ (isDirty /\ isValid)
  /\ ~edit_closed /\ drafting' = FALSE
  /\ IF isDirty THEN draft' = form_text /\ hasDraft' = TRUE ELSE UNCHANGED <<draft, hasDraft>>
  /\ UNCHANGED <<saved_text, form, isDirty, isSaving, isValid, isOnline, validating, calls,
                 edit_closed, edited_meanwhile>>

(* #handleNetworkChange, #syncDraft: listeners that outlive the screen; its *)
(* timers are gone by then.                                                *)
HandleNetworkChange ==
  /\ isOnline' = ~isOnline
  /\ drafting' = (drafting \/ (~isOnline /\ hasDraft /\ isDirty /\ ~edit_closed))
  /\ UNCHANGED <<saved_text, form, flags, draft, validating, calls, edit_closed, edited_meanwhile>>

-----------------------------------------------------------------------------
(* #handleSave: the button, if it is enabled, or Enter in a form that      *)
(* listens.  #validateForm, and the timer of the draft is cancelled.       *)
HandleSave ==
  /\ ~isSaving /\ isOnline /\ ~Wrong(form_text) /\ form_text # NoText /\ ~edit_closed
  /\ listening \/ (isDirty /\ isValid)
  /\ isSaving' = TRUE /\ isValid' = TRUE
  /\ drafting' = FALSE
  /\ profile_save' = form_text
  /\ UNCHANGED <<saved_text, form, isDirty, hasDraft, isOnline, draft, validating, profile_load,
                 edit_closed, edited_meanwhile>>

(* #validateForm refuses. *)
RefuseSave ==
  /\ ~isSaving /\ isOnline /\ Wrong(form_text) /\ ~edit_closed
  /\ listening \/ (isDirty /\ isValid)
  /\ isValid' = FALSE
  /\ UNCHANGED <<saved_text, form, isDirty, isSaving, hasDraft, isOnline, draft, timers, calls,
                 edit_closed, edited_meanwhile>>

(* updateProfile answered: the draft goes, the screen is drawn again. *)
Saved ==
  /\ profile_save # NoText
  /\ saved_text' = profile_save /\ profile_save' = NoText
  /\ draft' = NoText
  /\ isDirty' = FALSE /\ isSaving' = FALSE /\ hasDraft' = FALSE
  /\ user_known' = TRUE /\ listening' = FALSE
  /\ UNCHANGED <<form_text, proxied, isValid, isOnline, timers, profile_load, edit_closed,
                 edited_meanwhile>>

(* The boundary shows "try again"; isSaving stays. *)
SaveFails ==
  /\ profile_save # NoText /\ profile_save' = NoText
  /\ UNCHANGED <<saved_text, form, flags, isOnline, draft, timers, profile_load, edit_closed,
                 edited_meanwhile>>

-----------------------------------------------------------------------------
(* #loadUserData, #getUserWithCache: a plain formData, and a new form *)
Loaded ==
  /\ profile_load /\ profile_load' = FALSE
  /\ form_text' = saved_text /\ user_known' = TRUE
  /\ proxied' = FALSE /\ listening' = FALSE
  /\ UNCHANGED <<saved_text, flags, isOnline, draft, timers, profile_save, edit_closed,
                 edited_meanwhile>>

LoadFails ==
  /\ profile_load /\ profile_load' = FALSE
  /\ UNCHANGED <<saved_text, form, flags, isOnline, draft, timers, profile_save, edit_closed,
                 edited_meanwhile>>

(* #subscribeToState: the first user the application knows *)
UserArrives ==
  /\ ~user_known /\ user_known' = TRUE /\ ~edit_closed
  /\ form_text' = saved_text /\ proxied' = FALSE
  /\ UNCHANGED <<saved_text, listening, flags, isOnline, draft, timers, calls, edit_closed,
                 edited_meanwhile>>

Destroy ==
  /\ ~edit_closed /\ edit_closed' = TRUE
  /\ validating' = FALSE /\ drafting' = FALSE
  /\ UNCHANGED <<saved_text, form, flags, isOnline, draft, calls, edited_meanwhile>>

EditNext ==
  \/ \E t \in Texts : HandleFormChange(t)
  \/ Validate \/ SaveDraft \/ HandleNetworkChange \/ HandleSave \/ RefuseSave \/ Saved
  \/ SaveFails \/ Loaded \/ LoadFails \/ UserArrives \/ Destroy

EditSpec == EditInit /\ [][EditNext]_edit_vars

-----------------------------------------------------------------------------
EditTypeOK ==
  /\ form_text \in Texts \cup {NoText} /\ draft \in Texts \cup {NoText}
  /\ {isDirty, isSaving, isValid, isOnline, hasDraft, user_known, proxied, listening,
      validating, drafting, profile_load, edit_closed} \subseteq BOOLEAN

(* What was typed is not taken for saved: a form that still marks its      *)
(* edits and differs from the profile is dirty, unless it was changed      *)
(* while it was saved; only valid profiles are saved, under the same       *)
(* condition; and a closed screen has no timer that writes a draft.        *)
EditsAreDirty ==
  /\ proxied /\ user_known /\ form_text # saved_text => isDirty \/ edited_meanwhile
  /\ saved_text \in WrongTexts => edited_meanwhile
  /\ edit_closed => ~drafting
  /\ ~isSaving => profile_save = NoText

-----------------------------------------------------------------------------
(* The values of the variables of every machine. *)
TypeOK == ServiceTypeOK /\ EditTypeOK
=============================================================================
