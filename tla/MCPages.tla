----------------------------- MODULE MCPages ------------------------------
(***************************************************************************)
(* The pages a learner meets, checked together: login and registration     *)
(* with the authentication service, their controls, the audio service, the *)
(* exercises and the review. Machines share no state in the code beyond    *)
(* what each models, so a behaviour exercises one of them.                 *)
(***************************************************************************)
EXTENDS Naturals, Sequences, FiniteSets

CONSTANTS Emails, Protected, Accounts, None, LoginAttempts, MaxDrafts,
          MaxMinutes, Calls, MaxToken, Values, SyncBad, AsyncBad,
          MaxRuns, MaxShakes, Percents, FullPercent, Listened, No,
          Words, Files, Players, MaxQueue, WordA, WordB, WordC,
          MaxCount, OptionCount, MaxTries, Letters, MaxMeasured,
          CardAttempts, Loads, Answers, Cards, MaxSessions

ASSUME LimitsAssumption ==
  /\ {LoginAttempts, MaxDrafts, MaxMinutes, MaxToken, MaxRuns, MaxShakes, MaxQueue,
      MaxCount, OptionCount, MaxTries, MaxMeasured, MaxSessions} \subseteq Nat
  /\ {CardAttempts, Cards} \subseteq Nat \ {0}
  /\ Accounts \subseteq Emails /\ 0 \in Percents

ASSUME NoAssumption == No \notin Words \cup Files

ExerciseWords == {<<WordA>>, <<WordA, WordB, WordB, WordC>>}

VARIABLES focus,  \* the component a behaviour exercises
          st, page_shown, typed, checking, call, otp_call, stored, session,
          login_attempts, form, button, limit, online, drafts, draft_id,
          saving, at, pending, accounts, page, minutes, logged_in, tokens,
          state, rows, live, issued, calls, value, original, errors, verdict,
          debounce, runs, run_controller, aborted, unchecked, buttonState,
          off, busy, inside, focused, running, tracked, shakes, mounted,
          percent, drawn_percent, container, update_lock, listeners, emitting,
          heard, player, plays, kept, activePlayer, queue, processing,
          vocabulary, asked, generate_tries, exercises, drawn, phase,
          distance_cache, exercise, renderer, cardState, attempts, timer,
          disabled, flipped, judged, advances, machine, shown, review_session,
          loads, controller, answers, completing, sessions, raced

L == INSTANCE AccountScreens WITH
       LoginMaxAttempts <- LoginAttempts, shown <- page_shown,
       attempts <- login_attempts, RegisterMaxAttempts <- 5
A == INSTANCE AuthService
F == INSTANCE Controls WITH
       controller <- run_controller
U == INSTANCE AudioService
G == INSTANCE Exercises WITH
       Vocabularies <- ExerciseWords, MaxAttempts <- CardAttempts
V == INSTANCE ReviewScreen WITH
       session <- review_session

Init ==
  /\ focus \in {"login", "register", "auth", "input", "button", "bar",
               "audio", "exercises", "card", "review"}
  /\ L!LoginInit /\ L!RegisterInit /\ A!Init /\ F!InputInit
  /\ F!ButtonInit /\ F!BarInit /\ U!Init /\ G!GeneratorInit
  /\ G!CardInit /\ V!Init
  /\ focus # "login" => stored = None
  /\ focus # "input" => original \notin SyncBad \cup AsyncBad
  /\ focus # "exercises" => vocabulary = <<WordA>>

LoginStep ==
  /\ focus = "login" /\ L!LoginNext
  /\ UNCHANGED <<focus,
                 form, button, limit, online, drafts, draft_id, saving, at,
                 pending, accounts, page, minutes, logged_in, tokens, state,
                 rows, live, issued, calls, value, original, errors, verdict,
                 debounce, runs, run_controller, aborted, unchecked,
                 buttonState, off, busy, inside, focused, running, tracked,
                 shakes, mounted, percent, drawn_percent, container,
                 update_lock, listeners, emitting, heard, player, plays, kept,
                 activePlayer, queue, processing, vocabulary, asked,
                 generate_tries, exercises, drawn, phase, distance_cache,
                 exercise, renderer, cardState, attempts, timer, disabled,
                 flipped, judged, advances, machine, shown, review_session,
                 loads, controller, answers, completing, sessions, raced>>

RegisterStep ==
  /\ focus = "register" /\ L!RegisterNext
  /\ UNCHANGED <<focus,
                 st, page_shown, typed, checking, call, otp_call, stored,
                 session, login_attempts, logged_in, tokens, state, rows,
                 live, issued, calls, value, original, errors, verdict,
                 debounce, runs, run_controller, aborted, unchecked,
                 buttonState, off, busy, inside, focused, running, tracked,
                 shakes, mounted, percent, drawn_percent, container,
                 update_lock, listeners, emitting, heard, player, plays, kept,
                 activePlayer, queue, processing, vocabulary, asked,
                 generate_tries, exercises, drawn, phase, distance_cache,
                 exercise, renderer, cardState, attempts, timer, disabled,
                 flipped, judged, advances, machine, shown, review_session,
                 loads, controller, answers, completing, sessions, raced>>

AuthStep ==
  /\ focus = "auth" /\ A!Next
  /\ UNCHANGED <<focus,
                 st, page_shown, typed, checking, call, otp_call, stored,
                 session, login_attempts, form, button, limit, online, drafts,
                 draft_id, saving, at, pending, accounts, page, minutes,
                 value, original, errors, verdict, debounce, runs,
                 run_controller, aborted, unchecked, buttonState, off, busy,
                 inside, focused, running, tracked, shakes, mounted, percent,
                 drawn_percent, container, update_lock, listeners, emitting,
                 heard, player, plays, kept, activePlayer, queue, processing,
                 vocabulary, asked, generate_tries, exercises, drawn, phase,
                 distance_cache, exercise, renderer, cardState, attempts,
                 timer, disabled, flipped, judged, advances, machine, shown,
                 review_session, loads, controller, answers, completing, sessions, raced>>

InputStep ==
  /\ focus = "input" /\ F!InputNext
  /\ UNCHANGED <<focus,
                 st, page_shown, typed, checking, call, otp_call, stored,
                 session, login_attempts, form, button, limit, online, drafts,
                 draft_id, saving, at, pending, accounts, page, minutes,
                 logged_in, tokens, state, rows, live, issued, calls,
                 buttonState, off, busy, inside, focused, running, tracked,
                 shakes, mounted, percent, drawn_percent, container,
                 update_lock, listeners, emitting, heard, player, plays, kept,
                 activePlayer, queue, processing, vocabulary, asked,
                 generate_tries, exercises, drawn, phase, distance_cache,
                 exercise, renderer, cardState, attempts, timer, disabled,
                 flipped, judged, advances, machine, shown, review_session,
                 loads, controller, answers, completing, sessions, raced>>

ButtonStep ==
  /\ focus = "button" /\ F!ButtonNext
  /\ UNCHANGED <<focus,
                 st, page_shown, typed, checking, call, otp_call, stored,
                 session, login_attempts, form, button, limit, online, drafts,
                 draft_id, saving, at, pending, accounts, page, minutes,
                 logged_in, tokens, state, rows, live, issued, calls, value,
                 original, errors, verdict, debounce, runs, run_controller,
                 aborted, unchecked, mounted, percent, drawn_percent,
                 container, update_lock, listeners, emitting, heard, player,
                 plays, kept, activePlayer, queue, processing, vocabulary,
                 asked, generate_tries, exercises, drawn, phase,
                 distance_cache, exercise, renderer, cardState, attempts,
                 timer, disabled, flipped, judged, advances, machine, shown,
                 review_session, loads, controller, answers, completing, sessions, raced>>

BarStep ==
  /\ focus = "bar" /\ F!BarNext
  /\ UNCHANGED <<focus,
                 st, page_shown, typed, checking, call, otp_call, stored,
                 session, login_attempts, form, button, limit, online, drafts,
                 draft_id, saving, at, pending, accounts, page, minutes,
                 logged_in, tokens, state, rows, live, issued, calls, value,
                 original, errors, verdict, debounce, runs, run_controller,
                 aborted, unchecked, buttonState, off, busy, inside, focused,
                 running, tracked, shakes, player, plays, kept, activePlayer,
                 queue, processing, vocabulary, asked, generate_tries,
                 exercises, drawn, phase, distance_cache, exercise, renderer,
                 cardState, attempts, timer, disabled, flipped, judged,
                 advances, machine, shown, review_session, loads, controller,
                 answers, completing, sessions, raced>>

AudioStep ==
  /\ focus = "audio" /\ U!Next
  /\ UNCHANGED <<focus,
                 st, page_shown, typed, checking, call, otp_call, stored,
                 session, login_attempts, form, button, limit, online, drafts,
                 draft_id, saving, at, pending, accounts, page, minutes,
                 logged_in, tokens, state, rows, live, issued, calls, value,
                 original, errors, verdict, debounce, runs, run_controller,
                 aborted, unchecked, buttonState, off, busy, inside, focused,
                 running, tracked, shakes, mounted, percent, drawn_percent,
                 container, update_lock, listeners, emitting, heard,
                 vocabulary, asked, generate_tries, exercises, drawn, phase,
                 distance_cache, exercise, renderer, cardState, attempts,
                 timer, disabled, flipped, judged, advances, machine, shown,
                 review_session, loads, controller, answers, completing, sessions, raced>>

ExercisesStep ==
  /\ focus = "exercises" /\ G!GeneratorNext
  /\ UNCHANGED <<focus,
                 st, page_shown, typed, checking, call, otp_call, stored,
                 session, login_attempts, form, button, limit, online, drafts,
                 draft_id, saving, at, pending, accounts, page, minutes,
                 logged_in, tokens, state, rows, live, issued, calls, value,
                 original, errors, verdict, debounce, runs, run_controller,
                 aborted, unchecked, buttonState, off, busy, inside, focused,
                 running, tracked, shakes, mounted, percent, drawn_percent,
                 container, update_lock, listeners, emitting, heard, player,
                 plays, kept, activePlayer, queue, processing, exercise,
                 renderer, cardState, attempts, timer, disabled, flipped,
                 judged, advances, machine, shown, review_session, loads,
                 controller, answers, completing, sessions, raced>>

CardStep ==
  /\ focus = "card" /\ G!CardNext
  /\ UNCHANGED <<focus,
                 st, page_shown, typed, checking, call, otp_call, stored,
                 session, login_attempts, form, button, limit, online, drafts,
                 draft_id, saving, at, pending, accounts, page, minutes,
                 logged_in, tokens, state, rows, live, issued, calls, value,
                 original, errors, verdict, debounce, runs, run_controller,
                 aborted, unchecked, buttonState, off, busy, inside, focused,
                 running, tracked, shakes, mounted, percent, drawn_percent,
                 container, update_lock, listeners, emitting, heard, player,
                 plays, kept, activePlayer, queue, processing, vocabulary,
                 asked, generate_tries, exercises, drawn, phase,
                 distance_cache, machine, shown, review_session, loads,
                 controller, answers, completing, sessions, raced>>

ReviewStep ==
  /\ focus = "review" /\ V!Next
  /\ UNCHANGED <<focus,
                 st, page_shown, typed, checking, call, otp_call, stored,
                 session, login_attempts, form, button, limit, online, drafts,
                 draft_id, saving, at, pending, accounts, page, minutes,
                 logged_in, tokens, state, rows, live, issued, calls, value,
                 original, errors, verdict, debounce, runs, run_controller,
                 aborted, unchecked, buttonState, off, busy, inside, focused,
                 running, tracked, shakes, mounted, percent, drawn_percent,
                 container, update_lock, listeners, emitting, heard, player,
                 plays, kept, activePlayer, queue, processing, vocabulary,
                 asked, generate_tries, exercises, drawn, phase,
                 distance_cache, exercise, renderer, cardState, attempts,
                 timer, disabled, flipped, judged, advances>>

Next == LoginStep \/ RegisterStep \/ AuthStep \/ InputStep \/ ButtonStep
        \/ BarStep \/ AudioStep \/ ExercisesStep \/ CardStep \/ ReviewStep

vars == <<focus,
          st, page_shown, typed, checking, call, otp_call, stored, session,
          login_attempts, form, button, limit, online, drafts, draft_id,
          saving, at, pending, accounts, page, minutes, logged_in, tokens,
          state, rows, live, issued, calls, value, original, errors, verdict,
          debounce, runs, run_controller, aborted, unchecked, buttonState,
          off, busy, inside, focused, running, tracked, shakes, mounted,
          percent, drawn_percent, container, update_lock, listeners, emitting,
          heard, player, plays, kept, activePlayer, queue, processing,
          vocabulary, asked, generate_tries, exercises, drawn, phase,
          distance_cache, exercise, renderer, cardState, attempts, timer,
          disabled, flipped, judged, advances, machine, shown, review_session,
          loads, controller, answers, completing, sessions, raced>>

Spec == Init /\ [][Next]_vars
        /\ L!LoginFairness
        /\ A!Fairness

-----------------------------------------------------------------------------
(* The values of the variables of the components. *)
TypeOK ==
  L!TypeOK /\ A!TypeOK /\ F!TypeOK /\ U!TypeOK /\ G!TypeOK /\ V!TypeOK

(* login_screen.js, register_screen.js with auth_service.js: one press of  *)
(* the button makes one call, and a page creates one account.              *)
EntersOnce ==
  L!InFlightIsShown /\ L!OneAccountPerPage

(* auth_service.js, login_screen.js: a logout ends with the page logged    *)
(* out, a login with an answer.                                            *)
CallsSettle ==
  A!LogoutLogsOut /\ L!LoginSettles

(* form_input.js, choice_button.js, progress_bar.js: a value called valid  *)
(* passes every validator, no look outlives its cause, no lock outlives    *)
(* its update.                                                             *)
ControlsSettle ==
  F!AcceptedIsValid /\ F!HighlightsEnd /\ F!LockIsReleased

(* audio-service.js: the queue serves one request at a time, the urgent    *)
(* first.                                                                  *)
QueueIsServed == U!QueueIsServed

(* exercise_service.js, exercise_card.js, review_screen.js: exercises and  *)
(* options are distinct; time limits, attempts and answers end together;   *)
(* no card is passed over.                                                 *)
ExercisesAreBounded ==
  G!ExercisesAreDistinct /\ G!AnswersAreBounded /\ V!NoCardIsPassedOver
=============================================================================
