------------------------------ MODULE Controls ------------------------------
(***************************************************************************)
(* Components of the pages that keep a state of their own: a text field    *)
(* with its validators, the button of a choice, a bar of progress. The     *)
(* machines share no state.                                                *)
(***************************************************************************)
EXTENDS Naturals, Sequences, FiniteSets

-----------------------------------------------------------------------------
(***************************************************************************)
(* ui/components/form_input.js: one input and its validation runs, which   *)
(* overlap while an asynchronous validator is waited for.  All runs push   *)
(* into one list of errors, which the latest run has emptied, and a new    *)
(* run aborts the signal of the one before it.  A value is abstracted to   *)
(* what the validators say of it; masks, labels and icons are left out.    *)
(***************************************************************************)

CONSTANTS Values,     \* what can be in the input
          SyncBad,    \* values an immediate validator refuses
          AsyncBad,   \* values only the asynchronous one refuses
          MaxRuns     \* bound: validation runs

VARIABLES value,       \* _value
          original,    \* _original_value
          errors,      \* _errors: kinds of messages in the list
          verdict,     \* [valid, validating]: _is_valid, _is_validating
          debounce,    \* _debounce_timer is running
          runs,        \* where each run of _validate_all is, and what it asked
          controller,  \* run whose AbortController is the current one
          aborted,     \* runs whose signal is aborted
          unchecked    \* the value was set without a run for it

input_vars == <<value, original, errors, verdict, debounce, runs, controller,
          aborted, unchecked>>

Runs == DOMAIN runs
Last == Cardinality(Runs)
Quiet == \A r \in Runs : runs[r].at = "done"

InputInit ==
  /\ original \in Values /\ value = original
  /\ errors = {}
  /\ verdict = [valid |-> TRUE, validating |-> FALSE]
  /\ debounce = FALSE
  /\ runs = <<>> /\ controller = 0 /\ aborted = {}
  /\ unchecked = TRUE

(* The first part of _validate_all. *)
StartRun(valid) ==
  /\ Last < MaxRuns
  /\ runs' = Append(runs, [at |-> "sync", asked |-> value])
  /\ aborted' = IF controller = 0 THEN aborted ELSE aborted \cup {controller}
  /\ errors' = {}
  /\ verdict' = [valid |-> valid, validating |-> TRUE]
  /\ unchecked' = FALSE
  /\ UNCHANGED <<original, controller>>

-----------------------------------------------------------------------------
HandleInput(v) ==
  /\ value' = v
  /\ debounce' = TRUE
  /\ UNCHANGED <<original, errors, verdict, runs, controller, aborted, unchecked>>

DebounceOver ==
  /\ debounce /\ debounce' = FALSE
  /\ StartRun(verdict.valid)
  /\ UNCHANGED value

HandleBlur == StartRun(verdict.valid) /\ UNCHANGED <<value, debounce>>

SetValue(v) == value' = v /\ StartRun(verdict.valid) /\ UNCHANGED debounce

SetValueUnchecked(v) ==
  /\ value' = v /\ unchecked' = TRUE
  /\ UNCHANGED <<original, errors, verdict, debounce, runs, controller, aborted>>

(* set_value, and then a verdict that the run just started will replace. *)
InputReset == value' = original /\ StartRun(TRUE) /\ UNCHANGED debounce

InputDestroy ==
  /\ debounce' = FALSE /\ unchecked' = (unchecked \/ debounce)
  /\ aborted' = IF controller = 0 THEN aborted ELSE aborted \cup {controller}
  /\ UNCHANGED <<value, original, errors, verdict, runs, controller>>

-----------------------------------------------------------------------------
(* The immediate validators push; the asynchronous one is asked about the  *)
(* value of this moment, under a controller of the run's own.              *)
AskAsync(r) ==
  /\ runs[r].at = "sync"
  /\ errors' = errors \cup (IF value \in SyncBad THEN {"sync"} ELSE {})
  /\ controller' = r
  /\ runs' = [runs EXCEPT ![r] = [at |-> "async", asked |-> value]]
  /\ UNCHANGED <<value, original, verdict, debounce, aborted, unchecked>>

(* Mutant: a run concludes from its own findings alone. *)
M_Conclude(r, found) ==
  /\ errors' = errors \cup found
  /\ verdict' = [valid |-> found = {} /\ value \notin SyncBad, validating |-> FALSE]
  /\ runs' = [runs EXCEPT ![r].at = "done"]
  /\ UNCHANGED <<value, original, debounce, controller, aborted, unchecked>>

Conclude(r, found) ==
  /\ errors' = errors \cup found
  /\ verdict' = [valid |-> errors' = {}, validating |-> FALSE]
  /\ runs' = [runs EXCEPT ![r].at = "done"]
  /\ UNCHANGED <<value, original, debounce, controller, aborted, unchecked>>

AsyncAnswered(r) ==
  /\ runs[r].at = "async"
  /\ Conclude(r, IF runs[r].asked \in AsyncBad THEN {"async"} ELSE {})

(* A validator that heeds the signal rejects, and _execute_validator turns *)
(* the rejection into an error message.                                    *)
AsyncAborted(r) ==
  /\ runs[r].at = "async" /\ r \in aborted
  /\ Conclude(r, {"aborted"})

RunProceeds == \E r \in Runs : AskAsync(r) \/ AsyncAnswered(r) \/ AsyncAborted(r)

InputNext ==
  \/ \E v \in Values : HandleInput(v) \/ SetValue(v) \/ SetValueUnchecked(v)
  \/ DebounceOver \/ HandleBlur \/ InputReset \/ InputDestroy
  \/ RunProceeds

InputSpec == InputInit /\ [][InputNext]_input_vars

-----------------------------------------------------------------------------
InputTypeOK ==
  /\ value \in Values /\ original \in Values
  /\ errors \subseteq {"sync", "async", "aborted"}
  /\ verdict \in [valid : BOOLEAN, validating : BOOLEAN]
  /\ debounce \in BOOLEAN /\ unchecked \in BOOLEAN
  /\ Last <= MaxRuns /\ controller \in 0..Last /\ aborted \subseteq Runs
  /\ \A r \in Runs : runs[r] \in [at : {"sync", "async", "done"}, asked : Values]

(* However the runs overlap and whichever ends last: when none is left, a  *)
(* value that was submitted to validation and is called valid passes every *)
(* validator, and the verdict says what the list of errors says.           *)
AcceptedIsValid ==
  Quiet => /\ verdict.valid = (errors = {})
           /\ verdict.valid /\ ~unchecked /\ ~debounce
                => value \notin SyncBad \cup AsyncBad

-----------------------------------------------------------------------------
(***************************************************************************)
(* ui/components/choice_button.js (the code inside its Markdown fence): a  *)
(* button to choose an answer with.  Its state moves along a table, and a  *)
(* move the table lacks is refused without a word; pointer, focus and the  *)
(* page that uses it ask for moves in any order.  Texts, icons and styles  *)
(* are left out.                                                           *)
(***************************************************************************)

CONSTANTS MaxShakes      \* bound: timeouts of shakes under way

VARIABLES buttonState, off,        \* off: config.disabled
          busy,                    \* config.loading
          inside, focused,         \* where the pointer and the focus are
          running,                 \* animations whose closure is running
          tracked,                 \* runningAnimations
          shakes                   \* timeouts of shakes

button_vars == <<buttonState, off, busy, inside, focused, running, tracked, shakes>>
look == <<buttonState, off, busy>>
moves == <<running, tracked, shakes>>

CanTransition ==
  [default  |-> {"selected", "hover", "focus", "disabled"},
   selected |-> {"correct", "wrong", "default", "disabled"},
   correct  |-> {"default", "disabled"}, wrong |-> {"default", "disabled"},
   disabled |-> {"default"},
   hover    |-> {"selected", "default", "focus"}, focus |-> {"selected", "default", "hover"}]

ButtonInit ==
  /\ buttonState = "default" /\ off = FALSE /\ busy = FALSE
  /\ inside = FALSE /\ focused = FALSE
  /\ running = {} /\ tracked = {} /\ shakes = 0

(* play stops the others that are tracked and starts a. *)
Play(a) == running' = (running \ tracked) \cup {a} /\ tracked' = {a}

(* setState: correct bounces, wrong shakes for 300 ms. *)
SetState(s) ==
  IF s \notin CanTransition[buttonState] THEN UNCHANGED <<buttonState, moves>>
  ELSE /\ buttonState' = s
       /\ IF s \in {"correct", "wrong"}
          THEN Play(IF s = "correct" THEN "bounce" ELSE "shake") ELSE UNCHANGED <<running, tracked>>
       /\ IF s = "wrong" THEN shakes < MaxShakes /\ shakes' = shakes + 1 ELSE UNCHANGED shakes

MouseEnter ==
  /\ ~inside /\ inside' = TRUE
  /\ IF off \/ busy THEN UNCHANGED <<buttonState, moves>> ELSE SetState("hover")
  /\ UNCHANGED <<off, busy, focused>>

(* The pointer takes a selection along when it leaves. *)
MouseLeave ==
  /\ inside /\ inside' = FALSE
  /\ IF buttonState \in {"hover", "selected"}
     THEN SetState("default") ELSE UNCHANGED <<buttonState, moves>>
  /\ UNCHANGED <<off, busy, focused>>

Focus ==
  /\ ~focused /\ focused' = TRUE
  /\ IF off \/ busy THEN UNCHANGED <<buttonState, moves>> ELSE SetState("focus")
  /\ UNCHANGED <<off, busy, inside>>

Blur ==
  /\ focused /\ focused' = FALSE
  /\ IF buttonState = "focus" THEN SetState("default") ELSE UNCHANGED <<buttonState, moves>>
  /\ UNCHANGED <<off, busy, inside>>

SetDisabled(disabled) ==
  /\ off' = disabled
  /\ SetState(IF disabled THEN "disabled" ELSE "default")
  /\ UNCHANGED <<busy, inside, focused>>

(* No state leads to loading: only the end of loading moves. *)
SetLoading(loading) ==
  /\ busy' = loading
  /\ IF loading THEN UNCHANGED <<buttonState, moves>> ELSE SetState("default")
  /\ UNCHANGED <<off, inside, focused>>

(* setSelected, setCorrect, setWrong. *)
Mark(s) == SetState(s) /\ UNCHANGED <<off, busy, inside, focused>>

PlayAnimation(a) ==
  /\ Play(a)
  /\ IF a = "shake" THEN shakes < MaxShakes /\ shakes' = shakes + 1 ELSE UNCHANGED shakes
  /\ UNCHANGED <<look, inside, focused>>

StopAnimation ==
  /\ running' = {} /\ tracked' = {}
  /\ UNCHANGED <<look, inside, focused, shakes>>

(* The timeout of a shake stops whatever is played by then. *)
ShakeEnds ==
  /\ shakes > 0 /\ shakes' = shakes - 1
  /\ running' = {} /\ tracked' = {}
  /\ UNCHANGED <<look, inside, focused>>

ButtonNext ==
  \/ MouseEnter \/ MouseLeave \/ Focus \/ Blur \/ StopAnimation \/ ShakeEnds
  \/ \E b \in BOOLEAN : SetDisabled(b) \/ SetLoading(b)
  \/ \E s \in {"selected", "default", "correct", "wrong"} : Mark(s)
  \/ \E a \in {"pulse", "bounce", "shake", "glow"} : PlayAnimation(a)

ButtonSpec == ButtonInit /\ [][ButtonNext]_button_vars

-----------------------------------------------------------------------------
(* The values of the button. *)
ButtonTypeOK == buttonState \in DOMAIN CanTransition /\ shakes \in 0..MaxShakes

(* A button never keeps the look of a pointer or a focus that has left it, *)
(* though each of their events may be refused, and never moves twice.      *)
HighlightsEnd ==
  /\ buttonState = "hover" => inside
  /\ buttonState = "focus" => focused
  /\ running = tracked /\ Cardinality(running) <= 1

-----------------------------------------------------------------------------
(***************************************************************************)
(* ui/components/progress_bar.js: a bar whose listeners run inside the     *)
(* update that they are told of, and may update, reset or destroy it.      *)
(***************************************************************************)

CONSTANTS
  Percents,     \* valid values of percent
  FullPercent,  \* max_percent
  Listened      \* events a listener was added for

VARIABLES mounted, percent, drawn_percent, container, update_lock, listeners, emitting, heard
bar_vars == <<mounted, percent, drawn_percent, container, update_lock, listeners, emitting, heard>>

\* heard is a history variable: the events a listener was told of last.
BarTypeOK ==
  /\ mounted \in BOOLEAN /\ percent \in Percents /\ drawn_percent \in Percents
  /\ container \in {"none", "shown", "detached"} /\ update_lock \in BOOLEAN
  /\ listeners \subseteq Listened \* none after destroy: the map is empty
  /\ emitting \in {"no", "update", "complete"}
  /\ heard \in {"nothing", "update", "complete", "reset"}

BarInit == /\ mounted = FALSE /\ percent = 0 /\ drawn_percent = 0 /\ container = "none"
        /\ update_lock = FALSE /\ listeners = Listened /\ emitting = "no" /\ heard = "nothing"

Told(e) == heard' = IF e \in listeners THEN e ELSE heard

(* render makes a new container; one rendered before stays on the page.    *)
Render(p) ==
  /\ emitting = "no" /\ mounted' = TRUE /\ percent' = p /\ drawn_percent' = p
  /\ container' = "shown" /\ UNCHANGED <<update_lock, listeners, emitting, heard>>

(* update_percent with a new value, up to the listeners of 'update'; a     *)
(* value that is not valid throws before the lock is taken.                *)
Accepted(p) == mounted /\ ~update_lock /\ p # percent
UpdatePercent(p) ==
  /\ emitting = "no" /\ Accepted(p)
  /\ update_lock' = TRUE /\ percent' = p /\ drawn_percent' = p
  /\ emitting' = "update" /\ Told("update")
  /\ UNCHANGED <<mounted, container, listeners>>

(* After the listeners of 'update', those of 'complete'; then the lock.    *)
UpdateEmitted ==
  /\ emitting = "update" /\ percent = FullPercent
  /\ emitting' = "complete" /\ Told("complete")
  /\ UNCHANGED <<mounted, percent, drawn_percent, container, update_lock, listeners>>
UpdateEnds ==
  /\ emitting = "complete" \/ (emitting = "update" /\ percent # FullPercent)
  /\ emitting' = "no" /\ update_lock' = FALSE
  /\ UNCHANGED <<mounted, percent, drawn_percent, container, listeners, heard>>

(* reset() of a bar at zero, one that is not mounted, or by a listener:    *)
(* the update is refused or has nothing to do, and 'reset' is emitted.     *)
BarReset == /\ ~Accepted(0) /\ Told("reset")
         /\ UNCHANGED <<mounted, percent, drawn_percent, container, update_lock, listeners, emitting>>

(* destroy(), also by a listener: 'destroy' is emitted to a map without    *)
(* listeners, and on() adds none to it.                                    *)
BarDestroy == /\ container # "none" /\ mounted' = FALSE /\ container' = "none" /\ listeners' = {}
           /\ UNCHANGED <<percent, drawn_percent, update_lock, emitting, heard>>

BarNext == \/ UpdateEmitted \/ UpdateEnds \/ BarReset \/ BarDestroy
        \/ \E p \in Percents : Render(p) \/ UpdatePercent(p)

BarSpec == BarInit /\ [][BarNext]_bar_vars

(* progress_bar.js: the lock is held by an update whose listeners still    *)
(* run, so that a bar never refuses updates for ever, and a bar that is    *)
(* shown shows its percent, whatever its listeners did.                    *)
LockIsReleased ==
  /\ update_lock <=> emitting # "no"
  /\ mounted => container = "shown" /\ drawn_percent = percent
  /\ emitting = "complete" => percent = FullPercent

-----------------------------------------------------------------------------
(* The values of the variables of every machine. *)
TypeOK == InputTypeOK /\ ButtonTypeOK /\ BarTypeOK
=============================================================================
