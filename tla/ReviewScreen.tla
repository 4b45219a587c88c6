---------------------------- MODULE ReviewScreen ----------------------------
(***************************************************************************)
(* ui/screens/review_screen.js: the state machine of a review, its session *)
(* of cards, and the calls that are under way: the loads a start makes and *)
(* the answers that are being submitted.  After an await the code reads    *)
(* the screen's session anew, whichever it is by then.  The repository's   *)
(* server, storage and the offline queue are external.                     *)
(***************************************************************************)
EXTENDS Naturals, Sequences

CONSTANTS Loads, Answers,   \* bound: calls under way
          Cards,            \* number of cards that are due
          MaxSessions       \* bound

VARIABLES machine,      \* ReviewStateMachine.current
          shown,        \* the section the page shows
          session,      \* [id, index, results] or NoSession
          loads,        \* what get_due_cards awaits
          controller,   \* the load abort_controller belongs to
          answers,      \* the session an answer was given in, or 0
          completing,   \* the answers whose session is being saved as complete
          sessions,     \* number of sessions made
          raced         \* calls overlapped since this session was made

vars == <<machine, shown, session, loads, controller, answers, completing,
          sessions, raced>>

NoSession == [id |-> 0, index |-> 0, results |-> <<>>]

Transitions ==
  [loading |-> {"in_progress", "empty", "error"}, in_progress |-> {"completed", "paused", "error"},
   paused |-> {"in_progress"}, completed |-> {"loading"}, empty |-> {"loading"}, error |-> {"loading"}]
After(m, to) == IF to \in Transitions[m] THEN to ELSE m

Init ==
  /\ machine = "loading" /\ shown = "none" /\ session = NoSession
  /\ loads = [l \in Loads |-> "none"] /\ controller = CHOOSE l \in Loads : TRUE
  /\ answers = [a \in Answers |-> 0] /\ completing = {} /\ sessions = 0 /\ raced = FALSE

Show(view) == shown' = IF shown = "destroyed" THEN shown ELSE view

(* _start_review up to its await; without a user it fails at once. *)
Start(l, known, states) ==
  /\ states[l] = "none"
  /\ IF known
     THEN /\ machine' = After(machine, "loading") /\ Show("loading")
          /\ loads' = [states EXCEPT ![l] = "fetch"] /\ controller' = l
     ELSE /\ machine' = After(After(machine, "loading"), "error") /\ Show("error")
          /\ loads' = states /\ UNCHANGED controller

FirstStart(l, known) ==
  /\ shown = "none"
  /\ Start(l, known, loads)
  /\ UNCHANGED <<session, answers, completing, sessions, raced>>

Retry(l, known) ==
  /\ shown = "error"
  /\ Start(l, known, loads)
  /\ UNCHANGED <<session, answers, completing, sessions, raced>>

Aborted == [loads EXCEPT ![controller] = IF @ = "fetch" THEN "aborted" ELSE @]

Reset(l, known) ==
  /\ shown \notin {"none", "destroyed"}
  /\ Start(l, known, Aborted)
  /\ session' = NoSession
  /\ UNCHANGED <<answers, completing, sessions, raced>>

(* What follows the request, the cache, hears no abort any more. *)
Fetched(l) ==
  /\ loads[l] \in {"fetch", "aborted"}
  /\ loads' = [loads EXCEPT ![l] = IF @ = "fetch" THEN "cache" ELSE "none"]
  /\ UNCHANGED <<machine, shown, session, controller, answers, completing, sessions, raced>>

Loaded(l) ==
  /\ loads[l] = "cache" /\ sessions < MaxSessions
  /\ loads' = [loads EXCEPT ![l] = "none"]
  /\ session' = [id |-> sessions + 1, index |-> 1, results |-> <<>>]
  /\ sessions' = sessions + 1
  /\ raced' = (session # NoSession \/ shown = "destroyed" \/ machine = "completed")
  /\ machine' = After(machine, "in_progress") /\ Show("review")
  /\ UNCHANGED <<controller, answers, completing>>

LoadedNone(l) ==
  /\ loads[l] = "cache"
  /\ loads' = [loads EXCEPT ![l] = "none"]
  /\ machine' = After(machine, "empty") /\ Show("empty")
  /\ UNCHANGED <<session, controller, answers, completing, sessions, raced>>

-----------------------------------------------------------------------------
(* A key from 1 to 5; the buttons of a card call the same. *)
HandleAnswer(a) ==
  /\ shown # "destroyed" /\ answers[a] = 0
  /\ machine = "in_progress" /\ session # NoSession
  /\ Len(session.results) <= Cards
  /\ session' = [session EXCEPT !.results = Append(@, session.index)]
  /\ answers' = [answers EXCEPT ![a] = session.id]
  /\ raced' = (raced \/ \E b \in Answers : answers[b] = session.id)
  /\ UNCHANGED <<machine, shown, loads, controller, completing, sessions>>

IsComplete == session.index >= Cards

Overtaken(a) == session # NoSession /\ session.id # answers[a]

(* submit_review is over: the session may be another one.  After the last  *)
(* card the session is saved, and only then is the review completed.       *)
Submitted(a) ==
  /\ answers[a] # 0 /\ a \notin completing
  /\ raced' = (raced \/ Overtaken(a))
  /\ IF session # NoSession /\ IsComplete
     THEN completing' = completing \cup {a} /\ UNCHANGED <<answers, session>>
     ELSE /\ answers' = [answers EXCEPT ![a] = 0]
          /\ session' = IF session = NoSession THEN session ELSE [session EXCEPT !.index = @ + 1]
          /\ UNCHANGED completing
  /\ IF session = NoSession THEN UNCHANGED shown ELSE Show("review")
  /\ UNCHANGED <<machine, loads, controller, sessions>>

(* save_session is over, whichever session the screen has by then. *)
Saved(a) ==
  /\ a \in completing
  /\ completing' = completing \ {a} /\ answers' = [answers EXCEPT ![a] = 0]
  /\ raced' = (raced \/ Overtaken(a))
  /\ machine' = After(machine, "completed") /\ Show("complete")
  /\ UNCHANGED <<session, loads, controller, sessions>>

(* submit_review or save_session fails: the card stays, its result was     *)
(* counted.                                                                *)
SubmitFails(a) ==
  /\ answers[a] # 0
  /\ completing' = completing \ {a} /\ answers' = [answers EXCEPT ![a] = 0]
  /\ UNCHANGED <<machine, shown, session, loads, controller, sessions, raced>>

Pause ==
  /\ shown # "destroyed" /\ machine = "in_progress"
  /\ machine' = "paused"
  /\ UNCHANGED <<shown, session, loads, controller, answers, completing, sessions, raced>>

Destroy ==
  /\ shown \notin {"none", "destroyed"}
  /\ loads' = Aborted
  /\ shown' = "destroyed" /\ session' = NoSession
  /\ UNCHANGED <<machine, controller, answers, completing, sessions, raced>>

Next ==
  \/ \E l \in Loads, known \in BOOLEAN : FirstStart(l, known) \/ Retry(l, known) \/ Reset(l, known)
  \/ \E l \in Loads : Fetched(l) \/ Loaded(l) \/ LoadedNone(l)
  \/ \E a \in Answers : HandleAnswer(a) \/ Submitted(a) \/ Saved(a) \/ SubmitFails(a)
  \/ Pause \/ Destroy

Spec == Init /\ [][Next]_vars

-----------------------------------------------------------------------------
(* The values of the screen. *)
TypeOK ==
  /\ machine \in DOMAIN Transitions
  /\ shown \in {"none", "loading", "empty", "review", "complete", "error", "destroyed"}
  /\ loads \in [Loads -> {"none", "fetch", "aborted", "cache"}]
  /\ session.index \in 0..Cards /\ answers \in [Answers -> 0..MaxSessions]
  /\ completing \subseteq Answers

(* Unless calls overlapped, the cards are answered in their order, none is *)
(* passed over, and a review that is shown as complete has a result for    *)
(* each of its cards, whatever was paused, refused or repeated before.     *)
NoCardIsPassedOver ==
  LET r == session.results IN
  session # NoSession /\ ~raced =>
    /\ \A i \in 1..Len(r) : r[i] \in (IF i = 1 THEN {1} ELSE {r[i - 1], r[i - 1] + 1})
    /\ session.index \in (IF r = <<>> THEN {1} ELSE {r[Len(r)], r[Len(r)] + 1})
    /\ machine = "completed" => r # <<>> /\ r[Len(r)] = Cards
=============================================================================
