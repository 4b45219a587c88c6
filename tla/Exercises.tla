----------------------------- MODULE Exercises ------------------------------
(***************************************************************************)
(* The exercises of a lesson: how they are drawn from its vocabulary, and  *)
(* the card on which one is answered. The machines share no state: the     *)
(* card is given its exercise.                                             *)
(***************************************************************************)
EXTENDS Naturals, Sequences, FiniteSets, FiniteSetsExt

-----------------------------------------------------------------------------
(***************************************************************************)
(* features/exercise/exercise_service.js: the exercises of a lesson, drawn *)
(* from its vocabulary, their wrong options, and the distance that tells a *)
(* typing error from a wrong answer.                                       *)
(***************************************************************************)

CONSTANTS
  Vocabularies,  \* sequences of words; the id of a word is its place
  MaxCount,      \* exercises asked
  OptionCount,   \* wrong options of an exercise (3 in the code)
  MaxTries,      \* MAX_GENERATE_TRIES, for each exercise asked
  Letters,       \* letters of the words whose distance is taken
  MaxMeasured    \* distances a behaviour takes

VARIABLES vocabulary, asked, generate_tries, exercises, drawn, phase, distance_cache
generator_vars == <<vocabulary, asked, generate_tries, exercises, drawn, phase, distance_cache>>

Ids == 1..Len(vocabulary)
Texts == UNION {[1..n -> Letters] : n \in 0..2}

GeneratorTypeOK ==
  /\ vocabulary \in Vocabularies /\ asked \in 0..MaxCount
  /\ generate_tries \in 0..MaxTries * MaxCount
  /\ Len(exercises) <= MaxCount
  /\ phase \in {"idle", "choosing", "drawing", "returned", "thrown"}
  /\ distance_cache \subseteq Texts \X Texts \X Nat

GeneratorInit == /\ vocabulary \in Vocabularies /\ asked = 0 /\ generate_tries = 0 /\ exercises = <<>> /\ drawn = {}
        /\ phase = "idle" /\ distance_cache = {}

(* generate_multiple_exercises: the ids it used are excluded, so that each *)
(* try the rate limit lets through is a new exercise.                      *)
GenerateMultiple(n) == /\ phase = "idle" /\ asked' = n /\ phase' = "choosing"
                       /\ UNCHANGED <<vocabulary, generate_tries, exercises, drawn, distance_cache>>

Used == {exercises[i].id : i \in DOMAIN exercises}
Candidates == Ids \ Used

Goes == phase = "choosing" /\ Len(exercises) < asked /\ generate_tries < MaxTries * asked
Return == /\ phase = "choosing" /\ ~Goes /\ phase' = "returned"
          /\ UNCHANGED <<vocabulary, asked, generate_tries, exercises, drawn, distance_cache>>

(* A call the rate limit answers with nothing.                             *)
Limited == /\ Goes /\ generate_tries' = generate_tries + 1
           /\ UNCHANGED <<vocabulary, asked, exercises, drawn, phase, distance_cache>>

(* generate_exercise without a candidate throws, and with it the exercises *)
(* already made are lost.                                                  *)
NotFound == /\ Goes /\ Candidates = {} /\ phase' = "thrown" /\ exercises' = <<>>
            /\ UNCHANGED <<vocabulary, asked, generate_tries, drawn, distance_cache>>

(* A candidate and a type; a blank to fill has no options.                 *)
Choose(id, type) ==
  /\ Goes /\ id \in Candidates /\ generate_tries' = generate_tries + 1
  /\ exercises' = Append(exercises, [id |-> id, type |-> type, vocab |-> Candidates])
  /\ drawn' = {} /\ phase' = IF type = "fill-blank" THEN "choosing" ELSE "drawing"
  /\ UNCHANGED <<vocabulary, asked, distance_cache>>

(* _generate_options: other words, as often as they occur, bound the loop; *)
(* options are distinct, so that a word that occurs twice among too few    *)
(* others leaves it drawing for ever.                                      *)
Last == exercises[Len(exercises)]
Correct == vocabulary[Last.id]
Others == {i \in Last.vocab : vocabulary[i] # Correct}
WantsMore == Cardinality(drawn) < Min({OptionCount, Cardinality(Others)})

Draw(i) == /\ phase = "drawing" /\ WantsMore /\ i \in Others /\ vocabulary[i] \notin drawn
           /\ drawn' = drawn \cup {vocabulary[i]}
           /\ UNCHANGED <<vocabulary, asked, generate_tries, exercises, phase, distance_cache>>
Drawn == /\ phase = "drawing" /\ ~WantsMore /\ phase' = "choosing"
         /\ UNCHANGED <<vocabulary, asked, generate_tries, exercises, drawn, distance_cache>>

(* _calculate_sync, with the table as a recursive function of its places.  *)
Distance(a, b) ==
  LET dp[p \in (0..Len(a)) \X (0..Len(b))] ==
        LET i == p[1]  j == p[2] IN
        IF i = 0 THEN j ELSE IF j = 0 THEN i
        ELSE Min({dp[<<i - 1, j>>] + 1, dp[<<i, j - 1>>] + 1,
                  dp[<<i - 1, j - 1>>] + (IF a[i] = b[j] THEN 0 ELSE 1)})
  IN dp[<<Len(a), Len(b)>>]

(* calculate_levenshtein_distance, by the worker or without it; an empty   *)
(* word is answered before the cache.                                      *)
Measure(a, b) ==
  /\ a # <<>> /\ b # <<>> /\ phase = "idle" /\ Cardinality(distance_cache) < MaxMeasured
  /\ distance_cache' = distance_cache \cup {<<a, b, Distance(a, b)>>}
  /\ UNCHANGED <<vocabulary, asked, generate_tries, exercises, drawn, phase>>

GeneratorNext == \/ Return \/ Limited \/ NotFound \/ Drawn
        \/ \E n \in 1..MaxCount : GenerateMultiple(n)
        \/ \E i \in Ids : Draw(i) \/ \E t \in {"multiple-choice", "fill-blank"} : Choose(i, t)
        \/ \E a, b \in Texts : Measure(a, b)

GeneratorSpec == GeneratorInit /\ [][GeneratorNext]_generator_vars

(* The words one edit makes of w: a letter changed, removed or added.      *)
Edits(w) ==
  {[w EXCEPT ![i] = x] : i \in DOMAIN w, x \in Letters}
  \cup {SubSeq(w, 1, i - 1) \o SubSeq(w, i + 1, Len(w)) : i \in DOMAIN w}
  \cup {SubSeq(w, 1, i) \o <<x>> \o SubSeq(w, i + 1, Len(w)) : i \in 0..Len(w), x \in Letters}

(* The words n edits reach.                                                *)
Reached(w, n) ==
  LET r[k \in 0..n] == IF k = 0 THEN {w} ELSE r[k - 1] \cup UNION {Edits(v) : v \in r[k - 1]}
  IN r[n]

(* exercise_service.js: a call that returns fewer exercises than asked was *)
(* limited, and no word is asked twice; a loop that can add no option has a word that     *)
(* occurs twice among the others; a cached distance is the least number of *)
(* edits that makes one word of the other.                                 *)
ExercisesAreDistinct ==
  /\ phase = "returned" => Len(exercises) = asked \/ generate_tries = MaxTries * asked
  /\ Cardinality(Used) = Len(exercises)
  /\ phase = "drawing" => Correct \notin drawn
  /\ phase = "drawing" /\ WantsMore /\ {vocabulary[i] : i \in Others} \subseteq drawn =>
       \E i, j \in Others : i # j /\ vocabulary[i] = vocabulary[j]
  /\ \A m \in distance_cache :
       /\ m[2] \in Reached(m[1], m[3])
       /\ m[3] > 0 => m[2] \notin Reached(m[1], m[3] - 1)

-----------------------------------------------------------------------------
(***************************************************************************)
(* ui/components/exercise_card.js: the card that shows one exercise, its   *)
(* time limit, its attempts and the delayed call that leads to the next.   *)
(* The page that judges the answers is external: it calls update for every *)
(* answer, late or for an exercise that is no longer shown. The renderers  *)
(* are kept as far as they answer: that of a translation has neither       *)
(* updateState nor destroy, and a call throws.                             *)
(***************************************************************************)

CONSTANTS MaxAttempts    \* config.maxAttempts

VARIABLES exercise,      \* the type of the exercise rendered, or "none"
          renderer,      \* the type of the renderer, or "none"
          cardState, attempts,
          timer,         \* the interval of the time limit runs
          disabled,      \* the options or the input are disabled
          flipped,       \* the flashcard shows its back
          judged,        \* answers the page is judging
          advances       \* timeouts that will call onComplete

card_vars == <<exercise, renderer, cardState, attempts, timer, disabled, flipped, judged, advances>>

Types == {"choice", "blank", "translation", "flashcard", "matching"}
Rendered == Types \ {"matching"}
MaxTimeouts == 2         \* bound: calls of onComplete under way
MaxJudged == 2           \* bound: answers being judged

CardInit ==
  /\ exercise = "none" /\ renderer = "none" /\ cardState = "none" /\ attempts = 0
  /\ timer = FALSE /\ disabled = FALSE /\ flipped = FALSE
  /\ judged = 0 /\ advances = 0

(* What renderer.updateState leaves of the inputs in state s. *)
UpdateState(s) ==
  disabled' = IF renderer \in {"choice", "blank"} THEN s \in {"correct", "wrong"} ELSE disabled

(* destroy, and the render that begins with it: a translation stays. *)
Destroyable == renderer # "translation"

Render(type, limited) ==
  /\ IF Destroyable
     THEN /\ exercise' = type /\ cardState' = "ready" /\ attempts' = 0
          /\ timer' = limited /\ disabled' = FALSE /\ flipped' = FALSE
          /\ renderer' = IF type \in Rendered THEN type ELSE "none"
     ELSE timer' = FALSE /\ UNCHANGED <<exercise, renderer, cardState, attempts, disabled, flipped>>
  /\ UNCHANGED <<judged, advances>>

Destroy ==
  /\ timer' = FALSE
  /\ IF Destroyable
     THEN exercise' = "none" /\ renderer' = "none" /\ cardState' = "none" /\ attempts' = 0
     ELSE UNCHANGED <<exercise, renderer, cardState, attempts>>
  /\ disabled' = FALSE
  /\ UNCHANGED <<flipped, judged, advances>>

(* An answer goes to the page, which judges it.  The buttons stay as       *)
(* render made them: the one beside a blank submits after the verdict as   *)
(* well; the back of a flashcard never offers its ratings.                 *)
Answered ==
  /\ judged < MaxJudged /\ judged' = judged + 1
  /\ UNCHANGED <<exercise, renderer, cardState, attempts, timer, disabled, advances>>

ClickOption == renderer = "choice" /\ ~disabled /\ Answered /\ UNCHANGED flipped
SubmitText == renderer \in {"blank", "translation"} /\ Answered /\ UNCHANGED flipped
Flip == renderer = "flashcard" /\ ~flipped /\ flipped' = TRUE /\ Answered

TooOften(n) == n >= MaxAttempts

Update(correct) ==
  LET s == IF correct THEN "correct" ELSE IF TooOften(attempts + 1) THEN "wrong" ELSE "ready" IN
  /\ judged > 0 /\ judged' = judged - 1
  /\ renderer # "none" /\ attempts <= MaxAttempts
  /\ advances < MaxTimeouts
  /\ attempts' = attempts + 1
  /\ cardState' = s
  /\ timer' = (timer /\ s = "ready")
  /\ advances' = advances + (IF correct THEN 1 ELSE 0)
  /\ UpdateState(s)
  /\ UNCHANGED <<exercise, renderer, flipped>>

(* update throws: nothing is rendered. *)
UpdateFails ==
  /\ judged > 0 /\ judged' = judged - 1
  /\ renderer = "none"
  /\ UNCHANGED <<exercise, renderer, cardState, attempts, timer, disabled, flipped, advances>>

ShowHint ==
  /\ renderer # "none"
  /\ UpdateState(cardState)
  /\ UNCHANGED <<exercise, renderer, cardState, attempts, timer, advances, flipped, judged>>

(* Mutant: the timer goes on. *)
M_Skip ==
  /\ renderer # "none"
  /\ cardState' = "skipped"
  /\ UpdateState("skipped")
  /\ UNCHANGED <<exercise, renderer, attempts, timer, advances, flipped, judged>>

(* The timer is stopped after the renderer was told. *)
Skip ==
  /\ renderer # "none"
  /\ cardState' = "skipped"
  /\ UpdateState("skipped")
  /\ timer' = (timer /\ renderer = "translation")
  /\ UNCHANGED <<exercise, renderer, attempts, advances, flipped, judged>>

HandleTimeout ==
  /\ timer
  /\ timer' = FALSE
  /\ IF cardState = "ready"
     THEN cardState' = "timeout" /\ UpdateState("timeout")
     ELSE UNCHANGED <<cardState, disabled>>
  /\ UNCHANGED <<exercise, renderer, attempts, advances, flipped, judged>>

(* onComplete is called whatever the card shows by then. *)
Advance ==
  /\ advances > 0
  /\ advances' = advances - 1
  /\ UNCHANGED <<exercise, renderer, cardState, attempts, timer, disabled, flipped, judged>>

CardNext ==
  \/ \E t \in Types, limited \in BOOLEAN : Render(t, limited)
  \/ \E correct \in BOOLEAN : Update(correct)
  \/ ClickOption \/ SubmitText \/ Flip \/ UpdateFails \/ Destroy \/ ShowHint \/ Skip \/ HandleTimeout \/ Advance

CardSpec == CardInit /\ [][CardNext]_card_vars

-----------------------------------------------------------------------------
(* The values of the card. *)
CardTypeOK ==
  /\ exercise \in Types \cup {"none"} /\ renderer \in Rendered \cup {"none"}
  /\ renderer \in {exercise, "none"}
  /\ cardState \in {"none", "ready", "correct", "wrong", "timeout", "skipped"}
  /\ attempts \in 0..MaxAttempts + 1 /\ timer \in BOOLEAN /\ advances \in 0..MaxTimeouts

(* A time limit runs only for an exercise that waits for its answer, so it *)
(* never takes an answered or a skipped one for timed out; what waits has  *)
(* attempts left, and the options or the input of what was decided are     *)
(* disabled, whatever is answered late.  A translation that was skipped is *)
(* the exception.                                                          *)
AnswersAreBounded ==
  /\ timer => \/ cardState = "ready"
              \/ cardState = "skipped" /\ renderer = "translation"
  /\ cardState = "ready" => attempts < MaxAttempts
  /\ renderer \in {"choice", "blank"} /\ cardState \in {"correct", "wrong"} => disabled

-----------------------------------------------------------------------------
(* The values of the variables of every machine. *)
TypeOK == GeneratorTypeOK /\ CardTypeOK
=============================================================================
