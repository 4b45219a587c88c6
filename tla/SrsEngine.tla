------------------------------ MODULE SrsEngine ------------------------------
(***************************************************************************)
(* features/lesson_engine/srs_engine.js: the spaced repetition engine.  A   *)
(* caller keeps the cards and has each review calculated by one of three    *)
(* strategies, behind an LRU cache of results; the algorithm and the        *)
(* parameters change while cards are in use, and the engine is saved and    *)
(* restored with its cache.                                                *)
(*                                                                         *)
(* Ease factors are in hundredths, the adaptable parameters in              *)
(* ten-thousandths (the rest cut off), againMultiplier in hundredths;       *)
(* arithmetic is exact, rounding half up like Math.round.  Left out: the    *)
(* metrics of a result, telemetry, events, middlewares and plugins (code of *)
(* the caller), dates, and the migration of saved engines of older versions. *)
(***************************************************************************)
EXTENDS Integers, Sequences, FiniteSets

CONSTANTS
  Cards,
  Algorithms,   \* the algorithms in use
  MaxInterval,  \* config.maxInterval, in days
  CacheSize,    \* config.cacheSize
  MaxHistory,   \* MAX_HISTORY_LENGTH
  NoSave,       \* the engine has not been saved
  MaxCalls      \* bound: calls of the engine

MAX_INTERVAL == 36500

VARIABLES
  cards,    \* card -> its SRSData, kept by the caller
  config,   \* #config, as far as it changes
  cache,    \* #cache: results by key, least recently used first
  saved,    \* what toJSON returned last
  own,      \* history: card -> its reviews since it was reset
  calls     \* calls of the engine so far

vars == <<cards, config, cache, saved, own, calls>>

AGAIN == 0
HARD == 1
GOOD == 2
EASY == 3
Qualities == AGAIN..EASY

MinEase == 130
MaxEase == 500

Round(n, d) == (2 * n + d) \div (2 * d)
AtLeast(low, n) == IF n < low THEN low ELSE n
AtMost(high, n) == IF n > high THEN high ELSE n

Scheduled == [repetition : Nat, ease : MinEase..MaxEase,
              interval : 0..MaxInterval, lapses : Nat]
Config == [algorithm : Algorithms, fuzz : BOOLEAN, bonus : Nat, penalty : Nat,
           hardPenalty : Nat, again : Nat]

NewCard == [repetition |-> 0, ease |-> 250, interval |-> 0, lapses |-> 0,
            history |-> <<>>]

Init ==
  /\ cards = [c \in Cards |-> NewCard]
  /\ \E algorithm \in Algorithms, fuzz \in BOOLEAN :
       config = [algorithm |-> algorithm, fuzz |-> fuzz, bonus |-> 1500,
                 penalty |-> 2000, hardPenalty |-> 1000, again |-> 50]
  /\ cache = <<>> /\ saved = NoSave
  /\ own = [c \in Cards |-> <<>>] /\ calls = 0
-----------------------------------------------------------------------------
(* The strategies under configuration k: repetition, ease and interval      *)
(* after answer q, before fuzzing and the cap.                             *)
Clamped(ease) == AtLeast(MinEase, AtMost(MaxEase, ease))

SM2(q, d) ==
  LET ease == Clamped(d.ease + 10 - (5 - q) * (8 + 2 * (5 - q))) IN
  [repetition |-> IF q >= 3 THEN d.repetition + 1 ELSE 0,
   ease |-> ease,
   interval |-> IF q < 3 \/ d.repetition = 0 THEN 1
                ELSE IF d.repetition = 1 THEN 6
                ELSE Round(d.interval * ease, 100)]

M_GoodInterval(d) ==
  IF d.repetition <= 1 THEN 1 ELSE Round(d.interval * d.ease, 100)
GoodInterval(d) ==
  IF d.repetition = 0 THEN 1
  ELSE IF d.repetition = 1 THEN 6
  ELSE Round(d.interval * d.ease, 100)

(* An ease after a change of `by` ten-thousandths, toFixed(2). *)
Eased(ease, by) == AtLeast(MinEase, AtMost(MaxEase, Round(100 * ease + by, 100)))

Anki(k, q, d) ==
  [repetition |-> IF q = AGAIN THEN 0 ELSE d.repetition + 1,
   ease |-> CASE q = AGAIN -> Eased(d.ease, - k.penalty)
              [] q = HARD -> Eased(d.ease, - k.hardPenalty)
              [] q = GOOD -> d.ease
              [] q = EASY -> Eased(d.ease, k.bonus),
   interval |-> CASE q = AGAIN -> 1
                  [] q = HARD -> AtLeast(1, Round(d.interval * 120, 100))
                  [] q = GOOD -> GoodInterval(d)
                  [] q = EASY -> IF d.repetition = 0 THEN 4
                                 ELSE Round(d.interval * d.ease * 3, 100)]

(* The new stability is the fraction n / m. *)
FSRS(k, q, d) ==
  LET gain == IF q >= 3 THEN 100 + 12 * q ELSE k.again
      n == IF d.repetition = 0 THEN 4 * gain
                               ELSE 10 * gain * d.interval * 2 ^ d.repetition
      m == IF d.repetition = 0 THEN 1000 ELSE 1000 * 3 ^ d.repetition
  IN
  [repetition |-> d.repetition + 1,
   ease |-> Clamped(Round(200 * n, m)),
   interval |-> IF d.repetition = 0 THEN 1 ELSE Round(30 * n, m)]

Strategy(k, q, d) ==
  CASE k.algorithm = "sm2" -> SM2(q, d)
    [] k.algorithm = "anki" -> Anki(k, q, d)
    [] k.algorithm = "fsrs" -> FSRS(k, q, d)

IsLapse(q, algorithm) == q < (IF algorithm = "anki" THEN 1 ELSE 3)

(* Random offset of at most fuzzRange = 5%, at least one day. *)
Fuzzed(k, interval) ==
  LET range == AtLeast(1, (interval * 5) \div 100) IN
  IF k.fuzz /\ k.algorithm # "fsrs"
    THEN {AtLeast(1, interval + offset) : offset \in (- range)..range}
    ELSE {interval}

(* What a strategy may answer. *)
Outcomes(k, q, d) ==
  LET s == Strategy(k, q, d) IN
  {[repetition |-> s.repetition, ease |-> s.ease,
    interval |-> AtMost(MaxInterval, interval),
    lapses |-> IF IsLapse(q, k.algorithm) THEN d.lapses + 1 ELSE d.lapses] :
   interval \in Fuzzed(k, s.interval)}

Remembered(history, q) ==
  LET all == Append(history, q) IN
  IF Len(all) > MaxHistory THEN Tail(all) ELSE all

Schedule(d) == [repetition |-> d.repetition, ease |-> d.ease,
                interval |-> d.interval, lapses |-> d.lapses]
-----------------------------------------------------------------------------
(* #generateCacheKey, without the parameters that never change. *)
M_Key(q, d) == [quality |-> q, data |-> [Schedule(d) EXCEPT !.lapses = 0],
                algorithm |-> config.algorithm, again |-> config.again]
Key(q, d) == [quality |-> q, data |-> Schedule(d),
              algorithm |-> config.algorithm, again |-> config.again]

(* LRUCache.get and set. *)
Hits(key) == {i \in DOMAIN cache : cache[i].key = key}
Refreshed(i) == SubSeq(cache, 1, i - 1) \o SubSeq(cache, i + 1, Len(cache))
                \o <<cache[i]>>
Inserted(entry) ==
  Append(IF Len(cache) >= CacheSize THEN Tail(cache) ELSE cache, entry)

(* #validate: the data are what a caller may pass to calculate.             *)
Valid(d) == d.repetition \in Nat /\ d.ease \in MinEase..MaxEase
            /\ d.interval \in 0..MAX_INTERVAL

(* calculate; the caller keeps the data of the result as the card's.        *)
Calculates(c, q) ==
  /\ Valid(cards[c])
  /\ own' = [own EXCEPT ![c] =
               Append(@, [quality |-> q, algorithm |-> config.algorithm])]
  /\ UNCHANGED <<config, saved>>

ReviewCached(c, q) ==
  /\ Calculates(c, q)
  /\ \E i \in Hits(Key(q, cards[c])) :
       /\ cards' = [cards EXCEPT ![c] = cache[i].data]
       /\ cache' = Refreshed(i)

ReviewCalculated(c, q) ==
  /\ Calculates(c, q)
  /\ Hits(Key(q, cards[c])) = {}
  /\ \E s \in Outcomes(config, q, cards[c]) :
       LET data == [repetition |-> s.repetition, ease |-> s.ease,
                    interval |-> s.interval, lapses |-> s.lapses,
                    history |-> Remembered(cards[c].history, q)]
       IN
       /\ cards' = [cards EXCEPT ![c] = data]
       /\ cache' = Inserted([key |-> Key(q, cards[c]), data |-> data])

ResetCard(c) ==
  /\ cards' = [cards EXCEPT ![c] = NewCard]
  /\ own' = [own EXCEPT ![c] = <<>>]
  /\ UNCHANGED <<config, cache, saved>>
-----------------------------------------------------------------------------
SwitchAlgorithm(algorithm) ==
  /\ config' = [config EXCEPT !.algorithm = algorithm]
  /\ cache' = <<>>
  /\ UNCHANGED <<cards, saved, own>>

(* adaptToUser: `struggles` is an average quality below 2.5, failing the    *)
(* share of answers below 2.  An average above 4 cannot be reached with     *)
(* answers up to 3, and an average from 2.5 on excludes many failures.      *)
Adapted(struggles, failing) ==
  [config EXCEPT
     !.bonus = IF struggles THEN (@ * 12) \div 10 ELSE @,
     !.penalty = IF struggles THEN (@ * 8) \div 10 ELSE @,
     !.hardPenalty = IF struggles THEN (@ * 8) \div 10 ELSE @,
     !.again = CASE failing = "many" -> 60
                 [] failing = "few" -> 40
                 [] failing = "some" -> @]

AdaptToUser(struggles, failing) ==
  /\ failing = "many" => struggles
  /\ config' = Adapted(struggles, failing)
  /\ cache' = <<>>
  /\ UNCHANGED <<cards, saved, own>>

ClearCache ==
  /\ cache' = <<>>
  /\ UNCHANGED <<cards, config, saved, own>>

ToJSON ==
  /\ saved' = [config |-> config, cache |-> cache]
  /\ UNCHANGED <<cards, config, cache, own>>

(* The caller goes on with the engine fromJSON returns. *)
FromJSON ==
  /\ saved # NoSave
  /\ config' = saved.config /\ cache' = saved.cache
  /\ UNCHANGED <<cards, saved, own>>

Call ==
  \/ \E c \in Cards, q \in Qualities : ReviewCached(c, q) \/ ReviewCalculated(c, q)
  \/ \E c \in Cards : ResetCard(c)
  \/ \E algorithm \in Algorithms : SwitchAlgorithm(algorithm)
  \/ \E struggles \in BOOLEAN, failing \in {"few", "some", "many"} :
       AdaptToUser(struggles, failing)
  \/ ClearCache \/ ToJSON \/ FromJSON

Next == calls < MaxCalls /\ calls' = calls + 1 /\ Call

Spec == Init /\ [][Next]_vars
-----------------------------------------------------------------------------
Data == [repetition : Nat, ease : Int, interval : Int, lapses : Nat,
         history : Seq(Qualities)]
Entry == [key : [quality : Qualities, data : Scheduled, algorithm : Algorithms,
                 again : Nat],
          data : Data]
TypeOK ==
  /\ cards \in [Cards -> Data]
  /\ \A c \in Cards : Len(cards[c].history) <= MaxHistory
  /\ config \in Config
  /\ cache \in Seq(Entry)
  /\ saved # NoSave => saved.config \in Config /\ saved.cache \in Seq(Entry)
  /\ own \in [Cards -> Seq([quality : Qualities, algorithm : Algorithms])]
  /\ calls \in Nat

(* A result can be reviewed again: #validate never refuses what a strategy, *)
(* the cache or a restored engine returned, whatever the answers were.      *)
Reviewable == \A c \in Cards : Valid(cards[c]) /\ cards[c].interval <= MaxInterval

(* The cache is transparent: every entry is what the current strategy       *)
(* answers under the current parameters, across switchAlgorithm,            *)
(* adaptToUser, toJSON and fromJSON.                                       *)
CacheAgrees ==
  \A i \in DOMAIN cache :
    Schedule(cache[i].data) \in
      Outcomes(config, cache[i].key.quality, cache[i].key.data)

(* The cache is a map of at most cacheSize keys.                            *)
CacheIsBoundedMap ==
  /\ Len(cache) <= CacheSize
  /\ \A i, j \in DOMAIN cache : cache[i].key = cache[j].key => i = j

(* Cards do not mix: though results are shared, the repetitions, the lapses *)
(* and the last remembered answer of a card are those of its own answers.   *)
Resets(answer) == answer.algorithm # "fsrs"
                  /\ IsLapse(answer.quality, answer.algorithm)
CardsDoNotMix ==
  \A c \in Cards :
    LET lapsed == {i \in DOMAIN own[c] :
                     IsLapse(own[c][i].quality, own[c][i].algorithm)}
        since == {i \in DOMAIN own[c] :
                    \A j \in i..Len(own[c]) : ~ Resets(own[c][j])}
    IN
    /\ cards[c].lapses = Cardinality(lapsed)
    /\ cards[c].repetition = Cardinality(since)
    /\ own[c] # <<>> =>
         cards[c].history[Len(cards[c].history)] = own[c][Len(own[c])].quality

ByFSRS(answers) == \E i \in DOMAIN answers : answers[i].algorithm = "fsrs"

(* A reviewed card is not due again on the same day, fuzzed or not, unless  *)
(* the FSRS strategy scheduled it.                                         *)
ScheduledAhead ==
  \A c \in Cards :
    own[c] # <<>> /\ ~ ByFSRS(own[c]) => cards[c].interval >= 1

(* Cards and the cache of results stay sound over every sequence of calls.  *)
CardsAreSound ==
  /\ TypeOK /\ Reviewable /\ ScheduledAhead
  /\ CacheAgrees /\ CacheIsBoundedMap /\ CardsDoNotMix

(* A successful answer never shortens the interval, over any mixture of     *)
(* SM-2 and Anki answers, adaptations and cached results.                   *)
SuccessNeverShortens ==
  [][\A c \in Cards :
       LET n == Len(own'[c]) IN
       n > Len(own[c]) /\ ~ ByFSRS(own'[c]) /\ ~ config.fuzz
       /\ ~ IsLapse(own'[c][n].quality, own'[c][n].algorithm)
       => cards'[c].interval >= cards[c].interval]_vars
=============================================================================
