---------------------------- MODULE AudioService ----------------------------
(***************************************************************************)
(* core/audio/audio-service.js (the code inside its Markdown fence): the   *)
(* players of the service, the cache that keeps them by their url, and the *)
(* queue of requests with priorities.  A word to pronounce has no url, and *)
(* all of them share the key undefined.  Elements and speech are external: *)
(* they answer late or fail.  Volume, fading, recording and the drawing of *)
(* the sound are left out.                                                 *)
(***************************************************************************)
EXTENDS Naturals, Sequences, FiniteSets

CONSTANTS No,              \* nothing
          Words, Files,    \* texts to speak, urls to play
          Players,         \* bound: players that are made
          MaxQueue         \* bound: requests that wait

VARIABLES player,          \* [res, state, step]; step is what play awaits
          plays,           \* a call in flight on the player: what it asked
          kept,            \* the cache: key -> player
          activePlayer,
          queue,           \* <<[res, priority]>>
          processing       \* the queue is being worked off

vars == <<player, plays, kept, activePlayer, queue, processing>>

NoPlayer == [res |-> No, state |-> "none", step |-> "none"]
Key(res) == IF res \in Words THEN "undefined" ELSE res
Keys == Files \cup {"undefined"}
Free == {p \in Players : player[p] = NoPlayer}
NoCall == [asked |-> No, queued |-> FALSE]

Init ==
  /\ player = [p \in Players |-> NoPlayer]
  /\ plays = [p \in Players |-> NoCall]
  /\ kept = [k \in Keys |-> No]
  /\ activePlayer = No
  /\ queue = <<>> /\ processing = FALSE

(* play: the cached player of the key, or a new one that loads.            *)
PlayOf(res, queued) ==
  LET k == kept[Key(res)] IN
  IF k # No
  THEN /\ plays[k] = NoCall
       /\ player' = [player EXCEPT ![k].step = "cached"]
       /\ plays' = [plays EXCEPT ![k] = [asked |-> res, queued |-> queued]]
  ELSE /\ Free # {}
       /\ \E p \in {CHOOSE q \in Free : TRUE} :
            /\ player' = [player EXCEPT ![p] = [res |-> res, state |-> "loading", step |-> "load"]]
            /\ plays' = [plays EXCEPT ![p] = [asked |-> res, queued |-> queued]]

Play(res) ==
  /\ PlayOf(res, FALSE)
  /\ UNCHANGED <<kept, activePlayer, queue, processing>>

(* A word is not loaded: its state stays loading. *)
Loaded(p) ==
  LET r == player[p].res IN
  /\ player[p].step = "load"
  /\ player' = [player EXCEPT ![p].step = "play",
                              ![p].state = IF r \in Words THEN @ ELSE "idle"]
  /\ kept' = [kept EXCEPT ![Key(r)] = p]
  /\ UNCHANGED <<plays, activePlayer, queue, processing>>

(* Mutant: the queue is free again as soon as its call settled. *)
M_ItemSettled(p) == processing' = (processing /\ ~plays[p].queued)

(* _processQueue: one item after the other, the queue's call settled       *)
(* first.                                                                  *)
ItemSettled(p) == processing' = (processing /\ ~(plays[p].queued /\ queue = <<>>))
Waiting == processing /\ \A p \in Players : ~plays[p].queued

Played(p) ==
  /\ player[p].step \in {"play", "cached"}
  /\ player' = [player EXCEPT ![p].step = "none",
                              ![p].state = IF player[p].res \in Words THEN @ ELSE "playing"]
  /\ activePlayer' = IF player[p].step = "play" THEN p ELSE activePlayer
  /\ plays' = [plays EXCEPT ![p] = NoCall]
  /\ ItemSettled(p)
  /\ UNCHANGED <<kept, queue>>

PlayFails(p) ==
  /\ player[p].step # "none"
  /\ player' = [player EXCEPT ![p].step = "none", ![p].state = "error"]
  /\ plays' = [plays EXCEPT ![p] = NoCall]
  /\ ItemSettled(p)
  /\ UNCHANGED <<kept, activePlayer, queue>>

-----------------------------------------------------------------------------
(* AudioQueue.enqueue: before the first of a lower priority. *)
Place(priority) ==
  Cardinality({i \in 1..Len(queue) : \A j \in 1..i : queue[j].priority <= priority})

(* A request that finds the queue idle is played at once. *)
PlayWithPriority(res, priority) ==
  \/ /\ processing /\ Len(queue) < MaxQueue
     /\ LET n == Place(priority) IN
        queue' = SubSeq(queue, 1, n) \o <<[res |-> res, priority |-> priority]>>
                   \o SubSeq(queue, n + 1, Len(queue))
     /\ UNCHANGED <<player, plays, kept, activePlayer, processing>>
  \/ /\ ~processing
     /\ PlayOf(res, TRUE)
     /\ processing' = TRUE
     /\ UNCHANGED <<kept, activePlayer, queue>>

TakeItem ==
  /\ Waiting /\ queue # <<>>
  /\ PlayOf(Head(queue).res, TRUE)
  /\ queue' = Tail(queue)
  /\ UNCHANGED <<kept, activePlayer, processing>>

(* A stop emptied the queue while its item was being played. *)
QueueDone ==
  /\ Waiting /\ queue = <<>>
  /\ processing' = FALSE
  /\ UNCHANGED <<player, plays, kept, activePlayer, queue>>

-----------------------------------------------------------------------------
(* stop: the active player only, and whoever waits is forgotten. *)
Stop ==
  /\ queue' = <<>>
  /\ player' = IF activePlayer = No THEN player
               ELSE [player EXCEPT ![activePlayer].state = "stopped"]
  /\ activePlayer' = No
  /\ UNCHANGED <<plays, kept, processing>>

Pause ==
  /\ activePlayer # No /\ player[activePlayer].state = "playing"
  /\ player' = [player EXCEPT ![activePlayer].state = "paused"]
  /\ UNCHANGED <<plays, kept, activePlayer, queue, processing>>

Resume ==
  /\ activePlayer # No /\ player[activePlayer].state = "paused"
  /\ player' = [player EXCEPT ![activePlayer].state = "playing"]
  /\ UNCHANGED <<plays, kept, activePlayer, queue, processing>>

Ended(p) ==
  /\ player[p].state = "playing"
  /\ player' = [player EXCEPT ![p].state = "ended"]
  /\ UNCHANGED <<plays, kept, activePlayer, queue, processing>>

(* AudioCache: an hour is over, or fifty newer ones came. *)
Evicted(k) ==
  /\ kept[k] # No
  /\ kept' = [kept EXCEPT ![k] = No]
  /\ UNCHANGED <<player, plays, activePlayer, queue, processing>>

Next ==
  \/ \E r \in Words \cup Files : Play(r) \/ \E n \in 0..1 : PlayWithPriority(r, n)
  \/ \E p \in Players : Loaded(p) \/ Played(p) \/ PlayFails(p) \/ Ended(p)
  \/ TakeItem \/ QueueDone \/ Stop \/ Pause \/ Resume
  \/ \E k \in Keys : Evicted(k)

Spec == Init /\ [][Next]_vars

-----------------------------------------------------------------------------
TypeOK ==
  /\ \A p \in Players : /\ (player[p].step # "none") = (plays[p] # NoCall)
                        /\ player[p].res \in Words \cup Files \cup {No}
  /\ Len(queue) <= MaxQueue /\ activePlayer \in Players \cup {No}

(* The queue plays one request at a time, the most urgent first and in     *)
(* their order among equals, and no request waits with nobody to take it.  *)
QueueIsServed ==
  /\ \A i, j \in 1..Len(queue) : i < j => queue[i].priority <= queue[j].priority
  /\ queue # <<>> => processing
  /\ Cardinality({p \in Players : plays[p].queued}) <= 1

=============================================================================
