------------------------------- MODULE Leases -------------------------------
(***************************************************************************)
(* What a pool promises its callers: every request is answered at most      *)
(* once, with a connection nobody else holds or with a refusal, and a       *)
(* connection stays with its holder until that holder returns it.  A        *)
(* returned connection may pass to another request in the same step.        *)
(***************************************************************************)
CONSTANTS Requests, Connections, NoConnection

VARIABLES answer,  \* request -> "open", "held", "refused" or "returned"
          held     \* request -> the connection it holds

lvars == <<answer, held>>

Holders(c) == {r \in Requests : held[r] = c}

Init ==
  /\ answer = [r \in Requests |-> "open"]
  /\ held = [r \in Requests |-> NoConnection]

Grant(r, c) ==
  /\ answer[r] = "open"
  /\ Holders(c) = {}
  /\ answer' = [answer EXCEPT ![r] = "held"]
  /\ held' = [held EXCEPT ![r] = c]

Refuse(r) ==
  /\ answer[r] = "open"
  /\ answer' = [answer EXCEPT ![r] = "refused"]
  /\ UNCHANGED held

Return(r) ==
  /\ answer[r] = "held"
  /\ answer' = [answer EXCEPT ![r] = "returned"]
  /\ held' = [held EXCEPT ![r] = NoConnection]

HandOver(r, next) ==
  /\ answer[r] = "held" /\ answer[next] = "open"
  /\ answer' = [answer EXCEPT ![r] = "returned", ![next] = "held"]
  /\ held' = [held EXCEPT ![r] = NoConnection, ![next] = held[r]]

Next ==
  \E r \in Requests :
    \/ \E c \in Connections : Grant(r, c)
    \/ Refuse(r)
    \/ Return(r)
    \/ \E next \in Requests \ {r} : HandOver(r, next)

Spec == Init /\ [][Next]_lvars

(* No connection is in two hands. *)
ExclusiveUse == \A c \in Connections : \A r, s \in Holders(c) : r = s
=============================================================================
