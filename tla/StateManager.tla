--------------------------- MODULE StateManager ---------------------------
(***************************************************************************)
(* core/state/state_manager.js: a state changed by reducers of actions     *)
(* that first pass the middlewares, one await each, with a history for     *)
(* undo, transactions, snapshots that expire, selectors and time travel.   *)
(* _notify_listeners calls forEach of a WeakMap, which has none: it throws *)
(* after the state was changed, so every dispatch and every transaction    *)
(* with a change fails.  The state is the set of actions it carries; their *)
(* reducers add them and take them back, which an application may do.      *)
(***************************************************************************)
EXTENDS Naturals, Sequences, FiniteSets, Functions

CONSTANTS Actions, Kept,   \* max_history, 50 in the code
          NoSnap

VARIABLES state, action_history, forgotten,   \* actions the history dropped
          dispatching,  \* actions: "new", "middlewares", "over"
          transaction,  \* [at, initial_state, changes]
          snapshot,     \* transaction_backup, or NoSnap
          selector,     \* the cached value of a selector, or NoSnap
          selected,     \* what the selectors gave last: [with, value]
          time_travel,  \* dispatch is replaced: it only records
          restored      \* a transaction put an older state back

vars == <<state, action_history, forgotten, dispatching, transaction, snapshot,
          selector, selected, time_travel, restored>>

NoTransaction == [at |-> "none", initial_state |-> {}, changes |-> <<>>]

Init ==
  /\ state = {} /\ action_history = <<>> /\ forgotten = {}
  /\ dispatching = [a \in Actions |-> "new"]
  /\ transaction = NoTransaction
  /\ snapshot = NoSnap /\ selector = NoSnap
  /\ selected = [with |-> FALSE, value |-> {}]
  /\ time_travel = FALSE /\ restored = FALSE

others == <<transaction, snapshot, selector, selected, time_travel, restored>>
looks == <<snapshot, selector, selected, time_travel>>

(* The reducer and the history, at the end of a dispatch. *)
Reduced(a) ==
  /\ state' = state \cup {a}
  /\ LET h == Append(action_history, a) IN
     IF Len(h) > Kept
     THEN action_history' = Tail(h) /\ forgotten' = forgotten \cup {Head(h)}
     ELSE action_history' = h /\ UNCHANGED forgotten

-----------------------------------------------------------------------------
(* dispatch: to the first middleware. *)
Dispatch(a) ==
  /\ dispatching[a] = "new"
  /\ dispatching' = [dispatching EXCEPT ![a] = IF time_travel THEN "over" ELSE "middlewares"]
  /\ UNCHANGED <<state, action_history, forgotten, others>>

(* The middlewares are done: the state changes and the call throws. *)
Dispatched(a) ==
  /\ dispatching[a] = "middlewares" /\ a \notin Range(transaction.changes)
  /\ Reduced(a)
  /\ dispatching' = [dispatching EXCEPT ![a] = "over"]
  /\ UNCHANGED others

(* Its signal is aborted, or a middleware throws. *)
DispatchFails(a) ==
  /\ dispatching[a] = "middlewares" /\ a \notin Range(transaction.changes)
  /\ dispatching' = [dispatching EXCEPT ![a] = "over"]
  /\ UNCHANGED <<state, action_history, forgotten, others>>

(* Mutant: what was undone stays in the history. *)
M_Undo ==
  /\ action_history # <<>>
  /\ state' = state \ {action_history[Len(action_history)]}
  /\ UNCHANGED <<action_history, forgotten, dispatching, others>>

Undo ==
  /\ action_history # <<>>
  /\ state' = state \ {action_history[Len(action_history)]}
  /\ action_history' = SubSeq(action_history, 1, Len(action_history) - 1)
  /\ UNCHANGED <<forgotten, dispatching, others>>

-----------------------------------------------------------------------------
Closed ==
  /\ transaction' = NoTransaction
  /\ dispatching' = [a \in Actions |-> IF a \in Range(transaction.changes) THEN "over"
                                       ELSE dispatching[a]]

(* begin_transaction, add_change, take_snapshot and commit, to the first   *)
(* middleware of its first change.                                         *)
BeginTransaction ==
  /\ transaction = NoTransaction
  /\ transaction' = [NoTransaction EXCEPT !.at = "open", !.initial_state = state]
  /\ UNCHANGED <<state, action_history, forgotten, dispatching, looks, restored>>

AddChange(a) ==
  /\ transaction.at = "open" /\ dispatching[a] = "new"
  /\ dispatching' = [dispatching EXCEPT ![a] = "middlewares"]
  /\ transaction' = [transaction EXCEPT !.changes = Append(@, a)]
  /\ UNCHANGED <<state, action_history, forgotten, looks, restored>>

Commit ==
  /\ transaction.at = "open"
  /\ snapshot' = state
  /\ IF transaction.changes = <<>> \/ time_travel THEN Closed
     ELSE transaction' = [transaction EXCEPT !.at = "commit"] /\ UNCHANGED dispatching
  /\ UNCHANGED <<state, action_history, forgotten, selector, selected, time_travel, restored>>

(* The first change is applied, or a middleware throws; rollback puts the  *)
(* state of the beginning back and leaves the history as it is.            *)
Rollback ==
  /\ transaction.at = "commit"
  /\ \/ LET h == Append(action_history, Head(transaction.changes)) IN
        IF Len(h) > Kept
        THEN action_history' = Tail(h) /\ forgotten' = forgotten \cup {Head(h)}
        ELSE action_history' = h /\ UNCHANGED forgotten
     \/ UNCHANGED <<action_history, forgotten>>
  /\ state' = transaction.initial_state /\ restored' = TRUE
  /\ Closed
  /\ UNCHANGED looks

-----------------------------------------------------------------------------
(* create_selector: without dependencies the first value stays; with them  *)
(* a key is compared with a value, and the value is always computed anew.  *)
Select(with) ==
  /\ LET value == IF ~with /\ selector # NoSnap THEN selector ELSE state IN
     selector' = value /\ selected' = [with |-> with, value |-> value]
  /\ UNCHANGED <<state, action_history, forgotten, dispatching, transaction, snapshot, time_travel, restored>>

SnapshotExpires ==
  /\ snapshot # NoSnap /\ snapshot' = NoSnap
  /\ UNCHANGED <<state, action_history, forgotten, dispatching, transaction, selector,
                 selected, time_travel, restored>>

(* There is no way back. *)
StartTimeTravel ==
  /\ ~time_travel /\ time_travel' = TRUE
  /\ UNCHANGED <<state, action_history, forgotten, dispatching, transaction, snapshot, selector,
                 selected, restored>>

Next ==
  \/ \E a \in Actions : Dispatch(a) \/ Dispatched(a) \/ DispatchFails(a) \/ AddChange(a)
  \/ Undo \/ BeginTransaction \/ Commit \/ Rollback
  \/ \E with \in BOOLEAN : Select(with)
  \/ SnapshotExpires \/ StartTimeTravel

Spec == Init /\ [][Next]_vars

-----------------------------------------------------------------------------
TypeOK ==
  /\ state \subseteq Actions /\ Range(action_history) \subseteq Actions
  /\ Len(action_history) <= Kept
  /\ snapshot = NoSnap \/ snapshot \subseteq Actions

(* As long as no transaction put an older state back, the state is what    *)
(* the actions of the history and those dropped from it made it, each      *)
(* once, although every dispatch and undo fails after its change.          *)
HistoryExplainsState ==
  ~restored => /\ state = Range(action_history) \cup forgotten
               /\ Len(action_history) + Cardinality(forgotten) = Cardinality(state)
=============================================================================
