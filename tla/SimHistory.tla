------------------------------- MODULE SimHistory -------------------------------
(***************************************************************************)
(* SIM state (cognitive/sim_state.py): a trajectory of validated           *)
(* snapshots with an index that rewinds and goes forward, bounded by       *)
(* trimming its oldest end.                                                *)
(***************************************************************************)
EXTENDS Integers, Sequences

CONSTANTS
  Data,        \* the state dictionaries
  Deltas,      \* what update merges into them: functions from data to data
  Accepted,    \* the data that pass every registered invariant
  MaxHistory

ASSUME HistoryAssumption ==
  /\ MaxHistory \in Nat \ {0}
  /\ Accepted \subseteq Data
  /\ Deltas \subseteq [Data -> Data]

VARIABLES
  history,        \* snapshots, oldest first
  current_index   \* counts from 0; -1 before the first snapshot

historyVars == <<history, current_index>>

Snapshot == [version : Nat, data : Data]

HistoryInit == history = << >> /\ current_index = -1

\* Mutant: a new state is appended behind the undone ones.
PushKeepsFuture(data) ==
  LET grown == Append(history, [version |-> Len(history), data |-> data])
  IN IF Len(grown) > MaxHistory
     THEN history' = Tail(grown) /\ UNCHANGED current_index
     ELSE history' = grown /\ current_index' = current_index + 1

\* A trajectory trimmed in front loses one position under its index.
Push(data) ==
  LET kept == SubSeq(history, 1, current_index + 1)
      grown == Append(kept, [version |-> Len(kept), data |-> data])
  IN IF Len(grown) > MaxHistory
     THEN history' = Tail(grown) /\ UNCHANGED current_index
     ELSE history' = grown /\ current_index' = current_index + 1

\* The first state is not validated.
Initialize(data) == Push(data)

HasCurrent == current_index \in 0 .. Len(history) - 1
Current == history[current_index + 1].data

\* StateValidator.validate: false and an exception are refused alike.
Valid(data) == data \in Accepted

\* Merges the delta into the current state.
Update(delta) ==
  /\ HasCurrent
  /\ Valid(delta[Current])
  /\ Push(delta[Current])

Rewind(steps) ==
  /\ current_index - steps >= 0
  /\ current_index' = current_index - steps
  /\ UNCHANGED history

Forward(steps) ==
  /\ current_index + steps < Len(history)
  /\ current_index' = current_index + steps
  /\ UNCHANGED history

HistoryNext ==
  \/ \E data \in Data : Initialize(data)
  \/ \E delta \in Deltas : Update(delta)
  \/ \E steps \in 1 .. MaxHistory : Rewind(steps) \/ Forward(steps)

HistorySpec == HistoryInit /\ [][HistoryNext]_historyVars

HistoryTypeOK ==
  /\ history \in Seq(Snapshot)
  /\ Len(history) <= MaxHistory
  /\ current_index \in -1 .. Len(history) - 1
  /\ history # << >> => current_index >= 0

--------------------------------------------------------------------------------
(* Properties *)

DataOf(s) == [i \in 1 .. Len(s) |-> s[i].data]

Undoable == INSTANCE UndoHistory WITH
  State <- Data, Limit <- MaxHistory,
  done <- DataOf(SubSeq(history, 1, current_index + 1)),
  undone <- DataOf(SubSeq(history, current_index + 2, Len(history)))

\* Rewinding, going forward, trimming the future of a rewound trajectory and
\* trimming its oldest states together behave as a bounded undo history:
\* the index never drifts from the state it stands for.
ImplementsUndo == Undoable!Spec

================================================================================
