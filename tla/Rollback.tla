-------------------------------- MODULE Rollback --------------------------------
(***************************************************************************)
(* RollbackManager (tec/rollback.py): a stack of undo actions.  The        *)
(* functions that undo them are callbacks, which may record further        *)
(* actions, clear the stack or roll back themselves, return or raise.      *)
(***************************************************************************)
EXTENDS Naturals, Sequences, SequencesExt

CONSTANTS
  MaxActions,   \* bound of the model: actions recorded, numbered in order
  MaxNested     \* bound of the model: calls of rollback inside one another

VARIABLES
  undo_stack,
  rollbacks,    \* the calls of rollback, the innermost last: the action it is
                \* undoing (0 between two) and its success
  undone,       \* history: the actions whose undo began, in that order
  recorded,     \* history: for each action, how many had been undone when it
                \* was recorded
  cleared       \* history

undoVars == <<undo_stack, rollbacks, undone, recorded, cleared>>

UndoInit ==
  /\ undo_stack = << >> /\ rollbacks = << >>
  /\ undone = << >> /\ recorded = << >> /\ cleared = {}

\* The program has control: outside every rollback, or in a callback.
InControl == rollbacks # << >> => Last(rollbacks).undoing # 0
InLoop == rollbacks # << >> /\ Last(rollbacks).undoing = 0

Innermost(call) == Append(Front(rollbacks), call)

RecordAction ==
  /\ InControl /\ Len(recorded) < MaxActions
  /\ recorded' = Append(recorded, Len(undone))
  /\ undo_stack' = Append(undo_stack, Len(recorded'))
  /\ UNCHANGED <<rollbacks, undone, cleared>>

\* Whatever to_point says, everything is rolled back.
StartRollback ==
  /\ InControl /\ Len(rollbacks) < MaxNested
  /\ rollbacks' = Append(rollbacks, [undoing |-> 0, success |-> TRUE])
  /\ UNCHANGED <<undo_stack, undone, recorded, cleared>>

\* Mutant: the oldest action is undone first.
PopOldest ==
  /\ InLoop /\ undo_stack # << >>
  /\ rollbacks' = Innermost([Last(rollbacks) EXCEPT !.undoing = Head(undo_stack)])
  /\ undone' = Append(undone, Head(undo_stack))
  /\ undo_stack' = Tail(undo_stack)
  /\ UNCHANGED <<recorded, cleared>>

\* The action leaves the stack before its callback runs.
PopUndo ==
  /\ InLoop /\ undo_stack # << >>
  /\ rollbacks' = Innermost([Last(rollbacks) EXCEPT !.undoing = Last(undo_stack)])
  /\ undone' = Append(undone, Last(undo_stack))
  /\ undo_stack' = Front(undo_stack)
  /\ UNCHANGED <<recorded, cleared>>

\* A callback that raised is reported, and the loop goes on.
UndoEnds(raised) ==
  /\ rollbacks # << >> /\ InControl
  /\ rollbacks' = Innermost([undoing |-> 0, success |-> Last(rollbacks).success /\ ~raised])
  /\ UNCHANGED <<undo_stack, undone, recorded, cleared>>

EndRollback ==
  /\ InLoop /\ undo_stack = << >>
  /\ rollbacks' = Front(rollbacks)
  /\ UNCHANGED <<undo_stack, undone, recorded, cleared>>

ClearUndo ==
  /\ InControl
  /\ cleared' = cleared \union Range(undo_stack)
  /\ undo_stack' = << >>
  /\ UNCHANGED <<rollbacks, undone, recorded>>

UndoNext ==
  \/ RecordAction
  \/ StartRollback
  \/ PopUndo
  \/ \E raised \in BOOLEAN : UndoEnds(raised)
  \/ EndRollback
  \/ ClearUndo

--------------------------------------------------------------------------------
(* Properties *)

\* Every action recorded is either still on the stack, or cleared, or undone
\* once; and of two actions undone, the one recorded first is undone last,
\* unless it was undone before the other was recorded.  Failing callbacks, and
\* callbacks that record, clear or roll back, do not change that.
UndoneInReverse ==
  /\ \A a \in DOMAIN recorded :
       Cardinality({i \in DOMAIN undone : undone[i] = a})
         + Cardinality({i \in DOMAIN undo_stack : undo_stack[i] = a})
         + (IF a \in cleared THEN 1 ELSE 0) = 1
  /\ \A i, j \in DOMAIN undone :
       i < j /\ undone[i] < undone[j] => recorded[undone[j]] >= i
================================================================================
