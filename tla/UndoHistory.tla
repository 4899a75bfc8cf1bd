------------------------------ MODULE UndoHistory ------------------------------
(***************************************************************************)
(* What a history of states promises: the states done so far, oldest      *)
(* first and the current one last, and the states undone that may be done *)
(* again, next first.  Doing something new forgets what was undone; only  *)
(* the Limit newest states are kept.                                       *)
(***************************************************************************)
EXTENDS Naturals, Sequences

CONSTANTS State, Limit

VARIABLES done, undone

Init == done = << >> /\ undone = << >>

Newest(s) == IF Len(s) > Limit THEN Tail(s) ELSE s

Do(s) ==
  /\ done' = Newest(Append(done, s))
  /\ undone' = << >>

\* The current state is always one of those done, so one of them stays.
Undo(n) ==
  /\ n < Len(done)
  /\ done' = SubSeq(done, 1, Len(done) - n)
  /\ undone' = SubSeq(done, Len(done) - n + 1, Len(done)) \o undone

Redo(n) ==
  /\ n <= Len(undone)
  /\ done' = done \o SubSeq(undone, 1, n)
  /\ undone' = SubSeq(undone, n + 1, Len(undone))

Next ==
  \/ \E s \in State : Do(s)
  \/ \E n \in 1 .. Limit : Undo(n) \/ Redo(n)

Spec == Init /\ [][Next]_<<done, undone>>
================================================================================
