----------------------------- MODULE StateModels -----------------------------
(***************************************************************************)
(* The state models MAX-OS-1 repositories store, as seen by the calls that *)
(* write them: a version, a value, and the transition ids applied so far.  *)
(* A value is named by the call that wrote it.                             *)
(***************************************************************************)
EXTENDS Naturals, Sequences

CONSTANTS Calls,  \* calls of Substrate.transitionX on one key
          Ids,    \* transition ids; a redelivered request reuses its id
          IdOf,   \* the id each call carries
          None    \* the value of a key that holds no state

ASSUME IdOfType == IdOf \in [Calls -> Ids]
ASSUME NoneIsNoCall == None \notin Calls

Model == [version: Nat, value: Calls \union {None}, applied: Seq(Ids)]

\* A missing key counts as version 0 with no applied transitions.
Blank == [version |-> 0, value |-> None, applied |-> <<>>]

\* appliedTransitions.includes(id)
Applied(id, model) == \E i \in 1 .. Len(model.applied) : model.applied[i] = id

\* The model a call writes over the model it read.
NextModel(c, model) ==
  [version |-> model.version + 1,
   value   |-> c,
   applied |-> Append(model.applied, IdOf[c])]

\* The model that the calls of s leave when they take effect in that order.
StateAfter(s) ==
  [version |-> Len(s),
   value   |-> IF s = <<>> THEN None ELSE s[Len(s)],
   applied |-> [i \in 1 .. Len(s) |-> IdOf[s[i]]]]

Occurs(c, s) == \E i \in 1 .. Len(s) : s[i] = c
==============================================================================
