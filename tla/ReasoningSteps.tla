----------------------------- MODULE ReasoningSteps -----------------------------
(***************************************************************************)
(* The reasoning trajectory (cognitive/sim_trajectory.py): a tree of steps *)
(* and the path through it, which backtracking shortens.  Steps are named  *)
(* by their type and the length of the path, so names come back after a    *)
(* backtrack, while the tree still holds the steps that had them.          *)
(***************************************************************************)
EXTENDS Naturals, Sequences, SequencesExt

CONSTANTS
  Types,      \* StepType
  MaxDepth,   \* SIMTrajectory.max_depth
  MaxPath     \* bound of the model: the longest path

ASSUME StepsAssumption == MaxPath \in Nat

VARIABLES
  steps,           \* tree.steps: from the ids begun to their latest step
  step_sequence,   \* the ids of the path
  current_step_id, \* << >> for None, as in parent
  depth_exceeded

stepVars == <<steps, step_sequence, current_step_id, depth_exceeded>>

StepsInit ==
  /\ steps = << >>
  /\ step_sequence = << >>
  /\ current_step_id = << >>
  /\ depth_exceeded = FALSE

NextId(type) == <<type, Len(step_sequence)>>
OnPath == Range(step_sequence)

\* The parent learns of the child and never forgets it.
AddStep(id, parent) ==
  [x \in DOMAIN steps \union {id} |->
     IF x = id THEN [status |-> "executing", parent |-> parent, children |-> {}]
     ELSE IF x = parent THEN [steps[x] EXCEPT !.children = @ \union {id}]
     ELSE steps[x]]

BeginStep(id, parent) ==
  /\ Len(step_sequence) < MaxPath
  /\ steps' = AddStep(id, parent)
  /\ step_sequence' = Append(step_sequence, id)
  /\ current_step_id' = id

\* A root step.
RecordStep(type) ==
  /\ BeginStep(NextId(type), << >>)
  /\ depth_exceeded' = (depth_exceeded \/ Len(step_sequence') > MaxDepth)

\* A caller of begin_step that names its steps alike, under a step of the path.
BeginChild(type, parent) ==
  /\ BeginStep(NextId(type), parent)
  /\ UNCHANGED depth_exceeded

\* Success and failure alike.  The completion may come after the step was
\* backtracked, and then find a later step under its name.
CompleteStep(id) ==
  /\ steps' = [steps EXCEPT ![id].status = "completed"]
  /\ UNCHANGED <<step_sequence, current_step_id, depth_exceeded>>

\* Mutant: the path is cut first, then its last steps are marked.
BacktrackCutsFirst(n) ==
  /\ n <= Len(step_sequence)
  /\ step_sequence' = SubSeq(step_sequence, 1, Len(step_sequence) - n)
  /\ steps' = [x \in DOMAIN steps |->
                 IF \E i \in DOMAIN step_sequence' :
                      i > Len(step_sequence') - n /\ x = step_sequence'[i]
                 THEN [steps[x] EXCEPT !.status = "backtracked"] ELSE steps[x]]
  /\ current_step_id' = IF step_sequence' = << >> THEN << >> ELSE Last(step_sequence')
  /\ UNCHANGED depth_exceeded

Backtrack(n) ==
  /\ n <= Len(step_sequence)
  /\ step_sequence' = SubSeq(step_sequence, 1, Len(step_sequence) - n)
  /\ steps' = [x \in DOMAIN steps |->
                 IF x \in OnPath \ Range(step_sequence')
                 THEN [steps[x] EXCEPT !.status = "backtracked"] ELSE steps[x]]
  /\ current_step_id' = IF step_sequence' = << >> THEN << >> ELSE Last(step_sequence')
  /\ UNCHANGED depth_exceeded

StepsNext ==
  \/ \E type \in Types : RecordStep(type) \/ \E parent \in OnPath : BeginChild(type, parent)
  \/ \E id \in DOMAIN steps : CompleteStep(id)
  \/ \E n \in 1 .. MaxPath : Backtrack(n)

--------------------------------------------------------------------------------
(* What explain and get_subtree read from the tree.                        *)

PathTo ==
  LET f[id \in DOMAIN steps] ==
        IF steps[id].parent = << >> THEN <<id>> ELSE Append(f[steps[id].parent], id)
  IN f

\* explain: the steps of the path to id, with their status.
Explain(id) ==
  [i \in DOMAIN PathTo[id] |->
     [id |-> PathTo[id][i], status |-> steps[PathTo[id][i]].status]]

Subtree ==
  LET f[id \in DOMAIN steps] == {id} \union UNION {f[c] : c \in steps[id].children}
  IN f

--------------------------------------------------------------------------------
(* Properties *)

\* However often names come back and completions come late, the steps of the
\* path have different names, and the explanation of one of them consists of
\* steps of the path up to it, in their order, none of them backtracked; the
\* step is found under each of them; and the current step is the last of the
\* path.
ExplanationsHold ==
  /\ current_step_id = IF step_sequence = << >> THEN << >> ELSE Last(step_sequence)
  /\ \A i, j \in DOMAIN step_sequence : step_sequence[i] = step_sequence[j] => i = j
  /\ \A i \in DOMAIN step_sequence :
       LET id == step_sequence[i]
           path == PathTo[id]
       IN /\ \A k \in DOMAIN path : \E a \in 1 .. i : path[k] = step_sequence[a]
          /\ \A k, l \in DOMAIN path, a, b \in 1 .. i :
               k < l /\ path[k] = step_sequence[a] /\ path[l] = step_sequence[b] => a < b
          /\ \A x \in Range(path) : id \in Subtree[x]
          /\ \A e \in Range(Explain(id)) : e.status # "backtracked"
================================================================================
