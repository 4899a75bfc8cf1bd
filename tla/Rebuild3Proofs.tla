----------------------------- MODULE Rebuild3Proofs -----------------------------
(* Theorems about four libraries of Rebuild 3: the rollback manager, whatever    *)
(* its callbacks do; the flow of a request through the execution pipeline,       *)
(* whatever handlers are registered; the inference cache, whatever its size; and *)
(* recovery from the log of the durable substrate, however long it is.           *)
EXTENDS EndToEnd, Rollback, InferenceCache, FiniteSetTheorems, SequenceTheorems,
        WellFoundedInduction, TLAPS

--------------------------------------------------------------------------------
(* The rollback manager.                                                         *)

UndoSpec == UndoInit /\ [][UndoNext]_undoVars

UndoTypes ==
  /\ undo_stack \in Seq(Nat) /\ undone \in Seq(Nat) /\ recorded \in Seq(Nat)
  /\ cleared \subseteq DOMAIN recorded
  /\ \A i \in DOMAIN undo_stack : undo_stack[i] \in DOMAIN recorded
  /\ \A i \in DOMAIN undone : undone[i] \in DOMAIN recorded

\* The stack is in the order of recording.
StackOrdered == \A i, j \in DOMAIN undo_stack : i < j => undo_stack[i] < undo_stack[j]

\* An action is in one place.
OnePlace ==
  /\ \A i, j \in DOMAIN undone : undone[i] = undone[j] => i = j
  /\ \A i \in DOMAIN undone : undone[i] \notin cleared
  /\ \A j \in DOMAIN undo_stack : undo_stack[j] \notin cleared
  /\ \A i \in DOMAIN undone, j \in DOMAIN undo_stack : undone[i] # undo_stack[j]

SomePlace ==
  \A a \in DOMAIN recorded :
    \/ a \in cleared
    \/ \E i \in DOMAIN undo_stack : undo_stack[i] = a
    \/ \E i \in DOMAIN undone : undone[i] = a

\* When an action is undone before a later one is, the later one was recorded after
\* that; so was whatever is on the stack and younger than an action undone.
UndoneOrdered ==
  /\ \A i, j \in DOMAIN undone : i < j /\ undone[i] < undone[j] => recorded[undone[j]] >= i
  /\ \A i \in DOMAIN undone, j \in DOMAIN undo_stack :
       undone[i] < undo_stack[j] => recorded[undo_stack[j]] >= i

UndoInv == UndoTypes /\ StackOrdered /\ OnePlace /\ SomePlace /\ UndoneOrdered

LEMMA AppendFacts ==
  ASSUME NEW S, NEW s \in Seq(S), NEW x \in S
  PROVE  /\ Append(s, x) \in Seq(S) /\ Len(s) \in Nat
         /\ DOMAIN s = 1 .. Len(s) /\ DOMAIN Append(s, x) = 1 .. Len(s) + 1
         /\ \A i \in DOMAIN s : Append(s, x)[i] = s[i]
         /\ Append(s, x)[Len(s) + 1] = x
  OBVIOUS

LEMMA FrontFacts ==
  ASSUME NEW S, NEW s \in Seq(S), s # << >>
  PROVE  /\ Front(s) \in Seq(S) /\ Len(s) \in Nat /\ Len(s) > 0
         /\ DOMAIN s = 1 .. Len(s) /\ DOMAIN Front(s) = 1 .. Len(s) - 1
         /\ \A i \in DOMAIN Front(s) : Front(s)[i] = s[i]
         /\ Last(s) = s[Len(s)]
  BY DEF Front, Last

LEMMA UndoInvInit == UndoInit => UndoInv
  BY DEF UndoInit, UndoInv, UndoTypes, StackOrdered, OnePlace, SomePlace, UndoneOrdered

LEMMA RecordKeepsUndo == UndoInv /\ RecordAction => UndoInv'
<1> SUFFICES ASSUME UndoInv, RecordAction PROVE UndoInv'
  OBVIOUS
<1> DEFINE a == Len(recorded) + 1
           m == Len(undo_stack) + 1
           stack == undo_stack'
           next == recorded'
<1>1. /\ undo_stack \in Seq(Nat) /\ undone \in Seq(Nat) /\ recorded \in Seq(Nat)
      /\ Len(recorded) \in Nat /\ Len(undone) \in Nat
      /\ recorded' = Append(recorded, Len(undone)) /\ undo_stack' = Append(undo_stack, a)
      /\ undone' = undone /\ cleared' = cleared
  BY DEF UndoInv, UndoTypes, RecordAction
<1>2. /\ next \in Seq(Nat) /\ DOMAIN recorded = 1 .. a - 1 /\ DOMAIN next = 1 .. a /\ next[a] = Len(undone)
      /\ a \in Nat /\ a > 0
      /\ \A b \in DOMAIN recorded : next[b] = recorded[b] /\ b \in Nat /\ b < a
      /\ \A b \in DOMAIN next : b = a \/ b \in DOMAIN recorded
  BY <1>1, AppendFacts
<1>3. /\ stack \in Seq(Nat) /\ m \in Nat /\ m \in DOMAIN stack /\ stack[m] = a
      /\ \A i \in DOMAIN undo_stack : stack[i] = undo_stack[i] /\ i \in DOMAIN stack
      /\ \A i \in DOMAIN stack : i \in Nat /\ (i = m \/ (i \in DOMAIN undo_stack /\ i < m))
  BY <1>1, <1>2, AppendFacts
<1>4. /\ cleared \subseteq DOMAIN recorded
      /\ \A i \in DOMAIN undo_stack : undo_stack[i] \in DOMAIN recorded
      /\ \A i \in DOMAIN undone : undone[i] \in DOMAIN recorded /\ i \in Nat /\ i <= Len(undone)
  <2>1. DOMAIN undone = 1 .. Len(undone)
    BY <1>1
  <2> HIDE DEF a, m, stack, next
  <2> QED
    BY <1>1, <2>1 DEF UndoInv, UndoTypes
<1> HIDE DEF a, m, stack, next
<1>5. a \in DOMAIN next /\ a \notin DOMAIN recorded
  BY <1>2
<1>6. UndoTypes'
  BY <1>1, <1>2, <1>3, <1>4, <1>5 DEF UndoTypes, stack, next
<1>7. StackOrdered'
  <2>1. ASSUME NEW i \in DOMAIN stack, NEW j \in DOMAIN stack, i < j PROVE stack[i] < stack[j]
    <3>1. i \in DOMAIN undo_stack /\ i \in Nat /\ j \in Nat
      BY <1>3, <2>1
    <3>2. CASE j = m
      BY <1>2, <1>3, <1>4, <3>1, <3>2
    <3>3. CASE j \in DOMAIN undo_stack
      BY <1>3, <2>1, <3>1, <3>3 DEF UndoInv, StackOrdered
    <3> QED
      BY <1>3, <3>2, <3>3
  <2> QED
    BY <2>1 DEF StackOrdered, stack
<1>8. OnePlace'
  <2>1. \A j \in DOMAIN stack : stack[j] \notin cleared /\ \A i \in DOMAIN undone : undone[i] # stack[j]
    BY <1>3, <1>4, <1>5 DEF UndoInv, OnePlace
  <2> QED
    BY <1>1, <2>1 DEF UndoInv, OnePlace, stack
<1>9. SomePlace'
  <2>1. ASSUME NEW b \in DOMAIN next
        PROVE  b \in cleared \/ (\E i \in DOMAIN stack : stack[i] = b) \/ (\E i \in DOMAIN undone : undone[i] = b)
    BY <1>2, <1>3 DEF UndoInv, SomePlace
  <2> QED
    BY <1>1, <2>1 DEF SomePlace, stack, next
<1>10. UndoneOrdered'
  <2>1. \A i, j \in DOMAIN undone : i < j /\ undone[i] < undone[j] => next[undone[j]] >= i
    BY <1>2, <1>4 DEF UndoInv, UndoneOrdered
  <2>2. ASSUME NEW i \in DOMAIN undone, NEW j \in DOMAIN stack, undone[i] < stack[j]
        PROVE  next[stack[j]] >= i
    <3>1. CASE j = m
      BY <1>1, <1>2, <1>3, <1>4, <3>1
    <3>2. CASE j \in DOMAIN undo_stack
      BY <1>2, <1>3, <1>4, <2>2, <3>2 DEF UndoInv, UndoneOrdered
    <3> QED
      BY <1>3, <3>1, <3>2
  <2> QED
    BY <1>1, <2>1, <2>2 DEF UndoneOrdered, stack, next
<1> QED
  BY <1>6, <1>7, <1>8, <1>9, <1>10 DEF UndoInv

LEMMA PopKeepsUndo == UndoInv /\ PopUndo => UndoInv'
<1> SUFFICES ASSUME UndoInv, PopUndo PROVE UndoInv'
  OBVIOUS
<1> DEFINE m == Len(undo_stack)
           n == Len(undone) + 1
           a == undo_stack[m]
           stack == undo_stack'
           next == undone'
<1>1. /\ undo_stack \in Seq(Nat) /\ undone \in Seq(Nat) /\ recorded \in Seq(Nat)
      /\ undo_stack # << >> /\ recorded' = recorded /\ cleared' = cleared
      /\ undo_stack' = Front(undo_stack) /\ undone' = Append(undone, Last(undo_stack))
  BY DEF UndoInv, UndoTypes, PopUndo
<1>2. /\ stack \in Seq(Nat) /\ m \in Nat /\ m \in DOMAIN undo_stack
      /\ \A i \in DOMAIN stack : stack[i] = undo_stack[i] /\ i \in DOMAIN undo_stack /\ i \in Nat /\ i < m
      /\ \A i \in DOMAIN undo_stack : i = m \/ i \in DOMAIN stack
      /\ Last(undo_stack) = a /\ a \in Nat
  BY <1>1, FrontFacts
<1>3. /\ next \in Seq(Nat) /\ n \in Nat /\ n \in DOMAIN next /\ next[n] = a
      /\ \A i \in DOMAIN undone : next[i] = undone[i] /\ i \in DOMAIN next
      /\ \A i \in DOMAIN next : i \in Nat /\ (i = n \/ (i \in DOMAIN undone /\ i < n))
  BY <1>1, <1>2, AppendFacts, SMTT(30)
<1>4. a = undo_stack[m]
  OBVIOUS
<1> HIDE DEF m, n, a, stack, next
<1>5. /\ a \in DOMAIN recorded
      /\ \A i \in DOMAIN undo_stack : undo_stack[i] \in DOMAIN recorded
      /\ \A i \in DOMAIN undone : undone[i] \in DOMAIN recorded
      /\ \A b \in DOMAIN recorded : b \in Nat
  BY <1>1, <1>2, <1>4 DEF UndoInv, UndoTypes
<1>6. /\ \A i \in DOMAIN stack : undo_stack[i] < a
      /\ \A i \in DOMAIN undone : undone[i] # a
      /\ a \notin cleared
      /\ \A i \in DOMAIN undone : undone[i] < a => recorded[a] >= i
  BY <1>2, <1>4 DEF UndoInv, StackOrdered, OnePlace, UndoneOrdered
<1>7. UndoTypes'
  <2>1. (\A i \in DOMAIN stack : stack[i] \in DOMAIN recorded) /\ \A i \in DOMAIN next : next[i] \in DOMAIN recorded
    BY <1>2, <1>3, <1>5
  <2> QED
    BY <1>1, <1>2, <1>3, <2>1 DEF UndoInv, UndoTypes, stack, next
<1>8. StackOrdered'
  <2>1. \A i, j \in DOMAIN stack : i < j => stack[i] < stack[j]
    BY <1>2 DEF UndoInv, StackOrdered
  <2> QED
    BY <2>1 DEF StackOrdered, stack
<1>9. OnePlace'
  <2>1. \A i, j \in DOMAIN next : next[i] = next[j] => i = j
    BY <1>3, <1>6 DEF UndoInv, OnePlace
  <2>2. \A j \in DOMAIN stack : stack[j] \notin cleared /\ stack[j] # a /\ \A i \in DOMAIN undone : undone[i] # stack[j]
    <3>1. \A j \in DOMAIN stack : stack[j] < a /\ stack[j] \in Nat
      BY <1>2, <1>5, <1>6
    <3> QED
      BY <1>2, <3>1 DEF UndoInv, OnePlace
  <2>3. \A i \in DOMAIN next : next[i] \notin cleared /\ \A j \in DOMAIN stack : next[i] # stack[j]
    BY <1>3, <1>6, <2>2 DEF UndoInv, OnePlace
  <2> QED
    BY <1>1, <2>1, <2>2, <2>3 DEF OnePlace, stack, next
<1>10. SomePlace'
  <2>1. ASSUME NEW b \in DOMAIN recorded
        PROVE  b \in cleared \/ (\E i \in DOMAIN stack : stack[i] = b) \/ (\E i \in DOMAIN next : next[i] = b)
    BY <1>2, <1>3, <1>4 DEF UndoInv, SomePlace
  <2> QED
    BY <1>1, <2>1 DEF SomePlace, stack, next
<1>11. UndoneOrdered'
  <2>1. ASSUME NEW i \in DOMAIN next, NEW j \in DOMAIN next, i < j, next[i] < next[j]
        PROVE  recorded[next[j]] >= i
    <3>1. i \in DOMAIN undone
      BY <1>3, <2>1
    <3>2. CASE j = n
      BY <1>3, <1>6, <2>1, <3>1, <3>2
    <3>3. CASE j \in DOMAIN undone
      BY <1>3, <2>1, <3>1, <3>3 DEF UndoInv, UndoneOrdered
    <3> QED
      BY <1>3, <3>2, <3>3
  <2>2. ASSUME NEW i \in DOMAIN next, NEW j \in DOMAIN stack, next[i] < stack[j]
        PROVE  recorded[stack[j]] >= i
    <3>1. i # n
      BY <1>2, <1>3, <1>5, <1>6, <2>2
    <3> QED
      BY <1>2, <1>3, <2>2, <3>1 DEF UndoInv, UndoneOrdered
  <2> QED
    BY <1>1, <2>1, <2>2 DEF UndoneOrdered, stack, next
<1> QED
  BY <1>7, <1>8, <1>9, <1>10, <1>11 DEF UndoInv

LEMMA ClearKeepsUndo == UndoInv /\ ClearUndo => UndoInv'
<1> SUFFICES ASSUME UndoInv, ClearUndo PROVE UndoInv'
  OBVIOUS
<1>1. /\ undo_stack' = << >> /\ undone' = undone /\ recorded' = recorded
      /\ cleared' = cleared \union {undo_stack[i] : i \in DOMAIN undo_stack}
  BY DEF ClearUndo, Range
<1>2. UndoTypes'
  BY <1>1 DEF UndoInv, UndoTypes
<1>3. OnePlace'
  BY <1>1 DEF UndoInv, OnePlace
<1>4. SomePlace'
  BY <1>1 DEF UndoInv, SomePlace
<1>5. StackOrdered' /\ UndoneOrdered'
  BY <1>1 DEF UndoInv, StackOrdered, UndoneOrdered
<1> QED
  BY <1>2, <1>3, <1>4, <1>5 DEF UndoInv

LEMMA UndoInvStep == UndoInv /\ [UndoNext]_undoVars => UndoInv'
<1> SUFFICES ASSUME UndoInv, [UndoNext]_undoVars PROVE UndoInv'
  OBVIOUS
<1>1. CASE RecordAction
  BY <1>1, RecordKeepsUndo
<1>2. CASE PopUndo
  BY <1>2, PopKeepsUndo
<1>3. CASE ClearUndo
  BY <1>3, ClearKeepsUndo
<1>4. CASE UNCHANGED <<undo_stack, undone, recorded, cleared>>
  BY <1>4 DEF UndoInv, UndoTypes, StackOrdered, OnePlace, SomePlace, UndoneOrdered
<1>5. StartRollback \/ EndRollback \/ (\E raised \in BOOLEAN : UndoEnds(raised)) \/ UNCHANGED undoVars
        => UNCHANGED <<undo_stack, undone, recorded, cleared>>
  BY DEF StartRollback, EndRollback, UndoEnds, undoVars
<1> QED
  BY <1>1, <1>2, <1>3, <1>4, <1>5 DEF UndoNext

\* How often x occurs in a sequence that has it nowhere, or at one place.
LEMMA Occurrences ==
  ASSUME NEW s, NEW x
  PROVE  /\ (\A i \in DOMAIN s : s[i] # x) => Cardinality({i \in DOMAIN s : s[i] = x}) = 0
         /\ \A i \in DOMAIN s :
              s[i] = x /\ (\A j \in DOMAIN s : s[j] = x => j = i)
                => Cardinality({j \in DOMAIN s : s[j] = x}) = 1
<1>1. ASSUME \A i \in DOMAIN s : s[i] # x PROVE Cardinality({i \in DOMAIN s : s[i] = x}) = 0
  <2>1. {i \in DOMAIN s : s[i] = x} = {}
    BY <1>1
  <2> QED
    BY <2>1, FS_EmptySet
<1>2. ASSUME NEW i \in DOMAIN s, s[i] = x, \A j \in DOMAIN s : s[j] = x => j = i
      PROVE  Cardinality({j \in DOMAIN s : s[j] = x}) = 1
  <2>1. {j \in DOMAIN s : s[j] = x} = {i}
    BY <1>2
  <2> QED
    BY <2>1, FS_Singleton
<1> QED
  BY <1>1, <1>2

LEMMA InvUndoesInReverse == UndoInv => UndoneInReverse
<1> SUFFICES ASSUME UndoInv PROVE UndoneInReverse
  OBVIOUS
<1> DEFINE count(s, a) == Cardinality({i \in DOMAIN s : s[i] = a})
<1>1. \A s, a :
        /\ (\A i \in DOMAIN s : s[i] # a) => count(s, a) = 0
        /\ \A i \in DOMAIN s : s[i] = a /\ (\A j \in DOMAIN s : s[j] = a => j = i) => count(s, a) = 1
  BY Occurrences
<1> HIDE DEF count
<1>2. /\ \A i \in DOMAIN undo_stack : i \in Nat /\ undo_stack[i] \in Nat
      /\ \A i, j \in DOMAIN undo_stack : i < j => undo_stack[i] < undo_stack[j]
  BY DEF UndoInv, UndoTypes, StackOrdered
<1>3. \A i, j \in DOMAIN undo_stack : undo_stack[i] = undo_stack[j] => i = j
  BY <1>2
<1>4. ASSUME NEW a \in DOMAIN recorded
      PROVE  count(undone, a) + count(undo_stack, a) + (IF a \in cleared THEN 1 ELSE 0) = 1
  <2>1. CASE a \in cleared
    <3>1. (\A i \in DOMAIN undone : undone[i] # a) /\ \A i \in DOMAIN undo_stack : undo_stack[i] # a
      BY <2>1 DEF UndoInv, OnePlace
    <3>2. count(undone, a) = 0 /\ count(undo_stack, a) = 0
      BY <1>1, <3>1
    <3> QED
      BY <2>1, <3>2
  <2>2. CASE \E i \in DOMAIN undone : undone[i] = a
    <3>1. PICK i \in DOMAIN undone : undone[i] = a
      BY <2>2
    <3>2. /\ \A j \in DOMAIN undone : undone[j] = a => j = i
          /\ \A j \in DOMAIN undo_stack : undo_stack[j] # a
          /\ a \notin cleared
      BY <3>1 DEF UndoInv, OnePlace
    <3>3. count(undone, a) = 1 /\ count(undo_stack, a) = 0
      BY <1>1, <3>1, <3>2
    <3> QED
      BY <3>2, <3>3
  <2>3. CASE \E i \in DOMAIN undo_stack : undo_stack[i] = a
    <3>1. PICK i \in DOMAIN undo_stack : undo_stack[i] = a
      BY <2>3
    <3>2. /\ \A j \in DOMAIN undo_stack : undo_stack[j] = a => j = i
          /\ \A j \in DOMAIN undone : undone[j] # a
          /\ a \notin cleared
      BY <1>3, <3>1 DEF UndoInv, OnePlace
    <3>3. count(undo_stack, a) = 1 /\ count(undone, a) = 0
      BY <1>1, <3>1, <3>2
    <3> QED
      BY <3>2, <3>3
  <2> QED
    BY <2>1, <2>2, <2>3 DEF UndoInv, SomePlace
<1>5. \A i, j \in DOMAIN undone : i < j /\ undone[i] < undone[j] => recorded[undone[j]] >= i
  BY DEF UndoInv, UndoneOrdered
<1> QED
  BY <1>4, <1>5 DEF UndoneInReverse, count

\* However callbacks fail, record, clear and roll back, every action is undone at most
\* once and in the reverse of the order of recording.
THEOREM RollbackReverses == UndoSpec => []UndoneInReverse
<1> QED
  BY UndoInvInit, UndoInvStep, InvUndoesInReverse, PTL DEF UndoSpec

--------------------------------------------------------------------------------
(* The flow of a request.                                                        *)

FlowSpec == FlowInit /\ [][FlowNext]_<<flowVars, storeVars>>

Tasks == {"none", "good", "bad"}
Works ==
  [stage : 0 .. 5, handler : Nat \ {0}, plan : Nat, persists : BOOLEAN, tasks : Tasks,
   identity : Seq(Identities), results : Tasks]
Executions ==
  [request : Requests, status : {"executing", "rolled_back", "success"}, answer : {0, 200, 400}]

FlowTypes ==
  /\ pipeline \in [Range(Stages) -> Seq(Handlers)]
  /\ executions \in Seq(Executions) /\ Len(executions) <= MaxPlans
  /\ work \in Works
  /\ work.stage # 0 \/ work.persists => work.plan \in DOMAIN executions
  /\ do_store \in [StoreKeys -> Seq({"executed"})]

\* A plan that was not submitted has no record, and the request in hand no answer.
NotYet ==
  /\ \A plan \in 1 .. MaxPlans : plan \notin DOMAIN executions => do_store[plan] = None
  /\ work.stage # 0 /\ work.persists => executions[work.plan].answer = 0

Standards(n) == {h \in DOMAIN HandlersOf(n) : HandlersOf(n)[h] = "standard"}
LastChecks == {h \in DOMAIN HandlersOf(3) : ChecksLast(h)}

\* Handler h of stage n has returned true to the flow w.
Passed(n, h, w) == n < w.stage \/ (n = w.stage /\ h < w.handler)

Authorized(w) == \E id \in Range(w.identity) : CheckIdentity(id)

\* What the handlers that a flow has passed have seen to.
Progress(w, request) ==
  /\ \A h \in Standards(1) : Passed(1, h, w) => w.tasks = request.actions /\ w.tasks # "none"
  /\ \A h \in Standards(2) : Passed(2, h, w) => w.tasks # "bad"
  /\ \A h \in LastChecks : Passed(3, h, w) => Authorized(w)
  /\ \A h \in Standards(4) : Passed(4, h, w) => w.results = w.tasks
  /\ w.results = "none" \/ (w.stage >= 4 /\ w.results = w.tasks)

FlowInv ==
  /\ FlowTypes /\ NotYet /\ AnswerTellsOutcome
  /\ work.stage # 0 => Progress(work, Request)

LEMMA StageNames ==
  /\ Len(Stages) = 5
  /\ Stages[1] = "plan" /\ Stages[2] = "validate" /\ Stages[3] = "authorize"
  /\ Stages[4] = "execute" /\ Stages[5] = "verify"
  /\ Range(Stages) = {"plan", "validate", "authorize", "execute", "verify"}
<1>1. /\ Len(Stages) = 5 /\ DOMAIN Stages = 1 .. 5
      /\ Stages[1] = "plan" /\ Stages[2] = "validate" /\ Stages[3] = "authorize"
      /\ Stages[4] = "execute" /\ Stages[5] = "verify"
  BY DEF Stages
<1>2. 1 .. 5 = {1, 2, 3, 4, 5}
  OBVIOUS
<1> QED
  BY <1>1, <1>2 DEF Range

\* The handlers of a stage, and their numbers.
LEMMA HandlerNumbers ==
  ASSUME FlowTypes, NEW n \in 1 .. 5
  PROVE  /\ HandlersOf(n) \in Seq(Handlers) /\ Len(HandlersOf(n)) \in Nat
         /\ DOMAIN HandlersOf(n) = 1 .. Len(HandlersOf(n))
<1>1. Stages[n] \in Range(Stages)
  BY StageNames
<1>2. HandlersOf(n) \in Seq(Handlers)
  BY <1>1 DEF FlowTypes, HandlersOf
<1> QED
  BY <1>2

LEMMA FlowInvInit == FlowInit => FlowInv
<1> SUFFICES ASSUME FlowInit PROVE FlowInv
  OBVIOUS
<1>1. /\ executions = << >> /\ work = NoWork /\ pipeline \in Pipelines
      /\ do_store = [k \in StoreKeys |-> << >>]
  BY DEF FlowInit, StoreInit, Empty, None
<1>2. work \in Works /\ work.stage = 0 /\ work.persists = FALSE
  BY <1>1 DEF NoWork, Works, Tasks, None
<1>3. FlowTypes
  BY <1>1, <1>2, PipelinesType, PlansAreKeys DEF FlowTypes
<1>4. NotYet
  BY <1>1, <1>2, PlansAreKeys DEF NotYet, None
<1>5. AnswerTellsOutcome
  BY <1>1, <1>2 DEF AnswerTellsOutcome
<1> QED
  BY <1>2, <1>3, <1>4, <1>5 DEF FlowInv

\* A handler passes: the flow stays the same request's and goes to the next handler.
Passes ==
  /\ work' \in Works
  /\ work'.stage = work.stage /\ work'.handler = work.handler + 1
  /\ work'.plan = work.plan /\ work'.persists = work.persists
  /\ UNCHANGED <<pipeline, identities, executions, do_store>>

LEMMA PassKeepsFlow ==
  FlowInv /\ work.stage # 0 /\ Passes /\ Progress(work, Request)' => FlowInv'
<1> SUFFICES ASSUME FlowInv, work.stage # 0, Passes, Progress(work, Request)' PROVE FlowInv'
  OBVIOUS
<1>1. FlowTypes'
  BY DEF FlowInv, FlowTypes, Passes
<1>2. NotYet'
  BY DEF FlowInv, NotYet, Passes
<1>3. AnswerTellsOutcome'
  BY DEF FlowInv, AnswerTellsOutcome, Passes, Idle
<1> QED
  BY <1>1, <1>2, <1>3 DEF FlowInv

\* After a step of the flow the handlers passed are those passed before, and the
\* one it was at if that returned true.
LEMMA SamePipeline ==
  UNCHANGED pipeline =>
    LastChecks' = LastChecks /\ \A n \in 1 .. 5 : HandlersOf(n)' = HandlersOf(n) /\ Standards(n)' = Standards(n)
  BY DEF LastChecks, ChecksLast, Standards, HandlersOf

LEMMA PassedBefore ==
  ASSUME FlowTypes, work.stage \in 1 .. 5, NEW n \in 1 .. 5, NEW h \in DOMAIN HandlersOf(n),
         NEW w \in Works, Passed(n, h, w)
  PROVE  /\ w.stage = work.stage /\ w.handler = work.handler + 1
              => Passed(n, h, work) \/ (n = work.stage /\ h = work.handler)
         /\ (/\ w.stage = work.stage + 1 /\ w.handler = 1
             /\ work.handler > Len(HandlersOf(work.stage)))
              => Passed(n, h, work)
<1> DEFINE s == work.stage
           k == work.handler
           l == Len(HandlersOf(s))
<1>1. h \in Nat /\ h > 0 /\ h <= Len(HandlersOf(n)) /\ Len(HandlersOf(n)) \in Nat
  BY HandlerNumbers
<1>2. k \in Nat /\ w.handler \in Nat /\ s \in 1 .. 5 /\ l \in Nat
  BY HandlerNumbers DEF FlowTypes, Works
<1>3. n = s => h <= l
  BY <1>1
<1>4. n < w.stage \/ (n = w.stage /\ h < w.handler)
  BY DEF Passed
<1>5. Passed(n, h, work) = (n < s \/ (n = s /\ h < k))
  BY DEF Passed
<1> HIDE DEF s, k, l
<1>6. w.stage = s /\ w.handler = k + 1 => n < s \/ (n = s /\ h < k) \/ (n = s /\ h = k)
  BY <1>1, <1>2, <1>4
<1>7. w.stage = s + 1 /\ w.handler = 1 /\ k > l => n < s \/ (n = s /\ h < k)
  BY <1>1, <1>2, <1>3, <1>4
<1> QED
  BY <1>5, <1>6, <1>7 DEF s, k, l

\* What each handler, having passed, has seen to.
LEMMA PlanPasses ==
  FlowInv /\ work.stage = 1 /\ Passes /\ work'.tasks = Request.actions /\ Request.actions # "none"
  /\ work'.results = work.results => Progress(work, Request)'
<1> SUFFICES ASSUME FlowInv, work.stage = 1, Passes, work'.tasks = Request.actions,
                    Request.actions # "none", work'.results = work.results
             PROVE  Progress(work, Request)'
  OBVIOUS
<1> DEFINE w == work'
<1>1. w \in Works /\ w.stage = 1 /\ Request' = Request
  BY DEF Passes, Request
<1>2. work.results = "none"
  BY DEF FlowInv, Progress
<1>3. \A h : ~Passed(2, h, w) /\ ~Passed(3, h, w) /\ ~Passed(4, h, w)
  BY <1>1 DEF Passed
<1> QED
  BY <1>1, <1>2, <1>3 DEF Progress

LEMMA ValidatePasses ==
  FlowInv /\ work.stage = 2 /\ Passes /\ work.tasks # "bad"
  /\ work'.tasks = work.tasks /\ work'.results = work.results => Progress(work, Request)'
<1> SUFFICES ASSUME FlowInv, work.stage = 2, Passes, work.tasks # "bad",
                    work'.tasks = work.tasks, work'.results = work.results
             PROVE  Progress(work, Request)'
  OBVIOUS
<1> DEFINE w == work'
<1>1. /\ w \in Works /\ w.stage = 2 /\ Request' = Request
      /\ Standards(1)' = Standards(1)
  BY SamePipeline DEF Passes, Request
<1>2. work.results = "none" /\ \A h \in Standards(1) : work.tasks = Request.actions /\ work.tasks # "none"
  BY DEF FlowInv, Progress, Passed
<1>3. \A h : ~Passed(3, h, w) /\ ~Passed(4, h, w)
  BY <1>1 DEF Passed
<1> QED
  BY <1>1, <1>2, <1>3 DEF Progress

LEMMA AuthorizePasses ==
  FlowInv /\ work.stage = 3 /\ Passes /\ Authorized(work) /\ work'.tasks = work.tasks
  /\ work'.identity = work.identity /\ work'.results = work.results => Progress(work, Request)'
<1> SUFFICES ASSUME FlowInv, work.stage = 3, Passes, Authorized(work), work'.tasks = work.tasks,
                    work'.identity = work.identity, work'.results = work.results
             PROVE  Progress(work, Request)'
  OBVIOUS
<1> DEFINE w == work'
<1>1. /\ w \in Works /\ w.stage = 3 /\ Request' = Request
      /\ Standards(1)' = Standards(1) /\ Standards(2)' = Standards(2)
  BY SamePipeline DEF Passes, Request
<1>2. /\ work.results = "none"
      /\ \A h \in Standards(1) : work.tasks = Request.actions /\ work.tasks # "none"
      /\ \A h \in Standards(2) : work.tasks # "bad"
  BY DEF FlowInv, Progress, Passed
<1>3. \A h : ~Passed(4, h, w)
  BY <1>1 DEF Passed
<1>4. Authorized(work)'
  BY DEF Authorized, CheckIdentity, Passes
<1> QED
  BY <1>1, <1>2, <1>3, <1>4 DEF Progress

LEMMA ExecutePasses ==
  FlowInv /\ work.stage \in {4, 5} /\ Passes /\ work'.tasks = work.tasks /\ work'.identity = work.identity
  /\ (\/ work.stage = 4 /\ work'.results = work.tasks
      \/ work.stage = 5 /\ work'.results = work.results) => Progress(work, Request)'
<1> SUFFICES ASSUME FlowInv, work.stage \in {4, 5}, Passes, work'.tasks = work.tasks,
                    work'.identity = work.identity,
                    \/ work.stage = 4 /\ work'.results = work.tasks
                    \/ work.stage = 5 /\ work'.results = work.results
             PROVE  Progress(work, Request)'
  OBVIOUS
<1> DEFINE w == work'
<1>1. /\ w \in Works /\ w.stage = work.stage /\ Request' = Request
      /\ Standards(1)' = Standards(1) /\ Standards(2)' = Standards(2)
      /\ Standards(4)' = Standards(4) /\ LastChecks' = LastChecks
  BY SamePipeline DEF Passes, Request
<1>2. /\ \A h \in Standards(1) : work.tasks = Request.actions /\ work.tasks # "none"
      /\ \A h \in Standards(2) : work.tasks # "bad"
      /\ \A h \in LastChecks : Authorized(work)
      /\ work.stage = 5 => \A h \in Standards(4) : work.results = work.tasks
      /\ work.results \in {"none", work.tasks}
  BY DEF FlowInv, Progress, Passed
<1>3. Authorized(work) => Authorized(work)'
  BY DEF Authorized, CheckIdentity, Passes
<1> QED
  BY <1>1, <1>2, <1>3 DEF Progress

\* A handler that is not the standard one of its stage changes no more than the
\* identity, and that not after a last check.
LEMMA OtherPasses ==
  /\ FlowInv /\ work.stage \in 1 .. 5 /\ Passes
  /\ work.handler \in DOMAIN HandlersOf(work.stage)
  /\ HandlersOf(work.stage)[work.handler] # "standard"
  /\ work'.tasks = work.tasks /\ work'.results = work.results
  /\ HandlersOf(work.stage)[work.handler] = "identify" \/ work'.identity = work.identity
  => Progress(work, Request)'
<1> SUFFICES ASSUME FlowInv, work.stage \in 1 .. 5, Passes,
                    work.handler \in DOMAIN HandlersOf(work.stage),
                    HandlersOf(work.stage)[work.handler] # "standard",
                    work'.tasks = work.tasks, work'.results = work.results,
                    HandlersOf(work.stage)[work.handler] = "identify" \/ work'.identity = work.identity
             PROVE  Progress(work, Request)'
  OBVIOUS
<1> DEFINE w == work'
<1>1. /\ w \in Works /\ w.stage = work.stage /\ w.handler = work.handler + 1 /\ Request' = Request
      /\ Standards(1)' = Standards(1) /\ Standards(2)' = Standards(2)
      /\ Standards(4)' = Standards(4) /\ LastChecks' = LastChecks
  BY SamePipeline DEF Passes, Request
<1>2. FlowTypes /\ Progress(work, Request)
  BY DEF FlowInv
<1>3. \A n \in 1 .. 5 : \A h \in Standards(n) : Passed(n, h, w) => Passed(n, h, work)
  <2> SUFFICES ASSUME NEW n \in 1 .. 5, NEW h \in Standards(n), Passed(n, h, w) PROVE Passed(n, h, work)
    OBVIOUS
  <2>1. h \in DOMAIN HandlersOf(n) /\ HandlersOf(n)[h] = "standard"
    BY DEF Standards
  <2>2. Passed(n, h, work) \/ (n = work.stage /\ h = work.handler)
    BY <1>1, <1>2, <2>1, PassedBefore
  <2> QED
    BY <2>1, <2>2
<1>4. ASSUME NEW h \in LastChecks, Passed(3, h, w) PROVE Authorized(work)'
  <2>1. h \in DOMAIN HandlersOf(3) /\ HandlersOf(3)[h] = "standard" /\ ChecksLast(h)
    BY StageNames DEF LastChecks, HandlersOf, ChecksLast
  <2>2. Passed(3, h, work)
    BY <1>3, <1>4, <2>1 DEF Standards
  <2>3. Authorized(work)
    BY <1>2, <2>2 DEF Progress
  <2>4. HandlersOf(work.stage)[work.handler] # "identify"
    <3>1. work.stage \in {3, 4, 5} /\ (work.stage = 3 => h < work.handler)
      BY <2>2 DEF Passed
    <3>2. CASE work.stage = 3
      BY <2>1, <3>1, <3>2, StageNames DEF ChecksLast, HandlersOf
    <3>3. CASE work.stage = 4
      BY <2>1, <3>3, StageNames DEF ChecksLast, HandlersOf
    <3>4. CASE work.stage = 5
      BY <2>1, <3>4, StageNames DEF ChecksLast, HandlersOf
    <3> QED
      BY <3>1, <3>2, <3>3, <3>4
  <2> QED
    BY <2>3, <2>4 DEF Authorized, CheckIdentity, Passes
<1> QED
  BY <1>1, <1>2, <1>3, <1>4 DEF Progress


LEMMA NextStageProgresses ==
  /\ FlowInv /\ work.stage \in 1 .. 4 /\ work.handler > Len(HandlersOf(work.stage))
  /\ work' = [work EXCEPT !.stage = @ + 1, !.handler = 1]
  /\ UNCHANGED <<pipeline, identities, executions, do_store>>
  => Progress(work, Request)' /\ work' \in Works
<1> SUFFICES ASSUME FlowInv, work.stage \in 1 .. 4, work.handler > Len(HandlersOf(work.stage)),
                    work' = [work EXCEPT !.stage = @ + 1, !.handler = 1],
                    UNCHANGED <<pipeline, identities, executions, do_store>>
             PROVE  Progress(work, Request)' /\ work' \in Works
  OBVIOUS
<1> DEFINE w == work'
<1>1. FlowTypes /\ Progress(work, Request) /\ work \in Works
  BY DEF FlowInv, FlowTypes
<1> DEFINE next == work.stage + 1
<1>a. next \in 0 .. 5 /\ 1 \in Nat \ {0}
  OBVIOUS
<1>2. /\ w \in Works /\ w.stage = work.stage + 1 /\ w.handler = 1
      /\ w.tasks = work.tasks /\ w.identity = work.identity /\ w.results = work.results
      /\ w.plan = work.plan
  <2>1. w = [work EXCEPT !.stage = next, !.handler = 1]
    OBVIOUS
  <2> HIDE DEF w, next
  <2>2. /\ w \in Works /\ w.stage = next /\ w.handler = 1
        /\ w.tasks = work.tasks /\ w.identity = work.identity /\ w.results = work.results
        /\ w.plan = work.plan
    BY <1>1, <1>a, <2>1 DEF Works
  <2> QED
    BY <2>2 DEF next
<1>3. /\ Request' = Request
      /\ Standards(1)' = Standards(1) /\ Standards(2)' = Standards(2)
      /\ Standards(4)' = Standards(4) /\ LastChecks' = LastChecks
  BY <1>2, SamePipeline DEF Request
<1>4. \A n \in 1 .. 5 : \A h \in DOMAIN HandlersOf(n) : Passed(n, h, w) => Passed(n, h, work)
  <2> SUFFICES ASSUME NEW n \in 1 .. 5, NEW h \in DOMAIN HandlersOf(n), Passed(n, h, w)
               PROVE  Passed(n, h, work)
    OBVIOUS
  <2> HIDE DEF w
  <2>1. work.stage \in 1 .. 5
    OBVIOUS
  <2> QED
    BY <1>1, <1>2, <2>1, PassedBefore
<1>5. \A n \in 1 .. 5 : Standards(n) \subseteq DOMAIN HandlersOf(n)
  BY DEF Standards
<1>6. LastChecks \subseteq DOMAIN HandlersOf(3)
  BY DEF LastChecks
<1>7. Authorized(work)' = Authorized(work)
  BY <1>2 DEF Authorized, CheckIdentity
<1>8. w.results = "none" \/ (w.stage >= 4 /\ w.results = w.tasks)
  BY <1>1, <1>2 DEF Progress, Works
<1> HIDE DEF w
<1>9. /\ \A h \in Standards(1) : Passed(1, h, w) => Passed(1, h, work)
      /\ \A h \in Standards(2) : Passed(2, h, w) => Passed(2, h, work)
      /\ \A h \in LastChecks : Passed(3, h, w) => Passed(3, h, work)
      /\ \A h \in Standards(4) : Passed(4, h, w) => Passed(4, h, work)
  BY <1>4, <1>5, <1>6
<1> QED
  BY <1>1, <1>2, <1>3, <1>7, <1>8, <1>9 DEF Progress, w

LEMMA UpdateFacts ==
  ASSUME NEW S, NEW s \in Seq(S), NEW p \in DOMAIN s, NEW x \in S
  PROVE  LET t == [s EXCEPT ![p] = x]
         IN  /\ t \in Seq(S) /\ Len(t) = Len(s) /\ DOMAIN t = DOMAIN s /\ t[p] = x
             /\ \A q \in DOMAIN s : q # p => t[q] = s[q]
  OBVIOUS

\* A plan ends: its execution has the status and, if a request waits for it, the
\* answer; the others keep theirs.
LEMMA EndsFacts ==
  ASSUME FlowTypes, work.stage # 0, NEW status \in {"rolled_back", "success"}, NEW answer \in {200, 400},
         Ends(status, answer)
  PROVE  /\ work' \in Works /\ work'.stage = 0 /\ work'.plan = work.plan /\ work'.persists = work.persists
         /\ work'.tasks = work.tasks /\ work'.identity = work.identity /\ work'.results = work.results
         /\ executions' \in Seq(Executions) /\ Len(executions') = Len(executions)
         /\ DOMAIN executions' = DOMAIN executions /\ work.plan \in DOMAIN executions
         /\ \A plan \in DOMAIN executions : plan # work.plan => executions'[plan] = executions[plan]
         /\ executions'[work.plan].status = status
         /\ executions'[work.plan].request = executions[work.plan].request
         /\ executions'[work.plan].answer = IF work.persists THEN answer ELSE executions[work.plan].answer
<1>1. /\ work \in Works /\ work.plan \in DOMAIN executions /\ executions \in Seq(Executions)
      /\ executions[work.plan] \in Executions
  BY DEF FlowTypes
<1>2. work' = [work EXCEPT !.stage = 0]
  BY DEF Ends
<1>3. /\ work' \in Works /\ work'.stage = 0 /\ work'.plan = work.plan /\ work'.persists = work.persists
      /\ work'.tasks = work.tasks /\ work'.identity = work.identity /\ work'.results = work.results
  BY <1>1, <1>2 DEF Works
<1> DEFINE a == IF work.persists THEN answer ELSE executions[work.plan].answer
           new == [request |-> executions[work.plan].request, status |-> status, answer |-> a]
<1>4. executions' = [executions EXCEPT ![work.plan] = new]
  BY DEF Ends, Request
<1>5. /\ new \in Executions /\ new.status = status
      /\ new.request = executions[work.plan].request /\ new.answer = a
  BY <1>1 DEF Executions
<1> HIDE DEF new
<1>6. /\ executions' \in Seq(Executions) /\ Len(executions') = Len(executions)
      /\ DOMAIN executions' = DOMAIN executions
      /\ \A plan \in DOMAIN executions : plan # work.plan => executions'[plan] = executions[plan]
      /\ executions'[work.plan] = new
  BY <1>1, <1>4, <1>5, UpdateFacts
<1> QED
  BY <1>1, <1>3, <1>5, <1>6

LEMMA FailKeepsFlow ==
  FlowInv /\ work.stage # 0 /\ HandlerFails /\ UNCHANGED <<pipeline, identities, do_store>> => FlowInv'
<1> SUFFICES ASSUME FlowInv, work.stage # 0, HandlerFails, UNCHANGED <<pipeline, identities, do_store>>
             PROVE  FlowInv'
  OBVIOUS
<1>1. FlowTypes /\ NotYet /\ AnswerTellsOutcome /\ work \in Works
  BY DEF FlowInv, FlowTypes
<1>2. /\ work' \in Works /\ work'.stage = 0 /\ work'.plan = work.plan /\ work'.persists = work.persists
      /\ executions' \in Seq(Executions) /\ Len(executions') = Len(executions)
      /\ DOMAIN executions' = DOMAIN executions /\ work.plan \in DOMAIN executions
      /\ \A plan \in DOMAIN executions : plan # work.plan => executions'[plan] = executions[plan]
      /\ executions'[work.plan].status = "rolled_back"
      /\ executions'[work.plan].answer = IF work.persists THEN 400 ELSE executions[work.plan].answer
  BY <1>1, EndsFacts DEF HandlerFails
<1>3. FlowTypes'
  BY <1>1, <1>2 DEF FlowTypes
<1>4. NotYet'
  BY <1>1, <1>2 DEF NotYet
<1>5. \A plan \in DOMAIN executions : (executions'[plan].answer = 200) = (executions[plan].answer = 200)
  BY <1>1, <1>2 DEF NotYet, Works
<1>6. work'.persists => executions'[work'.plan].answer = 400 /\ executions'[work'.plan].status # "success"
  BY <1>2
<1>7. AnswerTellsOutcome'
  BY <1>1, <1>2, <1>5, <1>6 DEF AnswerTellsOutcome
<1> QED
  BY <1>2, <1>3, <1>4, <1>7 DEF FlowInv

LEMMA IdentityKeepsFlow == \A id : FlowInv /\ CreateIdentity(id) => FlowInv'
<1> SUFFICES ASSUME NEW id, FlowInv, CreateIdentity(id) PROVE FlowInv'
  OBVIOUS
<1>1. /\ work.stage = 0 /\ identities' = identities \union {id}
      /\ UNCHANGED <<pipeline, executions, work, do_store>>
  BY DEF CreateIdentity, Idle
<1>2. FlowTypes' /\ NotYet'
  BY <1>1 DEF FlowInv, FlowTypes, NotYet
<1>3. \A i : CheckIdentity(i) => CheckIdentity(i)'
  BY <1>1 DEF CheckIdentity
<1>4. (Authorizes' = Authorizes) /\ (Request' = Request) /\ (\A stage : Has(stage)' = Has(stage))
  BY <1>1 DEF Authorizes, ChecksLast, Request, Has
<1>5. AnswerTellsOutcome'
  BY <1>1, <1>3, <1>4 DEF FlowInv, AnswerTellsOutcome, Idle
<1> QED
  BY <1>1, <1>2, <1>5 DEF FlowInv

LEMMA BeginsFacts ==
  ASSUME NEW p \in Nat
  PROVE  /\ LET w == [[NoWork EXCEPT !.plan = p, !.persists = TRUE] EXCEPT !.stage = 1, !.handler = 1]
            IN  w \in Works /\ w.stage = 1 /\ w.handler = 1 /\ w.plan = p /\ w.persists = TRUE /\ w.results = "none"
         /\ LET w == [[NoWork EXCEPT !.plan = p] EXCEPT !.stage = 1, !.handler = 1]
            IN  w \in Works /\ w.stage = 1 /\ w.handler = 1 /\ w.plan = p /\ w.persists = FALSE /\ w.results = "none"
<1>1. NoWork \in Works /\ NoWork.results = "none" /\ NoWork.persists = FALSE
  BY DEF NoWork, Works, Tasks, None
<1>2. \A u \in Works :
        LET w == [u EXCEPT !.stage = 1, !.handler = 1]
        IN  /\ w \in Works /\ w.stage = 1 /\ w.handler = 1
            /\ w.plan = u.plan /\ w.persists = u.persists /\ w.results = u.results
  BY 1 \in 0 .. 5, 1 \in Nat \ {0} DEF Works
<1> DEFINE v == [NoWork EXCEPT !.plan = p]
           u == [NoWork EXCEPT !.plan = p, !.persists = TRUE]
<1>3. v \in Works /\ v.plan = p /\ v.results = "none" /\ v.persists = FALSE
  BY <1>1 DEF Works
<1>4. u \in Works /\ u.plan = p /\ u.results = "none" /\ u.persists = TRUE
  BY <1>1 DEF Works
<1> HIDE DEF u, v
<1>5. LET w == [u EXCEPT !.stage = 1, !.handler = 1]
      IN  w \in Works /\ w.stage = 1 /\ w.handler = 1 /\ w.plan = p /\ w.persists = TRUE /\ w.results = "none"
  BY <1>2, <1>4
<1>6. LET w == [v EXCEPT !.stage = 1, !.handler = 1]
      IN  w \in Works /\ w.stage = 1 /\ w.handler = 1 /\ w.plan = p /\ w.persists = FALSE /\ w.results = "none"
  BY <1>2, <1>3
<1> QED
  BY <1>5, <1>6 DEF u, v

\* A flow that begins has passed no handler.
LEMMA BeginsKeepFlow ==
  /\ FlowInv /\ FlowTypes' /\ NotYet' /\ work.stage = 0
  /\ work'.stage = 1 /\ work'.handler = 1 /\ work'.results = "none"
  /\ \A plan \in DOMAIN executions' : (executions'[plan].answer = 200) = (do_store'[plan] # None)
  => FlowInv'
<1> SUFFICES ASSUME FlowInv, FlowTypes', NotYet', work.stage = 0,
                    work'.stage = 1, work'.handler = 1, work'.results = "none",
                    \A plan \in DOMAIN executions' : (executions'[plan].answer = 200) = (do_store'[plan] # None)
             PROVE  FlowInv'
  OBVIOUS
<1>1. \A h \in Standards(1)' : h > 0 /\ h \in Nat
  <2>1. (FlowTypes => DOMAIN HandlersOf(1) = 1 .. Len(HandlersOf(1)) /\ Len(HandlersOf(1)) \in Nat)'
    BY HandlerNumbers
  <2> QED
    BY <2>1 DEF Standards
<1>2. Progress(work, Request)'
  BY <1>1 DEF Progress, Passed
<1>3. AnswerTellsOutcome'
  BY DEF AnswerTellsOutcome, Idle
<1> QED
  BY <1>2, <1>3 DEF FlowInv

LEMMA RequestKeepsFlow == \A request \in Requests : FlowInv /\ ProcessRequest(request) => FlowInv'
<1> SUFFICES ASSUME NEW request \in Requests, FlowInv, ProcessRequest(request) PROVE FlowInv'
  OBVIOUS
<1>1. CASE request.goal
  <2> DEFINE new == [request |-> request, status |-> "executing", answer |-> 0]
             p == Len(executions) + 1
  <2>1. /\ work.stage = 0 /\ Len(executions) < MaxPlans /\ UNCHANGED <<pipeline, identities, do_store>>
        /\ executions' = Append(executions, new)
        /\ work' = [[NoWork EXCEPT !.plan = Len(executions'), !.persists = TRUE]
                      EXCEPT !.stage = 1, !.handler = 1]
    BY <1>1 DEF ProcessRequest, Idle, Enter
  <2>2. new \in Executions /\ new.answer = 0 /\ executions \in Seq(Executions)
    BY DEF Executions, FlowInv, FlowTypes
  <2> HIDE DEF new
  <2>3. /\ executions' \in Seq(Executions) /\ Len(executions') = p /\ p \in Nat /\ p \in DOMAIN executions'
        /\ p \notin DOMAIN executions /\ p \in 1 .. MaxPlans
        /\ \A q \in DOMAIN executions : executions'[q] = executions[q] /\ q \in DOMAIN executions'
        /\ \A q \in DOMAIN executions' : q = p \/ q \in DOMAIN executions
        /\ executions'[p] = new
    BY <2>1, <2>2, AppendFacts, PlansAreKeys
  <2> HIDE DEF p
  <2>4. /\ work' \in Works /\ work'.stage = 1 /\ work'.handler = 1 /\ work'.plan = p
        /\ work'.persists = TRUE /\ work'.results = "none"
    BY <2>1, <2>3, BeginsFacts
  <2>5. FlowTypes'
    BY <2>1, <2>3, <2>4, PlansAreKeys DEF FlowInv, FlowTypes
  <2>6. NotYet'
    BY <2>1, <2>2, <2>3, <2>4 DEF FlowInv, NotYet
  <2>7. \A plan \in DOMAIN executions' : (executions'[plan].answer = 200) = (do_store'[plan] # None)
    BY <2>1, <2>2, <2>3 DEF FlowInv, AnswerTellsOutcome, NotYet
  <2> QED
    BY <2>1, <2>4, <2>5, <2>6, <2>7, BeginsKeepFlow
<1>2. CASE ~request.goal
  <2>1. UNCHANGED <<pipeline, identities, executions, work, do_store>>
    BY <1>2 DEF ProcessRequest
  <2> QED
    BY <2>1 DEF FlowInv, FlowTypes, NotYet, AnswerTellsOutcome, Progress, Standards, HandlersOf, LastChecks,
                ChecksLast, Passed, Authorized, Authorizes, Has, Request, CheckIdentity, Idle
<1> QED
  BY <1>1, <1>2

LEMMA AgainKeepsFlow == \A plan \in DOMAIN executions : FlowInv /\ ExecuteAgain(plan) => FlowInv'
<1> SUFFICES ASSUME NEW p \in DOMAIN executions, FlowInv, ExecuteAgain(p) PROVE FlowInv'
  OBVIOUS
<1> DEFINE new == [executions[p] EXCEPT !.status = "executing"]
<1>1. /\ work.stage = 0 /\ UNCHANGED <<pipeline, identities, do_store>>
      /\ executions' = [executions EXCEPT ![p] = new]
      /\ work' = [[NoWork EXCEPT !.plan = p] EXCEPT !.stage = 1, !.handler = 1]
  BY DEF ExecuteAgain, Idle, Enter
<1>2. executions \in Seq(Executions) /\ executions[p] \in Executions /\ p \in Nat
  BY DEF FlowInv, FlowTypes
<1>3. new \in Executions /\ new.answer = executions[p].answer
  BY <1>2 DEF Executions
<1> HIDE DEF new
<1>4. /\ executions' \in Seq(Executions) /\ Len(executions') = Len(executions)
      /\ DOMAIN executions' = DOMAIN executions
      /\ \A q \in DOMAIN executions : q # p => executions'[q] = executions[q]
      /\ executions'[p] = new
  BY <1>1, <1>2, <1>3, UpdateFacts
<1>5. \A q \in DOMAIN executions : executions'[q].answer = executions[q].answer
  BY <1>3, <1>4
<1>6. /\ work' \in Works /\ work'.stage = 1 /\ work'.handler = 1 /\ work'.plan = p
      /\ work'.persists = FALSE /\ work'.results = "none"
  BY <1>1, <1>2, BeginsFacts
<1>7. FlowTypes'
  BY <1>1, <1>4, <1>6 DEF FlowInv, FlowTypes
<1>8. NotYet'
  BY <1>1, <1>4, <1>6 DEF FlowInv, NotYet
<1>9. \A plan \in DOMAIN executions' : (executions'[plan].answer = 200) = (do_store'[plan] # None)
  BY <1>1, <1>4, <1>5 DEF FlowInv, AnswerTellsOutcome
<1> QED
  BY <1>1, <1>6, <1>7, <1>8, <1>9, BeginsKeepFlow

LEMMA NextStageKeepsFlow == FlowInv /\ NextStage => FlowInv'
<1> SUFFICES ASSUME FlowInv, NextStage PROVE FlowInv'
  OBVIOUS
<1>1. /\ work.stage \in 1 .. 4 /\ work.handler > Len(HandlersOf(work.stage))
      /\ work' = [work EXCEPT !.stage = @ + 1, !.handler = 1]
      /\ UNCHANGED <<pipeline, identities, executions, do_store>>
  BY StageNames DEF NextStage, Idle, Enter, FlowInv, FlowTypes, Works
<1>2. Progress(work, Request)' /\ work' \in Works
  BY <1>1, NextStageProgresses
<1>3. work'.stage # 0 /\ work'.plan = work.plan /\ work'.persists = work.persists
  BY <1>1 DEF FlowInv, FlowTypes, Works
<1>4. FlowTypes' /\ NotYet'
  BY <1>1, <1>2, <1>3 DEF FlowInv, FlowTypes, NotYet
<1>5. AnswerTellsOutcome'
  BY <1>1, <1>3 DEF FlowInv, AnswerTellsOutcome, Idle
<1> QED
  BY <1>2, <1>4, <1>5 DEF FlowInv

LEMMA FinishKeepsFlow == FlowInv /\ Finish => FlowInv'
<1> SUFFICES ASSUME FlowInv, Finish PROVE FlowInv'
  OBVIOUS
<1>1. /\ work.stage = 5 /\ work.handler > Len(HandlersOf(5)) /\ Ends("success", 200)
      /\ Persistence /\ UNCHANGED <<pipeline, identities>>
  BY StageNames DEF Finish
<1>2. FlowTypes /\ NotYet /\ AnswerTellsOutcome /\ Progress(work, Request) /\ work \in Works
  BY <1>1 DEF FlowInv, FlowTypes
<1>3. /\ work' \in Works /\ work'.stage = 0 /\ work'.plan = work.plan /\ work'.persists = work.persists
      /\ work'.tasks = work.tasks /\ work'.identity = work.identity /\ work'.results = work.results
      /\ executions' \in Seq(Executions) /\ Len(executions') = Len(executions)
      /\ DOMAIN executions' = DOMAIN executions /\ work.plan \in DOMAIN executions
      /\ \A plan \in DOMAIN executions : plan # work.plan => executions'[plan] = executions[plan]
      /\ executions'[work.plan].status = "success"
      /\ executions'[work.plan].request = executions[work.plan].request
      /\ executions'[work.plan].answer = IF work.persists THEN 200 ELSE executions[work.plan].answer
  BY <1>1, <1>2, EndsFacts
<1>4. /\ DOMAIN executions \subseteq 1 .. MaxPlans /\ DOMAIN executions \subseteq StoreKeys
      /\ do_store \in [StoreKeys -> Seq({"executed"})]
  BY <1>2, PlansAreKeys DEF FlowTypes
<1>5. /\ do_store' \in [StoreKeys -> Seq({"executed"})]
      /\ \A k \in StoreKeys : k # work.plan \/ ~work.persists => do_store'[k] = do_store[k]
      /\ work.persists => do_store'[work.plan] = <<"executed">>
  <2>1. <<"executed">> \in Seq({"executed"})
    OBVIOUS
  <2>2. CASE work.persists
    <3>1. do_store' = [do_store EXCEPT ![work.plan] = <<"executed">>]
      BY <1>1, <2>2 DEF Persistence, WritePersistent, Put
    <3> QED
      BY <1>3, <1>4, <2>1, <2>2, <3>1
  <2>3. CASE ~work.persists
    BY <1>1, <1>4, <2>3 DEF Persistence
  <2> QED
    BY <2>2, <2>3
<1>6. FlowTypes'
  BY <1>1, <1>2, <1>3, <1>5 DEF FlowTypes
<1>7. NotYet'
  BY <1>2, <1>3, <1>5, PlansAreKeys DEF NotYet
<1>8. ASSUME NEW plan \in DOMAIN executions
      PROVE  (executions'[plan].answer = 200) = (do_store'[plan] # None)
  <2>1. (executions[plan].answer = 200) = (do_store[plan] # None)
    BY <1>2 DEF AnswerTellsOutcome
  <2>2. <<"executed">> # None
    BY DEF None
  <2>3. plan \in StoreKeys
    BY <1>4
  <2>4. CASE plan = work.plan /\ work.persists
    BY <1>3, <1>5, <2>2, <2>4
  <2>5. CASE plan # work.plan \/ ~work.persists
    <3>1. executions'[plan].answer = executions[plan].answer
      BY <1>3, <2>5
    <3> QED
      BY <1>5, <2>1, <2>3, <2>5, <3>1
  <2> QED
    BY <2>4, <2>5
<1>9. /\ Has("plan") => work.tasks = Request.actions /\ work.tasks # "none"
      /\ Has("execute") => work.results = work.tasks
      /\ Has("validate") => work.tasks # "bad"
      /\ Authorizes => Authorized(work)
      /\ work.results \in {"none", work.tasks}
  <2>1. \A n \in 1 .. 4 : \A h : Passed(n, h, work)
    BY <1>1 DEF Passed
  <2>2. /\ Has("plan") => \E h : h \in Standards(1)
        /\ Has("validate") => \E h : h \in Standards(2)
        /\ Authorizes => \E h : h \in LastChecks
        /\ Has("execute") => \E h : h \in Standards(4)
    BY StageNames DEF Has, Authorizes, Standards, LastChecks, HandlersOf
  <2> QED
    BY <1>2, <2>1, <2>2 DEF Progress
<1>10. /\ Request'.actions = Request.actions
       /\ (Authorizes' = Authorizes) /\ (Authorized(work)' = Authorized(work))
       /\ \A stage : Has(stage)' = Has(stage)
  BY <1>1, <1>3 DEF Request, Authorizes, ChecksLast, Authorized, CheckIdentity, Has
<1>11. work'.persists =>
         LET execution == executions'[work'.plan]
         IN /\ execution.answer = IF execution.status = "success" THEN 200 ELSE 400
            /\ execution.answer = 200 =>
                 /\ Has("plan")' /\ Has("execute")' => work'.results = Request'.actions /\ work'.results # "none"
                 /\ Has("validate")' => work'.results # "bad"
                 /\ Authorizes' => Authorized(work)'
  BY <1>3, <1>9, <1>10
<1>12. AnswerTellsOutcome'
  BY <1>3, <1>8, <1>11 DEF AnswerTellsOutcome, Authorized
<1> QED
  BY <1>3, <1>6, <1>7, <1>12 DEF FlowInv

\* A handler that returns true or false: what is left to show is its progress.
LEMMA PassesFacts ==
  ASSUME NEW w \in Works, FlowTypes, HandlerPasses(w), UNCHANGED <<pipeline, identities, do_store>>,
         w.stage = work.stage, w.handler = work.handler, w.plan = work.plan, w.persists = work.persists
  PROVE  Passes /\ work'.tasks = w.tasks /\ work'.identity = w.identity /\ work'.results = w.results
<1>1. work' = [w EXCEPT !.handler = w.handler + 1] /\ executions' = executions
  BY DEF HandlerPasses
<1>2. w.handler + 1 \in Nat \ {0}
  BY DEF Works
<1>3. /\ work' \in Works /\ work'.handler = w.handler + 1
      /\ work'.stage = w.stage /\ work'.plan = w.plan /\ work'.persists = w.persists
      /\ work'.tasks = w.tasks /\ work'.identity = w.identity /\ work'.results = w.results
  BY <1>1, <1>2 DEF Works
<1> QED
  BY <1>1, <1>3 DEF Passes

LEMMA PlanKeepsFlow == FlowInv /\ PlanHandler => FlowInv'
<1> SUFFICES ASSUME FlowInv, PlanHandler PROVE FlowInv'
  OBVIOUS
<1> DEFINE w == [work EXCEPT !.tasks = Request.actions]
<1>1. /\ work.stage = 1 /\ UNCHANGED <<pipeline, identities, do_store>>
      /\ IF Request.actions # "none" THEN HandlerPasses(w) ELSE HandlerFails
  BY StageNames DEF PlanHandler, Returns, AtHandler, Idle, FlowInv, FlowTypes, Works
<1>2. FlowTypes /\ work \in Works /\ Request.actions \in Tasks
  <2>1. FlowTypes /\ work \in Works /\ executions[work.plan] \in Executions
    BY <1>1 DEF FlowInv, FlowTypes
  <2>2. Request \in Requests
    BY <2>1 DEF Executions, Request
  <2>3. Request.actions \in Tasks
    BY <2>2, RequestsType DEF Tasks
  <2> QED
    BY <2>1, <2>3
<1>3. /\ w \in Works /\ w.stage = work.stage /\ w.handler = work.handler /\ w.plan = work.plan
      /\ w.persists = work.persists /\ w.tasks = Request.actions /\ w.results = work.results
  BY <1>2 DEF Works
<1> HIDE DEF w
<1>4. CASE Request.actions # "none"
  <2>1. Passes /\ work'.tasks = Request.actions /\ work'.results = work.results
    BY <1>1, <1>2, <1>3, <1>4, PassesFacts
  <2> QED
    BY <1>1, <1>4, <2>1, PlanPasses, PassKeepsFlow
<1>5. CASE Request.actions = "none"
  BY <1>1, <1>5, FailKeepsFlow
<1> QED
  BY <1>4, <1>5

LEMMA ExecuteKeepsFlow == FlowInv /\ ExecuteHandler => FlowInv'
<1> SUFFICES ASSUME FlowInv, ExecuteHandler PROVE FlowInv'
  OBVIOUS
<1> DEFINE w == [work EXCEPT !.results = work.tasks]
<1>1. /\ work.stage = 4 /\ UNCHANGED <<pipeline, identities, do_store>> /\ HandlerPasses(w)
  BY StageNames DEF ExecuteHandler, Returns, AtHandler, Idle, FlowInv, FlowTypes, Works
<1>2. FlowTypes /\ work \in Works
  BY DEF FlowInv, FlowTypes
<1>3. /\ w \in Works /\ w.stage = work.stage /\ w.handler = work.handler /\ w.plan = work.plan
      /\ w.persists = work.persists /\ w.tasks = work.tasks /\ w.identity = work.identity
      /\ w.results = work.tasks
  BY <1>2 DEF Works
<1> HIDE DEF w
<1>4. Passes /\ work'.tasks = work.tasks /\ work'.identity = work.identity /\ work'.results = work.tasks
  BY <1>1, <1>2, <1>3, PassesFacts
<1> QED
  BY <1>1, <1>4, ExecutePasses, PassKeepsFlow

LEMMA CheckKeepsFlow == FlowInv /\ (ValidateHandler \/ AuthorizeHandler \/ VerifyHandler) => FlowInv'
<1> SUFFICES ASSUME FlowInv, ValidateHandler \/ AuthorizeHandler \/ VerifyHandler PROVE FlowInv'
  OBVIOUS
<1>1. FlowTypes /\ work \in Works
  BY DEF FlowInv, FlowTypes
<1>2. /\ work.stage # 0 /\ UNCHANGED <<pipeline, identities, do_store>>
      /\ \/ work.stage = 2 /\ work.tasks # "bad" /\ HandlerPasses(work)
         \/ work.stage = 3 /\ Authorized(work) /\ HandlerPasses(work)
         \/ work.stage = 5 /\ HandlerPasses(work)
         \/ HandlerFails
  BY <1>1, StageNames DEF ValidateHandler, AuthorizeHandler, VerifyHandler, Returns, AtHandler, Idle, Works, Authorized
<1>3. CASE HandlerFails
  BY <1>2, <1>3, FailKeepsFlow
<1>4. CASE HandlerPasses(work)
  <2>1. Passes /\ work'.tasks = work.tasks /\ work'.identity = work.identity /\ work'.results = work.results
    BY <1>1, <1>2, <1>4, PassesFacts
  <2>2. CASE work.stage = 2 /\ work.tasks # "bad"
    BY <2>1, <2>2, ValidatePasses, PassKeepsFlow
  <2>3. CASE work.stage = 3 /\ Authorized(work)
    BY <2>1, <2>3, AuthorizePasses, PassKeepsFlow
  <2>4. CASE work.stage = 5
    BY <2>1, <2>4, ExecutePasses, PassKeepsFlow
  <2>5. CASE HandlerFails
    BY <1>2, <2>5, FailKeepsFlow
  <2> QED
    BY <1>2, <2>2, <2>3, <2>4, <2>5
<1> QED
  BY <1>2, <1>3, <1>4

LEMMA OtherKeepsFlow == FlowInv /\ (Custom \/ \E id \in Identities : Identify(id)) => FlowInv'
<1>1. ASSUME FlowInv, Custom PROVE FlowInv'
  <2>1. /\ work.stage \in 1 .. 5 /\ FlowTypes /\ work \in Works
        /\ UNCHANGED <<pipeline, identities, do_store>>
        /\ work.handler \in DOMAIN HandlersOf(work.stage)
        /\ HandlersOf(work.stage)[work.handler] = "custom"
        /\ HandlerPasses(work) \/ HandlerFails
    BY <1>1 DEF Custom, AtHandler, Idle, FlowInv, FlowTypes, Works
  <2>2. CASE HandlerFails
    BY <1>1, <2>1, <2>2, FailKeepsFlow
  <2>3. CASE HandlerPasses(work)
    <3>1. Passes /\ work'.tasks = work.tasks /\ work'.identity = work.identity /\ work'.results = work.results
      BY <2>1, <2>3, PassesFacts
    <3> QED
      BY <1>1, <2>1, <3>1, OtherPasses, PassKeepsFlow
  <2> QED
    BY <2>1, <2>2, <2>3
<1>2. ASSUME NEW id \in Identities, FlowInv, Identify(id) PROVE FlowInv'
  <2> DEFINE w == [work EXCEPT !.identity = <<id>>]
  <2>1. /\ work.stage \in 1 .. 5 /\ FlowTypes /\ work \in Works
        /\ UNCHANGED <<pipeline, identities, do_store>>
        /\ work.handler \in DOMAIN HandlersOf(work.stage)
        /\ HandlersOf(work.stage)[work.handler] = "identify"
        /\ HandlerPasses(w)
    BY <1>2 DEF Identify, AtHandler, Idle, FlowInv, FlowTypes, Works
  <2>2. <<id>> \in Seq(Identities)
    OBVIOUS
  <2>3. /\ w \in Works /\ w.stage = work.stage /\ w.handler = work.handler /\ w.plan = work.plan
        /\ w.persists = work.persists /\ w.tasks = work.tasks /\ w.results = work.results
    BY <2>1, <2>2 DEF Works
  <2> HIDE DEF w
  <2>4. Passes /\ work'.tasks = work.tasks /\ work'.results = work.results
    BY <2>1, <2>3, PassesFacts
  <2> QED
    BY <1>2, <2>1, <2>4, OtherPasses, PassKeepsFlow
<1> QED
  BY <1>1, <1>2

LEMMA FlowInvStep == FlowInv /\ [FlowNext]_<<flowVars, storeVars>> => FlowInv'
<1> SUFFICES ASSUME FlowInv, [FlowNext]_<<flowVars, storeVars>> PROVE FlowInv'
  OBVIOUS
<1>1. CASE UNCHANGED <<flowVars, storeVars>>
  BY <1>1 DEF flowVars, storeVars, FlowInv, FlowTypes, NotYet, AnswerTellsOutcome, Progress, Standards,
              HandlersOf, LastChecks, ChecksLast, Passed, Authorized, Authorizes, Has, Request, CheckIdentity, Idle
<1>2. CASE \E id \in Identities : CreateIdentity(id)
  BY <1>2, IdentityKeepsFlow
<1>3. CASE \E request \in Requests : ProcessRequest(request)
  BY <1>3, RequestKeepsFlow
<1>4. CASE \E plan \in DOMAIN executions : ExecuteAgain(plan)
  BY <1>4, AgainKeepsFlow
<1>5. CASE PlanHandler \/ ValidateHandler \/ AuthorizeHandler \/ ExecuteHandler \/ VerifyHandler
  BY <1>5, PlanKeepsFlow, CheckKeepsFlow, ExecuteKeepsFlow
<1>6. CASE Custom \/ \E id \in Identities : Identify(id)
  BY <1>6, OtherKeepsFlow
<1>7. CASE NextStage
  BY <1>7, NextStageKeepsFlow
<1>8. CASE Finish
  BY <1>8, FinishKeepsFlow
<1> QED
  BY <1>1, <1>2, <1>3, <1>4, <1>5, <1>6, <1>7, <1>8 DEF FlowNext

\* Whatever handlers are registered and however plans are executed again, a record in
\* the store and an answer 200 tell that the plan succeeded and how.
THEOREM AnswersHold == FlowSpec => []AnswerTellsOutcome
<1>1. FlowInv => AnswerTellsOutcome
  BY DEF FlowInv
<1> QED
  BY <1>1, FlowInvInit, FlowInvStep, PTL DEF FlowSpec

--------------------------------------------------------------------------------
(* Induction.                                                                    *)

\* Induction over the natural numbers, as a set of them, from the order being well founded.
LEMMA LeastNatural ==
  ASSUME NEW T \in SUBSET Nat, T # {}
  PROVE  \E n \in T : \A m \in T : n <= m
<1>1. PICK n \in T : \A m \in T : ~(<<m, n>> \in OpToRel(<, Nat))
  BY NatLessThanWellFounded, WFMin
<1>2. \A m \in T : ~(m < n)
  BY <1>1 DEF OpToRel
<1> QED
  BY <1>2

LEMMA SetInduction ==
  ASSUME NEW T \in SUBSET Nat, 0 \in T, \A n \in T : n + 1 \in T
  PROVE  \A n \in Nat : n \in T
<1> SUFFICES ASSUME Nat \ T # {} PROVE FALSE
  OBVIOUS
<1>1. PICK n \in Nat \ T : \A m \in Nat \ T : n <= m
  BY LeastNatural
<1>2. n - 1 \in Nat /\ n - 1 \in T
  BY <1>1
<1> QED
  BY <1>1, <1>2

\* A rising sequence of l numbers up to m leaves room above each of them for the rest.
LEMMA RisingBound ==
  ASSUME NEW l \in Nat, NEW m \in Nat, NEW p \in [1 .. l -> 1 .. m],
         \A i, j \in 1 .. l : i < j => p[i] < p[j]
  PROVE  \A i \in 1 .. l : p[i] <= m - (l - i)
<1> DEFINE T == {n \in Nat : n < l => p[l - n] <= m - n}
<1>1. 0 \in T
  OBVIOUS
<1>2. ASSUME NEW n \in T PROVE n + 1 \in T
  <2>1. CASE n + 1 < l
    <3>1. l - n \in 1 .. l /\ l - (n + 1) \in 1 .. l /\ l - (n + 1) < l - n
      BY <2>1
    <3>2. p[l - n] <= m - n /\ p[l - (n + 1)] < p[l - n] /\ p[l - n] \in 1 .. m /\ p[l - (n + 1)] \in 1 .. m
      BY <2>1, <3>1
    <3> QED
      BY <3>2
  <2>2. CASE ~(n + 1 < l)
    BY <2>2
  <2> QED
    BY <2>1, <2>2
<1>3. \A n \in Nat : n \in T
  <2> HIDE DEF T
  <2>1. T \in SUBSET Nat
    BY DEF T
  <2> QED
    BY <1>1, <1>2, <2>1, SetInduction
<1>4. ASSUME NEW i \in 1 .. l PROVE p[i] <= m - (l - i)
  <2>1. l - i \in Nat /\ l - i < l /\ l - (l - i) = i
    OBVIOUS
  <2> QED
    BY <1>3, <2>1
<1> QED
  BY <1>4

LEMMA RemoveAtFacts ==
  ASSUME NEW S, NEW s \in Seq(S), NEW i \in 1 .. Len(s)
  PROVE  /\ RemoveAt(s, i) \in Seq(S)
         /\ Len(s) \in Nat /\ Len(RemoveAt(s, i)) = Len(s) - 1
         /\ \A j \in 1 .. Len(s) - 1 : RemoveAt(s, i)[j] = IF j < i THEN s[j] ELSE s[j + 1]
<1> DEFINE a == SubSeq(s, 1, i - 1)
           b == SubSeq(s, i + 1, Len(s))
<1>1. Len(s) \in Nat /\ i \in 1 .. Len(s)
  OBVIOUS
<1>2. a \in Seq(S) /\ Len(a) = i - 1 /\ \A j \in 1 .. i - 1 : a[j] = s[j]
  BY <1>1
<1>3. b \in Seq(S) /\ Len(b) = Len(s) - i /\ \A j \in 1 .. Len(s) - i : b[j] = s[i + j]
  BY <1>1
<1>4. RemoveAt(s, i) = a \o b
  BY DEF RemoveAt
<1> HIDE DEF a, b
<1>5. /\ a \o b \in Seq(S) /\ Len(a \o b) = Len(s) - 1
      /\ \A j \in 1 .. Len(s) - 1 : (a \o b)[j] = IF j < i THEN s[j] ELSE s[j + 1]
  <2>1. a \o b \in Seq(S) /\ Len(a \o b) = Len(a) + Len(b)
    BY <1>2, <1>3, ConcatProperties
  <2>2. Len(a \o b) = Len(s) - 1
    BY <1>1, <1>2, <1>3, <2>1
  <2>3. \A j \in 1 .. Len(a) + Len(b) : (a \o b)[j] = IF j <= Len(a) THEN a[j] ELSE b[j - Len(a)]
    BY <1>2, <1>3, ConcatProperties
  <2>4. ASSUME NEW j \in 1 .. Len(s) - 1 PROVE (a \o b)[j] = IF j < i THEN s[j] ELSE s[j + 1]
    <3>1. CASE j < i
      BY <1>1, <1>2, <1>3, <2>3, <3>1
    <3>2. CASE ~(j < i)
      <4>0. j \in 1 .. Len(a) + Len(b) /\ ~(j <= Len(a)) /\ j - (i - 1) \in 1 .. Len(s) - i
        BY <1>1, <1>2, <1>3, <3>2
      <4>1. (a \o b)[j] = b[j - (i - 1)] /\ j - (i - 1) \in 1 .. Len(s) - i
        BY <1>2, <2>3, <4>0
      <4>2. i + (j - (i - 1)) = j + 1
        BY <1>1
      <4> QED
        BY <1>3, <3>2, <4>1, <4>2
    <3> QED
      BY <3>1, <3>2
  <2> QED
    BY <2>1, <2>2, <2>4
<1> QED
  BY <1>1, <1>4, <1>5

--------------------------------------------------------------------------------
(* The inference cache.                                                          *)

CacheSpec == CacheInit /\ [][CacheNext]_cacheVars

Entries == [query : Queries, result : Results, left : Int]

CacheTypes ==
  /\ cache \in Seq(Entries) /\ Len(cache) <= MaxSize
  /\ lastSet \in [Queries -> Seq(Entries)]
  /\ touched \in Seq(Queries)
  /\ \A i \in 1 .. Len(touched) : lastSet[touched[i]] # << >>

HoldsLast == \A i \in 1 .. Len(cache) : <<cache[i]>> = lastSet[cache[i].query]

Distinct(t) == \A i, j \in 1 .. Len(t) : t[i] = t[j] => i = j

\* The queries of the entries c were all touched, in the order of the entries.
Follows(c, t) ==
  /\ \A k \in 1 .. Len(c) : \E i \in 1 .. Len(t) : t[i] = c[k].query
  /\ \A k, l \in 1 .. Len(c), i, j \in 1 .. Len(t) :
       k < l /\ t[i] = c[k].query /\ t[j] = c[l].query => i < j

\* The queries touched last are among qs.
Recent(t, qs) == \A i \in 1 .. Len(t) : i > Len(t) - (MaxSize - 1) => t[i] \in qs

Kept(c, set) == {q \in Queries : (\E k \in 1 .. Len(c) : c[k].query = q) \/ Expired(set[q][1])}

CacheInv ==
  /\ CacheTypes /\ HoldsLast /\ Distinct(touched)
  /\ Follows(cache, touched) /\ Recent(touched, Kept(cache, lastSet))

\* Touching q moves it to the end and leaves the others in their order.
Touch(t, q) == Append(Without(t, q), q)
PlaceOf(t, q) == IF q \in Range(t) THEN CHOOSE i \in 1 .. Len(t) : t[i] = q ELSE Len(t) + 1
Source(t, q, i) == IF i < PlaceOf(t, q) THEN i ELSE i + 1

LEMMA TouchFacts ==
  ASSUME NEW t \in Seq(Queries), Distinct(t), NEW q \in Queries
  PROVE  LET u == Touch(t, q)
             m == Len(Touch(t, q)) - 1
         IN /\ u \in Seq(Queries) /\ m \in Nat /\ Len(u) = m + 1 /\ u[m + 1] = q
            /\ Len(t) \in Nat /\ m + 1 >= Len(t)
            /\ \A i \in 1 .. m :
                 /\ Source(t, q, i) \in 1 .. Len(t) /\ Source(t, q, i) >= i
                 /\ u[i] = t[Source(t, q, i)] /\ t[Source(t, q, i)] # q
            /\ \A i, j \in 1 .. m : i < j => Source(t, q, i) < Source(t, q, j)
            /\ \A n \in 1 .. Len(t) : t[n] # q => \E i \in 1 .. m : Source(t, q, i) = n
<1> DEFINE u == Touch(t, q)
           m == Len(Touch(t, q)) - 1
           p == PlaceOf(t, q)
<1>1. Len(t) \in Nat
  OBVIOUS
<1>2. /\ u \in Seq(Queries) /\ m \in Nat /\ Len(u) = m + 1 /\ u[m + 1] = q
      /\ p \in 1 .. Len(t) + 1 /\ m = (IF p = Len(t) + 1 THEN Len(t) ELSE Len(t) - 1)
      /\ \A n \in 1 .. Len(t) : t[n] # q <=> n # p
      /\ \A i \in 1 .. m : u[i] = IF i < p THEN t[i] ELSE t[i + 1]
  <2>1. CASE q \notin Range(t)
    <3>1. u = Append(t, q) /\ p = Len(t) + 1 /\ \A n \in 1 .. Len(t) : t[n] # q
      BY <2>1 DEF Touch, Without, PlaceOf, Range
    <3> HIDE DEF u, p
    <3>2. u \in Seq(Queries) /\ Len(u) = Len(t) + 1 /\ u[Len(u)] = q /\ \A i \in 1 .. Len(t) : u[i] = t[i]
      BY <3>1
    <3>3. m = Len(t)
      BY <1>1, <3>2 DEF u
    <3> QED
      BY <1>1, <3>1, <3>2, <3>3
  <2>2. CASE q \in Range(t)
    <3> DEFINE r == RemoveAt(t, p)
    <3>1. p \in 1 .. Len(t) /\ t[p] = q
      BY <2>2 DEF PlaceOf, Range
    <3>2. u = Append(r, q) /\ \A n \in 1 .. Len(t) : n # p => t[n] # q
      BY <2>2, <3>1, SMTT(30) DEF Touch, Without, PlaceOf, Distinct
    <3> HIDE DEF p, u
    <3>3. /\ r \in Seq(Queries) /\ Len(r) = Len(t) - 1
          /\ \A i \in 1 .. Len(t) - 1 : r[i] = IF i < p THEN t[i] ELSE t[i + 1]
      BY <1>1, <3>1, RemoveAtFacts
    <3> HIDE DEF r
    <3> HIDE DEF m
    <3>4. u \in Seq(Queries) /\ Len(u) = Len(t) /\ u[Len(t)] = q /\ \A i \in 1 .. Len(t) - 1 : u[i] = r[i]
      <4>1. u \in Seq(Queries) /\ Len(u) = Len(r) + 1 /\ u[Len(r) + 1] = q /\ \A i \in 1 .. Len(r) : u[i] = r[i]
        BY <3>2, <3>3, AppendProperties
      <4>2. Len(r) + 1 = Len(t)
        BY <1>1, <3>3
      <4> QED
        BY <3>3, <4>1, <4>2
    <3>5. m = Len(t) - 1
      BY <1>1, <3>4 DEF u, m
    <3> QED
      BY <1>1, <3>1, <3>2, <3>3, <3>4, <3>5
  <2> QED
    BY <2>1, <2>2
<1>3. \A i \in Nat : Source(t, q, i) = IF i < p THEN i ELSE i + 1
  BY DEF Source
<1>4. \A i \in 1 .. m : i \in Nat /\ Source(t, q, i) \in 1 .. Len(t) /\ Source(t, q, i) # p
  <2> HIDE DEF u, m, p
  <2>1. m \in Nat /\ p \in 1 .. Len(t) + 1 /\ m = (IF p = Len(t) + 1 THEN Len(t) ELSE Len(t) - 1)
    BY <1>2
  <2>2. ASSUME NEW i \in 1 .. m
        PROVE  i \in Nat /\ Source(t, q, i) \in 1 .. Len(t) /\ Source(t, q, i) # p
    <3>1. Source(t, q, i) = (IF i < p THEN i ELSE i + 1)
      BY <1>3, <2>1
    <3> QED
      BY <1>1, <2>1, <3>1
  <2> QED
    BY <2>2
<1> HIDE DEF u, m, p
<1>5. ASSUME NEW n \in 1 .. Len(t), t[n] # q PROVE \E i \in 1 .. m : Source(t, q, i) = n
  <2>1. n # p /\ n \in 1 .. Len(t)
    BY <1>1, <1>2, <1>5
  <2>2. m \in Nat /\ p \in 1 .. Len(t) + 1 /\ m = (IF p = Len(t) + 1 THEN Len(t) ELSE Len(t) - 1)
    BY <1>2
  <2>3. CASE n < p
    <3>1. n \in 1 .. m /\ n \in Nat
      BY <1>1, <2>1, <2>2, <2>3
    <3>2. Source(t, q, n) = n
      BY <1>3, <2>3, <3>1
    <3> QED
      BY <3>1, <3>2
  <2>4. CASE n > p
    <3>1. n - 1 \in 1 .. m /\ n - 1 \in Nat /\ ~(n - 1 < p) /\ (n - 1) + 1 = n
      BY <1>1, <2>1, <2>2, <2>4
    <3>2. Source(t, q, n - 1) = n
      BY <1>3, <3>1
    <3> QED
      BY <3>1, <3>2
  <2> QED
    BY <1>1, <2>1, <2>2, <2>3, <2>4
<1>6. ASSUME NEW i \in 1 .. m, NEW j \in 1 .. m, i < j PROVE Source(t, q, i) < Source(t, q, j)
  <2>1. Source(t, q, i) = (IF i < p THEN i ELSE i + 1) /\ Source(t, q, j) = (IF j < p THEN j ELSE j + 1)
    BY <1>3, <1>4
  <2>2. p \in Nat /\ i \in Nat /\ j \in Nat
    BY <1>1, <1>2
  <2> QED
    BY <1>6, <2>1, <2>2
<1>7. ASSUME NEW i \in 1 .. m
      PROVE  /\ Source(t, q, i) \in 1 .. Len(t) /\ Source(t, q, i) >= i
             /\ u[i] = t[Source(t, q, i)] /\ t[Source(t, q, i)] # q
  <2>1. Source(t, q, i) \in 1 .. Len(t) /\ Source(t, q, i) # p /\ i \in Nat
    BY <1>1, <1>4
  <2>2. Source(t, q, i) = (IF i < p THEN i ELSE i + 1)
    BY <1>3, <2>1
  <2>3. u[i] = (IF i < p THEN t[i] ELSE t[i + 1])
    BY <1>2
  <2>4. Source(t, q, i) >= i
    BY <2>1, <2>2
  <2>5. t[Source(t, q, i)] # q
    BY <1>2, <2>1
  <2> QED
    BY <2>1, <2>2, <2>3, <2>4, <2>5
<1>8. m + 1 >= Len(t)
  BY <1>1, <1>2
<1>9. /\ u \in Seq(Queries) /\ m \in Nat /\ Len(u) = m + 1 /\ u[m + 1] = q
      /\ Len(t) \in Nat /\ m + 1 >= Len(t)
      /\ \A i \in 1 .. m :
           /\ Source(t, q, i) \in 1 .. Len(t) /\ Source(t, q, i) >= i
           /\ u[i] = t[Source(t, q, i)] /\ t[Source(t, q, i)] # q
      /\ \A i, j \in 1 .. m : i < j => Source(t, q, i) < Source(t, q, j)
      /\ \A n \in 1 .. Len(t) : t[n] # q => \E i \in 1 .. m : Source(t, q, i) = n
  BY <1>1, <1>2, <1>5, <1>6, <1>7, <1>8
<1> QED
  BY <1>9 DEF u, m

LEMMA TouchKeeps ==
  ASSUME NEW t \in Seq(Queries), Distinct(t), NEW q \in Queries, NEW qs,
         NEW c \in Seq(Entries), \A k \in 1 .. Len(c) : c[k].query # q, Follows(c, t), Recent(t, qs),
         NEW e \in Entries, e.query = q
  PROVE  LET u == Touch(t, q)
         IN /\ u \in Seq(Queries) /\ Distinct(u)
            /\ \A i \in 1 .. Len(u) : u[i] = q \/ \E n \in 1 .. Len(t) : u[i] = t[n]
            /\ Follows(Append(c, e), u) /\ Recent(u, qs \union {q})
<1> DEFINE u == Touch(t, q)
           d == Append(c, e)
           m == Len(u) - 1
           f(i) == Source(t, q, i)
<1>1. /\ u \in Seq(Queries) /\ m \in Nat /\ Len(u) = m + 1 /\ u[m + 1] = q
      /\ Len(t) \in Nat /\ m + 1 >= Len(t)
  BY TouchFacts
<1>2. /\ \A i \in 1 .. m : f(i) \in 1 .. Len(t) /\ f(i) >= i /\ u[i] = t[f(i)] /\ t[f(i)] # q
      /\ \A i, j \in 1 .. m : i < j => f(i) < f(j)
      /\ \A n \in 1 .. Len(t) : t[n] # q => \E i \in 1 .. m : f(i) = n
  BY TouchFacts
<1>3. /\ Len(d) = Len(c) + 1 /\ Len(c) \in Nat /\ d[Len(c) + 1] = e
      /\ \A k \in 1 .. Len(c) : d[k] = c[k]
  OBVIOUS
<1>4. Len(u) = m + 1 /\ MaxSize \in Nat
  BY <1>1, CacheAssumption
<1> HIDE DEF u, d, m, f
<1>5. Distinct(u)
  <2>1. ASSUME NEW i \in 1 .. m + 1, NEW j \in 1 .. m + 1, u[i] = u[j], i < j PROVE FALSE
    <3>1. i \in 1 .. m
      BY <1>1, <2>1
    <3>a. u[i] # q
      BY <1>2, <3>1
    <3>b. j # m + 1
      BY <1>1, <2>1, <3>a
    <3>2. j \in 1 .. m
      BY <1>1, <2>1, <3>b
    <3>3. f(i) \in 1 .. Len(t) /\ f(j) \in 1 .. Len(t) /\ t[f(i)] = t[f(j)] /\ f(i) < f(j)
      BY <1>2, <2>1, <3>1, <3>2
    <3> QED
      BY <1>1, <3>3 DEF Distinct
  <2>2. \A i, j \in 1 .. m + 1 : i = j \/ i < j \/ j < i
    BY <1>1
  <2> QED
    BY <1>1, <2>1, <2>2 DEF Distinct
<1>6. \A i \in 1 .. Len(u) : u[i] = q \/ \E n \in 1 .. Len(t) : u[i] = t[n]
  <2>1. \A i \in 1 .. m + 1 : i = m + 1 \/ i \in 1 .. m
    BY <1>1
  <2> QED
    BY <1>1, <1>2, <2>1
<1>7. ASSUME NEW k \in 1 .. Len(d) PROVE \E i \in 1 .. Len(u) : u[i] = d[k].query
  <2>1. CASE k = Len(c) + 1
    <3>1. m + 1 \in 1 .. Len(u)
      BY <1>1
    <3> QED
      BY <1>1, <1>3, <2>1, <3>1
  <2>2. CASE k \in 1 .. Len(c)
    <3>1. PICK n \in 1 .. Len(t) : t[n] = c[k].query
      BY <2>2 DEF Follows
    <3>2. PICK i \in 1 .. m : f(i) = n
      BY <1>2, <2>2, <3>1
    <3>3. i \in 1 .. Len(u) /\ u[i] = c[k].query
      BY <1>1, <1>2, <3>1, <3>2
    <3> QED
      BY <1>3, <2>2, <3>3
  <2> QED
    BY <1>3, <2>1, <2>2
<1>8. ASSUME NEW k \in 1 .. Len(d), NEW l \in 1 .. Len(d), NEW i \in 1 .. Len(u), NEW j \in 1 .. Len(u),
             k < l, u[i] = d[k].query, u[j] = d[l].query
      PROVE  i < j
  <2>1. k \in 1 .. Len(c) /\ d[k] = c[k] /\ c[k].query # q
    BY <1>3, <1>8
  <2>2. i \in 1 .. m
    BY <1>1, <1>8, <2>1
  <2>3. f(i) \in 1 .. Len(t) /\ t[f(i)] = c[k].query
    BY <1>2, <1>8, <2>1, <2>2
  <2>4. CASE j = m + 1
    BY <1>1, <2>2, <2>4
  <2>5. CASE j \in 1 .. m
    <3>1. f(j) \in 1 .. Len(t) /\ t[f(j)] = d[l].query /\ d[l].query # q
      BY <1>2, <1>8, <2>5
    <3>2. l \in 1 .. Len(c) /\ d[l] = c[l]
      BY <1>3, <3>1
    <3>3. f(i) < f(j)
      BY <1>8, <2>1, <2>3, <3>1, <3>2 DEF Follows
    <3>4. f(i) \in Nat /\ f(j) \in Nat
      BY <1>1, <2>3, <3>1
    <3>5. i # j /\ ~(j < i)
      BY <1>2, <2>2, <2>5, <3>3, <3>4
    <3> QED
      BY <2>2, <2>5, <3>5
  <2> QED
    BY <1>1, <2>4, <2>5
<1>9. Recent(u, qs \union {q})
  <2>1. ASSUME NEW i \in 1 .. Len(u), i > m + 1 - (MaxSize - 1) PROVE u[i] \in qs \union {q}
    <3>1. CASE i = m + 1
      BY <1>1, <3>1
    <3>2. CASE i \in 1 .. m
      <4>1. f(i) \in 1 .. Len(t) /\ f(i) >= i /\ u[i] = t[f(i)]
        BY <1>2, <3>2
      <4>2. f(i) > Len(t) - (MaxSize - 1)
        BY <1>1, <1>4, <2>1, <3>2, <4>1
      <4> QED
        BY <4>1, <4>2 DEF Recent
    <3> QED
      BY <1>1, <3>1, <3>2
  <2>2. Len(u) - (MaxSize - 1) = m + 1 - (MaxSize - 1)
    BY <1>1, <1>4
  <2> QED
    BY <2>1, <2>2 DEF Recent
<1>10. Follows(d, u)
  BY <1>7, <1>8 DEF Follows
<1> QED
  BY <1>1, <1>5, <1>6, <1>9, <1>10 DEF u, d

LEMMA FollowsFacts ==
  ASSUME NEW t, NEW c \in Seq(Entries), Follows(c, t), NEW d \in Seq(Entries), Len(d) \in Nat, Len(c) \in Nat
  PROVE  /\ \A k, l \in 1 .. Len(c) : c[k].query = c[l].query => k = l
         /\ (/\ Len(d) = Len(c)
             /\ \A k \in 1 .. Len(c) : d[k].query = c[k].query) => Follows(d, t)
         /\ \A i \in 1 .. Len(c) :
              (/\ Len(d) = Len(c) - 1
               /\ \A k \in 1 .. Len(c) - 1 : d[k] = IF k < i THEN c[k] ELSE c[k + 1]) => Follows(d, t)
<1>1. ASSUME NEW k \in 1 .. Len(c), NEW l \in 1 .. Len(c), c[k].query = c[l].query, k < l PROVE FALSE
  <2>1. PICK i \in 1 .. Len(t) : t[i] = c[k].query
    BY DEF Follows
  <2>2. i < i
    BY <1>1, <2>1 DEF Follows
  <2> QED
    BY <2>1, <2>2, SMT
<1>2. \A k, l \in 1 .. Len(c) : k = l \/ k < l \/ l < k
  OBVIOUS
<1>3. ASSUME Len(d) = Len(c), \A k \in 1 .. Len(c) : d[k].query = c[k].query PROVE Follows(d, t)
  BY <1>3 DEF Follows
<1>4. ASSUME NEW i \in 1 .. Len(c), Len(d) = Len(c) - 1,
             \A k \in 1 .. Len(c) - 1 : d[k] = IF k < i THEN c[k] ELSE c[k + 1]
      PROVE  Follows(d, t)
  <2> DEFINE g(k) == IF k < i THEN k ELSE k + 1
  <2>1. ASSUME NEW k \in 1 .. Len(d) PROVE g(k) \in 1 .. Len(c) /\ d[k] = c[g(k)]
    BY <1>4
  <2>2. ASSUME NEW k \in 1 .. Len(d), NEW l \in 1 .. Len(d), k < l PROVE g(k) < g(l)
    BY <1>4, <2>2
  <2> HIDE DEF g
  <2>3. ASSUME NEW k \in 1 .. Len(d) PROVE \E j \in 1 .. Len(t) : t[j] = d[k].query
    BY <2>1 DEF Follows
  <2>4. ASSUME NEW k \in 1 .. Len(d), NEW l \in 1 .. Len(d), NEW m \in 1 .. Len(t), NEW n \in 1 .. Len(t),
               k < l, t[m] = d[k].query, t[n] = d[l].query
        PROVE  m < n
    <3>1. /\ g(k) \in 1 .. Len(c) /\ g(l) \in 1 .. Len(c) /\ g(k) < g(l)
          /\ t[m] = c[g(k)].query /\ t[n] = c[g(l)].query
      BY <2>1, <2>2, <2>4
    <3> QED
      BY <3>1 DEF Follows
  <2> QED
    BY <2>3, <2>4 DEF Follows
<1> QED
  BY <1>1, <1>2, <1>3, <1>4

LEMMA RecentMore ==
  ASSUME NEW t, NEW a, NEW b, a \subseteq b, Recent(t, a)
  PROVE  Recent(t, b)
  BY DEF Recent

LEMMA CacheLengths ==
  ASSUME CacheTypes
  PROVE  Len(cache) \in Nat /\ Len(touched) \in Nat /\ MaxSize \in Nat /\ MaxSize > 0
  BY CacheAssumption DEF CacheTypes

\* The entry that is evicted was not touched recently.
LEMMA EvictFacts ==
  ASSUME CacheInv
  PROVE  /\ Evict(cache) \in Seq(Entries) /\ Len(Evict(cache)) \in Nat /\ Len(Evict(cache)) < MaxSize
         /\ \A k \in 1 .. Len(Evict(cache)) : \E l \in 1 .. Len(cache) : Evict(cache)[k] = cache[l]
         /\ Follows(Evict(cache), touched)
         /\ Recent(touched, Kept(Evict(cache), lastSet))
<1>1. /\ cache \in Seq(Entries) /\ Len(cache) \in Nat /\ Len(touched) \in Nat /\ MaxSize \in Nat /\ MaxSize > 0
      /\ Len(cache) <= MaxSize /\ touched \in Seq(Queries)
      /\ Follows(cache, touched) /\ Recent(touched, Kept(cache, lastSet)) /\ Distinct(touched)
  BY CacheLengths DEF CacheInv, CacheTypes
<1>2. CASE Len(cache) < MaxSize
  <2>1. Evict(cache) = cache
    BY <1>1, <1>2 DEF Evict
  <2> QED
    BY <1>1, <1>2, <2>1
<1>3. CASE Len(cache) = MaxSize
  <2> DEFINE d == Evict(cache)
             n == Len(cache)
  <2>1. d = Tail(cache) /\ cache # << >>
    BY <1>1, <1>3 DEF Evict
  <2>2. d \in Seq(Entries) /\ Len(d) = n - 1 /\ \A k \in 1 .. n - 1 : d[k] = cache[k + 1]
    BY <1>1, <2>1
  <2> HIDE DEF d, n
  <2>3. n \in Nat /\ n = Len(cache) /\ n = MaxSize /\ 1 \in 1 .. n
    BY <1>1, <1>3 DEF n
  <2>4. Len(d) \in Nat /\ Len(d) < MaxSize
    BY <1>1, <2>2, <2>3
  <2>5. \A k \in 1 .. Len(d) : \E l \in 1 .. Len(cache) : d[k] = cache[l]
    <3>1. \A k \in 1 .. n - 1 : k + 1 \in 1 .. n
      BY <2>3
    <3> QED
      BY <2>2, <2>3, <3>1
  <2>6. Follows(d, touched)
    <3>1. \A k \in 1 .. n - 1 : ~(k < 1)
      BY <2>3
    <3>2. \A k \in 1 .. Len(cache) - 1 : d[k] = IF k < 1 THEN cache[k] ELSE cache[k + 1]
      BY <2>2, <2>3, <3>1
    <3> QED
      BY <1>1, <2>2, <2>3, <2>4, <3>2, FollowsFacts
  <2> DEFINE p == [k \in 1 .. n |-> CHOOSE i \in 1 .. Len(touched) : touched[i] = cache[k].query]
  <2>7. \A k \in 1 .. n : p[k] \in 1 .. Len(touched) /\ touched[p[k]] = cache[k].query
    BY <1>1, <2>3 DEF Follows
  <2>8. p \in [1 .. n -> 1 .. Len(touched)]
    BY <2>7
  <2>9. \A k, l \in 1 .. n : k < l => p[k] < p[l]
    BY <1>1, <2>3, <2>7 DEF Follows
  <2> HIDE DEF p
  <2>10. p[1] <= Len(touched) - (n - 1)
    BY <1>1, <2>3, <2>8, <2>9, RisingBound
  <2>11. ASSUME NEW i \in 1 .. Len(touched), i > Len(touched) - (MaxSize - 1)
         PROVE  touched[i] \in Kept(d, lastSet)
    <3>1. touched[i] \in Kept(cache, lastSet) /\ touched[i] \in Queries
      BY <1>1, <2>11 DEF Recent
    <3>2. CASE Expired(lastSet[touched[i]][1])
      BY <3>1, <3>2 DEF Kept
    <3>3. CASE \E k \in 1 .. Len(cache) : cache[k].query = touched[i]
      <4>1. PICK k \in 1 .. n : cache[k].query = touched[i]
        BY <2>3, <3>3
      <4>2. p[k] = i
        BY <1>1, <2>7, <4>1 DEF Distinct
      <4>3. k # 1
        BY <1>1, <2>3, <2>10, <2>11, <4>2
      <4>4. k - 1 \in 1 .. n - 1 /\ (k - 1) + 1 = k
        BY <2>3, <4>1, <4>3
      <4>5. k - 1 \in 1 .. Len(d) /\ d[k - 1].query = touched[i]
        BY <2>2, <4>1, <4>4
      <4> QED
        BY <3>1, <4>5 DEF Kept
    <3> QED
      BY <3>1, <3>2, <3>3 DEF Kept
  <2>12. Recent(touched, Kept(d, lastSet))
    BY <2>11 DEF Recent
  <2> QED
    BY <2>2, <2>4, <2>5, <2>6, <2>12 DEF d
<1> QED
  BY <1>1, <1>2, <1>3

LEMMA CacheInvInit == CacheInit => CacheInv
<1> SUFFICES ASSUME CacheInit PROVE CacheInv
  OBVIOUS
<1>1. cache = << >> /\ touched = << >> /\ lastSet = [q \in Queries |-> << >>]
  BY DEF CacheInit
<1>2. Len(cache) = 0 /\ Len(touched) = 0 /\ \A i \in 1 .. 0 : FALSE
  BY <1>1
<1>3. CacheTypes
  BY <1>1, <1>2, CacheAssumption DEF CacheTypes
<1> QED
  BY <1>2, <1>3 DEF CacheInv, HoldsLast, Distinct, Follows, Recent

\* What is cached or has expired still is, in a cache that holds the same queries
\* and what was set, once touched has become u.
LEMMA CacheInvOf ==
  /\ cache' \in Seq(Entries) /\ Len(cache') <= MaxSize /\ lastSet' \in [Queries -> Seq(Entries)]
  /\ touched' \in Seq(Queries) /\ (\A i \in 1 .. Len(touched') : lastSet'[touched'[i]] # << >>)
  /\ HoldsLast' /\ Distinct(touched') /\ Follows(cache', touched')
  /\ (\E qs : Recent(touched', qs) /\ qs \subseteq Kept(cache', lastSet'))
  => CacheInv'
  BY RecentMore DEF CacheInv, CacheTypes

\* What a cache holds, whatever the order.
Holds(c, e) == \E k \in 1 .. Len(c) : c[k] = e

LEMMA HoldsFacts ==
  /\ HoldsLast <=> \A e : Holds(cache, e) => <<e>> = lastSet[e.query]
  /\ HoldsLast' <=> \A e : Holds(cache', e) => <<e>> = lastSet'[e.query]
  /\ \A c, set : Kept(c, set) = {q \in Queries : (\E e : Holds(c, e) /\ e.query = q) \/ Expired(set[q][1])}
<1>1. HoldsLast <=> \A e : Holds(cache, e) => <<e>> = lastSet[e.query]
  BY DEF HoldsLast, Holds
<1>2. HoldsLast' <=> \A e : Holds(cache', e) => <<e>> = lastSet'[e.query]
  BY DEF HoldsLast, Holds
<1>3. \A c, set : Kept(c, set) = {q \in Queries : (\E e : Holds(c, e) /\ e.query = q) \/ Expired(set[q][1])}
  BY DEF Kept, Holds
<1> QED
  BY <1>1, <1>2, <1>3

LEMMA AppendHolds ==
  ASSUME NEW c \in Seq(Entries), NEW e \in Entries
  PROVE  /\ Append(c, e) \in Seq(Entries) /\ Len(c) \in Nat /\ Len(Append(c, e)) = Len(c) + 1
         /\ \A x : Holds(Append(c, e), x) <=> Holds(c, x) \/ x = e
<1> DEFINE d == Append(c, e)
<1>1. /\ d \in Seq(Entries) /\ Len(c) \in Nat /\ Len(d) = Len(c) + 1 /\ d[Len(c) + 1] = e
      /\ \A k \in 1 .. Len(c) : d[k] = c[k]
  BY AppendProperties
<1> HIDE DEF d
<1>2. /\ \A k \in 1 .. Len(c) + 1 : k = Len(c) + 1 \/ k \in 1 .. Len(c)
      /\ \A k \in 1 .. Len(c) : k \in 1 .. Len(c) + 1
      /\ Len(c) + 1 \in 1 .. Len(c) + 1
  BY <1>1
<1>3. ASSUME NEW x PROVE Holds(d, x) <=> Holds(c, x) \/ x = e
  BY <1>1, <1>2 DEF Holds
<1> QED
  BY <1>1, <1>3 DEF d

\* An entry that is taken out of the cache.
LEMMA TakeOutFacts ==
  ASSUME CacheInv, NEW i \in 1 .. Len(cache), NEW r, r = RemoveAt(cache, i)
  PROVE  /\ r \in Seq(Entries) /\ Len(r) \in Nat /\ Len(r) + 1 <= MaxSize /\ Follows(r, touched)
         /\ \A x : Holds(cache, x) <=> Holds(r, x) \/ x = cache[i]
         /\ \A k \in 1 .. Len(r) : r[k].query # cache[i].query
<1> DEFINE n == Len(cache)
<1>1. /\ cache \in Seq(Entries) /\ n \in Nat /\ n <= MaxSize /\ MaxSize \in Nat
      /\ Follows(cache, touched) /\ i \in 1 .. n
  BY CacheLengths DEF CacheInv, CacheTypes
<1>2. /\ r \in Seq(Entries) /\ Len(r) = n - 1
      /\ \A k \in 1 .. n - 1 : r[k] = IF k < i THEN cache[k] ELSE cache[k + 1]
  BY <1>1, RemoveAtFacts
<1>a. n = Len(cache)
  OBVIOUS
<1> HIDE DEF n
<1>3. Len(r) \in Nat /\ Len(r) + 1 <= MaxSize
  BY <1>1, <1>2
<1>4. Follows(r, touched)
  <2>1. /\ Len(cache) \in Nat /\ Len(r) = Len(cache) - 1
        /\ \A k \in 1 .. Len(cache) - 1 : r[k] = IF k < i THEN cache[k] ELSE cache[k + 1]
    BY <1>1, <1>2, <1>a
  <2> QED
    BY <1>1, <1>2, <1>3, <2>1, FollowsFacts
<1>5. ASSUME NEW k \in 1 .. n - 1 PROVE \E l \in 1 .. n : l # i /\ r[k] = cache[l]
  <2>1. CASE k < i
    BY <1>1, <1>2, <2>1
  <2>2. CASE ~(k < i)
    <3>1. k + 1 \in 1 .. n /\ k + 1 # i /\ r[k] = cache[k + 1]
      BY <1>1, <1>2, <2>2
    <3> QED
      BY <3>1
  <2> QED
    BY <2>1, <2>2
<1>6. ASSUME NEW l \in 1 .. n, l # i PROVE \E k \in 1 .. n - 1 : r[k] = cache[l]
  <2>1. CASE l < i
    <3>1. l \in 1 .. n - 1
      BY <1>1, <2>1
    <3> QED
      BY <1>2, <2>1, <3>1
  <2>2. CASE l > i
    <3>1. l - 1 \in 1 .. n - 1 /\ ~(l - 1 < i) /\ (l - 1) + 1 = l
      BY <1>1, <2>2
    <3>2. r[l - 1] = cache[l]
      BY <1>2, <3>1
    <3> QED
      BY <3>1, <3>2
  <2> QED
    BY <1>1, <1>6, <2>1, <2>2
<1>7. \A x : Holds(cache, x) <=> Holds(r, x) \/ x = cache[i]
  <2>1. ASSUME NEW x, Holds(cache, x) PROVE Holds(r, x) \/ x = cache[i]
    <3>1. PICK l \in 1 .. n : cache[l] = x
      BY <1>a, <2>1 DEF Holds
    <3> QED
      BY <1>2, <1>6, <3>1 DEF Holds
  <2>2. ASSUME NEW x, Holds(r, x) PROVE Holds(cache, x)
    <3>1. PICK k \in 1 .. n - 1 : r[k] = x
      BY <1>2, <2>2 DEF Holds
    <3> QED
      BY <1>5, <1>a, <3>1 DEF Holds
  <2>3. Holds(cache, cache[i])
    BY DEF Holds
  <2> QED
    BY <2>1, <2>2, <2>3
<1>8. \A k, l \in 1 .. n : cache[k].query = cache[l].query => k = l
  BY <1>1, <1>a, FollowsFacts
<1>9. \A k \in 1 .. Len(r) : r[k].query # cache[i].query
  <2>1. ASSUME NEW k \in 1 .. n - 1 PROVE r[k].query # cache[i].query
    <3>1. PICK l \in 1 .. n : l # i /\ r[k] = cache[l]
      BY <1>5
    <3> QED
      BY <1>1, <1>8, <3>1
  <2> QED
    BY <1>2, <2>1
<1> QED
  BY <1>2, <1>3, <1>4, <1>7, <1>9

LEMMA GetKeepsCache == \A q \in Queries : CacheInv /\ Get(q) => CacheInv'
<1> SUFFICES ASSUME NEW q \in Queries, CacheInv, Get(q) PROVE CacheInv'
  OBVIOUS
<1>1. /\ cache \in Seq(Entries) /\ Len(cache) \in Nat /\ Len(cache) <= MaxSize
      /\ lastSet \in [Queries -> Seq(Entries)] /\ touched \in Seq(Queries) /\ MaxSize \in Nat
      /\ HoldsLast /\ Distinct(touched) /\ Follows(cache, touched) /\ Recent(touched, Kept(cache, lastSet))
      /\ \A i \in 1 .. Len(touched) : lastSet[touched[i]] # << >>
  BY CacheLengths DEF CacheInv, CacheTypes
<1>2. PICK i \in Place(q) :
        /\ cache' = Append(RemoveAt(cache, i), cache[i])
        /\ touched' = Append(Without(touched, q), q) /\ lastSet' = lastSet
  BY DEF Get
<1>3. i \in 1 .. Len(cache) /\ cache[i].query = q /\ cache[i] \in Entries
  <2>1. DOMAIN cache = 1 .. Len(cache)
    BY <1>1
  <2>2. i \in 1 .. Len(cache) /\ cache[i].query = q
    BY <2>1 DEF Place
  <2> QED
    BY <1>1, <2>2
<1> DEFINE r == RemoveAt(cache, i)
           e == cache[i]
<1>4. /\ r \in Seq(Entries) /\ Len(r) \in Nat /\ Len(r) + 1 <= MaxSize /\ Follows(r, touched)
      /\ \A x : Holds(cache, x) <=> Holds(r, x) \/ x = e
      /\ \A k \in 1 .. Len(r) : r[k].query # q
  BY <1>3, TakeOutFacts
<1>5. cache' = Append(r, e) /\ touched' = Touch(touched, q) /\ lastSet' = lastSet /\ e \in Entries /\ e.query = q
  BY <1>2, <1>3 DEF Touch
<1> HIDE DEF r, e
<1>6. /\ cache' \in Seq(Entries) /\ Len(cache') <= MaxSize
      /\ \A x : Holds(cache', x) <=> Holds(cache, x)
  BY <1>4, <1>5, AppendHolds
<1>7. /\ touched' \in Seq(Queries) /\ Distinct(touched') /\ Follows(cache', touched')
      /\ \A j \in 1 .. Len(touched') : touched'[j] = q \/ \E m \in 1 .. Len(touched) : touched'[j] = touched[m]
      /\ Recent(touched', Kept(cache, lastSet) \union {q})
  BY <1>1, <1>4, <1>5, TouchKeeps
<1>8. Holds(cache, e)
  BY <1>4
<1>9. HoldsLast'
  BY <1>1, <1>5, <1>6, HoldsFacts
<1>10. lastSet[q] # << >>
  <2>1. <<e>> = lastSet[q]
    BY <1>1, <1>5, <1>8, HoldsFacts
  <2>2. <<e>> # << >>
    OBVIOUS
  <2> QED
    BY <2>1, <2>2
<1>11. Kept(cache, lastSet) \union {q} \subseteq Kept(cache', lastSet')
  BY <1>5, <1>6, <1>8, HoldsFacts
<1>12. \A j \in 1 .. Len(touched') : lastSet'[touched'[j]] # << >>
  BY <1>1, <1>5, <1>7, <1>10
<1> QED
  BY <1>1, <1>5, <1>6, <1>7, <1>9, <1>11, <1>12, CacheInvOf

LEMMA GetExpiredKeepsCache == \A q \in Queries : CacheInv /\ GetExpired(q) => CacheInv'
<1> SUFFICES ASSUME NEW q \in Queries, CacheInv, GetExpired(q) PROVE CacheInv'
  OBVIOUS
<1>1. /\ cache \in Seq(Entries) /\ Len(cache) \in Nat /\ Len(cache) <= MaxSize
      /\ lastSet \in [Queries -> Seq(Entries)] /\ touched \in Seq(Queries) /\ MaxSize \in Nat
      /\ HoldsLast /\ Distinct(touched) /\ Recent(touched, Kept(cache, lastSet))
      /\ \A i \in 1 .. Len(touched) : lastSet[touched[i]] # << >>
  BY CacheLengths DEF CacheInv, CacheTypes
<1>2. PICK i \in Place(q) :
        /\ Expired(cache[i]) /\ cache' = RemoveAt(cache, i) /\ lastSet' = lastSet /\ touched' = touched
  BY DEF GetExpired
<1>3. i \in 1 .. Len(cache) /\ cache[i].query = q
  <2>1. DOMAIN cache = 1 .. Len(cache)
    BY <1>1
  <2> QED
    BY <2>1 DEF Place
<1>4. /\ cache' \in Seq(Entries) /\ Len(cache') \in Nat /\ Len(cache') + 1 <= MaxSize /\ Follows(cache', touched)
      /\ \A x : Holds(cache, x) <=> Holds(cache', x) \/ x = cache[i]
  BY <1>2, <1>3, TakeOutFacts
<1>5. Len(cache') <= MaxSize
  BY <1>1, <1>4
<1>6. HoldsLast'
  BY <1>1, <1>2, <1>4, HoldsFacts
<1>7. Expired(lastSet[q][1])
  <2>1. <<cache[i]>> = lastSet[q]
    BY <1>1, <1>3 DEF HoldsLast
  <2>2. <<cache[i]>>[1] = cache[i]
    OBVIOUS
  <2> QED
    BY <1>2, <2>1, <2>2
<1>8. Kept(cache, lastSet) \subseteq Kept(cache', lastSet')
  BY <1>2, <1>3, <1>4, <1>7, HoldsFacts
<1> QED
  BY <1>1, <1>2, <1>4, <1>5, <1>6, <1>8, CacheInvOf

LEMMA ClearKeepsCache == CacheInv /\ Clear => CacheInv'
<1> SUFFICES ASSUME CacheInv, Clear PROVE CacheInv'
  OBVIOUS
<1>1. cache' = << >> /\ touched' = << >> /\ lastSet' = lastSet
  BY DEF Clear
<1>2. Len(cache') = 0 /\ Len(touched') = 0 /\ \A i \in 1 .. 0 : FALSE
  BY <1>1
<1>3. CacheTypes'
  BY <1>1, <1>2, CacheAssumption DEF CacheInv, CacheTypes
<1> QED
  BY <1>2, <1>3 DEF CacheInv, HoldsLast, Distinct, Follows, Recent

\* Setting the entry of a query makes room first, whether the query is cached or not.
LEMMA SetKeepsCache ==
  \A q \in Queries, r \in Results, ttl \in Lifetimes : CacheInv /\ Set(q, r, ttl) => CacheInv'
<1> SUFFICES ASSUME NEW q \in Queries, NEW r \in Results, NEW ttl \in Lifetimes, CacheInv, Set(q, r, ttl)
             PROVE  CacheInv'
  OBVIOUS
<1> DEFINE kept == Evict(cache)
           entry == [query |-> q, result |-> r, left |-> ttl]
           places == {i \in DOMAIN kept : kept[i].query = q}
<1>1. /\ cache \in Seq(Entries) /\ lastSet \in [Queries -> Seq(Entries)] /\ touched \in Seq(Queries)
      /\ MaxSize \in Nat /\ HoldsLast /\ Distinct(touched)
      /\ \A i \in 1 .. Len(touched) : lastSet[touched[i]] # << >>
  BY CacheLengths DEF CacheInv, CacheTypes
<1>2. /\ kept \in Seq(Entries) /\ Len(kept) \in Nat /\ Len(kept) < MaxSize
      /\ Follows(kept, touched) /\ Recent(touched, Kept(kept, lastSet))
      /\ \A k \in 1 .. Len(kept) : \E l \in 1 .. Len(cache) : kept[k] = cache[l]
  BY EvictFacts
<1>3. entry \in Entries /\ entry.query = q
  BY CacheAssumption DEF Entries
<1>4. DOMAIN kept = 1 .. Len(kept)
  BY <1>2
<1>5. /\ lastSet' = [lastSet EXCEPT ![q] = <<entry>>]
      /\ \/ places = {} /\ cache' = Append(kept, entry) /\ touched' = Touch(touched, q)
         \/ /\ places # {} /\ touched' = touched
            /\ cache' = [i \in 1 .. Len(kept) |-> IF i \in places THEN entry ELSE kept[i]]
  BY <1>4 DEF Set, Touch
<1>6. \A i : i \in places <=> i \in 1 .. Len(kept) /\ kept[i].query = q
  BY <1>4
<1> HIDE DEF kept, entry, places
<1>7. /\ lastSet' \in [Queries -> Seq(Entries)] /\ lastSet'[q] = <<entry>> /\ <<entry>> # << >>
      /\ \A x \in Queries : x # q => lastSet'[x] = lastSet[x]
  BY <1>1, <1>3, <1>5
<1>8. \A x : Holds(kept, x) => <<x>> = lastSet[x.query] /\ x \in Entries /\ x.query \in Queries
  <2>1. \A k \in 1 .. Len(kept) : kept[k] \in Entries /\ kept[k].query \in Queries
    <3>1. \A k \in 1 .. Len(kept) : kept[k] \in Entries
      BY <1>2
    <3>2. \A e \in Entries : e.query \in Queries
      BY DEF Entries
    <3> QED
      BY <3>1, <3>2
  <2>2. \A k \in 1 .. Len(kept) : <<kept[k]>> = lastSet[kept[k].query]
    BY <1>1, <1>2, ZenonT(60) DEF HoldsLast
  <2> QED
    BY <2>1, <2>2 DEF Holds
<1>9. ASSUME NEW c, Holds(c, entry), \A x : Holds(c, x) => x = entry \/ (Holds(kept, x) /\ x.query # q),
             \A x : Holds(kept, x) => Holds(c, x) \/ x.query = q
      PROVE  /\ \A x : Holds(c, x) => <<x>> = lastSet'[x.query]
             /\ Kept(kept, lastSet) \union {q} \subseteq Kept(c, lastSet')
  <2>1. \A x : Holds(c, x) => <<x>> = lastSet'[x.query]
    BY <1>3, <1>7, <1>8, <1>9
  <2>2. q \in Kept(c, lastSet')
    BY <1>3, <1>9, HoldsFacts
  <2>3. ASSUME NEW y \in Kept(kept, lastSet), y # q PROVE y \in Kept(c, lastSet')
    <3>1. y \in Queries /\ ((\E e : Holds(kept, e) /\ e.query = y) \/ Expired(lastSet[y][1]))
      BY HoldsFacts
    <3>2. (\E e : Holds(c, e) /\ e.query = y) \/ Expired(lastSet'[y][1])
      BY <1>7, <1>9, <2>3, <3>1
    <3> QED
      BY <3>1, <3>2, HoldsFacts
  <2> QED
    BY <2>1, <2>2, <2>3
<1>10. CASE places = {} /\ cache' = Append(kept, entry) /\ touched' = Touch(touched, q)
  <2>1. /\ cache' \in Seq(Entries) /\ Len(cache') <= MaxSize
        /\ \A x : Holds(cache', x) <=> Holds(kept, x) \/ x = entry
    BY <1>1, <1>2, <1>3, <1>10, AppendHolds
  <2>2. \A k \in 1 .. Len(kept) : kept[k].query # q
    BY <1>6, <1>10
  <2>3. \A x : Holds(kept, x) => x.query # q
    BY <2>2 DEF Holds
  <2>4. /\ touched' \in Seq(Queries) /\ Distinct(touched') /\ Follows(cache', touched')
        /\ \A j \in 1 .. Len(touched') : touched'[j] = q \/ \E m \in 1 .. Len(touched) : touched'[j] = touched[m]
        /\ Recent(touched', Kept(kept, lastSet) \union {q})
    BY <1>1, <1>2, <1>3, <1>10, <2>2, TouchKeeps
  <2>5. /\ \A x : Holds(cache', x) => <<x>> = lastSet'[x.query]
        /\ Kept(kept, lastSet) \union {q} \subseteq Kept(cache', lastSet')
    BY <1>9, <2>1, <2>3
  <2>6. HoldsLast'
    BY <2>5, HoldsFacts
  <2>7. \A j \in 1 .. Len(touched') : lastSet'[touched'[j]] # << >>
    <3>1. \A m \in 1 .. Len(touched) : touched[m] \in Queries
      BY <1>1
    <3> QED
      BY <1>1, <1>7, <2>4, <3>1
  <2> QED
    BY <1>7, <2>1, <2>4, <2>5, <2>6, <2>7, CacheInvOf
<1>11. CASE /\ places # {} /\ touched' = touched
            /\ cache' = [i \in 1 .. Len(kept) |-> IF i \in places THEN entry ELSE kept[i]]
  <2>1. /\ cache' \in Seq(Entries) /\ Len(cache') = Len(kept)
        /\ \A i \in 1 .. Len(kept) : cache'[i] = IF i \in places THEN entry ELSE kept[i]
    BY <1>2, <1>3, <1>11
  <2>2. \A i \in 1 .. Len(kept) : cache'[i].query = kept[i].query
    BY <1>3, <1>6, <2>1
  <2>3. Follows(cache', touched')
    BY <1>2, <1>11, <2>1, <2>2, FollowsFacts
  <2>4. Holds(cache', entry)
    BY <1>6, <1>11, <2>1 DEF Holds
  <2>5. \A x : Holds(cache', x) => x = entry \/ (Holds(kept, x) /\ x.query # q)
    BY <1>6, <2>1 DEF Holds
  <2>6. \A x : Holds(kept, x) => Holds(cache', x) \/ x.query = q
    BY <1>6, <2>1 DEF Holds
  <2>7. /\ \A x : Holds(cache', x) => <<x>> = lastSet'[x.query]
        /\ Kept(kept, lastSet) \union {q} \subseteq Kept(cache', lastSet')
    BY <1>9, <2>4, <2>5, <2>6
  <2>8. HoldsLast'
    BY <2>7, HoldsFacts
  <2>9. \A j \in 1 .. Len(touched) : lastSet'[touched[j]] # << >>
    <3>1. \A m \in 1 .. Len(touched) : touched[m] \in Queries
      BY <1>1
    <3> QED
      BY <1>1, <1>7, <3>1
  <2>10. Len(cache') <= MaxSize
    BY <1>1, <1>2, <2>1
  <2> QED
    BY <1>1, <1>2, <1>7, <1>11, <2>1, <2>3, <2>7, <2>8, <2>9, <2>10, CacheInvOf
<1> QED
  BY <1>5, <1>10, <1>11

LEMMA OlderFacts ==
  ASSUME NEW e \in Entries
  PROVE  Older(e) \in Entries /\ Older(e).query = e.query /\ (Expired(e) => Expired(Older(e)))
BY DEF Entries, Older, Expired

LEMMA TickKeepsCache == CacheInv /\ CacheTick => CacheInv'
<1> SUFFICES ASSUME CacheInv, CacheTick PROVE CacheInv'
  OBVIOUS
<1>1. /\ cache \in Seq(Entries) /\ Len(cache) \in Nat /\ Len(cache) <= MaxSize
      /\ lastSet \in [Queries -> Seq(Entries)] /\ touched \in Seq(Queries) /\ MaxSize \in Nat
      /\ HoldsLast /\ Distinct(touched) /\ Follows(cache, touched) /\ Recent(touched, Kept(cache, lastSet))
      /\ \A i \in 1 .. Len(touched) : lastSet[touched[i]] # << >>
  BY CacheLengths DEF CacheInv, CacheTypes
<1>2. DOMAIN cache = 1 .. Len(cache)
  BY <1>1
<1>3. /\ cache' = [i \in 1 .. Len(cache) |-> Older(cache[i])] /\ touched' = touched
      /\ lastSet' = [q \in Queries |-> IF lastSet[q] = << >> THEN << >> ELSE <<Older(lastSet[q][1])>>]
  BY <1>2 DEF CacheTick
<1>4. \A i \in 1 .. Len(cache) :
        /\ cache[i] \in Entries /\ Older(cache[i]) \in Entries
        /\ Older(cache[i]).query = cache[i].query /\ cache[i].query \in Queries
  <2>1. \A i \in 1 .. Len(cache) : cache[i] \in Entries
    BY <1>1
  <2>2. \A e \in Entries : e.query \in Queries
    BY DEF Entries
  <2> QED
    BY <2>1, <2>2, OlderFacts
<1>5. /\ cache' \in Seq(Entries) /\ Len(cache') = Len(cache)
      /\ \A i \in 1 .. Len(cache) : cache'[i] = Older(cache[i])
  BY <1>1, <1>3, <1>4
<1>6. Follows(cache', touched')
  <2>1. \A k \in 1 .. Len(cache) : cache'[k].query = cache[k].query
    BY <1>4, <1>5
  <2> QED
    BY <1>1, <1>3, <1>5, <2>1, FollowsFacts
<1>7. ASSUME NEW q \in Queries
      PROVE  /\ lastSet'[q] \in Seq(Entries)
             /\ lastSet[q] # << >> =>
                  /\ lastSet'[q] = <<Older(lastSet[q][1])>>
                  /\ lastSet'[q][1] = Older(lastSet[q][1])
                  /\ lastSet[q][1] \in Entries
             /\ lastSet[q] = << >> => lastSet'[q] = << >>
  <2>1. lastSet[q] \in Seq(Entries) /\ (lastSet[q] # << >> => lastSet[q][1] \in Entries)
    BY <1>1
  <2>2. lastSet'[q] = IF lastSet[q] = << >> THEN << >> ELSE <<Older(lastSet[q][1])>>
    BY <1>3
  <2>3. lastSet[q] # << >> => Older(lastSet[q][1]) \in Entries
    BY <2>1, OlderFacts
  <2> QED
    BY <2>1, <2>2, <2>3
<1>8. lastSet' \in [Queries -> Seq(Entries)]
  <2>1. lastSet' = [q \in Queries |-> lastSet'[q]]
    BY <1>3
  <2> QED
    BY <1>7, <2>1
<1>9. HoldsLast'
  <2>1. ASSUME NEW i \in 1 .. Len(cache) PROVE <<cache'[i]>> = lastSet'[cache'[i].query]
    <3>1. <<cache[i]>> = lastSet[cache[i].query] /\ <<cache[i]>> # << >> /\ <<cache[i]>>[1] = cache[i]
      BY <1>1 DEF HoldsLast
    <3>2. lastSet'[cache[i].query] = <<Older(cache[i])>>
      BY <1>4, <1>7, <3>1
    <3> QED
      BY <1>4, <1>5, <3>2
  <2> QED
    BY <1>5, <2>1 DEF HoldsLast
<1>10. ASSUME NEW x \in Kept(cache, lastSet) PROVE x \in Kept(cache', lastSet')
  <2>1. x \in Queries
    BY DEF Kept
  <2>2. CASE Expired(lastSet[x][1])
    <3>1. Expired(lastSet'[x][1])
      <4>1. CASE lastSet[x] = << >>
        BY <1>7, <2>1, <2>2, <4>1
      <4>2. CASE lastSet[x] # << >>
        BY <1>7, <2>1, <2>2, <4>2, OlderFacts
      <4> QED
        BY <4>1, <4>2
    <3> QED
      BY <2>1, <3>1 DEF Kept
  <2>3. CASE \E k \in 1 .. Len(cache) : cache[k].query = x
    BY <1>4, <1>5, <2>1, <2>3 DEF Kept
  <2> QED
    BY <2>2, <2>3 DEF Kept
<1>11. \A j \in 1 .. Len(touched) : lastSet'[touched[j]] # << >>
  <2>1. \A j \in 1 .. Len(touched) : touched[j] \in Queries
    BY <1>1
  <2>2. \A e : <<e>> # << >>
    OBVIOUS
  <2> QED
    BY <1>1, <1>7, <2>1, <2>2
<1> QED
  BY <1>1, <1>3, <1>5, <1>6, <1>8, <1>9, <1>10, <1>11, CacheInvOf

LEMMA CacheInvStep == CacheInv /\ [CacheNext]_cacheVars => CacheInv'
<1> SUFFICES ASSUME CacheInv, [CacheNext]_cacheVars PROVE CacheInv'
  OBVIOUS
<1>1. CASE \E q \in Queries : Get(q) \/ GetExpired(q)
  BY <1>1, GetKeepsCache, GetExpiredKeepsCache
<1>2. CASE \E q \in Queries, r \in Results, ttl \in Lifetimes : Set(q, r, ttl)
  BY <1>2, SetKeepsCache
<1>3. CASE Clear
  BY <1>3, ClearKeepsCache
<1>4. CASE CacheTick
  BY <1>4, TickKeepsCache
<1>5. CASE UNCHANGED cacheVars
  <2>1. cache' = cache /\ lastSet' = lastSet /\ touched' = touched
    BY <1>5 DEF cacheVars
  <2> QED
    BY <2>1 DEF CacheInv, CacheTypes, HoldsLast
<1> QED
  BY <1>1, <1>2, <1>3, <1>4, <1>5 DEF CacheNext

\* The invariant says what the property does: a query that was touched has an entry set last.
LEMMA CacheInvShows == CacheInv => RecentAreCached
<1> SUFFICES ASSUME CacheInv PROVE RecentAreCached
  OBVIOUS
<1>1. cache \in Seq(Entries) /\ touched \in Seq(Queries) /\ HoldsLast /\ Recent(touched, Kept(cache, lastSet))
  BY DEF CacheInv, CacheTypes
<1>2. DOMAIN cache = 1 .. Len(cache) /\ DOMAIN touched = 1 .. Len(touched)
  BY <1>1
<1>3. \A i \in 1 .. Len(cache) : <<cache[i]>> = lastSet[cache[i].query]
  BY <1>1 DEF HoldsLast
<1>4. ASSUME NEW i \in 1 .. Len(touched), i > Len(touched) - (MaxSize - 1)
      PROVE  Place(touched[i]) # {} \/ Expired(lastSet[touched[i]][1])
  <2>1. touched[i] \in Kept(cache, lastSet)
    BY <1>1, <1>4 DEF Recent
  <2>2. (\E k \in 1 .. Len(cache) : cache[k].query = touched[i]) \/ Expired(lastSet[touched[i]][1])
    BY <2>1 DEF Kept
  <2> QED
    BY <1>2, <2>2 DEF Place
<1> QED
  BY <1>2, <1>3, <1>4 DEF RecentAreCached

\* RecentAreCached: the cache holds what was set last, and before they expire it loses
\* none of the MaxSize - 1 queries inserted or hit last, whatever its size, the queries,
\* the results and the lifetimes, and however gets, sets, clears and time follow each
\* other.
THEOREM RecentStayCached == CacheSpec => []RecentAreCached
<1>1. CacheInit => CacheInv
  BY CacheInvInit
<1>2. CacheInv /\ [CacheNext]_cacheVars => CacheInv'
  BY CacheInvStep
<1>3. CacheInv => RecentAreCached
  BY CacheInvShows
<1> QED
  BY <1>1, <1>2, <1>3, PTL DEF CacheSpec

--------------------------------------------------------------------------------
(* The durable substrate.                                                        *)

StoreSpec == StoreInit /\ [][StoreNext]_storeVars

LogEntries == [operation : {"write", "delete"}, key : StoreKeys, value : StoreValues]
Stores == [StoreKeys -> Seq(StoreValues)]

Writes(i, key) == log[i].operation = "write" /\ log[i].key = key

\* The function that replay computes.
IsReplay(r, store, from, m) ==
  r = [n \in 0 .. m |-> IF n <= from THEN store ELSE ReplayEntry(r[n - 1], log[n])]

LEMMA ReplayExists ==
  ASSUME NEW store, NEW from \in Nat, NEW m \in Nat
  PROVE  \E r : IsReplay(r, store, from, m)
<1> DEFINE T == {n \in Nat : \E r : IsReplay(r, store, from, n)}
<1>1. 0 \in T
  <2>1. IsReplay([n \in 0 .. 0 |-> store], store, from, 0)
    BY DEF IsReplay
  <2> QED
    BY <2>1
<1>2. ASSUME NEW n \in T PROVE n + 1 \in T
  <2>1. PICK r : IsReplay(r, store, from, n)
    OBVIOUS
  <2> DEFINE next == IF n + 1 <= from THEN store ELSE ReplayEntry(r[n], log[n + 1])
             u == [k \in 0 .. n + 1 |-> IF k = n + 1 THEN next ELSE r[k]]
  <2>2. ASSUME NEW k \in 0 .. n + 1
        PROVE  u[k] = IF k <= from THEN store ELSE ReplayEntry(u[k - 1], log[k])
    <3>0. n \in Nat
      OBVIOUS
    <3>1. CASE k = n + 1
      <4>1. u[k] = next /\ k - 1 = n /\ n \in 0 .. n + 1 /\ n # n + 1
        BY <3>0, <3>1
      <4>2. u[n] = r[n]
        BY <4>1
      <4> QED
        BY <3>1, <4>1, <4>2
    <3>2. CASE k # n + 1
      <4>1. k \in 0 .. n /\ k \in 0 .. n + 1
        BY <3>0, <3>2
      <4>2. u[k] = r[k] /\ r[k] = IF k <= from THEN store ELSE ReplayEntry(r[k - 1], log[k])
        BY <2>1, <3>2, <4>1 DEF IsReplay
      <4>3. CASE k <= from
        BY <4>2, <4>3
      <4>4. CASE ~(k <= from)
        <5>1. k - 1 \in 0 .. n + 1 /\ k - 1 # n + 1
          BY <3>0, <4>1, <4>4
        <5>2. u[k - 1] = r[k - 1]
          BY <5>1
        <5> QED
          BY <4>2, <4>4, <5>2
      <4> QED
        BY <4>3, <4>4
    <3> QED
      BY <3>1, <3>2
  <2>3. u = [k \in 0 .. n + 1 |-> u[k]]
    OBVIOUS
  <2> HIDE DEF u
  <2>4. IsReplay(u, store, from, n + 1)
    BY <2>2, <2>3 DEF IsReplay
  <2> QED
    BY <2>4
<1>3. T \in SUBSET Nat
  OBVIOUS
<1> HIDE DEF T
<1>4. m \in T
  BY <1>1, <1>2, <1>3, SetInduction
<1> QED
  BY <1>4 DEF T

LEMMA ReplayIs ==
  ASSUME NEW store, NEW from \in Nat, Len(log) \in Nat
  PROVE  \E r : IsReplay(r, store, from, Len(log)) /\ Replay(store, from) = r[Len(log)]
<1> DEFINE chosen == CHOOSE r : IsReplay(r, store, from, Len(log))
<1>1. IsReplay(chosen, store, from, Len(log))
  BY ReplayExists
<1>2. Replay(store, from) = chosen[Len(log)]
  BY DEF Replay, IsReplay
<1> QED
  BY <1>1, <1>2

\* The latest write of a key among the entries up to m, since from.
LastWrite(i, key, from, m) ==
  /\ i \in 1 .. m /\ i > from /\ Writes(i, key)
  /\ \A j \in 1 .. m : j > from /\ Writes(j, key) => j <= i

\* Replaying one more entry of the log.
LEMMA EntryFacts ==
  ASSUME NEW store \in Stores, NEW entry \in LogEntries
  PROVE  /\ ReplayEntry(store, entry) \in Stores
         /\ \A key \in StoreKeys :
              ReplayEntry(store, entry)[key] =
                IF entry.operation = "write" /\ entry.key = key THEN <<entry.value>> ELSE store[key]
<1>1. entry.key \in StoreKeys /\ <<entry.value>> \in Seq(StoreValues)
  BY DEF LogEntries
<1>2. /\ Put(store, entry.key, entry.value) \in Stores
      /\ \A key \in StoreKeys :
           Put(store, entry.key, entry.value)[key] = IF entry.key = key THEN <<entry.value>> ELSE store[key]
  BY <1>1 DEF Put, Stores
<1> QED
  BY <1>2 DEF ReplayEntry

\* After a replay a store holds, for each key, its latest write since the start.
LEMMA ReplayFacts ==
  ASSUME log \in Seq(LogEntries), NEW store \in Stores, NEW from \in Nat
  PROVE  /\ Replay(store, from) \in Stores
         /\ \A key \in StoreKeys, i \in 1 .. Len(log) :
              LastWrite(i, key, from, Len(log)) => Replay(store, from)[key] = <<log[i].value>>
<1> DEFINE l == Len(log)
<1>1. l \in Nat /\ \A n \in 1 .. l : log[n] \in LogEntries
  OBVIOUS
<1>2. PICK r : IsReplay(r, store, from, l) /\ Replay(store, from) = r[l]
  BY <1>1, ReplayIs
<1> HIDE DEF l
<1>3. \A n \in 0 .. l : r[n] = IF n <= from THEN store ELSE ReplayEntry(r[n - 1], log[n])
  BY <1>2 DEF IsReplay
<1> DEFINE Good(n) == /\ r[n] \in Stores
                      /\ \A key \in StoreKeys, i \in 1 .. n :
                           LastWrite(i, key, from, n) => r[n][key] = <<log[i].value>>
           T == {n \in Nat : n <= l => Good(n)}
<1>4. 0 \in T
  <2>1. r[0] = store /\ \A i \in 1 .. 0 : FALSE
    BY <1>1, <1>3
  <2> QED
    BY <2>1
<1>5. ASSUME NEW n \in Nat, n + 1 <= l, Good(n) PROVE Good(n + 1)
  <2>1. n + 1 \in 0 .. l /\ n + 1 \in 1 .. l /\ (n + 1) - 1 = n
    BY <1>1, <1>5
  <2>2. r[n + 1] = IF n + 1 <= from THEN store ELSE ReplayEntry(r[n], log[n + 1])
    BY <1>3, <2>1
  <2>3. CASE n + 1 <= from
    <3>1. \A i \in 1 .. n + 1 : ~(i > from)
      BY <1>5, <2>3
    <3> QED
      BY <2>2, <2>3, <3>1 DEF LastWrite
  <2>4. CASE ~(n + 1 <= from)
    <3>1. r[n + 1] = ReplayEntry(r[n], log[n + 1]) /\ log[n + 1] \in LogEntries /\ r[n] \in Stores
      BY <1>1, <1>5, <2>1, <2>2, <2>4
    <3>2. /\ r[n + 1] \in Stores
          /\ \A key \in StoreKeys :
               r[n + 1][key] = IF Writes(n + 1, key) THEN <<log[n + 1].value>> ELSE r[n][key]
      BY <3>1, EntryFacts DEF Writes
    <3>3. ASSUME NEW key \in StoreKeys, NEW i \in 1 .. n + 1, LastWrite(i, key, from, n + 1)
          PROVE  r[n + 1][key] = <<log[i].value>>
      <4>1. CASE Writes(n + 1, key)
        <5>1. n + 1 \in 1 .. n + 1 /\ n + 1 > from
          BY <1>5, <2>4
        <5>2. n + 1 <= i
          BY <3>3, <4>1, <5>1 DEF LastWrite
        <5>3. i = n + 1
          BY <1>5, <5>2
        <5> QED
          BY <3>2, <4>1, <5>3
      <4>2. CASE ~Writes(n + 1, key)
        <5>1. i # n + 1
          BY <3>3, <4>2 DEF LastWrite
        <5>2. i \in 1 .. n /\ \A j \in 1 .. n : j \in 1 .. n + 1
          BY <1>5, <5>1
        <5>3. LastWrite(i, key, from, n)
          BY <3>3, <5>2 DEF LastWrite
        <5> QED
          BY <1>5, <3>2, <4>2, <5>2, <5>3
      <4> QED
        BY <4>1, <4>2
    <3> QED
      BY <3>2, <3>3
  <2> QED
    BY <2>3, <2>4
<1>6. ASSUME NEW n \in T PROVE n + 1 \in T
  <2> HIDE DEF Good
  <2>1. n \in Nat /\ n + 1 \in Nat /\ (n + 1 <= l => n <= l)
    BY <1>1
  <2> QED
    BY <1>5, <2>1
<1>7. T \in SUBSET Nat
  OBVIOUS
<1> HIDE DEF T
<1>8. l \in T
  BY <1>1, <1>4, <1>6, <1>7, SetInduction
<1>9. Good(l)
  BY <1>1, <1>8 DEF T
<1> QED
  BY <1>2, <1>9 DEF l

Floor == IF point = None THEN 0 ELSE point[1]

StoreTypes ==
  /\ log \in Seq(LogEntries) /\ kv_store \in Stores
  /\ point = None \/ \E n \in Nat : point = <<n>>
  /\ writing = None \/ \E w \in [key : StoreKeys, value : StoreValues] : writing = <<w>>

\* Whatever is about to be put was the last to be logged.
WritingLogged ==
  writing # None =>
    \E i \in 1 .. Len(log) :
      /\ Writes(i, writing[1].key) /\ log[i].value = writing[1].value
      /\ \A j \in 1 .. Len(log) : log[j].operation = "write" => j <= i

FollowsLog ==
  ~crashed =>
    \A key \in StoreKeys, i \in 1 .. Len(log) :
      LastWrite(i, key, Floor, Len(log)) /\ (writing = None \/ writing[1].key # key)
        => kv_store[key] = <<log[i].value>>

StoreInv == StoreTypes /\ WritingLogged /\ FollowsLog

LEMMA StoreInvInit == StoreInit => StoreInv
<1> SUFFICES ASSUME StoreInit PROVE StoreInv
  OBVIOUS
<1>1. log = << >> /\ kv_store = Empty /\ point = None /\ writing = None
  BY DEF StoreInit
<1>2. Len(log) = 0 /\ log \in Seq(LogEntries) /\ \A i \in 1 .. 0 : FALSE
  BY <1>1
<1>3. kv_store \in Stores
  BY <1>1 DEF Empty, None, Stores
<1> QED
  BY <1>1, <1>2, <1>3 DEF StoreInv, StoreTypes, WritingLogged, FollowsLog

LEMMA FloorIsNat == StoreTypes => Floor \in Nat
  BY DEF StoreTypes, Floor, None

\* Logging an entry: a write is about to be put, a delete is not.
LEMMA LogKeepsStore ==
  ASSUME StoreInv, NEW entry \in LogEntries,
         log' = Append(log, entry), UNCHANGED <<kv_store, point, crashed>>,
         \/ entry.operation = "write" /\ writing = None
            /\ writing' = <<[key |-> entry.key, value |-> entry.value]>>
         \/ entry.operation = "delete" /\ UNCHANGED writing
  PROVE  StoreInv'
<1> DEFINE l == Len(log)
<1>1. StoreTypes /\ log \in Seq(LogEntries) /\ l \in Nat /\ Floor \in Nat
  BY FloorIsNat DEF StoreInv, StoreTypes
<1>2. /\ log' \in Seq(LogEntries) /\ Len(log') = l + 1 /\ log'[l + 1] = entry
      /\ \A i \in 1 .. l : log'[i] = log[i]
  BY <1>1, AppendProperties
<1>a. l = Len(log)
  OBVIOUS
<1> HIDE DEF l
<1>3. /\ \A i \in 1 .. l + 1 : i = l + 1 \/ i \in 1 .. l
      /\ \A i \in 1 .. l : i \in 1 .. l + 1 /\ i <= l + 1
      /\ l + 1 \in 1 .. l + 1 /\ l + 1 <= l + 1
  BY <1>1
<1>4. StoreTypes'
  <2>1. [key |-> entry.key, value |-> entry.value] \in [key : StoreKeys, value : StoreValues]
    BY DEF LogEntries
  <2> QED
    BY <1>1, <1>2, <2>1 DEF StoreTypes
<1>5. Floor' = Floor /\ "write" # "delete"
  BY DEF Floor
<1>6. WritingLogged'
  <2>1. CASE entry.operation = "write" /\ writing' = <<[key |-> entry.key, value |-> entry.value]>>
    <3>1. writing'[1].key = entry.key /\ writing'[1].value = entry.value
      BY <2>1
    <3> QED
      BY <1>2, <1>3, <2>1, <3>1 DEF WritingLogged, Writes
  <2>2. CASE entry.operation = "delete" /\ UNCHANGED writing
    BY <1>2, <1>3, <1>5, <1>a, <2>2 DEF StoreInv, WritingLogged, Writes
  <2> QED
    BY <2>1, <2>2
<1>7. ASSUME ~crashed, NEW key \in StoreKeys, NEW i \in 1 .. l + 1, i > Floor,
             log'[i].operation = "write" /\ log'[i].key = key,
             \A j \in 1 .. l + 1 : j > Floor /\ log'[j].operation = "write" /\ log'[j].key = key => j <= i,
             writing' = None \/ writing'[1].key # key
      PROVE  kv_store'[key] = <<log'[i].value>>
  <2>1. ~(entry.operation = "write" /\ entry.key = key)
    <3>1. CASE writing' = <<[key |-> entry.key, value |-> entry.value]>>
      <4>1. writing' # None /\ writing'[1].key = entry.key
        BY <3>1 DEF None
      <4> QED
        BY <1>7, <4>1
    <3>2. CASE entry.operation = "delete"
      BY <1>5, <3>2
    <3> QED
      BY <3>1, <3>2
  <2>2. i \in 1 .. l
    BY <1>2, <1>3, <1>7, <2>1
  <2>3. LastWrite(i, key, Floor, l)
    BY <1>2, <1>3, <1>7, <2>2 DEF LastWrite, Writes
  <2>4. writing = None \/ writing[1].key # key
    BY <1>7
  <2> QED
    BY <1>2, <1>7, <1>a, <2>2, <2>3, <2>4 DEF StoreInv, FollowsLog
<1>8. FollowsLog'
  BY <1>2, <1>5, <1>7 DEF FollowsLog, LastWrite, Writes
<1> QED
  BY <1>4, <1>6, <1>8 DEF StoreInv

LEMMA ReplicateKeepsStore == StoreInv /\ WriteReplicated => StoreInv'
<1> SUFFICES ASSUME StoreInv, WriteReplicated PROVE StoreInv'
  OBVIOUS
<1>1. StoreTypes /\ Floor \in Nat /\ Len(log) \in Nat
  BY FloorIsNat DEF StoreInv, StoreTypes
<1>2. PICK w \in [key : StoreKeys, value : StoreValues] : writing = <<w>>
  BY <1>1 DEF WriteReplicated, StoreTypes
<1>3. /\ writing # None /\ writing[1] = w /\ writing' = None
      /\ kv_store' = Put(kv_store, w.key, w.value)
      /\ UNCHANGED <<log, point, crashed>>
  BY <1>2 DEF WriteReplicated
<1>4. /\ kv_store' \in Stores
      /\ \A key \in StoreKeys : kv_store'[key] = IF key = w.key THEN <<w.value>> ELSE kv_store[key]
  <2>1. w.key \in StoreKeys /\ <<w.value>> \in Seq(StoreValues) /\ kv_store \in Stores
    BY <1>1 DEF StoreTypes
  <2> QED
    BY <1>3, <2>1 DEF Put, Stores
<1>5. StoreTypes' /\ WritingLogged' /\ Floor' = Floor
  BY <1>1, <1>3, <1>4 DEF StoreTypes, WritingLogged, Floor
<1>6. PICK last \in 1 .. Len(log) :
        /\ Writes(last, w.key) /\ log[last].value = w.value
        /\ \A j \in 1 .. Len(log) : log[j].operation = "write" => j <= last
  BY <1>3 DEF StoreInv, WritingLogged
<1>7. ASSUME ~crashed, NEW key \in StoreKeys, NEW i \in 1 .. Len(log), LastWrite(i, key, Floor, Len(log))
      PROVE  kv_store'[key] = <<log[i].value>>
  <2>1. CASE key = w.key
    <3>1. i <= last /\ i > Floor
      BY <1>6, <1>7 DEF LastWrite, Writes
    <3>2. last > Floor
      BY <1>1, <3>1
    <3>3. last <= i
      BY <1>6, <1>7, <2>1, <3>2 DEF LastWrite
    <3>4. i = last
      BY <1>1, <3>1, <3>3
    <3> QED
      BY <1>4, <1>6, <2>1, <3>4
  <2>2. CASE key # w.key
    <3>1. kv_store[key] = <<log[i].value>>
      BY <1>3, <1>7, <2>2 DEF StoreInv, FollowsLog
    <3> QED
      BY <1>4, <2>2, <3>1
  <2> QED
    BY <2>1, <2>2
<1>8. FollowsLog'
  BY <1>3, <1>5, <1>7 DEF FollowsLog, LastWrite, Writes
<1> QED
  BY <1>5, <1>8 DEF StoreInv

LEMMA PointKeepsStore == StoreInv /\ CreateRecoveryPoint => StoreInv'
<1> SUFFICES ASSUME StoreInv, CreateRecoveryPoint PROVE StoreInv'
  OBVIOUS
<1>1. point' = <<Len(log)>> /\ UNCHANGED <<kv_store, log, writing, crashed>>
  BY DEF CreateRecoveryPoint
<1>2. StoreTypes' /\ Len(log) \in Nat
  BY <1>1 DEF StoreInv, StoreTypes
<1>3. WritingLogged'
  BY <1>1 DEF StoreInv, WritingLogged, Writes
<1>4. Floor' = Len(log)
  BY <1>1 DEF Floor, None
<1>5. \A i \in 1 .. Len(log) : ~(i > Len(log))
  BY <1>2
<1>6. FollowsLog'
  BY <1>1, <1>4, <1>5 DEF FollowsLog, LastWrite
<1> QED
  BY <1>2, <1>3, <1>6 DEF StoreInv

LEMMA CrashKeepsStore == StoreInv /\ Crash => StoreInv'
<1> SUFFICES ASSUME StoreInv, Crash PROVE StoreInv'
  OBVIOUS
<1>1. kv_store' = Empty /\ writing' = None /\ crashed' /\ UNCHANGED <<log, point>>
  BY DEF Crash
<1>2. kv_store' \in Stores
  BY <1>1 DEF Empty, None, Stores
<1> QED
  BY <1>1, <1>2 DEF StoreInv, StoreTypes, WritingLogged, FollowsLog

LEMMA RecoverKeepsStore == StoreInv /\ RecoverFromCrash => StoreInv'
<1> SUFFICES ASSUME StoreInv, RecoverFromCrash PROVE StoreInv'
  OBVIOUS
<1>1. /\ Floor = point[1] /\ kv_store' = Replay(kv_store, Floor)
      /\ UNCHANGED <<log, point, writing>>
  BY DEF RecoverFromCrash, Floor
<1>2. StoreTypes /\ Floor \in Nat /\ log \in Seq(LogEntries) /\ kv_store \in Stores
  BY FloorIsNat DEF StoreInv, StoreTypes
<1>3. /\ kv_store' \in Stores
      /\ \A key \in StoreKeys, i \in 1 .. Len(log) :
           LastWrite(i, key, Floor, Len(log)) => kv_store'[key] = <<log[i].value>>
  <2>1. \A from \in Nat :
          /\ Replay(kv_store, from) \in Stores
          /\ \A key \in StoreKeys, i \in 1 .. Len(log) :
               LastWrite(i, key, from, Len(log)) => Replay(kv_store, from)[key] = <<log[i].value>>
    BY <1>2, ReplayFacts
  <2> QED
    BY <1>1, <1>2, <2>1
<1>4. StoreTypes' /\ WritingLogged'
  BY <1>1, <1>2, <1>3 DEF StoreInv, StoreTypes, WritingLogged, Writes
<1>5. Floor' = Floor /\ log' = log
  BY <1>1 DEF Floor
<1>6. FollowsLog'
  BY <1>3, <1>5 DEF FollowsLog, LastWrite, Writes
<1> QED
  BY <1>4, <1>6 DEF StoreInv

LEMMA StoreInvStep == StoreInv /\ [StoreNext]_storeVars => StoreInv'
<1> SUFFICES ASSUME StoreInv, [StoreNext]_storeVars PROVE StoreInv'
  OBVIOUS
<1>1. ASSUME UNCHANGED <<kv_store, log, point, writing, crashed>> PROVE StoreInv'
  BY <1>1 DEF StoreInv, StoreTypes, WritingLogged, FollowsLog, Floor, LastWrite, Writes
<1>2. ASSUME NEW key \in StoreKeys, NEW value \in StoreValues, WritePersistent(key, value) PROVE StoreInv'
  BY <1>1, <1>2 DEF WritePersistent
<1>3. ASSUME NEW key \in StoreKeys, NEW value \in StoreValues, LogWrite(key, value) PROVE StoreInv'
  <2> DEFINE entry == [operation |-> "write", key |-> key, value |-> value]
  <2>1. entry \in LogEntries /\ entry.operation = "write" /\ entry.key = key /\ entry.value = value
    BY DEF LogEntries
  <2>2. /\ log' = Append(log, entry) /\ UNCHANGED <<kv_store, point, crashed>>
        /\ writing = None /\ writing' = <<[key |-> key, value |-> value]>>
    BY <1>3 DEF LogWrite
  <2> HIDE DEF entry
  <2> QED
    BY <2>1, <2>2, LogKeepsStore
<1>4. ASSUME NEW key \in StoreKeys, NEW value \in StoreValues, LogDelete(key, value) PROVE StoreInv'
  <2> DEFINE entry == [operation |-> "delete", key |-> key, value |-> value]
  <2>1. entry \in LogEntries /\ entry.operation = "delete"
    BY DEF LogEntries
  <2>2. log' = Append(log, entry) /\ UNCHANGED <<kv_store, point, crashed>> /\ UNCHANGED writing
    BY <1>4 DEF LogDelete
  <2> HIDE DEF entry
  <2> QED
    BY <2>1, <2>2, LogKeepsStore
<1>5. ASSUME NEW key \in StoreKeys, SyncKvToDo(key) PROVE StoreInv'
  BY <1>1, <1>5 DEF SyncKvToDo
<1>6. CASE UNCHANGED storeVars
  BY <1>1, <1>6 DEF storeVars
<1> QED
  BY <1>2, <1>3, <1>4, <1>5, <1>6, ReplicateKeepsStore, PointKeepsStore, CrashKeepsStore, RecoverKeepsStore
     DEF StoreNext

\* FollowsLog says of the last write of a key what StoreFollowsLog says of it when it is
\* also the last entry of the key: as long as replay skips deletes, they matter not.
LEMMA StoreInvShows == StoreInv => StoreFollowsLog
<1> SUFFICES ASSUME StoreInv, ~crashed, NEW key \in StoreKeys, NEW i \in Logged(key),
                    \A j \in Logged(key) : j <= i,
                    log[i].operation = "write",
                    \A w \in Range(writing) : w.key # key
             PROVE  kv_store[key] = <<log[i].value>>
  BY DEF StoreFollowsLog
<1>1. StoreTypes /\ Floor \in Nat /\ log \in Seq(LogEntries)
  BY FloorIsNat DEF StoreInv, StoreTypes
<1>2. DOMAIN log = 1 .. Len(log)
  BY <1>1
<1>3. \A j : j \in Logged(key) <=> j \in 1 .. Len(log) /\ j > Floor /\ log[j].key = key
  <2>1. \A j \in 1 .. Len(log) : j > 0
    OBVIOUS
  <2> QED
    BY <1>2, <2>1 DEF Logged, Floor
<1>4. i \in 1 .. Len(log)
  BY <1>3
<1>5. LastWrite(i, key, Floor, Len(log))
  BY <1>3 DEF LastWrite, Writes
<1>6. writing = None \/ writing[1].key # key
  <2>1. ASSUME NEW w, writing = <<w>> PROVE writing[1].key # key
    <3>1. writing[1] \in Range(writing)
      BY <2>1 DEF Range
    <3> QED
      BY <3>1
  <2> QED
    BY <1>1, <2>1 DEF StoreTypes
<1> QED
  BY <1>4, <1>5, <1>6 DEF StoreInv, FollowsLog

\* StoreFollowsLog: a store that did not crash, or was recovered since, holds the value of
\* each key whose last entry since the recovery point is a write, whether the crash came
\* before or after its put and however often the log is replayed, for any keys, values
\* and length of the log.
THEOREM RecoveryHolds == StoreSpec => []StoreFollowsLog
<1>1. StoreInit => StoreInv
  BY StoreInvInit
<1>2. StoreInv /\ [StoreNext]_storeVars => StoreInv'
  BY StoreInvStep
<1>3. StoreInv => StoreFollowsLog
  BY StoreInvShows
<1> QED
  BY <1>1, <1>2, <1>3, PTL DEF StoreSpec
================================================================================
