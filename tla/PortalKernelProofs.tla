-------------------------- MODULE PortalKernelProofs --------------------------
(***************************************************************************)
(* Theorems of PortalKernel for every set of envelopes, keys and values,   *)
(* those that are no objects and NaN included, and every bound.  One       *)
(* inductive invariant, KernelInv, joins the well-formedness of the state  *)
(* with what each property needs of the message in hand: the lanes still to*)
(* run are distinct lanes of its route that have not seen its sequence, and*)
(* every record is its own replica.                                        *)
(***************************************************************************)
EXTENDS PortalKernel, TLAPS

IsSequence(s) == \E S : s \in Seq(S)

Distinct(lanes) == \A i, j \in 1 .. Len(lanes) : lanes[i] = lanes[j] => i = j

\* The trajectory is a sequence, within its bound, whose states count up from 0,
\* each on its parent.
TrajectoryInv ==
  /\ IsSequence(trajectory)
  /\ Len(trajectory) \in 1 .. MaxStates
  /\ \A i \in 1 .. Len(trajectory) : trajectory[i].observations = i - 1
  /\ TrajectoryValid(trajectory)

\* Every write is replicated before anything else happens.
StoreInv ==
  /\ version \in Nat
  /\ doState \in [Keys -> Records \union {None}]
  /\ kvState = doState
  /\ universe \in [started: BOOLEAN, tick: Nat]

\* The lanes still to run are lanes of the route, each once, that have not yet seen
\* the sequence of the message.
LanesAhead ==
  /\ work.msg \in Messages
  /\ Acceptable(work.msg)
  /\ work.seq = sequence
  /\ Distinct(work.lanes)
  /\ \A i \in 1 .. Len(work.lanes) :
       /\ work.lanes[i] \in RouteLanes(work.msg.type)
       /\ lastSequence[work.lanes[i]] < sequence

WorkInv ==
  /\ sequence \in Nat
  /\ lastSequence \in [Lanes -> Nat]
  /\ \A l \in Lanes : lastSequence[l] <= sequence
  /\ work \in Work
  /\ work.stage = "received" => work.msg \in Messages /\ work.did = {}
  /\ work.stage \in {"lanes", "tec"} => LanesAhead
  /\ work.stage = "tec" => work.lanes # <<>> /\ Head(work.lanes) = "orchestration"

KernelInv == TrajectoryInv /\ StoreInv /\ WorkInv

-----------------------------------------------------------------------------
(* Lemmas about the data.                                                  *)

\* Append adds one element at the end and leaves the others alone.
LEMMA Appended ==
  ASSUME NEW s, NEW e, IsSequence(s)
  PROVE  /\ IsSequence(Append(s, e))
         /\ Len(s) \in Nat
         /\ Len(Append(s, e)) = Len(s) + 1
         /\ \A i \in 1 .. Len(s) : Append(s, e)[i] = s[i]
         /\ Append(s, e)[Len(s) + 1] = e
<1>1. PICK S : s \in Seq(S)
  BY DEF IsSequence
<1>2. DEFINE T == S \union {e}
<1>3. s \in Seq(T) /\ e \in T
  BY <1>1
<1>4. Append(s, e) \in Seq(T)
  BY <1>3
<1>5. IsSequence(Append(s, e))
  BY <1>4 DEF IsSequence
<1> QED
  BY <1>3, <1>5

\* The tail of a non-empty sequence is the sequence without its first element.
LEMMA TailOf ==
  ASSUME NEW S, NEW s \in Seq(S), s # <<>>
  PROVE  /\ Tail(s) \in Seq(S)
         /\ Head(s) = s[1] /\ s[1] \in S
         /\ Len(s) \in Nat \ {0}
         /\ Len(Tail(s)) = Len(s) - 1
         /\ \A i \in 1 .. Len(Tail(s)) : Tail(s)[i] = s[i + 1]
  OBVIOUS

\* A route is a sequence of distinct lanes.
LEMMA RoutesAreLanes ==
  ASSUME NEW type \in RoutedTypes
  PROVE  Routes(type) \in Seq(Lanes) /\ Distinct(Routes(type))
<1>1. CASE type = "ecosystem.step"
  <2>1. Routes(type) = <<"cognitive", "orchestration", "substrate">>
    BY <1>1 DEF Routes
  <2> QED
    BY <2>1 DEF Lanes, Distinct
<1>2. CASE type # "ecosystem.step"
  <2>1. OnlyLane(type) \in Lanes /\ Routes(type) = <<OnlyLane(type)>>
    BY <1>2 DEF Routes, OnlyLane, RoutedTypes, UniverseTypes, Lanes
  <2> QED
    BY <2>1 DEF Distinct
<1> QED
  BY <1>1, <1>2

-----------------------------------------------------------------------------
(* The message in hand.                                                    *)

\* An answer ends the message and leaves the rest of the record alone.
LEMMA AnswerKeepsWork ==
  ASSUME WorkInv, NEW code \in Outcomes, Answer(code), UNCHANGED <<sequence, lastSequence>>
  PROVE  WorkInv'
  BY DEF WorkInv, Answer, Work

\* A lane that completes leaves the lanes behind it ahead of their last sequence.
LEMMA CompletesKeepsWork ==
  ASSUME WorkInv, NEW lane, NEW did \in SUBSET OperatorActions,
         work.stage \in {"lanes", "tec"}, work.lanes # <<>>, Head(work.lanes) = lane,
         Completes(lane, did), UNCHANGED sequence
  PROVE  WorkInv'
<1>1. /\ work \in Work /\ work.lanes \in Seq(Lanes) /\ LanesAhead
      /\ work.laneResults \subseteq Lanes /\ work.did \subseteq OperatorActions
  BY DEF WorkInv, Work
<1>2. /\ Tail(work.lanes) \in Seq(Lanes)
      /\ lane = work.lanes[1] /\ lane \in Lanes
      /\ Len(work.lanes) \in Nat \ {0}
      /\ Len(Tail(work.lanes)) = Len(work.lanes) - 1
      /\ \A i \in 1 .. Len(Tail(work.lanes)) : Tail(work.lanes)[i] = work.lanes[i + 1]
  BY <1>1, TailOf
<1>3. /\ work' = [work EXCEPT !.stage = "lanes", !.lanes = Tail(work.lanes),
                    !.laneResults = work.laneResults \union {lane},
                    !.did = work.did \union did]
      /\ lastSequence' = [lastSequence EXCEPT ![lane] = sequence]
  BY <1>1 DEF Completes, LanesAhead
<1>4. /\ work' \in Work /\ work'.stage = "lanes" /\ work'.lanes = Tail(work.lanes)
      /\ work'.msg = work.msg /\ work'.seq = work.seq
  <2>1. /\ work'.stage = "lanes" /\ work'.lanes = Tail(work.lanes)
        /\ work'.msg = work.msg /\ work'.seq = work.seq
    BY <1>1, <1>3 DEF Work
  <2>2. work.laneResults \union {lane} \subseteq Lanes /\ work.did \union did \subseteq OperatorActions
    BY <1>1, <1>2
  <2>3. work' \in Work
    BY <1>1, <1>2, <1>3, <2>2 DEF Work
  <2> QED
    BY <2>1, <2>3
<1>5. /\ lastSequence' \in [Lanes -> Nat]
      /\ \A l \in Lanes : lastSequence'[l] <= sequence'
      /\ \A l \in Lanes \ {lane} : lastSequence'[l] = lastSequence[l]
  BY <1>2, <1>3 DEF WorkInv
<1>6. \A i \in 1 .. Len(Tail(work.lanes)) :
        /\ Tail(work.lanes)[i] \in RouteLanes(work.msg.type)
        /\ Tail(work.lanes)[i] \in Lanes \ {lane}
        /\ lastSequence[Tail(work.lanes)[i]] < sequence
  BY <1>1, <1>2 DEF LanesAhead, Distinct
<1>7. Distinct(Tail(work.lanes))
  BY <1>1, <1>2 DEF LanesAhead, Distinct
<1>8. LanesAhead'
  BY <1>1, <1>4, <1>5, <1>6, <1>7 DEF LanesAhead, Distinct
<1> QED
  BY <1>4, <1>5, <1>8 DEF WorkInv

-----------------------------------------------------------------------------
(* Every step keeps WorkInv.                                               *)

\* An accepted message takes a sequence above that of every lane.
LEMMA AcceptKeepsWork ==
  ASSUME WorkInv, Accept
  PROVE  WorkInv'
<1>1. work.msg \in Messages /\ Acceptable(work.msg) /\ work.stage = "received"
  BY DEF WorkInv, Accept, Busy
<1>2. PICK type : type = work.msg.type /\ type \in RoutedTypes
  BY <1>1 DEF Acceptable
<1>3. Routes(type) \in Seq(Lanes) /\ Distinct(Routes(type))
  BY <1>2, RoutesAreLanes
<1>4. /\ sequence' = sequence + 1 /\ lastSequence' = lastSequence
      /\ work' = [work EXCEPT !.stage = "lanes", !.lanes = Routes(type), !.seq = sequence + 1]
  BY <1>2 DEF Accept
<1>5. /\ work' \in Work /\ work'.stage = "lanes" /\ work'.lanes = Routes(type)
      /\ work'.msg = work.msg /\ work'.seq = sequence + 1
  <2>1. work \in Work /\ sequence + 1 \in Nat
    BY DEF WorkInv
  <2> QED
    BY <1>3, <1>4, <2>1 DEF Work
<1>6. \A i \in 1 .. Len(Routes(type)) :
        Routes(type)[i] \in RouteLanes(type) /\ Routes(type)[i] \in Lanes
  BY <1>3 DEF RouteLanes
<1>7. /\ sequence' \in Nat /\ lastSequence' \in [Lanes -> Nat]
      /\ \A l \in Lanes : lastSequence'[l] < sequence'
  BY <1>4 DEF WorkInv
<1>8. LanesAhead'
  BY <1>1, <1>2, <1>3, <1>4, <1>5, <1>6, <1>7 DEF LanesAhead, Distinct, Acceptable
<1> QED
  BY <1>5, <1>7, <1>8 DEF WorkInv

\* A change of the rest of the task is no change for the lanes.
LEMMA TaskKeepsWork ==
  ASSUME WorkInv, NEW task \in Seq(Action), NEW did \in SUBSET OperatorActions,
         work.stage \in {"lanes", "tec"}, work.lanes # <<>>, Head(work.lanes) = "orchestration",
         work' = [work EXCEPT !.stage = "tec", !.task = task, !.did = work.did \union did],
         UNCHANGED <<sequence, lastSequence>>
  PROVE  WorkInv'
<1>1. LanesAhead'
  BY DEF WorkInv, LanesAhead, Work, Distinct
<1>2. work' \in Work
  <2>1. work.did \union did \subseteq OperatorActions
    BY DEF WorkInv, Work
  <2> QED
    BY <2>1 DEF WorkInv, Work
<1> QED
  BY <1>1, <1>2 DEF WorkInv, Work

\* The actions of a message are well-formed.
LEMMA TaskOfTyped ==
  ASSUME NEW m \in Messages
  PROVE  TaskOf(m) \in Seq(Action)
<1>1. m \in Envelope
  BY MessagesType
<1>2. CASE m.type \in UniverseTypes
  <2>1. UniverseOperation(m) \in TaskOperations
    BY <1>2 DEF UniverseOperation, TaskOperations
  <2>2. [operation |-> UniverseOperation(m), key |-> None, value |-> None] \in Action
    BY <2>1 DEF Action
  <2> QED
    BY <1>2, <2>2 DEF TaskOf
<1>3. CASE m.type \notin UniverseTypes
  BY <1>1, <1>3 DEF TaskOf, Envelope
<1> QED
  BY <1>2, <1>3

\* Every step keeps what is known of the message in hand.
LEMMA NextKeepsWork ==
  ASSUME WorkInv, Next
  PROVE  WorkInv'
<1>0. {"INVALID_MESSAGE", "UNAUTHENTICATED", "FORBIDDEN", "INVARIANT_VIOLATION", "ok",
       "exception"} \subseteq Outcomes
  BY DEF Outcomes, Codes
<1>1. ASSUME NEW m \in Messages, Receive(m)
      PROVE  WorkInv'
  <2>1. /\ UNCHANGED <<sequence, lastSequence>>
        /\ work' = [NoWork EXCEPT !.msg = m, !.stage = "received"]
    BY <1>1 DEF Receive, kernel
  <2>2. work' = [msg |-> m, stage |-> "received", lanes |-> <<>>, task |-> <<>>, seq |-> 0,
                 laneResults |-> {}, answer |-> None, did |-> {}]
    BY <2>1 DEF NoWork
  <2>3. <<>> \in Seq(Lanes) /\ <<>> \in Seq(Action)
    OBVIOUS
  <2>4. work' \in Work
    BY <2>2, <2>3 DEF Work
  <2>5. work'.stage = "received" /\ work'.msg \in Messages /\ work'.did = {}
    BY <2>2
  <2> QED
    BY <2>1, <2>4, <2>5 DEF WorkInv
<1>2. CASE Reject \/ Escapes
  BY <1>0, <1>2, AnswerKeepsWork DEF Reject, Escapes, kernel
<1>3. CASE Accept
  BY <1>3, AcceptKeepsWork
<1>4. CASE Refused
  BY <1>0, <1>4, AnswerKeepsWork DEF Refused, kernel
<1>5. CASE Cognitive
  <2>1. {"cognitive.process"} \in SUBSET OperatorActions
    BY DEF OperatorActions
  <2>2. CASE Completes("cognitive", {"cognitive.process"})
    BY <1>5, <2>1, <2>2, CompletesKeepsWork DEF Cognitive, Starts, Busy
  <2>3. CASE Answer("INVARIANT_VIOLATION") /\ UNCHANGED lastSequence
    BY <1>0, <1>5, <2>3, AnswerKeepsWork DEF Cognitive
  <2> QED
    BY <1>5, <2>2, <2>3 DEF Cognitive
<1>6. CASE SubstrateLane
  <2>1. {"substrate.read"} \in SUBSET OperatorActions /\ {"substrate.write"} \in SUBSET OperatorActions
    BY DEF OperatorActions
  <2>2. PICK did \in SUBSET OperatorActions : Completes("substrate", did)
    BY <1>6, <2>1 DEF SubstrateLane
  <2> QED
    BY <1>6, <2>2, CompletesKeepsWork DEF SubstrateLane, Starts, Busy
<1>7. CASE GovernanceLane
  <2>1. {"governance.inspect"} \in SUBSET OperatorActions
    BY DEF OperatorActions
  <2> QED
    BY <1>7, <2>1, CompletesKeepsWork DEF GovernanceLane, Starts, Busy
<1>8. CASE Orchestration
  <2>1. CASE Answer("INVARIANT_VIOLATION")
    BY <1>0, <1>8, <2>1, AnswerKeepsWork DEF Orchestration, kernel
  <2>2. CASE work' = [work EXCEPT !.stage = "tec", !.task = TaskOf(work.msg)]
    <3>1. /\ work.stage = "lanes" /\ work.lanes # <<>> /\ Head(work.lanes) = "orchestration"
          /\ UNCHANGED <<sequence, lastSequence>>
      BY <1>8 DEF Orchestration, Starts, Busy, kernel
    <3>2. TaskOf(work.msg) \in Seq(Action)
      BY <3>1, TaskOfTyped DEF WorkInv, LanesAhead
    <3>3. work' = [work EXCEPT !.stage = "tec", !.task = TaskOf(work.msg), !.did = work.did \union {}]
      BY <2>2 DEF WorkInv, Work
    <3>4. {} \in SUBSET OperatorActions
      OBVIOUS
    <3> QED
      BY <3>1, <3>2, <3>3, <3>4, TaskKeepsWork
  <2> QED
    BY <1>8, <2>1, <2>2 DEF Orchestration
<1>9. CASE TaskStep
  <2>1. PICK did \in SUBSET OperatorActions :
          work.stage = "tec" /\ work.task # <<>> /\ Performed(did)
    BY <1>9 DEF TaskStep, ActionDone, Busy, OperatorActions
  <2>2. Tail(work.task) \in Seq(Action)
    BY <2>1, TailOf DEF WorkInv, Work
  <2>3. work' = [work EXCEPT !.stage = "tec", !.task = Tail(work.task), !.did = work.did \union did]
    BY <2>1 DEF Performed, WorkInv, Work
  <2> QED
    BY <1>9, <2>1, <2>2, <2>3, TaskKeepsWork DEF TaskStep, WorkInv
<1>10. CASE TaskFails
  <2>1. CASE Answer("INVALID_MESSAGE")
    BY <1>0, <1>10, <2>1, AnswerKeepsWork DEF TaskFails
  <2>2. CASE work' = [work EXCEPT !.stage = "idle", !.answer = "KERNEL_ERROR",
                              !.did = work.did \union {"universe.tick"}]
    <3>1. work.did \union {"universe.tick"} \subseteq OperatorActions
      BY DEF WorkInv, Work, OperatorActions
    <3>2. work' \in Work /\ work'.stage = "idle"
      BY <2>2, <3>1 DEF WorkInv, Work, Outcomes, Codes
    <3> QED
      BY <1>10, <3>2 DEF TaskFails, WorkInv
  <2> QED
    BY <1>10, <2>1, <2>2 DEF TaskFails
<1>11. CASE TaskDone
  <2>1. LaneItself(work.msg) \in SUBSET OperatorActions
    BY DEF LaneItself, OperatorActions
  <2> QED
    BY <1>11, <2>1, CompletesKeepsWork DEF TaskDone, Busy, WorkInv
<1>12. CASE Finish
  BY <1>0, <1>12, AnswerKeepsWork DEF Finish, kernel
<1> QED
  BY <1>1, <1>2, <1>3, <1>4, <1>5, <1>6, <1>7, <1>8, <1>9, <1>10, <1>11, <1>12 DEF Next, Handle

-----------------------------------------------------------------------------
(* Every step keeps the trajectory and the substrate.                      *)

\* A cognitive step appends a state on the current one; nothing else touches the
\* trajectory.
LEMMA NextKeepsTrajectory ==
  ASSUME TrajectoryInv, Next
  PROVE  TrajectoryInv'
<1>1. CASE UNCHANGED trajectory
  BY <1>1 DEF TrajectoryInv, TrajectoryValid
<1>2. CASE Cognitive /\ trajectory' = Append(trajectory, Observed(work.msg))
  <2> DEFINE n == Len(trajectory)
             next == Observed(work.msg)
  <2>1. n < MaxStates \/ UNCHANGED trajectory
    BY <1>2 DEF Cognitive, TrajectoryInv
  <2>2. CASE n < MaxStates
    <3>1. /\ IsSequence(trajectory') /\ n \in Nat
          /\ Len(trajectory') = n + 1
          /\ \A i \in 1 .. n : trajectory'[i] = trajectory[i]
          /\ trajectory'[n + 1] = next
      BY <1>2, Appended DEF TrajectoryInv
    <3>2. /\ n \in 1 .. MaxStates
          /\ trajectory[n].version = n - 1 /\ trajectory[n].observations = n - 1
      BY <3>1 DEF TrajectoryInv, TrajectoryValid
    <3>3. /\ next.version = n /\ next.observations = n /\ next.parent = trajectory[n]
      BY <3>2 DEF Observed, Current
    <3>4. Len(trajectory') \in 1 .. MaxStates
      BY <2>2, <3>1, BoundsType
    <3>5. ASSUME NEW i \in 1 .. Len(trajectory')
          PROVE  /\ trajectory'[i].observations = i - 1
                 /\ trajectory'[i].version = i - 1
                 /\ i > 1 => trajectory'[i].parent = trajectory'[i - 1]
      <4>1. CASE i = n + 1
        BY <3>1, <3>2, <3>3, <4>1
      <4>2. CASE i # n + 1
        <5>1. i \in 1 .. n /\ (i > 1 => i - 1 \in 1 .. n)
          BY <3>1, <3>5, <4>2
        <5> QED
          BY <3>1, <5>1 DEF TrajectoryInv, TrajectoryValid
      <4> QED
        BY <4>1, <4>2
    <3> QED
      BY <3>1, <3>4, <3>5 DEF TrajectoryInv, TrajectoryValid
  <2>3. CASE UNCHANGED trajectory
    BY <1>1, <2>3
  <2> QED
    BY <2>1, <2>2, <2>3
<1> QED
  BY <1>1, <1>2 DEF Next, Handle, kernel, Receive, Reject, Escapes, Accept, Refused, Cognitive,
     SubstrateLane, GovernanceLane, Orchestration, TaskStep, TaskFails, TaskDone, Finish

\* A write puts one record of a new version in both stores.
LEMMA WriteKeepsStore ==
  ASSUME StoreInv, NEW key \in Keys, NEW value \in Values \union {None}, Write(key, value),
         UNCHANGED universe
  PROVE  StoreInv'
<1> DEFINE record == [value |-> value, version |-> version + 1]
<1>1. record \in Records
  BY DEF StoreInv, Records
<1>2. /\ version' = version + 1
      /\ doState' = [doState EXCEPT ![key] = record]
      /\ kvState' = [kvState EXCEPT ![key] = record]
  BY DEF Write
<1> QED
  BY <1>1, <1>2 DEF StoreInv

\* Every step keeps the substrate replicated and the universe well-formed.
LEMMA NextKeepsStore ==
  ASSUME StoreInv, WorkInv, Next
  PROVE  StoreInv'
<1>1. CASE UNCHANGED <<version, doState, kvState, universe>>
  BY <1>1 DEF StoreInv
<1>2. CASE SubstrateLane
  <2>1. work.msg.key \in Keys /\ work.msg.value \in Values
    BY <1>2, MessagesType DEF SubstrateLane, Starts, Busy, WorkInv, LanesAhead, Envelope
  <2> QED
    BY <1>1, <1>2, <2>1, WriteKeepsStore DEF SubstrateLane
<1>3. CASE TaskStep
  <2> DEFINE key == Head(work.task).key
             value == Head(work.task).value
  <2>1. work.task \in Seq(Action) /\ work.task # <<>>
    BY <1>3 DEF TaskStep, ActionDone, WorkInv, Work
  <2>2. key \in Keys \union {None} /\ value \in Values \union {None}
    <3>1. Head(work.task) \in Action
      BY <2>1, TailOf
    <3> QED
      BY <3>1 DEF Action
  <2>3. CASE key # None /\ Write(key, value) /\ UNCHANGED universe
    BY <2>2, <2>3, WriteKeepsStore
  <2>4. CASE /\ UNCHANGED <<version, doState, kvState>>
             /\ universe' \in {[universe EXCEPT !.started = TRUE], Ticked}
    <3>1. CASE universe' = [universe EXCEPT !.started = TRUE]
      BY <2>4, <3>1 DEF StoreInv
    <3>2. CASE universe' = Ticked
      BY <2>4, <3>2 DEF StoreInv, Ticked
    <3> QED
      BY <2>4, <3>1, <3>2
  <2> QED
    BY <1>1, <1>3, <2>3, <2>4 DEF TaskStep
<1>4. CASE TaskFails
  <2>1. CASE universe' = Ticked
    BY <1>4, <2>1 DEF TaskFails, StoreInv, Ticked
  <2> QED
    BY <1>1, <1>4, <2>1 DEF TaskFails
<1> QED
  BY <1>1, <1>2, <1>3, <1>4 DEF Next, Handle, kernel, Receive, Reject, Escapes, Accept, Refused, Cognitive,
     GovernanceLane, Orchestration, TaskDone, Finish

-----------------------------------------------------------------------------
(* The inductive invariant and its consequences.                           *)

LEMMA KernelInvInit ==
  ASSUME Init
  PROVE  KernelInv
<1>1. TrajectoryInv
  <2>1. trajectory \in Seq({FirstState}) /\ Len(trajectory) = 1 /\ trajectory[1] = FirstState
    BY DEF Init
  <2>2. FirstState.version = 0 /\ FirstState.observations = 0
    BY DEF FirstState
  <2> QED
    BY <2>1, <2>2, BoundsType DEF TrajectoryInv, TrajectoryValid, IsSequence
<1>2. StoreInv
  BY DEF Init, StoreInv
<1>3. WorkInv
  <2>1. <<>> \in Seq(Lanes) /\ <<>> \in Seq(Action)
    OBVIOUS
  <2>2. work \in Work /\ work.stage = "idle"
    BY <2>1 DEF Init, NoWork, Work
  <2> QED
    BY <2>2 DEF Init, WorkInv
<1> QED
  BY <1>1, <1>2, <1>3 DEF KernelInv

\* The inductive invariant holds in every reachable state.
THEOREM KernelInvariant == Spec => []KernelInv
<1>1. Init => KernelInv
  BY KernelInvInit
<1>2. KernelInv /\ [Next]_vars => KernelInv'
  <2> SUFFICES ASSUME KernelInv, [Next]_vars
               PROVE  KernelInv'
    OBVIOUS
  <2>1. CASE Next
    BY <2>1, NextKeepsTrajectory, NextKeepsStore, NextKeepsWork DEF KernelInv
  <2>2. CASE UNCHANGED vars
    BY <2>2 DEF KernelInv, TrajectoryInv, TrajectoryValid, StoreInv, WorkInv, LanesAhead, vars, kernel
  <2> QED
    BY <2>1, <2>2
<1> QED
  BY <1>1, <1>2, PTL DEF Spec

\* The state of the kernel stays well-formed, whatever the messages and bounds are.
THEOREM TypeCorrect == Spec => []TypeOK
<1>1. KernelInv => TypeOK
  BY DEF KernelInv, TrajectoryInv, StoreInv, WorkInv, LanesAhead, TypeOK
<1> QED
  BY <1>1, KernelInvariant, PTL

\* No lane ever refuses a message for its order: each sees every accepted sequence as
\* new, whatever earlier messages left undone.
THEOREM OrderHolds == Spec => []OrderingHolds
<1>1. KernelInv => OrderingHolds
  <2> SUFFICES ASSUME WorkInv, work.stage = "lanes", work.lanes # <<>>
               PROVE  InOrder(Head(work.lanes))
    BY DEF KernelInv, OrderingHolds, Busy
  <2>1. /\ work.lanes \in Seq(Lanes) /\ LanesAhead
        /\ Head(work.lanes) = work.lanes[1] /\ work.lanes[1] \in Lanes
        /\ 1 \in 1 .. Len(work.lanes)
    BY TailOf DEF WorkInv, Work
  <2> QED
    BY <2>1 DEF WorkInv, LanesAhead, InOrder
<1> QED
  BY <1>1, KernelInvariant, PTL

\* Between any two steps, of whatever messages, the trajectory is valid, every replica is
\* current, and the substrate is consistent exactly as long as no key holds NaN: the
\* check of the runtime invariants fails for nothing else.
THEOREM RuntimeSoundButForNaN == Spec => []OnlyNaNBreaksInvariants
<1>1. KernelInv => OnlyNaNBreaksInvariants
  <2> SUFFICES ASSUME KernelInv
               PROVE  /\ TrajectoryValid(trajectory) /\ KvCurrent
                      /\ SubstrateConsistent <=> ~Poisoned
    BY DEF OnlyNaNBreaksInvariants
  <2>1. /\ kvState = doState
        /\ \A k \in Keys : doState[k] # None => doState[k].version \in Nat
    BY DEF KernelInv, StoreInv, Records
  <2>2. SubstrateConsistent <=> \A k \in Keys : doState[k] # None => doState[k].value # NaN
    BY <2>1 DEF SubstrateConsistent, Differ
  <2> QED
    BY <2>1, <2>2 DEF KernelInv, TrajectoryInv, KvCurrent, Poisoned
<1> QED
  BY <1>1, KernelInvariant, PTL

-----------------------------------------------------------------------------
(* Authorization.                                                          *)

\* The actions a task operation performs, also when it fails half way.
Performs(operation) ==
  IF operation = "universe.badTick" THEN {"universe.tick"} ELSE Governed(operation)

\* What was done is authorized, and so is the rest of the task.
AuthInv ==
  /\ EffectsAuthorized
  /\ work.stage = "tec" => \A i \in 1 .. Len(work.task) :
       \A a \in Performs(work.task[i].operation) : Authorized(work.msg, a)

\* A role that may run tasks, or write, may do everything the kernel does.
LEMMA TaskRunnersMayAll ==
  ASSUME NEW m, NEW a \in OperatorActions,
         Authorized(m, "orchestration.execute") \/ Authorized(m, "substrate.write")
  PROVE  Authorized(m, a)
  BY DEF Authorized, ObserverActions

\* An accepted message may use the lanes of its route; a universe message has only
\* the orchestration lane, and may do its own operation there.
LEMMA AcceptedMay ==
  ASSUME NEW m, Acceptable(m), NEW lane \in RouteLanes(m.type)
  PROVE  /\ m.roles # None
         /\ m.type \in UniverseTypes =>
              lane = "orchestration" /\ Authorized(m, MessageAction(m.type))
         /\ m.type \notin UniverseTypes => Authorized(m, LaneAction[lane])
<1>1. CASE m.type \in UniverseTypes
  <2>1. Routes(m.type) = <<"orchestration">>
    BY <1>1 DEF Routes, OnlyLane, UniverseTypes
  <2> QED
    BY <1>1, <2>1 DEF Acceptable, RequiredActions, RouteLanes
<1>2. CASE m.type \notin UniverseTypes
  BY <1>2 DEF Acceptable, RequiredActions
<1> QED
  BY <1>1, <1>2 DEF Acceptable

\* The actions of an accepted message's task are authorized, those that governance
\* never saw included.
LEMMA TaskAuthorized ==
  ASSUME NEW m \in Messages, Acceptable(m), "orchestration" \in RouteLanes(m.type),
         NEW i \in 1 .. Len(TaskOf(m)), NEW a \in Performs(TaskOf(m)[i].operation)
  PROVE  Authorized(m, a)
<1>1. CASE m.type \in UniverseTypes
  <2>1. TaskOf(m)[i].operation = UniverseOperation(m)
    BY <1>1 DEF TaskOf
  <2>2. a = MessageAction(m.type)
    BY <1>1, <2>1 DEF Performs, Governed, UniverseOperation, MessageAction, UniverseTypes,
       OperatorActions
  <2> QED
    BY <1>1, <2>2, AcceptedMay
<1>2. CASE m.type \notin UniverseTypes
  <2>1. Authorized(m, "orchestration.execute")
    BY <1>2, AcceptedMay DEF LaneAction
  <2>2. a \in OperatorActions
    BY DEF Performs, Governed, OperatorActions
  <2> QED
    BY <2>1, <2>2, TaskRunnersMayAll
<1> QED
  BY <1>1, <1>2

\* The lane at the head of the remaining ones is a lane of the route of an accepted
\* message.
LEMMA HeadIsRouted ==
  ASSUME WorkInv, work.stage \in {"lanes", "tec"}, work.lanes # <<>>
  PROVE  /\ work.msg \in Messages /\ Acceptable(work.msg)
         /\ Head(work.lanes) \in RouteLanes(work.msg.type)
<1>1. /\ work.lanes \in Seq(Lanes) /\ LanesAhead
  BY DEF WorkInv, Work
<1>2. Head(work.lanes) = work.lanes[1] /\ 1 \in 1 .. Len(work.lanes)
  BY <1>1, TailOf
<1> QED
  BY <1>1, <1>2 DEF LanesAhead

\* A lane that completes adds what it did.
LEMMA CompletesKeepsAuth ==
  ASSUME WorkInv, AuthInv, NEW lane, NEW did, work.stage \in {"lanes", "tec"},
         work.lanes # <<>>, Completes(lane, did), \A a \in did : Authorized(work.msg, a)
  PROVE  AuthInv'
<1>1. work \in Work /\ work.msg.roles # None
  BY HeadIsRouted DEF WorkInv, Acceptable
<1>2. /\ work'.msg = work.msg /\ work'.stage = "lanes" /\ work'.did = work.did \union did
  BY <1>1 DEF Completes, Work
<1> QED
  BY <1>1, <1>2 DEF AuthInv, EffectsAuthorized

\* A message that ends keeps what it did.
LEMMA AnswerKeepsAuth ==
  ASSUME work \in Work, AuthInv, NEW code, Answer(code)
  PROVE  AuthInv'
<1>1. /\ work'.msg = work.msg /\ work'.stage = "idle" /\ work'.did = work.did
  BY DEF Answer, Work
<1> QED
  BY <1>1 DEF AuthInv, EffectsAuthorized

\* The operation at the head of a task may do what it does, and the rest remains.
LEMMA TaskHeadAuthorized ==
  ASSUME WorkInv, AuthInv, work.stage = "tec", work.task # <<>>
  PROVE  /\ work.msg.roles # None
         /\ \A a \in Performs(Head(work.task).operation) : Authorized(work.msg, a)
         /\ \A i \in 1 .. Len(Tail(work.task)) :
              \A a \in Performs(Tail(work.task)[i].operation) : Authorized(work.msg, a)
<1>1. work.task \in Seq(Action)
  BY DEF WorkInv, Work
<1>2. /\ Head(work.task) = work.task[1] /\ 1 \in 1 .. Len(work.task)
      /\ \A i \in 1 .. Len(Tail(work.task)) :
           Tail(work.task)[i] = work.task[i + 1] /\ i + 1 \in 1 .. Len(work.task)
  BY <1>1, TailOf
<1>3. work.msg.roles # None
  BY HeadIsRouted DEF WorkInv, Acceptable
<1> QED
  BY <1>2, <1>3 DEF AuthInv

\* Every step keeps what was done authorized.
LEMMA NextKeepsAuth ==
  ASSUME WorkInv, AuthInv, Next
  PROVE  AuthInv'
<1>0. work \in Work
  BY DEF WorkInv
<1>1. ASSUME NEW m \in Messages, Receive(m)
      PROVE  AuthInv'
  <2>1. work'.stage = "received" /\ work'.did = {}
    BY <1>1 DEF Receive, NoWork
  <2> QED
    BY <2>1 DEF AuthInv, EffectsAuthorized
<1>2. ASSUME NEW code, Answer(code)
      PROVE  AuthInv'
    BY <1>0, <1>2, AnswerKeepsAuth
<1>3. CASE Accept
  <2>1. work'.stage = "lanes" /\ work'.did = {}
    BY <1>0, <1>3 DEF Accept, Busy, WorkInv, Work
  <2> QED
    BY <2>1 DEF AuthInv, EffectsAuthorized
<1>4. ASSUME NEW lane, Starts(lane)
      PROVE  /\ work.stage = "lanes" /\ work.lanes # <<>>
             /\ work.msg \in Messages /\ Acceptable(work.msg)
             /\ lane \in RouteLanes(work.msg.type)
             /\ lane # "orchestration" => Authorized(work.msg, LaneAction[lane])
  BY <1>4, HeadIsRouted, AcceptedMay DEF Starts, Busy
<1>5. CASE Cognitive
  <2>1. Authorized(work.msg, "cognitive.process")
    BY <1>4, <1>5 DEF Cognitive, LaneAction
  <2> QED
    BY <1>2, <1>4, <1>5, <2>1, CompletesKeepsAuth DEF Cognitive
<1>6. CASE SubstrateLane
  <2>1. Authorized(work.msg, "substrate.write")
    BY <1>4, <1>6 DEF SubstrateLane, LaneAction
  <2>2. Authorized(work.msg, "substrate.read")
    BY <2>1, TaskRunnersMayAll DEF OperatorActions
  <2> QED
    BY <1>4, <1>6, <2>1, <2>2, CompletesKeepsAuth DEF SubstrateLane
<1>7. CASE GovernanceLane
  <2>1. Authorized(work.msg, "governance.inspect")
    BY <1>4, <1>7 DEF GovernanceLane, LaneAction
  <2> QED
    BY <1>4, <1>7, <2>1, CompletesKeepsAuth DEF GovernanceLane
<1>8. CASE Orchestration
  <2>1. CASE work' = [work EXCEPT !.stage = "tec", !.task = TaskOf(work.msg)]
    <3>1. /\ work'.stage = "tec" /\ work'.task = TaskOf(work.msg)
          /\ work'.msg = work.msg /\ work'.did = work.did
      BY <1>0, <2>1 DEF Work
    <3>2. /\ work.msg \in Messages /\ Acceptable(work.msg)
          /\ "orchestration" \in RouteLanes(work.msg.type)
      BY <1>4, <1>8 DEF Orchestration
    <3>3. \A i \in 1 .. Len(TaskOf(work.msg)) :
            \A a \in Performs(TaskOf(work.msg)[i].operation) : Authorized(work.msg, a)
      BY <3>2, TaskAuthorized
    <3> QED
      BY <3>1, <3>3 DEF AuthInv, EffectsAuthorized
  <2> QED
    BY <1>2, <1>8, <2>1 DEF Orchestration
<1>9. CASE TaskStep
  <2>1. /\ work.stage = "tec" /\ work.task # <<>>
        /\ \E did \in SUBSET Performs(Head(work.task).operation) : Performed(did)
    <3>1. work.stage = "tec" /\ work.task # <<>>
      BY <1>9 DEF TaskStep, ActionDone, Busy
    <3>2. ASSUME NEW operation, NEW did, ActionDone(operation, did),
                 did \subseteq Performs(operation)
          PROVE  \E d \in SUBSET Performs(Head(work.task).operation) : Performed(d)
      BY <3>2 DEF ActionDone
    <3>3. /\ \A o \in {"universe.start", "universe.tick", "substrate.write", "substrate.read"} :
                {o} \subseteq Performs(o)
          /\ \A o \in {"universe.state", "universe.umbrella"} : {"universe.read"} \subseteq Performs(o)
      BY DEF Performs, Governed, OperatorActions
    <3> QED
      BY <1>9, <3>1, <3>2, <3>3 DEF TaskStep
  <2>2. PICK did \in SUBSET Performs(Head(work.task).operation) : Performed(did)
    BY <2>1
  <2>3. /\ work'.msg = work.msg /\ work'.task = Tail(work.task)
        /\ work'.did = work.did \union did
    BY <1>0, <2>2 DEF Performed, Work
  <2> QED
    BY <2>1, <2>3, TaskHeadAuthorized DEF AuthInv, EffectsAuthorized
<1>10. CASE TaskFails
  <2>1. CASE /\ Head(work.task).operation = "universe.badTick"
             /\ work' = [work EXCEPT !.stage = "idle", !.answer = "KERNEL_ERROR",
                                    !.did = work.did \union {"universe.tick"}]
    <3>1. /\ work'.msg = work.msg /\ work'.stage = "idle"
          /\ work'.did = work.did \union {"universe.tick"}
      BY <1>0, <2>1 DEF Work
    <3>2. work.msg.roles # None /\ Authorized(work.msg, "universe.tick")
      BY <1>10, <2>1, TaskHeadAuthorized DEF TaskFails, Busy, Performs
    <3> QED
      BY <3>1, <3>2 DEF AuthInv, EffectsAuthorized
  <2> QED
    BY <1>2, <1>10, <2>1 DEF TaskFails
<1>11. CASE TaskDone
  <2>1. /\ work.stage = "tec" /\ work.lanes # <<>>
        /\ Acceptable(work.msg) /\ "orchestration" \in RouteLanes(work.msg.type)
    BY <1>11, HeadIsRouted DEF TaskDone, Busy, WorkInv
  <2>2. \A a \in LaneItself(work.msg) : Authorized(work.msg, a)
    BY <2>1, AcceptedMay DEF LaneItself, LaneAction
  <2> QED
    BY <1>11, <2>1, <2>2, CompletesKeepsAuth DEF TaskDone
<1> QED
  BY <1>1, <1>2, <1>3, <1>5, <1>6, <1>7, <1>8, <1>9, <1>10, <1>11
     DEF Next, Handle, Reject, Escapes, Refused, Finish

\* Whatever a message makes the kernel do is authorized, what happens inside a task,
\* which the router never looks at, and before a failure included.
THEOREM EffectsAreAuthorized == Spec => []EffectsAuthorized
<1>1. Init => AuthInv
  BY DEF Init, NoWork, AuthInv, EffectsAuthorized
<1>2. KernelInv /\ AuthInv /\ [Next]_vars => AuthInv'
  <2>1. ASSUME AuthInv, UNCHANGED vars
        PROVE  AuthInv'
    BY <2>1 DEF AuthInv, EffectsAuthorized, vars
  <2> QED
    BY <2>1, NextKeepsAuth DEF KernelInv
<1>3. AuthInv => EffectsAuthorized
  BY DEF AuthInv
<1> QED
  BY <1>1, <1>2, <1>3, KernelInvariant, PTL DEF Spec

-----------------------------------------------------------------------------
(* Completeness of an ok.                                                  *)

\* What the lanes in a set do, and what the first n actions of the task do.
DoneBy(m, lanes) == UNION {AskedOf(m, lane) : lane \in lanes}
DoneFirst(m, n) == UNION {Governed(TaskOf(m)[i].operation) : i \in 1 .. n}
NoneRaised(m, n) == \A i \in 1 .. n : TaskOf(m)[i].operation \notin Raises

\* Between lanes exactly the lanes that completed did what they were asked ...
LanesDone ==
  /\ work.answer = None
  /\ work.laneResults =
       RouteLanes(work.msg.type) \ {work.lanes[i] : i \in 1 .. Len(work.lanes)}
  /\ "orchestration" \in work.laneResults => NoneRaised(work.msg, Len(TaskOf(work.msg)))

\* ... and inside a task, its first n actions did too.
TaskDoneUpTo(n) ==
  /\ Len(work.task) = Len(TaskOf(work.msg)) - n
  /\ \A i \in 1 .. Len(work.task) : work.task[i] = TaskOf(work.msg)[i + n]
  /\ NoneRaised(work.msg, n)
  /\ work.did = DoneBy(work.msg, work.laneResults) \union DoneFirst(work.msg, n)

DoneInv ==
  /\ work.stage = "received" => work.answer = None /\ work.laneResults = {} /\ work.did = {}
  /\ work.stage \in {"lanes", "tec"} => LanesDone
  /\ work.stage = "lanes" => work.did = DoneBy(work.msg, work.laneResults)
  /\ work.stage = "tec" => \E n \in 0 .. Len(TaskOf(work.msg)) : TaskDoneUpTo(n)
  /\ OkMeansEverything

\* An answer other than ok leaves nothing to show.
LEMMA FailureKeepsDone ==
  ASSUME NEW code \in Outcomes \ {"ok"}, work'.answer = code, work'.stage = "idle"
  PROVE  DoneInv'
  BY DEF DoneInv, OkMeansEverything

\* A lane that completes, having done what it was asked, is done.
LEMMA CompletesKeepsDone ==
  ASSUME WorkInv, DoneInv, NEW lane, NEW did,
         work.stage \in {"lanes", "tec"}, work.lanes # <<>>, Head(work.lanes) = lane,
         Completes(lane, did),
         work.did \union did = DoneBy(work.msg, work.laneResults \union {lane}),
         lane = "orchestration" => NoneRaised(work.msg, Len(TaskOf(work.msg)))
  PROVE  DoneInv'
<1>1. /\ work \in Work /\ work.lanes \in Seq(Lanes) /\ LanesAhead
      /\ lane \in RouteLanes(work.msg.type)
  BY HeadIsRouted DEF WorkInv, Work
<1>2. /\ lane = work.lanes[1] /\ Len(work.lanes) \in Nat \ {0}
      /\ Len(Tail(work.lanes)) = Len(work.lanes) - 1
      /\ \A i \in 1 .. Len(Tail(work.lanes)) : Tail(work.lanes)[i] = work.lanes[i + 1]
  BY <1>1, TailOf
<1>3. /\ work'.stage = "lanes" /\ work'.lanes = Tail(work.lanes) /\ work'.msg = work.msg
      /\ work'.laneResults = work.laneResults \union {lane}
      /\ work'.did = work.did \union did /\ work'.answer = work.answer
  BY <1>1 DEF Completes, Work
<1>4. {work.lanes[i] : i \in 1 .. Len(work.lanes)} \ {lane}
        = {Tail(work.lanes)[i] : i \in 1 .. Len(Tail(work.lanes))}
  <2>1. \A i \in 2 .. Len(work.lanes) : work.lanes[i] # lane
    BY <1>1, <1>2 DEF LanesAhead, Distinct
  <2>2. \A i \in 2 .. Len(work.lanes) :
          i - 1 \in 1 .. Len(Tail(work.lanes)) /\ Tail(work.lanes)[i - 1] = work.lanes[i]
    BY <1>2
  <2>3. \A i \in 1 .. Len(Tail(work.lanes)) : i + 1 \in 2 .. Len(work.lanes)
    BY <1>2
  <2> QED
    BY <1>2, <2>1, <2>2, <2>3
<1>5. LanesDone
  BY DEF DoneInv
<1>6. work.laneResults \union {lane}
        = RouteLanes(work.msg.type) \ {Tail(work.lanes)[i] : i \in 1 .. Len(Tail(work.lanes))}
  BY <1>1, <1>4, <1>5 DEF LanesDone
<1>7. LanesDone'
  BY <1>3, <1>5, <1>6 DEF LanesDone, NoneRaised
<1> QED
  BY <1>3, <1>5, <1>7, NoneType DEF DoneInv, LanesDone, OkMeansEverything, Outcomes, Codes, DoneBy

\* One more lane is the lanes before and the lane itself.
LEMMA DoneByOneMore ==
  ASSUME NEW m, NEW lanes, NEW lane
  PROVE  DoneBy(m, lanes \union {lane}) = DoneBy(m, lanes) \union AskedOf(m, lane)
  BY DEF DoneBy

\* One more action is the actions before and the action itself.
LEMMA DoneFirstOneMore ==
  ASSUME NEW m, NEW n \in Nat
  PROVE  DoneFirst(m, n + 1) = DoneFirst(m, n) \union Governed(TaskOf(m)[n + 1].operation)
<1>1. 1 .. n + 1 = (1 .. n) \union {n + 1}
  OBVIOUS
<1> QED
  BY <1>1 DEF DoneFirst

\* An action of the task that does what it was asked is one more action done.
LEMMA TaskStepKeepsDone ==
  ASSUME WorkInv, DoneInv, TaskStep
  PROVE  DoneInv'
<1> DEFINE m == work.msg
           head == Head(work.task)
<1>1. /\ work.stage = "tec" /\ work.task # <<>> /\ work \in Work /\ work.task \in Seq(Action)
      /\ m \in Messages /\ TaskOf(m) \in Seq(Action)
  BY TaskOfTyped DEF TaskStep, ActionDone, Busy, WorkInv, Work, LanesAhead
<1>2. /\ head.operation \notin Raises
      /\ Performed(Governed(head.operation))
  <2>1. \A o \in {"universe.start", "universe.tick", "substrate.write", "substrate.read"} :
          Governed(o) = {o} /\ o \notin Raises
    BY DEF Governed, Raises, OperatorActions
  <2>2. Governed("noop") = {} /\ "noop" \notin Raises
    BY DEF Governed, Raises, OperatorActions
  <2>3. \A o \in {"universe.state", "universe.umbrella"} :
          Governed(o) = {"universe.read"} /\ o \notin Raises
    BY DEF Governed, Raises
  <2> QED
    BY <2>1, <2>2, <2>3 DEF TaskStep, ActionDone
<1>3. PICK n \in 0 .. Len(TaskOf(m)) : TaskDoneUpTo(n)
  BY <1>1 DEF DoneInv
<1>4. /\ head = work.task[1] /\ Len(work.task) \in Nat \ {0}
      /\ Tail(work.task) \in Seq(Action)
      /\ Len(Tail(work.task)) = Len(work.task) - 1
      /\ \A i \in 1 .. Len(Tail(work.task)) : Tail(work.task)[i] = work.task[i + 1]
  BY <1>1, TailOf
<1>5. /\ n \in Nat /\ n + 1 \in 0 .. Len(TaskOf(m))
      /\ head = TaskOf(m)[n + 1]
      /\ Len(Tail(work.task)) = Len(TaskOf(m)) - (n + 1)
  BY <1>1, <1>3, <1>4 DEF TaskDoneUpTo
<1>6. \A i \in 1 .. Len(Tail(work.task)) : Tail(work.task)[i] = TaskOf(m)[i + (n + 1)]
  <2>1. \A i \in 1 .. Len(Tail(work.task)) :
          i + 1 \in 1 .. Len(work.task) /\ (i + 1) + n = i + (n + 1)
    BY <1>4, <1>5
  <2> QED
    BY <1>3, <1>4, <2>1 DEF TaskDoneUpTo
<1>7. NoneRaised(m, n + 1)
  <2>1. 1 .. n + 1 = (1 .. n) \union {n + 1}
    BY <1>5
  <2> QED
    BY <1>2, <1>3, <1>5, <2>1 DEF TaskDoneUpTo, NoneRaised
<1>8. /\ work'.stage = "tec" /\ work'.msg = m /\ work'.task = Tail(work.task)
      /\ work'.lanes = work.lanes /\ work'.laneResults = work.laneResults
      /\ work'.answer = work.answer /\ work'.did = work.did \union Governed(head.operation)
  BY <1>1, <1>2 DEF Performed, Work
<1>9. work'.did = DoneBy(m, work.laneResults) \union DoneFirst(m, n + 1)
  BY <1>3, <1>5, <1>8, DoneFirstOneMore DEF TaskDoneUpTo
<1>10. TaskDoneUpTo(n + 1)'
  BY <1>5, <1>6, <1>7, <1>8, <1>9 DEF TaskDoneUpTo
<1>11. LanesDone /\ LanesDone'
  BY <1>1, <1>8 DEF DoneInv, LanesDone
<1> QED
  BY <1>5, <1>8, <1>10, <1>11, NoneType DEF DoneInv, LanesDone, OkMeansEverything, Outcomes, Codes

\* Every step keeps the account of what the message did.
LEMMA NextKeepsDone ==
  ASSUME WorkInv, DoneInv, Next
  PROVE  DoneInv'
<1>0. work \in Work
  BY DEF WorkInv
<1>a. ASSUME NEW code \in Outcomes \ {"ok"}, Answer(code)
      PROVE  DoneInv'
  <2>1. work'.answer = code /\ work'.stage = "idle"
    BY <1>0, <1>a DEF Answer, Work
  <2> QED
    BY <2>1, FailureKeepsDone
<1>b. {"INVALID_MESSAGE", "UNAUTHENTICATED", "FORBIDDEN", "INVARIANT_VIOLATION", "KERNEL_ERROR",
       "exception"} \subseteq Outcomes \ {"ok"}
  BY DEF Outcomes, Codes
<1>c. ASSUME NEW lane, NEW did, Starts(lane), Completes(lane, did), lane # "orchestration",
             did = AskedOf(work.msg, lane)
      PROVE  DoneInv'
  <2>1. /\ work.stage = "lanes" /\ work.lanes # <<>> /\ Head(work.lanes) = lane
    BY <1>c DEF Starts, Busy
  <2>2. work.did \union did = DoneBy(work.msg, work.laneResults \union {lane})
    BY <1>c, <2>1, DoneByOneMore DEF DoneInv
  <2> QED
    BY <1>c, <2>1, <2>2, CompletesKeepsDone
<1>1. ASSUME NEW m \in Messages, Receive(m)
      PROVE  DoneInv'
  <2>1. /\ work'.stage = "received" /\ work'.answer = None
        /\ work'.laneResults = {} /\ work'.did = {}
    BY <1>1 DEF Receive, NoWork
  <2> QED
    BY <2>1, NoneType DEF DoneInv, OkMeansEverything, Outcomes, Codes
<1>2. CASE Accept
  <2>1. /\ work'.stage = "lanes" /\ work'.lanes = Routes(work.msg.type)
        /\ work'.msg = work.msg /\ work'.answer = None
        /\ work'.laneResults = {} /\ work'.did = {}
    BY <1>0, <1>2 DEF Accept, Busy, DoneInv, Work
  <2>2. LanesDone'
    BY <2>1 DEF LanesDone, RouteLanes
  <2>3. DoneBy(work.msg, {}) = {}
    BY DEF DoneBy
  <2> QED
    BY <2>1, <2>2, <2>3, NoneType DEF DoneInv, OkMeansEverything, Outcomes, Codes
<1>3. CASE Cognitive
  <2>1. AskedOf(work.msg, "cognitive") = {"cognitive.process"}
    BY DEF AskedOf, LaneAction
  <2> QED
    BY <1>a, <1>b, <1>c, <1>3, <2>1 DEF Cognitive
<1>4. CASE SubstrateLane
  <2>1. AskedOf(work.msg, "substrate") =
          IF work.msg.type = "substrate" /\ work.msg.read THEN {"substrate.read"} ELSE {"substrate.write"}
    BY DEF AskedOf, LaneAction
  <2> QED
    BY <1>c, <1>4, <2>1 DEF SubstrateLane
<1>5. CASE GovernanceLane
  <2>1. AskedOf(work.msg, "governance") = {"governance.inspect"}
    BY DEF AskedOf, LaneAction
  <2> QED
    BY <1>c, <1>5, <2>1 DEF GovernanceLane
<1>6. CASE Orchestration
  <2>1. CASE Answer("INVARIANT_VIOLATION")
    BY <1>a, <1>b, <2>1
  <2>2. CASE work' = [work EXCEPT !.stage = "tec", !.task = TaskOf(work.msg)]
    <3>1. work.stage = "lanes" /\ work.msg \in Messages
      BY <1>6, HeadIsRouted DEF Orchestration, Starts, Busy
    <3>2. TaskOf(work.msg) \in Seq(Action)
      BY <3>1, TaskOfTyped
    <3>3. /\ work'.stage = "tec" /\ work'.task = TaskOf(work.msg) /\ work'.msg = work.msg
          /\ work'.lanes = work.lanes /\ work'.laneResults = work.laneResults
          /\ work'.answer = work.answer /\ work'.did = work.did
      BY <1>0, <2>2 DEF Work
    <3>4. LanesDone /\ LanesDone' /\ work.did = DoneBy(work.msg, work.laneResults)
      BY <3>1, <3>3 DEF DoneInv, LanesDone
    <3>5. NoneRaised(work.msg, 0) /\ DoneFirst(work.msg, 0) = {}
      BY DEF NoneRaised, DoneFirst
    <3>6. 0 \in 0 .. Len(TaskOf(work.msg)) /\ TaskDoneUpTo(0)'
      BY <3>2, <3>3, <3>4, <3>5 DEF TaskDoneUpTo
    <3> QED
      BY <3>3, <3>4, <3>6, NoneType DEF DoneInv, LanesDone, OkMeansEverything, Outcomes, Codes
  <2> QED
    BY <1>6, <2>1, <2>2 DEF Orchestration
<1>7. CASE TaskStep
  BY <1>7, TaskStepKeepsDone
<1>8. CASE TaskFails
  <2>1. CASE work' = [work EXCEPT !.stage = "idle", !.answer = "KERNEL_ERROR",
                              !.did = work.did \union {"universe.tick"}]
    <3>1. work'.answer = "KERNEL_ERROR" /\ work'.stage = "idle"
      BY <1>0, <2>1 DEF Work
    <3> QED
      BY <1>b, <3>1, FailureKeepsDone
  <2> QED
    BY <1>a, <1>b, <1>8, <2>1 DEF TaskFails
<1>9. CASE TaskDone
  <2>1. /\ work.stage = "tec" /\ work.task = <<>> /\ work.msg \in Messages
        /\ work.lanes # <<>> /\ Head(work.lanes) = "orchestration"
    BY <1>9 DEF TaskDone, Busy, WorkInv, LanesAhead
  <2>2. TaskOf(work.msg) \in Seq(Action)
    BY <2>1, TaskOfTyped
  <2>3. PICK n \in 0 .. Len(TaskOf(work.msg)) : TaskDoneUpTo(n)
    BY <2>1 DEF DoneInv
  <2>4. n = Len(TaskOf(work.msg))
    BY <2>1, <2>2, <2>3 DEF TaskDoneUpTo
  <2>5. AskedOf(work.msg, "orchestration") = LaneItself(work.msg) \union DoneFirst(work.msg, n)
    BY <2>4 DEF AskedOf, DoneFirst
  <2>6. work.did \union LaneItself(work.msg)
          = DoneBy(work.msg, work.laneResults \union {"orchestration"})
    <3>1. work.did = DoneBy(work.msg, work.laneResults) \union DoneFirst(work.msg, n)
      BY <2>3 DEF TaskDoneUpTo
    <3>2. DoneBy(work.msg, work.laneResults \union {"orchestration"})
            = DoneBy(work.msg, work.laneResults)
                \union (LaneItself(work.msg) \union DoneFirst(work.msg, n))
      BY <2>5, DoneByOneMore
    <3> QED
      BY <3>1, <3>2
  <2>7. NoneRaised(work.msg, Len(TaskOf(work.msg)))
    BY <2>3, <2>4 DEF TaskDoneUpTo
  <2> QED
    BY <1>9, <2>1, <2>6, <2>7, CompletesKeepsDone DEF TaskDone
<1>10. CASE Finish
  <2>1. CASE Answer("INVARIANT_VIOLATION")
    BY <1>a, <1>b, <2>1
  <2>2. CASE Answer("ok")
    <3>1. work.stage = "lanes" /\ work.lanes = <<>>
      BY <1>10 DEF Finish, Busy
    <3>2. /\ work'.stage = "idle" /\ work'.msg = work.msg /\ work'.did = work.did
          /\ work'.laneResults = work.laneResults
      BY <1>0, <2>2 DEF Answer, Work
    <3>3. /\ work.laneResults = RouteLanes(work.msg.type)
          /\ "orchestration" \in work.laneResults => NoneRaised(work.msg, Len(TaskOf(work.msg)))
          /\ work.did = Asked(work.msg)
      <4>1. {work.lanes[i] : i \in 1 .. Len(work.lanes)} = {}
        BY <3>1
      <4>2. LanesDone /\ work.did = DoneBy(work.msg, work.laneResults)
        BY <3>1 DEF DoneInv
      <4>3. work.laneResults = RouteLanes(work.msg.type)
        BY <4>1, <4>2 DEF LanesDone
      <4> QED
        BY <4>2, <4>3 DEF LanesDone, DoneBy, Asked
    <3> QED
      BY <3>2, <3>3 DEF DoneInv, OkMeansEverything, NoneRaised
  <2> QED
    BY <1>10, <2>1, <2>2 DEF Finish
<1>11. CASE Reject \/ Escapes \/ Refused
  BY <1>a, <1>b, <1>11 DEF Reject, Escapes, Refused
<1> QED
  BY <1>1, <1>2, <1>3, <1>4, <1>5, <1>6, <1>7, <1>8, <1>9, <1>10, <1>11 DEF Next, Handle

\* A message is answered ok only after every lane of its route and every action of its
\* task took effect.
THEOREM OkIsComplete == Spec => []OkMeansEverything
<1>1. Init => DoneInv
  BY NoneType DEF Init, NoWork, DoneInv, OkMeansEverything, Outcomes, Codes
<1>2. KernelInv /\ DoneInv /\ [Next]_vars => DoneInv'
  <2>1. ASSUME DoneInv, UNCHANGED vars
        PROVE  DoneInv'
    BY <2>1 DEF DoneInv, LanesDone, TaskDoneUpTo, OkMeansEverything, vars
  <2> QED
    BY <2>1, NextKeepsDone DEF KernelInv
<1>3. DoneInv => OkMeansEverything
  BY DEF DoneInv
<1> QED
  BY <1>1, <1>2, <1>3, KernelInvariant, PTL DEF Spec
=============================================================================
