----------------------------- MODULE PortalKernel -----------------------------
(***************************************************************************)
(* Kernel.handle_message of the Python kernel: authorize and route one     *)
(* envelope, run the lanes of its route in order, check the runtime        *)
(* invariants, answer.  The HTTP adapter is single-threaded, so messages   *)
(* follow one another; what goes wrong goes wrong inside a message, whose  *)
(* lanes take effect one by one while any of them may raise and the clock  *)
(* may end the cycle at every check.  An exception rolls nothing back.     *)
(***************************************************************************)
EXTENDS Integers, Sequences, FiniteSets

CONSTANTS
  Messages,     \* envelopes: a redelivered one is the same element
  Keys,         \* keys of the substrate
  Values,       \* what payloads and actions give to be written
  NaN,          \* the value that differs from itself
  MaxSteps,     \* scheduler and TEC max_steps
  MaxStates,    \* SIMTrajectory.max_states
  MaxSequence,  \* bound of the model: how many messages the router accepts
  None

UniverseTypes == {"universe.start", "universe.tick", "universe.state", "universe.umbrella"}
RoutedTypes ==
  {"sim", "cognitive", "tec", "task", "substrate", "governance", "ecosystem.step"}
    \union UniverseTypes

\* Operations of a TEC action; "malformed" stands for an action that is no object,
\* "universe.badTick" for a tick whose changes are no mapping.
TaskOperations ==
  UniverseTypes \union {"universe.badTick", "noop", "substrate.read", "substrate.write",
                        "substrate.other", "malformed"}

\* key = None is an empty key, value = None a missing value, which is written too.
Action == [operation: TaskOperations, key: Keys \union {None}, value: Values \union {None}]

\* An envelope as far as the kernel looks at it.  Its form is "incomplete" when a field
\* is missing or is not of its type, and "noObject" when it is no mapping at all; then
\* nobody looks at its fields.  roles is None for a token that is not registered; tenant
\* is that of the identity, wants that of the governance context; key and value are
\* what the substrate lane writes; task is what the orchestration lane makes of the
\* payload.
Envelope ==
  [id: Nat, type: RoutedTypes \union {"introspection", "other"},
   form: {"complete", "incomplete", "noObject"},
   roles: {None} \union SUBSET {"admin", "operator", "observer"},
   tenant: {None, "t1", "t2"}, wants: {None, "t1", "t2"}, deny: BOOLEAN,
   key: Keys, value: Values, read: BOOLEAN, badChanges: BOOLEAN,
   task: Seq(Action)]

\* The answers of handle_message, and what else a call of it may come to.
Codes == {"ok", "INVALID_MESSAGE", "UNAUTHENTICATED", "FORBIDDEN", "INVARIANT_VIOLATION",
          "KERNEL_ERROR"}
Outcomes == Codes \union {"exception"}

ASSUME NoneType == None \notin Outcomes
ASSUME MessagesType == Messages \subseteq Envelope
ASSUME BoundsType == MaxSteps \in Nat /\ MaxStates \in Nat \ {0} /\ MaxSequence \in Nat

VARIABLES
  sequence,      \* Router.sequence
  lastSequence,  \* MultiDomainScheduler.last_sequence, per lane
  trajectory,    \* SIMTrajectory.states
  version,       \* SubstrateState._version
  doState,       \* SubstrateState.do_state
  kvState,       \* SubstrateState.kv_state
  universe,      \* the local universe engine
  work           \* the message in hand, or the last one and its answer

kernel == <<sequence, lastSequence, trajectory, version, doState, kvState, universe>>
vars == <<kernel, work>>

Lanes == {"cognitive", "orchestration", "substrate", "governance"}

\* SIM states: a digest covers version, data and the parent's digest, so the parent
\* state itself stands for parent_digest.
FirstState == [version |-> 0, observations |-> 0, last |-> None, parent |-> None]

\* work: the stage and the lanes still to run, the TEC actions still to run, the
\* message's sequence number, the lanes that completed (_laneResults), the answer,
\* and (history) the actions governance knows that this delivery performed.
NoWork ==
  [msg |-> None, stage |-> "idle", lanes |-> <<>>, task |-> <<>>, seq |-> 0,
   laneResults |-> {}, answer |-> None, did |-> {}]

Init ==
  /\ sequence = 0
  /\ lastSequence = [l \in Lanes |-> 0]
  /\ trajectory = <<FirstState>>
  /\ version = 0
  /\ doState = [k \in Keys |-> None]
  /\ kvState = [k \in Keys |-> None]
  /\ universe = [started |-> FALSE, tick |-> 0]
  /\ work = NoWork

-----------------------------------------------------------------------------
(* Routing and governance.                                                 *)

\* The cognitive, substrate and governance types are named like their lanes.
OnlyLane(type) ==
  IF type \in {"tec", "task"} \union UniverseTypes THEN "orchestration"
  ELSE IF type = "sim" THEN "cognitive" ELSE type

\* ROUTES
Routes(type) ==
  IF type = "ecosystem.step" THEN <<"cognitive", "orchestration", "substrate">>
  ELSE <<OnlyLane(type)>>

LaneAction ==
  [cognitive |-> "cognitive.process", orchestration |-> "orchestration.execute",
   substrate |-> "substrate.write", governance |-> "governance.inspect"]

MessageAction(type) ==
  IF type \in {"universe.state", "universe.umbrella"} THEN "universe.read" ELSE type

RouteLanes(type) == {Routes(type)[i] : i \in 1 .. Len(Routes(type))}

\* Mutant: only the first lane of the route is authorized.
FirstLaneAction(type) ==
  IF type \in UniverseTypes THEN {MessageAction(type)} ELSE {LaneAction[Head(Routes(type))]}

RequiredActions(type) ==
  IF type \in UniverseTypes THEN {MessageAction(type)}
  ELSE {LaneAction[l] : l \in RouteLanes(type)}

OperatorActions ==
  {"cognitive.process", "orchestration.execute", "substrate.read", "substrate.write",
   "governance.inspect", "universe.read", "universe.tick", "universe.start"}
ObserverActions ==
  {"cognitive.process", "substrate.read", "governance.inspect", "universe.read"}

\* GovernanceEngine.authorize: the strongest role decides.
Authorized(m, action) ==
  /\ ~m.deny
  /\ m.wants = None \/ m.tenant \in {None, m.wants}
  /\ \/ "admin" \in m.roles
     \/ "operator" \in m.roles /\ action \in OperatorActions
     \/ m.roles = {"observer"} /\ action \in ObserverActions

-----------------------------------------------------------------------------
(* One message.                                                            *)

Busy(stage) == work.stage = stage

Answer(code) == work' = [work EXCEPT !.stage = "idle", !.answer = code]

Acceptable(m) ==
  /\ m.form = "complete" /\ m.type \in RoutedTypes /\ m.roles # None
  /\ \A a \in RequiredActions(m.type) : Authorized(m, a)

\* A message arrives; at the bound of the model, only one that will be rejected.
Receive(m) ==
  /\ Busy("idle")
  /\ sequence < MaxSequence \/ ~Acceptable(m)
  /\ work' = [NoWork EXCEPT !.msg = m, !.stage = "received"]
  /\ UNCHANGED kernel

\* Mutant: an identity error is not caught.
RejectUncaught ==
  LET m == work.msg IN
  /\ Busy("received") /\ m.form # "noObject"
  /\ ~Acceptable(m)
  /\ m.roles # None
  /\ Answer("FORBIDDEN")
  /\ UNCHANGED kernel

\* _validate_envelope, then Router.route: type, identity, governance.  The branch of
\* handle_message for introspection.* comes after route, which knows no such type.
Reject ==
  LET m == work.msg
      known == m.form = "complete" /\ m.type \in RoutedTypes IN
  /\ Busy("received") /\ m.form # "noObject"
  /\ ~Acceptable(m)
  /\ \/ ~known /\ Answer("INVALID_MESSAGE")
     \/ known /\ m.roles = None /\ Answer("UNAUTHENTICATED")
     \/ known /\ m.roles # None /\ Answer("FORBIDDEN")
  /\ UNCHANGED kernel

\* _validate_envelope raises for an envelope that is no mapping, and then so does the
\* except clause, which asks the envelope for its id: the call ends with no answer.
Escapes ==
  /\ Busy("received") /\ work.msg.form = "noObject"
  /\ Answer("exception")
  /\ UNCHANGED kernel

\* Mutant: the sequence does not move.
AcceptSameSequence ==
  /\ Busy("received")
  /\ Acceptable(work.msg)
  /\ sequence' = sequence
  /\ work' = [work EXCEPT !.stage = "lanes", !.lanes = Routes(work.msg.type), !.seq = sequence]
  /\ UNCHANGED <<lastSequence, trajectory, version, doState, kvState, universe>>

Accept ==
  /\ Busy("received")
  /\ Acceptable(work.msg)
  /\ sequence' = sequence + 1
  /\ work' = [work EXCEPT !.stage = "lanes", !.lanes = Routes(work.msg.type),
                          !.seq = sequence + 1]
  /\ UNCHANGED <<lastSequence, trajectory, version, doState, kvState, universe>>

InOrder(lane) == work.seq > lastSequence[lane]

StepsFit == Len(Routes(work.msg.type)) <= MaxSteps

\* The clock is read before every lane, around every TEC action, and at the end, so a
\* message may be refused at any of them; a route that is too long or a sequence that
\* is not new always is, because Starts needs both.
Refused ==
  /\ work.stage \in {"lanes", "tec"}
  /\ Answer("INVARIANT_VIOLATION")
  /\ UNCHANGED kernel

Starts(lane) ==
  /\ Busy("lanes") /\ work.lanes # <<>>
  /\ Head(work.lanes) = lane
  /\ StepsFit /\ InOrder(lane)

\* The lane's result is recorded and last_sequence moves on; only then.
Completes(lane, did) ==
  /\ lastSequence' = [lastSequence EXCEPT ![lane] = work.seq]
  /\ work' = [work EXCEPT !.stage = "lanes", !.lanes = Tail(@),
                          !.laneResults = @ \union {lane}, !.did = @ \union did]

Current == trajectory[Len(trajectory)]

Observed(m) ==
  [version |-> Current.version + 1, observations |-> Current.observations + 1,
   last |-> m.id, parent |-> Current]

\* SIMTrajectory.is_valid
TrajectoryValid(states) ==
  \A i \in 1 .. Len(states) :
    /\ states[i].version = i - 1
    /\ i > 1 => states[i].parent = states[i - 1]

\* Mutant: the bound is not checked.
CognitiveUnbounded ==
  /\ Starts("cognitive")
  /\ trajectory' = Append(trajectory, Observed(work.msg))
  /\ Completes("cognitive", {"cognitive.process"})
  /\ UNCHANGED <<sequence, version, doState, kvState, universe>>

\* SIMCore.step, SIMTrajectory.append and the check of the whole trajectory.
Cognitive ==
  /\ Starts("cognitive")
  /\ \/ /\ Len(trajectory) < MaxStates
        /\ trajectory' = Append(trajectory, Observed(work.msg))
        /\ IF TrajectoryValid(trajectory') THEN Completes("cognitive", {"cognitive.process"})
           ELSE Answer("INVARIANT_VIOLATION") /\ UNCHANGED lastSequence
     \/ /\ Len(trajectory) >= MaxStates
        /\ Answer("INVARIANT_VIOLATION")
        /\ UNCHANGED <<trajectory, lastSequence>>
  /\ UNCHANGED <<sequence, version, doState, kvState, universe>>

\* Mutant: the write is not replicated.
WriteUnreplicated(key, value) ==
  LET record == [value |-> value, version |-> version + 1] IN
  /\ version' = version + 1
  /\ doState' = [doState EXCEPT ![key] = record]
  /\ UNCHANGED kvState

\* SubstrateState.write with its default replication.
Write(key, value) ==
  LET record == [value |-> value, version |-> version + 1] IN
  /\ version' = version + 1
  /\ doState' = [doState EXCEPT ![key] = record]
  /\ kvState' = [kvState EXCEPT ![key] = record]

SubstrateLane ==
  LET m == work.msg
      reads == m.type = "substrate" /\ m.read IN
  /\ Starts("substrate")
  /\ \/ reads /\ Completes("substrate", {"substrate.read"}) /\ UNCHANGED <<version, doState, kvState>>
     \/ ~reads /\ Completes("substrate", {"substrate.write"}) /\ Write(m.key, m.value)
  /\ UNCHANGED <<sequence, trajectory, universe>>

GovernanceLane ==
  /\ Starts("governance")
  /\ Completes("governance", {"governance.inspect"})
  /\ UNCHANGED <<sequence, trajectory, version, doState, kvState, universe>>

-----------------------------------------------------------------------------
(* TECPipeline.execute.                                                    *)

UniverseOperation(m) ==
  IF m.type = "universe.tick" /\ m.badChanges THEN "universe.badTick" ELSE m.type

\* What the orchestration lane makes of the payload.
TaskOf(m) ==
  IF m.type \in UniverseTypes
  THEN <<[operation |-> UniverseOperation(m), key |-> None, value |-> None]>> ELSE m.task

Orchestration ==
  /\ Starts("orchestration")
  /\ \/ /\ Len(TaskOf(work.msg)) > MaxSteps
        /\ Answer("INVARIANT_VIOLATION")
     \/ /\ Len(TaskOf(work.msg)) <= MaxSteps
        /\ work' = [work EXCEPT !.stage = "tec", !.task = TaskOf(work.msg)]
  /\ UNCHANGED kernel

Performed(did) == work' = [work EXCEPT !.task = Tail(@), !.did = @ \union did]

ActionDone(operation, did) ==
  /\ Busy("tec") /\ work.task # <<>>
  /\ Head(work.task).operation = operation
  /\ Performed(did)

Ticked == [started |-> TRUE, tick |-> universe.tick + 1]

TaskStep ==
  LET key == Head(work.task).key IN
  /\ \/ /\ ActionDone("universe.start", {"universe.start"})
        /\ universe' = [universe EXCEPT !.started = TRUE]
        /\ UNCHANGED <<version, doState, kvState>>
     \/ /\ ActionDone("universe.tick", {"universe.tick"})
        /\ universe' = Ticked
        /\ UNCHANGED <<version, doState, kvState>>
     \/ /\ ActionDone("substrate.write", {"substrate.write"})
        /\ key # None
        /\ Write(key, Head(work.task).value)
        /\ UNCHANGED universe
     \/ /\ \/ ActionDone("substrate.read", {"substrate.read"})
           \/ ActionDone("noop", {})
           \/ \E o \in {"universe.state", "universe.umbrella"} : ActionDone(o, {"universe.read"})
        /\ UNCHANGED <<version, doState, kvState, universe>>
  /\ UNCHANGED <<sequence, lastSequence, trajectory>>

\* Mutant: an action that raises is skipped.
TaskFailureSkipped ==
  /\ Busy("tec") /\ work.task # <<>>
  /\ LET action == Head(work.task) IN
     \/ action.operation \in {"malformed", "substrate.other", "universe.badTick"}
     \/ action.operation = "substrate.write" /\ action.key = None
  /\ Performed({})
  /\ UNCHANGED kernel

\* An action that raises.  A tick with malformed changes has ticked by then.
TaskFails ==
  /\ Busy("tec") /\ work.task # <<>>
  /\ LET action == Head(work.task) IN
     \/ /\ \/ action.operation \in {"malformed", "substrate.other"}
           \/ action.operation = "substrate.write" /\ action.key = None
        /\ Answer("INVALID_MESSAGE")
        /\ UNCHANGED universe
     \/ /\ action.operation = "universe.badTick"
        /\ universe' = Ticked
        /\ work' = [work EXCEPT !.stage = "idle", !.answer = "KERNEL_ERROR",
                                !.did = @ \union {"universe.tick"}]
  /\ UNCHANGED <<sequence, lastSequence, trajectory, version, doState, kvState>>

\* The action of the orchestration lane; a universe message has one of its own.
LaneItself(m) == IF m.type \in UniverseTypes THEN {} ELSE {"orchestration.execute"}

TaskDone ==
  /\ Busy("tec") /\ work.task = <<>>
  /\ Completes("orchestration", LaneItself(work.msg))
  /\ UNCHANGED <<sequence, trajectory, version, doState, kvState, universe>>

-----------------------------------------------------------------------------
(* _validate_runtime_invariants and the answer.                            *)

\* The != of Python.
Differ(v, w) == v # w \/ v = NaN

\* is_consistent
SubstrateConsistent ==
  \A k \in Keys :
    doState[k] # None /\ kvState[k] # None =>
      /\ kvState[k].version <= doState[k].version
      /\ kvState[k].version = doState[k].version => ~Differ(kvState[k].value, doState[k].value)

\* kv_eventually_consistent; == finds a record that is the same object equal, whatever
\* its value.
KvCurrent == \A k \in Keys : doState[k] # None => kvState[k] = doState[k]

RuntimeInvariants == TrajectoryValid(trajectory) /\ SubstrateConsistent /\ KvCurrent

Finish ==
  /\ Busy("lanes") /\ work.lanes = <<>>
  /\ Answer(IF RuntimeInvariants THEN "ok" ELSE "INVARIANT_VIOLATION")
  /\ UNCHANGED kernel

Handle ==
  \/ Reject \/ Escapes \/ Accept \/ Refused
  \/ Cognitive \/ SubstrateLane \/ GovernanceLane
  \/ Orchestration \/ TaskStep \/ TaskFails \/ TaskDone
  \/ Finish

Next == Handle \/ \E m \in Messages : Receive(m)

Spec == Init /\ [][Next]_vars

\* The kernel is a program: it takes its next step.
Fairness == WF_vars(Handle)

-----------------------------------------------------------------------------
(* Properties.                                                             *)

Records == [value: Values \union {None}, version: Nat]

Work ==
  [msg: Messages \union {None}, stage: {"idle", "received", "lanes", "tec"},
   lanes: Seq(Lanes), task: Seq(Action), seq: Nat, laneResults: SUBSET Lanes,
   answer: Outcomes \union {None}, did: SUBSET OperatorActions]

\* The state is well-formed; in particular the trajectory never outgrows its bound,
\* its states count their observations, and the message in hand has the last sequence.
TypeOK ==
  /\ sequence \in Nat /\ version \in Nat
  /\ lastSequence \in [Lanes -> Nat]
  /\ Len(trajectory) \in 1 .. MaxStates
  /\ \A i \in 1 .. Len(trajectory) : trajectory[i].observations = i - 1
  /\ doState \in [Keys -> Records \union {None}]
  /\ kvState \in [Keys -> Records \union {None}]
  /\ universe \in [started: BOOLEAN, tick: Nat]
  /\ work \in Work
  /\ work.stage \in {"lanes", "tec"} => work.seq = sequence

\* "message ordering violation" is never raised: whatever earlier messages left
\* undone, every lane sees the sequence of an accepted message as new.
OrderingHolds == Busy("lanes") /\ work.lanes # <<>> => InOrder(Head(work.lanes))

Poisoned == \E k \in Keys : doState[k] # None /\ doState[k].value = NaN

\* At every step of every message, the failing ones included, the trajectory is valid
\* and every replica is current, and the substrate is consistent exactly as long as
\* no key holds NaN.  So the check at the end fails for nothing but a NaN that some
\* message has left, and then it fails for every message, whatever it is about, until
\* that key is written again.
OnlyNaNBreaksInvariants ==
  /\ TrajectoryValid(trajectory)
  /\ KvCurrent
  /\ SubstrateConsistent <=> ~Poisoned

\* Whatever a message makes the kernel do, in a lane or inside a TEC task whose
\* actions the router never sees, governance allows to the message's identity.
EffectsAuthorized == \A a \in work.did : work.msg.roles # None /\ Authorized(work.msg, a)

\* The actions governance knows in an operation of a task ...
Governed(operation) ==
  IF operation \in {"universe.state", "universe.umbrella"} THEN {"universe.read"}
  ELSE {operation} \intersect OperatorActions

\* ... in a lane of a message, and in the whole message.
AskedOf(m, lane) ==
  IF lane = "orchestration"
  THEN LaneItself(m) \union UNION {Governed(TaskOf(m)[i].operation) : i \in 1 .. Len(TaskOf(m))}
  ELSE IF lane = "substrate" /\ m.type = "substrate" /\ m.read THEN {"substrate.read"}
  ELSE {LaneAction[lane]}

Asked(m) == UNION {AskedOf(m, lane) : lane \in RouteLanes(m.type)}

\* The operations that always raise.
Raises == {"malformed", "substrate.other", "universe.badTick"}

\* A message answered ok ran every lane of its route and every action of its task:
\* no failure in between is swallowed.
OkMeansEverything ==
  work.answer = "ok" =>
    /\ work.laneResults = RouteLanes(work.msg.type)
    /\ work.did = Asked(work.msg)
    /\ "orchestration" \in work.laneResults =>
         \A i \in 1 .. Len(TaskOf(work.msg)) : TaskOf(work.msg)[i].operation \notin Raises

\* Every message whose envelope is an object is processed or explicitly rejected; a
\* call with another one ends too.
EveryMessageAnswered ==
  ~Busy("idle") ~>
    /\ Busy("idle") /\ work.msg # None
    /\ \/ work.answer \in Codes
       \/ work.answer = "exception" /\ work.msg.form = "noObject"

\* "No Message Loss": a call that is over has answered, whatever envelope it was given.
NoMessageLoss == Busy("idle") /\ work.msg # None => work.answer \in Codes

\* An introspection message of a registered identity reaches the introspection layer.
IntrospectionDispatched ==
  work.msg # None /\ work.answer # None =>
    ~(work.msg.type = "introspection" /\ work.msg.form = "complete" /\ work.msg.roles # None
        /\ work.answer = "INVALID_MESSAGE")
==============================================================================
