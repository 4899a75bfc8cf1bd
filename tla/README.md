# Verification of planetary-max

TLA+ models of the program in this repository, the TLC configurations that check
them on small instances, and proofs, checked by TLAPS, of what holds for every
size of instance.

## The system

A worker (TypeScript, `src/maxos`, called MAX-OS-1 below) accepts envelopes,
enforces identity and governance, takes each envelope through a session and a lane
over durable state, and forwards the result to a kernel (Python, `kernel/`) that
routes it through lanes of its own.

| Component | Code | State it keeps | Operations | Interacts by |
|---|---|---|---|---|
| State substrate, R2 repository | `src/maxos/state` | one object per key: version, value, applied transition ids | read, transition, delete | conditional puts on R2; every operation inside retry and timeout |
| Retries, timeouts | `src/maxos/resilience` | attempt counter, timer | retry, withTimeout | wrap substrate and kernel calls |
| Session orchestrator | `src/maxos/session` | session model: owner, reservation token, lease | create, resume, reserve, renew, release, complete | substrate transitions; calls the router |
| SIM and TEC lanes, router | `src/maxos/sim`, `tec`, `routing` | lane model: steps or executions | maintain state, produce output | substrate transitions; `beforeCommit` callback into the orchestrator |
| Enforcement, identity, governance | `src/maxos/middleware`, `identity`, `governance` | none | parse, validate, attach metadata | before orchestration |
| Kernel client, circuit breaker | `src/maxos/resilience` | circuit state, failures, openedAt | fetch, execute | one circuit per service, shared by concurrent requests; HTTP to the kernel |
| Python kernel | `kernel`, `routing`, `governance`, `identity` | router sequence, last sequence per lane | handle_message, route, schedule | single-threaded HTTP adapter; direct calls |
| SIM trajectory, substrate model, TEC pipeline, universe | `cognitive/{core,state,trajectory}.py`, `substrate/state_model.py`, `tec/pipelines.py`, `maxos_bridge` | states so far; DO and KV records; universe tick | step/append, write/read, execute, start/tick | called by the scheduler's lanes |
| Scheduler queues, message queue | `kernel/scheduler.py`, `messaging/queue.py` | bounded FIFOs, counters | submit, cycle; enqueue, process_all | handlers as callbacks |
| Rebuild 3: state history | `cognitive/sim_state.py` | snapshots, index | initialize, update, rewind, forward | none |
| Rebuild 3: reasoning | `cognitive/sim_trajectory.py` | tree of steps, path, current step | record, begin, complete, backtrack, explain | callers name steps |
| Rebuild 3: knowledge, inference | `cognitive/sim_core.py`, `inference/{unification,caching}.py` | facts, rules; ordered cache with expiry | assert, retract, register, query; get, set, clear | none |
| Rebuild 3: pipeline and flow | `tec/{pipeline,handlers}.py`, `integration/end_to_end.py` | plans with their status, the context that handlers share | submit, execute (again), process_request | stage handlers as callbacks; persists in the substrate |
| Rebuild 3: rollback | `tec/rollback.py` | undo stack | record, rollback, clear | undo functions as callbacks |
| Rebuild 3: durable substrate | `substrate/{state,sync,recovery}.py` | objects, KV store, log, recovery points | write, log, sync, recover | used by the flow |
| Planetary worker | `src/*.ts` | none (lanes are stubs) | HTTP routes | – |

What is hard: requests of one session run in different workers and share only the
durable state, reading and writing it at separate awaits; a substrate call whose
timer fired goes on and may write later; workers die at any await while holding a
lease; envelopes are redelivered; the circuit breaker settles calls in a state that
did not admit them; the kernel runs the lanes of a message one by one, rolls nothing
back, and may run out of time after any of them.

What makes each part correct:

* substrate – no lost update, no transition applied twice, a success is durable, a
  refusal is final;
* orchestrator and lanes – a running reservation is never taken from its owner,
  lanes commit under it, an envelope counts once however often it is delivered, the
  session never claims what the lane did not do, and it recovers from every crash;
* circuit breaker – one probe at a time, no reopening except through a cooldown and
  a probe, never wedged;
* queues – order within a lane, no message lost uncounted or processed twice, bounded
  retries, progress of every lane;
* state history – the index always stands for the state it did before a trim, a rewind
  or a trimmed future;
* reasoning – a step is explained by steps of its own path, although names of steps
  come back;
* cache, queries – what is cached is what was set last, recent entries stay; a query
  finds all the ways in which its goal follows from the base, and no other;
* pipeline, flow – 200 means every task was executed, valid and authorized, and is
  recorded; anything else leaves no record;
* rollback, recovery – every action undone once and in reverse; a write that was logged
  last of its key is there after a recovery;
* kernel – strict order per lane, valid trajectory and current replicas after any
  failure, no effect without authorization, no success without every effect, an
  answer to every message.

## Modules

| Module | Models |
|---|---|
| `StateModels` | the stored model (version, value, applied ids) and its operators |
| `TransitionLog` | abstract specification: what the substrate promises about one key |
| `Substrate` | `applyTransition`, `executeOperation`, the R2 repository: calls, attempts, deletes |
| `SubstrateProofs` | theorems about `Substrate`, refinement of `TransitionLog` included |
| `SessionOrchestrator`, `SessionOrchestratorProofs` | requests on one session and its lane, over transitions as `TransitionLog` specifies them; theorems |
| `CircuitBreaker`, `CircuitBreakerProofs` | `CircuitBreaker.execute` with concurrent calls; theorems |
| `PortalKernel`, `PortalKernelProofs` | `Kernel.handle_message` with router, governance, scheduler lanes, TEC; theorems |
| `LaneQueues`, `LaneQueuesProofs` | `DomainLane` and `submit`, `cycle`, `run`, `stop` of `MultiDomainScheduler`; theorems |
| `MessageQueue`, `MessageQueueProofs` | `MessageQueue.enqueue` and `process_all` with retries; theorems |
| `UndoHistory` | abstract specification: a bounded history with undo and redo |
| `SimHistory` | `SIMState` over its `StateTrajectory` |
| `ReasoningSteps` | `SIMTrajectory` over its `ReasoningTree` |
| `InferenceCache` | `InferenceCache` with eviction, hits and expiry |
| `KnowledgeQuery` | `KnowledgeBase`, `Unifier.unify`, `query` |
| `DurableStore` | `SubstrateState` of Rebuild 3, transaction log, synchronization, recovery |
| `EndToEnd` | `process_request` over `ExecutionPipeline`, its handlers and `DurableStore` |
| `Rollback` | `RollbackManager` with its callbacks |
| `SimCoreProofs` | theorems about `SimHistory`, refinement of `UndoHistory` included, `ReasoningSteps` and `KnowledgeQuery` |
| `Rebuild3Proofs` | theorems about `InferenceCache`, `DurableStore`, `EndToEnd` and `Rollback` |
| `MCSubstrate`, `MCSessionOrchestrator`, `MCCircuitBreaker`, `MCPortalKernel`, `MCScheduler`, `MCKnowledge`, `MCRebuild3` | instances for TLC |

In each module an action stands for the code between two awaits (TypeScript) or
between two points that may raise (Python). Definitions keep the names of the code.
Operators introduced by "Mutant:" are plausible bugs that some property must detect;
no specification uses them.

### Substrate

One key. `object` is the R2 object: a model and its etag. A call (`Invoke`) is a
series of attempts: each attempt goes `ReadCurrent` (read, idempotence check, version
check), `GetObject` (the get of create or update), `PutLands` or `PutRefused` (the
conditional put) and, after a conflict, `RereadLatest`. `Settle` is the attempt's
answer winning the race of `withTimeout`; `AttemptFails` is the timer, or an error of
R2, winning it. Nothing stops an attempt whose timer fired, so attempts of earlier
`tries` go on taking steps: writes land late. `Retry` starts the next attempt.
`DeleteGet` and `DeletePut` are `repository.delete`.

Abstractions: a value is named by the call that wrote it; each put yields a new etag;
a request to R2 that fails is an attempt that takes no further step (or whose answer
is lost); a missing object and a tombstone both read as version 0; backoff delays are
not timed. `effects` is a history of the puts that landed since the last delete.

`TransitionLog` says what callers rely on: a log of transitions, each taking effect
atomically at the version it expects and at most once per id; answered calls got a
state the key did hold with their transition in it; refused calls never take effect;
calls answered "unavailable" may still take effect later. `ImplementsLog` maps the
log to `effects`, and running or backing-off calls to pending ones.

### SessionOrchestrator

`pc` follows one `orchestrate` per request. A substrate transition is an awaited
write: it may land (`Land`) while its version is current and its id new, its answer
is any model `Answers` allows, and the await may fail at any time (`Fails`), after
which the write may still land (`late`, `LandLate`). `Crash` ends a request at any
await. `Reserve` … `Completed`, `Released` are the methods of the same names.

Time is kept as what remains of each lease and of each awaited call, decremented by
`Tick`; the clocks of workers agree. `CallTime` is the bound on a substrate call with
its retries and `TTL` the lease. With the defaults of the code (one attempt of 5 s, a
lease of 30 s) `CallTime < TTL` and no retries (`Retries = FALSE`); `session_retry`
runs with retries and `CallTime = TTL`. A token is named by the request that draws
it. Lane memory and action counts are reduced to `steps`. Reads take no modelled time
of their own, but any number of ticks may pass between a read and what follows.

### CircuitBreaker

`Admit` and `AdmitProbe` are the synchronous start of `execute`, `Succeed` and `Fail`
its settling. `cooling` is what remains of the cooldown, `due` the bound on each
running operation. `failures` is counted up to the threshold, beyond which no
comparison tells counts apart. Rejected calls change nothing and are not actions.
The run is about operations shorter than the cooldown (as with the fixtures' three
attempts of 5 s and a 30 s cooldown). With longer ones the success of an old probe may
close a circuit that opened again after it, so `ProbeRunsAlone` and
`ClosesThroughHalfOpen` hold, and are proved, under `CallTime < Cooldown` only; that a
half-open circuit is never wedged (`HalfOpenIsProbed`) is proved without it.

### PortalKernel

`Receive`, then `Reject` or `Accept` (`Router.route`), the lanes one by one
(`Cognitive`, `Orchestration` with `TaskStep`, `TaskFails`, `TaskDone`,
`SubstrateLane`, `GovernanceLane`), then `Finish` with the runtime invariants. The
adapter is single-threaded, so one message is in hand at a time; `Refused` may end
it at every check of the clock, and nothing is rolled back. A digest is represented
by the state it covers (hashes do not collide). An envelope is reduced to what the
kernel looks at; the payload's task is a sequence of operations.

An envelope that is no object (`form = "noObject"`) ends its call in an exception
(`Escapes`): `_validate_envelope` raises, and then the except clause does, when it asks the
envelope for its id (`boot.py:158`). The HTTP adapter never passes one on, `handle_message`
and the command line do. So `EveryMessageAnswered` promises an answer to objects only, and
`NoMessageLoss`, which is what `README.md:74` promises, is violated.

A value is `NaN` or equal to itself, which is all that the kernel asks of one: `Differ` is
the `!=` of `state_model.py:55`. A record that holds NaN differs from its own replica, and
from then on every message is answered INVARIANT_VIOLATION until its key is written again.
`OnlyNaNBreaksInvariants` says that nothing else breaks the runtime invariants. (NaN inside
a list or a dict is compared by identity first, and is a value like any other.)

### LaneQueues and MessageQueue

Both queues call handlers, and handlers may use the queue while they run; so a call
is two steps, from `Take` or `Dequeue` to `Handled`, `HandlerFails` or `Raises`, and
`Submit`, `RegisterHandler`, `Stop` and `Enqueue` happen between cycles or while a
handler runs (`hand`), never elsewhere. A handler that calls `cycle` or `process_all`
itself is left out.

In `LaneQueues`, `at` is the lane the `for` loop of `cycle` is at; `DropStale` is one
turn of the `while` of `dequeue`. `left` and `budget` are what remains until a message
is stale and until the cycle is over its budget; ticks may fall at any point of a
cycle. `submits` and `accepted` are histories.

In `MessageQueue`, a message carries its retries, so what `enqueue` and the retry do
to it is kept per message; each message is enqueued once. `calls`, `succeeded`,
`accepted` and `pushed` are histories. A message without a handler is dequeued and
forgotten, uncounted, as the code does, which is not what `kernel/invariants.py`
asks of the kernel ("No message may disappear silently"), and a retried message goes
behind later ones, so that order is only promised for first calls.

`MCScheduler` runs `PortalKernel` and `LaneQueues` side by side. `schedule` and the queued
lanes are methods of one class but share no state, so the run explores one side at a time
(`side`, chosen in the initial state), and what holds of each holds of any interleaving.
`MessageQueue` is one of the libraries that `MCRebuild3` runs.

### SimHistory

A snapshot is a version and its data; updates are functions on data, so that merging is
what it does to the states at hand. `Push` is `StateTrajectory.push` with its two trims:
of the future, when the trajectory was rewound, and of the oldest snapshot at the bound,
where the index stays. `Initialize` may be called again, and is not validated, as in
the code; its `initialized` flag is read by nothing else and left out. Versions do
not identify states: a TODO at `sim_state.py:134` wants them monotonic, but a push
takes the length of the trajectory (`sim_state.py:83`), which a trim or a rewind brings
down again, so versions are not part of any property. `UndoHistory` is what remains: the
states done, the states undone, and that only the newest `Limit` are kept.

### ReasoningSteps

`record_*` name a step by its type and the length of the path, so a step after a
backtrack may take the name of one that was cut; `complete_step` and the tree go by
name. `BeginChild` is a caller of `begin_step` that places a step under any step of the
path. Children are a set, since only membership is read; root ids, which
nothing reads, are left out. The run covers callers that name steps as the code does;
a caller that chose a name already on the path would make a cycle.

### InferenceCache

The cache is a sequence, as `OrderedDict` orders it. Ages are ticks left; an entry whose
age equals its lifetime is still served, as in the code. Query keys do not collide. Hit
and miss counters, which decide nothing, are left out. `lastSet` and `touched` are
histories. `set` at capacity evicts before it looks whether the query is cached, so
overwriting one entry evicts another; this is why `RecentAreCached` promises the
`MaxSize - 1` latest queries only. It counts insertions and hits as uses. Overwriting an
entry leaves it in its place, so it may be evicted next, before entries used earlier: the
property is weaker there than the "LRU cache" of the docstring (`caching.py:33`).

### KnowledgeQuery

Terms are atoms, variables, lists and dicts. A term is the set of its nodes, each with
its place (the path from the root) and its label, so that subterms, variables and
substitution are set expressions. `Apply` does not follow a binding twice, as
`Substitution.apply` does not. The calls that `unify` makes of itself become a list of
pairs still to unify: `UnifyPair` is what one call does with the first pair, and puts the
pairs of the children in front of the others, which is the order of the code's loops with
the bindings each iteration hands to the next. `Unify` follows at most `MaxPairs` calls.
A call takes one more place of the fact, so no unification with a fact of `MaxPairs` or
fewer nodes and no variables is cut off (`UnifyExact` proves it). The run allows 10, and
its largest facts have 6 nodes, which leaves room for those with variables.

A rule has its conditions, which are facts. `_prove_conditions` gives `query` the `Fact`
itself, and what `query` unifies goals with are dicts (`QueryCondition`, `Object`), so no
condition is ever proved, and a rule with conditions never contributes a solution. This is
not what the docstrings say: that `query` "returns all substitutions that satisfy the goal"
(`unification.py:158`), and that conditions are proved (`unification.py:198-199`).
`QueryFindsAll` states it, over bases without variables, and is violated: `Follows` is
what rules conclude from the facts.

`AnswersExact` is what the code does do. Of the facts and of the conclusions of rules
without conditions, those that have no variables give exactly the ways to bind the goal's
variables that make the goal equal to them (`Solutions`); those with variables give what
`unify` finds; rules with conditions give nothing. With variables on both sides the code is
looser than unification: `unify(["?X","?Y","?X"], ["?Y","a","b"])` succeeds although no
terms fit, and the variables of facts and rules are not renamed apart. Nothing says what a
fact with variables means, so no property covers that.

### DurableStore and EndToEnd

`DurableStore` is the substrate with its log. A client logs a write and then puts it
(`LogWrite`, `WriteReplicated`), so a crash may fall between. The log and the recovery
point are assumed to survive a crash, which is what they are for; the classes
themselves keep them in memory. The snapshot of a recovery point is a stub, so only what
was logged since the point comes back. Replay skips deletes: `sync.py:165-166` leaves them
to do, under a docstring that says "Replay transactions to recover state". So a key whose
last entry is a delete keeps its value, or gets an older one back; `StoreFollowsLog` asks
only for keys whose last entry since the point is a write, and would still hold if deletes
were replayed.
`sync_do_to_kv`, `verify_coherence` and `repair_coherence` raise (they read an attribute
that `SubstrateState` does not have) and change nothing. Versions and timestamps are
written and never compared.

`EndToEnd` extends it with one request at a time, from `ProcessRequest` through the
handlers of each stage to `Finish`. A stage's handlers are the registered ones
(`Pipelines`); `PlanHandler` … `VerifyHandler` are those of `handlers.py`, "identify" is
one that puts an identity into the context, which none of theirs does, and "custom" is
any other, which may return either way or raise. FAILED and ROLLED_BACK follow each
other without a step between them. `ExecuteAgain` runs a plan submitted before.
`AnswerTellsOutcome` speaks of authorization only where its handler is the last to see
to the identity (`ChecksLast`): one registered behind it may put another identity into
the context, and the answer does not tell. The run has such a pipeline.

### Rollback

An action leaves the stack before its callback runs (`PopUndo`), and until `UndoEnds`
the callback may record, clear or roll back itself: `rollbacks` is the stack of calls.
The docstring of `rollback` offers `to_point` (`rollback.py:42`), which the code
ignores: everything is rolled back.

### MCRebuild3

The libraries share no state except `EndToEnd` and `DurableStore`, which are one of
them. So the run explores them one by one, which one being chosen in the initial state
(`library`); what holds of each holds of any interleaving.

## Runs

| Run | Shows | Bounds and why they are enough |
|---|---|---|
| `substrate` | safety and refinement | three calls of two attempts, two of them deliveries of one transition: a retry, a redelivery and a competitor at once |
| `substrate_delete` | deletes are fenced, no transition counts twice, every call is answered | two deliveries of two attempts each, two deletes: versions start again under a delivery that is waiting |
| `session` | exactly-once lanes, durable success, reservations, lease at commit | two deliveries of the creating envelope and a second envelope; `TTL` 2, `CallTime` 1, so that leases expire under every await |
| `session_live` | one identity per session, the session recovers, requests end | three envelopes: one that creates the session, one for a lane without state, one of another identity |
| `circuit` | probes run alone, no bad close, never wedged, probes settle | three callers, threshold 2, operations shorter than the cooldown, so that a reopened circuit meets late calls |
| `kernel` | kernel: order, runtime invariants, authorization, answers; queued lanes: counting, order, drained lanes | eighteen kinds of envelope, three accepted messages (`MaxSequence`), trajectory bound 3, three steps: a full trajectory, a task too long, a half-done ecosystem step, a NaN and an envelope that is no object all occur; two lanes of two places, three submits to each: full lanes, stale messages and cycles broken off after the first lane |
| `rebuild3` | undo history, explanations, cache, query answers, answers of the flow, recovery, rollback, message queue | a history of three over three states; paths of four steps of one type, so that every name comes back; four queries in a cache of three; two facts, a rule with up to two conditions and 37 goals; two plans over six pipelines; three log entries; four actions and three nested rollbacks; four messages with 0 to 3 retries in a queue of two, so that handlers fill it under a retry |

Runs that end in a violation show where the code does not do what a test or a
docstring of the repository says:

* `session_fence` – a lane commit may land after the reservation expired: the renewal
  checks the lease, the write that follows checks only the lane's version
  (`tests/maxos/orchestrator.test.ts:256` "fences lane commits after the session
  reservation expires").
* `session_retry` – with substrate retries, a renewal may return the reservation of
  the request that took the session over, because its result is not compared with the
  token as `reserveSession` does (`tests/maxos/orchestrator.test.ts:218`).
* `kernel_introspection` – `Router.route` rejects `introspection.*` before
  `handle_message` dispatches it (`kernel/introspection_dispatch.py:1`).
* `kernel_no_object` – a call with an envelope that is no object ends in an exception that
  the except clause itself raises, without an answer ("Every message is processed or
  explicitly rejected", `README.md:74`).
* `knowledge_conditions` – what a rule concludes from a known fact is not found, because no
  condition is ever proved ("Returns all substitutions that satisfy the goal",
  `inference/unification.py:158`).

## Fairness

* `Substrate` – timers fire and sleeps end (`AttemptFails`, `Retry`); R2 owes nothing.
* `SessionOrchestrator` – clocks advance, and every await of a live request ends
  (`Proceed` or `Fails`), which `withTimeout` sees to. A crash needs no fairness.
* `CircuitBreaker` – clocks advance, and operations settle (timeouts, bounded retries).
* `LaneQueues` – a cycle that has begun goes on and handlers end; the loop of `run`
  begins the next cycle. Clocks owe nothing. Submissions are finite (`MaxSubmits`),
  which `LanesDrain` needs: behind a lane that never empties, whose handler outlasts
  every cycle, later lanes starve.
* `MessageQueue` – `process_all` goes on and handlers end.
* `PortalKernel` – a program that has a step to take takes it; messages need not come.

## Proofs

No invariant and no action property of a run that passes is left to TLC alone.

`SubstrateProofs` – for any numbers of calls, ids and attempts:

* `TypeCorrect` and `NeverAppliedTwice` with any deleters. `AppliedOnce` is not
  inductive: an attempt between its read and its put carries the model it will extend.
  `OnceInv` adds that this model's version counts its ids, that they are distinct and
  that the attempt's own id is not among them.
* Without deleters, `NoLostUpdate`, `AcknowledgedIsDurable`, `RefusalIsFinal` and
  `Refinement` from one invariant, `LogInv`: the object is `StateAfter(effects)`;
  whatever an attempt has in hand is the state after some prefix of `effects`; an
  attempt about to put holds an etag that, if still current, belongs to the version it
  read; an attempt that ended "ok" or "conflict" did so for a reason that stays true
  (`Consistent`), and so did a call (`Answered`). The log only grows and versions only
  rise, so these facts survive the steps of others. Every step of `Substrate` maps to
  a step of `TransitionLog` or to a stutter: `PutLands` to `Apply`, `Settle` to an
  answer, `AttemptFails` at the last attempt to `AnswerUnavailable`.
* `DeletesAreFenced` with any deleters, from `Fence`: etags are never used again, so the
  state a delete read is there as long as the etag it holds is current.

`SessionOrchestratorProofs` – for any requests, envelopes, lanes, identities and times:

* With or without retries, `TypeCorrect`, `EnvelopesCountOnce`, `CommitBeforeRouted`,
  `SuccessStaysDurable` and `IdentityKept` from `KnowledgeInv`. A request acts on what
  it read, and writes land after their calls timed out, so the invariant is about what
  is known and what is pending: a model in a request's hands is the durable one or an
  older one; every pending write, abandoned ones included, extends a model the durable
  one has been, so it lands only on that; nothing it carries runs ahead of the lane.
* Without retries, `OwnReservation` and `ReservationKept` from `ReservationInv`: a write
  that could end or replace the current reservation is its holder's, and a renewal found
  applied was applied by the call that finds it. With retries an earlier attempt may have
  applied it and another request taken over since, which is the run `session_retry`.
* With `CallTime < TTL` besides, `CommitUnderLease` from `RenewalInv`: a renewal that has
  landed leaves more of the lease than of its call. Both hypotheses are the code's
  defaults: one attempt of 5 s, a lease of 30 s.

`CircuitBreakerProofs` – for any numbers of callers and any threshold: `TypeCorrect`;
`NeverWedged`, since a half-open circuit has a probe in flight; and, assuming
`CallTime < Cooldown`, `ProbesRunAlone` and `ReopensSafely`. Their invariant,
`DrainsBeforeProbe`, says that while the circuit is open every running call is due
before the cooldown is over, so none is left when a probe is admitted.

`PortalKernelProofs` – for every set of envelopes, keys and values, NaN included, and
every bound:
`TypeCorrect`, `OrderHolds` and `RuntimeSoundButForNaN` from `KernelInv`. Neither order nor
the runtime invariants are inductive by themselves: `WorkInv` adds that the lanes
still to run are distinct lanes of the route none of which has seen the message's
sequence, and that no lane is ahead of the router; `StoreInv`, that every record is its
own replica, so that only a value that differs from itself can tell them apart. `EffectsAreAuthorized` adds that the rest of a task is authorized too,
which rests on the policy: whoever may run tasks may do all a task can
(`TaskRunnersMayAll`). `OkIsComplete` adds an account of what the completed lanes and
the first actions of a task have done (`DoneInv`). The assumption is that `None` is no
answer.

`LaneQueuesProofs` – for any lanes, sizes, times and messages: `TypeCorrect`;
`MessagesCounted`, inductive with the types alone, by what each action does to the
counters and to the length of one queue (`PopLength`, `AppendType`, `OneMoreCount`);
and `OrderKept`, by the lemmas that a queue which is a suffix of the history of its
lane stays one when a message is appended to both (`AppendSuffix`) and when its head
is taken (`TailSuffix`).

`MessageQueueProofs` – for any messages, retries and size: `TypeCorrect`, and every
safety property of the run. `EachProcessedOnce` needs `PlaceInv`: what is queued, in
hand or done was accepted, so a new message is in no second place, and the three are
apart. `CallsStayBounded` needs `CallInv`, which accounts for each call as returned,
running or counted as a retry, and keeps whatever may still be called one retry below
its bound. `RetryOnlyLostToHandler` needs `RoomInv`: a message in hand leaves a place
until its handler takes it. `FirstCallsOrdered` needs `OrderInv`: messages not called
yet stand in the queue in the order they were accepted in, whatever retries stand
between them; so whoever is first called has nobody uncalled before it.

`SimCoreProofs` – for any data, deltas, invariants, paths, terms and bounds:

* `TypeCorrect`, and `Refinement` of `UndoHistory`. `Halves` describes the two halves of
  the trajectory element by element; each action maps to one of the undo history
  (`PushDoes`, `RewindUndoes`, `ForwardRedoes`), which takes the index through both trims.
* `ExplanationsStayTrue` from `StepsInv`: parents are less deep than their children, in
  what is left of earlier paths too (`Downward`), so walks up and down the tree end; and
  each step of the path stands at the place its name says, with its parent before it
  (`OnItsPlace`), which is why a name that comes back names nothing else on the path.
* `QueriesAnswerExactly`: for every base whose facts and conclusions fit into `MaxPairs`, and
  every goal, a query returns exactly the bindings under which the goal is a fact without
  variables, or such a conclusion of a rule without conditions, and for those with
  variables what `unify` finds. Rules with conditions add nothing: no dict unifies with a
  fact itself (`ObjectFails`), so the first condition already fails (`ConditionsFail`).
  `KBInv` says that the base holds terms of the model; the rest is about `unify`. `Pending` is the invariant of its calls:
  each pair left compares a part of the goal with what is at a place of the fact, and no
  two of these parts of the fact overlap; the solutions are the ways to bind the goal's
  variables that agree with the bindings so far and make every pair equal; every variable
  is bound or still ahead; and the fact has at least as many nodes not yet compared as calls
  may come. A call ends in one of four turns: equal terms (`EqualTurn`), a variable, which the
  occurs check never stops, since the other side is ground (`VarTurn`), children
  (`ChildrenTurn`), or failure, when no binding is a solution (`FailTurn`). `Course` and
  `RunExists` follow the calls, `UnifyExact` ends them. Below it stands a small theory of
  terms: a subterm is a term (`SubtermIsTerm`), applying ground bindings gives a term
  (`ImageIsTerm`), does nothing the second time (`ApplyTwice`) and commutes with taking
  children (`ApplyChild`).

`Rebuild3Proofs` – for any values, keys, pipelines and bounds:

* `RollbackReverses` from `UndoInv`: the stack is in the order of recording, an action is
  on it, cleared or undone, and whatever stands on the stack was recorded after any older
  action that is gone.
* `AnswersHold` from `FlowInv`, which says for each stage what the handlers that ran have
  left in the context. This proof is what showed that authorization has to be the last
  check of the identity.
* `RecentStayCached` from `CacheInv`: the order of the cache is the order in which its
  queries were last touched, so an entry at the front of a full cache has `MaxSize - 1`
  entries behind it that were touched later (`RisingBound`), and may be evicted.
* `RecoveryHolds` from `StoreInv`: what is being written is the last entry of the log, and
  a store that is not crashed agrees with the last logged write of each key, whether or not
  a delete was logged after it. `Replay` is a
  recursive function; `ReplayFacts` says what it computes.

The library's induction theorems cannot be instantiated here, so what a recursive function
over a bounded range of numbers computes is shown with `SetInduction`, induction for a set
of numbers, which follows from the well-foundedness of `<` without any operator parameter.

`AcknowledgedIsDurable` is proved only: no run repeats it, since `ImplementsLog`
implies it.

Only model-checked: the liveness properties (`CallsAreAnswered`, `SessionRecovers`,
`RequestsEnd`, `ProbeSettles`, `EveryMessageAnswered`, `LanesDrain`,
`ProcessAllReturns`), which are out of the prover's reach.

## Not modelled

* Enforcement middleware, route precedence, stable JSON, observability: data
  conversion and validation without state (the first two are planned).
* D1, KV and in-memory repositories: `createDurableSubstrate` uses R2.
* A delete followed by a re-creation at the version a writer had read: no caller
  deletes.
* In the kernel, the boot, which every message finds done.
* Replay of logged deletes, which the code leaves to do.
* Kernel restarts: its state is in memory and starts over.
* `SchedulerCoordinator.check_deadlock`, which only reads, and the HTTP parsing of
  `messaging/http_handler.py`.
* Of Rebuild 3: SIM compute (its executors return constants); chaining, which starts
  from an empty queue or never matches; confidence, which is floating-point arithmetic;
  the semantic cache, whose look-up is a stub; `VariableBinder` and
  `Substitution.compose`, which nothing calls; `CheckpointManager`, a dictionary of
  copies; agents, whose tasks cannot fail and which nothing dispatches to.
* The kernel's invariant checker, whose thirteen checks return true, and the policy
  engine, which has no caller.
* The planetary worker: its lanes are stubs and it keeps no state.

## Plan

1. `KernelDelivery`: KernelClient's retries and timeouts composed with
   `PortalKernel`; how often a message takes effect when its answer is late or an
   HTTP 500, with kernel restarts.
2. Proofs: that `SessionOrchestrator`'s awaited writes are steps of `TransitionLog`, which
   joins its theorems to those about `Substrate`.
3. Enforcement and route selection as operators over bounded envelopes.
