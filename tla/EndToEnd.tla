-------------------------------- MODULE EndToEnd --------------------------------
(***************************************************************************)
(* EndToEndMessageFlow.process_request (integration/end_to_end.py): one    *)
(* request at a time goes through SIMCore.reason, a plan of the execution  *)
(* pipeline (tec/pipeline.py) with its stage handlers (tec/handlers.py) and *)
(* the substrate.  Plans can also be executed again by their id.           *)
(***************************************************************************)
EXTENDS DurableStore

CONSTANTS
  Requests,    \* [goal : BOOLEAN, actions : "none", "good" or "bad"]
  Identities,  \* the ids a custom handler may put into the context
  Pipelines,   \* what may be registered: from stages to sequences of handlers
  MaxPlans     \* bound of the model: plans submitted

\* "good" actions all have an action and a target, some of the "bad" ones do not.
ASSUME RequestsType == Requests \subseteq [goal : BOOLEAN, actions : {"none", "good", "bad"}]
ASSUME PlansAreKeys == MaxPlans \in Nat /\ 1 .. MaxPlans \subseteq StoreKeys

Stages == <<"plan", "validate", "authorize", "execute", "verify">>

\* The handlers of handlers.py, one that finds out the identity, and any other,
\* which may return true or false or raise.
Handlers == {"standard", "identify", "custom"}

ASSUME PipelinesType == Pipelines \subseteq [Range(Stages) -> Seq(Handlers)]

VARIABLES
  pipeline,    \* the handlers registered
  identities,  \* IdentityResolver.identities, all of them verified
  executions,  \* ExecutionPipeline.executions: request and status of each plan,
               \* and (history) the HTTP status its request was answered with
  work         \* the flow in hand, or the last one

flowVars == <<pipeline, identities, executions, work>>
aside == <<kv_store, log, point, writing, crashed>>

\* tasks, identity and results are what the handlers share in the context.
NoWork ==
  [stage |-> 0, handler |-> 1, plan |-> 0, persists |-> FALSE, tasks |-> "none",
   identity |-> None, results |-> "none"]

FlowInit ==
  /\ StoreInit
  /\ pipeline \in Pipelines
  /\ identities = {}
  /\ executions = << >>
  /\ work = NoWork

Idle == work.stage = 0

CreateIdentity(id) ==
  /\ Idle
  /\ identities' = identities \union {id}
  /\ UNCHANGED <<pipeline, executions, work, do_store, aside>>

\* Stage n of a plan begins: execute_plan, one turn of its for loop.
Enter(n, w) == work' = [w EXCEPT !.stage = n, !.handler = 1]

\* process_request, up to the first handler: no goal is an error, reasoning (a
\* stub) succeeds, and the plan is submitted.
ProcessRequest(request) ==
  /\ Idle /\ Len(executions) < MaxPlans
  /\ IF request.goal
     THEN /\ executions' = Append(executions,
                                 [request |-> request, status |-> "executing", answer |-> 0])
          /\ Enter(1, [NoWork EXCEPT !.plan = Len(executions'), !.persists = TRUE])
     ELSE UNCHANGED <<work, executions>>
  /\ UNCHANGED <<pipeline, identities, do_store, aside>>

\* execute_action for a plan submitted before, whatever became of it.
ExecuteAgain(plan) ==
  /\ Idle
  /\ executions' = [executions EXCEPT ![plan].status = "executing"]
  /\ Enter(1, [NoWork EXCEPT !.plan = plan])
  /\ UNCHANGED <<pipeline, identities, do_store, aside>>

Request == executions[work.plan].request
HandlersOf(n) == pipeline[Stages[n]]
AtHandler(kind) ==
  /\ ~Idle
  /\ work.handler \in DOMAIN HandlersOf(work.stage)
  /\ HandlersOf(work.stage)[work.handler] = kind

HandlerPasses(w) ==
  /\ work' = [w EXCEPT !.handler = @ + 1]
  /\ UNCHANGED executions

\* The plan ends, and with it the request that submitted it, if this is its flow.
Ends(status, answer) ==
  /\ executions' = [executions EXCEPT ![work.plan] =
       [request |-> Request, status |-> status,
        answer |-> IF work.persists THEN answer ELSE @.answer]]
  /\ work' = [work EXCEPT !.stage = 0]

\* FAILED, and at once ROLLED_BACK; what the rollback handlers return is ignored.
HandlerFails == Ends("rolled_back", 400)

\* The standard handler of a stage returns whether it is satisfied, having made
\* the context into w.
Returns(stage, satisfied, w) ==
  /\ AtHandler("standard") /\ Stages[work.stage] = stage
  /\ IF satisfied THEN HandlerPasses(w) ELSE HandlerFails
  /\ UNCHANGED <<pipeline, identities, do_store, aside>>

PlanHandler ==
  Returns("plan", Request.actions # "none", [work EXCEPT !.tasks = Request.actions])

\* The only constraints are those of submit_plan: none.
ValidateHandler == Returns("validate", work.tasks # "bad", work)

CheckIdentity(id) == id \in identities

\* Governance is not asked.
AuthorizeHandler ==
  Returns("authorize", \E id \in Range(work.identity) : CheckIdentity(id), work)

ExecuteHandler == Returns("execute", TRUE, [work EXCEPT !.results = work.tasks])

\* The results are those of ExecuteHandler, which are all "executed".
VerifyHandler == Returns("verify", TRUE, work)

Identify(id) ==
  /\ AtHandler("identify")
  /\ HandlerPasses([work EXCEPT !.identity = <<id>>])
  /\ UNCHANGED <<pipeline, identities, do_store, aside>>

Custom ==
  /\ AtHandler("custom")
  /\ HandlerPasses(work) \/ HandlerFails
  /\ UNCHANGED <<pipeline, identities, do_store, aside>>

\* Mutant: a plan executed again is persisted again.
FinishPersists ==
  /\ ~Idle
  /\ work.handler > Len(HandlersOf(work.stage))
  /\ work.stage = Len(Stages)
  /\ Ends("success", 200)
  /\ WritePersistent(work.plan, "executed")
  /\ UNCHANGED <<pipeline, identities>>

\* All handlers of a stage returned true.
NextStage ==
  /\ ~Idle
  /\ work.handler > Len(HandlersOf(work.stage))
  /\ work.stage < Len(Stages)
  /\ Enter(work.stage + 1, work)
  /\ UNCHANGED <<pipeline, identities, executions, do_store, aside>>

\* _persistence_stage: the record of the plan, for the request that submitted it.
Persistence ==
  IF work.persists THEN WritePersistent(work.plan, "executed") ELSE UNCHANGED <<do_store, aside>>

\* After the last one the plan has succeeded; a request then persists it.
Finish ==
  /\ ~Idle
  /\ work.handler > Len(HandlersOf(work.stage))
  /\ work.stage = Len(Stages)
  /\ Ends("success", 200)
  /\ Persistence
  /\ UNCHANGED <<pipeline, identities>>

FlowNext ==
  \/ \E id \in Identities : CreateIdentity(id) \/ Identify(id)
  \/ \E request \in Requests : ProcessRequest(request)
  \/ \E plan \in DOMAIN executions : ExecuteAgain(plan)
  \/ PlanHandler \/ ValidateHandler \/ AuthorizeHandler \/ ExecuteHandler \/ VerifyHandler
  \/ Custom
  \/ NextStage
  \/ Finish

--------------------------------------------------------------------------------
(* Properties *)

Has(stage) == \E i \in DOMAIN pipeline[stage] : pipeline[stage][i] = "standard"

\* The standard handler i of "authorize" has the last word on the identity: no
\* handler after it puts another one into the context.
ChecksLast(i) ==
  /\ pipeline["authorize"][i] = "standard"
  /\ \A j \in DOMAIN pipeline["authorize"] : j > i => pipeline["authorize"][j] # "identify"
  /\ \A stage \in {"execute", "verify"} :
       \A j \in DOMAIN pipeline[stage] : pipeline[stage][j] # "identify"

Authorizes == \E i \in DOMAIN pipeline["authorize"] : ChecksLast(i)

\* The answer to a request tells its outcome.  A plan has its record in the
\* store exactly if its request was answered 200, even if it is executed again
\* with another outcome.  And 200 is answered only if the plan succeeded with
\* every one of its tasks executed, valid, and authorized for a registered
\* identity, as far as the handlers that see to it are registered and no handler
\* replaces the identity that was authorized.
AnswerTellsOutcome ==
  /\ \A plan \in DOMAIN executions :
       (executions[plan].answer = 200) = (do_store[plan] # None)
  /\ Idle /\ work.persists =>
       LET execution == executions[work.plan]
       IN /\ execution.answer = IF execution.status = "success" THEN 200 ELSE 400
          /\ execution.answer = 200 =>
               /\ Has("plan") /\ Has("execute") =>
                    work.results = Request.actions /\ work.results # "none"
               /\ Has("validate") => work.results # "bad"
               /\ Authorizes => \E id \in Range(work.identity) : CheckIdentity(id)
================================================================================
