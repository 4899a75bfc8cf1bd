------------------------------- MODULE MCRebuild3 -------------------------------
(* The libraries of Rebuild 3 share no state (EndToEnd and DurableStore do,   *)
(* and are one of them): a behaviour here is one of one of them, and what     *)
(* holds of each holds of any interleaving of them.                           *)
EXTENDS SimHistory, ReasoningSteps, InferenceCache, MCKnowledge, EndToEnd, Rollback,
        MessageQueue

CONSTANTS m0, m1, m2, m3

VARIABLE library

MCInit ==
  /\ HistoryInit /\ StepsInit /\ CacheInit /\ KBInit /\ FlowInit /\ UndoInit /\ QueueInit
  /\ library \in {"history", "steps", "cache", "knowledge", "flow", "store", "undo", "queue"}
  /\ library # "flow" => pipeline = [s \in Range(Stages) |-> <<"standard">>]

Others(vs) == UNCHANGED <<vs, library>>

MCNext ==
  \/ library = "history" /\ HistoryNext
     /\ Others(<<stepVars, cacheVars, kbVars, flowVars, storeVars, undoVars, queueVars>>)
  \/ library = "steps" /\ StepsNext
     /\ Others(<<historyVars, cacheVars, kbVars, flowVars, storeVars, undoVars, queueVars>>)
  \/ library = "cache" /\ CacheNext
     /\ Others(<<historyVars, stepVars, kbVars, flowVars, storeVars, undoVars, queueVars>>)
  \/ library = "knowledge" /\ KBNext
     /\ Others(<<historyVars, stepVars, cacheVars, flowVars, storeVars, undoVars, queueVars>>)
  \/ library = "flow" /\ FlowNext
     /\ Others(<<historyVars, stepVars, cacheVars, kbVars, undoVars, queueVars>>)
  \/ library = "store" /\ StoreNext
     /\ Others(<<historyVars, stepVars, cacheVars, kbVars, flowVars, undoVars, queueVars>>)
  \/ library = "undo" /\ UndoNext
     /\ Others(<<historyVars, stepVars, cacheVars, kbVars, flowVars, storeVars, queueVars>>)
  \/ library = "queue" /\ QueueNext
     /\ Others(<<historyVars, stepVars, cacheVars, kbVars, flowVars, storeVars, undoVars>>)

allVars ==
  <<historyVars, stepVars, cacheVars, kbVars, flowVars, storeVars, undoVars, queueVars, library>>

MCSpec == MCInit /\ [][MCNext]_allVars /\ QueueFairness

--------------------------------------------------------------------------------
\* States: two deltas, one of which may lead to a state that is not accepted.
MCData == {"a", "b", "c"}
MCDeltas == {[d \in MCData |-> "b"], [d \in MCData |-> IF d = "a" THEN "c" ELSE "a"]}
MCAccepted == {"b", "c"}

\* Four messages in a queue of two: one without a handler, one without retries, two that
\* may be called twice and three times.
MCMaxRetries == m0 :> 3 @@ m1 :> 0 @@ m2 :> 2 @@ m3 :> 3

MCRequests ==
  [goal : {TRUE}, actions : {"none", "good", "bad"}] \union {[goal |-> FALSE, actions |-> "good"]}

\* The standard handlers alone, which no request passes, since none of them knows
\* the identity; with one that does, with others around them or one that replaces
\* the identity, and incomplete ones.
AllStandard == [s \in Range(Stages) |-> <<"standard">>]
Identified == [AllStandard EXCEPT !["plan"] = <<"identify", "standard">>]

MCPipelines ==
  {AllStandard, Identified,
   [Identified EXCEPT !["execute"] = <<"standard", "custom">>, !["verify"] = <<"custom", "standard">>],
   [Identified EXCEPT !["authorize"] = <<"standard", "identify">>],
   [AllStandard EXCEPT !["plan"] = << >>, !["authorize"] = <<"custom">>],
   [AllStandard EXCEPT !["authorize"] = <<"identify">>, !["execute"] = <<"custom", "standard">>]}
================================================================================
