\* The libraries, one at a time.
CONSTANTS
  Data <- MCData
  Deltas <- MCDeltas
  Accepted <- MCAccepted
  MaxHistory = 3
  Types = {"inference"}
  MaxDepth = 2
  MaxPath = 4
  Queries = {"q1", "q2", "q3", "q4"}
  Results = {"r1", "r2"}
  MaxSize = 3
  Lifetimes = {1}
  FactIds = {1, 2}
  RuleIds = {1}
  Facts <- MCFacts
  Rules <- MCRules
  Goals <- MCGoals
  MaxPairs = 10
  StoreKeys = {1, 2}
  StoreValues = {"v1", "v2"}
  MaxLog = 3
  Requests <- MCRequests
  Identities = {"u1", "u2"}
  Pipelines <- MCPipelines
  MaxPlans = 2
  MaxActions = 4
  MaxNested = 3
  m0 = m0
  m1 = m1
  m2 = m2
  m3 = m3
  NoMessage = NoMessage
  Messages = {m0, m1, m2, m3}
  WithHandler = {m1, m2, m3}
  MaxRetries <- MCMaxRetries
  MaxQueued = 2
SPECIFICATION MCSpec
INVARIANTS
  ExplanationsHold
  RecentAreCached
  AnswersExact
  AnswerTellsOutcome
  StoreFollowsLog
  UndoneInReverse
  ProcessedOnce
  CallsBounded
  FirstCallsInOrder
PROPERTIES
  ImplementsUndo
  RetryLostOnlyWhenRefilled
  ProcessAllReturns
