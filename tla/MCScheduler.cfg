\* Every kind of message, in every order, failing everywhere; and lanes of two places,
\* cycles and messages that run out of time after one tick.
CONSTANTS
  k1 = k1
  k2 = k2
  v1 = v1
  NaN = NaN
  None = None
  Messages <- MCMessages
  Keys <- MCKeys
  Values <- MCValues
  MaxSteps = 3
  MaxStates = 3
  MaxSequence = 3
  m1 = m1
  m2 = m2
  m3 = m3
  NoMessage = NoMessage
  LaneOrder <- MCLaneOrder
  LaneMessages = {m1, m2, m3}
  Timeless = {m1}
  MaxQueueSize = 2
  MaxAge = 1
  CycleTime = 1
  MaxSubmits = 3
SPECIFICATION MCSpec
INVARIANTS
  TypeOK
  OrderingHolds
  OnlyNaNBreaksInvariants
  EffectsAuthorized
  OkMeansEverything
  EveryMessageCounted
  LaneInOrder
PROPERTIES
  EveryMessageAnswered
  LanesDrain
