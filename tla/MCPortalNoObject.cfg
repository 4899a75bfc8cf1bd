\* A call with an envelope that is no object ends without an answer.
CONSTANTS
  k1 = k1
  k2 = k2
  v1 = v1
  NaN = NaN
  None = None
  Messages <- MCNoObject
  Keys <- MCKeys
  Values <- MCValues
  MaxSteps = 3
  MaxStates = 3
  MaxSequence = 2
SPECIFICATION Spec
INVARIANTS
  NoMessageLoss
