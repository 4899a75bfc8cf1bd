\* An introspection message is refused by the router before it is dispatched.
CONSTANTS
  k1 = k1
  k2 = k2
  v1 = v1
  NaN = NaN
  None = None
  Messages <- MCIntrospection
  Keys <- MCKeys
  Values <- MCValues
  MaxSteps = 3
  MaxStates = 3
  MaxSequence = 2
SPECIFICATION Spec
INVARIANTS
  IntrospectionDispatched
