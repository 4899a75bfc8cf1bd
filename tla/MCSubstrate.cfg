\* Three calls, two attempts each, no deletes: safety and refinement.
CONSTANTS
  c1 = c1
  c2 = c2
  c3 = c3
  same = same
  other = other
  None = None
  Calls <- MCCalls
  Ids <- MCIds
  IdOf <- MCIdOf
  MaxAttempts = 2
  Deleters = {}
SPECIFICATION Spec
SYMMETRY Deliveries
CHECK_DEADLOCK FALSE
INVARIANTS
  StoreHoldsHistory
  ConflictIsFinal
PROPERTIES
  ImplementsLog
