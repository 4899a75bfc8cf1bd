\* Two deliveries of a transition and two deletes of the key, with the fairness of the timers.
CONSTANTS
  c1 = c1
  c2 = c2
  c3 = c3
  same = same
  other = other
  None = None
  Calls <- MCTwoCalls
  Ids <- MCIds
  IdOf <- MCIdOf
  MaxAttempts = 2
  Deleters = {d1, d2}
SPECIFICATION FairSpec
CHECK_DEADLOCK FALSE
INVARIANTS
  AppliedOnce
PROPERTIES
  DeleteIsFenced
  CallsAreAnswered
