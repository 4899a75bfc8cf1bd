\* Operations shorter than the cooldown.
CONSTANTS
  c1 = c1
  c2 = c2
  c3 = c3
  Calls <- MCCalls
  FailureThreshold = 2
  Cooldown = 3
  CallTime = 2
SPECIFICATION FairSpec
INVARIANTS
  ProbeRunsAlone
  HalfOpenIsProbed
PROPERTIES
  ClosesThroughHalfOpen
  ProbeSettles
