\* A lane with and one without state and another identity, with the fairness of the timers.
CONSTANTS
  r1 = r1
  r2 = r2
  r3 = r3
  r4 = r4
  e1 = e1
  e2 = e2
  e3 = e3
  alice = alice
  bob = bob
  None = None
  Requests = {r1, r3, r4}
  Envelopes <- MCEnvelopes
  EnvOf <- MCEnvOf
  Creators = {e1}
  IdentityOf <- MCIdentityOf
  LaneOf <- MixedLanes
  TTL = 2
  CallTime = 1
  Retries = FALSE
SPECIFICATION FairSpec
INVARIANTS
  SessionKeepsItsIdentity
PROPERTIES
  SessionRecovers
  RequestsEnd
