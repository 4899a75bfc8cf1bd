\* A lane commit whose answer is slow or never comes.
CONSTANTS
  r1 = r1
  r2 = r2
  r3 = r3
  r4 = r4
  e1 = e1
  e2 = e2
  e3 = e3
  alice = alice
  bob = bob
  None = None
  Requests = {r1}
  Envelopes <- MCEnvelopes
  EnvOf <- MCEnvOf
  Creators = {e1}
  IdentityOf <- MCIdentityOf
  LaneOf <- AllStateful
  TTL = 3
  CallTime = 1
  Retries = FALSE
SPECIFICATION Spec
PROPERTIES
  LaneCommitIsFenced
