\* Substrate retries that may outlast a lease: a renewal finds its own write applied
\* and returns the model of the request that took over.
CONSTANTS
  r1 = r1
  r2 = r2
  r3 = r3
  r4 = r4
  e1 = e1
  e2 = e2
  e3 = e3
  alice = alice
  bob = bob
  None = None
  Requests = {r1, r2}
  Envelopes <- MCEnvelopes
  EnvOf <- MCEnvOf
  Creators = {e1}
  IdentityOf <- MCIdentityOf
  LaneOf <- AllStateful
  TTL = 2
  CallTime = 2
  Retries = TRUE
SPECIFICATION Spec
INVARIANTS
  OneOwner
