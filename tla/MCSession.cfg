\* Two deliveries of one envelope and a second envelope, all with lane state.
CONSTANTS
  r1 = r1
  r2 = r2
  r3 = r3
  r4 = r4
  e1 = e1
  e2 = e2
  e3 = e3
  alice = alice
  bob = bob
  None = None
  Requests = {r1, r2, r3}
  Envelopes <- MCEnvelopes
  EnvOf <- MCEnvOf
  Creators = {e1}
  IdentityOf <- MCIdentityOf
  LaneOf <- AllStateful
  TTL = 2
  CallTime = 1
  Retries = FALSE
SPECIFICATION Spec
SYMMETRY Deliveries
INVARIANTS
  LaneCountsEachEnvelopeOnce
  RoutedMeansCommitted
  SuccessIsDurable
  OneOwner
PROPERTIES
  ReservationNotStolen
  CommitStartsUnderLease
