------------------------ MODULE MCSessionOrchestrator ------------------------
(* Instances of SessionOrchestrator for TLC.  Envelope e1 creates the session  *)
(* and is delivered twice (r1, r2); e2 resumes the session (r3), and so does   *)
(* e3 (r4), which comes from another identity.                                 *)
EXTENDS SessionOrchestrator, TLC

CONSTANTS r1, r2, r3, r4, e1, e2, e3, alice, bob

MCEnvelopes == {e1, e2, e3}
MCEnvOf == [r \in Requests |-> CASE r \in {r1, r2} -> e1 [] r = r3 -> e2 [] r = r4 -> e3]
MCIdentityOf == [e \in MCEnvelopes |-> IF e = e3 THEN bob ELSE alice]

AllStateful == [e \in MCEnvelopes |-> "stateful"]
MixedLanes == [e \in MCEnvelopes |-> IF e = e2 THEN "stateless" ELSE "stateful"]

\* The two deliveries of e1 are interchangeable.
Deliveries == Permutations({r1, r2})
==============================================================================
