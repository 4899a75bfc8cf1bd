----------------------------- MODULE MCSubstrate -----------------------------
(* Instances of Substrate for TLC: c1 and c2 are two deliveries of the same  *)
(* transition, c3 is a competing transition on the same key.                 *)
EXTENDS Substrate, TLC

CONSTANTS c1, c2, c3, same, other

MCCalls == {c1, c2, c3}
MCTwoCalls == {c1, c2}
MCIds == {same, other}
MCIdOf == [c \in Calls |-> IF c = c3 THEN other ELSE same]

\* The two deliveries are interchangeable (used by runs without liveness only).
Deliveries == Permutations({c1, c2})
==============================================================================
