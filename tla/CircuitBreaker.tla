---------------------------- MODULE CircuitBreaker ----------------------------
(***************************************************************************)
(* The circuit breaker that every KernelClient of a worker shares for one  *)
(* kernel service.  execute() admits or rejects a call in one synchronous  *)
(* step, awaits the operation (retry around withTimeout around fetch), and *)
(* settles in another: calls overlap, so a call may settle in a state of   *)
(* the circuit that has nothing to do with the one that admitted it.       *)
(***************************************************************************)
EXTENDS Naturals

CONSTANTS
  Calls,             \* concurrent users of the circuit, each calls repeatedly
  FailureThreshold,  \* config.failureThreshold
  Cooldown,          \* config.cooldownMs, in ticks
  CallTime           \* the longest an operation takes, retries included, in ticks

ASSUME ThresholdType == FailureThreshold \in Nat \ {0}
ASSUME TimesType == Cooldown \in Nat /\ CallTime \in Nat

VARIABLES
  currentState,  \* "closed", "open" or "half-open"
  failures,      \* consecutive failures; counted up to the threshold, which is all
                 \* that any comparison can tell
  cooling,       \* ticks until the cooldown that began at openedAt is over
  running,       \* calls whose operation is in flight
  probes,        \* those of them that entered execute() as a probe (isProbe)
  due            \* ticks until each running call settles at the latest

vars == <<currentState, failures, cooling, running, probes, due>>

TypeOK ==
  /\ currentState \in {"closed", "open", "half-open"}
  /\ failures \in 0 .. FailureThreshold
  /\ cooling \in 0 .. Cooldown
  /\ running \subseteq Calls
  /\ probes \subseteq running
  /\ due \in [Calls -> 0 .. CallTime]

Init ==
  /\ currentState = "closed"
  /\ failures = 0
  /\ cooling = 0
  /\ running = {}
  /\ probes = {}
  /\ due = [c \in Calls |-> 0]

Run(c) ==
  /\ running' = running \union {c}
  /\ due' = [due EXCEPT ![c] = CallTime]

Leave(c) ==
  /\ running' = running \ {c}
  /\ probes' = probes \ {c}
  /\ due' = [due EXCEPT ![c] = 0]

\* A half-open circuit, and an open one in its cooldown, reject every call without
\* changing state: CIRCUIT_OPEN.
Admit(c) ==
  /\ c \notin running
  /\ currentState = "closed"
  /\ Run(c)
  /\ UNCHANGED <<currentState, failures, cooling, probes>>

\* Mutant: the cooldown is not checked.
AdmitProbeEarly(c) ==
  /\ c \notin running
  /\ currentState = "open"
  /\ currentState' = "half-open"
  /\ probes' = probes \union {c}
  /\ Run(c)
  /\ UNCHANGED <<failures, cooling>>

\* Mutant: isProbe is never set.
AdmitUnmarked(c) ==
  /\ c \notin running
  /\ currentState = "open"
  /\ cooling = 0
  /\ currentState' = "half-open"
  /\ Run(c)
  /\ UNCHANGED <<failures, cooling, probes>>

AdmitProbe(c) ==
  /\ c \notin running
  /\ currentState = "open"
  /\ cooling = 0
  /\ currentState' = "half-open"
  /\ probes' = probes \union {c}
  /\ Run(c)
  /\ UNCHANGED <<failures, cooling>>

\* Mutant: any success closes the circuit.
SucceedAlwaysCloses(c) ==
  /\ c \in running
  /\ currentState' = "closed"
  /\ failures' = 0
  /\ Leave(c)
  /\ UNCHANGED cooling

\* Mutant: a probe's success is treated like any other.
SucceedIgnoringProbe(c) ==
  /\ c \in running
  /\ failures' = IF currentState = "closed" THEN 0 ELSE failures
  /\ Leave(c)
  /\ UNCHANGED <<currentState, cooling>>

Succeed(c) ==
  /\ c \in running
  /\ currentState' = IF c \in probes THEN "closed" ELSE currentState
  /\ failures' = IF c \in probes \/ currentState = "closed" THEN 0 ELSE failures
  /\ Leave(c)
  /\ UNCHANGED cooling

OneMore(n) == IF n < FailureThreshold THEN n + 1 ELSE n

\* A failed probe opens the circuit whatever the count; so does any call whose
\* failure brings the count to the threshold, in whatever state the circuit is.
Fail(c) ==
  LET opens == c \in probes \/ failures + 1 >= FailureThreshold IN
  /\ c \in running
  /\ failures' = OneMore(failures)
  /\ currentState' = IF opens THEN "open" ELSE currentState
  /\ cooling' = IF opens THEN Cooldown ELSE cooling
  /\ Leave(c)

Sooner(n) == IF n = 0 THEN 0 ELSE n - 1

\* No operation outlasts its attempts' timers.
Tick ==
  /\ \A c \in running : due[c] > 0
  /\ cooling' = Sooner(cooling)
  /\ due' = [c \in Calls |-> Sooner(due[c])]
  /\ UNCHANGED <<currentState, failures, running, probes>>

Next ==
  \/ \E c \in Calls : Admit(c) \/ AdmitProbe(c) \/ Succeed(c) \/ Fail(c)
  \/ Tick

Spec == Init /\ [][Next]_vars

\* Clocks advance and every operation settles (withTimeout, bounded retries).
FairSpec ==
  /\ Spec
  /\ WF_vars(Tick)
  /\ \A c \in Calls : WF_vars(Succeed(c) \/ Fail(c))

-----------------------------------------------------------------------------
(* Properties.                                                             *)

\* A half-open circuit, which rejects every call, has a probe in flight whose end
\* will move it on: the circuit is never wedged.
HalfOpenIsProbed == currentState = "half-open" => probes # {}

\* While a probe is in flight nothing else is: no call admitted before the circuit
\* opened settles during the probe.
ProbeRunsAlone == \A c \in probes : running = {c} /\ currentState = "half-open"

\* An open circuit closes only by way of half-open, that is after a cooldown and
\* by the success of a probe admitted since it opened.
ClosesThroughHalfOpen == [][currentState = "open" => currentState' # "closed"]_currentState

\* A half-open circuit settles: a dead or slow kernel cannot keep it rejecting.
ProbeSettles == currentState = "half-open" ~> currentState # "half-open"
==============================================================================
