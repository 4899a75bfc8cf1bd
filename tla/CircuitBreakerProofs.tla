------------------------- MODULE CircuitBreakerProofs -------------------------
(* Proofs about CircuitBreaker, for any number of calls and any thresholds.   *)
EXTENDS CircuitBreaker, TLAPS

\* Every variable keeps its type; in particular every probe is a running call.
THEOREM TypeCorrect == Spec => []TypeOK
<1>1. Init => TypeOK
  BY ThresholdType, TimesType DEF Init, TypeOK
<1>2. TypeOK /\ [Next]_vars => TypeOK'
  <2> SUFFICES ASSUME TypeOK, [Next]_vars PROVE TypeOK'
    OBVIOUS
  <2> USE ThresholdType, TimesType DEF TypeOK
  <2>1. ASSUME NEW c \in Calls, Admit(c) PROVE TypeOK'
    BY <2>1 DEF Admit, Run
  <2>2. ASSUME NEW c \in Calls, AdmitProbe(c) PROVE TypeOK'
    BY <2>2 DEF AdmitProbe, Run
  <2>3. ASSUME NEW c \in Calls, Succeed(c) PROVE TypeOK'
    BY <2>3 DEF Succeed, Leave
  <2>4. ASSUME NEW c \in Calls, Fail(c) PROVE TypeOK'
    BY <2>4 DEF Fail, Leave, OneMore
  <2>5. CASE Tick
    BY <2>5 DEF Tick, Sooner
  <2>6. CASE UNCHANGED vars
    BY <2>6 DEF vars
  <2>7. QED
    BY <2>1, <2>2, <2>3, <2>4, <2>5, <2>6 DEF Next
<1>3. QED
  BY <1>1, <1>2, PTL DEF Spec

\* The circuit never wedges: as long as it is half-open some probe is in flight, for
\* any relation between the cooldown and the time operations take.
THEOREM NeverWedged == Spec => []HalfOpenIsProbed
<1>1. Init => HalfOpenIsProbed
  BY DEF Init, HalfOpenIsProbed
<1>2. HalfOpenIsProbed /\ [Next]_vars => HalfOpenIsProbed'
  <2> SUFFICES ASSUME HalfOpenIsProbed, [Next]_vars PROVE HalfOpenIsProbed'
    OBVIOUS
  <2> USE DEF HalfOpenIsProbed
  <2>1. ASSUME NEW c \in Calls, Admit(c) PROVE HalfOpenIsProbed'
    BY <2>1 DEF Admit
  <2>2. ASSUME NEW c \in Calls, AdmitProbe(c) PROVE HalfOpenIsProbed'
    BY <2>2 DEF AdmitProbe
  <2>3. ASSUME NEW c \in Calls, Succeed(c) PROVE HalfOpenIsProbed'
    BY <2>3 DEF Succeed, Leave
  <2>4. ASSUME NEW c \in Calls, Fail(c) PROVE HalfOpenIsProbed'
    BY <2>4 DEF Fail, Leave
  <2>5. CASE Tick
    BY <2>5 DEF Tick
  <2>6. CASE UNCHANGED vars
    BY <2>6 DEF vars
  <2>7. QED
    BY <2>1, <2>2, <2>3, <2>4, <2>5, <2>6 DEF Next
<1>3. QED
  BY <1>1, <1>2, PTL DEF Spec

-----------------------------------------------------------------------------
\* Why probes run alone when operations are shorter than the cooldown: whatever was
\* running when the circuit opened settles before the cooldown ends.
DrainsBeforeProbe ==
  /\ currentState = "closed" => probes = {}
  /\ currentState = "open" => /\ probes = {}
                              /\ \A c \in running : due[c] < cooling
  /\ currentState = "half-open" => \E c \in Calls : running = {c} /\ probes = {c}

\* No call runs in a new breaker.
LEMMA DrainsInitially == Init => DrainsBeforeProbe
  BY DEF Init, DrainsBeforeProbe

\* A call ends within CallTime, so every call admitted before the breaker opened
\* is due before the cooldown is over; each step of Admit, AdmitProbe, Succeed,
\* Fail and Tick keeps that.
LEMMA DrainsNext ==
  ASSUME CallTime < Cooldown, TypeOK, DrainsBeforeProbe, [Next]_vars
  PROVE  DrainsBeforeProbe'
<1> USE ThresholdType, TimesType DEF TypeOK, DrainsBeforeProbe
<1>1. ASSUME NEW c \in Calls, Admit(c) PROVE DrainsBeforeProbe'
  BY <1>1 DEF Admit, Run
<1>2. ASSUME NEW c \in Calls, AdmitProbe(c) PROVE DrainsBeforeProbe'
  <2>1. running = {}
    BY <1>2 DEF AdmitProbe
  <2>2. running' = {c} /\ probes' = {c} /\ currentState' = "half-open"
    BY <1>2, <2>1 DEF AdmitProbe, Run
  <2>3. QED
    BY <2>2
<1>3. ASSUME NEW c \in Calls, Succeed(c) PROVE DrainsBeforeProbe'
  <2>1. CASE currentState = "half-open"
    <3>1. running = {c} /\ probes = {c}
      BY <1>3, <2>1 DEF Succeed
    <3>2. currentState' = "closed" /\ probes' = {}
      BY <1>3, <3>1 DEF Succeed, Leave
    <3>3. QED
      BY <3>2
  <2>2. CASE currentState # "half-open"
    <3>1. probes = {} /\ c \in running
      BY <1>3, <2>2 DEF Succeed
    <3>2. currentState' = currentState /\ probes' = {} /\ running' = running \ {c}
      BY <1>3, <3>1 DEF Succeed, Leave
    <3>3. \A d \in running' : due'[d] = due[d]
      BY <1>3, <3>2 DEF Succeed, Leave
    <3>4. cooling' = cooling
      BY <1>3 DEF Succeed
    <3>5. QED
      BY <2>2, <3>2, <3>3, <3>4
  <2>3. QED
    BY <2>1, <2>2
<1>4. ASSUME NEW c \in Calls, Fail(c) PROVE DrainsBeforeProbe'
  <2>1. c \in running /\ running' = running \ {c} /\ probes' = probes \ {c}
    BY <1>4 DEF Fail, Leave
  <2>2. \A d \in running' : due'[d] = due[d] /\ due[d] \in 0 .. CallTime
    BY <1>4, <2>1 DEF Fail, Leave
  <2>3. probes' = {}
    BY <2>1
  <2>4. CASE c \in probes \/ failures + 1 >= FailureThreshold
    <3>1. currentState' = "open" /\ cooling' = Cooldown
      BY <1>4, <2>4 DEF Fail
    <3>2. QED
      BY <2>2, <2>3, <3>1
  <2>5. CASE ~(c \in probes \/ failures + 1 >= FailureThreshold)
    <3>1. currentState' = currentState /\ cooling' = cooling
      BY <1>4, <2>5 DEF Fail
    <3>2. currentState # "half-open"
      BY <2>1, <2>5
    <3>3. QED
      BY <2>1, <2>2, <2>3, <3>1, <3>2
  <2>6. QED
    BY <2>4, <2>5
<1>5. CASE Tick
  BY <1>5 DEF Tick, Sooner
<1>6. CASE UNCHANGED vars
  BY <1>6 DEF vars
<1>7. QED
  BY <1>1, <1>2, <1>3, <1>4, <1>5, <1>6 DEF Next

\* When no operation outlasts the cooldown, a probe is alone in flight: no call
\* admitted before the circuit opened can settle during it.
THEOREM ProbesRunAlone == CallTime < Cooldown => (Spec => []ProbeRunsAlone)
<1> SUFFICES ASSUME CallTime < Cooldown PROVE Spec => []ProbeRunsAlone
  OBVIOUS
<1>1. TypeOK /\ DrainsBeforeProbe /\ [Next]_vars => DrainsBeforeProbe'
  BY DrainsNext
<1>2. TypeOK /\ DrainsBeforeProbe => ProbeRunsAlone
  BY DEF TypeOK, DrainsBeforeProbe, ProbeRunsAlone
<1>3. QED
  BY TypeCorrect, DrainsInitially, <1>1, <1>2, PTL DEF Spec

\* Under the same condition an open circuit closes only through half-open.
THEOREM ReopensSafely == CallTime < Cooldown => (Spec => ClosesThroughHalfOpen)
<1> SUFFICES ASSUME CallTime < Cooldown PROVE Spec => ClosesThroughHalfOpen
  OBVIOUS
<1>1. TypeOK /\ DrainsBeforeProbe /\ [Next]_vars => DrainsBeforeProbe'
  BY DrainsNext
<1>2. TypeOK /\ DrainsBeforeProbe /\ [Next]_vars
        => [currentState = "open" => currentState' # "closed"]_currentState
  <2> SUFFICES ASSUME TypeOK, DrainsBeforeProbe, Next, currentState = "open"
               PROVE  currentState' # "closed"
    BY DEF vars
  <2>1. probes = {}
    BY DEF DrainsBeforeProbe
  <2>2. QED
    BY <2>1 DEF Next, Admit, AdmitProbe, Succeed, Fail, Tick
<1>3. QED
  BY TypeCorrect, DrainsInitially, <1>1, <1>2, PTL DEF Spec, ClosesThroughHalfOpen
==============================================================================
