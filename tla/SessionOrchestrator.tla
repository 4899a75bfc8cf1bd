------------------------- MODULE SessionOrchestrator -------------------------
(***************************************************************************)
(* SessionOrchestrator.orchestrate for requests on one session: read or    *)
(* create the session, reserve it for a lease, run the lane (renewing the  *)
(* lease before the lane commits), complete, and release on failure.       *)
(*                                                                         *)
(* Requests run concurrently in workers that share only the durable state. *)
(* A state transition is one substrate call as TransitionLog specifies it: *)
(* it lands atomically at the version it expects, at most once per id, and *)
(* may land after its caller gave up on it.  Time is kept as what remains: *)
(* an expiry is the number of ticks until it, so the model needs no bound  *)
(* on the clock.                                                           *)
(***************************************************************************)
EXTENDS Naturals, FiniteSets

CONSTANTS
  Requests,    \* deliveries of envelopes to routeEnvelope
  Envelopes,
  EnvOf,       \* the envelope each request carries
  Creators,    \* envelopes without a sessionId: they create the session
  IdentityOf,  \* the identity an envelope carries
  LaneOf,      \* "stateful" (sim, tec) or "stateless"
  TTL,         \* reservationTtlMs, in ticks
  CallTime,    \* the longest a substrate call takes, retries included, in ticks
  Retries,     \* may a substrate call take more than one attempt?
  None

ASSUME EnvOfType == EnvOf \in [Requests -> Envelopes]
ASSUME CreatorsType == Creators \subseteq Envelopes
ASSUME LaneOfType == LaneOf \in [Envelopes -> {"stateful", "stateless"}]
ASSUME TimesType == TTL \in Nat \ {0} /\ CallTime \in Nat
ASSUME RetriesType == Retries \in BOOLEAN
ASSUME NoneIsNoRequest == None \notin Requests \union {"session", "lane"}

VARIABLES
  session,   \* the session's state model
  lane,      \* the state model of the lane (SIM or TEC) for that session
  late,      \* writes abandoned by their caller that may still land
  pc,        \* where each request is
  current,   \* the session model a request read last
  reserved,  \* the session model it holds its reservation by
  laneSeen,  \* the lane model it read
  sent,      \* the write it awaits
  landed,    \* has that write taken effect?
  due        \* ticks until that write's call must be answered

locals == <<current, reserved, laneSeen>>
calls == <<sent, landed, due>>
vars == <<session, lane, late, pc, locals, calls>>

\* Session: version and appliedTransitions of the model; reservationToken (each
\* request draws one token, so it is named by its request), ticks until
\* reservationExpiresAt, and identityId.
NoSession == [version |-> 0, applied |-> {}, token |-> None, lease |-> 0, owner |-> None]
NoLane == [version |-> 0, applied |-> {}, steps |-> 0]

Awaiting == {"creating", "reserving", "renewing", "committing", "completing", "releasing"}
Reading == {"reading", "attached", "routing", "laneRead", "renewRead"}
Ended == {"done", "failed", "crashed"}
Stages == Reading \union Awaiting \union Ended

\* Mutant: a reservation never expires.
ActiveForever(m) == m.token # None

\* reservationActive: reserved, and the lease has not run out.
Active(m) == m.token # None /\ m.lease > 0

RouteId(r) == <<"route", EnvOf[r]>>
LaneId(r) == <<"lane", EnvOf[r]>>

NoWrite == [key |-> None, id |-> None, next |-> None]

Init ==
  /\ session = NoSession
  /\ lane = NoLane
  /\ late = {}
  /\ pc = [r \in Requests |-> "reading"]
  /\ current = [r \in Requests |-> NoSession]
  /\ reserved = [r \in Requests |-> NoSession]
  /\ laneSeen = [r \in Requests |-> NoLane]
  /\ sent = [r \in Requests |-> NoWrite]
  /\ landed = [r \in Requests |-> FALSE]
  /\ due = [r \in Requests |-> 0]

-----------------------------------------------------------------------------
(* Substrate calls.  A write carries the model it stores; it expects the   *)
(* version just below that model's.                                        *)

Stored(key) == IF key = "session" THEN session ELSE lane

SessionWrite(id, base, changes) ==
  [key |-> "session", id |-> id,
   next |-> [changes EXCEPT !.version = base.version + 1,
                            !.applied = base.applied \union {id}]]

Send(r, write, stage) ==
  /\ sent' = [sent EXCEPT ![r] = write]
  /\ landed' = [landed EXCEPT ![r] = FALSE]
  /\ due' = [due EXCEPT ![r] = CallTime]
  /\ pc' = [pc EXCEPT ![r] = stage]

\* Mutant: the transition id is not checked.
CanLandAgain(write) == Stored(write.key).version + 1 = write.next.version

CanLand(write) ==
  /\ Stored(write.key).version + 1 = write.next.version
  /\ write.id \notin Stored(write.key).applied

\* The write takes effect; every other write on its key is now refused for good.
Store(write) ==
  /\ session' = IF write.key = "session" THEN write.next ELSE session
  /\ lane' = IF write.key = "lane" THEN write.next ELSE lane

Land(r) ==
  /\ pc[r] \in Awaiting
  /\ ~landed[r]
  /\ CanLand(sent[r])
  /\ Store(sent[r])
  /\ landed' = [landed EXCEPT ![r] = TRUE]
  /\ late' = {w \in late : w.key # sent[r].key}
  /\ UNCHANGED <<pc, locals, sent, due>>

LandLate(write) ==
  /\ write \in late
  /\ CanLand(write)
  /\ Store(write)
  /\ late' = {w \in late : w.key # write.key}
  /\ UNCHANGED <<pc, locals, calls>>

\* The models a call that succeeds returns: the one its write stored, or, when
\* an attempt finds the id applied already (by an attempt before it or by another
\* delivery of the envelope), whatever the key holds by then.
Answers(r) ==
  (IF landed[r] THEN {sent[r].next} ELSE {})
    \union
  (IF sent[r].id \in Stored(sent[r].key).applied /\ (Retries \/ ~landed[r])
   THEN {Stored(sent[r].key)} ELSE {})

\* A call fails: STATE_CONFLICT, or an error that leaves its write undecided.
Abandoned(r) ==
  late \union {w \in {sent[r]} : pc[r] \in Awaiting /\ ~landed[r] /\ CanLand(w)}

End(r, stage) ==
  /\ pc' = [pc EXCEPT ![r] = stage]
  /\ sent' = [sent EXCEPT ![r] = NoWrite]
  /\ landed' = [landed EXCEPT ![r] = FALSE]
  /\ due' = [due EXCEPT ![r] = 0]

\* The request ends; its locals are gone.
Finish(r, stage) ==
  /\ End(r, stage)
  /\ current' = [current EXCEPT ![r] = NoSession]
  /\ reserved' = [reserved EXCEPT ![r] = NoSession]
  /\ laneSeen' = [laneSeen EXCEPT ![r] = NoLane]

-----------------------------------------------------------------------------
(* The request, step by step.                                              *)

\* createSession or resumeSession; a request arrives when it takes this step.
ReadSession(r) ==
  /\ pc[r] = "reading"
  /\ \/ /\ session.version > 0
        /\ current' = [current EXCEPT ![r] = session]
        /\ pc' = [pc EXCEPT ![r] = "attached"]
        /\ UNCHANGED <<calls, reserved, laneSeen>>
     \/ /\ session.version = 0
        /\ EnvOf[r] \in Creators
        /\ Send(r, SessionWrite(<<"create", EnvOf[r]>>, NoSession,
                     [NoSession EXCEPT !.owner = IdentityOf[EnvOf[r]]]), "creating")
        /\ UNCHANGED locals
     \/ /\ session.version = 0
        /\ EnvOf[r] \notin Creators
        /\ Finish(r, "failed")
  /\ UNCHANGED <<session, lane, late>>

Created(r) ==
  /\ pc[r] = "creating"
  /\ \E m \in Answers(r) : current' = [current EXCEPT ![r] = m]
  /\ End(r, "attached")
  /\ UNCHANGED <<session, lane, late, reserved, laneSeen>>

\* Mutant: a running reservation is overwritten.
ReserveAnyway(r) ==
  LET m == current[r] IN
  /\ pc[r] = "attached"
  /\ m.owner = IdentityOf[EnvOf[r]]
  /\ RouteId(r) \notin m.applied
  /\ Send(r, SessionWrite(<<"reserve", r>>, m, [m EXCEPT !.token = r, !.lease = TTL]), "reserving")
  /\ UNCHANGED <<session, lane, late, locals>>

\* Mutant: the identity is not checked.
ReserveForAnyone(r) ==
  LET m == current[r] IN
  /\ pc[r] = "attached"
  /\ RouteId(r) \notin m.applied
  /\ ~Active(m)
  /\ Send(r, SessionWrite(<<"reserve", r>>, m, [m EXCEPT !.token = r, !.lease = TTL]), "reserving")
  /\ UNCHANGED <<session, lane, late, locals>>

\* The identity check, then reserveSession.
Reserve(r) ==
  LET m == current[r] IN
  /\ pc[r] = "attached"
  /\ \/ /\ m.owner = IdentityOf[EnvOf[r]]
        /\ RouteId(r) \notin m.applied
        /\ ~Active(m)
        /\ Send(r, SessionWrite(<<"reserve", r>>, m,
                     [m EXCEPT !.token = r, !.lease = TTL]), "reserving")
        /\ UNCHANGED locals
     \/ /\ \/ m.owner # IdentityOf[EnvOf[r]]
           \/ RouteId(r) \in m.applied
           \/ Active(m)
        /\ Finish(r, "failed")
  /\ UNCHANGED <<session, lane, late>>

Reserved(r) ==
  /\ pc[r] = "reserving"
  /\ \E m \in Answers(r) :
       \/ /\ m.token = r
          /\ reserved' = [reserved EXCEPT ![r] = m]
          /\ End(r, "routing")
          /\ UNCHANGED <<current, laneSeen>>
       \/ /\ m.token # r
          /\ Finish(r, "failed")
  /\ UNCHANGED <<session, lane, late>>

WithoutReservation(m) == [m EXCEPT !.token = None, !.lease = 0]

Release(r) ==
  LET m == reserved[r] IN
  Send(r, SessionWrite(<<"release", EnvOf[r], m.version>>, m, WithoutReservation(m)), "releasing")

Complete(r, m) ==
  Send(r, SessionWrite(RouteId(r), m, WithoutReservation(m)), "completing")

\* The router: a lane without state, or the read of the lane's state.
Route(r) ==
  /\ pc[r] = "routing"
  /\ \/ /\ LaneOf[EnvOf[r]] = "stateless"
        /\ Complete(r, reserved[r])
        /\ UNCHANGED laneSeen
     \/ /\ LaneOf[EnvOf[r]] = "stateful"
        /\ laneSeen' = [laneSeen EXCEPT ![r] = lane]
        /\ pc' = [pc EXCEPT ![r] = "laneRead"]
        /\ UNCHANGED calls
  /\ UNCHANGED <<session, lane, late, current, reserved>>

\* beforeCommit: renewSessionReservation reads the session ...
RenewRead(r) ==
  /\ pc[r] = "laneRead"
  /\ current' = [current EXCEPT ![r] = session]
  /\ pc' = [pc EXCEPT ![r] = "renewRead"]
  /\ UNCHANGED <<session, lane, late, reserved, laneSeen, calls>>

\* Mutant: the token is not compared.
RenewAnyToken(r) ==
  LET m == current[r] IN
  /\ pc[r] = "renewRead"
  /\ m.lease > 0
  /\ Send(r, SessionWrite(<<"renew", reserved[r].token, m.version>>, m,
               [m EXCEPT !.lease = TTL]), "renewing")
  /\ UNCHANGED <<session, lane, late, locals>>

\* Mutant: the lease is checked but not extended.
RenewInPlace(r) ==
  LET m == current[r] IN
  /\ pc[r] = "renewRead"
  /\ m.token = reserved[r].token /\ m.lease > 0
  /\ Send(r, SessionWrite(<<"renew", reserved[r].token, m.version>>, m, m), "renewing")
  /\ UNCHANGED <<session, lane, late, locals>>

\* ... and extends the lease if it is still this request's and still runs.
Renew(r) ==
  LET m == current[r] IN
  /\ pc[r] = "renewRead"
  /\ \/ /\ m.token = reserved[r].token
        /\ m.lease > 0
        /\ Send(r, SessionWrite(<<"renew", reserved[r].token, m.version>>, m,
                     [m EXCEPT !.lease = TTL]), "renewing")
     \/ /\ m.token # reserved[r].token \/ m.lease = 0
        /\ Release(r)
  /\ UNCHANGED <<session, lane, late, locals>>

\* The renewal's answer becomes the reservation as it is; the lane commits.
Renewed(r) ==
  /\ pc[r] = "renewing"
  /\ \E m \in Answers(r) : reserved' = [reserved EXCEPT ![r] = m]
  /\ Send(r, [key  |-> "lane",
              id   |-> LaneId(r),
              next |-> [version |-> laneSeen[r].version + 1,
                        applied |-> laneSeen[r].applied \union {LaneId(r)},
                        steps   |-> laneSeen[r].steps + 1]], "committing")
  /\ UNCHANGED <<session, lane, late, current, laneSeen>>

\* Mutant: the lane's commit is not awaited.
CommittedUnawaited(r) ==
  /\ pc[r] = "committing"
  /\ Complete(r, reserved[r])
  /\ UNCHANGED <<session, lane, late, locals>>

Committed(r) ==
  /\ pc[r] = "committing"
  /\ Answers(r) # {}
  /\ Complete(r, reserved[r])
  /\ UNCHANGED <<session, lane, late, locals>>

\* Mutant: the completion is not awaited.
CompletedUnawaited(r) ==
  /\ pc[r] = "completing"
  /\ Finish(r, "done")
  /\ UNCHANGED <<session, lane, late>>

Completed(r) ==
  /\ pc[r] = "completing"
  /\ Answers(r) # {}
  /\ Finish(r, "done")
  /\ UNCHANGED <<session, lane, late>>

\* Mutant: the release of a failed request must succeed.
FailsUntilReleased(r) ==
  /\ pc[r] \in (Reading \union Awaiting) \ {"releasing"}
  /\ late' = Abandoned(r)
  /\ \/ /\ pc[r] \in {"reading", "attached", "creating", "reserving"}
        /\ Finish(r, "failed")
     \/ /\ pc[r] \in {"routing", "laneRead", "renewRead", "renewing", "committing", "completing"}
        /\ Release(r)
        /\ UNCHANGED locals
  /\ UNCHANGED <<session, lane>>

\* A read fails, a call is refused or times out, or the router finds no route or its
\* lane throws.  Once the session is reserved the request first tries to release it
\* (the await of which may fail too).
Fails(r) ==
  /\ pc[r] \in Reading \union Awaiting
  /\ late' = Abandoned(r)
  /\ \/ /\ pc[r] \in {"reading", "attached", "creating", "reserving", "releasing"}
        /\ Finish(r, "failed")
     \/ /\ pc[r] \in {"routing", "laneRead", "renewRead", "renewing", "committing", "completing"}
        /\ Release(r)
        /\ UNCHANGED locals
  /\ UNCHANGED <<session, lane>>

Released(r) ==
  /\ pc[r] = "releasing"
  /\ Answers(r) # {}
  /\ Finish(r, "failed")
  /\ UNCHANGED <<session, lane, late>>

\* The worker running the request is gone; its last write may be on its way.
Crash(r) ==
  /\ pc[r] \in Reading \union Awaiting
  /\ late' = Abandoned(r)
  /\ Finish(r, "crashed")
  /\ UNCHANGED <<session, lane>>

-----------------------------------------------------------------------------
(* Time: every expiry anywhere comes one tick closer.                      *)

Sooner(n) == IF n = 0 THEN 0 ELSE n - 1
Aged(m) == [m EXCEPT !.lease = Sooner(@)]
AgedWrite(w) == IF w.key = "session" THEN [w EXCEPT !.next = Aged(@)] ELSE w

\* withTimeout answers every call within CallTime.
Tick ==
  /\ \A r \in Requests : pc[r] \in Awaiting => due[r] > 0
  /\ session' = Aged(session)
  /\ late' = {AgedWrite(w) : w \in late}
  /\ current' = [r \in Requests |-> Aged(current[r])]
  /\ reserved' = [r \in Requests |-> Aged(reserved[r])]
  /\ sent' = [r \in Requests |-> AgedWrite(sent[r])]
  /\ due' = [r \in Requests |-> Sooner(due[r])]
  /\ UNCHANGED <<lane, pc, laneSeen, landed>>

Proceed(r) ==
  \/ ReadSession(r) \/ Created(r) \/ Reserve(r) \/ Reserved(r) \/ Route(r)
  \/ RenewRead(r) \/ Renew(r) \/ Renewed(r) \/ Committed(r) \/ Completed(r)
  \/ Released(r)

Next ==
  \/ \E r \in Requests : Proceed(r) \/ Land(r) \/ Fails(r) \/ Crash(r)
  \/ \E w \in late : LandLate(w)
  \/ Tick

Spec == Init /\ [][Next]_vars

\* Clocks advance, and every await of a request ends: withTimeout sees to it.
FairSpec ==
  /\ Spec
  /\ WF_vars(Tick)
  /\ \A r \in Requests : WF_vars(Proceed(r) \/ Fails(r))

-----------------------------------------------------------------------------
(* Properties.                                                             *)

SessionIds ==
  ({"create", "route"} \X Envelopes) \union ({"reserve"} \X Requests)
    \union ({"renew"} \X Requests \X Nat) \union ({"release"} \X Envelopes \X Nat)

SessionModels ==
  [version : Nat,
   applied : SUBSET SessionIds,
   token   : Requests \union {None},
   lease   : 0 .. TTL,
   owner   : {None} \union {IdentityOf[e] : e \in Envelopes}]

LaneIds == {"lane"} \X Envelopes
LaneModels == [version : Nat, applied : SUBSET LaneIds, steps : Nat]

SessionWrites == [key : {"session"}, id : SessionIds, next : SessionModels]
LaneWrites == [key : {"lane"}, id : LaneIds, next : LaneModels]

StoresOK ==
  /\ session \in SessionModels
  /\ lane \in LaneModels
  /\ late \subseteq SessionWrites \union LaneWrites

LocalsOK ==
  /\ current \in [Requests -> SessionModels]
  /\ reserved \in [Requests -> SessionModels]
  /\ laneSeen \in [Requests -> LaneModels]

CallsOK ==
  /\ pc \in [Requests -> Stages]
  /\ sent \in [Requests -> {NoWrite} \union SessionWrites \union LaneWrites]
  /\ landed \in [Requests -> BOOLEAN]
  /\ due \in [Requests -> 0 .. CallTime]
  /\ \A r \in Requests :
       CASE pc[r] = "committing" -> sent[r] \in LaneWrites
         [] pc[r] \in Awaiting \ {"committing"} -> sent[r] \in SessionWrites
         [] OTHER -> sent[r] = NoWrite /\ ~landed[r]

\* A reservation carries its request's token until the answer of a renewal replaces it.
HoldersOK ==
  \A r \in Requests :
    pc[r] \in {"routing", "laneRead", "renewRead", "renewing"} => reserved[r].token = r

TypeOK == StoresOK /\ LocalsOK /\ CallsOK /\ HoldersOK

\* Every envelope advances the lane's counter exactly once, whichever requests
\* believe they hold the session when their lane write lands: a redelivered envelope
\* whose first delivery died after its commit does not count twice.
LaneCountsEachEnvelopeOnce ==
  /\ lane.steps = Cardinality(lane.applied)
  /\ lane.version = lane.steps

\* The session records an envelope as routed only after its lane has committed it.
RoutedMeansCommitted ==
  \A r \in Requests :
    RouteId(r) \in session.applied /\ LaneOf[EnvOf[r]] = "stateful"
      => LaneId(r) \in lane.applied

\* A request that answers success left both the lane and the session updated.
SuccessIsDurable ==
  \A r \in Requests :
    pc[r] = "done" => /\ RouteId(r) \in session.applied
                      /\ LaneOf[EnvOf[r]] = "stateful" => LaneId(r) \in lane.applied

\* A running reservation is ended or replaced only by a write of its own request.
ReservationNotStolen ==
  [][Active(session) /\ session'.token # session.token
       => \E r \in Requests :
            /\ r = session.token
            /\ \/ RouteId(r) \in session'.applied \ session.applied
               \/ <<"release", EnvOf[r], session.version>> \in session'.applied]_vars

\* A request starts its lane commit only while it holds the running reservation.
CommitStartsUnderLease ==
  [][\A r \in Requests :
       pc[r] = "renewing" /\ pc'[r] = "committing"
         => session.token = r /\ Active(session)]_vars

\* No lane commit lands once the reservation it was made under has expired.
LaneCommitIsFenced ==
  [][\A r \in Requests :
       LaneId(r) \in lane'.applied \ lane.applied /\ session.token = r
         => session.lease > 0]_vars

\* A request that runs its lane under a reservation runs it under its own: renewing
\* never hands it the reservation of a request that took the session over.
OneOwner ==
  \A r \in Requests :
    pc[r] \in {"routing", "laneRead", "committing", "completing"} => reserved[r].token = r

\* Only requests of the identity that created the session ever reserve it.
SessionKeepsItsIdentity ==
  \A r \in Requests : session.token = r => session.owner = IdentityOf[EnvOf[r]]

\* Whatever fails or crashes, the session keeps becoming free for a new request:
\* a lease bounds every reservation, one that lands late included.
SessionRecovers == []<>~Active(session)

\* Every request is answered.
RequestsEnd == \A r \in Requests : <>(pc[r] \in Ended)
==============================================================================
