----------------------- MODULE SessionOrchestratorProofs -----------------------
(* Theorems about SessionOrchestrator, for any requests, envelopes, lanes and   *)
(* times.  Those about reservations are for substrate calls of one attempt.     *)
EXTENDS SessionOrchestrator, FiniteSetTheorems, TLAPS

--------------------------------------------------------------------------------
(* Types.                                                                       *)

\* The ids of a request's writes.
LEMMA IdTypes ==
  ASSUME NEW r \in Requests, NEW n \in Nat, NEW q \in Requests
  PROVE  /\ RouteId(r) \in SessionIds
         /\ <<"create", EnvOf[r]>> \in SessionIds
         /\ <<"reserve", r>> \in SessionIds
         /\ <<"renew", q, n>> \in SessionIds
         /\ <<"release", EnvOf[r], n>> \in SessionIds
         /\ LaneId(r) \in LaneIds
  BY EnvOfType DEF RouteId, LaneId, SessionIds, LaneIds

\* What a write stores.
LEMMA WriteFields ==
  ASSUME NEW id \in SessionIds, NEW base \in SessionModels, NEW changes \in SessionModels
  PROVE  /\ SessionWrite(id, base, changes) \in SessionWrites
         /\ SessionWrite(id, base, changes).key = "session"
         /\ SessionWrite(id, base, changes).id = id
         /\ SessionWrite(id, base, changes).next.version = base.version + 1
         /\ SessionWrite(id, base, changes).next.applied = base.applied \union {id}
         /\ SessionWrite(id, base, changes).next.token = changes.token
         /\ SessionWrite(id, base, changes).next.lease = changes.lease
         /\ SessionWrite(id, base, changes).next.owner = changes.owner
<1> DEFINE next == [changes EXCEPT !.version = base.version + 1, !.applied = base.applied \union {id}]
<1>1. base.version + 1 \in Nat /\ base.applied \union {id} \in SUBSET SessionIds
  BY DEF SessionModels
<1>2. next \in SessionModels
  BY <1>1 DEF SessionModels
<1>3. /\ next.version = base.version + 1 /\ next.applied = base.applied \union {id}
      /\ next.token = changes.token /\ next.lease = changes.lease /\ next.owner = changes.owner
  BY DEF SessionModels
<1> HIDE DEF next
<1>4. SessionWrite(id, base, changes) = [key |-> "session", id |-> id, next |-> next]
  BY DEF SessionWrite, next
<1> QED
  BY <1>2, <1>3, <1>4 DEF SessionWrites

\* The models a request starts from.
LEMMA NoModels == NoSession \in SessionModels /\ NoLane \in LaneModels
  BY TimesType DEF SessionModels, LaneModels, NoSession, NoLane

LEMMA NewModel ==
  ASSUME NEW r \in Requests
  PROVE  LET m == [NoSession EXCEPT !.owner = IdentityOf[EnvOf[r]]]
         IN  /\ m \in SessionModels
             /\ m.token = None /\ m.lease = 0 /\ m.owner = IdentityOf[EnvOf[r]]
<1>1. IdentityOf[EnvOf[r]] \in {None} \union {IdentityOf[e] : e \in Envelopes}
  BY EnvOfType
<1> QED
  BY <1>1, NoModels DEF SessionModels, NoSession

\* What the requests change of a model.
LEMMA LeaseTaken ==
  ASSUME NEW m \in SessionModels, NEW r \in Requests
  PROVE  LET n == [m EXCEPT !.token = r, !.lease = TTL]
         IN  n \in SessionModels /\ n.token = r /\ n.lease = TTL /\ n.owner = m.owner
<1>1. TTL \in 0 .. TTL /\ r \in Requests \union {None}
  BY TimesType
<1> QED
  BY <1>1 DEF SessionModels

LEMMA LeaseExtended ==
  ASSUME NEW m \in SessionModels
  PROVE  LET n == [m EXCEPT !.lease = TTL]
         IN  n \in SessionModels /\ n.token = m.token /\ n.lease = TTL /\ n.owner = m.owner
  BY TimesType DEF SessionModels

LEMMA LeaseEnded ==
  ASSUME NEW m \in SessionModels
  PROVE  LET n == WithoutReservation(m)
         IN  n \in SessionModels /\ n.token = None /\ n.lease = 0 /\ n.owner = m.owner
<1>1. 0 \in 0 .. TTL /\ None \in Requests \union {None}
  BY TimesType
<1> QED
  BY <1>1 DEF SessionModels, WithoutReservation

LEMMA KeysApart ==
  /\ \A w \in SessionWrites : w.key = "session" /\ w.id \in SessionIds /\ w.next \in SessionModels
  /\ \A w \in LaneWrites : w.key = "lane" /\ w.id \in LaneIds /\ w.next \in LaneModels
  /\ NoWrite \notin SessionWrites \union LaneWrites
  BY NoneIsNoRequest DEF SessionWrites, LaneWrites, NoWrite

\* A call begins.
LEMMA SendType ==
  ASSUME CallsOK, NEW r \in Requests, NEW write, NEW stage \in Awaiting,
         IF stage = "committing" THEN write \in LaneWrites ELSE write \in SessionWrites,
         Send(r, write, stage)
  PROVE  CallsOK' /\ sent'[r] = write /\ ~landed'[r] /\ pc'[r] = stage /\ due'[r] = CallTime
  BY TimesType DEF CallsOK, Send, Stages, Awaiting

\* A call ends, or never begins.
LEMMA EndType ==
  ASSUME CallsOK, NEW r \in Requests, NEW stage \in Stages \ Awaiting, End(r, stage)
  PROVE  CallsOK' /\ sent'[r] = NoWrite /\ ~landed'[r] /\ pc'[r] = stage
  BY TimesType DEF CallsOK, End, Stages, Awaiting

LEMMA StepType ==
  ASSUME CallsOK, NEW r \in Requests, NEW stage \in Stages \ Awaiting, pc[r] \notin Awaiting,
         pc' = [pc EXCEPT ![r] = stage], UNCHANGED calls
  PROVE  CallsOK'
  BY DEF CallsOK, calls, Stages, Awaiting

LEMMA FinishType ==
  ASSUME CallsOK, LocalsOK, HoldersOK, NEW r \in Requests, NEW stage \in Ended, Finish(r, stage)
  PROVE  CallsOK' /\ LocalsOK' /\ HoldersOK'
<1>1. End(r, stage) /\ stage \in Stages \ Awaiting
  BY DEF Finish, Stages, Ended, Awaiting
<1>2. CallsOK'
  BY <1>1, EndType
<1>3. NoSession \in SessionModels /\ NoLane \in LaneModels
  BY TimesType DEF NoSession, NoLane, SessionModels, LaneModels
<1>4. LocalsOK'
  BY <1>3 DEF LocalsOK, Finish
<1>5. HoldersOK'
  BY DEF HoldersOK, CallsOK, LocalsOK, Finish, End, Ended
<1> QED
  BY <1>2, <1>4, <1>5

LEMMA ReleaseType ==
  ASSUME CallsOK, LocalsOK, NEW r \in Requests, Release(r)
  PROVE  CallsOK' /\ pc'[r] = "releasing"
<1> DEFINE m == reserved[r]
<1>1. m \in SessionModels /\ m.version \in Nat
  BY DEF LocalsOK, SessionModels
<1>2. WithoutReservation(m) \in SessionModels /\ <<"release", EnvOf[r], m.version>> \in SessionIds
  BY <1>1, LeaseEnded, IdTypes
<1>3. SessionWrite(<<"release", EnvOf[r], m.version>>, m, WithoutReservation(m)) \in SessionWrites
  BY <1>1, <1>2, WriteFields
<1> QED
  BY <1>3, SendType DEF Release, Awaiting

LEMMA CompleteType ==
  ASSUME CallsOK, LocalsOK, NEW r \in Requests, Complete(r, reserved[r])
  PROVE  CallsOK' /\ pc'[r] = "completing"
<1>1. reserved[r] \in SessionModels
  BY DEF LocalsOK
<1>2. WithoutReservation(reserved[r]) \in SessionModels /\ RouteId(r) \in SessionIds
  BY <1>1, LeaseEnded, IdTypes
<1>3. SessionWrite(RouteId(r), reserved[r], WithoutReservation(reserved[r])) \in SessionWrites
  BY <1>1, <1>2, WriteFields
<1> QED
  BY <1>3, SendType DEF Complete, Awaiting

\* Every call answers with a model of the session, the lane's commit apart.
LEMMA AnswerType ==
  ASSUME StoresOK, CallsOK, NEW r \in Requests, pc[r] \in Awaiting \ {"committing"}
  PROVE  /\ sent[r] \in SessionWrites /\ sent[r].key = "session"
         /\ \A m \in Answers(r) : m \in SessionModels
<1>1. sent[r] \in SessionWrites
  BY DEF CallsOK
<1> QED
  BY <1>1, KeysApart DEF Answers, Stored, StoresOK

LEMMA AbandonedType ==
  ASSUME StoresOK, CallsOK, NEW r \in Requests
  PROVE  Abandoned(r) \subseteq SessionWrites \union LaneWrites
  BY DEF StoresOK, CallsOK, Abandoned, Awaiting

\* A step of one request that leaves its reservation alone.
LEMMA HoldersKept ==
  ASSUME HoldersOK, CallsOK, NEW r \in Requests, UNCHANGED reserved,
         \E stage \in Stages : pc' = [pc EXCEPT ![r] = stage],
         pc'[r] \in {"routing", "laneRead", "renewRead", "renewing"} => reserved[r].token = r
  PROVE  HoldersOK'
  BY DEF HoldersOK, CallsOK

LEMMA AgedType ==
  ASSUME NEW m \in SessionModels
  PROVE  /\ Aged(m) \in SessionModels
         /\ Aged(m).version = m.version /\ Aged(m).applied = m.applied
         /\ Aged(m).token = m.token /\ Aged(m).owner = m.owner
         /\ Aged(m).lease = Sooner(m.lease)
<1>1. Sooner(m.lease) \in 0 .. TTL
  BY TimesType DEF SessionModels, Sooner
<1> QED
  BY <1>1 DEF SessionModels, Aged

LEMMA AgedWriteType ==
  /\ \A w \in SessionWrites : /\ AgedWrite(w) \in SessionWrites
                               /\ AgedWrite(w).key = w.key /\ AgedWrite(w).id = w.id
                               /\ AgedWrite(w).next = Aged(w.next)
  /\ \A w \in LaneWrites \union {NoWrite} : AgedWrite(w) = w
<1>1. ASSUME NEW w \in SessionWrites
      PROVE  /\ AgedWrite(w) \in SessionWrites
             /\ AgedWrite(w).key = w.key /\ AgedWrite(w).id = w.id
             /\ AgedWrite(w).next = Aged(w.next)
  <2>1. w.key = "session" /\ Aged(w.next) \in SessionModels
    BY KeysApart, AgedType
  <2>2. AgedWrite(w) = [w EXCEPT !.next = Aged(w.next)]
    BY <2>1 DEF AgedWrite
  <2> QED
    BY <2>1, <2>2 DEF SessionWrites
<1>2. \A w \in LaneWrites \union {NoWrite} : AgedWrite(w) = w
  BY NoneIsNoRequest DEF LaneWrites, NoWrite, AgedWrite
<1> QED
  BY <1>1, <1>2

LEMMA TypeInit == Init => TypeOK
<1> SUFFICES ASSUME Init PROVE TypeOK
  OBVIOUS
<1>1. StoresOK
  BY NoModels DEF Init, StoresOK
<1>2. LocalsOK
  BY NoModels DEF Init, LocalsOK
<1>3. CallsOK
  BY TimesType DEF Init, CallsOK, Stages, Reading, Awaiting
<1>4. HoldersOK
  BY DEF Init, HoldersOK
<1> QED
  BY <1>1, <1>2, <1>3, <1>4 DEF TypeOK

\* A request's own steps.
LEMMA TypeProceed ==
  ASSUME TypeOK, NEW r \in Requests, Proceed(r)
  PROVE  TypeOK'
<1> USE DEF TypeOK
<1> DEFINE m == current[r]
<1>0. current[r] \in SessionModels /\ reserved[r] \in SessionModels /\ laneSeen[r] \in LaneModels
  BY DEF LocalsOK
<1> UNCHANGED <<session, lane, late>> => StoresOK'
  BY DEF StoresOK
<1> UNCHANGED locals => LocalsOK'
  BY DEF LocalsOK, locals
<1>1. CASE ReadSession(r)
  <2>1. CASE session.version > 0 /\ current' = [current EXCEPT ![r] = session]
             /\ pc' = [pc EXCEPT ![r] = "attached"] /\ UNCHANGED <<calls, reserved, laneSeen>>
    <3>1. LocalsOK'
      BY <2>1 DEF LocalsOK, StoresOK
    <3>2. CallsOK'
      BY <1>1, <2>1, StepType DEF ReadSession, Stages, Reading, Awaiting, Ended
    <3>3. HoldersOK'
      BY <2>1, HoldersKept DEF CallsOK, Stages, Reading
    <3> QED
      BY <1>1, <3>1, <3>2, <3>3 DEF ReadSession
  <2>2. CASE Send(r, SessionWrite(<<"create", EnvOf[r]>>, NoSession,
                       [NoSession EXCEPT !.owner = IdentityOf[EnvOf[r]]]), "creating")
             /\ UNCHANGED locals
    <3>1. SessionWrite(<<"create", EnvOf[r]>>, NoSession,
                       [NoSession EXCEPT !.owner = IdentityOf[EnvOf[r]]]) \in SessionWrites
      BY NoModels, NewModel, IdTypes, WriteFields
    <3>2. CallsOK' /\ pc'[r] = "creating"
      BY <2>2, <3>1, SendType DEF Awaiting
    <3>3. HoldersOK'
      BY <2>2, <3>2, HoldersKept DEF CallsOK, Send, locals, Stages, Awaiting
    <3> QED
      BY <1>1, <2>2, <3>2, <3>3 DEF ReadSession
  <2>3. CASE Finish(r, "failed")
    BY <1>1, <2>3, FinishType DEF ReadSession, Ended
  <2> QED
    BY <1>1, <2>1, <2>2, <2>3 DEF ReadSession
<1>2. CASE Created(r)
  <2>1. PICK a \in Answers(r) : current' = [current EXCEPT ![r] = a]
    BY <1>2 DEF Created
  <2>2. a \in SessionModels
    BY <1>2, <2>1, AnswerType DEF Created, Awaiting
  <2>3. LocalsOK'
    BY <1>2, <2>1, <2>2 DEF Created, LocalsOK
  <2>4. CallsOK' /\ pc'[r] = "attached"
    BY <1>2, EndType DEF Created, Stages, Reading, Awaiting, Ended
  <2>5. HoldersOK'
    BY <1>2, <2>4, HoldersKept DEF Created, End, CallsOK, Stages, Reading
  <2> QED
    BY <1>2, <2>3, <2>4, <2>5 DEF Created
<1>3. CASE Reserve(r)
  <2>1. CASE Send(r, SessionWrite(<<"reserve", r>>, m, [m EXCEPT !.token = r, !.lease = TTL]), "reserving")
             /\ UNCHANGED locals
    <3>1. SessionWrite(<<"reserve", r>>, m, [m EXCEPT !.token = r, !.lease = TTL]) \in SessionWrites
      BY <1>0, LeaseTaken, IdTypes, WriteFields
    <3>2. CallsOK' /\ pc'[r] = "reserving"
      BY <2>1, <3>1, SendType DEF Awaiting
    <3>3. HoldersOK'
      BY <2>1, <3>2, HoldersKept DEF CallsOK, Send, locals, Stages, Awaiting
    <3> QED
      BY <1>3, <2>1, <3>2, <3>3 DEF Reserve
  <2>2. CASE Finish(r, "failed")
    BY <1>3, <2>2, FinishType DEF Reserve, Ended
  <2> QED
    BY <1>3, <2>1, <2>2 DEF Reserve
<1>4. CASE Reserved(r)
  <2>1. PICK a \in Answers(r) :
          \/ /\ a.token = r /\ reserved' = [reserved EXCEPT ![r] = a]
             /\ End(r, "routing") /\ UNCHANGED <<current, laneSeen>>
          \/ Finish(r, "failed")
    BY <1>4 DEF Reserved
  <2>2. a \in SessionModels
    BY <1>4, <2>1, AnswerType DEF Reserved, Awaiting
  <2>3. CASE a.token = r /\ reserved' = [reserved EXCEPT ![r] = a]
             /\ End(r, "routing") /\ UNCHANGED <<current, laneSeen>>
    <3>1. LocalsOK'
      BY <2>2, <2>3 DEF LocalsOK
    <3>2. CallsOK'
      BY <2>3, EndType DEF Stages, Reading, Awaiting, Ended
    <3>3. HoldersOK'
      BY <2>3 DEF HoldersOK, LocalsOK, CallsOK, End
    <3> QED
      BY <1>4, <3>1, <3>2, <3>3 DEF Reserved
  <2>4. CASE Finish(r, "failed")
    BY <1>4, <2>4, FinishType DEF Reserved, Ended
  <2> QED
    BY <2>1, <2>3, <2>4
<1>5. CASE Route(r)
  <2>1. CASE Complete(r, reserved[r]) /\ UNCHANGED laneSeen
    <3>1. CallsOK' /\ pc'[r] = "completing"
      BY <2>1, CompleteType
    <3>2. HoldersOK'
      BY <1>5, <2>1, <3>1, HoldersKept DEF Route, Complete, Send, CallsOK, Stages, Awaiting
    <3> QED
      BY <1>5, <2>1, <3>1, <3>2 DEF Route, LocalsOK
  <2>2. CASE laneSeen' = [laneSeen EXCEPT ![r] = lane] /\ pc' = [pc EXCEPT ![r] = "laneRead"]
             /\ UNCHANGED calls
    <3>1. CallsOK'
      BY <1>5, <2>2, StepType DEF Route, Stages, Reading, Awaiting, Ended
    <3>2. HoldersOK'
      BY <1>5, <2>2, HoldersKept DEF Route, HoldersOK, CallsOK, Stages, Reading
    <3>3. LocalsOK'
      BY <1>5, <2>2 DEF Route, LocalsOK, StoresOK
    <3> QED
      BY <1>5, <3>1, <3>2, <3>3 DEF Route
  <2> QED
    BY <1>5, <2>1, <2>2 DEF Route
<1>6. CASE RenewRead(r)
  <2>1. CallsOK'
    BY <1>6, StepType DEF RenewRead, Stages, Reading, Awaiting, Ended
  <2>2. HoldersOK'
    BY <1>6, HoldersKept DEF RenewRead, HoldersOK, CallsOK, Stages, Reading
  <2>3. LocalsOK'
    BY <1>6 DEF RenewRead, LocalsOK, StoresOK
  <2> QED
    BY <1>6, <2>1, <2>2, <2>3 DEF RenewRead
<1>7. CASE Renew(r)
  <2>0. reserved[r].token = r /\ m.version \in Nat
    BY <1>7, <1>0 DEF Renew, HoldersOK, SessionModels
  <2>1. CASE Send(r, SessionWrite(<<"renew", reserved[r].token, m.version>>, m,
                       [m EXCEPT !.lease = TTL]), "renewing")
    <3>1. SessionWrite(<<"renew", reserved[r].token, m.version>>, m,
                       [m EXCEPT !.lease = TTL]) \in SessionWrites
      BY <1>0, <2>0, LeaseExtended, IdTypes, WriteFields
    <3>2. CallsOK'
      BY <2>1, <3>1, SendType DEF Awaiting
    <3>3. HoldersOK'
      BY <1>7, <2>0, <2>1, HoldersKept DEF Renew, CallsOK, Send, locals, Stages, Awaiting
    <3> QED
      BY <1>7, <2>1, <3>2, <3>3 DEF Renew
  <2>2. CASE Release(r)
    <3>1. CallsOK' /\ pc'[r] = "releasing"
      BY <2>2, ReleaseType
    <3>2. HoldersOK'
      BY <1>7, <2>2, <3>1, HoldersKept DEF Renew, Release, Send, CallsOK, locals, Stages, Awaiting
    <3> QED
      BY <1>7, <3>1, <3>2 DEF Renew
  <2> QED
    BY <1>7, <2>1, <2>2 DEF Renew
<1>8. CASE Renewed(r)
  <2> DEFINE w == [key  |-> "lane",
              id   |-> LaneId(r),
              next |-> [version |-> laneSeen[r].version + 1,
                        applied |-> laneSeen[r].applied \union {LaneId(r)},
                        steps   |-> laneSeen[r].steps + 1]]
  <2>1. PICK a \in Answers(r) : reserved' = [reserved EXCEPT ![r] = a]
    BY <1>8 DEF Renewed
  <2>2. a \in SessionModels
    BY <1>8, <2>1, AnswerType DEF Renewed, Awaiting
  <2>3. w \in LaneWrites
    <3>1. LaneId(r) \in LaneIds
      BY IdTypes
    <3>2. w.next \in LaneModels
      BY <1>0, <3>1 DEF LaneModels
    <3> QED
      BY <3>1, <3>2 DEF LaneWrites
  <2>4. Send(r, w, "committing")
    BY <1>8 DEF Renewed
  <2> HIDE DEF w
  <2>5. CallsOK' /\ pc'[r] = "committing"
    BY <2>3, <2>4, SendType DEF Awaiting
  <2>6. LocalsOK'
    BY <1>8, <2>1, <2>2 DEF Renewed, LocalsOK
  <2>7. HoldersOK'
    BY <2>1, <2>4, <2>5 DEF HoldersOK, LocalsOK, CallsOK, Send
  <2> QED
    BY <1>8, <2>5, <2>6, <2>7 DEF Renewed
<1>9. CASE Committed(r)
  <2>1. CallsOK' /\ pc'[r] = "completing"
    BY <1>9, CompleteType DEF Committed
  <2>2. HoldersOK'
    BY <1>9, <2>1, HoldersKept DEF Committed, Complete, Send, CallsOK, locals, Stages, Awaiting
  <2> QED
    BY <1>9, <2>1, <2>2 DEF Committed
<1>10. CASE Completed(r)
  BY <1>10, FinishType DEF Completed, Ended
<1>11. CASE Released(r)
  BY <1>11, FinishType DEF Released, Ended
<1> QED
  BY <1>1, <1>2, <1>3, <1>4, <1>5, <1>6, <1>7, <1>8, <1>9, <1>10, <1>11 DEF Proceed

\* What happens to a request.
LEMMA TypeOthers ==
  ASSUME TypeOK, NEW r \in Requests, Land(r) \/ Fails(r) \/ Crash(r)
  PROVE  TypeOK'
<1> USE DEF TypeOK
<1>1. CASE Land(r)
  <2>1. sent[r] \in SessionWrites \union LaneWrites
    BY <1>1 DEF Land, CallsOK, Awaiting
  <2>2. StoresOK'
    BY <1>1, <2>1, KeysApart DEF Land, Store, StoresOK
  <2>3. CallsOK'
    BY <1>1 DEF Land, CallsOK, Awaiting
  <2>4. LocalsOK' /\ HoldersOK'
    BY <1>1 DEF Land, LocalsOK, HoldersOK, locals
  <2> QED
    BY <2>2, <2>3, <2>4
<1>2. CASE Fails(r)
  <2>1. StoresOK'
    BY <1>2, AbandonedType DEF Fails, StoresOK
  <2>2. CASE Finish(r, "failed")
    BY <2>1, <2>2, FinishType DEF Ended
  <2>3. CASE Release(r) /\ UNCHANGED locals
    <3>1. CallsOK' /\ pc'[r] = "releasing"
      BY <2>3, ReleaseType
    <3>2. HoldersOK'
      BY <2>3, <3>1, HoldersKept DEF Release, Send, CallsOK, locals, Stages, Awaiting
    <3>3. LocalsOK'
      BY <2>3 DEF LocalsOK, locals
    <3> QED
      BY <2>1, <3>1, <3>2, <3>3
  <2> QED
    BY <1>2, <2>2, <2>3 DEF Fails
<1>3. CASE Crash(r)
  <2>1. StoresOK'
    BY <1>3, AbandonedType DEF Crash, StoresOK
  <2> QED
    BY <1>3, <2>1, FinishType DEF Crash, Ended
<1> QED
  BY <1>1, <1>2, <1>3

LEMMA TypeLandLate ==
  ASSUME TypeOK, NEW w \in late, LandLate(w)
  PROVE  TypeOK'
<1> USE DEF TypeOK
<1>1. w \in SessionWrites \union LaneWrites
  BY DEF StoresOK
<1>2. StoresOK'
  BY <1>1, KeysApart DEF LandLate, Store, StoresOK
<1>3. CallsOK' /\ LocalsOK' /\ HoldersOK'
  BY DEF LandLate, CallsOK, LocalsOK, HoldersOK, locals, calls
<1> QED
  BY <1>2, <1>3

LEMMA TypeTick ==
  ASSUME TypeOK, Tick
  PROVE  TypeOK'
<1> USE DEF TypeOK
<1>1. StoresOK'
  BY AgedType, AgedWriteType DEF Tick, StoresOK
<1>2. LocalsOK'
  BY AgedType DEF Tick, LocalsOK
<1>3. HoldersOK'
  BY AgedType DEF Tick, HoldersOK, LocalsOK
<1>4. \A r \in Requests : Sooner(due[r]) \in 0 .. CallTime
  BY TimesType DEF CallsOK, Sooner
<1>5. \A r \in Requests : AgedWrite(sent[r]) \in {NoWrite} \union SessionWrites \union LaneWrites
  BY AgedWriteType DEF CallsOK
<1>6. \A r \in Requests :
        /\ sent[r] \in LaneWrites => AgedWrite(sent[r]) \in LaneWrites
        /\ sent[r] \in SessionWrites => AgedWrite(sent[r]) \in SessionWrites
        /\ sent[r] = NoWrite => AgedWrite(sent[r]) = NoWrite
  BY AgedWriteType
<1>7. CallsOK'
  BY <1>4, <1>5, <1>6 DEF Tick, CallsOK
<1> QED
  BY <1>1, <1>2, <1>3, <1>7

LEMMA TypeStep == TypeOK /\ [Next]_vars => TypeOK'
<1> SUFFICES ASSUME TypeOK, [Next]_vars PROVE TypeOK'
  OBVIOUS
<1>1. CASE UNCHANGED vars
  BY <1>1 DEF TypeOK, StoresOK, LocalsOK, CallsOK, HoldersOK, vars, locals, calls
<1>2. CASE Next
  BY <1>2, TypeProceed, TypeOthers, TypeLandLate, TypeTick DEF Next
<1> QED
  BY <1>1, <1>2

\* Whatever the requests, envelopes, lanes and times, the state keeps its types.
THEOREM TypeCorrect == Spec => []TypeOK
  BY TypeInit, TypeStep, PTL DEF Spec

--------------------------------------------------------------------------------
(* What is known and what is pending, whatever the number of attempts.          *)

\* A session is reserved by requests of its owner only.
Identified(m) == m.token \in Requests => m.owner = IdentityOf[EnvOf[m.token]]

\* m is the session s or an older one.  The leases of equal versions are equal too,
\* since all leases age together.
Known(m, s) ==
  /\ m.version <= s.version
  /\ m.applied \subseteq s.applied
  /\ m.version = s.version => m = s
  /\ Identified(m)

KnownLane(m, l) ==
  /\ m.version <= l.version
  /\ m.applied \subseteq l.applied
  /\ m.version = l.version => m = l

\* A write extends the model it was computed from, which is s if it can still land.
Extends(w, s) ==
  /\ w.next.version <= s.version + 1
  /\ w.next.version = s.version + 1 => w.next.applied = s.applied \union {w.id}
  /\ w.next.applied \subseteq s.applied \union {w.id}
  /\ Identified(w.next)

ExtendsLane(w, l) ==
  /\ w.next.version <= l.version + 1
  /\ w.next.version = l.version + 1
       => w.next.applied = l.applied \union {w.id} /\ w.next.steps = l.steps + 1

\* Only what its lane has committed is routed.
CommittedFirst(id, l) ==
  \A r \in Requests : id = RouteId(r) /\ LaneOf[EnvOf[r]] = "stateful" => LaneId(r) \in l.applied

Pending(w, s, l) ==
  IF w.key = "session" THEN Extends(w, s) /\ CommittedFirst(w.id, l) ELSE ExtendsLane(w, l)

LaneSound(l) ==
  IsFiniteSet(l.applied) /\ l.steps = Cardinality(l.applied) /\ l.version = l.steps

StateInv ==
  /\ Known(NoSession, session) /\ Identified(session)
  /\ KnownLane(NoLane, lane) /\ LaneSound(lane)
  /\ \A id \in session.applied : CommittedFirst(id, lane)

ReadInv(r) ==
  Known(current[r], session) /\ Known(reserved[r], session) /\ KnownLane(laneSeen[r], lane)

CallInv(r) ==
  /\ pc[r] \in Awaiting /\ ~landed[r] => Pending(sent[r], session, lane)
  /\ landed[r] /\ sent[r].key = "session"
       => sent[r].id \in session.applied /\ Known(sent[r].next, session)
  /\ landed[r] /\ sent[r].key = "lane" => sent[r].id \in lane.applied
  /\ pc[r] = "committing" => sent[r].id = LaneId(r)
  /\ pc[r] = "completing" => sent[r].id = RouteId(r)
  /\ pc[r] = "done" => RouteId(r) \in session.applied

KnowledgeInv ==
  /\ StateInv
  /\ \A r \in Requests : ReadInv(r) /\ CallInv(r)
  /\ \A w \in late : Pending(w, session, lane)

LEMMA KnownNow ==
  /\ \A s \in SessionModels : Identified(s) => Known(s, s)
  /\ \A l \in LaneModels : KnownLane(l, l)
  BY DEF Known, KnownLane, SessionModels, LaneModels

LEMMA NewWrite ==
  ASSUME NEW s \in SessionModels, NEW m \in SessionModels, Known(m, s),
         NEW id \in SessionIds, NEW c \in SessionModels, Identified(c)
  PROVE  Extends(SessionWrite(id, m, c), s)
<1> DEFINE w == SessionWrite(id, m, c)
<1>1. /\ w.id = id /\ w.next.version = m.version + 1 /\ w.next.applied = m.applied \union {id}
      /\ w.next.token = c.token /\ w.next.owner = c.owner
  BY WriteFields
<1> HIDE DEF w
<1>2. m.version \in Nat /\ s.version \in Nat
  BY DEF SessionModels
<1>3. Identified(w.next)
  BY <1>1 DEF Identified
<1> QED
  BY <1>1, <1>2, <1>3 DEF Extends, Known, w

\* A session write lands: it is the session, everything known stays so, and every
\* other write is too late.
LEMMA SessionLanding ==
  ASSUME NEW s \in SessionModels, NEW w \in SessionWrites, Extends(w, s),
         s.version + 1 = w.next.version
  PROVE  /\ w.next.applied = s.applied \union {w.id}
         /\ Identified(w.next) /\ Known(w.next, w.next)
         /\ \A m \in SessionModels : Known(m, s) => Known(m, w.next)
         /\ \A v \in SessionWrites : Extends(v, s) => Extends(v, w.next)
<1> DEFINE t == w.next
<1>1. t \in SessionModels /\ t.version \in Nat /\ s.version \in Nat
  BY KeysApart DEF SessionModels
<1>2. t.applied = s.applied \union {w.id} /\ Identified(t)
  BY DEF Extends
<1>3. Known(t, t)
  BY <1>1, <1>2, KnownNow
<1>4. s.version + 1 = t.version
  OBVIOUS
<1> HIDE DEF t
<1>5. ASSUME NEW m \in SessionModels, Known(m, s) PROVE Known(m, t)
  <2>1. m.version \in Nat
    BY DEF SessionModels
  <2> QED
    BY <1>1, <1>2, <1>4, <1>5, <2>1 DEF Known
<1>6. ASSUME NEW v \in SessionWrites, Extends(v, s) PROVE Extends(v, t)
  <2>1. v.next.version \in Nat
    BY KeysApart DEF SessionModels
  <2> QED
    BY <1>1, <1>2, <1>4, <1>6, <2>1 DEF Extends
<1> QED
  BY <1>2, <1>3, <1>5, <1>6 DEF t

LEMMA LaneLanding ==
  ASSUME NEW l \in LaneModels, NEW w \in LaneWrites, LaneSound(l), ExtendsLane(w, l),
         l.version + 1 = w.next.version, w.id \notin l.applied
  PROVE  /\ LaneSound(w.next) /\ w.next.applied = l.applied \union {w.id}
         /\ \A m \in LaneModels : KnownLane(m, l) => KnownLane(m, w.next)
         /\ \A v \in LaneWrites : ExtendsLane(v, l) => ExtendsLane(v, w.next)
         /\ \A id : CommittedFirst(id, l) => CommittedFirst(id, w.next)
<1> DEFINE t == w.next
<1>1. t \in LaneModels /\ t.version \in Nat /\ l.version \in Nat
  BY KeysApart DEF LaneModels
<1>2. t.applied = l.applied \union {w.id} /\ t.steps = l.steps + 1 /\ t.version = l.version + 1
  BY DEF ExtendsLane
<1> HIDE DEF t
<1>3. LaneSound(t)
  <2>1. IsFiniteSet(t.applied) /\ Cardinality(t.applied) = Cardinality(l.applied) + 1
    BY <1>2, FS_AddElement, SMTT(30) DEF LaneSound
  <2> QED
    BY <1>2, <2>1 DEF LaneSound
<1>4. ASSUME NEW m \in LaneModels, KnownLane(m, l) PROVE KnownLane(m, t)
  <2>1. m.version \in Nat
    BY DEF LaneModels
  <2> QED
    BY <1>1, <1>2, <1>4, <2>1 DEF KnownLane
<1>5. ASSUME NEW v \in LaneWrites, ExtendsLane(v, l) PROVE ExtendsLane(v, t)
  <2>1. v.next.version \in Nat
    BY KeysApart DEF LaneModels
  <2> QED
    BY <1>1, <1>2, <1>5, <2>1 DEF ExtendsLane
<1>6. \A id : CommittedFirst(id, l) => CommittedFirst(id, t)
  BY <1>2 DEF CommittedFirst
<1> QED
  BY <1>2, <1>3, <1>4, <1>5, <1>6 DEF t

LEMMA Aging ==
  ASSUME NEW s \in SessionModels
  PROVE  /\ \A m \in SessionModels : Known(m, s) => Known(Aged(m), Aged(s))
         /\ \A w \in SessionWrites : Extends(w, s) => Extends(AgedWrite(w), Aged(s))
         /\ Identified(s) => Identified(Aged(s))
         /\ Aged(s).applied = s.applied
         /\ Aged(NoSession) = NoSession
<1>1. ASSUME NEW m \in SessionModels PROVE Identified(m) => Identified(Aged(m))
  BY AgedType DEF Identified
<1>2. ASSUME NEW m \in SessionModels, Known(m, s) PROVE Known(Aged(m), Aged(s))
  BY <1>1, <1>2, AgedType DEF Known
<1>3. ASSUME NEW w \in SessionWrites, Extends(w, s) PROVE Extends(AgedWrite(w), Aged(s))
  <2>1. w.next \in SessionModels
    BY KeysApart
  <2>2. AgedWrite(w).id = w.id /\ AgedWrite(w).next = Aged(w.next)
    BY AgedWriteType
  <2>3. Aged(w.next).version = w.next.version /\ Aged(w.next).applied = w.next.applied
    BY <2>1, AgedType
  <2>4. Identified(Aged(w.next))
    BY <1>1, <1>3, <2>1 DEF Extends
  <2> QED
    BY <1>3, <2>2, <2>3, <2>4, AgedType DEF Extends
<1>4. Aged(NoSession) = NoSession
  BY DEF Aged, NoSession, Sooner
<1> QED
  BY <1>1, <1>2, <1>3, <1>4, AgedType

LEMMA KnowledgeInit == Init => KnowledgeInv
<1> SUFFICES ASSUME Init PROVE KnowledgeInv
  OBVIOUS
<1>1. Identified(NoSession)
  BY NoneIsNoRequest DEF Identified, NoSession
<1>2. Known(NoSession, NoSession) /\ KnownLane(NoLane, NoLane)
  BY <1>1, KnownNow, NoModels
<1>3. LaneSound(NoLane)
  BY FS_EmptySet DEF LaneSound, NoLane
<1>4. StateInv
  BY <1>1, <1>2, <1>3 DEF Init, StateInv, NoSession
<1>5. \A r \in Requests : ReadInv(r) /\ CallInv(r)
  BY <1>2 DEF Init, ReadInv, CallInv, Awaiting
<1> QED
  BY <1>4, <1>5 DEF Init, KnowledgeInv

\* A step of one request that changes neither store.
OnlyMoves(r) ==
  /\ UNCHANGED <<session, lane>>
  /\ late' \subseteq Abandoned(r)
  /\ \A q \in Requests \ {r} :
       /\ pc'[q] = pc[q] /\ sent'[q] = sent[q] /\ landed'[q] = landed[q] /\ due'[q] = due[q]
       /\ current'[q] = current[q] /\ reserved'[q] = reserved[q] /\ laneSeen'[q] = laneSeen[q]

LEMMA MoveKeepsKnowledge ==
  ASSUME KnowledgeInv, NEW r \in Requests, OnlyMoves(r), ReadInv(r)', CallInv(r)'
  PROVE  KnowledgeInv'
<1>1. session' = session /\ lane' = lane
  BY DEF OnlyMoves
<1>2. StateInv'
  BY <1>1 DEF KnowledgeInv, StateInv
<1>3. ASSUME NEW q \in Requests PROVE ReadInv(q)' /\ CallInv(q)'
  <2>1. CASE q = r
    BY <2>1
  <2>2. CASE q # r
    BY <1>1, <2>2 DEF OnlyMoves, KnowledgeInv, ReadInv, CallInv
  <2> QED
    BY <2>1, <2>2
<1>4. \A w \in late' : Pending(w, session', lane')
  BY <1>1 DEF OnlyMoves, Abandoned, KnowledgeInv, CallInv
<1> QED
  BY <1>2, <1>3, <1>4 DEF KnowledgeInv

LEMMA FinishMoves ==
  ASSUME TypeOK, NEW r \in Requests, NEW stage \in Ended, Finish(r, stage),
         UNCHANGED <<session, lane>>, late' \subseteq Abandoned(r)
  PROVE  /\ OnlyMoves(r)
         /\ pc'[r] = stage /\ sent'[r] = NoWrite /\ ~landed'[r] /\ due'[r] = 0
         /\ current'[r] = NoSession /\ reserved'[r] = NoSession /\ laneSeen'[r] = NoLane
  BY DEF TypeOK, CallsOK, LocalsOK, OnlyMoves, Finish, End

LEMMA SendMoves ==
  ASSUME TypeOK, NEW r \in Requests, NEW write, NEW stage, Send(r, write, stage),
         UNCHANGED <<session, lane, current, laneSeen>>, late' \subseteq Abandoned(r),
         \E a \in SessionModels : reserved' = [reserved EXCEPT ![r] = a]
  PROVE  /\ OnlyMoves(r)
         /\ pc'[r] = stage /\ sent'[r] = write /\ ~landed'[r] /\ due'[r] = CallTime
         /\ current'[r] = current[r] /\ laneSeen'[r] = laneSeen[r]
  BY DEF TypeOK, CallsOK, LocalsOK, OnlyMoves, Send

LEMMA EndMoves ==
  ASSUME TypeOK, NEW r \in Requests, NEW stage, End(r, stage),
         UNCHANGED <<session, lane, late, laneSeen>>,
         \E a \in SessionModels : current' = [current EXCEPT ![r] = a],
         \E a \in SessionModels : reserved' = [reserved EXCEPT ![r] = a]
  PROVE  /\ OnlyMoves(r)
         /\ pc'[r] = stage /\ sent'[r] = NoWrite /\ ~landed'[r] /\ due'[r] = 0
         /\ laneSeen'[r] = laneSeen[r]
  BY DEF TypeOK, CallsOK, LocalsOK, OnlyMoves, End, Abandoned

LEMMA StepMoves ==
  ASSUME TypeOK, NEW r \in Requests, NEW stage, pc' = [pc EXCEPT ![r] = stage],
         UNCHANGED <<session, lane, late, calls, reserved>>,
         \E a \in SessionModels : current' = [current EXCEPT ![r] = a],
         \E a \in LaneModels : laneSeen' = [laneSeen EXCEPT ![r] = a]
  PROVE  OnlyMoves(r) /\ pc'[r] = stage
  BY DEF TypeOK, CallsOK, LocalsOK, OnlyMoves, calls, Abandoned

\* The request ends.
LEMMA FinishKeepsKnowledge ==
  ASSUME TypeOK, KnowledgeInv, NEW r \in Requests, NEW stage \in Ended, Finish(r, stage),
         UNCHANGED <<session, lane>>, late' \subseteq Abandoned(r),
         stage = "done" => RouteId(r) \in session.applied
  PROVE  KnowledgeInv'
<1>1. /\ OnlyMoves(r)
      /\ pc'[r] = stage /\ ~landed'[r]
      /\ current'[r] = NoSession /\ reserved'[r] = NoSession /\ laneSeen'[r] = NoLane
  BY FinishMoves
<1>2. ReadInv(r)' /\ CallInv(r)'
  BY <1>1 DEF KnowledgeInv, StateInv, ReadInv, CallInv, Ended, Awaiting
<1> QED
  BY <1>1, <1>2, MoveKeepsKnowledge

\* It sends a write.
LEMMA SendKeepsKnowledge ==
  ASSUME TypeOK, KnowledgeInv, NEW r \in Requests, NEW write, NEW stage \in Awaiting,
         Send(r, write, stage), Pending(write, session, lane),
         stage = "committing" => write.id = LaneId(r),
         stage = "completing" => write.id = RouteId(r),
         UNCHANGED <<session, lane, current, laneSeen>>, late' \subseteq Abandoned(r),
         NEW a \in SessionModels, Known(a, session), reserved' = [reserved EXCEPT ![r] = a]
  PROVE  KnowledgeInv'
<1>1. /\ OnlyMoves(r)
      /\ pc'[r] = stage /\ sent'[r] = write /\ ~landed'[r]
      /\ current'[r] = current[r] /\ laneSeen'[r] = laneSeen[r]
  BY SendMoves
<1>2. reserved'[r] = a
  BY DEF TypeOK, LocalsOK
<1>3. ReadInv(r)'
  BY <1>1, <1>2 DEF KnowledgeInv, ReadInv
<1>4. CallInv(r)'
  BY <1>1 DEF CallInv, Awaiting
<1> QED
  BY <1>1, <1>3, <1>4, MoveKeepsKnowledge

LEMMA ReleaseKeepsKnowledge ==
  ASSUME TypeOK, KnowledgeInv, NEW r \in Requests, Release(r),
         UNCHANGED <<session, lane, locals>>, late' \subseteq Abandoned(r)
  PROVE  KnowledgeInv'
<1> DEFINE m == reserved[r]
           id == <<"release", EnvOf[r], m.version>>
           w == SessionWrite(id, m, WithoutReservation(m))
<1>1. m \in SessionModels /\ m.version \in Nat /\ Known(m, session) /\ session \in SessionModels
  BY DEF TypeOK, LocalsOK, StoresOK, SessionModels, KnowledgeInv, ReadInv
<1>2. id \in SessionIds /\ \A q \in Requests : id # RouteId(q)
  BY <1>1, IdTypes DEF RouteId
<1>3. WithoutReservation(m) \in SessionModels /\ Identified(WithoutReservation(m))
  BY <1>1, LeaseEnded, NoneIsNoRequest DEF Identified
<1>4. w.key = "session" /\ w.id = id
  BY <1>1, <1>2, <1>3, WriteFields
<1>5. Pending(w, session, lane)
  BY <1>1, <1>2, <1>3, <1>4, NewWrite DEF Pending, CommittedFirst
<1>6. reserved' = [reserved EXCEPT ![r] = m]
  BY DEF TypeOK, LocalsOK, locals
<1>7. Send(r, w, "releasing")
  BY DEF Release
<1> HIDE DEF w, id, m
<1> QED
  BY <1>1, <1>5, <1>6, <1>7, SendKeepsKnowledge DEF Awaiting, locals

\* What completes a request is its lane's commit, if it has one.
LEMMA CompleteKeepsKnowledge ==
  ASSUME TypeOK, KnowledgeInv, NEW r \in Requests, Complete(r, reserved[r]),
         LaneOf[EnvOf[r]] = "stateful" => LaneId(r) \in lane.applied,
         UNCHANGED <<session, lane, late, locals>>
  PROVE  KnowledgeInv'
<1> DEFINE m == reserved[r]
           w == SessionWrite(RouteId(r), m, WithoutReservation(m))
<1>1. m \in SessionModels /\ Known(m, session) /\ session \in SessionModels
  BY DEF TypeOK, LocalsOK, StoresOK, KnowledgeInv, ReadInv
<1>2. RouteId(r) \in SessionIds /\ CommittedFirst(RouteId(r), lane)
  BY IdTypes DEF RouteId, LaneId, CommittedFirst
<1>3. WithoutReservation(m) \in SessionModels /\ Identified(WithoutReservation(m))
  BY <1>1, LeaseEnded, NoneIsNoRequest DEF Identified
<1>4. w.key = "session" /\ w.id = RouteId(r)
  BY <1>1, <1>2, <1>3, WriteFields
<1>5. Pending(w, session, lane)
  BY <1>1, <1>2, <1>3, <1>4, NewWrite DEF Pending
<1>6. reserved' = [reserved EXCEPT ![r] = m]
  BY DEF TypeOK, LocalsOK, locals
<1>7. Send(r, w, "completing") /\ late' \subseteq Abandoned(r)
  BY DEF Complete, Abandoned
<1> HIDE DEF w, m
<1> QED
  BY <1>1, <1>4, <1>5, <1>6, <1>7, SendKeepsKnowledge DEF Awaiting, locals

\* An answered call has taken effect, and says what is known.
LEMMA AnswerKnown ==
  ASSUME TypeOK, KnowledgeInv, NEW r \in Requests, pc[r] \in Awaiting \ {"committing"}
  PROVE  /\ \A m \in Answers(r) : m \in SessionModels /\ Known(m, session)
         /\ Answers(r) # {} => sent[r].id \in session.applied
<1>1. sent[r].key = "session" /\ \A m \in Answers(r) : m \in SessionModels
  BY AnswerType DEF TypeOK
<1>2. Known(session, session)
  BY KnownNow DEF TypeOK, StoresOK, KnowledgeInv, StateInv
<1>3. CallInv(r)
  BY DEF KnowledgeInv
<1> QED
  BY <1>1, <1>2, <1>3 DEF Answers, Stored, CallInv

LEMMA CommitAnswered ==
  ASSUME TypeOK, KnowledgeInv, NEW r \in Requests, pc[r] = "committing", Answers(r) # {}
  PROVE  LaneId(r) \in lane.applied
<1>1. sent[r].key = "lane"
  BY KeysApart DEF TypeOK, CallsOK
<1>2. CallInv(r)
  BY DEF KnowledgeInv
<1> QED
  BY <1>1, <1>2 DEF Answers, Stored, CallInv

LEMMA KnowledgeProceed ==
  ASSUME TypeOK, KnowledgeInv, NEW r \in Requests, Proceed(r)
  PROVE  KnowledgeInv'
<1> DEFINE m == current[r]
<1>0. /\ session \in SessionModels /\ lane \in LaneModels
      /\ current[r] \in SessionModels /\ reserved[r] \in SessionModels /\ laneSeen[r] \in LaneModels
      /\ Known(current[r], session) /\ Known(reserved[r], session) /\ KnownLane(laneSeen[r], lane)
      /\ Known(session, session) /\ KnownLane(lane, lane) /\ Known(NoSession, session)
      /\ current = [current EXCEPT ![r] = current[r]] /\ reserved = [reserved EXCEPT ![r] = reserved[r]]
      /\ laneSeen = [laneSeen EXCEPT ![r] = laneSeen[r]]
      /\ CallInv(r)
      /\ late \subseteq Abandoned(r)
  BY KnownNow DEF TypeOK, StoresOK, LocalsOK, KnowledgeInv, StateInv, ReadInv, Abandoned
<1>1. CASE ReadSession(r)
  <2>1. CASE session.version > 0 /\ current' = [current EXCEPT ![r] = session]
             /\ pc' = [pc EXCEPT ![r] = "attached"] /\ UNCHANGED <<calls, reserved, laneSeen>>
    <3>1. OnlyMoves(r) /\ pc'[r] = "attached"
      BY <1>0, <1>1, <2>1, StepMoves DEF ReadSession
    <3>2. current'[r] = session
      BY <2>1 DEF TypeOK, LocalsOK
    <3>3. ReadInv(r)' /\ CallInv(r)'
      BY <1>0, <1>1, <2>1, <3>1, <3>2 DEF ReadSession, ReadInv, CallInv, calls, Awaiting
    <3> QED
      BY <3>1, <3>3, MoveKeepsKnowledge
  <2>2. CASE session.version = 0 /\ UNCHANGED locals
             /\ Send(r, SessionWrite(<<"create", EnvOf[r]>>, NoSession,
                       [NoSession EXCEPT !.owner = IdentityOf[EnvOf[r]]]), "creating")
    <3> DEFINE c == [NoSession EXCEPT !.owner = IdentityOf[EnvOf[r]]]
               id == <<"create", EnvOf[r]>>
               w == SessionWrite(id, NoSession, c)
    <3>1. c \in SessionModels /\ Identified(c) /\ id \in SessionIds
      BY NewModel, IdTypes, NoneIsNoRequest DEF Identified
    <3>2. \A q \in Requests : id # RouteId(q)
      BY DEF RouteId
    <3>3. w.key = "session" /\ w.id = id
      BY <3>1, NoModels, WriteFields
    <3>4. Pending(w, session, lane)
      BY <1>0, <3>1, <3>2, <3>3, NoModels, NewWrite DEF Pending, CommittedFirst
    <3>5. Send(r, w, "creating")
      BY <2>2
    <3> HIDE DEF w, id, c
    <3> QED
      BY <1>0, <1>1, <2>2, <3>4, <3>5, SendKeepsKnowledge DEF ReadSession, locals, Awaiting
  <2>3. CASE Finish(r, "failed")
    BY <1>0, <1>1, <2>3, FinishKeepsKnowledge DEF ReadSession, Ended
  <2> QED
    BY <1>1, <2>1, <2>2, <2>3 DEF ReadSession
<1>2. CASE Created(r)
  <2>1. PICK a \in Answers(r) : current' = [current EXCEPT ![r] = a]
    BY <1>2 DEF Created
  <2>2. a \in SessionModels /\ Known(a, session)
    BY <1>2, <2>1, AnswerKnown DEF Created, Awaiting
  <2>3. OnlyMoves(r) /\ pc'[r] = "attached" /\ ~landed'[r]
    BY <1>0, <1>2, <2>1, <2>2, EndMoves DEF Created
  <2>4. current'[r] = a
    BY <2>1 DEF TypeOK, LocalsOK
  <2>5. ReadInv(r)' /\ CallInv(r)'
    BY <1>0, <1>2, <2>2, <2>3, <2>4 DEF Created, ReadInv, CallInv, Awaiting
  <2> QED
    BY <2>3, <2>5, MoveKeepsKnowledge
<1>3. CASE Reserve(r)
  <2>1. CASE m.owner = IdentityOf[EnvOf[r]] /\ UNCHANGED locals
             /\ Send(r, SessionWrite(<<"reserve", r>>, m, [m EXCEPT !.token = r, !.lease = TTL]), "reserving")
    <3> DEFINE c == [m EXCEPT !.token = r, !.lease = TTL]
               id == <<"reserve", r>>
               w == SessionWrite(id, m, c)
    <3>1. c \in SessionModels /\ Identified(c) /\ id \in SessionIds
      BY <1>0, <2>1, LeaseTaken, IdTypes DEF Identified
    <3>2. \A q \in Requests : id # RouteId(q)
      BY DEF RouteId
    <3>3. w.key = "session" /\ w.id = id
      BY <1>0, <3>1, WriteFields
    <3>4. Pending(w, session, lane)
      BY <1>0, <3>1, <3>2, <3>3, NewWrite DEF Pending, CommittedFirst
    <3>5. Send(r, w, "reserving")
      BY <2>1
    <3> HIDE DEF w, id, c
    <3> QED
      BY <1>0, <1>3, <2>1, <3>4, <3>5, SendKeepsKnowledge DEF Reserve, locals, Awaiting
  <2>2. CASE Finish(r, "failed")
    BY <1>0, <1>3, <2>2, FinishKeepsKnowledge DEF Reserve, Ended
  <2> QED
    BY <1>3, <2>1, <2>2 DEF Reserve
<1>4. CASE Reserved(r)
  <2>1. PICK a \in Answers(r) :
          \/ /\ reserved' = [reserved EXCEPT ![r] = a]
             /\ End(r, "routing") /\ UNCHANGED <<current, laneSeen>>
          \/ Finish(r, "failed")
    BY <1>4 DEF Reserved
  <2>2. a \in SessionModels /\ Known(a, session)
    BY <1>4, <2>1, AnswerKnown DEF Reserved, Awaiting
  <2>3. CASE reserved' = [reserved EXCEPT ![r] = a]
             /\ End(r, "routing") /\ UNCHANGED <<current, laneSeen>>
    <3>1. OnlyMoves(r) /\ pc'[r] = "routing" /\ ~landed'[r]
      BY <1>0, <1>4, <2>2, <2>3, EndMoves DEF Reserved
    <3>2. reserved'[r] = a
      BY <2>3 DEF TypeOK, LocalsOK
    <3>3. ReadInv(r)' /\ CallInv(r)'
      BY <1>0, <1>4, <2>2, <2>3, <3>1, <3>2 DEF Reserved, ReadInv, CallInv, Awaiting
    <3> QED
      BY <3>1, <3>3, MoveKeepsKnowledge
  <2>4. CASE Finish(r, "failed")
    BY <1>0, <1>4, <2>4, FinishKeepsKnowledge DEF Reserved, Ended
  <2> QED
    BY <2>1, <2>3, <2>4
<1>5. CASE Route(r)
  <2>1. CASE LaneOf[EnvOf[r]] = "stateless" /\ Complete(r, reserved[r]) /\ UNCHANGED laneSeen
    BY <1>5, <2>1, CompleteKeepsKnowledge DEF Route, locals
  <2>2. CASE laneSeen' = [laneSeen EXCEPT ![r] = lane] /\ pc' = [pc EXCEPT ![r] = "laneRead"]
             /\ UNCHANGED calls
    <3>1. OnlyMoves(r) /\ pc'[r] = "laneRead"
      BY <1>0, <1>5, <2>2, StepMoves DEF Route
    <3>2. laneSeen'[r] = lane
      BY <2>2 DEF TypeOK, LocalsOK
    <3>3. ReadInv(r)' /\ CallInv(r)'
      BY <1>0, <1>5, <2>2, <3>1, <3>2 DEF Route, ReadInv, CallInv, calls, Awaiting
    <3> QED
      BY <3>1, <3>3, MoveKeepsKnowledge
  <2> QED
    BY <1>5, <2>1, <2>2 DEF Route
<1>6. CASE RenewRead(r)
  <2>1. OnlyMoves(r) /\ pc'[r] = "renewRead"
    BY <1>0, <1>6, StepMoves DEF RenewRead
  <2>2. current'[r] = session
    BY <1>6 DEF RenewRead, TypeOK, LocalsOK
  <2>3. ReadInv(r)' /\ CallInv(r)'
    BY <1>0, <1>6, <2>1, <2>2 DEF RenewRead, ReadInv, CallInv, calls, Awaiting
  <2> QED
    BY <2>1, <2>3, MoveKeepsKnowledge
<1>7. CASE Renew(r)
  <2>1. CASE Send(r, SessionWrite(<<"renew", reserved[r].token, m.version>>, m,
                       [m EXCEPT !.lease = TTL]), "renewing")
    <3> DEFINE c == [m EXCEPT !.lease = TTL]
               id == <<"renew", reserved[r].token, m.version>>
               w == SessionWrite(id, m, c)
    <3>1. c \in SessionModels /\ Identified(c)
      BY <1>0, LeaseExtended DEF Identified, Known
    <3>2. id \in SessionIds
      <4>1. reserved[r].token = r /\ m.version \in Nat
        BY <1>7, <1>0 DEF Renew, TypeOK, HoldersOK, SessionModels
      <4> QED
        BY <4>1, IdTypes
    <3>3. \A q \in Requests : id # RouteId(q)
      BY DEF RouteId
    <3>4. w.key = "session" /\ w.id = id
      BY <1>0, <3>1, <3>2, WriteFields
    <3>5. Pending(w, session, lane)
      BY <1>0, <3>1, <3>2, <3>3, <3>4, NewWrite DEF Pending, CommittedFirst
    <3>6. Send(r, w, "renewing")
      BY <2>1
    <3> HIDE DEF w, id, c
    <3> QED
      BY <1>0, <1>7, <3>5, <3>6, SendKeepsKnowledge DEF Renew, locals, Awaiting
  <2>2. CASE Release(r)
    BY <1>0, <1>7, <2>2, ReleaseKeepsKnowledge DEF Renew
  <2> QED
    BY <1>7, <2>1, <2>2 DEF Renew
<1>8. CASE Renewed(r)
  <2> DEFINE w == [key  |-> "lane",
              id   |-> LaneId(r),
              next |-> [version |-> laneSeen[r].version + 1,
                        applied |-> laneSeen[r].applied \union {LaneId(r)},
                        steps   |-> laneSeen[r].steps + 1]]
  <2>1. PICK a \in Answers(r) : reserved' = [reserved EXCEPT ![r] = a]
    BY <1>8 DEF Renewed
  <2>2. a \in SessionModels /\ Known(a, session)
    BY <1>8, <2>1, AnswerKnown DEF Renewed, Awaiting
  <2>3. ExtendsLane(w, lane)
    BY <1>0 DEF ExtendsLane, KnownLane, LaneModels
  <2>4. w.id = LaneId(r) /\ w.key = "lane" /\ Send(r, w, "committing")
    BY <1>8 DEF Renewed
  <2> HIDE DEF w
  <2>5. Pending(w, session, lane)
    BY <2>3, <2>4 DEF Pending
  <2> QED
    BY <1>0, <1>8, <2>1, <2>2, <2>4, <2>5, SendKeepsKnowledge DEF Renewed, Awaiting
<1>9. CASE Committed(r)
  BY <1>9, CommitAnswered, CompleteKeepsKnowledge DEF Committed
<1>10. CASE Completed(r)
  <2>1. RouteId(r) \in session.applied
    BY <1>0, <1>10, AnswerKnown DEF Completed, CallInv, Awaiting
  <2> QED
    BY <1>0, <1>10, <2>1, FinishKeepsKnowledge DEF Completed, Ended
<1>11. CASE Released(r)
  BY <1>0, <1>11, FinishKeepsKnowledge DEF Released, Ended
<1> QED
  BY <1>1, <1>2, <1>3, <1>4, <1>5, <1>6, <1>7, <1>8, <1>9, <1>10, <1>11 DEF Proceed

\* A write takes effect: request r's, or an abandoned one.
LEMMA StoreKeepsKnowledge ==
  ASSUME TypeOK, KnowledgeInv, NEW w \in SessionWrites \union LaneWrites, Pending(w, session, lane),
         CanLand(w), Store(w), late' = {v \in late : v.key # w.key}, UNCHANGED <<pc, locals, sent>>,
         \A q \in Requests : landed'[q] = landed[q] \/ (pc[q] \in Awaiting /\ sent[q] = w)
  PROVE  KnowledgeInv'
<1>1. /\ session \in SessionModels /\ lane \in LaneModels /\ LaneSound(lane)
      /\ NoSession \in SessionModels /\ NoLane \in LaneModels
      /\ late \subseteq SessionWrites \union LaneWrites
      /\ \A q \in Requests :
           /\ current[q] \in SessionModels /\ reserved[q] \in SessionModels
           /\ laneSeen[q] \in LaneModels
           /\ pc[q] \in Awaiting \/ landed[q] => sent[q] \in SessionWrites \union LaneWrites
  BY NoModels DEF TypeOK, StoresOK, LocalsOK, CallsOK, Awaiting, KnowledgeInv, StateInv
<1>2. CASE w \in SessionWrites
  <2>1. w.key = "session" /\ session' = w.next /\ lane' = lane /\ Extends(w, session)
        /\ CommittedFirst(w.id, lane) /\ session.version + 1 = w.next.version
    BY <1>2, KeysApart DEF Store, Pending, CanLand, Stored
  <2>2. /\ session'.applied = session.applied \union {w.id}
        /\ Identified(session') /\ Known(session', session')
        /\ \A m \in SessionModels : Known(m, session) => Known(m, session')
        /\ \A v \in SessionWrites : Extends(v, session) => Extends(v, session')
    BY <1>1, <1>2, <2>1, SessionLanding
  <2>3. StateInv'
    BY <1>1, <2>1, <2>2 DEF KnowledgeInv, StateInv
  <2>4. \A v \in SessionWrites \union LaneWrites :
          Pending(v, session, lane) => Pending(v, session', lane')
    BY <2>1, <2>2, KeysApart DEF Pending
  <2>5. \A v \in late' : Pending(v, session', lane')
    BY <1>1, <2>4 DEF KnowledgeInv
  <2>6. ASSUME NEW q \in Requests PROVE ReadInv(q)' /\ CallInv(q)'
    <3>1. ReadInv(q) /\ CallInv(q)
      BY DEF KnowledgeInv
    <3>2. ReadInv(q)'
      BY <1>1, <2>1, <2>2, <3>1 DEF ReadInv, locals
    <3>3. pc'[q] = pc[q] /\ sent'[q] = sent[q]
      BY DEF locals
    <3>4. pc[q] \in Awaiting /\ ~landed[q] => Pending(sent[q], session', lane')
      BY <1>1, <2>4, <3>1 DEF CallInv
    <3>5. landed[q] /\ sent[q].key = "session"
            => sent[q].id \in session'.applied /\ Known(sent[q].next, session')
      BY <1>1, <2>2, <3>1, KeysApart DEF CallInv
    <3>6. w.id \in session'.applied /\ Known(w.next, session') /\ Pending(w, session', lane')
      BY <2>1, <2>2, <2>4
    <3>7. CallInv(q)'
      BY <2>1, <2>2, <3>1, <3>3, <3>4, <3>5, <3>6 DEF CallInv
    <3> QED
      BY <3>2, <3>7
  <2> QED
    BY <2>3, <2>5, <2>6 DEF KnowledgeInv
<1>3. CASE w \in LaneWrites
  <2>1. w.key = "lane" /\ lane' = w.next /\ session' = session /\ ExtendsLane(w, lane)
        /\ lane.version + 1 = w.next.version /\ w.id \notin lane.applied
    BY <1>3, KeysApart DEF Store, Pending, CanLand, Stored
  <2>2. /\ LaneSound(lane') /\ lane'.applied = lane.applied \union {w.id}
        /\ \A m \in LaneModels : KnownLane(m, lane) => KnownLane(m, lane')
        /\ \A v \in LaneWrites : ExtendsLane(v, lane) => ExtendsLane(v, lane')
        /\ \A id : CommittedFirst(id, lane) => CommittedFirst(id, lane')
    BY <1>1, <1>3, <2>1, LaneLanding
  <2>3. StateInv'
    BY <1>1, <2>1, <2>2 DEF KnowledgeInv, StateInv
  <2>4. \A v \in SessionWrites \union LaneWrites :
          Pending(v, session, lane) => Pending(v, session', lane')
    BY <2>1, <2>2, KeysApart DEF Pending
  <2>5. \A v \in late' : Pending(v, session', lane')
    BY <1>1, <2>4 DEF KnowledgeInv
  <2>6. ASSUME NEW q \in Requests PROVE ReadInv(q)' /\ CallInv(q)'
    <3>1. ReadInv(q) /\ CallInv(q)
      BY DEF KnowledgeInv
    <3>2. ReadInv(q)'
      BY <1>1, <2>1, <2>2, <3>1 DEF ReadInv, locals
    <3>3. pc'[q] = pc[q] /\ sent'[q] = sent[q]
      BY DEF locals
    <3>4. pc[q] \in Awaiting /\ ~landed[q] => Pending(sent[q], session', lane')
      BY <1>1, <2>4, <3>1 DEF CallInv
    <3>5. landed[q] /\ sent[q].key = "lane" => sent[q].id \in lane'.applied
      BY <2>2, <3>1 DEF CallInv
    <3>6. w.id \in lane'.applied /\ Pending(w, session', lane')
      BY <2>1, <2>2, <2>4
    <3>7. CallInv(q)'
      BY <2>1, <2>2, <3>1, <3>3, <3>4, <3>5, <3>6 DEF CallInv
    <3> QED
      BY <3>2, <3>7
  <2> QED
    BY <2>3, <2>5, <2>6 DEF KnowledgeInv
<1> QED
  BY <1>2, <1>3

LEMMA KnowledgeOthers ==
  ASSUME TypeOK, KnowledgeInv, NEW r \in Requests, Land(r) \/ Fails(r) \/ Crash(r)
  PROVE  KnowledgeInv'
<1>1. CASE Land(r)
  <2>1. sent[r] \in SessionWrites \union LaneWrites /\ Pending(sent[r], session, lane)
    BY <1>1 DEF Land, TypeOK, CallsOK, Awaiting, KnowledgeInv, CallInv
  <2>2. \A q \in Requests : landed'[q] = landed[q] \/ (pc[q] \in Awaiting /\ sent[q] = sent[r])
    BY <1>1 DEF Land, TypeOK, CallsOK
  <2>3. /\ CanLand(sent[r]) /\ Store(sent[r]) /\ late' = {v \in late : v.key # sent[r].key}
        /\ UNCHANGED <<pc, locals, sent>>
    BY <1>1 DEF Land
  <2> QED
    BY <2>1, <2>2, <2>3, StoreKeepsKnowledge
<1>2. CASE Fails(r)
  BY <1>2, FinishKeepsKnowledge, ReleaseKeepsKnowledge DEF Fails, Ended
<1>3. CASE Crash(r)
  BY <1>3, FinishKeepsKnowledge DEF Crash, Ended
<1> QED
  BY <1>1, <1>2, <1>3

LEMMA KnowledgeLandLate ==
  ASSUME TypeOK, KnowledgeInv, NEW w \in late, LandLate(w)
  PROVE  KnowledgeInv'
<1>1. w \in SessionWrites \union LaneWrites /\ Pending(w, session, lane)
  BY DEF TypeOK, StoresOK, KnowledgeInv
<1>2. \A q \in Requests : landed'[q] = landed[q]
  BY DEF LandLate, calls
<1>3. /\ CanLand(w) /\ Store(w) /\ late' = {v \in late : v.key # w.key}
      /\ UNCHANGED <<pc, locals, sent>>
  BY DEF LandLate, calls
<1> QED
  BY <1>1, <1>2, <1>3, StoreKeepsKnowledge

LEMMA PendingAges ==
  ASSUME NEW s \in SessionModels, NEW l, NEW w \in SessionWrites \union LaneWrites, Pending(w, s, l)
  PROVE  Pending(AgedWrite(w), Aged(s), l)
<1>1. CASE w \in SessionWrites
  <2>1. w.key = "session" /\ AgedWrite(w).key = w.key /\ AgedWrite(w).id = w.id
    BY <1>1, KeysApart, AgedWriteType
  <2> QED
    BY <1>1, <2>1, Aging DEF Pending
<1>2. CASE w \in LaneWrites
  BY <1>2, KeysApart, AgedWriteType DEF Pending
<1> QED
  BY <1>1, <1>2

LEMMA KnowledgeTick ==
  ASSUME TypeOK, KnowledgeInv, Tick
  PROVE  KnowledgeInv'
<1>1. /\ session \in SessionModels /\ NoSession \in SessionModels
      /\ late \subseteq SessionWrites \union LaneWrites
      /\ session' = Aged(session) /\ lane' = lane
  BY NoModels DEF TypeOK, StoresOK, Tick
<1>2. StateInv'
  BY <1>1, Aging DEF KnowledgeInv, StateInv
<1>3. \A w \in late' : Pending(w, session', lane')
  BY <1>1, PendingAges DEF Tick, KnowledgeInv
<1>4. ASSUME NEW r \in Requests PROVE ReadInv(r)' /\ CallInv(r)'
  <2>1. /\ current[r] \in SessionModels /\ reserved[r] \in SessionModels
        /\ current'[r] = Aged(current[r]) /\ reserved'[r] = Aged(reserved[r])
        /\ laneSeen'[r] = laneSeen[r] /\ pc'[r] = pc[r] /\ landed'[r] = landed[r]
        /\ sent'[r] = AgedWrite(sent[r])
    BY DEF TypeOK, LocalsOK, Tick
  <2>2. ReadInv(r) /\ CallInv(r)
    BY DEF KnowledgeInv
  <2>3. ReadInv(r)'
    BY <1>1, <2>1, <2>2, Aging DEF ReadInv
  <2>4. sent[r] \in SessionWrites \union LaneWrites \union {NoWrite}
    BY DEF TypeOK, CallsOK
  <2>5. AgedWrite(sent[r]).key = sent[r].key /\ AgedWrite(sent[r]).id = sent[r].id
    BY <2>4, AgedWriteType
  <2>6. pc[r] \in Awaiting /\ ~landed[r] => Pending(AgedWrite(sent[r]), session', lane')
    <3>1. pc[r] \in Awaiting => sent[r] \in SessionWrites \union LaneWrites
      BY DEF TypeOK, CallsOK, Awaiting
    <3> QED
      BY <1>1, <2>2, <3>1, PendingAges DEF CallInv
  <2>7. landed[r] /\ sent[r].key = "session"
          => sent[r].id \in session'.applied /\ Known(AgedWrite(sent[r]).next, session')
    <3>1. ASSUME landed[r], sent[r].key = "session" PROVE sent[r] \in SessionWrites
      BY <2>4, <3>1, KeysApart, NoneIsNoRequest DEF NoWrite
    <3>2. ASSUME landed[r], sent[r].key = "session" PROVE Known(Aged(sent[r].next), session')
      BY <1>1, <2>2, <3>1, <3>2, KeysApart, Aging DEF CallInv
    <3> QED
      BY <1>1, <2>2, <3>1, <3>2, Aging, AgedWriteType DEF CallInv
  <2>8. session'.applied = session.applied
    BY <1>1, Aging
  <2>9. CallInv(r)'
    BY <1>1, <2>1, <2>2, <2>5, <2>6, <2>7, <2>8 DEF CallInv
  <2> QED
    BY <2>3, <2>9
<1> QED
  BY <1>2, <1>3, <1>4 DEF KnowledgeInv

LEMMA KnowledgeStep == TypeOK /\ KnowledgeInv /\ [Next]_vars => KnowledgeInv'
<1> SUFFICES ASSUME TypeOK, KnowledgeInv, [Next]_vars PROVE KnowledgeInv'
  OBVIOUS
<1>1. CASE UNCHANGED vars
  BY <1>1 DEF KnowledgeInv, StateInv, ReadInv, CallInv, vars, locals, calls
<1>2. CASE Next
  BY <1>2, KnowledgeProceed, KnowledgeOthers, KnowledgeLandLate, KnowledgeTick DEF Next
<1> QED
  BY <1>1, <1>2

\* The conjunction the theorems below are drawn from.
THEOREM KnowledgeHolds == Spec => [](TypeOK /\ KnowledgeInv)
<1>1. Init => TypeOK /\ KnowledgeInv
  BY TypeInit, KnowledgeInit
<1>2. (TypeOK /\ KnowledgeInv) /\ [Next]_vars => (TypeOK /\ KnowledgeInv)'
  BY TypeStep, KnowledgeStep
<1> QED
  BY <1>1, <1>2, PTL DEF Spec

\* An envelope advances the counter of its lane once, however often it is delivered,
\* whoever holds the session, and whatever lands late.
THEOREM EnvelopesCountOnce == Spec => []LaneCountsEachEnvelopeOnce
<1>1. KnowledgeInv => LaneCountsEachEnvelopeOnce
  BY DEF KnowledgeInv, StateInv, LaneSound, LaneCountsEachEnvelopeOnce
<1> QED
  BY <1>1, KnowledgeHolds, PTL

\* The session never records as routed what the lane has not committed.
THEOREM CommitBeforeRouted == Spec => []RoutedMeansCommitted
<1>1. KnowledgeInv => RoutedMeansCommitted
  BY DEF KnowledgeInv, StateInv, CommittedFirst, RoutedMeansCommitted
<1> QED
  BY <1>1, KnowledgeHolds, PTL

\* An answer of success is backed by the session and by the lane.
THEOREM SuccessStaysDurable == Spec => []SuccessIsDurable
<1>1. KnowledgeInv => SuccessIsDurable
  BY DEF KnowledgeInv, StateInv, CallInv, CommittedFirst, SuccessIsDurable
<1> QED
  BY <1>1, KnowledgeHolds, PTL

\* A session is never reserved by a request of another identity.
THEOREM IdentityKept == Spec => []SessionKeepsItsIdentity
<1>1. KnowledgeInv => SessionKeepsItsIdentity
  BY DEF KnowledgeInv, StateInv, Identified, SessionKeepsItsIdentity
<1> QED
  BY <1>1, KnowledgeHolds, PTL

--------------------------------------------------------------------------------
(* Whose the reservation is, for substrate calls of one attempt.                *)

\* Requests that have given up: they await no call but their release.
Over == {"releasing", "failed", "crashed"}

\* Would the write land on s, its id apart?
Fits(w, s) == w.key = "session" /\ w.next.version = s.version + 1

\* A write that ends or replaces the reservation of s is its holder's.
Rightful(w, s) ==
  \/ w.next.token = s.token
  \/ /\ s.token \in Requests
     /\ w.id \in {RouteId(s.token), <<"release", EnvOf[s.token], s.version>>}

\* Has a renewal of r landed?
RenewedIn(s, r) == \E id \in s.applied : id[1] = "renew" /\ id[2] = r

HolderInv(r) == pc[r] \in {"committing", "completing", "releasing"} => reserved[r].token = r

\* A renewal found applied was applied by the call that finds it.
RenewInv(r) ==
  /\ pc[r] \in Awaiting /\ pc[r] # "renewing" => sent[r].id[1] # "renew"
  /\ pc[r] = "renewing" => sent[r].id[1] = "renew" /\ sent[r].id[2] = r /\ sent[r].next.token = r
  /\ RenewedIn(session, r)
       => \/ pc[r] = "renewing" /\ landed[r]
          \/ pc[r] \in {"committing", "completing"} \union Over \union Ended

RightInv(r) ==
  pc[r] \in Awaiting /\ ~landed[r] /\ Fits(sent[r], session) /\ Active(session)
    => session.token = r /\ Rightful(sent[r], session)

LateRightInv ==
  \A w \in late :
    /\ w.id[1] = "renew" => w.id[2] \in Requests /\ pc[w.id[2]] \in Over
    /\ Fits(w, session) /\ Active(session)
         => session.token \in Requests /\ pc[session.token] \in Over /\ Rightful(w, session)

ReservationInv ==
  LateRightInv /\ \A r \in Requests : HolderInv(r) /\ RenewInv(r) /\ RightInv(r)

\* A renewal is answered while the lease it set runs.
RenewalOf(r) ==
  /\ sent[r].next.lease + CallTime >= TTL + due[r]
  /\ landed[r] => session = sent[r].next

RenewalInv == \A r \in Requests : pc[r] = "renewing" => RenewalOf(r)

LEMMA ReservationInit == Init => ReservationInv
  BY DEF Init, ReservationInv, LateRightInv, HolderInv, RenewInv, RightInv, RenewedIn, NoSession, Awaiting

\* Renewals, and they alone, carry ids of renewals, which name their request.
NamedFor(write, stage, r) ==
  IF stage = "renewing" THEN write.id[1] = "renew" /\ write.id[2] = r /\ write.next.token = r
                        ELSE write.id[1] # "renew"

\* A write fits only the model it was computed from.
LEMMA FitsItsBase ==
  ASSUME NEW s \in SessionModels, NEW m \in SessionModels, Known(m, s),
         NEW id \in SessionIds, NEW c \in SessionModels, Fits(SessionWrite(id, m, c), s)
  PROVE  m = s
<1>1. m.version \in Nat /\ s.version \in Nat
  BY DEF SessionModels
<1>2. m.version + 1 = s.version + 1
  BY WriteFields DEF Fits
<1> QED
  BY <1>1, <1>2 DEF Known

LEMMA MoveKeepsReservation ==
  ASSUME ReservationInv, NEW r \in Requests, OnlyMoves(r),
         HolderInv(r)', RenewInv(r)', RightInv(r)',
         pc[r] \in Over => pc'[r] \in Over, late' \subseteq late \/ pc'[r] \in Over
  PROVE  ReservationInv'
<1>1. session' = session
  BY DEF OnlyMoves
<1>2. \A q \in Requests : pc[q] \in Over => pc'[q] \in Over
  BY DEF OnlyMoves
<1>3. \A q \in Requests : HolderInv(q)'
  BY DEF OnlyMoves, ReservationInv, HolderInv
<1>4. \A q \in Requests : RenewInv(q)'
  BY <1>1 DEF OnlyMoves, ReservationInv, RenewInv
<1>5. \A q \in Requests : RightInv(q)'
  BY <1>1 DEF OnlyMoves, ReservationInv, RightInv
<1>6. ASSUME NEW w \in late'
      PROVE  /\ w.id[1] = "renew" => w.id[2] \in Requests /\ pc'[w.id[2]] \in Over
             /\ Fits(w, session') /\ Active(session')
                  => session'.token \in Requests /\ pc'[session'.token] \in Over /\ Rightful(w, session')
  <2>1. CASE w \in late
    BY <1>1, <1>2, <2>1 DEF ReservationInv, LateRightInv
  <2>2. CASE w \notin late
    <3>1. pc'[r] \in Over /\ w = sent[r] /\ pc[r] \in Awaiting /\ ~landed[r]
      BY <2>2 DEF OnlyMoves, Abandoned
    <3>2. RenewInv(r) /\ RightInv(r)
      BY DEF ReservationInv
    <3>3. w.id[1] = "renew" => w.id[2] = r
      BY <3>1, <3>2 DEF RenewInv
    <3> QED
      BY <1>1, <3>1, <3>2, <3>3 DEF RightInv
  <2> QED
    BY <2>1, <2>2
<1> QED
  BY <1>3, <1>4, <1>5, <1>6 DEF ReservationInv, LateRightInv

LEMMA FinishKeepsReservation ==
  ASSUME TypeOK, ReservationInv, NEW r \in Requests, NEW stage \in Ended, Finish(r, stage),
         UNCHANGED <<session, lane>>, late' \subseteq Abandoned(r),
         stage \in Over \/ (pc[r] \notin Over /\ late' = late)
  PROVE  ReservationInv'
<1>1. OnlyMoves(r) /\ pc'[r] = stage
  BY FinishMoves
<1>2. HolderInv(r)' /\ RenewInv(r)' /\ RightInv(r)'
  BY <1>1 DEF HolderInv, RenewInv, RightInv, Ended, Awaiting
<1> QED
  BY <1>1, <1>2, MoveKeepsReservation

LEMMA SendKeepsReservation ==
  ASSUME TypeOK, ReservationInv, NEW r \in Requests, NEW write, NEW stage \in Awaiting,
         Send(r, write, stage),
         UNCHANGED <<session, lane, current, laneSeen>>, late' \subseteq Abandoned(r),
         NEW a \in SessionModels, reserved' = [reserved EXCEPT ![r] = a],
         stage \in {"committing", "completing", "releasing"} => a.token = r,
         NamedFor(write, stage, r),
         Fits(write, session) /\ Active(session) => session.token = r /\ Rightful(write, session),
         stage \in {"creating", "reserving", "renewing"} => ~RenewedIn(session, r),
         stage = "releasing" \/ (pc[r] \notin Over /\ late' = late)
  PROVE  ReservationInv'
<1>0. \E b \in SessionModels : reserved' = [reserved EXCEPT ![r] = b]
  OBVIOUS
<1>1. OnlyMoves(r) /\ pc'[r] = stage /\ sent'[r] = write /\ ~landed'[r]
  <2>1. OnlyMoves(r) /\ sent'[r] = write /\ ~landed'[r]
    BY <1>0, SendMoves
  <2>2. pc'[r] = stage
    BY DEF TypeOK, CallsOK, Send
  <2> QED
    BY <2>1, <2>2
<1>2. reserved'[r] = a /\ session' = session
  BY DEF TypeOK, LocalsOK
<1>3. HolderInv(r)'
  BY <1>1, <1>2 DEF HolderInv
<1>4. RenewInv(r)'
  BY <1>1, <1>2 DEF RenewInv, NamedFor, Awaiting, Over
<1>5. RightInv(r)'
  BY <1>1, <1>2 DEF RightInv
<1> QED
  BY <1>1, <1>3, <1>4, <1>5, MoveKeepsReservation DEF Over

\* A request that leaves "renewRead" or an earlier stage has not renewed.
LEMMA NotYetRenewed ==
  ASSUME ReservationInv, NEW r \in Requests,
         pc[r] \in Reading \union {"creating", "reserving"}
  PROVE  ~RenewedIn(session, r) /\ pc[r] \notin Over
  BY DEF ReservationInv, RenewInv, Reading, Over, Ended

LEMMA ReleaseKeepsReservation ==
  ASSUME TypeOK, KnowledgeInv, ReservationInv, NEW r \in Requests, Release(r),
         pc[r] \in {"routing", "laneRead", "renewRead", "renewing", "committing", "completing"},
         UNCHANGED <<session, lane, locals>>, late' \subseteq Abandoned(r)
  PROVE  ReservationInv'
<1> DEFINE m == reserved[r]
           id == <<"release", EnvOf[r], m.version>>
           w == SessionWrite(id, m, WithoutReservation(m))
<1>1. m \in SessionModels /\ m.version \in Nat /\ Known(m, session) /\ session \in SessionModels
  BY DEF TypeOK, LocalsOK, StoresOK, SessionModels, KnowledgeInv, ReadInv
<1>2. id \in SessionIds /\ id[1] = "release"
  BY <1>1, IdTypes
<1>3. WithoutReservation(m) \in SessionModels
  BY <1>1, LeaseEnded
<1>4. w.id = id
  BY <1>1, <1>2, <1>3, WriteFields
<1>5. m.token = r
  BY DEF TypeOK, HoldersOK, ReservationInv, HolderInv
<1>6. Fits(w, session) => session = m
  BY <1>1, <1>2, <1>3, FitsItsBase
<1>7. Fits(w, session) => session.token = r /\ Rightful(w, session)
  BY <1>4, <1>5, <1>6 DEF Rightful
<1>8. reserved' = [reserved EXCEPT ![r] = m] /\ UNCHANGED <<session, lane, current, laneSeen>>
  BY DEF TypeOK, LocalsOK, locals
<1>9. Send(r, w, "releasing")
  BY DEF Release
<1> HIDE DEF w, id, m
<1> QED
  BY <1>1, <1>2, <1>4, <1>5, <1>7, <1>8, <1>9, SendKeepsReservation DEF NamedFor, Awaiting

LEMMA CompleteKeepsReservation ==
  ASSUME TypeOK, KnowledgeInv, ReservationInv, NEW r \in Requests, Complete(r, reserved[r]),
         pc[r] \in {"routing", "committing"}, UNCHANGED <<session, lane, late, locals>>
  PROVE  ReservationInv'
<1> DEFINE m == reserved[r]
           w == SessionWrite(RouteId(r), m, WithoutReservation(m))
<1>1. m \in SessionModels /\ Known(m, session) /\ session \in SessionModels
  BY DEF TypeOK, LocalsOK, StoresOK, KnowledgeInv, ReadInv
<1>2. RouteId(r) \in SessionIds /\ RouteId(r)[1] = "route"
  BY IdTypes DEF RouteId
<1>3. WithoutReservation(m) \in SessionModels
  BY <1>1, LeaseEnded
<1>4. w.id = RouteId(r)
  BY <1>1, <1>2, <1>3, WriteFields
<1>5. m.token = r
  BY DEF TypeOK, HoldersOK, ReservationInv, HolderInv
<1>6. Fits(w, session) => session = m
  BY <1>1, <1>2, <1>3, FitsItsBase
<1>7. Fits(w, session) => session.token = r /\ Rightful(w, session)
  BY <1>4, <1>5, <1>6 DEF Rightful
<1>8. /\ reserved' = [reserved EXCEPT ![r] = m] /\ UNCHANGED <<session, lane, current, laneSeen>>
      /\ late' \subseteq Abandoned(r) /\ late' = late
  BY DEF TypeOK, LocalsOK, locals, Abandoned
<1>9. Send(r, w, "completing") /\ pc[r] \notin Over
  BY DEF Complete, Over
<1> HIDE DEF w, m
<1> QED
  BY <1>1, <1>2, <1>4, <1>5, <1>7, <1>8, <1>9, SendKeepsReservation DEF NamedFor, Awaiting

\* Without retries a renewal is answered by what it stored.
LEMMA RenewalAnswer ==
  ASSUME ~Retries, TypeOK, ReservationInv, NEW r \in Requests, pc[r] = "renewing",
         NEW a \in Answers(r)
  PROVE  landed[r] /\ a = sent[r].next /\ a.token = r
<1>1. sent[r].key = "session"
  BY AnswerType DEF TypeOK, Awaiting
<1>2. RenewInv(r)
  BY DEF ReservationInv
<1>3. landed[r]
  <2> SUFFICES ASSUME ~landed[r] PROVE FALSE
    OBVIOUS
  <2>1. sent[r].id \in session.applied
    BY <1>1 DEF Answers, Stored
  <2>2. RenewedIn(session, r)
    BY <1>2, <2>1 DEF RenewInv, RenewedIn
  <2> QED
    BY <1>2, <2>2 DEF RenewInv, Over, Ended
<1>4. a = sent[r].next
  BY <1>3 DEF Answers
<1> QED
  BY <1>2, <1>3, <1>4 DEF RenewInv

LEMMA ReservationProceed ==
  ASSUME ~Retries, TypeOK, KnowledgeInv, ReservationInv, NEW r \in Requests, Proceed(r)
  PROVE  ReservationInv'
<1> DEFINE m == current[r]
<1>0. /\ session \in SessionModels /\ current[r] \in SessionModels /\ reserved[r] \in SessionModels
      /\ Known(current[r], session) /\ Known(NoSession, session)
      /\ current = [current EXCEPT ![r] = current[r]] /\ reserved = [reserved EXCEPT ![r] = reserved[r]]
      /\ laneSeen = [laneSeen EXCEPT ![r] = laneSeen[r]]
      /\ lane \in LaneModels /\ laneSeen[r] \in LaneModels
      /\ late \subseteq Abandoned(r)
  BY DEF TypeOK, StoresOK, LocalsOK, KnowledgeInv, StateInv, ReadInv, Abandoned
\* A step to a stage before the renewal.
<1>a. ASSUME NEW stage \in Reading, pc'[r] = stage, OnlyMoves(r), late' = late,
             pc[r] \in Reading \union {"creating", "reserving"}
      PROVE  ReservationInv'
  <2>1. ~RenewedIn(session, r) /\ pc[r] \notin Over
    BY <1>a, NotYetRenewed
  <2>2. session' = session
    BY <1>a DEF OnlyMoves
  <2>3. HolderInv(r)' /\ RenewInv(r)' /\ RightInv(r)'
    BY <1>a, <2>1, <2>2 DEF HolderInv, RenewInv, RightInv, Reading, Awaiting
  <2> QED
    BY <1>a, <2>1, <2>3, MoveKeepsReservation
\* A session write sent before or by the renewal.
<1>b. ASSUME NEW stage \in {"creating", "reserving", "renewing"}, NEW b \in SessionModels,
             Known(b, session), NEW c \in SessionModels, NEW id \in SessionIds,
             Send(r, SessionWrite(id, b, c), stage),
             UNCHANGED <<session, lane, late, locals>>, pc[r] \in Reading,
             IF stage = "renewing" THEN id[1] = "renew" /\ id[2] = r /\ c.token = r ELSE id[1] # "renew",
             Active(b) => b.token = r /\ c.token = r
      PROVE  ReservationInv'
  <2> DEFINE w == SessionWrite(id, b, c)
  <2>1. w.id = id /\ w.next.token = c.token
    BY <1>b, WriteFields
  <2>2. Fits(w, session) => session = b
    BY <1>0, <1>b, FitsItsBase
  <2>3. Fits(w, session) /\ Active(session) => session.token = r /\ Rightful(w, session)
    BY <1>b, <2>1, <2>2 DEF Rightful
  <2>4. ~RenewedIn(session, r) /\ pc[r] \notin Over
    BY <1>b, NotYetRenewed
  <2>5. /\ UNCHANGED <<session, lane, current, laneSeen>>
        /\ late' \subseteq Abandoned(r) /\ late' = late
        /\ reserved' = [reserved EXCEPT ![r] = reserved[r]]
    BY <1>0, <1>b DEF locals
  <2>6. Send(r, w, stage) /\ stage \in Awaiting
    BY <1>b DEF Awaiting
  <2>7. NamedFor(w, stage, r)
    BY <1>b, <2>1 DEF NamedFor
  <2> HIDE DEF w
  <2> QED
    BY <1>0, <1>b, <2>3, <2>4, <2>5, <2>6, <2>7, SendKeepsReservation
<1>1. CASE ReadSession(r)
  <2>1. CASE current' = [current EXCEPT ![r] = session] /\ pc' = [pc EXCEPT ![r] = "attached"]
             /\ UNCHANGED <<calls, reserved, laneSeen>>
    BY <1>0, <1>1, <1>a, <2>1, StepMoves DEF ReadSession, Reading
  <2>2. CASE UNCHANGED locals
             /\ Send(r, SessionWrite(<<"create", EnvOf[r]>>, NoSession,
                       [NoSession EXCEPT !.owner = IdentityOf[EnvOf[r]]]), "creating")
    <3>1. <<"create", EnvOf[r]>>[1] # "renew" /\ ~Active(NoSession)
      BY DEF Active, NoSession
    <3> QED
      BY <1>0, <1>1, <1>b, <2>2, <3>1, NoModels, NewModel, IdTypes DEF ReadSession, Reading
  <2>3. CASE Finish(r, "failed")
    BY <1>0, <1>1, <2>3, FinishKeepsReservation DEF ReadSession, Ended, Over
  <2> QED
    BY <1>1, <2>1, <2>2, <2>3 DEF ReadSession
<1>2. CASE Created(r)
  <2>1. PICK a \in Answers(r) : current' = [current EXCEPT ![r] = a]
    BY <1>2 DEF Created
  <2>2. a \in SessionModels
    BY <1>2, <2>1, AnswerKnown DEF Created, Awaiting
  <2>3. OnlyMoves(r) /\ pc'[r] = "attached"
    BY <1>0, <1>2, <2>1, <2>2, EndMoves DEF Created
  <2> QED
    BY <1>2, <1>a, <2>3 DEF Created, Reading
<1>3. CASE Reserve(r)
  <2>1. CASE ~Active(m) /\ UNCHANGED locals
             /\ Send(r, SessionWrite(<<"reserve", r>>, m, [m EXCEPT !.token = r, !.lease = TTL]), "reserving")
    <3>1. <<"reserve", r>>[1] # "renew"
      OBVIOUS
    <3> QED
      BY <1>0, <1>3, <1>b, <2>1, <3>1, LeaseTaken, IdTypes DEF Reserve, Reading
  <2>2. CASE Finish(r, "failed")
    BY <1>0, <1>3, <2>2, FinishKeepsReservation DEF Reserve, Ended, Over
  <2> QED
    BY <1>3, <2>1, <2>2 DEF Reserve
<1>4. CASE Reserved(r)
  <2>1. PICK a \in Answers(r) :
          \/ /\ reserved' = [reserved EXCEPT ![r] = a]
             /\ End(r, "routing") /\ UNCHANGED <<current, laneSeen>>
          \/ Finish(r, "failed")
    BY <1>4 DEF Reserved
  <2>2. a \in SessionModels
    BY <1>4, <2>1, AnswerKnown DEF Reserved, Awaiting
  <2>3. CASE reserved' = [reserved EXCEPT ![r] = a]
             /\ End(r, "routing") /\ UNCHANGED <<current, laneSeen>>
    <3>1. OnlyMoves(r) /\ pc'[r] = "routing"
      BY <1>0, <1>4, <2>2, <2>3, EndMoves DEF Reserved
    <3> QED
      BY <1>4, <1>a, <3>1 DEF Reserved, Reading
  <2>4. CASE Finish(r, "failed")
    BY <1>0, <1>4, <2>4, FinishKeepsReservation DEF Reserved, Ended, Over
  <2> QED
    BY <2>1, <2>3, <2>4
<1>5. CASE Route(r)
  <2>1. CASE Complete(r, reserved[r]) /\ UNCHANGED laneSeen
    BY <1>5, <2>1, CompleteKeepsReservation DEF Route, locals
  <2>2. CASE laneSeen' = [laneSeen EXCEPT ![r] = lane] /\ pc' = [pc EXCEPT ![r] = "laneRead"]
             /\ UNCHANGED calls
    <3>1. OnlyMoves(r) /\ pc'[r] = "laneRead"
      BY <1>0, <1>5, <2>2, StepMoves DEF Route
    <3> QED
      BY <1>5, <1>a, <3>1 DEF Route, Reading
  <2> QED
    BY <1>5, <2>1, <2>2 DEF Route
<1>6. CASE RenewRead(r)
  <2>1. OnlyMoves(r) /\ pc'[r] = "renewRead"
    BY <1>0, <1>6, StepMoves DEF RenewRead
  <2> QED
    BY <1>6, <1>a, <2>1 DEF RenewRead, Reading
<1>7. CASE Renew(r)
  <2>0. reserved[r].token = r /\ m.version \in Nat
    BY <1>7, <1>0 DEF Renew, TypeOK, HoldersOK, SessionModels
  <2>1. CASE m.token = reserved[r].token
             /\ Send(r, SessionWrite(<<"renew", reserved[r].token, m.version>>, m,
                          [m EXCEPT !.lease = TTL]), "renewing")
    <3> DEFINE id == <<"renew", reserved[r].token, m.version>>
               c == [m EXCEPT !.lease = TTL]
    <3>1. id \in SessionIds /\ id[1] = "renew" /\ id[2] = r
      BY <2>0, IdTypes
    <3>2. c \in SessionModels /\ c.token = r
      BY <1>0, <2>0, <2>1, LeaseExtended
    <3>3. Send(r, SessionWrite(id, m, c), "renewing") /\ m.token = r
      BY <2>0, <2>1
    <3>4. UNCHANGED <<session, lane, late, locals>> /\ pc[r] \in Reading
      BY <1>7 DEF Renew, Reading
    <3> HIDE DEF id, c
    <3> QED
      BY <1>0, <1>b, <3>1, <3>2, <3>3, <3>4
  <2>2. CASE Release(r)
    BY <1>0, <1>7, <2>2, ReleaseKeepsReservation DEF Renew
  <2> QED
    BY <1>7, <2>1, <2>2 DEF Renew
<1>8. CASE Renewed(r)
  <2> DEFINE w == [key  |-> "lane",
              id   |-> LaneId(r),
              next |-> [version |-> laneSeen[r].version + 1,
                        applied |-> laneSeen[r].applied \union {LaneId(r)},
                        steps   |-> laneSeen[r].steps + 1]]
  <2>1. PICK a \in Answers(r) : reserved' = [reserved EXCEPT ![r] = a]
    BY <1>8 DEF Renewed
  <2>2. a \in SessionModels
    BY <1>8, <2>1, AnswerKnown DEF Renewed, Awaiting
  <2>3. a.token = r
    BY <1>8, <2>1, RenewalAnswer DEF Renewed
  <2>4. w.id[1] # "renew" /\ w.key = "lane" /\ Send(r, w, "committing")
    BY <1>8 DEF Renewed, LaneId
  <2> HIDE DEF w
  <2>5. ~Fits(w, session)
    BY <2>4 DEF Fits
  <2>6. pc[r] \notin Over /\ late' \subseteq Abandoned(r) /\ late' = late
        /\ UNCHANGED <<session, lane, current, laneSeen>>
    BY <1>0, <1>8 DEF Renewed, Over
  <2> QED
    BY <2>1, <2>2, <2>3, <2>4, <2>5, <2>6, SendKeepsReservation DEF NamedFor, Awaiting
<1>9. CASE Committed(r)
  BY <1>9, CompleteKeepsReservation DEF Committed
<1>10. CASE Completed(r)
  BY <1>0, <1>10, FinishKeepsReservation DEF Completed, Ended, Over
<1>11. CASE Released(r)
  BY <1>0, <1>11, FinishKeepsReservation DEF Released, Ended, Over
<1> QED
  BY <1>1, <1>2, <1>3, <1>4, <1>5, <1>6, <1>7, <1>8, <1>9, <1>10, <1>11 DEF Proceed

\* A write takes effect; if it is a renewal, its request awaits it or has given up.
LEMMA StoreKeepsReservation ==
  ASSUME TypeOK, KnowledgeInv, ReservationInv,
         NEW w \in SessionWrites \union LaneWrites, Pending(w, session, lane),
         CanLand(w), Store(w), late' = {v \in late : v.key # w.key}, UNCHANGED <<pc, locals, sent>>,
         \A q \in Requests : landed[q] => landed'[q],
         \A q \in Requests : w.id[1] = "renew" /\ w.id[2] = q
            => pc[q] \in Over \/ (pc[q] = "renewing" /\ landed'[q])
  PROVE  ReservationInv'
<1>1. /\ session \in SessionModels /\ session.version \in Nat
      /\ late' \subseteq late /\ pc' = pc /\ reserved' = reserved /\ sent' = sent
  BY DEF TypeOK, StoresOK, SessionModels, locals
<1>2. \A q \in Requests : HolderInv(q)'
  BY <1>1 DEF ReservationInv, HolderInv
<1>3. CASE w \in LaneWrites
  <2>1. session' = session
    BY <1>3, KeysApart DEF Store
  <2>2. \A q \in Requests : RenewInv(q)'
    BY <1>1, <2>1 DEF ReservationInv, RenewInv
  <2>3. \A q \in Requests : RightInv(q)'
    BY <1>1, <2>1 DEF ReservationInv, RightInv
  <2>4. LateRightInv'
    BY <1>1, <2>1 DEF ReservationInv, LateRightInv
  <2> QED
    BY <1>2, <2>2, <2>3, <2>4 DEF ReservationInv
<1>4. CASE w \in SessionWrites
  <2>1. w.key = "session" /\ session' = w.next /\ Extends(w, session)
        /\ session'.version = session.version + 1
    BY <1>4, KeysApart DEF Store, Pending, CanLand, Stored
  <2>2. session'.applied = session.applied \union {w.id}
    BY <1>1, <1>4, <2>1, SessionLanding
  <2>3. ASSUME NEW q \in Requests PROVE RenewInv(q)'
    <3>1. RenewedIn(session', q) => RenewedIn(session, q) \/ (w.id[1] = "renew" /\ w.id[2] = q)
      BY <2>2 DEF RenewedIn
    <3>2. RenewInv(q)
      BY DEF ReservationInv
    <3> QED
      BY <1>1, <3>1, <3>2 DEF RenewInv
  <2>4. ASSUME NEW q \in Requests PROVE RightInv(q)'
    <3> SUFFICES ASSUME pc[q] \in Awaiting, ~landed[q], Fits(sent[q], session') PROVE FALSE
      BY <1>1 DEF RightInv
    <3>1. sent[q].key = "session" /\ sent[q] \in SessionWrites
      BY KeysApart DEF TypeOK, CallsOK, Fits, Awaiting
    <3>2. Extends(sent[q], session)
      BY <3>1 DEF KnowledgeInv, CallInv, Pending
    <3>3. sent[q].next.version \in Nat
      BY <3>1, KeysApart DEF SessionModels
    <3> QED
      BY <1>1, <2>1, <3>2, <3>3 DEF Extends, Fits
  <2>5. LateRightInv'
    BY <1>1, <2>1 DEF ReservationInv, LateRightInv, Fits
  <2> QED
    BY <1>2, <2>3, <2>4, <2>5 DEF ReservationInv
<1> QED
  BY <1>3, <1>4

LEMMA ReservationOthers ==
  ASSUME TypeOK, KnowledgeInv, ReservationInv, NEW r \in Requests, Land(r) \/ Fails(r) \/ Crash(r)
  PROVE  ReservationInv'
<1>1. CASE Land(r)
  <2>1. sent[r] \in SessionWrites \union LaneWrites /\ Pending(sent[r], session, lane)
    BY <1>1 DEF Land, TypeOK, CallsOK, Awaiting, KnowledgeInv, CallInv
  <2>2. /\ landed'[r] /\ \A q \in Requests : landed[q] => landed'[q]
    BY <1>1 DEF Land, TypeOK, CallsOK
  <2>3. /\ CanLand(sent[r]) /\ Store(sent[r]) /\ late' = {v \in late : v.key # sent[r].key}
        /\ UNCHANGED <<pc, locals, sent>> /\ pc[r] \in Awaiting
    BY <1>1 DEF Land
  <2>4. sent[r].id[1] = "renew" => sent[r].id[2] = r /\ pc[r] = "renewing"
    BY <2>3 DEF ReservationInv, RenewInv
  <2> QED
    BY <2>1, <2>2, <2>3, <2>4, StoreKeepsReservation
<1>2. CASE Fails(r)
  BY <1>2, FinishKeepsReservation, ReleaseKeepsReservation DEF Fails, Ended, Over
<1>3. CASE Crash(r)
  BY <1>3, FinishKeepsReservation DEF Crash, Ended, Over
<1> QED
  BY <1>1, <1>2, <1>3

LEMMA ReservationLandLate ==
  ASSUME TypeOK, KnowledgeInv, ReservationInv, NEW w \in late, LandLate(w)
  PROVE  ReservationInv'
<1>1. w \in SessionWrites \union LaneWrites /\ Pending(w, session, lane)
  BY DEF TypeOK, StoresOK, KnowledgeInv
<1>2. /\ CanLand(w) /\ Store(w) /\ late' = {v \in late : v.key # w.key}
      /\ UNCHANGED <<pc, locals, sent>> /\ landed' = landed
  BY DEF LandLate, calls
<1>3. w.id[1] = "renew" => pc[w.id[2]] \in Over
  BY DEF ReservationInv, LateRightInv
<1> QED
  BY <1>1, <1>2, <1>3, StoreKeepsReservation

LEMMA ReservationTick ==
  ASSUME TypeOK, ReservationInv, Tick
  PROVE  ReservationInv'
<1>1. /\ session' = Aged(session) /\ session \in SessionModels
      /\ session'.version = session.version /\ session'.applied = session.applied
      /\ session'.token = session.token /\ session'.lease = Sooner(session.lease)
  BY AgedType DEF TypeOK, StoresOK, Tick
<1>2. Active(session') => Active(session)
  BY <1>1 DEF Active, Sooner, SessionModels
<1>3. /\ pc' = pc /\ landed' = landed /\ late' = {AgedWrite(w) : w \in late}
      /\ \A r \in Requests : /\ sent'[r] = AgedWrite(sent[r])
                             /\ reserved'[r].token = reserved[r].token
  BY AgedType DEF TypeOK, LocalsOK, Tick
<1>4. ASSUME NEW w \in SessionWrites \union LaneWrites \union {NoWrite}
      PROVE  /\ AgedWrite(w).id = w.id
             /\ Fits(AgedWrite(w), session') => Fits(w, session)
             /\ w \in SessionWrites => AgedWrite(w).next.token = w.next.token
             /\ w \in SessionWrites /\ Rightful(w, session) => Rightful(AgedWrite(w), session')
  <2>1. CASE w \in SessionWrites
    <3>1. /\ w.next \in SessionModels /\ AgedWrite(w).id = w.id /\ AgedWrite(w).key = w.key
          /\ AgedWrite(w).next = Aged(w.next)
      BY <2>1, KeysApart, AgedWriteType
    <3>2. Aged(w.next).version = w.next.version /\ Aged(w.next).token = w.next.token
      BY <3>1, AgedType
    <3> QED
      BY <1>1, <3>1, <3>2 DEF Fits, Rightful
  <2>2. CASE w \notin SessionWrites
    BY <1>1, <2>2, AgedWriteType DEF Fits
  <2> QED
    BY <2>1, <2>2
<1>5. \A w \in SessionWrites \union LaneWrites \union {NoWrite} : w.key = "session" => w \in SessionWrites
  BY KeysApart, NoneIsNoRequest DEF NoWrite
<1>6. \A r \in Requests :
        /\ sent[r] \in SessionWrites \union LaneWrites \union {NoWrite}
        /\ pc[r] = "renewing" => sent[r] \in SessionWrites
  BY DEF TypeOK, CallsOK, Awaiting
<1>7. \A r \in Requests : HolderInv(r)'
  BY <1>3 DEF ReservationInv, HolderInv
<1>8. \A r \in Requests : RenewInv(r)'
  BY <1>1, <1>3, <1>4, <1>6 DEF ReservationInv, RenewInv, RenewedIn
<1>9. \A r \in Requests : RightInv(r)'
  BY <1>1, <1>2, <1>3, <1>4, <1>5, <1>6 DEF ReservationInv, RightInv, Fits
<1>10. LateRightInv'
  <2>1. late \subseteq SessionWrites \union LaneWrites
    BY DEF TypeOK, StoresOK
  <2> QED
    BY <1>1, <1>2, <1>3, <1>4, <1>5, <2>1 DEF ReservationInv, LateRightInv, Fits
<1> QED
  BY <1>7, <1>8, <1>9, <1>10 DEF ReservationInv

LEMMA ReservationStep ==
  ASSUME ~Retries
  PROVE  TypeOK /\ KnowledgeInv /\ ReservationInv /\ [Next]_vars => ReservationInv'
<1> SUFFICES ASSUME TypeOK, KnowledgeInv, ReservationInv, [Next]_vars PROVE ReservationInv'
  OBVIOUS
<1>1. CASE UNCHANGED vars
  BY <1>1 DEF ReservationInv, LateRightInv, HolderInv, RenewInv, RightInv, vars, locals, calls
<1>2. CASE Next
  BY <1>2, ReservationProceed, ReservationOthers, ReservationLandLate, ReservationTick DEF Next
<1> QED
  BY <1>1, <1>2

\* The inductive invariant of the reservation.
THEOREM ReservationHolds ==
  ASSUME ~Retries
  PROVE  Spec => [](TypeOK /\ KnowledgeInv /\ ReservationInv)
<1>1. Init => ReservationInv
  BY ReservationInit
<1>2. TypeOK /\ KnowledgeInv /\ ReservationInv /\ [Next]_vars => ReservationInv'
  BY ReservationStep
<1> QED
  BY <1>1, <1>2, KnowledgeHolds, PTL DEF Spec

\* A request never runs its lane under another request's reservation.
THEOREM OwnReservation ==
  ASSUME ~Retries
  PROVE  Spec => []OneOwner
<1>1. TypeOK /\ ReservationInv => OneOwner
  BY DEF TypeOK, HoldersOK, ReservationInv, HolderInv, OneOwner
<1> QED
  BY <1>1, ReservationHolds, PTL

\* What lands on a reserved session is its holder's.
LEMMA LandingIsRightful ==
  ASSUME TypeOK, KnowledgeInv, ReservationInv, Active(session), session'.token # session.token,
         NEW w \in SessionWrites \union LaneWrites, Pending(w, session, lane), CanLand(w), Store(w),
         Fits(w, session) => session.token \in Requests /\ Rightful(w, session)
  PROVE  \E r \in Requests :
           /\ r = session.token
           /\ \/ RouteId(r) \in session'.applied \ session.applied
              \/ <<"release", EnvOf[r], session.version>> \in session'.applied
<1>1. w \in SessionWrites /\ w.key = "session"
  BY KeysApart DEF Store
<1>2. session' = w.next /\ session.version + 1 = w.next.version /\ w.id \notin session.applied
  BY <1>1 DEF Store, CanLand, Stored
<1>3. session'.applied = session.applied \union {w.id}
  BY <1>1, <1>2, SessionLanding DEF Pending, TypeOK, StoresOK
<1>4. Fits(w, session)
  BY <1>1, <1>2 DEF Fits
<1> QED
  BY <1>2, <1>3, <1>4 DEF Rightful

LEMMA NoTheft ==
  ASSUME TypeOK, KnowledgeInv, ReservationInv, [Next]_vars,
         Active(session), session'.token # session.token
  PROVE  \E r \in Requests :
           /\ r = session.token
           /\ \/ RouteId(r) \in session'.applied \ session.applied
              \/ <<"release", EnvOf[r], session.version>> \in session'.applied
<1>1. CASE \E r \in Requests : Land(r)
  <2>1. PICK q \in Requests : Land(q)
    BY <1>1
  <2>2. sent[q] \in SessionWrites \union LaneWrites /\ Pending(sent[q], session, lane)
    BY <2>1 DEF Land, TypeOK, CallsOK, Awaiting, KnowledgeInv, CallInv
  <2>3. CanLand(sent[q]) /\ Store(sent[q]) /\ pc[q] \in Awaiting /\ ~landed[q]
    BY <2>1 DEF Land
  <2>4. Fits(sent[q], session) => session.token \in Requests /\ Rightful(sent[q], session)
    BY <2>3 DEF ReservationInv, RightInv
  <2> QED
    BY <2>2, <2>3, <2>4, LandingIsRightful
<1>2. CASE \E w \in late : LandLate(w)
  <2>1. PICK w \in late : LandLate(w)
    BY <1>2
  <2>2. w \in SessionWrites \union LaneWrites /\ Pending(w, session, lane)
    BY DEF TypeOK, StoresOK, KnowledgeInv
  <2>3. CanLand(w) /\ Store(w)
    BY <2>1 DEF LandLate
  <2>4. Fits(w, session) => session.token \in Requests /\ Rightful(w, session)
    BY DEF ReservationInv, LateRightInv
  <2> QED
    BY <2>2, <2>3, <2>4, LandingIsRightful
<1>3. CASE Tick
  BY <1>3, AgedType DEF Tick, TypeOK, StoresOK
<1>4. CASE session' = session
  BY <1>4
<1>5. ASSUME NEW r \in Requests, Proceed(r) \/ Fails(r) \/ Crash(r) PROVE session' = session
  BY <1>5 DEF Proceed, ReadSession, Created, Reserve, Reserved, Route, RenewRead, Renew, Renewed,
              Committed, Completed, Released, Fails, Crash
<1> QED
  BY <1>1, <1>2, <1>3, <1>4, <1>5 DEF Next, vars

\* A running reservation ends by its holder's completion or release, and by nothing else.
THEOREM ReservationKept ==
  ASSUME ~Retries
  PROVE  Spec => ReservationNotStolen
<1>1. TypeOK /\ KnowledgeInv /\ ReservationInv /\ [Next]_vars
        => [Active(session) /\ session'.token # session.token
              => \E r \in Requests :
                   /\ r = session.token
                   /\ \/ RouteId(r) \in session'.applied \ session.applied
                      \/ <<"release", EnvOf[r], session.version>> \in session'.applied]_vars
  BY NoTheft
<1> QED
  BY <1>1, ReservationHolds, PTL DEF Spec, ReservationNotStolen

--------------------------------------------------------------------------------
(* The lease, when one call fits into it.                                       *)

LEMMA RenewalInit == Init => RenewalInv
  BY DEF Init, RenewalInv

\* A renewal that has landed holds the session: no other write can land.
LEMMA RenewedStands ==
  ASSUME TypeOK, ReservationInv, NEW r \in Requests, pc[r] = "renewing", landed[r],
         session = sent[r].next, Active(session)
  PROVE  /\ \A q \in Requests \ {r} : pc[q] \in Awaiting /\ ~landed[q] => ~Fits(sent[q], session)
         /\ \A w \in late : ~Fits(w, session)
<1>1. session.token = r
  BY DEF ReservationInv, RenewInv
<1>2. \A q \in Requests \ {r} : pc[q] \in Awaiting /\ ~landed[q] => ~Fits(sent[q], session)
  BY <1>1 DEF ReservationInv, RightInv
<1>3. pc[session.token] \notin Over
  BY <1>1 DEF Over
<1> QED
  BY <1>2, <1>3 DEF ReservationInv, LateRightInv

\* While a request renews, its lease outlasts its call.
LEMMA RenewalRuns ==
  ASSUME CallTime < TTL, TypeOK, ReservationInv, NEW r \in Requests, pc[r] = "renewing", RenewalOf(r)
  PROVE  /\ sent[r] \in SessionWrites /\ sent[r].next.lease > 0
         /\ landed[r] => session.token = r /\ Active(session)
<1>1. sent[r] \in SessionWrites /\ due[r] \in Nat
  BY TimesType DEF TypeOK, CallsOK, Awaiting
<1>2. sent[r].next.lease \in Nat
  BY <1>1, KeysApart DEF SessionModels
<1>3. sent[r].next.lease > 0
  BY <1>1, <1>2, TimesType DEF RenewalOf
<1>4. sent[r].next.token = r
  BY DEF ReservationInv, RenewInv
<1> QED
  BY <1>1, <1>3, <1>4, NoneIsNoRequest DEF RenewalOf, Active

LEMMA SendsApart ==
  ASSUME TypeOK, NEW r \in Requests, NEW w, NEW stage, stage # "renewing", Send(r, w, stage),
         NEW q \in Requests, pc'[q] = "renewing"
  PROVE  pc[q] = "renewing" /\ sent'[q] = sent[q] /\ landed'[q] = landed[q] /\ due'[q] = due[q]
<1>1. q # r
  BY DEF Send, TypeOK, CallsOK
<1> QED
  BY <1>1 DEF Send, TypeOK, CallsOK

LEMMA EndsApart ==
  ASSUME TypeOK, NEW r \in Requests, NEW stage, stage # "renewing", End(r, stage),
         NEW q \in Requests, pc'[q] = "renewing"
  PROVE  pc[q] = "renewing" /\ sent'[q] = sent[q] /\ landed'[q] = landed[q] /\ due'[q] = due[q]
<1>1. q # r
  BY DEF End, TypeOK, CallsOK
<1> QED
  BY <1>1 DEF End, TypeOK, CallsOK

\* Only Renew begins a renewal, and a renewal of one request is no step of another.
LEMMA RenewalsApart ==
  ASSUME TypeOK, NEW r \in Requests, Proceed(r) \/ Fails(r) \/ Crash(r),
         NEW q \in Requests, pc'[q] = "renewing"
  PROVE  /\ session' = session
         /\ \/ pc[q] = "renewing" /\ sent'[q] = sent[q] /\ landed'[q] = landed[q] /\ due'[q] = due[q]
            \/ /\ q = r /\ pc'[r] = "renewing" /\ ~landed'[r] /\ due'[r] = CallTime
               /\ sent'[r].next.lease = TTL
<1> DEFINE Same == pc[q] = "renewing" /\ sent'[q] = sent[q] /\ landed'[q] = landed[q] /\ due'[q] = due[q]
<1>1. session' = session
  BY DEF Proceed, ReadSession, Created, Reserve, Reserved, Route, RenewRead, Renew, Renewed,
         Committed, Completed, Released, Fails, Crash
<1>2. \A stage \in Ended : Finish(r, stage) => Same
  BY EndsApart DEF Finish, Ended
<1>3. Release(r) \/ Complete(r, reserved[r]) => Same
  BY SendsApart DEF Release, Complete
<1>4. \A stage \in Reading : pc' = [pc EXCEPT ![r] = stage] /\ UNCHANGED calls => Same
  BY DEF TypeOK, CallsOK, calls, Reading
<1>5. CASE ReadSession(r)
  BY <1>2, <1>4, <1>5, SendsApart DEF ReadSession, Reading, Ended
<1>6. CASE Created(r)
  BY <1>6, EndsApart DEF Created
<1>7. CASE Reserve(r)
  BY <1>2, <1>7, SendsApart DEF Reserve, Ended
<1>8. CASE Reserved(r)
  BY <1>2, <1>8, EndsApart DEF Reserved, Ended
<1>9. CASE Route(r)
  BY <1>3, <1>4, <1>9 DEF Route, Reading
<1>10. CASE RenewRead(r)
  BY <1>4, <1>10 DEF RenewRead, Reading
<1>11. CASE Renew(r)
  <2> DEFINE m == current[r]
             id == <<"renew", reserved[r].token, m.version>>
             c == [m EXCEPT !.lease = TTL]
  <2>1. CASE Send(r, SessionWrite(id, m, c), "renewing")
    <3>1. CASE q = r
      <4>1. m \in SessionModels /\ reserved[r].token = r /\ m.version \in Nat
        BY <1>11 DEF Renew, TypeOK, LocalsOK, HoldersOK, SessionModels
      <4>2. id \in SessionIds /\ c \in SessionModels /\ c.lease = TTL
        BY <4>1, IdTypes, LeaseExtended
      <4> HIDE DEF id, c, m
      <4>3. SessionWrite(id, m, c).next.lease = TTL
        BY <4>1, <4>2, WriteFields
      <4>4. sent'[r] = SessionWrite(id, m, c) /\ ~landed'[r] /\ due'[r] = CallTime
        BY <2>1 DEF Send, TypeOK, CallsOK
      <4> QED
        BY <1>1, <3>1, <4>3, <4>4
    <3>2. CASE q # r
      <4> HIDE DEF id, c
      <4>1. \A w : Send(r, w, "renewing") => Same
        BY <3>2 DEF Send, TypeOK, CallsOK
      <4> QED
        BY <1>1, <2>1, <4>1
    <3> QED
      BY <3>1, <3>2
  <2>2. CASE Release(r)
    BY <1>1, <1>3, <2>2
  <2> QED
    BY <1>11, <2>1, <2>2 DEF Renew
<1>12. CASE Renewed(r)
  BY <1>1, <1>12, SendsApart DEF Renewed
<1>13. CASE Committed(r)
  BY <1>1, <1>3, <1>13 DEF Committed
<1>14. CASE Completed(r) \/ Released(r) \/ Crash(r)
  BY <1>1, <1>2, <1>14 DEF Completed, Released, Crash, Ended
<1>15. CASE Fails(r)
  BY <1>1, <1>2, <1>3, <1>15 DEF Fails, Ended
<1> QED
  BY <1>1, <1>5, <1>6, <1>7, <1>8, <1>9, <1>10, <1>11, <1>12, <1>13, <1>14, <1>15 DEF Proceed

\* Nothing but its own write reaches the session under a renewal that has landed.
LEMMA RenewalKeepsSession ==
  ASSUME CallTime < TTL, TypeOK, ReservationInv, RenewalInv,
         NEW r \in Requests, pc[r] = "renewing", landed[r],
         (\E q \in Requests : Land(q)) \/ (\E w \in late : LandLate(w))
  PROVE  session' = session
<1>1. Active(session) /\ session = sent[r].next
  BY RenewalRuns DEF RenewalInv, RenewalOf
<1>2. /\ \A q \in Requests \ {r} : pc[q] \in Awaiting /\ ~landed[q] => ~Fits(sent[q], session)
      /\ \A w \in late : ~Fits(w, session)
  BY <1>1, RenewedStands
<1>3. \A w : CanLand(w) /\ Store(w) /\ ~Fits(w, session) => session' = session
  BY DEF CanLand, Store, Fits, Stored
<1> QED
  BY <1>2, <1>3 DEF Land, LandLate

LEMMA RenewalStep ==
  ASSUME CallTime < TTL
  PROVE  TypeOK /\ ReservationInv /\ RenewalInv /\ [Next]_vars => RenewalInv'
<1> SUFFICES ASSUME TypeOK, ReservationInv, RenewalInv, [Next]_vars,
                    NEW r \in Requests, pc'[r] = "renewing"
             PROVE  RenewalOf(r)'
  BY DEF RenewalInv
<1>1. CASE UNCHANGED vars
  BY <1>1 DEF RenewalInv, RenewalOf, vars, locals, calls
<1>2. ASSUME NEW q \in Requests, Proceed(q) \/ Fails(q) \/ Crash(q) PROVE RenewalOf(r)'
  <2>1. /\ session' = session
        /\ \/ pc[r] = "renewing" /\ sent'[r] = sent[r] /\ landed'[r] = landed[r] /\ due'[r] = due[r]
           \/ ~landed'[r] /\ due'[r] = CallTime /\ sent'[r].next.lease = TTL
    BY <1>2, RenewalsApart
  <2> QED
    BY <2>1, TimesType DEF RenewalInv, RenewalOf
<1>3. ASSUME NEW q \in Requests, Land(q) PROVE RenewalOf(r)'
  <2>1. pc[r] = "renewing" /\ sent'[r] = sent[r] /\ due'[r] = due[r]
    BY <1>3 DEF Land
  <2>2. landed[r] => session' = session
    BY <1>3, <2>1, RenewalKeepsSession
  <2>3. ~landed[r] /\ landed'[r] => session' = sent[r].next
    <3>1. landed'[r] = landed[r] \/ q = r
      BY <1>3 DEF Land, TypeOK, CallsOK
    <3>2. sent[r].key = "session"
      BY <2>1, KeysApart DEF TypeOK, CallsOK, Awaiting
    <3> QED
      BY <1>3, <3>1, <3>2 DEF Land, Store
  <2> QED
    BY <2>1, <2>2, <2>3 DEF RenewalInv, RenewalOf
<1>4. ASSUME NEW w \in late, LandLate(w) PROVE RenewalOf(r)'
  <2>1. pc[r] = "renewing" /\ sent'[r] = sent[r] /\ due'[r] = due[r] /\ landed'[r] = landed[r]
    BY <1>4 DEF LandLate, calls
  <2>2. landed[r] => session' = session
    BY <1>4, <2>1, RenewalKeepsSession
  <2> QED
    BY <2>1, <2>2 DEF RenewalInv, RenewalOf
<1>5. CASE Tick
  <2>1. pc[r] = "renewing" /\ RenewalOf(r) /\ landed'[r] = landed[r] /\ due[r] > 0
    BY <1>5 DEF Tick, Awaiting, RenewalInv
  <2>2. sent[r] \in SessionWrites /\ sent[r].next.lease > 0
    BY <2>1, RenewalRuns
  <2>3. sent'[r].next = Aged(sent[r].next) /\ sent[r].next \in SessionModels
    BY <1>5, <2>2, AgedWriteType, KeysApart DEF Tick
  <2>4. sent'[r].next.lease = sent[r].next.lease - 1 /\ sent[r].next.lease \in Nat
    BY <2>2, <2>3, AgedType DEF Sooner, SessionModels
  <2>5. due'[r] = due[r] - 1 /\ due[r] \in Nat
    BY <1>5, <2>1, TimesType DEF Tick, Sooner, TypeOK, CallsOK
  <2>6. landed[r] => session' = sent'[r].next
    BY <1>5, <2>1, <2>3 DEF Tick, RenewalOf
  <2> QED
    BY <2>1, <2>4, <2>5, <2>6, TimesType DEF RenewalOf
<1> QED
  BY <1>1, <1>2, <1>3, <1>4, <1>5 DEF Next

\* If a lease outlasts one substrate call, a lane commit starts only under the
\* running reservation of its request.
THEOREM CommitUnderLease ==
  ASSUME ~Retries, CallTime < TTL
  PROVE  Spec => CommitStartsUnderLease
<1> DEFINE Held == \A r \in Requests :
             pc[r] = "renewing" /\ pc'[r] = "committing" => session.token = r /\ Active(session)
<1>1. Init => RenewalInv
  BY RenewalInit
<1>2. TypeOK /\ ReservationInv /\ RenewalInv /\ [Next]_vars => RenewalInv'
  BY RenewalStep
<1>3. TypeOK /\ ReservationInv /\ RenewalInv /\ [Next]_vars => [Held]_vars
  <2> SUFFICES ASSUME TypeOK, ReservationInv, RenewalInv, Next, NEW r \in Requests,
                      pc[r] = "renewing", pc'[r] = "committing"
               PROVE  session.token = r /\ Active(session)
    OBVIOUS
  <2>1. Renewed(r)
    <3>1. ASSUME NEW q \in Requests, Land(q) \/ Tick \/ (\E w \in late : LandLate(w)) PROVE FALSE
      BY <3>1 DEF Land, Tick, LandLate
    <3>2. ASSUME NEW q \in Requests \ {r}, Proceed(q) \/ Fails(q) \/ Crash(q) PROVE FALSE
      BY <3>2 DEF TypeOK, CallsOK, Proceed, ReadSession, Created, Reserve, Reserved, Route, RenewRead,
                  Renew, Renewed, Committed, Completed, Released, Fails, Crash, Finish, End, Send,
                  Release, Complete, calls, locals
    <3>3. ~Fails(r) /\ ~Crash(r)
      BY DEF TypeOK, CallsOK, Fails, Crash, Finish, End, Release, Send
    <3>4. Proceed(r) => Renewed(r)
      BY DEF Proceed, ReadSession, Created, Reserve, Reserved, Route, RenewRead,
             Renew, Committed, Completed, Released
    <3> QED
      BY <3>1, <3>2, <3>3, <3>4 DEF Next
  <2>2. PICK a \in Answers(r) : TRUE
    BY <2>1 DEF Renewed
  <2>3. landed[r]
    BY <2>2, RenewalAnswer
  <2> QED
    BY <2>3, RenewalRuns DEF RenewalInv
<1> QED
  BY <1>1, <1>2, <1>3, ReservationHolds, PTL DEF Spec, CommitStartsUnderLease
================================================================================
