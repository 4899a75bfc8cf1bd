---------------------------- MODULE SubstrateProofs ----------------------------
(* Proofs about Substrate, for any calls, ids and number of attempts.          *)
EXTENDS Substrate, SequenceTheorems, TLAPS

-----------------------------------------------------------------------------
(* State models.                                                           *)

\* The model of a missing key is a model.
LEMMA BlankIsModel == Blank \in Model
  BY DEF Blank, Model

\* A call writes a model.
LEMMA NextModelType ==
  ASSUME NEW c \in Calls, NEW m \in Model
  PROVE  NextModel(c, m) \in Model
  BY IdOfType DEF NextModel, Model

\* Writing over the state of a history gives the state of the history with the
\* write appended.
LEMMA NextStateAfter ==
  ASSUME NEW s \in Seq(Calls), NEW c \in Calls
  PROVE  NextModel(c, StateAfter(s)) = StateAfter(Append(s, c))
<1> DEFINE t == Append(s, c)
           old == StateAfter(s).applied
           new == StateAfter(t).applied
<1>1. t \in Seq(Calls) /\ Len(t) = Len(s) + 1 /\ t[Len(t)] = c
  OBVIOUS
<1>2. \A i \in 1 .. Len(s) : t[i] = s[i]
  OBVIOUS
<1>3. t # <<>>
  BY <1>1, EmptySeq
<1>4. old \in Seq(Ids) /\ Len(old) = Len(s) /\ \A i \in 1 .. Len(s) : old[i] = IdOf[s[i]]
  BY IdOfType DEF StateAfter
<1>5. new \in Seq(Ids) /\ Len(new) = Len(t) /\ \A i \in 1 .. Len(t) : new[i] = IdOf[t[i]]
  <2>1. \A i \in 1 .. Len(t) : IdOf[t[i]] \in Ids
    BY <1>1, IdOfType
  <2> QED
    BY <1>1, <2>1 DEF StateAfter
<1>6. Append(old, IdOf[c]) = new
  <2>1. /\ Append(old, IdOf[c]) \in Seq(Ids)
        /\ Len(Append(old, IdOf[c])) = Len(new)
    BY <1>1, <1>4, <1>5, IdOfType
  <2>2. \A i \in 1 .. Len(Append(old, IdOf[c])) : Append(old, IdOf[c])[i] = new[i]
    BY <1>1, <1>2, <1>4, <1>5, IdOfType
  <2> HIDE DEF old, new
  <2> QED
    BY <1>5, <2>1, <2>2, SeqEqual
<1>7. QED
  BY <1>1, <1>3, <1>6 DEF NextModel, StateAfter

\* The state of a history is a model whose version counts the history.
LEMMA StateAfterType ==
  ASSUME NEW s \in Seq(Calls)
  PROVE  /\ StateAfter(s) \in Model
         /\ StateAfter(s).version = Len(s)
         /\ Len(StateAfter(s).applied) = Len(s)
<1>1. StateAfter(s).applied \in Seq(Ids) /\ Len(StateAfter(s).applied) = Len(s)
  BY IdOfType DEF StateAfter
<1>2. (IF s = <<>> THEN None ELSE s[Len(s)]) \in Calls \union {None}
  OBVIOUS
<1>3. QED
  BY <1>1, <1>2 DEF StateAfter, Model

\* A prefix of a history stays a prefix when the history grows.
LEMMA PrefixStays ==
  ASSUME NEW s \in Seq(Calls), NEW c \in Calls, NEW n \in 0 .. Len(s)
  PROVE  /\ SubSeq(Append(s, c), 1, n) = SubSeq(s, 1, n)
         /\ SubSeq(s, 1, n) \in Seq(Calls)
         /\ Len(SubSeq(s, 1, n)) = n
  OBVIOUS

\* A history is its own longest prefix.
LEMMA WholePrefix ==
  ASSUME NEW s \in Seq(Calls)
  PROVE  SubSeq(s, 1, Len(s)) = s
  OBVIOUS

\* The ids of a prefix are ids of the whole history.
LEMMA AppliedInPrefix ==
  ASSUME NEW s \in Seq(Calls), NEW n \in 0 .. Len(s), NEW id,
         Applied(id, StateAfter(SubSeq(s, 1, n)))
  PROVE  Applied(id, StateAfter(s))
<1> DEFINE p == SubSeq(s, 1, n)
<1>1. p \in Seq(Calls) /\ Len(p) = n /\ \A i \in 1 .. n : p[i] = s[i]
  OBVIOUS
<1>2. PICK i \in 1 .. n : IdOf[p[i]] = id
  BY <1>1, StateAfterType DEF Applied, StateAfter
<1>3. i \in 1 .. Len(s) /\ IdOf[s[i]] = id
  BY <1>1, <1>2
<1>4. QED
  BY <1>3, StateAfterType DEF Applied, StateAfter

\* A call that took effect has its id in the state.
LEMMA EffectIsApplied ==
  ASSUME NEW s \in Seq(Calls), NEW c \in Calls, Occurs(c, s)
  PROVE  Applied(IdOf[c], StateAfter(s))
  BY StateAfterType DEF Occurs, Applied, StateAfter

-----------------------------------------------------------------------------
(* Type correctness.                                                       *)

\* An attempt in progress is one of the attempts the policy allows.
TriesCount ==
  \A c \in Calls :
    /\ call[c] = "running" => tries[c] \in 1 .. MaxAttempts
    /\ call[c] = "backoff" => tries[c] \in 1 .. MaxAttempts - 1

Typed == TypeOK /\ TriesCount

\* The initial state is well typed.
LEMMA TypedInitially == Init => Typed
  BY MaxAttemptsType, BlankIsModel
     DEF Init, Typed, TypeOK, TriesCount, Outcomes, Awaits

\* Moving an attempt on keeps the types of what it has in hand.
LEMMA AdvanceTyped ==
  ASSUME TypeOK, NEW a \in Attempts, NEW await \in Awaits \union {"ok", "conflict"},
         NEW model \in Model, NEW tag \in Nat, Advance(a, await, model, tag)
  PROVE  /\ pc' \in [Attempts -> {"idle"} \union Awaits \union {"ok", "conflict"}]
         /\ seen' \in [Attempts -> Model]
         /\ etag' \in [Attempts -> Nat]
  BY DEF TypeOK, Advance

\* Every step of an attempt preserves the types.
LEMMA AttemptTyped ==
  ASSUME Typed, NEW a \in Attempts, AttemptStep(a)
  PROVE  Typed'
<1> DEFINE AttemptsTyped ==
             /\ pc \in [Attempts -> {"idle"} \union Awaits \union {"ok", "conflict"}]
             /\ seen \in [Attempts -> Model]
             /\ etag \in [Attempts -> Nat]
<1>0. /\ a[1] \in Calls
      /\ object.model \in Model /\ object.etag \in Nat
      /\ seen[a] \in Model
  BY DEF Attempts, Typed, TypeOK
<1>1. CASE ReadCurrent(a)
  <2>1. AttemptsTyped'
    <3> USE DEF ReadCurrent, Typed, Awaits
    <3>1. CASE Advance(a, "ok", object.model, 0)
      BY <1>0, <3>1, AdvanceTyped
    <3>2. CASE Advance(a, "conflict", Blank, 0)
      BY <3>2, BlankIsModel, AdvanceTyped
    <3>3. CASE Advance(a, "get", object.model, 0)
      BY <1>0, <3>3, AdvanceTyped
    <3>4. QED
      BY <1>1, <3>1, <3>2, <3>3
  <2>2. UNCHANGED <<object, callVars, deleter, effects>>
    BY <1>1 DEF ReadCurrent
  <2>3. QED
    BY <2>1, <2>2 DEF callVars, Typed, TypeOK, TriesCount
<1>2. CASE GetObject(a)
  <2>1. AttemptsTyped'
    <3> USE DEF GetObject, Typed, Awaits
    <3>1. CASE Advance(a, "put", seen[a], object.etag)
      BY <1>0, <3>1, AdvanceTyped
    <3>2. CASE Advance(a, "reread", Blank, 0)
      BY <3>2, BlankIsModel, AdvanceTyped
    <3>3. QED
      BY <1>2, <3>1, <3>2
  <2>2. UNCHANGED <<object, callVars, deleter, effects>>
    BY <1>2 DEF GetObject
  <2>3. QED
    BY <2>1, <2>2 DEF callVars, Typed, TypeOK, TriesCount
<1>3. CASE PutLands(a)
  <2>1. NextModel(a[1], seen[a]) \in Model
    BY <1>0, NextModelType
  <2>2. AttemptsTyped'
    BY <1>3, <2>1, AdvanceTyped DEF PutLands, Typed
  <2>3. effects' \in Seq(Calls)
    BY <1>0, <1>3 DEF PutLands, Typed, TypeOK
  <2>4. object' \in [etag: Nat, model: Model]
    BY <1>0, <1>3, <2>1 DEF PutLands
  <2>5. UNCHANGED <<callVars, deleter>>
    BY <1>3 DEF PutLands
  <2>6. QED
    BY <2>2, <2>3, <2>4, <2>5 DEF callVars, Typed, TypeOK, TriesCount
<1>4. CASE PutRefused(a)
  <2>1. AttemptsTyped'
    BY <1>4, BlankIsModel, AdvanceTyped DEF PutRefused, Typed, Awaits
  <2>2. UNCHANGED <<object, callVars, deleter, effects>>
    BY <1>4 DEF PutRefused
  <2>3. QED
    BY <2>1, <2>2 DEF callVars, Typed, TypeOK, TriesCount
<1>5. CASE RereadLatest(a)
  <2>1. AttemptsTyped'
    <3> USE DEF RereadLatest, Typed
    <3>1. CASE Advance(a, "ok", object.model, 0)
      BY <1>0, <3>1, AdvanceTyped
    <3>2. CASE Advance(a, "conflict", Blank, 0)
      BY <3>2, BlankIsModel, AdvanceTyped
    <3>3. QED
      BY <1>5, <3>1, <3>2
  <2>2. UNCHANGED <<object, callVars, deleter, effects>>
    BY <1>5 DEF RereadLatest
  <2>3. QED
    BY <2>1, <2>2 DEF callVars, Typed, TypeOK, TriesCount
<1>6. QED
  BY <1>1, <1>2, <1>3, <1>4, <1>5 DEF AttemptStep

\* Every step of a call preserves the types.
LEMMA CallTyped ==
  ASSUME Typed, NEW c \in Calls, CallStep(c)
  PROVE  Typed'
<1> USE MaxAttemptsType
    DEF Typed, TypeOK, TriesCount, Outcomes, Awaits, callVars, attemptVars
<1>1. CASE Invoke(c)
  <2>1. object.model.version \in Nat /\ <<c, 1>> \in Attempts
    BY DEF Model, Attempts
  <2>2. QED
    BY <1>1, <2>1 DEF Invoke, StartAttempt
<1>2. CASE Settle(c)
  <2>1. Current(c) \in Attempts
    BY <1>2 DEF Settle, Current, Attempts
  <2>2. seen[Current(c)] \in Model
    BY <2>1
  <2>3. returned' \in [Calls -> Model]
    BY <1>2, <2>2 DEF Settle
  <2>4. call' \in [Calls -> {"idle", "running", "backoff"} \union Outcomes]
    BY <1>2 DEF Settle
  <2>5. TriesCount'
    BY <1>2 DEF Settle
  <2>6. QED
    BY <1>2, <2>3, <2>4, <2>5 DEF Settle
<1>3. CASE AttemptFails(c)
  BY <1>3, SMTT(30) DEF AttemptFails
<1>4. CASE Retry(c)
  BY <1>4 DEF Retry, StartAttempt, Attempts
<1>5. QED
  BY <1>1, <1>2, <1>3, <1>4 DEF CallStep

\* Every step of a delete preserves the types.
LEMMA DeleteTyped ==
  ASSUME Typed, NEW d \in Deleters, DeleteGet(d) \/ DeletePut(d)
  PROVE  Typed'
<1> USE BlankIsModel DEF Typed, TypeOK, TriesCount, callVars, attemptVars
<1>1. CASE DeleteGet(d)
  <2> DEFINE read == [pc   |-> IF object.model.version = 0 THEN "done" ELSE "put",
                      etag |-> object.etag,
                      seen |-> object.model]
  <2>1. read \in [pc: {"get", "put", "done"}, etag: Nat, seen: Model]
    OBVIOUS
  <2>2. deleter' = [deleter EXCEPT ![d] = read]
    BY <1>1 DEF DeleteGet
  <2> HIDE DEF read
  <2>3. deleter' \in [Deleters -> [pc: {"get", "put", "done"}, etag: Nat, seen: Model]]
    BY <2>1, <2>2
  <2>4. UNCHANGED <<object, call, expected, tries, returned, pc, seen, etag, effects>>
    BY <1>1 DEF DeleteGet
  <2>5. QED
    BY <2>3, <2>4
<1>2. CASE DeletePut(d)
  <2>1. deleter' \in [Deleters -> [pc: {"get", "put", "done"}, etag: Nat, seen: Model]]
    BY <1>2 DEF DeletePut
  <2>2. object' \in [etag: Nat, model: Model] /\ effects' \in Seq(Calls)
    <3>1. CASE object' = [etag |-> object.etag + 1, model |-> Blank] /\ effects' = <<>>
      BY <3>1
    <3>2. CASE UNCHANGED <<object, effects>>
      BY <3>2
    <3>3. QED
      BY <1>2, <3>1, <3>2 DEF DeletePut
  <2>3. UNCHANGED <<call, expected, tries, returned, pc, seen, etag>>
    BY <1>2 DEF DeletePut
  <2>4. QED
    BY <2>1, <2>2, <2>3
<1>3. QED
  BY <1>1, <1>2

\* Every step preserves the types.
LEMMA TypedNext == Typed /\ [Next]_vars => Typed'
<1> SUFFICES ASSUME Typed, [Next]_vars PROVE Typed'
  OBVIOUS
<1>1. CASE Next
  BY <1>1, AttemptTyped, CallTyped, DeleteTyped DEF Next
<1>2. CASE UNCHANGED vars
  BY <1>2 DEF vars, callVars, attemptVars, Typed, TypeOK, TriesCount
<1>3. QED
  BY <1>1, <1>2

\* The variables always have their types, whatever the calls, the deletes and the
\* number of attempts.
THEOREM TypeCorrect == Spec => []TypeOK
<1>1. Spec => []Typed
  BY TypedInitially, TypedNext, PTL DEF Spec
<1>2. Typed => TypeOK
  BY DEF Typed
<1>3. QED
  BY <1>1, <1>2, PTL

-----------------------------------------------------------------------------
(* A transition id takes effect at most once.                              *)

WellFormed(model) ==
  /\ model.version = Len(model.applied)
  /\ Distinct(model.applied)

\* What an attempt between its read and its put has in hand: it can only put a
\* model that extends a well formed one with an id it does not hold.
InHandUnapplied ==
  \A a \in Attempts :
    pc[a] \in {"get", "put"} => WellFormed(seen[a]) /\ ~Applied(IdOf[a[1]], seen[a])

OnceInv == Typed /\ WellFormed(object.model) /\ InHandUnapplied

\* Writing an id that a well formed model does not hold leaves it well formed.
LEMMA NextWellFormed ==
  ASSUME NEW c \in Calls, NEW m \in Model, WellFormed(m), ~Applied(IdOf[c], m)
  PROVE  WellFormed(NextModel(c, m))
<1> DEFINE old == m.applied
           new == Append(old, IdOf[c])
<1>1. old \in Seq(Ids) /\ IdOf[c] \in Ids
  BY IdOfType DEF Model
<1>2. /\ Len(new) = Len(old) + 1 /\ new[Len(new)] = IdOf[c]
      /\ \A i \in 1 .. Len(old) : new[i] = old[i]
  BY <1>1
<1>3. \A i \in 1 .. Len(old) : old[i] # IdOf[c]
  BY DEF Applied
<1>4. Distinct(old)
  BY DEF WellFormed
<1>5. ASSUME NEW i \in 1 .. Len(new), NEW j \in 1 .. Len(new), new[i] = new[j]
      PROVE  i = j
  <2>1. CASE i \in 1 .. Len(old) /\ j \in 1 .. Len(old)
    BY <1>2, <1>4, <1>5, <2>1 DEF Distinct
  <2>2. CASE i = Len(new) \/ j = Len(new)
    <3> HIDE DEF new
    <3> QED
      BY <1>1, <1>2, <1>3, <1>5, <2>2
  <2>3. QED
    BY <1>1, <1>2, <2>1, <2>2
<1>6. Distinct(new)
  BY <1>5 DEF Distinct
<1>7. m.version + 1 = Len(new)
  BY <1>2 DEF WellFormed
<1>8. QED
  BY <1>6, <1>7 DEF WellFormed, NextModel

\* The empty key is well formed.
LEMMA BlankWellFormed == WellFormed(Blank)
  BY DEF WellFormed, Blank, Distinct

\* An attempt that moves on keeps the other attempts' models in hand.
LEMMA AdvanceInHand ==
  ASSUME Typed, InHandUnapplied, NEW a \in Attempts, NEW await, NEW model, NEW tag,
         Advance(a, await, model, tag),
         await \in {"get", "put"} => WellFormed(model) /\ ~Applied(IdOf[a[1]], model)
  PROVE  InHandUnapplied'
<1> SUFFICES ASSUME NEW b \in Attempts, pc'[b] \in {"get", "put"}
             PROVE  WellFormed(seen'[b]) /\ ~Applied(IdOf[b[1]], seen'[b])
  BY DEF InHandUnapplied, WellFormed, Applied, Distinct
<1>1. CASE b = a
  BY <1>1 DEF Advance, Typed, TypeOK
<1>2. CASE b # a
  BY <1>2 DEF Advance, Typed, TypeOK, InHandUnapplied
<1>3. QED
  BY <1>1, <1>2

\* No step applies an id twice.
LEMMA OnceNext == OnceInv /\ [Next]_vars => OnceInv'
<1> SUFFICES ASSUME OnceInv, [Next]_vars PROVE OnceInv'
  OBVIOUS
<1>0. Typed'
  BY TypedNext DEF OnceInv
<1>a. ASSUME UNCHANGED <<pc, seen>> PROVE InHandUnapplied'
  BY <1>a DEF OnceInv, InHandUnapplied, WellFormed, Applied, Distinct
<1>b. ASSUME object'.model = object.model PROVE WellFormed(object.model)'
  BY <1>b DEF OnceInv, WellFormed, Distinct
<1>1. ASSUME NEW a \in Attempts, AttemptStep(a)
      PROVE  WellFormed(object.model)' /\ InHandUnapplied'
  <2> USE DEF OnceInv
  <2>0. a[1] \in Calls /\ seen[a] \in Model
    BY DEF Attempts, Typed, TypeOK
  <2>1. CASE ReadCurrent(a)
    BY <2>1, <1>b, AdvanceInHand DEF ReadCurrent
  <2>2. CASE GetObject(a)
    BY <2>2, <1>b, AdvanceInHand DEF GetObject, InHandUnapplied
  <2>3. CASE PutLands(a)
    <3>1. WellFormed(NextModel(a[1], seen[a]))
      BY <2>0, <2>3, NextWellFormed DEF PutLands, InHandUnapplied
    <3>2. InHandUnapplied'
      BY <2>3, AdvanceInHand DEF PutLands
    <3>3. object'.model = NextModel(a[1], seen[a])
      BY <2>3 DEF PutLands
    <3>4. QED
      BY <3>1, <3>2, <3>3 DEF WellFormed, Distinct
  <2>4. CASE PutRefused(a)
    BY <2>4, <1>b, AdvanceInHand DEF PutRefused
  <2>5. CASE RereadLatest(a)
    BY <2>5, <1>b, AdvanceInHand DEF RereadLatest
  <2>6. QED
    BY <1>1, <2>1, <2>2, <2>3, <2>4, <2>5 DEF AttemptStep
<1>2. ASSUME NEW c \in Calls, CallStep(c)
      PROVE  WellFormed(object.model)' /\ InHandUnapplied'
  <2>1. object' = object
    BY <1>2 DEF CallStep, Invoke, Settle, AttemptFails, Retry
  <2>2. ASSUME NEW n \in 1 .. MaxAttempts, StartAttempt(c, n) PROVE InHandUnapplied'
    BY <2>2 DEF StartAttempt, OnceInv, Typed, TypeOK, Attempts, InHandUnapplied,
                WellFormed, Applied, Distinct
  <2>3. CASE Invoke(c)
    BY <2>1, <2>2, <2>3, <1>b, MaxAttemptsType DEF Invoke
  <2>4. CASE Settle(c) \/ AttemptFails(c)
    BY <2>1, <2>4, <1>a, <1>b DEF Settle, AttemptFails, attemptVars
  <2>5. CASE Retry(c)
    <3>1. tries[c] + 1 \in 1 .. MaxAttempts
      BY <2>5, MaxAttemptsType DEF Retry, OnceInv, Typed, TypeOK, TriesCount
    <3>2. QED
      BY <2>1, <2>2, <2>5, <3>1, <1>b DEF Retry
  <2>6. QED
    BY <1>2, <2>3, <2>4, <2>5 DEF CallStep
<1>3. ASSUME NEW d \in Deleters, DeleteGet(d) \/ DeletePut(d)
      PROVE  WellFormed(object.model)' /\ InHandUnapplied'
  <2>1. InHandUnapplied'
    BY <1>3, <1>a DEF DeleteGet, DeletePut, attemptVars
  <2>2. object'.model = object.model \/ object'.model = Blank
    BY <1>3 DEF DeleteGet, DeletePut
  <2>3. QED
    BY <2>1, <2>2, <1>b, BlankWellFormed DEF WellFormed, Distinct
<1>5. ASSUME Next PROVE WellFormed(object.model)' /\ InHandUnapplied'
  BY <1>1, <1>2, <1>3, <1>5 DEF Next
<1>6. ASSUME UNCHANGED vars PROVE WellFormed(object.model)' /\ InHandUnapplied'
  BY <1>6, <1>a, <1>b DEF vars, attemptVars
<1>7. QED
  BY <1>0, <1>5, <1>6 DEF OnceInv

\* However often a transition is retried, redelivered or landed late, and whatever
\* deletes run beside it, the key never records its id twice.
THEOREM NeverAppliedTwice == Spec => []AppliedOnce
<1>1. Init => OnceInv
  <2>1. Init => InHandUnapplied
    BY DEF Init, InHandUnapplied
  <2>2. Init => WellFormed(object.model)
    BY BlankWellFormed DEF Init
  <2>3. QED
    BY <2>1, <2>2, TypedInitially DEF OnceInv
<1>2. OnceInv => AppliedOnce
  BY DEF OnceInv, WellFormed, AppliedOnce
<1>3. QED
  BY <1>1, <1>2, OnceNext, PTL DEF Spec

-----------------------------------------------------------------------------
(* A key that is never deleted is a transition log.                        *)

\* What an attempt of call c knows of the history at each of its awaits.
Consistent(c, await, model, tag) ==
  /\ await \in {"get", "put"} => /\ model.version = expected[c]
                                /\ model = StateAfter(SubSeq(effects, 1, model.version))
                                /\ ~Applied(IdOf[c], model)
  /\ await = "put" => tag = model.version
  /\ await = "ok" => \E n \in 1 .. Len(effects) :
                       /\ model = StateAfter(SubSeq(effects, 1, n))
                       /\ Applied(IdOf[c], model)
  /\ await \in {"reread", "conflict"} => expected[c] < Len(effects)
  /\ await = "conflict" => ~Occurs(c, effects)

\* What the caller of c was told.
Answered(c) ==
  /\ expected[c] <= Len(effects)
  /\ call[c] = "idle" => \A n \in 1 .. MaxAttempts : pc[<<c, n>>] = "idle"
  /\ call[c] = "ok" => /\ Applied(IdOf[c], returned[c])
                       /\ Applied(IdOf[c], StateAfter(effects))
  /\ call[c] = "conflict" => expected[c] < Len(effects) /\ ~Occurs(c, effects)

StoreInv == object.model = StateAfter(effects) /\ object.etag = Len(effects)
AttemptsInv == \A a \in Attempts : Consistent(a[1], pc[a], seen[a], etag[a])
CallsInv == \A c \in Calls : Answered(c)

LogInv == Typed /\ StoreInv /\ AttemptsInv /\ CallsInv

\* The empty key satisfies the invariant.
LEMMA LogInvInitially == Init => LogInv
<1> SUFFICES ASSUME Init PROVE LogInv
  OBVIOUS
<1>1. Blank = StateAfter(<<>>) /\ Len(<<>>) = 0
  BY DEF Blank, StateAfter
<1>2. StoreInv
  BY <1>1 DEF Init, StoreInv
<1>3. AttemptsInv
  BY DEF Init, AttemptsInv, Consistent
<1>4. CallsInv
  <2>1. \A c \in Calls, n \in 1 .. MaxAttempts : <<c, n>> \in Attempts
    BY DEF Attempts
  <2>2. ASSUME NEW c \in Calls PROVE expected[c] <= Len(effects)
    <3>1. expected[c] = 0
      BY DEF Init
    <3>2. Len(effects) = 0
      BY <1>1 DEF Init
    <3>3. QED
      BY <3>1, <3>2
  <2>3. \A c \in Calls : call[c] = "idle"
    BY DEF Init
  <2>4. \A a \in Attempts : pc[a] = "idle"
    BY DEF Init
  <2>5. QED
    BY <2>1, <2>2, <2>3, <2>4 DEF CallsInv, Answered
<1>5. QED
  BY <1>2, <1>3, <1>4, TypedInitially DEF LogInv

\* An attempt that moves on without an effect keeps the invariant when it knows what
\* its next await requires.
LEMMA QuietAdvance ==
  ASSUME LogInv, NEW a \in Attempts, NEW await, NEW model, NEW tag,
         pc[a] # "idle", Advance(a, await, model, tag),
         UNCHANGED <<object, call, expected, returned, effects>>,
         Consistent(a[1], await, model, tag)
  PROVE  StoreInv' /\ AttemptsInv' /\ CallsInv'
<1> USE DEF LogInv
<1>1. StoreInv'
  BY DEF StoreInv
<1>2. ASSUME NEW b \in Attempts
      PROVE  Consistent(b[1], pc[b], seen[b], etag[b])'
  <2>1. CASE b = a
    BY <2>1 DEF Advance, Typed, TypeOK, Consistent
  <2>2. CASE b # a
    BY <2>2 DEF Advance, Typed, TypeOK, AttemptsInv, Consistent
  <2>3. QED
    BY <2>1, <2>2
<1>3. ASSUME NEW c \in Calls PROVE Answered(c)'
  <2>1. ASSUME NEW n \in 1 .. MaxAttempts, call[c] = "idle" PROVE pc'[<<c, n>>] = "idle"
    <3>1. <<c, n>> \in Attempts /\ pc[<<c, n>>] = "idle"
      BY <2>1 DEF Attempts, CallsInv, Answered
    <3>2. QED
      BY <3>1 DEF Advance, Typed, TypeOK
  <2>2. QED
    BY <2>1 DEF CallsInv, Answered
<1>4. QED
  BY <1>1, <1>2, <1>3 DEF AttemptsInv, CallsInv

\* The read and the two checks of applyTransition.
LEMMA ReadKeepsLog ==
  ASSUME LogInv, NEW a \in Attempts, ReadCurrent(a)
  PROVE  StoreInv' /\ AttemptsInv' /\ CallsInv'
<1> DEFINE c == a[1]
<1>1. c \in Calls /\ effects \in Seq(Calls) /\ expected[c] \in Nat
  BY DEF LogInv, Typed, TypeOK, Attempts
<1>2. object.model = StateAfter(effects) /\ expected[c] <= Len(effects)
  BY <1>1 DEF LogInv, StoreInv, CallsInv, Answered
<1>3. object.model = StateAfter(SubSeq(effects, 1, Len(effects)))
      /\ object.model.version = Len(effects)
  BY <1>1, <1>2, WholePrefix, StateAfterType
<1>4. pc[a] # "idle" /\ UNCHANGED <<object, call, expected, returned, effects>>
  BY DEF ReadCurrent, callVars
<1>5. CASE Applied(IdOf[c], object.model) /\ Advance(a, "ok", object.model, 0)
  <2>1. Len(effects) # 0
    BY <1>1, <1>2, <1>5, StateAfterType DEF Applied
  <2>2. Consistent(c, "ok", object.model, 0)
    BY <1>1, <1>3, <1>5, <2>1 DEF Consistent
  <2>3. QED
    BY <1>4, <1>5, <2>2, QuietAdvance
<1>6. CASE /\ ~Applied(IdOf[c], object.model)
           /\ object.model.version # expected[c]
           /\ Advance(a, "conflict", Blank, 0)
  <2>1. expected[c] < Len(effects)
    BY <1>1, <1>2, <1>3, <1>6
  <2>2. ~Occurs(c, effects)
    BY <1>1, <1>2, <1>6, EffectIsApplied
  <2>3. QED
    BY <1>4, <1>6, <2>1, <2>2, QuietAdvance DEF Consistent
<1>7. CASE /\ ~Applied(IdOf[c], object.model)
           /\ object.model.version = expected[c]
           /\ Advance(a, "get", object.model, 0)
  <2>1. Consistent(c, "get", object.model, 0)
    BY <1>3, <1>7 DEF Consistent
  <2>2. QED
    BY <1>4, <1>7, <2>1, QuietAdvance
<1>8. QED
  BY <1>5, <1>6, <1>7 DEF ReadCurrent

\* The get of create or update.
LEMMA GetKeepsLog ==
  ASSUME LogInv, NEW a \in Attempts, GetObject(a)
  PROVE  StoreInv' /\ AttemptsInv' /\ CallsInv'
<1> DEFINE c == a[1]
<1>1. c \in Calls /\ effects \in Seq(Calls) /\ expected[c] \in Nat
  BY DEF LogInv, Typed, TypeOK, Attempts
<1>2. Consistent(c, "get", seen[a], etag[a]) /\ expected[c] <= Len(effects)
  BY <1>1 DEF LogInv, GetObject, AttemptsInv, CallsInv, Answered
<1>3. object.model.version = Len(effects) /\ object.etag = Len(effects)
  BY <1>1, StateAfterType DEF LogInv, StoreInv
<1>4. pc[a] # "idle" /\ UNCHANGED <<object, call, expected, returned, effects>>
  BY DEF GetObject, callVars
<1>5. CASE /\ object.model.version = seen[a].version
           /\ Advance(a, "put", seen[a], object.etag)
  <2>1. Consistent(c, "put", seen[a], object.etag)
    BY <1>2, <1>3, <1>5 DEF Consistent
  <2>2. QED
    BY <1>4, <1>5, <2>1, QuietAdvance
<1>6. CASE /\ object.model.version # seen[a].version
           /\ Advance(a, "reread", Blank, 0)
  <2>1. expected[c] < Len(effects)
    BY <1>1, <1>2, <1>3, <1>6 DEF Consistent
  <2>2. QED
    BY <1>4, <1>6, <2>1, QuietAdvance DEF Consistent
<1>7. QED
  BY <1>5, <1>6 DEF GetObject

\* The put that R2 refuses, and the second read that follows a conflict.
LEMMA RefusalKeepsLog ==
  ASSUME LogInv, NEW a \in Attempts, PutRefused(a) \/ RereadLatest(a)
  PROVE  StoreInv' /\ AttemptsInv' /\ CallsInv'
<1> DEFINE c == a[1]
<1>1. c \in Calls /\ effects \in Seq(Calls) /\ expected[c] \in Nat
  BY DEF LogInv, Typed, TypeOK, Attempts
<1>2. expected[c] <= Len(effects) /\ Consistent(c, pc[a], seen[a], etag[a])
  BY <1>1 DEF LogInv, AttemptsInv, CallsInv, Answered
<1>3. object.model = StateAfter(effects) /\ object.etag = Len(effects)
  BY DEF LogInv, StoreInv
<1>4. pc[a] # "idle" /\ UNCHANGED <<object, call, expected, returned, effects>>
  BY DEF PutRefused, RereadLatest, callVars
<1>5. CASE PutRefused(a)
  <2>1. expected[c] < Len(effects)
    BY <1>1, <1>2, <1>3, <1>5 DEF PutRefused, Consistent
  <2>2. QED
    BY <1>4, <1>5, <2>1, QuietAdvance DEF PutRefused, Consistent
<1>6. CASE RereadLatest(a)
  <2>1. expected[c] < Len(effects)
    BY <1>2, <1>6 DEF RereadLatest, Consistent
  <2>2. CASE Applied(IdOf[c], object.model) /\ Advance(a, "ok", object.model, 0)
    <3>0. object.model = StateAfter(SubSeq(effects, 1, Len(effects)))
      BY <1>1, <1>3, WholePrefix
    <3>1. Len(effects) \in 1 .. Len(effects)
      BY <1>1, <2>1
    <3>2. Consistent(c, "ok", object.model, 0)
      BY <2>2, <3>0, <3>1 DEF Consistent
    <3>3. QED
      BY <1>4, <2>2, <3>2, QuietAdvance
  <2>3. CASE ~Applied(IdOf[c], object.model) /\ Advance(a, "conflict", Blank, 0)
    <3>1. ~Occurs(c, effects)
      BY <1>1, <1>3, <2>3, EffectIsApplied
    <3>2. QED
      BY <1>4, <2>1, <2>3, <3>1, QuietAdvance DEF Consistent
  <2>4. QED
    BY <1>6, <2>2, <2>3 DEF RereadLatest
<1>7. QED
  BY <1>5, <1>6

\* What was true of the history stays true when it grows by another call.
LEMMA ConsistentGrows ==
  ASSUME Typed, NEW b \in Attempts, NEW d \in Calls,
         Consistent(b[1], pc[b], seen[b], etag[b]), pc[b] = "conflict" => b[1] # d,
         expected[b[1]] <= Len(effects),
         effects' = Append(effects, d), expected' = expected,
         pc'[b] = pc[b], seen'[b] = seen[b], etag'[b] = etag[b]
  PROVE  Consistent(b[1], pc[b], seen[b], etag[b])'
<1> DEFINE c == b[1]
           await == pc[b]
           model == seen[b]
<1>0. c \in Calls /\ model \in Model
  BY DEF Attempts, Typed, TypeOK
<1>1. effects \in Seq(Calls) /\ Len(effects') = Len(effects) + 1
  BY DEF Typed, TypeOK
<1>2. \A n \in 0 .. Len(effects) : SubSeq(effects', 1, n) = SubSeq(effects, 1, n)
  BY <1>1, PrefixStays
<1>3. await \in {"get", "put"} =>
        model = StateAfter(SubSeq(effects', 1, model.version))
  <2>1. model.version \in Nat
    BY <1>0 DEF Model
  <2>2. await \in {"get", "put"} => model.version \in 0 .. Len(effects)
    BY <1>1, <2>1 DEF Consistent
  <2>3. QED
    BY <1>2, <2>2 DEF Consistent
<1>4. await = "ok" => \E n \in 1 .. Len(effects') :
                        /\ model = StateAfter(SubSeq(effects', 1, n))
                        /\ Applied(IdOf[c], model)
  <2>1. \A n \in 1 .. Len(effects) : n \in 1 .. Len(effects') /\ n \in 0 .. Len(effects)
    BY <1>1
  <2>2. QED
    BY <1>2, <2>1 DEF Consistent
<1>5. await = "conflict" => ~Occurs(c, effects')
  <2>1. \A i \in 1 .. Len(effects') :
          effects'[i] = d \/ (i \in 1 .. Len(effects) /\ effects'[i] = effects[i])
    BY <1>1
  <2>2. QED
    BY <2>1 DEF Consistent, Occurs
<1>6. await \in {"reread", "conflict"} => expected'[c] < Len(effects')
  BY <1>0, <1>1 DEF Consistent, Typed, TypeOK
<1>7. QED
  BY <1>3, <1>4, <1>5, <1>6 DEF Consistent, Applied

\* The put of an attempt lands on the history it read.
LEMMA PutFacts ==
  ASSUME LogInv, NEW a \in Attempts, PutLands(a)
  PROVE  /\ a[1] \in Calls
         /\ expected[a[1]] = Len(effects)
         /\ seen[a] = StateAfter(effects)
         /\ ~Applied(IdOf[a[1]], StateAfter(effects))
<1>1. a[1] \in Calls /\ effects \in Seq(Calls)
  BY DEF LogInv, Typed, TypeOK, Attempts
<1>2. Consistent(a[1], "put", seen[a], etag[a])
  BY DEF LogInv, PutLands, AttemptsInv
<1>3. seen[a].version = Len(effects)
  BY <1>2 DEF LogInv, StoreInv, PutLands, Consistent
<1>4. seen[a] = StateAfter(effects)
  BY <1>1, <1>2, <1>3, WholePrefix DEF Consistent
<1>5. QED
  BY <1>1, <1>2, <1>3, <1>4 DEF Consistent

\* A put that lands appends its call to the history.
LEMMA PutKeepsLog ==
  ASSUME LogInv, NEW a \in Attempts, PutLands(a)
  PROVE  StoreInv' /\ AttemptsInv' /\ CallsInv'
<1> DEFINE d == a[1]
           written == NextModel(d, seen[a])
<1>1. /\ d \in Calls /\ effects \in Seq(Calls) /\ expected[d] = Len(effects)
      /\ seen[a] = StateAfter(effects) /\ ~Applied(IdOf[d], StateAfter(effects))
  BY PutFacts DEF LogInv, Typed, TypeOK
<1>2. effects' = Append(effects, d) /\ UNCHANGED <<call, expected, tries, returned>>
  BY DEF PutLands, callVars
<1>3. effects' \in Seq(Calls) /\ Len(effects') = Len(effects) + 1
  BY <1>1, <1>2
<1>4. written = StateAfter(effects')
  BY <1>1, <1>2, NextStateAfter
<1>5. Applied(IdOf[d], StateAfter(effects'))
  <2>1. Occurs(d, effects')
    BY <1>1, <1>2, <1>3 DEF Occurs
  <2>2. QED
    BY <1>1, <1>3, <2>1, EffectIsApplied
<1>6. StoreInv'
  BY <1>3, <1>4 DEF StoreInv, LogInv, PutLands
<1>7. ASSUME NEW b \in Attempts PROVE Consistent(b[1], pc[b], seen[b], etag[b])'
  <2>0. b[1] \in Calls /\ seen[b] \in Model
    BY DEF Attempts, LogInv, Typed, TypeOK
  <2>1. CASE b = a
    <3>1. pc'[b] = "ok" /\ seen'[b] = written
      BY <2>1 DEF PutLands, Advance, LogInv, Typed, TypeOK
    <3>2. Len(effects') \in 1 .. Len(effects')
      BY <1>1, <1>3
    <3>3. SubSeq(effects', 1, Len(effects')) = effects'
      BY <1>3, WholePrefix
    <3>4. written = StateAfter(SubSeq(effects', 1, Len(effects'))) /\ Applied(IdOf[d], written)
      BY <1>4, <1>5, <3>3
    <3>5. QED
      BY <2>1, <3>1, <3>2, <3>4 DEF Consistent, Applied
  <2>2. CASE b # a
    <3>1. pc'[b] = pc[b] /\ seen'[b] = seen[b] /\ etag'[b] = etag[b]
      BY <2>2 DEF PutLands, Advance, LogInv, Typed, TypeOK
    <3>2. Consistent(b[1], pc[b], seen[b], etag[b]) /\ expected[b[1]] <= Len(effects)
      BY <2>0 DEF LogInv, AttemptsInv, CallsInv, Answered
    <3>3. pc[b] = "conflict" => b[1] # d
      BY <1>1, <1>3, <3>2 DEF Consistent
    <3>4. QED
      BY <1>1, <1>2, <2>0, <3>1, <3>2, <3>3, ConsistentGrows DEF LogInv
  <2>3. QED
    BY <2>1, <2>2
<1>8. ASSUME NEW c \in Calls PROVE Answered(c)'
  <2>0. Answered(c) /\ expected[c] \in Nat
    BY DEF LogInv, CallsInv, Typed, TypeOK
  <2>1. expected'[c] <= Len(effects')
    BY <1>1, <1>2, <1>3, <2>0 DEF Answered
  <2>2. ASSUME NEW n \in 1 .. MaxAttempts, call[c] = "idle" PROVE pc'[<<c, n>>] = "idle"
    <3>1. <<c, n>> \in Attempts /\ pc[<<c, n>>] = "idle"
      BY <2>0, <2>2 DEF Attempts, Answered
    <3>2. pc[a] = "put"
      BY DEF PutLands
    <3>3. QED
      BY <3>1, <3>2 DEF PutLands, Advance, LogInv, Typed, TypeOK
  <2>3. call[c] = "ok" => Applied(IdOf[c], StateAfter(effects'))
    <3>1. SubSeq(effects', 1, Len(effects)) = effects
      <4>1. Len(effects) \in 0 .. Len(effects)
        BY <1>1
      <4>2. SubSeq(effects', 1, Len(effects)) = SubSeq(effects, 1, Len(effects))
        BY <1>1, <1>2, <4>1, PrefixStays
      <4>3. QED
        BY <1>1, <4>2, WholePrefix
    <3>2. Len(effects) \in 0 .. Len(effects')
      BY <1>1, <1>3
    <3>3. call[c] = "ok" => Applied(IdOf[c], StateAfter(effects))
      BY <2>0 DEF Answered
    <3>4. QED
      BY <1>3, <3>1, <3>2, <3>3, AppliedInPrefix
  <2>4. call[c] = "conflict" => expected'[c] < Len(effects') /\ ~Occurs(c, effects')
    <3>1. call[c] = "conflict" => c # d
      BY <1>1, <1>3, <2>0 DEF Answered
    <3>2. \A i \in 1 .. Len(effects') :
            effects'[i] = d \/ (i \in 1 .. Len(effects) /\ effects'[i] = effects[i])
      BY <1>1, <1>2, <1>3
    <3>3. QED
      BY <1>1, <1>2, <1>3, <2>0, <3>1, <3>2 DEF Answered, Occurs
  <2>5. QED
    BY <1>2, <2>0, <2>1, <2>2, <2>3, <2>4 DEF Answered, Applied
<1>9. QED
  BY <1>6, <1>7, <1>8 DEF AttemptsInv, CallsInv

\* Starting, settling, failing and retrying a call keep the invariant.
LEMMA CallKeepsLog ==
  ASSUME LogInv, NEW c \in Calls, CallStep(c)
  PROVE  StoreInv' /\ AttemptsInv' /\ CallsInv'
<1> USE DEF LogInv
<1>1. UNCHANGED <<object, effects>> /\ StoreInv'
  BY DEF CallStep, Invoke, Settle, AttemptFails, Retry, StoreInv
<1>2. /\ effects \in Seq(Calls) /\ object.model.version = Len(effects)
      /\ object.model = StateAfter(effects)
  BY StateAfterType DEF StoreInv, Typed, TypeOK
<1>3. \A b \in Attempts : b[1] \in Calls /\ b[2] \in 1 .. MaxAttempts /\ b = <<b[1], b[2]>>
  BY DEF Attempts
<1>4. \A b \in Attempts : Consistent(b[1], pc[b], seen[b], etag[b])
  BY DEF AttemptsInv
<1>5. \A e \in Calls : Answered(e)
  BY DEF CallsInv
<1>6. CASE Invoke(c)
  <2>1. /\ expected'[c] <= Len(effects)
        /\ \A e \in Calls : e # c => expected'[e] = expected[e]
    BY <1>2, <1>6 DEF Invoke, Typed, TypeOK
  <2>2. ASSUME NEW b \in Attempts PROVE Consistent(b[1], pc[b], seen[b], etag[b])'
    <3>1. CASE b[1] = c
      <4>1. pc[b] = "idle"
        BY <1>3, <1>5, <1>6, <3>1 DEF Invoke, Answered
      <4>2. pc'[b] \in {"idle", "read"}
        BY <1>6, <4>1 DEF Invoke, StartAttempt, Typed, TypeOK
      <4>3. QED
        BY <4>2 DEF Consistent
    <3>2. CASE b[1] # c
      <4>1. pc'[b] = pc[b] /\ seen'[b] = seen[b] /\ etag'[b] = etag[b]
        BY <1>6, <3>2 DEF Invoke, StartAttempt, Typed, TypeOK
      <4>2. expected'[b[1]] = expected[b[1]]
        BY <1>3, <2>1, <3>2
      <4>3. QED
        BY <1>1, <1>4, <4>1, <4>2 DEF Consistent
    <3>3. QED
      BY <3>1, <3>2
  <2>3. ASSUME NEW e \in Calls PROVE Answered(e)'
    <3>1. CASE e = c
      <4>1. call'[e] = "running"
        BY <1>6, <3>1 DEF Invoke, StartAttempt, Typed, TypeOK
      <4>2. QED
        BY <1>1, <2>1, <3>1, <4>1 DEF Answered
    <3>2. CASE e # c
      <4>1. call'[e] = call[e] /\ expected'[e] = expected[e] /\ returned'[e] = returned[e]
        BY <1>6, <2>1, <3>2 DEF Invoke, StartAttempt, Typed, TypeOK
      <4>2. \A n \in 1 .. MaxAttempts : pc'[<<e, n>>] = pc[<<e, n>>]
        BY <1>6, <3>2 DEF Invoke, StartAttempt, Typed, TypeOK, Attempts
      <4>3. QED
        BY <1>1, <1>5, <4>1, <4>2 DEF Answered
    <3>3. QED
      BY <3>1, <3>2
  <2>4. QED
    BY <1>1, <2>2, <2>3 DEF AttemptsInv, CallsInv
<1>7. ASSUME UNCHANGED <<expected, attemptVars>> PROVE AttemptsInv'
  BY <1>1, <1>4, <1>7 DEF attemptVars, AttemptsInv, Consistent
<1>8. CASE Settle(c)
  <2>1. UNCHANGED <<expected, attemptVars>>
    BY <1>8 DEF Settle
  <2>2. Current(c) \in Attempts /\ Current(c)[1] = c
    BY <1>8 DEF Settle, Current, Attempts, Typed, TypeOK, TriesCount
  <2>3. Consistent(c, pc[Current(c)], seen[Current(c)], etag[Current(c)])
    BY <1>4, <2>2
  <2>4. ASSUME NEW e \in Calls PROVE Answered(e)'
    <3>1. CASE e # c
      <4>1. call'[e] = call[e] /\ returned'[e] = returned[e]
        BY <1>8, <3>1 DEF Settle, Typed, TypeOK
      <4>2. QED
        BY <1>1, <1>5, <2>1, <4>1 DEF Answered, attemptVars
    <3>2. CASE e = c /\ pc[Current(c)] = "ok"
      <4>1. call'[c] = "ok" /\ returned'[c] = seen[Current(c)]
        BY <1>8, <3>2 DEF Settle, Typed, TypeOK
      <4>2. PICK n \in 1 .. Len(effects) :
              /\ seen[Current(c)] = StateAfter(SubSeq(effects, 1, n))
              /\ Applied(IdOf[c], seen[Current(c)])
        BY <2>3, <3>2 DEF Consistent
      <4>3. Applied(IdOf[c], StateAfter(effects))
        BY <1>2, <4>2, AppliedInPrefix
      <4>4. QED
        BY <1>1, <1>5, <2>1, <3>2, <4>1, <4>2, <4>3 DEF Answered, Applied
    <3>3. CASE e = c /\ pc[Current(c)] = "conflict"
      <4>1. call'[c] = "conflict"
        BY <1>8, <3>3 DEF Settle, Typed, TypeOK
      <4>2. QED
        BY <1>1, <1>5, <2>1, <2>3, <3>3, <4>1 DEF Answered, Consistent
    <3>4. QED
      BY <1>8, <3>1, <3>2, <3>3 DEF Settle
  <2>5. QED
    BY <1>1, <1>7, <2>1, <2>4 DEF CallsInv
<1>9. CASE AttemptFails(c)
  <2>1. UNCHANGED <<expected, returned, attemptVars>>
    BY <1>9 DEF AttemptFails
  <2>2. ASSUME NEW e \in Calls
        PROVE  call'[e] = call[e] \/ call'[e] \in {"backoff", "unavailable"}
    BY <1>9 DEF AttemptFails, Typed, TypeOK
  <2>3. CallsInv'
    BY <1>1, <1>5, <2>1, <2>2 DEF CallsInv, Answered, attemptVars
  <2>4. QED
    BY <1>1, <1>7, <2>1, <2>3
<1>10. CASE Retry(c)
  <2>1. UNCHANGED <<expected, returned, seen, etag>>
    BY <1>10 DEF Retry, StartAttempt
  <2>2. \A b \in Attempts : pc'[b] = pc[b] \/ pc'[b] = "read"
    BY <1>10 DEF Retry, StartAttempt, Typed, TypeOK
  <2>3. AttemptsInv'
    BY <1>1, <1>4, <2>1, <2>2 DEF AttemptsInv, Consistent
  <2>4. ASSUME NEW e \in Calls PROVE Answered(e)'
    <3>1. CASE e = c
      <4>1. call'[e] = "running"
        BY <1>10, <3>1 DEF Retry, StartAttempt, Typed, TypeOK
      <4>2. QED
        BY <1>1, <1>5, <2>1, <4>1 DEF Answered
    <3>2. CASE e # c
      <4>1. call'[e] = call[e]
        BY <1>10, <3>2 DEF Retry, StartAttempt, Typed, TypeOK
      <4>2. \A n \in 1 .. MaxAttempts : pc'[<<e, n>>] = pc[<<e, n>>]
        BY <1>10, <3>2 DEF Retry, StartAttempt, Typed, TypeOK, Attempts
      <4>3. QED
        BY <1>1, <1>5, <2>1, <4>1, <4>2 DEF Answered
    <3>3. QED
      BY <3>1, <3>2
  <2>5. QED
    BY <1>1, <2>3, <2>4 DEF CallsInv
<1>11. QED
  BY <1>6, <1>8, <1>9, <1>10 DEF CallStep

\* With no deletes, every step keeps the invariant.
LEMMA LogInvNext == Deleters = {} /\ LogInv /\ [Next]_vars => LogInv'
<1> SUFFICES ASSUME Deleters = {}, LogInv, [Next]_vars PROVE LogInv'
  OBVIOUS
<1>1. Typed'
  BY TypedNext DEF LogInv
<1>2. ASSUME NEW a \in Attempts, AttemptStep(a)
      PROVE  StoreInv' /\ AttemptsInv' /\ CallsInv'
  BY <1>2, ReadKeepsLog, GetKeepsLog, PutKeepsLog, RefusalKeepsLog DEF AttemptStep
<1>3. ASSUME UNCHANGED vars PROVE StoreInv' /\ AttemptsInv' /\ CallsInv'
  BY <1>3 DEF vars, callVars, attemptVars, LogInv, StoreInv, AttemptsInv, CallsInv,
              Consistent, Answered
<1>4. ASSUME Next PROVE StoreInv' /\ AttemptsInv' /\ CallsInv'
  BY <1>2, <1>4, CallKeepsLog DEF Next
<1>5. QED
  BY <1>1, <1>3, <1>4 DEF LogInv

\* The invariant holds of every behaviour without deletes.
LEMMA LogInvHolds == Deleters = {} => (Spec => []LogInv)
<1> SUFFICES ASSUME Deleters = {} PROVE Spec => []LogInv
  OBVIOUS
<1>1. LogInv /\ [Next]_vars => LogInv'
  BY LogInvNext
<1>2. QED
  BY <1>1, LogInvInitially, PTL DEF Spec

\* No put ever overwrites the effect of another: without deletes, the key holds
\* exactly the effects that landed, in order.
THEOREM NoLostUpdate == Deleters = {} => (Spec => []StoreHoldsHistory)
<1>1. LogInv => StoreHoldsHistory
  BY DEF LogInv, StoreInv, StoreHoldsHistory
<1>2. QED
  BY <1>1, LogInvHolds, PTL

\* Without deletes, a call answered "ok" has its transition in the model it got and
\* in the store, for good.
THEOREM AcknowledgedIsDurable == Deleters = {} => (Spec => []AckIsDurable)
<1>1. LogInv => AckIsDurable
  BY DEF LogInv, StoreInv, CallsInv, Answered, AckIsDurable
<1>2. QED
  BY <1>1, LogInvHolds, PTL

\* Without deletes, a call answered "conflict" never takes effect, whatever its
\* attempts that timed out still do.
THEOREM RefusalIsFinal == Deleters = {} => (Spec => []ConflictIsFinal)
<1>1. LogInv => ConflictIsFinal
  BY DEF LogInv, CallsInv, Answered, ConflictIsFinal
<1>2. QED
  BY <1>1, LogInvHolds, PTL

-----------------------------------------------------------------------------
(* Refinement: the substrate implements the transition log.                *)

\* The answer that TransitionLog sees.
Answer == [c \in Calls |-> IF call[c] \in {"running", "backoff"} THEN "pending" ELSE call[c]]

\* The initial states of the substrate are initial states of the log.
LEMMA InitRefines == Init => L!LogInit
  BY DEF Init, L!LogInit, L!Blank, Blank

\* Every step of an attempt is a stutter of the log, or applies the call's transition.
LEMMA AttemptRefines ==
  ASSUME LogInv, NEW a \in Attempts, AttemptStep(a)
  PROVE  [L!LogNext]_(L!logVars)
<1>1. UNCHANGED <<call, expected, returned>>
  BY DEF AttemptStep, ReadCurrent, GetObject, PutLands, PutRefused, RereadLatest, callVars
<1>2. CASE PutLands(a)
  <2> DEFINE c == a[1]
  <2>1. /\ c \in Calls /\ expected[c] = Len(effects) /\ expected[c] \in Nat
        /\ ~Applied(IdOf[c], StateAfter(effects))
    BY <1>2, PutFacts DEF LogInv, Typed, TypeOK
  <2>2. call[c] # "idle"
    <3>1. a = <<c, a[2]>> /\ a[2] \in 1 .. MaxAttempts
      BY DEF Attempts
    <3>2. QED
      BY <1>2, <2>1, <3>1 DEF PutLands, LogInv, CallsInv, Answered
  <2>3. call[c] \notin {"ok", "conflict"}
    BY <2>1 DEF LogInv, CallsInv, Answered
  <2>4. Answer[c] \in {"pending", "unavailable"}
    BY <2>1, <2>2, <2>3 DEF Answer, LogInv, Typed, TypeOK, Outcomes
  <2>5. effects' = Append(effects, c)
    BY <1>2 DEF PutLands
  <2>6. L!Apply(c)
    BY <1>1, <2>1, <2>4, <2>5 DEF L!Apply, Answer, L!Applied, L!StateAfter, Applied, StateAfter
  <2>7. QED
    BY <2>1, <2>6 DEF L!LogNext
<1>3. CASE ~PutLands(a)
  <2>1. UNCHANGED effects
    BY <1>3 DEF AttemptStep, ReadCurrent, GetObject, PutRefused, RereadLatest
  <2>2. QED
    BY <1>1, <2>1 DEF L!logVars
<1>4. QED
  BY <1>2, <1>3

\* A step of one call changes what the log sees of that call only.
LEMMA OneAnswer ==
  ASSUME Typed, NEW c \in Calls, NEW stage \in {"idle", "running", "backoff"} \union Outcomes,
         call' = [call EXCEPT ![c] = stage]
  PROVE  Answer' = [Answer EXCEPT ![c] = IF stage \in {"running", "backoff"}
                                         THEN "pending" ELSE stage]
  BY DEF Answer, Typed, TypeOK

\* Every step of a call asks, answers, or is a stutter of the log.
LEMMA CallRefines ==
  ASSUME LogInv, NEW c \in Calls, CallStep(c)
  PROVE  [L!LogNext]_(L!logVars)
<1> USE DEF LogInv
<1>1. effects' = effects /\ effects \in Seq(Calls) /\ object.model.version = Len(effects)
  BY StateAfterType
     DEF CallStep, Invoke, Settle, AttemptFails, Retry, StoreInv, Typed, TypeOK
<1>2. CASE Invoke(c)
  <2>1. call' = [call EXCEPT ![c] = "running"] /\ call[c] = "idle" /\ returned' = returned
    BY <1>2 DEF Invoke, StartAttempt
  <2>2. Answer[c] = "idle" /\ Answer' = [Answer EXCEPT ![c] = "pending"]
    BY <2>1, OneAnswer DEF Answer
  <2>3. L!Ask(c)
    BY <1>1, <1>2, <2>1, <2>2 DEF L!Ask, Invoke, Answer
  <2>4. QED
    BY <2>3 DEF L!LogNext
<1>3. CASE Settle(c)
  <2>1. Current(c) \in Attempts /\ Current(c)[1] = c
    BY <1>3 DEF Settle, Current, Attempts, Typed, TypeOK, TriesCount
  <2>2. Consistent(c, pc[Current(c)], seen[Current(c)], etag[Current(c)])
    BY <2>1 DEF AttemptsInv
  <2>3. Answer[c] = "pending" /\ expected' = expected
    BY <1>3 DEF Settle, Answer
  <2>4. CASE pc[Current(c)] = "ok"
    <3>1. call' = [call EXCEPT ![c] = "ok"]
          /\ returned' = [returned EXCEPT ![c] = seen[Current(c)]]
      BY <1>3, <2>4 DEF Settle
    <3>2. Answer' = [Answer EXCEPT ![c] = "ok"]
      BY <3>1, OneAnswer DEF Outcomes
    <3>3. PICK n \in 1 .. Len(effects) :
            /\ seen[Current(c)] = StateAfter(SubSeq(effects, 1, n))
            /\ Applied(IdOf[c], seen[Current(c)])
      BY <2>2, <2>4 DEF Consistent
    <3>4. L!AnswerOk(c)
      BY <1>1, <2>3, <3>1, <3>2, <3>3
         DEF L!AnswerOk, L!Applied, L!StateAfter, Applied, StateAfter, Answer
    <3>5. QED
      BY <3>4 DEF L!LogNext
  <2>5. CASE pc[Current(c)] = "conflict"
    <3>1. call' = [call EXCEPT ![c] = "conflict"] /\ returned' = returned
      BY <1>3, <2>5 DEF Settle
    <3>2. Answer' = [Answer EXCEPT ![c] = "conflict"]
      BY <3>1, OneAnswer DEF Outcomes
    <3>3. expected[c] < Len(effects) /\ ~Occurs(c, effects)
      BY <2>2, <2>5 DEF Consistent
    <3>4. L!AnswerConflict(c)
      BY <1>1, <2>3, <3>1, <3>2, <3>3 DEF L!AnswerConflict, L!Occurs, Occurs, Answer
    <3>5. QED
      BY <3>4 DEF L!LogNext
  <2>6. QED
    BY <1>3, <2>4, <2>5 DEF Settle
<1>4. CASE AttemptFails(c)
  <2>1. Answer[c] = "pending" /\ UNCHANGED <<expected, returned>>
    BY <1>4 DEF AttemptFails, Answer
  <2>2. CASE tries[c] < MaxAttempts
    <3>1. call' = [call EXCEPT ![c] = "backoff"]
      BY <1>4, <2>2 DEF AttemptFails
    <3>2. Answer' = [Answer EXCEPT ![c] = "pending"]
      BY <3>1, OneAnswer
    <3>3. Answer' = Answer
      BY <2>1, <3>2 DEF Answer
    <3>4. QED
      BY <1>1, <2>1, <3>3 DEF L!logVars, Answer
  <2>3. CASE ~(tries[c] < MaxAttempts)
    <3>1. call' = [call EXCEPT ![c] = "unavailable"]
      BY <1>4, <2>3 DEF AttemptFails
    <3>2. Answer' = [Answer EXCEPT ![c] = "unavailable"]
      BY <3>1, OneAnswer DEF Outcomes
    <3>3. L!AnswerUnavailable(c)
      BY <1>1, <2>1, <3>2 DEF L!AnswerUnavailable, Answer
    <3>4. QED
      BY <3>3 DEF L!LogNext
  <2>4. QED
    BY <2>2, <2>3
<1>5. CASE Retry(c)
  <2>1. call' = [call EXCEPT ![c] = "running"] /\ UNCHANGED <<expected, returned>>
    BY <1>5 DEF Retry, StartAttempt
  <2>2. Answer[c] = "pending" /\ Answer' = [Answer EXCEPT ![c] = "pending"]
    BY <1>5, <2>1, OneAnswer DEF Retry, Answer
  <2>3. Answer' = Answer
    BY <2>2 DEF Answer
  <2>4. QED
    BY <1>1, <2>1, <2>3 DEF L!logVars, Answer
<1>6. QED
  BY <1>2, <1>3, <1>4, <1>5 DEF CallStep

\* Without deletes, the substrate implements the transition log: every answer it
\* gives, and every late effect it lets through, is one that the log allows.
THEOREM Refinement == Deleters = {} => (Spec => ImplementsLog)
<1> SUFFICES ASSUME Deleters = {} PROVE Spec => ImplementsLog
  OBVIOUS
<1>1. LogInv /\ [Next]_vars => [L!LogNext]_(L!logVars)
  <2> SUFFICES ASSUME LogInv, [Next]_vars PROVE [L!LogNext]_(L!logVars)
    OBVIOUS
  <2>1. CASE Next
    BY <2>1, AttemptRefines, CallRefines DEF Next
  <2>2. CASE UNCHANGED vars
    BY <2>2 DEF vars, callVars, L!logVars
  <2>3. QED
    BY <2>1, <2>2
<1>2. QED
  BY <1>1, InitRefines, LogInvHolds, PTL DEF Spec, ImplementsLog, L!LogSpec

-----------------------------------------------------------------------------
(* Deletes.                                                                *)

\* What a delete has read is still there as long as its etag is.
Fence ==
  \A d \in Deleters :
    deleter[d].pc = "put" =>
      /\ deleter[d].etag <= object.etag
      /\ deleter[d].etag = object.etag => object.model = deleter[d].seen

FenceInv == Typed /\ Fence

LEMMA FenceNext == FenceInv /\ [Next]_vars => FenceInv'
<1> SUFFICES ASSUME FenceInv, [Next]_vars PROVE FenceInv'
  OBVIOUS
<1>1. Typed'
  BY TypedNext DEF FenceInv
<1> SUFFICES Fence'
  BY <1>1 DEF FenceInv
<1>2. /\ object \in [etag : Nat, model : Model]
      /\ deleter \in [Deleters -> [pc : {"get", "put", "done"}, etag : Nat, seen : Model]]
  BY DEF FenceInv, Typed, TypeOK
<1>3. ASSUME UNCHANGED <<object, deleter>> PROVE Fence'
  BY <1>3 DEF FenceInv, Fence
<1>4. CASE \E a \in Attempts : AttemptStep(a)
  <2>1. PICK a \in Attempts : AttemptStep(a)
    BY <1>4
  <2>2. CASE PutLands(a)
    <3>1. object'.etag = object.etag + 1 /\ deleter' = deleter
      BY <2>2 DEF PutLands
    <3>2. \A d \in Deleters : deleter[d].etag \in Nat /\ object.etag \in Nat
      BY <1>2
    <3> QED
      BY <3>1, <3>2 DEF FenceInv, Fence
  <2>3. CASE ~PutLands(a)
    BY <1>3, <2>1, <2>3 DEF AttemptStep, ReadCurrent, GetObject, PutRefused, RereadLatest
  <2> QED
    BY <2>2, <2>3
<1>5. CASE \E c \in Calls : CallStep(c)
  BY <1>3, <1>5 DEF CallStep, Invoke, Settle, AttemptFails, Retry
<1>6. CASE \E d \in Deleters : DeleteGet(d)
  <2>1. PICK d \in Deleters : DeleteGet(d)
    BY <1>6
  <2>2. /\ object' = object /\ object.etag \in Nat
        /\ deleter'[d].etag = object.etag /\ deleter'[d].seen = object.model
        /\ \A e \in Deleters : e # d => deleter'[e] = deleter[e]
    BY <1>2, <2>1 DEF DeleteGet
  <2> QED
    BY <2>2 DEF FenceInv, Fence
<1>7. CASE \E d \in Deleters : DeletePut(d)
  <2>1. PICK d \in Deleters : DeletePut(d)
    BY <1>7
  <2>2. /\ deleter'[d].pc = "done" /\ \A e \in Deleters : e # d => deleter'[e] = deleter[e]
        /\ object' = object \/ object'.etag = object.etag + 1
    BY <1>2, <2>1 DEF DeletePut
  <2>3. \A e \in Deleters : deleter[e].etag \in Nat /\ object.etag \in Nat
    BY <1>2
  <2> QED
    BY <2>2, <2>3 DEF FenceInv, Fence
<1>8. CASE UNCHANGED vars
  BY <1>3, <1>8 DEF vars
<1> QED
  BY <1>4, <1>5, <1>6, <1>7, <1>8 DEF Next

LEMMA FenceStep ==
  ASSUME FenceInv, [Next]_vars, NEW d \in Deleters,
         deleter[d].pc = "put", object'.etag # object.etag, deleter'[d].pc = "done"
  PROVE  object.model = deleter[d].seen
<1>1. deleter \in [Deleters -> [pc : {"get", "put", "done"}, etag : Nat, seen : Model]]
  BY DEF FenceInv, Typed, TypeOK
<1>2. object' # object /\ deleter'[d] # deleter[d]
  OBVIOUS
<1>3. ~(\E a \in Attempts : AttemptStep(a)) /\ ~(\E c \in Calls : CallStep(c)) /\ ~UNCHANGED vars
  BY <1>2 DEF AttemptStep, ReadCurrent, GetObject, PutLands, PutRefused, RereadLatest,
             CallStep, Invoke, Settle, AttemptFails, Retry, vars
<1>4. PICK e \in Deleters : DeletePut(e)
  BY <1>2, <1>3 DEF Next, DeleteGet
<1>5. e = d
  BY <1>1, <1>2, <1>4 DEF DeletePut
<1>6. object.etag = deleter[d].etag
  BY <1>2, <1>4, <1>5 DEF DeletePut
<1> QED
  BY <1>6 DEF FenceInv, Fence

\* DeleteIsFenced: a delete only ever removes the very state it read, for any numbers of
\* calls, attempts and deletes.
THEOREM DeletesAreFenced == Spec => DeleteIsFenced
<1>1. Init => FenceInv
  <2>1. Init => Fence
    BY DEF Init, Fence
  <2> QED
    BY <2>1, TypedInitially DEF FenceInv
<1>2. FenceInv /\ [Next]_vars => FenceInv'
  BY FenceNext
<1>3. FenceInv /\ [Next]_vars =>
        [\A d \in Deleters :
           deleter[d].pc = "put" /\ object'.etag # object.etag /\ object'.model = Blank
             /\ deleter'[d].pc = "done"
             => object.model = deleter[d].seen]_vars
  BY FenceStep
<1> QED
  BY <1>1, <1>2, <1>3, PTL DEF Spec, DeleteIsFenced
==============================================================================
