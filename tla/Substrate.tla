------------------------------ MODULE Substrate ------------------------------
(***************************************************************************)
(* The MAX-OS-1 substrate over its R2 repository, for one key.             *)
(*                                                                         *)
(* Every await of applyTransition is a point where other calls, and other  *)
(* attempts of the same call, interleave: a call is a series of attempts   *)
(* (retry), each raced against a timer (withTimeout).  Nothing cancels an  *)
(* attempt whose timer fired: it goes on and its write may land later.     *)
(* R2 keeps one object per key, with an etag that every put replaces.      *)
(***************************************************************************)
EXTENDS StateModels

CONSTANTS MaxAttempts,  \* retryPolicy.maxAttempts
          Deleters      \* calls of repository.delete (nothing in src/src calls it)

ASSUME MaxAttemptsType == MaxAttempts \in Nat \ {0}

VARIABLES object,    \* the R2 object: its etag and the model it holds
          call,      \* where each executeOperation is
          expected,  \* transition.expectedVersion of each call
          tries,     \* the attempt retry() is at
          returned,  \* the model a successful call returned
          pc,        \* the await each attempt is at, or how it ended
          seen,      \* the model an attempt has in hand
          etag,      \* the etag an attempt will put against
          deleter,   \* each delete: its await, etag, and the model it read
          effects    \* history: the calls whose put landed since the last delete

callVars == <<call, expected, tries, returned>>
attemptVars == <<pc, seen, etag>>
vars == <<object, callVars, attemptVars, deleter, effects>>

Attempts == Calls \X (1 .. MaxAttempts)

\* No object and a tombstone both read as null: their model is Blank.  They differ
\* in the etag only (etag 0 stands for no object; no put ever gives that etag).

\* The await points of applyTransition and of the repository it calls.
Awaits == {"read", "get", "put", "reread"}
Outcomes == {"ok", "conflict", "unavailable"}

TypeOK ==
  /\ object \in [etag: Nat, model: Model]
  /\ call \in [Calls -> {"idle", "running", "backoff"} \union Outcomes]
  /\ expected \in [Calls -> Nat]
  /\ tries \in [Calls -> 0 .. MaxAttempts]
  /\ returned \in [Calls -> Model]
  /\ pc \in [Attempts -> {"idle"} \union Awaits \union {"ok", "conflict"}]
  /\ seen \in [Attempts -> Model]
  /\ etag \in [Attempts -> Nat]
  /\ deleter \in [Deleters -> [pc: {"get", "put", "done"}, etag: Nat, seen: Model]]
  /\ effects \in Seq(Calls)

Init ==
  /\ object = [etag |-> 0, model |-> Blank]
  /\ call = [c \in Calls |-> "idle"]
  /\ expected = [c \in Calls |-> 0]
  /\ tries = [c \in Calls |-> 0]
  /\ returned = [c \in Calls |-> Blank]
  /\ pc = [a \in Attempts |-> "idle"]
  /\ seen = [a \in Attempts |-> Blank]
  /\ etag = [a \in Attempts |-> 0]
  /\ deleter = [d \in Deleters |-> [pc |-> "get", etag |-> 0, seen |-> Blank]]
  /\ effects = <<>>

-----------------------------------------------------------------------------
(* One attempt: applyTransition and the repository operations it awaits.   *)

Advance(a, await, model, tag) ==
  /\ pc' = [pc EXCEPT ![a] = await]
  /\ seen' = [seen EXCEPT ![a] = model]
  /\ etag' = [etag EXCEPT ![a] = tag]

\* Mutant: the idempotence check is dropped.
ReadCurrentNoDedup(a) ==
  /\ pc[a] = "read"
  /\ \/ /\ object.model.version # expected[a[1]]
        /\ Advance(a, "conflict", Blank, 0)
     \/ /\ object.model.version = expected[a[1]]
        /\ Advance(a, "get", object.model, 0)
  /\ UNCHANGED <<object, callVars, deleter, effects>>

\* repository.read, the idempotence check and the version check.
ReadCurrent(a) ==
  LET current == object.model IN
  /\ pc[a] = "read"
  /\ \/ /\ Applied(IdOf[a[1]], current)
        /\ Advance(a, "ok", current, 0)
     \/ /\ ~Applied(IdOf[a[1]], current)
        /\ current.version # expected[a[1]]
        /\ Advance(a, "conflict", Blank, 0)
     \/ /\ ~Applied(IdOf[a[1]], current)
        /\ current.version = expected[a[1]]
        /\ Advance(a, "get", current, 0)
  /\ UNCHANGED <<object, callVars, deleter, effects>>

\* Mutant: the put is made against whatever the get finds.
GetObjectAnyVersion(a) ==
  /\ pc[a] = "get"
  /\ Advance(a, "put", seen[a], object.etag)
  /\ UNCHANGED <<object, callVars, deleter, effects>>

\* The bucket.get of create (the key must read as null) or of update (it must
\* hold the version read before): either way the version must not have moved.
GetObject(a) ==
  /\ pc[a] = "get"
  /\ \/ /\ object.model.version = seen[a].version
        /\ Advance(a, "put", seen[a], object.etag)
     \/ /\ object.model.version # seen[a].version
        /\ Advance(a, "reread", Blank, 0)
  /\ UNCHANGED <<object, callVars, deleter, effects>>

\* Mutant: put without onlyIf.
PutLandsAnyEtag(a) ==
  /\ pc[a] = "put"
  /\ object' = [etag |-> object.etag + 1, model |-> NextModel(a[1], seen[a])]
  /\ effects' = Append(effects, a[1])
  /\ Advance(a, "ok", NextModel(a[1], seen[a]), 0)
  /\ UNCHANGED <<callVars, deleter>>

\* R2 stores the object.
PutLands(a) ==
  /\ pc[a] = "put"
  /\ object.etag = etag[a]
  /\ object' = [etag |-> object.etag + 1, model |-> NextModel(a[1], seen[a])]
  /\ effects' = Append(effects, a[1])
  /\ Advance(a, "ok", NextModel(a[1], seen[a]), 0)
  /\ UNCHANGED <<callVars, deleter>>

\* onlyIf fails: put answers null, a STATE_CONFLICT that applyTransition catches.
PutRefused(a) ==
  /\ pc[a] = "put"
  /\ object.etag # etag[a]
  /\ Advance(a, "reread", Blank, 0)
  /\ UNCHANGED <<object, callVars, deleter, effects>>

\* Mutant: a conflict is passed on without the second read.
ConflictPassedOn(a) ==
  /\ pc[a] = "reread"
  /\ Advance(a, "conflict", Blank, 0)
  /\ UNCHANGED <<object, callVars, deleter, effects>>

\* After a STATE_CONFLICT: did another attempt apply this very transition?
RereadLatest(a) ==
  /\ pc[a] = "reread"
  /\ \/ /\ Applied(IdOf[a[1]], object.model)
        /\ Advance(a, "ok", object.model, 0)
     \/ /\ ~Applied(IdOf[a[1]], object.model)
        /\ Advance(a, "conflict", Blank, 0)
  /\ UNCHANGED <<object, callVars, deleter, effects>>

-----------------------------------------------------------------------------
(* One call: executeOperation, that is retry around withTimeout.           *)

Current(c) == <<c, tries[c]>>

StartAttempt(c, n) ==
  /\ call' = [call EXCEPT ![c] = "running"]
  /\ tries' = [tries EXCEPT ![c] = n]
  /\ pc' = [pc EXCEPT ![<<c, n>>] = "read"]
  /\ UNCHANGED <<seen, etag>>

\* A caller takes expectedVersion from a model it read before.
Invoke(c) ==
  /\ call[c] = "idle"
  /\ \E e \in 0 .. object.model.version : expected' = [expected EXCEPT ![c] = e]
  /\ StartAttempt(c, 1)
  /\ UNCHANGED <<object, returned, deleter, effects>>

\* The attempt's answer wins the race; a STATE_CONFLICT is not retried.
Settle(c) ==
  /\ call[c] = "running"
  /\ pc[Current(c)] \in {"ok", "conflict"}
  /\ call' = [call EXCEPT ![c] = pc[Current(c)]]
  /\ returned' = IF pc[Current(c)] = "ok"
                 THEN [returned EXCEPT ![c] = seen[Current(c)]] ELSE returned
  /\ UNCHANGED <<object, expected, tries, attemptVars, deleter, effects>>

\* The timer fires, or a request to R2 fails, before the attempt's answer arrives
\* (a failed request is an attempt that takes no further step; when the failure
\* hides an effect, the attempt has taken its step and the answer is lost).
\* Both errors are retryable: the call backs off until its attempts are used up.
AttemptFails(c) ==
  /\ call[c] = "running"
  /\ call' = [call EXCEPT ![c] = IF tries[c] < MaxAttempts THEN "backoff" ELSE "unavailable"]
  /\ UNCHANGED <<object, expected, tries, returned, attemptVars, deleter, effects>>

\* Mutant: the attempt counter never moves.
RetryUncounted(c) ==
  /\ call[c] = "backoff"
  /\ StartAttempt(c, tries[c])
  /\ UNCHANGED <<object, expected, returned, deleter, effects>>

Retry(c) ==
  /\ call[c] = "backoff"
  /\ StartAttempt(c, tries[c] + 1)
  /\ UNCHANGED <<object, expected, returned, deleter, effects>>

-----------------------------------------------------------------------------
(* repository.delete: a tombstone put against the etag that was read.      *)

DeleteGet(d) ==
  /\ deleter[d].pc = "get"
  /\ deleter' = [deleter EXCEPT ![d] =
       [pc   |-> IF object.model.version = 0 THEN "done" ELSE "put",
        etag |-> object.etag,
        seen |-> object.model]]
  /\ UNCHANGED <<object, callVars, attemptVars, effects>>

\* Mutant: the tombstone is put without onlyIf.
DeletePutAnyEtag(d) ==
  /\ deleter[d].pc = "put"
  /\ deleter' = [deleter EXCEPT ![d].pc = "done"]
  /\ object' = [etag |-> object.etag + 1, model |-> Blank]
  /\ effects' = <<>>
  /\ UNCHANGED <<callVars, attemptVars>>

DeletePut(d) ==
  /\ deleter[d].pc = "put"
  /\ deleter' = [deleter EXCEPT ![d].pc = "done"]
  /\ \/ /\ object.etag = deleter[d].etag
        /\ object' = [etag |-> object.etag + 1, model |-> Blank]
        /\ effects' = <<>>
     \/ /\ object.etag # deleter[d].etag
        /\ UNCHANGED <<object, effects>>
  /\ UNCHANGED <<callVars, attemptVars>>

-----------------------------------------------------------------------------
AttemptStep(a) ==
  \/ ReadCurrent(a)
  \/ GetObject(a)
  \/ PutLands(a)
  \/ PutRefused(a)
  \/ RereadLatest(a)

CallStep(c) ==
  \/ Invoke(c)
  \/ Settle(c)
  \/ AttemptFails(c)
  \/ Retry(c)

Next ==
  \/ \E a \in Attempts : AttemptStep(a)
  \/ \E c \in Calls : CallStep(c)
  \/ \E d \in Deleters : DeleteGet(d) \/ DeletePut(d)

Spec == Init /\ [][Next]_vars

\* withTimeout's timer and retry's sleep always fire; R2 owes nothing.
FairSpec == Spec /\ \A c \in Calls : WF_vars(AttemptFails(c)) /\ WF_vars(Retry(c))

-----------------------------------------------------------------------------
(* Properties.                                                             *)

Distinct(s) == \A i, j \in 1 .. Len(s) : s[i] = s[j] => i = j

\* No transition id is ever recorded twice, however often its call is retried,
\* redelivered or landed late, and the version counts the transitions.
AppliedOnce ==
  /\ object.model.version = Len(object.model.applied)
  /\ Distinct(object.model.applied)

\* The store holds exactly the effects of the puts that landed, in order: no put
\* ever overwrites the effect of another (no lost update).
StoreHoldsHistory == object.model = StateAfter(effects)

\* A call answered "ok" has its transition in the model it got and, for good, in
\* the store.
AckIsDurable ==
  \A c \in Calls :
    call[c] = "ok" => Applied(IdOf[c], returned[c]) /\ Applied(IdOf[c], object.model)

\* A call answered "conflict" never takes effect, not even by an attempt of its
\* own that timed out and is still running.
ConflictIsFinal ==
  \A c \in Calls : call[c] = "conflict" => ~Occurs(c, effects)

\* A delete only ever removes the very state it read.
DeleteIsFenced ==
  [][\A d \in Deleters :
       deleter[d].pc = "put" /\ object'.etag # object.etag /\ object'.model = Blank
         /\ deleter'[d].pc = "done"
         => object.model = deleter[d].seen]_vars

\* Substrate implements the transition log.
L == INSTANCE TransitionLog WITH
       log <- effects,
       answer <- [c \in Calls |-> IF call[c] \in {"running", "backoff"}
                                  THEN "pending" ELSE call[c]]

ImplementsLog == L!LogSpec

\* Every call is answered, whatever the store does.
CallsAreAnswered == \A c \in Calls : call[c] = "running" ~> call[c] \in Outcomes
==============================================================================
