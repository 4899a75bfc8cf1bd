------------------------------ MODULE DurableStore ------------------------------
(***************************************************************************)
(* The Rebuild 3 substrate: durable objects and a KV store                 *)
(* (substrate/state.py), the copy from KV to an object and the transaction *)
(* log (substrate/sync.py), and recovery by replay (substrate/recovery.py).*)
(* Versions and timestamps, which nothing reads, are left out.             *)
(***************************************************************************)
EXTENDS Naturals, Sequences, SequencesExt

CONSTANTS
  StoreKeys,
  StoreValues,
  MaxLog        \* bound of the model: entries of the log

VARIABLES
  do_store,     \* for each key the value its object holds, if any
  kv_store,     \* likewise for KV
  log,          \* TransactionLog.entries
  point,        \* transaction_index of the last recovery point, if any
  writing,      \* the logged write whose put is still to come, if any
  crashed       \* history: what KV held is gone and was not recovered

storeVars == <<do_store, kv_store, log, point, writing, crashed>>

\* "If any": a sequence of length one or none.
None == << >>
Empty == [k \in StoreKeys |-> None]

StoreInit ==
  /\ do_store = Empty /\ kv_store = Empty
  /\ log = << >> /\ point = None /\ writing = None /\ crashed = FALSE

Put(store, key, value) == [store EXCEPT ![key] = <<value>>]

\* SubstrateState.write_persistent: the object is created when it is missing.
WritePersistent(key, value) ==
  /\ do_store' = Put(do_store, key, value)
  /\ UNCHANGED <<kv_store, log, point, writing, crashed>>

\* A client logs what it is going to do...
LogWrite(key, value) ==
  /\ writing = None /\ Len(log) < MaxLog
  /\ log' = Append(log, [operation |-> "write", key |-> key, value |-> value])
  /\ writing' = <<[key |-> key, value |-> value]>>
  /\ UNCHANGED <<do_store, kv_store, point, crashed>>

LogDelete(key, value) ==
  /\ writing = None /\ Len(log) < MaxLog
  /\ log' = Append(log, [operation |-> "delete", key |-> key, value |-> value])
  /\ UNCHANGED <<do_store, kv_store, point, writing, crashed>>

\* ...and then calls write_replicated.  KV has no delete.
WriteReplicated ==
  /\ writing # None
  /\ kv_store' = Put(kv_store, writing[1].key, writing[1].value)
  /\ writing' = None
  /\ UNCHANGED <<do_store, log, point, crashed>>

\* The other direction raises in the code: SubstrateState has no attribute store.
SyncKvToDo(key) ==
  /\ kv_store[key] # None
  /\ do_store' = [do_store EXCEPT ![key] = kv_store[key]]
  /\ UNCHANGED <<kv_store, log, point, writing, crashed>>

\* The snapshot is empty.
CreateRecoveryPoint ==
  /\ point' = <<Len(log)>>
  /\ UNCHANGED <<do_store, kv_store, log, writing, crashed>>

\* The process dies, with its KV store and whatever it was about to put; objects,
\* log and recovery point survive.
Crash ==
  /\ kv_store' = Empty /\ writing' = None /\ crashed' = TRUE
  /\ UNCHANGED <<do_store, log, point>>

\* Deletes are skipped: KV has no way to remove a key.
ReplayEntry(store, entry) ==
  IF entry.operation = "write" THEN Put(store, entry.key, entry.value) ELSE store

\* Mutant: the replay starts after the first entry it should replay.
ReplayTooLate(store, from) ==
  LET replayed[n \in 0 .. Len(log)] ==
        IF n <= from + 1 THEN store ELSE ReplayEntry(replayed[n - 1], log[n])
  IN replayed[Len(log)]

\* The store after each entry of the log.
Replay(store, from) ==
  LET replayed[n \in 0 .. Len(log)] ==
        IF n <= from THEN store ELSE ReplayEntry(replayed[n - 1], log[n])
  IN replayed[Len(log)]

\* Restoring the snapshot does nothing, so KV keeps what it has.
RecoverFromCrash ==
  /\ point # None
  /\ kv_store' = Replay(kv_store, point[1])
  /\ crashed' = FALSE
  /\ UNCHANGED <<do_store, log, point, writing>>

StoreNext ==
  \/ \E key \in StoreKeys, value \in StoreValues :
       WritePersistent(key, value) \/ LogWrite(key, value) \/ LogDelete(key, value)
  \/ WriteReplicated
  \/ \E key \in StoreKeys : SyncKvToDo(key)
  \/ CreateRecoveryPoint
  \/ Crash
  \/ RecoverFromCrash

--------------------------------------------------------------------------------
(* Properties *)

\* What is logged of a key since the recovery point.
Logged(key) == {i \in DOMAIN log : log[i].key = key /\ (point # None => i > point[1])}

\* A store that did not crash, or was recovered since, holds the value of each key
\* whose last entry in the log since the recovery point is a write, whether the crash
\* came before or after its put, whatever deletes precede it, and however often the
\* log is replayed.  Of a key deleted last nothing is said: replay skips deletes (a
\* TODO), so the key keeps the value it had, or gets it back.
StoreFollowsLog ==
  ~crashed =>
    \A key \in StoreKeys : \A i \in Logged(key) :
      /\ \A j \in Logged(key) : j <= i
      /\ log[i].operation = "write"
      /\ \A w \in Range(writing) : w.key # key
      => kv_store[key] = <<log[i].value>>
================================================================================
