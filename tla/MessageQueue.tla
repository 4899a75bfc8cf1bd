----------------------------- MODULE MessageQueue -----------------------------
(***************************************************************************)
(* MessageQueue: enqueue into a bounded queue, and process_all, which runs *)
(* the handlers of the queued messages until the queue is empty.  A message*)
(* whose handler raises goes to the end of the queue while it has retries  *)
(* left.  Handlers are callbacks and may enqueue.                          *)
(***************************************************************************)
EXTENDS Naturals, Sequences, FiniteSets

CONSTANTS
  Messages,
  WithHandler,   \* the messages that name a handler
  MaxRetries,    \* max_retries of each message
  MaxQueued,     \* max_size
  NoMessage

ASSUME WithHandlerType == WithHandler \subseteq Messages
ASSUME QueueBounds == MaxQueued \in Nat /\ MaxRetries \in [Messages -> Nat]
ASSUME NoMessageType == NoMessage \notin Messages

VARIABLES
  queue,
  retries,     \* retry_count of each message
  processed,   \* processed_count
  draining,    \* is process_all running?
  hand,        \* the message whose handler runs, or NoMessage
  accepted,    \* history: the messages that were taken, in order
  calls,       \* history: how often each message's handler was called
  succeeded,   \* history: the messages whose handler returned
  pushed       \* history: what the running handler has added to the queue

queueHistory == <<accepted, calls, succeeded, pushed>>
queueVars == <<queue, retries, processed, draining, hand, queueHistory>>

QueueInit ==
  /\ queue = <<>>
  /\ retries = [m \in Messages |-> 0]
  /\ processed = 0
  /\ draining = FALSE
  /\ hand = NoMessage
  /\ accepted = <<>>
  /\ calls = [m \in Messages |-> 0]
  /\ succeeded = {}
  /\ pushed = 0

Members(s) == {s[i] : i \in DOMAIN s}

Full == Len(queue) >= MaxQueued

\* Mutant: the newest message is processed first.
EnqueueFirst(m) ==
  /\ ~draining \/ hand # NoMessage
  /\ m \notin Members(accepted)
  /\ ~Full
  /\ queue' = <<m>> \o queue
  /\ accepted' = Append(accepted, m)
  /\ pushed' = IF hand = NoMessage THEN 0 ELSE pushed + 1
  /\ UNCHANGED <<retries, processed, draining, hand, calls, succeeded>>

\* Callers and handlers enqueue; a message that a full queue refuses changes nothing.
Enqueue(m) ==
  /\ ~draining \/ hand # NoMessage
  /\ m \notin Members(accepted)
  /\ ~Full
  /\ queue' = Append(queue, m)
  /\ accepted' = Append(accepted, m)
  /\ pushed' = IF hand = NoMessage THEN 0 ELSE pushed + 1
  /\ UNCHANGED <<retries, processed, draining, hand, calls, succeeded>>

BeginProcessAll ==
  /\ ~draining
  /\ draining' = TRUE
  /\ UNCHANGED <<queue, retries, processed, hand, queueHistory>>

\* Mutant: a message without a handler goes back to the queue.
DequeuePutsBack ==
  /\ draining /\ hand = NoMessage /\ queue # <<>>
  /\ LET m == Head(queue) IN
       /\ queue' = IF m \in WithHandler THEN Tail(queue) ELSE Append(Tail(queue), m)
       /\ hand' = IF m \in WithHandler THEN m ELSE NoMessage
       /\ calls' = IF m \in WithHandler THEN [calls EXCEPT ![m] = @ + 1] ELSE calls
  /\ pushed' = 0
  /\ UNCHANGED <<retries, processed, draining, accepted, succeeded>>

\* The loop's next message; one without a handler is forgotten.
Dequeue ==
  /\ draining /\ hand = NoMessage /\ queue # <<>>
  /\ queue' = Tail(queue)
  /\ LET m == Head(queue) IN
       /\ hand' = IF m \in WithHandler THEN m ELSE NoMessage
       /\ calls' = IF m \in WithHandler THEN [calls EXCEPT ![m] = @ + 1] ELSE calls
  /\ pushed' = 0
  /\ UNCHANGED <<retries, processed, draining, accepted, succeeded>>

EndProcessAll ==
  /\ draining /\ hand = NoMessage /\ queue = <<>>
  /\ draining' = FALSE
  /\ UNCHANGED <<queue, retries, processed, hand, queueHistory>>

Handled ==
  /\ hand # NoMessage
  /\ hand' = NoMessage
  /\ processed' = processed + 1
  /\ succeeded' = succeeded \union {hand}
  /\ UNCHANGED <<queue, retries, draining, accepted, calls, pushed>>

\* Mutant: one retry too many.
RaisesOnceMore ==
  /\ hand # NoMessage
  /\ hand' = NoMessage
  /\ retries' = [retries EXCEPT ![hand] = @ + 1]
  /\ queue' = IF retries[hand] + 1 <= MaxRetries[hand] /\ ~Full
              THEN Append(queue, hand) ELSE queue
  /\ UNCHANGED <<processed, draining, queueHistory>>

\* Mutant: the call that raised counts as processed.
RaisesProcessed ==
  /\ hand # NoMessage
  /\ hand' = NoMessage
  /\ retries' = [retries EXCEPT ![hand] = @ + 1]
  /\ processed' = processed + 1
  /\ queue' = IF retries[hand] + 1 < MaxRetries[hand] /\ ~Full
              THEN Append(queue, hand) ELSE queue
  /\ UNCHANGED <<draining, queueHistory>>

\* Mutant: a retry leaves one place free.
RaisesLeavesRoom ==
  /\ hand # NoMessage
  /\ hand' = NoMessage
  /\ retries' = [retries EXCEPT ![hand] = @ + 1]
  /\ queue' = IF retries[hand] + 1 < MaxRetries[hand] /\ Len(queue) + 1 < MaxQueued
              THEN Append(queue, hand) ELSE queue
  /\ UNCHANGED <<processed, draining, queueHistory>>

Raises ==
  /\ hand # NoMessage
  /\ hand' = NoMessage
  /\ retries' = [retries EXCEPT ![hand] = @ + 1]
  /\ queue' = IF retries[hand] + 1 < MaxRetries[hand] /\ ~Full
              THEN Append(queue, hand) ELSE queue
  /\ UNCHANGED <<processed, draining, queueHistory>>

Proceed == Dequeue \/ EndProcessAll \/ Handled \/ Raises

QueueNext ==
  \/ \E m \in Messages : Enqueue(m)
  \/ BeginProcessAll
  \/ Proceed

QueueSpec == QueueInit /\ [][QueueNext]_queueVars

\* process_all goes on, and handlers end.
QueueFairness == WF_queueVars(Proceed)

-----------------------------------------------------------------------------
(* Properties.                                                             *)

QueueTypeOK ==
  /\ queue \in Seq(Messages) /\ Len(queue) <= MaxQueued
  /\ retries \in [Messages -> Nat]
  /\ processed \in Nat
  /\ draining \in BOOLEAN
  /\ hand \in WithHandler \union {NoMessage} /\ (hand # NoMessage => draining)
  /\ accepted \in Seq(Messages)
  /\ calls \in [Messages -> Nat]
  /\ succeeded \subseteq Messages
  /\ pushed \in Nat

\* A message is in one place only, whatever its retries, and once its handler has
\* returned it is never queued again; processed_count counts exactly those messages.
ProcessedOnce ==
  /\ \A i, j \in DOMAIN queue : queue[i] = queue[j] => i = j
  /\ Members(queue) \intersect (succeeded \union {hand}) = {}
  /\ hand \notin succeeded
  /\ processed = Cardinality(succeeded)

\* A handler is called at most max_retries times (once when max_retries is 0), the
\* call that returns included.
CallsBounded ==
  \A m \in Messages : calls[m] <= IF MaxRetries[m] = 0 THEN 1 ELSE MaxRetries[m]

\* A message that fails with retries left is queued again, unless its own handler
\* filled the queue while it ran: only then is it lost.
RetryLostOnlyWhenRefilled ==
  [][hand # NoMessage /\ hand' = NoMessage /\ hand \notin succeeded' \union Members(queue')
       => retries'[hand] >= MaxRetries[hand] \/ pushed > 0]_queueVars

\* Handlers are first called in the order in which their messages were taken, the
\* messages that handlers enqueue included.
FirstCallsInOrder ==
  \A j \in DOMAIN accepted : \A i \in 1 .. j - 1 :
    calls[accepted[j]] > 0 => calls[accepted[i]] > 0 \/ accepted[i] \notin WithHandler

\* process_all returns, although failed messages go back to the queue it empties.
ProcessAllReturns == draining ~> ~draining
==============================================================================
