-------------------------- MODULE MessageQueueProofs --------------------------
(* Theorems about MessageQueue, for any messages, retries and size of queue.  *)
EXTENDS MessageQueue, FiniteSetTheorems, TLAPS

-------------------------------------------------------------------------------
(* Sequences of messages: what appending and taking the head do.              *)

LEMMA Appended ==
  ASSUME NEW s \in Seq(Messages), NEW m \in Messages
  PROVE  /\ Append(s, m) \in Seq(Messages)
         /\ Len(s) \in Nat /\ DOMAIN s = 1 .. Len(s)
         /\ Len(Append(s, m)) = Len(s) + 1
         /\ DOMAIN Append(s, m) = 1 .. Len(s) + 1
         /\ \A i \in 1 .. Len(s) : Append(s, m)[i] = s[i]
         /\ Append(s, m)[Len(s) + 1] = m
OBVIOUS

LEMMA HeadTaken ==
  ASSUME NEW s \in Seq(Messages), s # <<>>
  PROVE  /\ Tail(s) \in Seq(Messages) /\ Head(s) \in Messages
         /\ Len(s) \in Nat \ {0} /\ DOMAIN s = 1 .. Len(s)
         /\ Len(Tail(s)) = Len(s) - 1 /\ DOMAIN Tail(s) = 1 .. Len(s) - 1
         /\ \A i \in 1 .. Len(s) - 1 : Tail(s)[i] = s[i + 1]
         /\ Head(s) = s[1]
OBVIOUS

LEMMA MembersAppended ==
  ASSUME NEW s \in Seq(Messages), NEW m \in Messages
  PROVE  Members(Append(s, m)) = Members(s) \union {m}
<1> DEFINE t == Append(s, m)
<1>1. /\ Len(s) \in Nat /\ DOMAIN s = 1 .. Len(s) /\ DOMAIN t = 1 .. Len(s) + 1
      /\ \A i \in 1 .. Len(s) : t[i] = s[i]
      /\ t[Len(s) + 1] = m
  BY Appended
<1> HIDE DEF t
<1>2. 1 .. Len(s) + 1 = 1 .. Len(s) \union {Len(s) + 1}
  BY <1>1
<1>3. Members(t) = Members(s) \union {m}
  BY <1>1, <1>2 DEF Members
<1> QED
  BY <1>3 DEF t

LEMMA MembersTaken ==
  ASSUME NEW s \in Seq(Messages), s # <<>>
  PROVE  Members(s) = Members(Tail(s)) \union {Head(s)}
<1> DEFINE t == Tail(s)
           h == Head(s)
<1>1. /\ Len(s) \in Nat \ {0} /\ DOMAIN s = 1 .. Len(s) /\ DOMAIN t = 1 .. Len(s) - 1
      /\ \A i \in 1 .. Len(s) - 1 : t[i] = s[i + 1]
      /\ h = s[1]
  BY HeadTaken
<1> HIDE DEF t, h
<1>2. \A i \in DOMAIN t : i + 1 \in DOMAIN s /\ t[i] = s[i + 1]
  BY <1>1
<1>3. \A i \in DOMAIN s : i = 1 \/ (i - 1 \in DOMAIN t /\ s[i] = t[i - 1])
  <2>1. TAKE i \in DOMAIN s
  <2>2. i \in Nat \ {0} /\ i <= Len(s)
    BY <1>1, <2>1
  <2>3. CASE i # 1
    <3>1. i - 1 \in DOMAIN t /\ (i - 1) + 1 = i
      BY <1>1, <2>2, <2>3
    <3>2. t[i - 1] = s[(i - 1) + 1]
      BY <1>2, <3>1
    <3> QED
      BY <3>1, <3>2
  <2> QED
    BY <2>3
<1>4. 1 \in DOMAIN s
  BY <1>1
<1>5. Members(s) = Members(t) \union {h}
  BY <1>1, <1>2, <1>3, <1>4 DEF Members
<1> QED
  BY <1>5 DEF t, h

\* No message twice in a sequence.
Distinct(s) == \A i, j \in DOMAIN s : s[i] = s[j] => i = j

LEMMA DistinctAppended ==
  ASSUME NEW s \in Seq(Messages), NEW m \in Messages, Distinct(s), m \notin Members(s)
  PROVE  Distinct(Append(s, m))
<1> DEFINE t == Append(s, m)
<1>1. /\ Len(s) \in Nat /\ DOMAIN s = 1 .. Len(s) /\ DOMAIN t = 1 .. Len(s) + 1
      /\ \A i \in 1 .. Len(s) : t[i] = s[i]
      /\ t[Len(s) + 1] = m
  BY Appended
<1> HIDE DEF t
<1>2. \A i \in 1 .. Len(s) : s[i] # m
  BY <1>1 DEF Members
<1>3. \A i \in DOMAIN t : i \in 1 .. Len(s) \/ i = Len(s) + 1
  BY <1>1
<1>4. Distinct(t)
  BY <1>1, <1>2, <1>3 DEF Distinct
<1> QED
  BY <1>4 DEF t

LEMMA DistinctTaken ==
  ASSUME NEW s \in Seq(Messages), s # <<>>, Distinct(s)
  PROVE  Distinct(Tail(s)) /\ Head(s) \notin Members(Tail(s))
<1> DEFINE t == Tail(s)
           h == Head(s)
<1>1. /\ Len(s) \in Nat \ {0} /\ DOMAIN s = 1 .. Len(s) /\ DOMAIN t = 1 .. Len(s) - 1
      /\ \A i \in 1 .. Len(s) - 1 : t[i] = s[i + 1]
      /\ h = s[1]
  BY HeadTaken
<1> HIDE DEF t, h
<1>2. \A i \in DOMAIN t : i \in Nat \ {0} /\ i + 1 \in DOMAIN s /\ t[i] = s[i + 1]
  BY <1>1
<1>3. 1 \in DOMAIN s
  BY <1>1
<1>4. Distinct(t)
  <2>1. SUFFICES ASSUME NEW i \in DOMAIN t, NEW j \in DOMAIN t, t[i] = t[j] PROVE i = j
    BY DEF Distinct
  <2>2. i + 1 = j + 1
    BY <1>2, <2>1 DEF Distinct
  <2> QED
    BY <1>2, <2>1, <2>2
<1>5. h \notin Members(t)
  <2>1. \A i \in DOMAIN t : i + 1 # 1
    BY <1>2
  <2>2. \A i \in DOMAIN t : t[i] # s[1]
    BY <1>2, <1>3, <2>1 DEF Distinct
  <2> QED
    BY <1>1, <2>2 DEF Members
<1> QED
  BY <1>4, <1>5 DEF t, h

-------------------------------------------------------------------------------
(* Type correctness.                                                          *)

LEMMA TypeInit == QueueInit => QueueTypeOK
<1> SUFFICES ASSUME QueueInit PROVE QueueTypeOK
  OBVIOUS
<1>1. queue \in Seq(Messages) /\ Len(queue) <= MaxQueued /\ accepted \in Seq(Messages)
  BY QueueBounds DEF QueueInit
<1>2. /\ hand \in WithHandler \union {NoMessage} /\ (hand # NoMessage => draining)
      /\ succeeded \subseteq Messages /\ draining \in BOOLEAN
  BY DEF QueueInit
<1>3. /\ retries \in [Messages -> Nat] /\ calls \in [Messages -> Nat]
      /\ processed \in Nat /\ pushed \in Nat
  BY DEF QueueInit
<1> QED
  BY <1>1, <1>2, <1>3 DEF QueueTypeOK

\* Every action keeps the types.
LEMMA TypeStep == QueueTypeOK /\ [QueueNext]_queueVars => QueueTypeOK'
<1> SUFFICES ASSUME QueueTypeOK, [QueueNext]_queueVars PROVE QueueTypeOK'
  OBVIOUS
<1> USE DEF queueHistory
<1>1. ASSUME NEW m \in Messages, Enqueue(m) PROVE QueueTypeOK'
  <2>1. queue' \in Seq(Messages) /\ Len(queue') = Len(queue) + 1 /\ Len(queue) \in Nat
    BY <1>1, Appended DEF Enqueue, QueueTypeOK
  <2>2. accepted' \in Seq(Messages)
    BY <1>1, Appended DEF Enqueue, QueueTypeOK
  <2>3. Len(queue') <= MaxQueued
    BY <1>1, <2>1, QueueBounds DEF Enqueue, Full
  <2> QED
    BY <1>1, <2>1, <2>2, <2>3 DEF Enqueue, QueueTypeOK
<1>2. CASE BeginProcessAll
  BY <1>2 DEF BeginProcessAll, QueueTypeOK
<1>3. CASE Dequeue
  <2>1. /\ Tail(queue) \in Seq(Messages) /\ Head(queue) \in Messages
        /\ Len(Tail(queue)) = Len(queue) - 1 /\ Len(queue) \in Nat
    BY <1>3, HeadTaken DEF Dequeue, QueueTypeOK
  <2>2. Len(Tail(queue)) <= MaxQueued
    BY <2>1, QueueBounds DEF QueueTypeOK
  <2>3. calls' \in [Messages -> Nat]
    BY <1>3, <2>1 DEF Dequeue, QueueTypeOK
  <2>4. hand' \in WithHandler \union {NoMessage}
    BY <1>3 DEF Dequeue
  <2> QED
    BY <1>3, <2>1, <2>2, <2>3, <2>4 DEF Dequeue, QueueTypeOK
<1>4. CASE EndProcessAll
  BY <1>4 DEF EndProcessAll, QueueTypeOK
<1>5. CASE Handled
  BY <1>5, WithHandlerType DEF Handled, QueueTypeOK
<1>6. CASE Raises
  <2>1. hand \in Messages
    BY <1>6, WithHandlerType DEF Raises, QueueTypeOK
  <2>2. queue' \in Seq(Messages) /\ Len(queue') <= MaxQueued
    <3>1. CASE queue' = queue
      BY <3>1 DEF QueueTypeOK
    <3>2. CASE queue' = Append(queue, hand) /\ ~Full
      <4>1. queue' \in Seq(Messages) /\ Len(queue') = Len(queue) + 1 /\ Len(queue) \in Nat
        BY <2>1, <3>2, Appended DEF QueueTypeOK
      <4> QED
        BY <3>2, <4>1, QueueBounds DEF Full
    <3> QED
      BY <1>6, <3>1, <3>2 DEF Raises
  <2> QED
    BY <1>6, <2>1, <2>2 DEF Raises, QueueTypeOK
<1>7. CASE UNCHANGED queueVars
  BY <1>7 DEF queueVars, QueueTypeOK
<1> QED
  BY <1>1, <1>2, <1>3, <1>4, <1>5, <1>6, <1>7 DEF QueueNext, Proceed

\* The queue never outgrows its size, whatever handlers enqueue and however many
\* failed messages come back to it, and handlers run only inside process_all.
THEOREM TypeCorrect == QueueSpec => []QueueTypeOK
BY TypeInit, TypeStep, PTL DEF QueueSpec

-------------------------------------------------------------------------------
(* A message is in one place, and its calls are accounted for.                *)

\* Where a message can be.  That what is queued, in hand or done was accepted is what
\* keeps a new message out of a second place.
PlaceInv ==
  /\ Distinct(queue)
  /\ Members(queue) \intersect (succeeded \union {hand}) = {}
  /\ hand \notin succeeded
  /\ Members(queue) \union succeeded \subseteq Members(accepted)
  /\ hand # NoMessage => hand \in Members(accepted)

DoneInv == IsFiniteSet(succeeded) /\ processed = Cardinality(succeeded)

LEMMA PlaceInit == QueueInit => PlaceInv
<1> SUFFICES ASSUME QueueInit PROVE PlaceInv
  OBVIOUS
<1>1. Members(queue) = {} /\ Distinct(queue)
  BY DEF QueueInit, Members, Distinct
<1> QED
  BY <1>1 DEF QueueInit, PlaceInv

LEMMA PlaceStep == QueueTypeOK /\ PlaceInv /\ [QueueNext]_queueVars => PlaceInv'
<1> SUFFICES ASSUME QueueTypeOK, PlaceInv, [QueueNext]_queueVars PROVE PlaceInv'
  OBVIOUS
<1> USE DEF queueHistory
<1>t. queue \in Seq(Messages) /\ accepted \in Seq(Messages)
  BY DEF QueueTypeOK
<1>1. ASSUME NEW m \in Messages, Enqueue(m) PROVE PlaceInv'
  <2>1. m \notin Members(queue) /\ m \notin succeeded /\ (hand # NoMessage => m # hand)
    BY <1>1 DEF Enqueue, PlaceInv
  <2>2. m # NoMessage
    BY NoMessageType
  <2>3. /\ Members(queue') = Members(queue) \union {m}
        /\ Members(accepted') = Members(accepted) \union {m}
    BY <1>1, <1>t, MembersAppended DEF Enqueue
  <2>4. Distinct(queue')
    BY <1>1, <1>t, <2>1, DistinctAppended DEF Enqueue, PlaceInv
  <2>5. hand' = hand /\ succeeded' = succeeded
    BY <1>1 DEF Enqueue
  <2> QED
    BY <2>1, <2>2, <2>3, <2>4, <2>5 DEF PlaceInv
<1>2. CASE Dequeue
  <2>1. Members(queue) = Members(queue') \union {Head(queue)}
    BY <1>2, <1>t, MembersTaken DEF Dequeue
  <2>2. Distinct(queue') /\ Head(queue) \notin Members(queue')
    BY <1>2, <1>t, DistinctTaken DEF Dequeue, PlaceInv
  <2>3. hand' \in {Head(queue), NoMessage} /\ succeeded' = succeeded /\ accepted' = accepted
    BY <1>2 DEF Dequeue
  <2>4. NoMessage \notin Members(queue') /\ NoMessage \notin succeeded
    <3>1. Tail(queue) \in Seq(Messages)
      BY <1>2, <1>t, HeadTaken DEF Dequeue
    <3>2. Members(queue') \subseteq Messages
      BY <1>2, <3>1 DEF Dequeue, Members
    <3> QED
      BY <3>2, NoMessageType DEF QueueTypeOK
  <2> QED
    BY <2>1, <2>2, <2>3, <2>4 DEF PlaceInv
<1>3. CASE BeginProcessAll \/ EndProcessAll \/ UNCHANGED queueVars
  BY <1>3 DEF BeginProcessAll, EndProcessAll, queueVars, PlaceInv, Members, Distinct
<1>n. NoMessage \notin Members(queue) /\ NoMessage \notin succeeded
  BY NoMessageType DEF QueueTypeOK, Members
<1>4. CASE Handled
  <2>1. /\ queue' = queue /\ accepted' = accepted /\ hand' = NoMessage /\ hand # NoMessage
        /\ succeeded' = succeeded \union {hand}
    BY <1>4 DEF Handled
  <2> QED
    BY <1>n, <2>1 DEF PlaceInv
<1>5. CASE Raises
  <2>1. /\ hand \in Messages /\ hand # NoMessage /\ hand' = NoMessage
        /\ succeeded' = succeeded /\ accepted' = accepted
    BY <1>5, WithHandlerType DEF Raises, QueueTypeOK
  <2>2. CASE queue' = queue
    BY <1>n, <2>1, <2>2 DEF PlaceInv
  <2>3. CASE queue' = Append(queue, hand)
    <3>1. Members(queue') = Members(queue) \union {hand}
      BY <1>t, <2>1, <2>3, MembersAppended
    <3>2. Distinct(queue')
      BY <1>t, <2>1, <2>3, DistinctAppended DEF PlaceInv
    <3> QED
      BY <1>n, <2>1, <3>1, <3>2 DEF PlaceInv
  <2> QED
    BY <1>5, <2>2, <2>3 DEF Raises
<1> QED
  BY <1>1, <1>2, <1>3, <1>4, <1>5 DEF QueueNext, Proceed

LEMMA DoneStep == PlaceInv /\ DoneInv /\ [QueueNext]_queueVars => DoneInv'
<1> SUFFICES ASSUME PlaceInv, DoneInv, [QueueNext]_queueVars PROVE DoneInv'
  OBVIOUS
<1> USE DEF queueHistory
<1>1. CASE Handled
  <2>1. hand \notin succeeded /\ processed' = processed + 1 /\ succeeded' = succeeded \union {hand}
    BY <1>1 DEF Handled, PlaceInv
  <2> QED
    BY <2>1, FS_AddElement DEF DoneInv
<1>2. CASE UNCHANGED <<processed, succeeded>>
  BY <1>2 DEF DoneInv
<1> QED
  BY <1>1, <1>2
     DEF QueueNext, Proceed, Enqueue, BeginProcessAll, Dequeue, EndProcessAll, Raises, queueVars

\* However often a message failed and came back, it is queued once at most, never
\* after its handler returned, and processed_count counts exactly the handlers that
\* returned.
THEOREM EachProcessedOnce == QueueSpec => []ProcessedOnce
<1>1. QueueInit => DoneInv
  BY FS_EmptySet DEF QueueInit, DoneInv
<1>2. PlaceInv /\ DoneInv => ProcessedOnce
  BY DEF PlaceInv, DoneInv, ProcessedOnce, Distinct
<1> QED
  BY <1>1, <1>2, TypeCorrect, PlaceInit, PlaceStep, DoneStep, PTL DEF QueueSpec

-------------------------------------------------------------------------------
(* Bounded calls.                                                             *)

Allowed(m) == IF MaxRetries[m] = 0 THEN 1 ELSE MaxRetries[m]

\* A call returned, is running, or was counted as a retry; whoever may still be
\* called, or was called with success, has a retry less than allowed.
CallInv ==
  \A m \in Messages :
    /\ calls[m] = retries[m] + (IF m \in succeeded \union {hand} THEN 1 ELSE 0)
    /\ retries[m] <= Allowed(m)
    /\ m \in Members(queue) \union succeeded \union {hand} => retries[m] < Allowed(m)
    /\ m \notin Members(accepted) => retries[m] = 0

LEMMA AllowedType == \A m \in Messages : Allowed(m) \in Nat \ {0} /\ MaxRetries[m] <= Allowed(m)
BY QueueBounds DEF Allowed

LEMMA CallInit == QueueInit => CallInv
<1> SUFFICES ASSUME QueueInit PROVE CallInv
  OBVIOUS
<1>1. Members(queue) = {} /\ succeeded = {} /\ hand = NoMessage
  BY DEF QueueInit, Members
<1>2. \A m \in Messages : calls[m] = 0 /\ retries[m] = 0 /\ m # NoMessage
  BY NoMessageType DEF QueueInit
<1> QED
  BY <1>1, <1>2, AllowedType DEF CallInv

LEMMA CallStep == QueueTypeOK /\ PlaceInv /\ CallInv /\ [QueueNext]_queueVars => CallInv'
<1> SUFFICES ASSUME QueueTypeOK, PlaceInv, CallInv, [QueueNext]_queueVars PROVE CallInv'
  OBVIOUS
<1> USE DEF queueHistory
<1>t. /\ queue \in Seq(Messages) /\ accepted \in Seq(Messages)
      /\ \A m \in Messages : calls[m] \in Nat /\ retries[m] \in Nat /\ m # NoMessage
  BY NoMessageType DEF QueueTypeOK
<1>1. ASSUME NEW m \in Messages, Enqueue(m) PROVE CallInv'
  <2>1. /\ Members(queue') = Members(queue) \union {m}
        /\ Members(accepted') = Members(accepted) \union {m}
    BY <1>1, <1>t, MembersAppended DEF Enqueue
  <2>2. m \notin Members(accepted) /\ UNCHANGED <<calls, retries, hand, succeeded>>
    BY <1>1 DEF Enqueue
  <2>3. retries[m] = 0
    BY <2>2 DEF CallInv
  <2> QED
    BY <2>1, <2>2, <2>3, AllowedType DEF CallInv
<1>2. CASE Dequeue
  <2> DEFINE h == Head(queue)
  <2>1. h \in Messages
    BY <1>2, <1>t, HeadTaken DEF Dequeue
  <2>2. Members(queue) = Members(queue') \union {h} /\ h \notin Members(queue')
    BY <1>2, <1>t, MembersTaken, DistinctTaken DEF Dequeue, PlaceInv
  <2>3. UNCHANGED <<retries, succeeded, accepted>> /\ hand = NoMessage
    BY <1>2 DEF Dequeue
  <2>4. CASE h \in WithHandler
    <3>1. hand' = h /\ calls' = [calls EXCEPT ![h] = @ + 1]
      BY <1>2, <2>4 DEF Dequeue
    <3>2. calls'[h] = calls[h] + 1 /\ \A m \in Messages \ {h} : calls'[m] = calls[m]
      BY <2>1, <3>1 DEF QueueTypeOK
    <3>3. h \notin succeeded
      BY <2>2 DEF PlaceInv
    <3> HIDE DEF h
    <3>4. ASSUME NEW m \in Messages PROVE
            calls'[m] = retries[m] + (IF m \in succeeded \union {h} THEN 1 ELSE 0)
      <4>1. calls[m] = retries[m] + (IF m \in succeeded \union {NoMessage} THEN 1 ELSE 0)
        BY <2>3 DEF CallInv
      <4>2. CASE m = h
        BY <4>1, <4>2, <3>2, <3>3, <1>t, <2>1
      <4>3. CASE m # h
        BY <4>1, <4>3, <3>2, <1>t
      <4> QED
        BY <4>2, <4>3
    <3> QED
      BY <2>2, <2>3, <3>1, <3>4 DEF CallInv
  <2>5. CASE h \notin WithHandler
    BY <1>2, <2>2, <2>3, <2>5 DEF Dequeue, CallInv
  <2> QED
    BY <2>4, <2>5
<1>3. CASE BeginProcessAll \/ EndProcessAll \/ UNCHANGED queueVars
  BY <1>3 DEF BeginProcessAll, EndProcessAll, queueVars, CallInv, Members
<1>4. CASE Handled
  <2>1. UNCHANGED <<queue, accepted, calls, retries>> /\ hand' = NoMessage
        /\ succeeded' = succeeded \union {hand}
    BY <1>4 DEF Handled
  <2>2. Members(queue') = Members(queue) /\ Members(accepted') = Members(accepted)
    BY <2>1 DEF Members
  <2>3. \A m \in Messages : m \in succeeded' \union {hand'} <=> m \in succeeded \union {hand}
    BY <1>t, <2>1
  <2> QED
    BY <2>1, <2>2, <2>3 DEF CallInv
<1>5. CASE Raises
  <2>1. /\ hand \in Messages /\ hand' = NoMessage /\ UNCHANGED <<succeeded, accepted, calls>>
        /\ hand \notin succeeded /\ hand \notin Members(queue)
        /\ hand \in Members(accepted)
    BY <1>5, WithHandlerType DEF Raises, QueueTypeOK, PlaceInv
  <2>2. retries'[hand] = retries[hand] + 1 /\ \A m \in Messages \ {hand} : retries'[m] = retries[m]
    BY <1>5, <2>1 DEF Raises, QueueTypeOK
  <2>3. /\ Members(queue') \subseteq Members(queue) \union {hand}
        /\ hand \in Members(queue') => retries[hand] + 1 < MaxRetries[hand]
    <3>1. CASE queue' = queue
      BY <2>1, <3>1 DEF Members
    <3>2. CASE queue' = Append(queue, hand) /\ retries[hand] + 1 < MaxRetries[hand]
      BY <1>t, <2>1, <3>2, MembersAppended
    <3> QED
      BY <1>5, <3>1, <3>2 DEF Raises
  <2>4. calls[hand] = retries[hand] + 1 /\ retries[hand] < Allowed(hand)
    BY <2>1 DEF CallInv
  <2>5. /\ calls'[hand] = retries'[hand] /\ retries'[hand] <= Allowed(hand)
        /\ hand \in Members(queue') => retries'[hand] < Allowed(hand)
    BY <1>t, <2>1, <2>2, <2>3, <2>4, AllowedType, QueueBounds
  <2>6. ASSUME NEW m \in Messages
        PROVE  /\ calls'[m] = retries'[m] + (IF m \in succeeded \union {NoMessage} THEN 1 ELSE 0)
               /\ retries'[m] <= Allowed(m)
               /\ m \in Members(queue') \union succeeded \union {NoMessage} => retries'[m] < Allowed(m)
               /\ m \notin Members(accepted) => retries'[m] = 0
    <3>1. CASE m = hand
      BY <1>t, <2>1, <2>2, <2>5, <3>1
    <3>2. CASE m # hand
      BY <1>t, <2>1, <2>2, <2>3, <3>2 DEF CallInv
    <3> QED
      BY <3>1, <3>2
  <2> QED
    BY <2>1, <2>6 DEF CallInv
<1> QED
  BY <1>1, <1>2, <1>3, <1>4, <1>5 DEF QueueNext, Proceed

\* No handler is called more than max_retries times for a message (once when that is
\* 0), the successful call included.
THEOREM CallsStayBounded == QueueSpec => []CallsBounded
<1>1. QueueTypeOK /\ CallInv => CallsBounded
  <2> SUFFICES ASSUME QueueTypeOK, CallInv, NEW m \in Messages PROVE calls[m] <= Allowed(m)
    BY DEF CallsBounded, Allowed
  <2>1. retries[m] \in Nat /\ Allowed(m) \in Nat
    BY AllowedType DEF QueueTypeOK
  <2> QED
    BY <2>1 DEF CallInv
<1> QED
  BY <1>1, TypeCorrect, PlaceInit, PlaceStep, CallInit, CallStep, PTL DEF QueueSpec

-------------------------------------------------------------------------------
(* Retries that are lost.                                                     *)

\* Taking a message leaves a place for it, until its handler takes that place.
RoomInv == hand # NoMessage /\ pushed = 0 => Len(queue) < MaxQueued

LEMMA RoomStep == QueueTypeOK /\ RoomInv /\ [QueueNext]_queueVars => RoomInv'
<1> SUFFICES ASSUME QueueTypeOK, RoomInv, [QueueNext]_queueVars PROVE RoomInv'
  OBVIOUS
<1> USE DEF queueHistory
<1>1. ASSUME NEW m \in Messages, Enqueue(m) PROVE RoomInv'
  BY <1>1 DEF Enqueue, QueueTypeOK, RoomInv
<1>2. CASE Dequeue
  <2>1. Len(queue') = Len(queue) - 1 /\ Len(queue) \in Nat
    BY <1>2, HeadTaken DEF Dequeue, QueueTypeOK
  <2>2. Len(queue) <= MaxQueued
    BY DEF QueueTypeOK
  <2>3. Len(queue') < MaxQueued
    BY <2>1, <2>2, QueueBounds
  <2> QED
    BY <2>3 DEF RoomInv
<1>3. CASE BeginProcessAll \/ EndProcessAll \/ UNCHANGED queueVars
  BY <1>3 DEF BeginProcessAll, EndProcessAll, queueVars, RoomInv
<1>4. CASE Handled \/ Raises
  BY <1>4 DEF Handled, Raises, RoomInv
<1> QED
  BY <1>1, <1>2, <1>3, <1>4 DEF QueueNext, Proceed

\* A message with retries left is only lost when its own handler filled the queue.
THEOREM RetryOnlyLostToHandler == QueueSpec => RetryLostOnlyWhenRefilled
<1> DEFINE Step == hand # NoMessage /\ hand' = NoMessage /\ hand \notin succeeded' \union Members(queue')
                   => retries'[hand] >= MaxRetries[hand] \/ pushed > 0
<1>1. QueueInit => RoomInv
  BY DEF QueueInit, RoomInv
<1>2. QueueTypeOK /\ RoomInv /\ [QueueNext]_queueVars => [Step]_queueVars
  <2> SUFFICES ASSUME QueueTypeOK, RoomInv, QueueNext,
                      hand # NoMessage, hand' = NoMessage,
                      hand \notin succeeded' \union Members(queue')
               PROVE  retries'[hand] >= MaxRetries[hand] \/ pushed > 0
    OBVIOUS
  <2> USE DEF queueHistory
  <2>1. Raises
    BY DEF QueueNext, Proceed, Enqueue, BeginProcessAll, Dequeue, EndProcessAll, Handled
  <2>2. hand \in Messages /\ queue \in Seq(Messages) /\ pushed \in Nat
    BY WithHandlerType DEF QueueTypeOK
  <2>3. queue' # Append(queue, hand)
    BY <2>2, MembersAppended
  <2>4. ~(retries[hand] + 1 < MaxRetries[hand]) \/ Full
    BY <2>1, <2>3 DEF Raises
  <2>5. retries'[hand] = retries[hand] + 1 /\ retries[hand] \in Nat /\ MaxRetries[hand] \in Nat
    BY <2>1, <2>2, QueueBounds DEF Raises, QueueTypeOK
  <2>6. Full => pushed # 0
    BY <2>2, QueueBounds DEF Full, RoomInv
  <2> QED
    BY <2>2, <2>4, <2>5, <2>6
<1> QED
  BY <1>1, <1>2, TypeCorrect, RoomStep, PTL DEF QueueSpec, RetryLostOnlyWhenRefilled

-------------------------------------------------------------------------------
(* Order of first calls.                                                      *)

\* Messages not called yet are queued in the order they were accepted in, whatever
\* stands between them.
OrderInv ==
  /\ Distinct(accepted)
  /\ \A m \in Messages : calls[m] > 0 => m \in Members(accepted)
  /\ hand # NoMessage => calls[hand] > 0
  /\ \A m \in Members(accepted) : calls[m] = 0 /\ m \in WithHandler => m \in Members(queue)
  /\ \A p, q \in DOMAIN queue : \A i, j \in DOMAIN accepted :
       /\ queue[p] = accepted[i] /\ queue[q] = accepted[j]
       /\ calls[queue[p]] = 0 /\ calls[queue[q]] = 0
       /\ i < j
       => p < q

LEMMA OrderInit == QueueInit => OrderInv
<1> SUFFICES ASSUME QueueInit PROVE OrderInv
  OBVIOUS
<1>1. DOMAIN queue = {} /\ DOMAIN accepted = {} /\ Members(accepted) = {}
  BY DEF QueueInit, Members
<1>2. hand = NoMessage /\ \A m \in Messages : calls[m] = 0
  BY DEF QueueInit
<1> QED
  BY <1>1, <1>2 DEF OrderInv, Distinct

\* A new message goes behind all others, in both sequences.
LEMMA OrderEnqueue ==
  ASSUME QueueTypeOK, PlaceInv, OrderInv, NEW m \in Messages, Enqueue(m)
  PROVE  OrderInv'
<1>1. /\ queue \in Seq(Messages) /\ accepted \in Seq(Messages)
      /\ queue' = Append(queue, m) /\ accepted' = Append(accepted, m)
      /\ calls' = calls /\ hand' = hand
      /\ m \notin Members(accepted) /\ m \notin Members(queue)
  BY DEF Enqueue, QueueTypeOK, PlaceInv
<1>2. /\ Members(queue') = Members(queue) \union {m}
      /\ Members(accepted') = Members(accepted) \union {m}
  BY <1>1, MembersAppended
<1>3. Distinct(accepted')
  BY <1>1, DistinctAppended DEF OrderInv
<1>4. /\ Len(queue) \in Nat /\ DOMAIN queue = 1 .. Len(queue) /\ DOMAIN queue' = 1 .. Len(queue) + 1
      /\ \A i \in 1 .. Len(queue) : queue'[i] = queue[i]
      /\ queue'[Len(queue) + 1] = m
  BY <1>1, Appended
<1>5. /\ Len(accepted) \in Nat /\ DOMAIN accepted = 1 .. Len(accepted)
      /\ DOMAIN accepted' = 1 .. Len(accepted) + 1
      /\ \A i \in 1 .. Len(accepted) : accepted'[i] = accepted[i]
      /\ accepted'[Len(accepted) + 1] = m
  BY <1>1, Appended
<1>6. /\ \A p \in DOMAIN queue : queue[p] # m
      /\ \A i \in DOMAIN accepted : accepted[i] # m
  BY <1>1 DEF Members
<1>7. ASSUME NEW p \in DOMAIN queue', NEW q \in DOMAIN queue',
             NEW i \in DOMAIN accepted', NEW j \in DOMAIN accepted',
             queue'[p] = accepted'[i], queue'[q] = accepted'[j],
             calls[queue'[p]] = 0, calls[queue'[q]] = 0, i < j
      PROVE  p < q
  <2>1. i \in DOMAIN accepted /\ accepted'[i] = accepted[i]
    BY <1>5, <1>7
  <2>2. p \in DOMAIN queue /\ queue'[p] = queue[p]
    <3>1. queue'[p] # m
      BY <1>6, <1>7, <2>1
    <3>2. p # Len(queue) + 1
      BY <1>4, <3>1
    <3> QED
      BY <1>4, <1>7, <3>2
  <2>3. CASE q = Len(queue) + 1
    BY <1>4, <2>2, <2>3
  <2>4. CASE q # Len(queue) + 1
    <3>1. q \in DOMAIN queue /\ queue'[q] = queue[q]
      BY <1>4, <1>7, <2>4
    <3>2. accepted'[j] # m
      BY <1>6, <1>7, <3>1
    <3>3. j # Len(accepted) + 1
      BY <1>5, <3>2
    <3>4. j \in DOMAIN accepted /\ accepted'[j] = accepted[j]
      BY <1>5, <1>7, <3>3
    <3> QED
      BY <1>7, <2>1, <2>2, <3>1, <3>4 DEF OrderInv
  <2> QED
    BY <2>3, <2>4
<1> QED
  BY <1>1, <1>2, <1>3, <1>7, ZenonT(60) DEF OrderInv

\* Taking the head moves every other message one place forward; it can only raise
\* the calls of the message it takes.
LEMMA OrderDequeue ==
  ASSUME QueueTypeOK, PlaceInv, OrderInv, Dequeue
  PROVE  OrderInv'
<1> DEFINE h == Head(queue)
<1>1. /\ queue \in Seq(Messages) /\ queue # << >> /\ queue' = Tail(queue)
      /\ accepted' = accepted /\ h \in Messages
  BY HeadTaken DEF Dequeue, QueueTypeOK
<1>2. /\ Len(queue) \in Nat \ {0} /\ DOMAIN queue = 1 .. Len(queue)
      /\ DOMAIN queue' = 1 .. Len(queue) - 1
      /\ \A i \in 1 .. Len(queue) - 1 : queue'[i] = queue[i + 1]
  BY <1>1, HeadTaken
<1>3. Members(queue) = Members(queue') \union {h} /\ h \notin Members(queue')
  BY <1>1, MembersTaken, DistinctTaken DEF PlaceInv
<1>4. /\ \A m \in Messages : calls[m] \in Nat /\ calls'[m] \in Nat
      /\ \A m \in Messages \ {h} : calls'[m] = calls[m]
      /\ h \in WithHandler => calls'[h] > 0 /\ hand' = h
      /\ h \notin WithHandler => calls' = calls /\ hand' = NoMessage
  <2>1. CASE h \in WithHandler
    <3>1. calls' = [calls EXCEPT ![h] = @ + 1] /\ hand' = h
      BY <2>1 DEF Dequeue
    <3> HIDE DEF h
    <3> QED
      BY <1>1, <2>1, <3>1 DEF QueueTypeOK
  <2>2. CASE h \notin WithHandler
    <3>1. calls' = calls /\ hand' = NoMessage
      BY <2>2 DEF Dequeue
    <3> HIDE DEF h
    <3> QED
      BY <2>2, <3>1 DEF QueueTypeOK
  <2> QED
    BY <2>1, <2>2
<1>5. Members(accepted) \subseteq Messages /\ h \in Members(accepted)
  <2>1. Members(accepted) \subseteq Messages
    BY DEF QueueTypeOK, Members
  <2> HIDE DEF h
  <2>2. h \in Members(accepted)
    BY <1>3 DEF PlaceInv
  <2> QED
    BY <2>1, <2>2
<1> HIDE DEF h
<1>6. \A m \in Messages : calls'[m] > 0 => m \in Members(accepted)
  BY <1>4, <1>5 DEF OrderInv
<1>7. \A m \in Members(accepted) : calls'[m] = 0 /\ m \in WithHandler => m \in Members(queue')
  <2>1. SUFFICES ASSUME NEW m \in Members(accepted), calls'[m] = 0, m \in WithHandler
                 PROVE  m \in Members(queue')
    OBVIOUS
  <2>2. m # h
    BY <1>4, <2>1
  <2>3. m \in Members(queue)
    BY <1>4, <1>5, <2>1, <2>2 DEF OrderInv
  <2> QED
    BY <1>3, <2>2, <2>3
<1>8. ASSUME NEW p \in DOMAIN queue', NEW q \in DOMAIN queue',
             NEW i \in DOMAIN accepted, NEW j \in DOMAIN accepted,
             queue'[p] = accepted[i], queue'[q] = accepted[j],
             calls'[queue'[p]] = 0, calls'[queue'[q]] = 0, i < j
      PROVE  p < q
  <2>1. /\ p \in Nat /\ p + 1 \in DOMAIN queue /\ queue'[p] = queue[p + 1]
        /\ q \in Nat /\ q + 1 \in DOMAIN queue /\ queue'[q] = queue[q + 1]
    BY <1>2, <1>8
  <2>2. queue'[p] \in Messages \ {h} /\ queue'[q] \in Messages \ {h}
    <3>1. queue'[p] \in Members(queue') /\ queue'[q] \in Members(queue')
      BY <1>8 DEF Members
    <3>2. accepted[i] \in Members(accepted) /\ accepted[j] \in Members(accepted)
      BY <1>8 DEF Members
    <3> QED
      BY <1>3, <1>5, <1>8, <3>1, <3>2
  <2>3. calls[queue[p + 1]] = 0 /\ calls[queue[q + 1]] = 0
    BY <1>4, <1>8, <2>1, <2>2
  <2>4. p + 1 < q + 1
    BY <1>8, <2>1, <2>3 DEF OrderInv
  <2> QED
    BY <2>1, <2>4
<1>9. hand' # NoMessage => calls'[hand'] > 0
  BY <1>4
<1> QED
  BY <1>1, <1>6, <1>7, <1>8, <1>9 DEF OrderInv

\* A message that comes back was called already: the order is not about it.
LEMMA OrderRaises ==
  ASSUME QueueTypeOK, OrderInv, Raises
  PROVE  OrderInv'
<1>1. /\ queue \in Seq(Messages) /\ hand \in Messages /\ hand # NoMessage /\ hand' = NoMessage
      /\ accepted' = accepted /\ calls' = calls /\ calls[hand] > 0 /\ calls[hand] \in Nat
  BY WithHandlerType DEF Raises, QueueTypeOK, OrderInv, queueHistory
<1>2. CASE queue' = queue
  BY <1>1, <1>2 DEF OrderInv, Members
<1>3. CASE queue' = Append(queue, hand)
  <2>1. Members(queue') = Members(queue) \union {hand}
    BY <1>1, <1>3, MembersAppended
  <2>2. /\ Len(queue) \in Nat /\ DOMAIN queue = 1 .. Len(queue)
        /\ DOMAIN queue' = 1 .. Len(queue) + 1
        /\ \A i \in 1 .. Len(queue) : queue'[i] = queue[i]
        /\ queue'[Len(queue) + 1] = hand
    BY <1>1, <1>3, Appended
  <2>3. \A p \in DOMAIN queue' : calls[queue'[p]] = 0 => p \in DOMAIN queue /\ queue'[p] = queue[p]
    <3>1. TAKE p \in DOMAIN queue'
    <3>2. CASE p = Len(queue) + 1
      BY <1>1, <2>2, <3>2
    <3>3. CASE p # Len(queue) + 1
      BY <2>2, <3>1, <3>3
    <3> QED
      BY <3>2, <3>3
  <2>4. ASSUME NEW p \in DOMAIN queue', NEW q \in DOMAIN queue',
               NEW i \in DOMAIN accepted, NEW j \in DOMAIN accepted,
               queue'[p] = accepted[i], queue'[q] = accepted[j],
               calls[queue'[p]] = 0, calls[queue'[q]] = 0, i < j
        PROVE  p < q
    BY <2>3, <2>4 DEF OrderInv
  <2> QED
    BY <1>1, <2>1, <2>4 DEF OrderInv, Distinct
<1> QED
  BY <1>2, <1>3 DEF Raises

LEMMA OrderStep == QueueTypeOK /\ PlaceInv /\ OrderInv /\ [QueueNext]_queueVars => OrderInv'
<1> SUFFICES ASSUME QueueTypeOK, PlaceInv, OrderInv, [QueueNext]_queueVars PROVE OrderInv'
  OBVIOUS
<1>1. CASE \E m \in Messages : Enqueue(m)
  BY <1>1, OrderEnqueue
<1>2. CASE Dequeue
  BY <1>2, OrderDequeue
<1>3. CASE Raises
  BY <1>3, OrderRaises
<1>4. CASE BeginProcessAll \/ EndProcessAll \/ Handled \/ UNCHANGED queueVars
  <2>1. UNCHANGED <<queue, accepted, calls>> /\ (hand' = hand \/ hand' = NoMessage)
    BY <1>4 DEF BeginProcessAll, EndProcessAll, Handled, queueVars, queueHistory
  <2> QED
    BY <2>1 DEF OrderInv, Distinct, Members
<1> QED
  BY <1>1, <1>2, <1>3, <1>4 DEF QueueNext, Proceed

\* When a handler is first called, every message accepted earlier that has a handler
\* was called or is the one being called.
LEMMA FirstCall ==
  ASSUME QueueTypeOK, PlaceInv, OrderInv, FirstCallsInOrder, Dequeue
  PROVE  FirstCallsInOrder'
<1> DEFINE h == Head(queue)
<1>1. /\ queue \in Seq(Messages) /\ queue # << >> /\ accepted' = accepted
      /\ h \in Messages /\ h = queue[1] /\ 1 \in DOMAIN queue
      /\ \A p \in DOMAIN queue : p >= 1
  BY HeadTaken DEF Dequeue, QueueTypeOK
<1>2. \A m \in Messages : calls[m] \in Nat /\ calls'[m] \in Nat /\ calls'[m] >= calls[m]
  <2>1. CASE calls' = calls
    BY <2>1 DEF QueueTypeOK
  <2>2. CASE calls' = [calls EXCEPT ![h] = @ + 1]
    <3> HIDE DEF h
    <3> QED
      BY <1>1, <2>2 DEF QueueTypeOK
  <2> QED
    BY <2>1, <2>2 DEF Dequeue
<1>3. \A m \in Messages \ {h} : calls'[m] = calls[m]
  <2>1. CASE calls' = calls
    BY <2>1
  <2>2. CASE calls' = [calls EXCEPT ![h] = @ + 1]
    <3> HIDE DEF h
    <3> QED
      BY <1>1, <2>2 DEF QueueTypeOK
  <2> QED
    BY <2>1, <2>2 DEF Dequeue
<1> HIDE DEF h
<1>4. SUFFICES ASSUME NEW j \in DOMAIN accepted, NEW i \in 1 .. j - 1,
                      calls'[accepted[j]] > 0, accepted[i] \in WithHandler
               PROVE  calls'[accepted[i]] > 0
  BY <1>1 DEF FirstCallsInOrder
<1>5. i \in DOMAIN accepted /\ i < j /\ accepted[i] \in Messages /\ accepted[j] \in Messages
  <2>1. accepted \in Seq(Messages)
    BY DEF QueueTypeOK
  <2>2. DOMAIN accepted = 1 .. Len(accepted) /\ Len(accepted) \in Nat
    BY <2>1
  <2>3. i \in DOMAIN accepted /\ i < j
    BY <1>4, <2>2
  <2> QED
    BY <1>4, <2>1, <2>2, <2>3
<1>6. CASE calls[accepted[i]] > 0
  BY <1>2, <1>5, <1>6
<1>7. CASE calls[accepted[j]] > 0
  <2>1. calls[accepted[i]] > 0
    BY <1>4, <1>7 DEF FirstCallsInOrder
  <2> QED
    BY <1>2, <1>5, <2>1
<1>8. CASE calls[accepted[i]] = 0 /\ calls[accepted[j]] = 0
  <2>1. accepted[j] = h
    BY <1>3, <1>4, <1>5, <1>8
  <2>2. accepted[i] \in Members(queue)
    <3>1. accepted[i] \in Members(accepted)
      BY <1>5 DEF Members
    <3> QED
      BY <1>4, <1>8, <3>1 DEF OrderInv
  <2>3. PICK p \in DOMAIN queue : queue[p] = accepted[i]
    BY <2>2 DEF Members
  <2>4. p < 1
    BY <1>1, <1>4, <1>5, <1>8, <2>1, <2>3 DEF OrderInv
  <2>5. DOMAIN queue \subseteq Int
    BY <1>1
  <2> QED
    BY <1>1, <2>3, <2>4, <2>5
<1> QED
  BY <1>2, <1>5, <1>6, <1>7, <1>8

LEMMA FirstCallsStep ==
  QueueTypeOK /\ PlaceInv /\ OrderInv /\ FirstCallsInOrder /\ [QueueNext]_queueVars => FirstCallsInOrder'
<1> SUFFICES ASSUME QueueTypeOK, PlaceInv, OrderInv, FirstCallsInOrder, [QueueNext]_queueVars
             PROVE  FirstCallsInOrder'
  OBVIOUS
<1>1. ASSUME NEW m \in Messages, Enqueue(m) PROVE FirstCallsInOrder'
  <2>1. /\ accepted \in Seq(Messages) /\ accepted' = Append(accepted, m) /\ calls' = calls
        /\ m \notin Members(accepted) /\ calls[m] \in Nat
    BY <1>1 DEF Enqueue, QueueTypeOK
  <2>2. /\ Len(accepted) \in Nat /\ DOMAIN accepted = 1 .. Len(accepted)
        /\ DOMAIN accepted' = 1 .. Len(accepted) + 1
        /\ \A i \in 1 .. Len(accepted) : accepted'[i] = accepted[i]
        /\ accepted'[Len(accepted) + 1] = m
    BY <2>1, Appended
  <2>3. ~(calls[m] > 0)
    BY <2>1 DEF OrderInv
  <2>4. SUFFICES ASSUME NEW j \in DOMAIN accepted', NEW i \in 1 .. j - 1, calls[accepted'[j]] > 0
                 PROVE  calls[accepted'[i]] > 0 \/ accepted'[i] \notin WithHandler
    BY <2>1 DEF FirstCallsInOrder
  <2>5. j # Len(accepted) + 1
    BY <2>2, <2>3, <2>4
  <2>6. j \in DOMAIN accepted /\ accepted'[j] = accepted[j] /\ accepted'[i] = accepted[i]
    BY <2>2, <2>4, <2>5
  <2> QED
    BY <2>4, <2>6 DEF FirstCallsInOrder
<1>2. CASE Dequeue
  BY <1>2, FirstCall
<1>3. CASE BeginProcessAll \/ EndProcessAll \/ Handled \/ Raises \/ UNCHANGED queueVars
  <2>1. UNCHANGED <<accepted, calls>>
    BY <1>3 DEF BeginProcessAll, EndProcessAll, Handled, Raises, queueVars, queueHistory
  <2> QED
    BY <2>1 DEF FirstCallsInOrder
<1> QED
  BY <1>1, <1>2, <1>3 DEF QueueNext, Proceed

\* Messages are first called in the order they were accepted in, although failed ones
\* come back between them and handlers add new ones.
THEOREM FirstCallsOrdered == QueueSpec => []FirstCallsInOrder
<1>1. QueueInit => FirstCallsInOrder
  BY DEF QueueInit, FirstCallsInOrder
<1> QED
  BY <1>1, TypeCorrect, PlaceInit, PlaceStep, OrderInit, OrderStep, FirstCallsStep, PTL DEF QueueSpec
===============================================================================
