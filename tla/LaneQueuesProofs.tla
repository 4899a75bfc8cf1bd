--------------------------- MODULE LaneQueuesProofs ---------------------------
(* Theorems about LaneQueues, for any lanes, messages, sizes and times.      *)
EXTENDS LaneQueues, TLAPS

\* The lane a cycle is at is a lane, and the position after it is one or 0.
LEMMA Positions ==
  ASSUME at \in 0 .. Len(LaneOrder)
  PROVE  /\ at # 0 => LaneOrder[at] \in Lane
         /\ Following \in 0 .. Len(LaneOrder)
         /\ 1 \in 0 .. Len(LaneOrder)
<1>1. Len(LaneOrder) \in Nat /\ Len(LaneOrder) # 0
  BY LaneOrderType
<1>2. at # 0 => at \in DOMAIN LaneOrder
  BY <1>1, LaneOrderType
<1> QED
  BY <1>1, <1>2 DEF Lane, Following

LEMMA TypeInit == LanesInit => LanesTypeOK
<1> SUFFICES ASSUME LanesInit PROVE LanesTypeOK
  OBVIOUS
<1>1. \A l \in Lane : queue[l] = <<>> /\ accepted[l] = <<>>
  BY DEF LanesInit
<1>2. <<>> \in Seq(LaneMessages) /\ Len(<<>>) = 0
  OBVIOUS
<1>3. queue \in [Lane -> Seq(LaneMessages)] /\ accepted \in [Lane -> Seq(LaneMessages)]
  BY <1>2 DEF LanesInit
<1>4. \A l \in Lane : Len(queue[l]) <= MaxQueueSize
  BY <1>1, <1>2, LaneBounds
<1>5. at \in 0 .. Len(LaneOrder)
  BY LaneOrderType DEF LanesInit
<1>6. processed \in [Lane -> Nat] /\ dropped \in [Lane -> Nat] /\ submits \in [Lane -> Nat]
  BY DEF LanesInit
<1>7. budget \in 0 .. CycleTime /\ left \in [LaneMessages -> 0 .. MaxAge]
  BY LaneBounds DEF LanesInit
<1> QED
  BY <1>1, <1>3, <1>4, <1>5, <1>6, <1>7 DEF LanesInit, LanesTypeOK

\* Counting one more and taking the head of a queue keep the types.
LEMMA OneMoreType ==
  ASSUME NEW counter \in [Lane -> Nat], NEW l \in Lane
  PROVE  OneMore(counter, l) \in [Lane -> Nat]
BY DEF OneMore

LEMMA PopType ==
  ASSUME LanesTypeOK, NEW l \in Lane, queue[l] # <<>>, Pop(l)
  PROVE  /\ queue' \in [Lane -> Seq(LaneMessages)]
         /\ \A k \in Lane : Len(queue'[k]) <= MaxQueueSize
         /\ Head(queue[l]) \in LaneMessages
<1>1. /\ Tail(queue[l]) \in Seq(LaneMessages)
      /\ Len(Tail(queue[l])) = Len(queue[l]) - 1
      /\ Head(queue[l]) \in LaneMessages
  BY DEF LanesTypeOK
<1>2. \A k \in Lane : queue'[k] = IF k = l THEN Tail(queue[l]) ELSE queue[k]
  BY DEF LanesTypeOK, Pop
<1>3. Len(queue[l]) \in Nat /\ Len(queue[l]) <= MaxQueueSize
  BY DEF LanesTypeOK
<1>4. \A k \in Lane : Len(queue'[k]) <= MaxQueueSize
  <2>1. \A k \in Lane : Len(queue[k]) <= MaxQueueSize
    BY DEF LanesTypeOK
  <2>2. \A k \in Lane \ {l} : queue'[k] = queue[k]
    BY <1>2
  <2>3. Len(queue'[l]) = Len(queue[l]) - 1
    BY <1>1, <1>2
  <2> QED
    BY <1>3, <2>1, <2>2, <2>3, LaneBounds
<1>5. queue' \in [Lane -> Seq(LaneMessages)]
  BY <1>1 DEF LanesTypeOK, Pop
<1> QED
  BY <1>1, <1>4, <1>5

LEMMA AppendType ==
  ASSUME NEW lists \in [Lane -> Seq(LaneMessages)], NEW l \in Lane, NEW m \in LaneMessages
  PROVE  LET longer == [lists EXCEPT ![l] = Append(@, m)]
         IN  /\ longer \in [Lane -> Seq(LaneMessages)]
             /\ longer[l] = Append(lists[l], m)
             /\ Len(longer[l]) = Len(lists[l]) + 1
             /\ \A k \in Lane \ {l} : longer[k] = lists[k]
OBVIOUS

\* Each action keeps the types.
LEMMA TypeStep == LanesTypeOK /\ [LanesNext]_laneVars => LanesTypeOK'
<1> SUFFICES ASSUME LanesTypeOK, [LanesNext]_laneVars PROVE LanesTypeOK'
  OBVIOUS
<1>p. /\ at # 0 => LaneOrder[at] \in Lane
      /\ Following \in 0 .. Len(LaneOrder)
      /\ 1 \in 0 .. Len(LaneOrder)
  BY Positions DEF LanesTypeOK
<1>1. ASSUME NEW l \in Lane, RegisterHandler(l) PROVE LanesTypeOK'
  BY <1>1 DEF LanesTypeOK, RegisterHandler, cycleVars
<1>2. ASSUME NEW l \in Lane, NEW m \in LaneMessages, Submit(l, m) PROVE LanesTypeOK'
  <2>1. submits' \in [Lane -> Nat]
    BY <1>2, OneMoreType DEF LanesTypeOK, Submit
  <2>2. CASE Len(queue[l]) < MaxQueueSize
    <3>1. /\ queue' = [queue EXCEPT ![l] = Append(@, m)]
          /\ accepted' = [accepted EXCEPT ![l] = Append(@, m)]
          /\ dropped' = dropped
      BY <1>2, <2>2, LaneBounds DEF LanesTypeOK, Submit, Enqueue
    <3>2. accepted' \in [Lane -> Seq(LaneMessages)]
      BY <3>1, AppendType DEF LanesTypeOK
    <3>3. queue' \in [Lane -> Seq(LaneMessages)] /\ Len(queue'[l]) = Len(queue[l]) + 1
      BY <3>1, AppendType DEF LanesTypeOK
    <3>4. \A k \in Lane : Len(queue'[k]) <= MaxQueueSize
      <4>1. \A k \in Lane \ {l} : queue'[k] = queue[k]
        BY <3>1, AppendType DEF LanesTypeOK
      <4>2. Len(queue[l]) \in Nat
        BY DEF LanesTypeOK
      <4>3. \A k \in Lane : Len(queue[k]) <= MaxQueueSize
        BY DEF LanesTypeOK
      <4> QED
        BY <4>1, <4>2, <4>3, <3>3, <2>2, LaneBounds
    <3> QED
      BY <1>2, <2>1, <3>1, <3>2, <3>3, <3>4 DEF LanesTypeOK, Submit, cycleVars
  <2>3. CASE ~(Len(queue[l]) < MaxQueueSize)
    <3>1. dropped' = OneMore(dropped, l) /\ queue' = queue /\ accepted' = accepted
      BY <1>2, <2>3 DEF Submit, Enqueue
    <3>2. dropped' \in [Lane -> Nat]
      BY <3>1, OneMoreType DEF LanesTypeOK
    <3> QED
      BY <1>2, <2>1, <3>1, <3>2 DEF LanesTypeOK, Submit, cycleVars
  <2> QED
    BY <2>2, <2>3
<1>3. CASE Run
  BY <1>3 DEF LanesTypeOK, Run, cycleVars
<1>4. CASE Stop
  BY <1>4 DEF LanesTypeOK, Stop, cycleVars
<1>5. CASE BeginCycle
  BY <1>5, <1>p, LaneBounds DEF LanesTypeOK, BeginCycle
<1>6. ASSUME NEW l \in Lane, DropStale(l) PROVE LanesTypeOK'
  <2>1. dropped' \in [Lane -> Nat]
    BY <1>6, OneMoreType DEF LanesTypeOK, DropStale
  <2> QED
    BY <1>6, <2>1, PopType DEF LanesTypeOK, DropStale, cycleVars
<1>7. ASSUME NEW l \in Lane, Skip(l) PROVE LanesTypeOK'
  BY <1>7, <1>p DEF LanesTypeOK, Skip, LooksAt
<1>8. ASSUME NEW l \in Lane, Unhandled(l) PROVE LanesTypeOK'
  <2>1. dropped' \in [Lane -> Nat]
    BY <1>8, OneMoreType DEF LanesTypeOK, Unhandled
  <2> QED
    BY <1>8, <1>p, <2>1, PopType DEF LanesTypeOK, Unhandled, LooksAt
<1>9. ASSUME NEW l \in Lane, Take(l) PROVE LanesTypeOK'
  BY <1>9, PopType DEF LanesTypeOK, Take, LooksAt
<1>10. CASE Handled
  <2>1. processed' \in [Lane -> Nat]
    BY <1>10, <1>p, OneMoreType DEF LanesTypeOK, Handled, HandlerEnds
  <2> QED
    BY <1>10, <1>p, <2>1 DEF LanesTypeOK, Handled, HandlerEnds
<1>11. CASE HandlerFails
  <2>1. dropped' \in [Lane -> Nat]
    BY <1>11, <1>p, OneMoreType DEF LanesTypeOK, HandlerFails, HandlerEnds
  <2> QED
    BY <1>11, <1>p, <2>1, SMTT(30) DEF LanesTypeOK, HandlerFails, HandlerEnds
<1>12. CASE Tick
  <2>1. left' \in [LaneMessages -> 0 .. MaxAge] /\ budget' \in 0 .. CycleTime
    BY <1>12, LaneBounds DEF LanesTypeOK, Tick
  <2> QED
    BY <1>12, <2>1 DEF LanesTypeOK, Tick
<1>13. CASE UNCHANGED laneVars
  BY <1>13 DEF LanesTypeOK, laneVars, cycleVars
<1> QED
  BY <1>1, <1>2, <1>3, <1>4, <1>5, <1>6, <1>7, <1>8, <1>9, <1>10, <1>11, <1>12, <1>13
     DEF LanesNext, Proceed

\* Type correctness of the scheduler's queues: no lane ever exceeds its size.
THEOREM TypeCorrect == LanesSpec => []LanesTypeOK
BY TypeInit, TypeStep, PTL DEF LanesSpec

-----------------------------------------------------------------------------
(* Every message is counted.                                               *)

\* What the counting needs of a queue whose head is taken.
LEMMA PopLength ==
  ASSUME LanesTypeOK, NEW l \in Lane, queue[l] # <<>>, Pop(l), NEW k \in Lane
  PROVE  Len(queue'[k]) = IF k = l THEN Len(queue[k]) - 1 ELSE Len(queue[k])
<1>1. queue'[k] = IF k = l THEN Tail(queue[l]) ELSE queue[k]
  BY DEF LanesTypeOK, Pop
<1>2. Len(Tail(queue[l])) = Len(queue[l]) - 1
  BY DEF LanesTypeOK
<1> QED
  BY <1>1, <1>2

LEMMA OneMoreCount ==
  ASSUME NEW counter \in [Lane -> Nat], NEW l \in Lane, NEW k \in Lane
  PROVE  OneMore(counter, l)[k] = IF k = l THEN counter[k] + 1 ELSE counter[k]
BY DEF OneMore

LEMMA CountedStep ==
  LanesTypeOK /\ EveryMessageCounted /\ [LanesNext]_laneVars => EveryMessageCounted'
<1> SUFFICES ASSUME LanesTypeOK, EveryMessageCounted, [LanesNext]_laneVars, NEW k \in Lane
             PROVE  submits'[k] = processed'[k] + dropped'[k] + Len(queue'[k])
                                    + (IF InHand(k)' THEN 1 ELSE 0)
  BY DEF EveryMessageCounted
<1>c. submits[k] = processed[k] + dropped[k] + Len(queue[k]) + (IF InHand(k) THEN 1 ELSE 0)
  BY DEF EveryMessageCounted
<1>t. /\ submits[k] \in Nat /\ processed[k] \in Nat /\ dropped[k] \in Nat
      /\ Len(queue[k]) \in Nat
      /\ submits \in [Lane -> Nat] /\ processed \in [Lane -> Nat]
      /\ dropped \in [Lane -> Nat]
  BY DEF LanesTypeOK
<1>h. at = 0 => hand = NoMessage
  BY DEF LanesTypeOK
<1>p. at # 0 => LaneOrder[at] \in Lane
  BY Positions DEF LanesTypeOK
<1>1. CASE \E l \in Lane : RegisterHandler(l)
  BY <1>1, <1>c DEF RegisterHandler, cycleVars, InHand
<1>2. ASSUME NEW l \in Lane, NEW m \in LaneMessages, Submit(l, m)
      PROVE  submits'[k] = processed'[k] + dropped'[k] + Len(queue'[k])
                             + (IF InHand(k)' THEN 1 ELSE 0)
  <2>1. /\ submits'[k] = IF k = l THEN submits[k] + 1 ELSE submits[k]
        /\ UNCHANGED <<processed, at, hand>>
    BY <1>2, <1>t, OneMoreCount DEF Submit, cycleVars
  <2>2. InHand(k)' <=> InHand(k)
    BY <2>1 DEF InHand
  <2>3. CASE Len(queue[l]) < MaxQueueSize
    <3>n. Len(queue[l]) \in Nat
      BY DEF LanesTypeOK
    <3>1. queue' = [queue EXCEPT ![l] = Append(@, m)] /\ dropped' = dropped
      BY <1>2, <2>3, <3>n, LaneBounds DEF Submit, Enqueue
    <3>2. Len(queue'[k]) = IF k = l THEN Len(queue[k]) + 1 ELSE Len(queue[k])
      BY <3>1, AppendType DEF LanesTypeOK
    <3> QED
      BY <1>c, <1>t, <2>1, <2>2, <3>1, <3>2
  <2>4. CASE ~(Len(queue[l]) < MaxQueueSize)
    <3>1. dropped' = OneMore(dropped, l) /\ queue' = queue
      BY <1>2, <2>4 DEF Submit, Enqueue
    <3>2. OneMore(dropped, l)[k] = IF k = l THEN dropped[k] + 1 ELSE dropped[k]
      BY <1>t, OneMoreCount
    <3> QED
      BY <1>c, <1>t, <2>1, <2>2, <3>1, <3>2
  <2> QED
    BY <2>3, <2>4
<1>3. CASE Run \/ Stop
  BY <1>3, <1>c DEF Run, Stop, cycleVars, InHand
<1>4. CASE BeginCycle
  BY <1>4, <1>c, <1>h DEF BeginCycle, InHand
<1>5. ASSUME NEW l \in Lane, DropStale(l) \/ Unhandled(l)
      PROVE  submits'[k] = processed'[k] + dropped'[k] + Len(queue'[k])
                             + (IF InHand(k)' THEN 1 ELSE 0)
  <2>0. OneMore(dropped, l)[k] = IF k = l THEN dropped[k] + 1 ELSE dropped[k]
    BY <1>t, OneMoreCount
  <2>1. /\ dropped'[k] = IF k = l THEN dropped[k] + 1 ELSE dropped[k]
        /\ UNCHANGED <<submits, processed, hand>> /\ hand = NoMessage
        /\ queue[l] # <<>> /\ Pop(l)
    BY <1>5, <2>0 DEF DropStale, Unhandled, LooksAt, cycleVars
  <2>2. Len(queue'[k]) = IF k = l THEN Len(queue[k]) - 1 ELSE Len(queue[k])
    BY <2>1, PopLength
  <2> QED
    BY <1>c, <1>t, <2>1, <2>2 DEF InHand
<1>6. CASE \E l \in Lane : Skip(l)
  BY <1>6, <1>c DEF Skip, LooksAt, InHand
<1>7. ASSUME NEW l \in Lane, Take(l)
      PROVE  submits'[k] = processed'[k] + dropped'[k] + Len(queue'[k])
                             + (IF InHand(k)' THEN 1 ELSE 0)
  <2>1. /\ UNCHANGED <<submits, processed, dropped, at>> /\ hand = NoMessage
        /\ queue[l] # <<>> /\ Pop(l) /\ l = LaneOrder[at] /\ hand' = Head(queue[l])
    BY <1>7 DEF Take, LooksAt
  <2>2. hand' # NoMessage
    <3>1. Head(queue[l]) \in LaneMessages
      BY <2>1, PopType
    <3> QED
      BY <2>1, <3>1, NoMessageType
  <2>3. Len(queue'[k]) = IF k = l THEN Len(queue[k]) - 1 ELSE Len(queue[k])
    BY <2>1, PopLength
  <2> QED
    BY <1>c, <1>t, <2>1, <2>2, <2>3 DEF InHand
<1>8. CASE Handled
  <2>1. /\ hand # NoMessage /\ hand' = NoMessage /\ LaneOrder[at] \in Lane
        /\ UNCHANGED <<submits, dropped, queue>>
    BY <1>8, <1>h, <1>p DEF Handled, HandlerEnds
  <2>2. processed'[k] = IF k = LaneOrder[at] THEN processed[k] + 1 ELSE processed[k]
    BY <1>8, <1>t, <2>1, OneMoreCount DEF Handled
  <2> QED
    BY <1>c, <1>t, <2>1, <2>2 DEF InHand
<1>9. CASE HandlerFails
  <2>1. /\ hand # NoMessage /\ hand' = NoMessage /\ LaneOrder[at] \in Lane
        /\ UNCHANGED <<submits, processed, queue>>
    BY <1>9, <1>h, <1>p DEF HandlerFails, HandlerEnds
  <2>2. dropped'[k] = IF k = LaneOrder[at] THEN dropped[k] + 1 ELSE dropped[k]
    BY <1>9, <1>t, <2>1, OneMoreCount DEF HandlerFails
  <2> QED
    BY <1>c, <1>t, <2>1, <2>2 DEF InHand
<1>10. CASE Tick
  BY <1>10, <1>c DEF Tick, InHand
<1>11. CASE UNCHANGED laneVars
  BY <1>11, <1>c DEF laneVars, cycleVars, InHand
<1> QED
  BY <1>1, <1>2, <1>3, <1>4, <1>5, <1>6, <1>7, <1>8, <1>9, <1>10, <1>11 DEF LanesNext, Proceed

\* Every message submitted to a lane is processed, counted as dropped, waiting or in
\* hand, for any number of messages, whatever handlers do and however cycles end.
THEOREM MessagesCounted == LanesSpec => []EveryMessageCounted
<1>1. LanesInit => EveryMessageCounted
  <2> SUFFICES ASSUME LanesInit, NEW l \in Lane
               PROVE  submits[l] = processed[l] + dropped[l] + Len(queue[l])
                                     + (IF InHand(l) THEN 1 ELSE 0)
    BY DEF EveryMessageCounted
  <2>1. submits[l] = 0 /\ processed[l] = 0 /\ dropped[l] = 0 /\ queue[l] = <<>> /\ hand = NoMessage
    BY DEF LanesInit
  <2> QED
    BY <2>1 DEF InHand
<1> QED
  BY <1>1, TypeInit, TypeStep, CountedStep, PTL DEF LanesSpec
-----------------------------------------------------------------------------
(* A lane hands its messages out in order.                                 *)

\* The queue q is what remains of the history a after its first messages.
Suffix(q, a) ==
  /\ Len(a) - Len(q) \in 0 .. Len(a)
  /\ \A i \in 1 .. Len(q) : q[i] = a[Len(a) - Len(q) + i]

LEMMA AppendSuffix ==
  ASSUME NEW q \in Seq(LaneMessages), NEW a \in Seq(LaneMessages), NEW m \in LaneMessages,
         Suffix(q, a)
  PROVE  /\ Suffix(Append(q, m), Append(a, m))
         /\ Len(Append(a, m)) - Len(Append(q, m)) = Len(a) - Len(q)
<1>1. /\ Len(q) \in Nat /\ Len(a) \in Nat
      /\ Len(Append(q, m)) = Len(q) + 1 /\ Len(Append(a, m)) = Len(a) + 1
  OBVIOUS
<1>2. /\ \A i \in 1 .. Len(q) : Append(q, m)[i] = q[i]
      /\ \A i \in 1 .. Len(a) : Append(a, m)[i] = a[i]
      /\ Append(q, m)[Len(q) + 1] = m /\ Append(a, m)[Len(a) + 1] = m
  OBVIOUS
<1>3. ASSUME NEW i \in 1 .. Len(q) + 1
      PROVE  Append(q, m)[i] = Append(a, m)[Len(a) - Len(q) + i]
  <2>1. CASE i = Len(q) + 1
    BY <1>1, <1>2, <2>1
  <2>2. CASE i \in 1 .. Len(q)
    <3>1. Len(a) - Len(q) + i \in 1 .. Len(a)
      BY <1>1, <2>2 DEF Suffix
    <3> QED
      BY <1>2, <2>2, <3>1 DEF Suffix
  <2>3. i = Len(q) + 1 \/ i \in 1 .. Len(q)
    BY <1>1
  <2> QED
    BY <2>1, <2>2, <2>3
<1>4. /\ Len(Append(a, m)) - Len(Append(q, m)) = Len(a) - Len(q)
      /\ Len(a) - Len(q) \in 0 .. Len(Append(a, m))
  BY <1>1 DEF Suffix
<1>5. \A i \in 1 .. Len(Append(q, m)) :
        Append(q, m)[i] = Append(a, m)[Len(Append(a, m)) - Len(Append(q, m)) + i]
  BY <1>1, <1>3, <1>4
<1> QED
  BY <1>4, <1>5 DEF Suffix

LEMMA TailSuffix ==
  ASSUME NEW q \in Seq(LaneMessages), q # <<>>, NEW a \in Seq(LaneMessages), Suffix(q, a)
  PROVE  /\ Suffix(Tail(q), a)
         /\ Len(a) - Len(Tail(q)) = Len(a) - Len(q) + 1
         /\ Head(q) = a[Len(a) - Len(q) + 1]
<1>1. Len(q) \in Nat /\ Len(q) # 0 /\ Len(a) \in Nat /\ Len(Tail(q)) = Len(q) - 1
  OBVIOUS
<1>2. Head(q) = q[1] /\ \A i \in 1 .. Len(q) - 1 : Tail(q)[i] = q[i + 1]
  OBVIOUS
<1>3. ASSUME NEW i \in 1 .. Len(q) - 1
      PROVE  Tail(q)[i] = a[Len(a) - (Len(q) - 1) + i]
  <2>1. i + 1 \in 1 .. Len(q) /\ Len(a) - Len(q) + (i + 1) = Len(a) - (Len(q) - 1) + i
    BY <1>1
  <2>2. q[i + 1] = a[Len(a) - Len(q) + (i + 1)]
    BY <2>1 DEF Suffix
  <2> QED
    BY <1>2, <2>1, <2>2
<1>4. Len(a) - (Len(q) - 1) \in 0 .. Len(a)
  BY <1>1 DEF Suffix
<1>5. Head(q) = a[Len(a) - Len(q) + 1]
  <2>1. 1 \in 1 .. Len(q)
    BY <1>1
  <2> QED
    BY <1>2, <2>1 DEF Suffix
<1> QED
  BY <1>1, <1>3, <1>4, <1>5 DEF Suffix

\* LaneInOrder for one lane, by the suffix its queue is.
InOrderAt(k) ==
  /\ Suffix(queue[k], accepted[k])
  /\ InHand(k) => Gone(k) > 0 /\ hand = accepted[k][Gone(k)]

LEMMA InOrderStep ==
  ASSUME LanesTypeOK, NEW k \in Lane, InOrderAt(k), [LanesNext]_laneVars
  PROVE  InOrderAt(k)'
<1>t. queue[k] \in Seq(LaneMessages) /\ accepted[k] \in Seq(LaneMessages)
  BY DEF LanesTypeOK
<1>h. at = 0 => hand = NoMessage
  BY DEF LanesTypeOK
<1>1. ASSUME queue'[k] = queue[k], accepted'[k] = accepted[k], InHand(k)' => InHand(k),
             hand' = hand \/ ~InHand(k)'
      PROVE  InOrderAt(k)'
  BY <1>1 DEF InOrderAt, Suffix, Gone
<1>2. ASSUME NEW l \in Lane, NEW m \in LaneMessages, Submit(l, m) PROVE InOrderAt(k)'
  <2>0. UNCHANGED <<at, hand>> /\ (InHand(k)' <=> InHand(k))
    BY <1>2 DEF Submit, cycleVars, InHand
  <2>1. CASE queue' = queue /\ accepted' = accepted
    BY <1>1, <2>0, <2>1
  <2>2. CASE /\ queue' = [queue EXCEPT ![l] = Append(@, m)]
             /\ accepted' = [accepted EXCEPT ![l] = Append(@, m)]
    <3>1. CASE k = l
      <4>1. queue'[k] = Append(queue[k], m) /\ accepted'[k] = Append(accepted[k], m)
        BY <2>2, <3>1, AppendType DEF LanesTypeOK
      <4>2. Suffix(queue'[k], accepted'[k]) /\ Gone(k)' = Gone(k)
        BY <1>t, <4>1, AppendSuffix DEF InOrderAt, Gone
      <4>3. Gone(k) \in 0 .. Len(accepted[k])
        BY DEF InOrderAt, Suffix, Gone
      <4>4. Gone(k) > 0 => accepted'[k][Gone(k)] = accepted[k][Gone(k)]
        BY <1>t, <4>1, <4>3
      <4> QED
        BY <2>0, <4>2, <4>4 DEF InOrderAt
    <3>2. CASE k # l
      <4>1. queue'[k] = queue[k] /\ accepted'[k] = accepted[k]
        BY <2>2, <3>2, AppendType DEF LanesTypeOK
      <4> QED
        BY <1>1, <2>0, <4>1
    <3> QED
      BY <3>1, <3>2
  <2> QED
    BY <1>2, <2>1, <2>2 DEF Submit, Enqueue
<1>3. ASSUME NEW l \in Lane, queue[l] # <<>>, Pop(l), accepted' = accepted, hand = NoMessage,
             IF k = l THEN InHand(k)' => hand' = Head(queue[k]) ELSE ~InHand(k)'
      PROVE  InOrderAt(k)'
  <2>1. CASE k = l
    <3>1. queue'[k] = Tail(queue[k])
      BY <1>3, <2>1 DEF LanesTypeOK, Pop
    <3>2. /\ Suffix(queue'[k], accepted'[k])
          /\ Gone(k)' = Gone(k) + 1
          /\ Head(queue[k]) = accepted'[k][Gone(k) + 1]
      BY <1>3, <1>t, <2>1, <3>1, TailSuffix DEF InOrderAt, Gone
    <3>3. Gone(k) \in Nat
      BY <1>t DEF InOrderAt, Suffix, Gone
    <3> QED
      BY <1>3, <2>1, <3>2, <3>3 DEF InOrderAt
  <2>2. CASE k # l
    <3>1. queue'[k] = queue[k]
      BY <1>3, <2>2 DEF LanesTypeOK, Pop
    <3> QED
      BY <1>1, <1>3, <2>2, <3>1
  <2> QED
    BY <2>1, <2>2
<1>4. ASSUME NEW l \in Lane, DropStale(l) \/ Unhandled(l) \/ Take(l) PROVE InOrderAt(k)'
  <2>1. queue[l] # <<>> /\ Pop(l) /\ accepted' = accepted /\ hand = NoMessage /\ l = LaneOrder[at]
    BY <1>4 DEF DropStale, Unhandled, Take, LooksAt, cycleVars
  <2>2. hand' = NoMessage \/ (hand' = Head(queue[l]) /\ at' = at)
    BY <1>4, <2>1 DEF DropStale, Unhandled, Take, cycleVars
  <2>3. IF k = l THEN InHand(k)' => hand' = Head(queue[k]) ELSE ~InHand(k)'
    BY <2>1, <2>2 DEF InHand
  <2> QED
    BY <1>3, <2>1, <2>3
<1>5. CASE Handled \/ HandlerFails
  BY <1>1, <1>5 DEF Handled, HandlerFails, HandlerEnds, InHand
<1>6. CASE BeginCycle
  BY <1>1, <1>6, <1>h DEF BeginCycle, InHand
<1>7. CASE \E l \in Lane : Skip(l)
  BY <1>1, <1>7 DEF Skip, LooksAt, InHand
<1>8. CASE Run \/ Stop \/ Tick \/ UNCHANGED laneVars \/ \E l \in Lane : RegisterHandler(l)
  <2>1. UNCHANGED <<queue, accepted, at, hand>>
    BY <1>8 DEF Run, Stop, Tick, RegisterHandler, laneVars, cycleVars
  <2> QED
    BY <1>1, <2>1 DEF InHand
<1> QED
  BY <1>2, <1>4, <1>5, <1>6, <1>7, <1>8 DEF LanesNext, Proceed

\* A lane hands its messages out strictly in the order it took them, for any number of
\* messages and whatever handlers submit, drop or leave to a later cycle.
THEOREM OrderKept == LanesSpec => []LaneInOrder
<1>1. LaneInOrder <=> \A l \in Lane : InOrderAt(l)
  BY DEF LaneInOrder, InOrderAt, Suffix, Gone
<1>2. LanesInit => LaneInOrder
  <2> SUFFICES ASSUME LanesInit, NEW l \in Lane PROVE InOrderAt(l)
    BY <1>1
  <2>1. queue[l] = <<>> /\ accepted[l] = <<>> /\ hand = NoMessage
    BY DEF LanesInit
  <2> QED
    BY <2>1 DEF InOrderAt, Suffix, InHand
<1>3. LanesTypeOK /\ LaneInOrder /\ [LanesNext]_laneVars => LaneInOrder'
  <2> SUFFICES ASSUME LanesTypeOK, LaneInOrder, [LanesNext]_laneVars, NEW l \in Lane
               PROVE  InOrderAt(l)'
    BY DEF LaneInOrder, InOrderAt, Suffix, Gone
  <2>1. InOrderAt(l)
    BY <1>1
  <2> QED
    BY <2>1, InOrderStep
<1> QED
  BY <1>2, <1>3, TypeInit, TypeStep, PTL DEF LanesSpec
==============================================================================
