------------------------------ MODULE LaneQueues ------------------------------
(***************************************************************************)
(* The queue side of MultiDomainScheduler: submit puts a message at the    *)
(* end of a bounded lane, cycle takes at most one message from each lane,  *)
(* in the order of the lanes, and run cycles until it is stopped.          *)
(*                                                                         *)
(* Handlers are callbacks: they take time, may submit, register and stop,  *)
(* and may raise.  Time is kept as what remains: ticks until a message is  *)
(* stale, ticks until a cycle is over its budget.                          *)
(***************************************************************************)
EXTENDS Naturals, Sequences

CONSTANTS
  LaneOrder,     \* the lanes in the order of SchedulerLane
  LaneMessages,  \* what is submitted
  Timeless,      \* messages without a timestamp are never stale
  MaxQueueSize,
  MaxAge,        \* max_age_ms, in ticks
  CycleTime,     \* cycle_ms, in ticks
  MaxSubmits,    \* bound: calls of submit for each lane
  NoMessage

Lane == {LaneOrder[i] : i \in DOMAIN LaneOrder}

ASSUME LaneOrderType == LaneOrder \in Seq(Lane) /\ LaneOrder # <<>>
ASSUME LaneBounds == MaxQueueSize \in Nat /\ MaxAge \in Nat /\ CycleTime \in Nat
ASSUME NoMessageType == NoMessage \notin LaneMessages

VARIABLES
  queue,      \* the messages waiting in each lane
  processed, dropped,   \* the counters of each lane
  handlers,   \* the lanes with a registered handler
  running,    \* is run's loop to go on?
  at,         \* position of the lane a cycle is at, or 0
  hand,       \* the message whose handler runs, or NoMessage
  budget,     \* ticks until the cycle is over its budget
  left,       \* ticks until each message is stale
  submits,    \* history: calls of submit for each lane
  accepted    \* history: the messages each lane took, in order

cycleVars == <<at, hand, budget>>
laneVars == <<queue, processed, dropped, handlers, running, cycleVars, left, submits, accepted>>

LanesInit ==
  /\ queue = [l \in Lane |-> <<>>]
  /\ processed = [l \in Lane |-> 0]
  /\ dropped = [l \in Lane |-> 0]
  /\ handlers = {}
  /\ running = FALSE
  /\ at = 0
  /\ hand = NoMessage
  /\ budget = 0
  /\ left = [m \in LaneMessages |-> MaxAge]
  /\ submits = [l \in Lane |-> 0]
  /\ accepted = [l \in Lane |-> <<>>]

IsStale(m) == m \notin Timeless /\ left[m] = 0

OneMore(counter, l) == [counter EXCEPT ![l] = @ + 1]

\* Callers act between cycles, and in handlers.
CallerActs == at = 0 \/ hand # NoMessage

New(m) == \A l \in Lane : \A i \in DOMAIN accepted[l] : accepted[l][i] # m

\* Mutant: a message goes to the front.
EnqueueFirst(l, m) ==
  /\ Len(queue[l]) < MaxQueueSize
  /\ queue' = [queue EXCEPT ![l] = <<m>> \o @]
  /\ accepted' = [accepted EXCEPT ![l] = Append(@, m)]
  /\ UNCHANGED dropped

Enqueue(l, m) ==
  \/ /\ Len(queue[l]) < MaxQueueSize
     /\ queue' = [queue EXCEPT ![l] = Append(@, m)]
     /\ accepted' = [accepted EXCEPT ![l] = Append(@, m)]
     /\ UNCHANGED dropped
  \/ /\ Len(queue[l]) >= MaxQueueSize
     /\ dropped' = OneMore(dropped, l)
     /\ UNCHANGED <<queue, accepted>>

Submit(l, m) ==
  /\ CallerActs
  /\ New(m)
  /\ submits[l] < MaxSubmits
  /\ Enqueue(l, m)
  /\ submits' = OneMore(submits, l)
  /\ UNCHANGED <<processed, handlers, running, cycleVars, left>>

RegisterHandler(l) ==
  /\ CallerActs
  /\ handlers' = handlers \union {l}
  /\ UNCHANGED <<queue, processed, dropped, running, cycleVars, left, submits, accepted>>

Run ==
  /\ at = 0
  /\ running' = TRUE
  /\ UNCHANGED <<queue, processed, dropped, handlers, cycleVars, left, submits, accepted>>

Stop ==
  /\ CallerActs
  /\ running' = FALSE
  /\ UNCHANGED <<queue, processed, dropped, handlers, cycleVars, left, submits, accepted>>

-----------------------------------------------------------------------------
(* One cycle.                                                              *)

BeginCycle ==
  /\ at = 0
  /\ at' = 1
  /\ budget' = CycleTime
  /\ UNCHANGED <<queue, processed, dropped, handlers, running, hand, left, submits, accepted>>

Following == IF at = Len(LaneOrder) THEN 0 ELSE at + 1

\* The cycle looks at lane l; next, it dequeues a message from there.
LooksAt(l) == at # 0 /\ hand = NoMessage /\ l = LaneOrder[at]

Pop(l) == queue' = [queue EXCEPT ![l] = Tail(@)]

DropStale(l) ==
  /\ LooksAt(l)
  /\ queue[l] # <<>>
  /\ IsStale(Head(queue[l]))
  /\ Pop(l)
  /\ dropped' = OneMore(dropped, l)
  /\ UNCHANGED <<processed, handlers, running, cycleVars, left, submits, accepted>>

Skip(l) ==
  /\ LooksAt(l)
  /\ queue[l] = <<>>
  /\ at' = Following
  /\ UNCHANGED <<queue, processed, dropped, handlers, running, hand, budget, left, submits,
                 accepted>>

\* Mutant: without a handler the message stays at the head of its lane.
UnhandledWaits(l) ==
  /\ LooksAt(l)
  /\ queue[l] # <<>>
  /\ ~IsStale(Head(queue[l]))
  /\ l \notin handlers
  /\ at' = Following
  /\ UNCHANGED <<queue, processed, dropped, handlers, running, hand, budget, left, submits,
                 accepted>>

Unhandled(l) ==
  /\ LooksAt(l)
  /\ queue[l] # <<>>
  /\ ~IsStale(Head(queue[l]))
  /\ l \notin handlers
  /\ Pop(l)
  /\ dropped' = OneMore(dropped, l)
  /\ at' = Following
  /\ UNCHANGED <<processed, handlers, running, hand, budget, left, submits, accepted>>

Take(l) ==
  /\ LooksAt(l)
  /\ queue[l] # <<>>
  /\ ~IsStale(Head(queue[l]))
  /\ l \in handlers
  /\ Pop(l)
  /\ hand' = Head(queue[l])
  /\ UNCHANGED <<processed, dropped, handlers, running, at, budget, left, submits, accepted>>

\* A handler ended: the cycle goes on unless it is over its budget.
HandlerEnds ==
  /\ hand # NoMessage
  /\ hand' = NoMessage
  /\ at' = IF budget = 0 THEN 0 ELSE Following
  /\ UNCHANGED <<queue, handlers, running, budget, left, submits, accepted>>

Handled ==
  /\ HandlerEnds
  /\ processed' = OneMore(processed, LaneOrder[at])
  /\ UNCHANGED dropped

\* Mutant: a failed handler is logged only.
HandlerFailsUncounted ==
  /\ HandlerEnds
  /\ UNCHANGED <<processed, dropped>>

HandlerFails ==
  /\ HandlerEnds
  /\ dropped' = OneMore(dropped, LaneOrder[at])
  /\ UNCHANGED processed

Tick ==
  /\ left' = [m \in LaneMessages |-> IF left[m] = 0 THEN 0 ELSE left[m] - 1]
  /\ budget' = IF budget = 0 THEN 0 ELSE budget - 1
  /\ UNCHANGED <<queue, processed, dropped, handlers, running, at, hand, submits, accepted>>

Proceed ==
  \/ \E l \in Lane : DropStale(l) \/ Skip(l) \/ Unhandled(l) \/ Take(l)
  \/ Handled \/ HandlerFails

LanesNext ==
  \/ \E l \in Lane : RegisterHandler(l) \/ \E m \in LaneMessages : Submit(l, m)
  \/ Run \/ Stop \/ BeginCycle \/ Proceed \/ Tick

LanesSpec == LanesInit /\ [][LanesNext]_laneVars

\* A cycle that has begun goes on and handlers end; run's loop begins the next one.
LanesFairness == WF_laneVars(Proceed) /\ WF_laneVars(running /\ BeginCycle)

-----------------------------------------------------------------------------
(* Properties.                                                             *)

LanesTypeOK ==
  /\ queue \in [Lane -> Seq(LaneMessages)]
  /\ \A l \in Lane : Len(queue[l]) <= MaxQueueSize
  /\ processed \in [Lane -> Nat] /\ dropped \in [Lane -> Nat]
  /\ handlers \subseteq Lane
  /\ running \in BOOLEAN
  /\ at \in 0 .. Len(LaneOrder)
  /\ hand \in LaneMessages \union {NoMessage} /\ (at = 0 => hand = NoMessage)
  /\ budget \in 0 .. CycleTime
  /\ left \in [LaneMessages -> 0 .. MaxAge]
  /\ submits \in [Lane -> Nat]
  /\ accepted \in [Lane -> Seq(LaneMessages)]

InHand(l) == hand # NoMessage /\ l = LaneOrder[at]

\* Whatever a cycle breaks off, refuses, finds stale or unhandled, each message
\* submitted to a lane is processed, counted as dropped, waiting, or in hand.
EveryMessageCounted ==
  \A l \in Lane :
    submits[l] = processed[l] + dropped[l] + Len(queue[l]) + (IF InHand(l) THEN 1 ELSE 0)

\* How many of the messages a lane took have left its queue.
Gone(l) == Len(accepted[l]) - Len(queue[l])

\* A lane hands its messages out strictly in the order it took them, also those
\* that handlers submit to their own lane.
LaneInOrder ==
  \A l \in Lane :
    /\ Gone(l) \in 0 .. Len(accepted[l])
    /\ \A i \in 1 .. Len(queue[l]) : queue[l][i] = accepted[l][Gone(l) + i]
    /\ InHand(l) => Gone(l) > 0 /\ hand = accepted[l][Gone(l)]

\* While run's loop goes on, no message stays in a lane, also when slow handlers
\* of the lanes before it break every cycle off (submissions being finite).
LanesDrain == <>[]running => \A l \in Lane : []<>(queue[l] = <<>>)
==============================================================================
