------------------------------ MODULE SimCoreProofs ------------------------------
(* Theorems about the SIM core of Rebuild 3: the history of its state, for any   *)
(* states, deltas and length; its reasoning trajectory, for any path; and the    *)
(* queries on its knowledge base, for any facts, rules and goals.                *)
EXTENDS SimHistory, ReasoningSteps, KnowledgeQuery, FiniteSetTheorems, SequenceTheorems,
        WellFoundedInduction, TLAPS

--------------------------------------------------------------------------------
(* Type correctness.                                                           *)

\* A new state leaves a well-formed history, trimmed or not.
LEMMA PushType ==
  ASSUME HistoryTypeOK, NEW data \in Data, Push(data)
  PROVE  HistoryTypeOK'
<1> DEFINE kept == SubSeq(history, 1, current_index + 1)
           new == [version |-> Len(kept), data |-> data]
           grown == Append(kept, new)
<1>1. kept \in Seq(Snapshot) /\ Len(kept) = current_index + 1
  BY DEF HistoryTypeOK
<1>2. new \in Snapshot
  BY <1>1 DEF Snapshot, HistoryTypeOK
<1>3. grown \in Seq(Snapshot) /\ Len(grown) = current_index + 2
  BY <1>1, <1>2 DEF HistoryTypeOK
<1>4. MaxHistory \in Nat \ {0}
  BY HistoryAssumption
<1>5. CASE Len(grown) > MaxHistory
  <2>1. history' = Tail(grown) /\ current_index' = current_index
    BY <1>5 DEF Push
  <2>2. Len(grown) = MaxHistory + 1 /\ current_index = MaxHistory - 1
    BY <1>3, <1>4, <1>5 DEF HistoryTypeOK
  <2> HIDE DEF grown
  <2>3. grown # <<>>
    BY <1>3, <1>4, <2>2, EmptySeq
  <2>4. history' \in Seq(Snapshot) /\ Len(history') = MaxHistory
    BY <1>3, <1>4, <2>1, <2>2, <2>3, HeadTailProperties
  <2> QED
    BY <1>4, <2>1, <2>2, <2>4 DEF HistoryTypeOK
<1>6. CASE ~(Len(grown) > MaxHistory)
  <2>1. history' = grown /\ current_index' = current_index + 1
    BY <1>6 DEF Push
  <2> HIDE DEF grown
  <2> QED
    BY <1>3, <1>4, <1>6, <2>1 DEF HistoryTypeOK
<1> QED
  BY <1>5, <1>6

\* Whatever is pushed is a state.
LEMMA PushedIsState ==
  ASSUME HistoryTypeOK, NEW delta \in Deltas, HasCurrent
  PROVE  delta[Current] \in Data
<1>1. history[current_index + 1] \in Snapshot
  BY DEF HasCurrent, HistoryTypeOK
<1> QED
  BY <1>1, HistoryAssumption DEF Current, Snapshot

\* Every step keeps the history well-formed.
LEMMA TypeStep == HistoryTypeOK /\ [HistoryNext]_historyVars => HistoryTypeOK'
<1> SUFFICES ASSUME HistoryTypeOK, [HistoryNext]_historyVars PROVE HistoryTypeOK'
  OBVIOUS
<1>1. CASE \E data \in Data : Initialize(data)
  BY <1>1, PushType DEF Initialize
<1>2. CASE \E delta \in Deltas : Update(delta)
  <2>1. PICK delta \in Deltas : Update(delta)
    BY <1>2
  <2> QED
    BY <2>1, PushedIsState, PushType DEF Update
<1>3. CASE \E n \in 1 .. MaxHistory : Rewind(n)
  BY <1>3, HistoryAssumption DEF Rewind, HistoryTypeOK
<1>4. CASE \E n \in 1 .. MaxHistory : Forward(n)
  BY <1>4, HistoryAssumption DEF Forward, HistoryTypeOK
<1>5. CASE UNCHANGED historyVars
  BY <1>5 DEF historyVars, HistoryTypeOK
<1> QED
  BY <1>1, <1>2, <1>3, <1>4, <1>5 DEF HistoryNext

\* The trajectory never outgrows its bound, and its index always names one of its
\* snapshots once there is one.
THEOREM TypeCorrect == HistorySpec => []HistoryTypeOK
<1>1. HistoryInit => HistoryTypeOK
  BY HistoryAssumption DEF HistoryInit, HistoryTypeOK
<1> QED
  BY <1>1, TypeStep, PTL DEF HistorySpec

--------------------------------------------------------------------------------
(* Refinement: the trajectory is an undo history.                              *)

\* The undo history sees the data of snapshots.
LEMMA DataOfType ==
  ASSUME NEW s \in Seq(Snapshot)
  PROVE  /\ DataOf(s) \in Seq(Data) /\ Len(DataOf(s)) = Len(s)
         /\ \A i \in 1 .. Len(s) : DataOf(s)[i] = s[i].data
<1>1. \A i \in 1 .. Len(s) : s[i] \in Snapshot
  OBVIOUS
<1>2. \A i \in 1 .. Len(s) : s[i].data \in Data
  BY <1>1 DEF Snapshot
<1> QED
  BY <1>2 DEF DataOf

\* The data of the first n snapshots.
LEMMA FirstData ==
  ASSUME NEW s \in Seq(Snapshot), NEW n \in 0 .. Len(s)
  PROVE  /\ DataOf(SubSeq(s, 1, n)) \in Seq(Data)
         /\ Len(DataOf(SubSeq(s, 1, n))) = n
         /\ \A i \in 1 .. n : DataOf(SubSeq(s, 1, n))[i] = s[i].data
<1> DEFINE t == SubSeq(s, 1, n)
<1>1. t \in Seq(Snapshot) /\ Len(t) = n /\ \A i \in 1 .. n : t[i] = s[i]
  OBVIOUS
<1> HIDE DEF t
<1>2. /\ DataOf(t) \in Seq(Data) /\ Len(DataOf(t)) = n
      /\ \A i \in 1 .. n : DataOf(t)[i] = s[i].data
  BY <1>1, DataOfType
<1> QED
  BY <1>2 DEF t

\* The data of the snapshots behind the first n.
LEMMA LastData ==
  ASSUME NEW s \in Seq(Snapshot), NEW n \in 0 .. Len(s)
  PROVE  /\ DataOf(SubSeq(s, n + 1, Len(s))) \in Seq(Data)
         /\ Len(DataOf(SubSeq(s, n + 1, Len(s)))) = Len(s) - n
         /\ \A i \in 1 .. Len(s) - n : DataOf(SubSeq(s, n + 1, Len(s)))[i] = s[n + i].data
<1> DEFINE t == SubSeq(s, n + 1, Len(s))
<1>1. t \in Seq(Snapshot) /\ Len(t) = Len(s) - n /\ \A i \in 1 .. Len(s) - n : t[i] = s[n + i]
  OBVIOUS
<1> HIDE DEF t
<1>2. /\ DataOf(t) \in Seq(Data) /\ Len(DataOf(t)) = Len(s) - n
      /\ \A i \in 1 .. Len(s) - n : DataOf(t)[i] = s[n + i].data
  BY <1>1, DataOfType
<1> QED
  BY <1>2 DEF t

\* The states done and undone, as the refinement maps them.
Past == DataOf(SubSeq(history, 1, current_index + 1))
Future == DataOf(SubSeq(history, current_index + 2, Len(history)))

\* Their elements, for a trajectory h at index k.
LEMMA HalvesOf ==
  ASSUME NEW h \in Seq(Snapshot), NEW k \in -1 .. Len(h) - 1
  PROVE  LET past == DataOf(SubSeq(h, 1, k + 1))
             future == DataOf(SubSeq(h, k + 2, Len(h)))
         IN /\ past \in Seq(Data) /\ Len(past) = k + 1
            /\ \A i \in 1 .. Len(past) : past[i] = h[i].data
            /\ future \in Seq(Data) /\ Len(future) = Len(h) - k - 1
            /\ \A i \in 1 .. Len(future) : future[i] = h[k + 1 + i].data
<1> DEFINE n == k + 1
           past == DataOf(SubSeq(h, 1, k + 1))
           future == DataOf(SubSeq(h, k + 2, Len(h)))
<1>1. /\ Len(h) \in Nat /\ n \in 0 .. Len(h) /\ k + 2 = n + 1
      /\ Len(h) - k - 1 = Len(h) - n
  OBVIOUS
<1> HIDE DEF n
<1>2. past = DataOf(SubSeq(h, 1, n)) /\ future = DataOf(SubSeq(h, n + 1, Len(h)))
  BY <1>1 DEF n
<1> HIDE DEF past, future
<1>3. /\ past \in Seq(Data) /\ Len(past) = n
      /\ \A i \in 1 .. n : past[i] = h[i].data
  BY <1>1, <1>2, FirstData
<1>4. /\ future \in Seq(Data) /\ Len(future) = Len(h) - n
      /\ \A i \in 1 .. Len(h) - n : future[i] = h[n + i].data
  BY <1>1, <1>2, LastData
<1>5. n = k + 1
  BY DEF n
<1> QED
  BY <1>1, <1>3, <1>4, <1>5 DEF past, future

\* The facts about the states done and undone that the steps below use.
Halves ==
  /\ Past \in Seq(Data) /\ Len(Past) = current_index + 1
  /\ \A i \in 1 .. Len(Past) : Past[i] = history[i].data
  /\ Future \in Seq(Data) /\ Len(Future) = Len(history) - current_index - 1
  /\ \A i \in 1 .. Len(Future) : Future[i] = history[current_index + 1 + i].data

\* They hold of every well-formed trajectory, before and after a step.
LEMMA PastAndFuture ==
  ASSUME HistoryTypeOK
  PROVE  Halves
<1>1. history \in Seq(Snapshot) /\ current_index \in -1 .. Len(history) - 1
  BY DEF HistoryTypeOK
<1> QED
  BY <1>1, HalvesOf DEF Halves, Past, Future

LEMMA PastAndFutureNext ==
  ASSUME HistoryTypeOK'
  PROVE  Halves'
<1>1. history' \in Seq(Snapshot) /\ current_index' \in -1 .. Len(history') - 1
  BY DEF HistoryTypeOK
<1> QED
  BY <1>1, HalvesOf DEF Halves, Past, Future

\* Pushing a state does it: what was undone is forgotten, and of what was done
\* the oldest goes when there is no room.
LEMMA PushDoes ==
  ASSUME HistoryTypeOK, NEW data \in Data, Push(data)
  PROVE  Undoable!Do(data)
<1> DEFINE n == current_index + 1
           kept == SubSeq(history, 1, current_index + 1)
           new == [version |-> Len(kept), data |-> data]
           grown == Append(kept, new)
           longer == Append(Past, data)
<1>1. /\ n \in Nat /\ kept \in Seq(Snapshot) /\ Len(kept) = n
      /\ \A i \in 1 .. n : kept[i] = history[i]
  BY DEF HistoryTypeOK
<1>2. new \in Snapshot /\ new.data = data
  BY <1>1 DEF Snapshot
<1> HIDE DEF kept, new
<1>3. /\ grown \in Seq(Snapshot) /\ Len(grown) = n + 1
      /\ \A i \in 1 .. n : grown[i].data = history[i].data
      /\ grown[n + 1].data = data
  BY <1>1, <1>2, AppendProperties
<1>4. /\ longer \in Seq(Data) /\ Len(longer) = n + 1
      /\ \A i \in 1 .. n : longer[i] = history[i].data
      /\ longer[n + 1] = data
  BY <1>1, PastAndFuture, AppendProperties DEF Halves
<1>5. MaxHistory \in Nat \ {0} /\ n <= MaxHistory
  BY <1>1, HistoryAssumption DEF HistoryTypeOK
<1>6. HistoryTypeOK' /\ Halves'
  BY PushType, PastAndFutureNext
<1>7. current_index' + 1 = Len(history') => Future' = << >>
  BY <1>6, EmptySeq DEF HistoryTypeOK, Halves
<1>8. CASE n + 1 > MaxHistory
  <2>1. history' = Tail(grown) /\ current_index' = current_index
    BY <1>3, <1>8 DEF Push, kept, new
  <2>2. grown # << >> /\ longer # << >>
    BY <1>1, <1>3, <1>4, EmptySeq
  <2> HIDE DEF grown, longer
  <2>3. /\ Len(history') = n
        /\ \A i \in 1 .. n : history'[i] = grown[i + 1]
    BY <1>1, <1>3, <2>1, <2>2, HeadTailProperties
  <2>4. /\ Tail(longer) \in Seq(Data) /\ Len(Tail(longer)) = n
        /\ \A i \in 1 .. n : Tail(longer)[i] = longer[i + 1]
    BY <1>1, <1>4, <2>2, HeadTailProperties
  <2>5. \A i \in 1 .. n : grown[i + 1].data = longer[i + 1]
    BY <1>1, <1>3, <1>4
  <2>6. Len(Past') = n /\ \A i \in 1 .. n : Past'[i] = Tail(longer)[i]
    BY <1>1, <1>6, <2>1, <2>3, <2>4, <2>5, ZenonT(60) DEF Halves
  <2>7. Past' = Tail(longer)
    BY <1>6, <2>4, <2>6, SeqEqual DEF Halves
  <2> QED
    BY <1>4, <1>5, <1>7, <1>8, <2>1, <2>3, <2>7
       DEF Undoable!Do, Undoable!Newest, Past, Future, longer
<1>9. CASE ~(n + 1 > MaxHistory)
  <2>1. history' = grown /\ current_index' = current_index + 1
    BY <1>3, <1>9 DEF Push, kept, new
  <2> HIDE DEF grown, longer
  <2>2. Len(Past') = n + 1 /\ \A i \in 1 .. n + 1 : Past'[i] = grown[i].data
    BY <1>6, <2>1 DEF Halves
  <2>3. \A i \in 1 .. n + 1 : grown[i].data = longer[i]
    <3>1. TAKE i \in 1 .. n + 1
    <3>2. i \in 1 .. n \/ i = n + 1
      BY <1>1
    <3> QED
      BY <3>2, <1>3, <1>4
  <2>4. Past' = longer
    BY <1>4, <1>6, <2>2, <2>3, SeqEqual DEF Halves
  <2> QED
    BY <1>1, <1>3, <1>4, <1>5, <1>7, <1>9, <2>1, <2>4
       DEF Undoable!Do, Undoable!Newest, Past, Future, longer
<1> QED
  BY <1>1, <1>5, <1>8, <1>9

\* The elements of two sequences one behind the other.
LEMMA Joined ==
  ASSUME NEW a \in Seq(Data), NEW b \in Seq(Data)
  PROVE  /\ a \o b \in Seq(Data) /\ Len(a \o b) = Len(a) + Len(b)
         /\ \A i \in 1 .. Len(a) : (a \o b)[i] = a[i]
         /\ \A i \in Len(a) + 1 .. Len(a) + Len(b) : (a \o b)[i] = b[i - Len(a)]
OBVIOUS

\* Rewinding undoes the newest states and keeps them to be done again.
LEMMA RewindUndoes ==
  ASSUME HistoryTypeOK, NEW k \in 1 .. MaxHistory, Rewind(k)
  PROVE  Undoable!Undo(k)
<1> DEFINE n == current_index + 1
           rest == SubSeq(Past, 1, n - k)
           undone == SubSeq(Past, n - k + 1, n)
           later == undone \o Future
<1>1. k \in Nat \ {0}
  BY HistoryAssumption
<1>2. n \in Nat /\ k < n /\ n - k \in Nat \ {0} /\ n - k + k = n /\ Len(history) \in Nat /\ n <= Len(history)
  BY <1>1 DEF Rewind, HistoryTypeOK
<1>3. history' = history /\ current_index' = current_index - k
  BY <1>1 DEF Rewind
<1>4. Halves
  BY PastAndFuture
<1>5. HistoryTypeOK'
  BY <1>1 DEF HistoryTypeOK, Rewind
<1>6. Halves'
  BY <1>5, PastAndFutureNext
<1>7. Past \in Seq(Data) /\ Len(Past) = n /\ Future \in Seq(Data) /\ Len(Future) = Len(history) - n
  BY <1>2, <1>4 DEF Halves, HistoryTypeOK
<1>8. /\ \A i \in 1 .. n : Past[i] = history[i].data
      /\ \A i \in 1 .. Len(history) - n : Future[i] = history[n + i].data
  BY <1>2, <1>4, <1>7 DEF Halves, HistoryTypeOK
<1>9. /\ Past' \in Seq(Data) /\ Len(Past') = n - k
      /\ Future' \in Seq(Data) /\ Len(Future') = Len(history) - n + k
      /\ \A i \in 1 .. n - k : Past'[i] = history[i].data
      /\ \A i \in 1 .. Len(history) - n + k : Future'[i] = history[n - k + i].data
  <2>1. /\ current_index' + 1 = n - k
        /\ Len(history') - current_index' - 1 = Len(history) - n + k
    <3>1. Len(history) \in Nat /\ current_index \in Int /\ k \in Nat
      BY <1>1 DEF HistoryTypeOK
    <3> QED
      BY <1>3, <3>1
  <2> QED
    BY <1>3, <1>6, <2>1 DEF Halves
<1> HIDE DEF n, Past, Future
<1>10. /\ rest \in Seq(Data) /\ Len(rest) = n - k
       /\ \A i \in 1 .. n - k : rest[i] = Past[i]
  BY <1>1, <1>2, <1>7
<1>11. /\ undone \in Seq(Data) /\ Len(undone) = k
       /\ \A i \in 1 .. k : undone[i] = Past[n - k + i]
  BY <1>1, <1>2, <1>7
<1> HIDE DEF rest, undone
<1>12. /\ later \in Seq(Data) /\ Len(later) = Len(history) - n + k
       /\ \A i \in 1 .. k : later[i] = undone[i]
       /\ \A i \in k + 1 .. Len(history) - n + k : later[i] = Future[i - k]
  <2>1. Len(undone) + Len(Future) = Len(history) - n + k
    BY <1>1, <1>2, <1>7, <1>11
  <2>2. /\ later \in Seq(Data) /\ Len(later) = Len(history) - n + k
        /\ \A i \in 1 .. k : later[i] = undone[i]
    BY <1>7, <1>11, <2>1, Joined
  <2>3. \A i \in k + 1 .. Len(undone) + Len(Future) : later[i] = Future[i - k]
    BY <1>7, <1>11, Joined
  <2> QED
    BY <2>1, <2>2, <2>3
<1> HIDE DEF later
<1>13. Past' = rest
  <2>1. \A i \in 1 .. n - k : Past'[i] = rest[i]
    BY <1>1, <1>2, <1>8, <1>9, <1>10
  <2> QED
    BY <1>9, <1>10, <2>1, SeqEqual
<1>14. Future' = later
  <2>1. \A i \in 1 .. Len(history) - n + k : Future'[i] = later[i]
    <3>1. TAKE i \in 1 .. Len(history) - n + k
    <3>2. CASE i \in 1 .. k
      <4>1. later[i] = Past[n - k + i]
        BY <3>2, <1>11, <1>12
      <4>2. n - k + i \in 1 .. n
        BY <1>1, <1>2, <3>2
      <4> QED
        BY <4>1, <4>2, <3>1, <1>8, <1>9
    <3>3. CASE i \in k + 1 .. Len(history) - n + k
      <4>1. later[i] = Future[i - k]
        BY <3>3, <1>12
      <4>2. i - k \in 1 .. Len(history) - n /\ n + (i - k) = n - k + i
        BY <1>1, <1>2, <3>3
      <4>3. Future[i - k] = history[n - k + i].data
        BY <4>2, <1>8
      <4> QED
        BY <4>1, <4>3, <3>1, <1>9
    <3> QED
      BY <1>1, <1>2, <3>1, <3>2, <3>3
  <2> QED
    BY <1>9, <1>12, <2>1, SeqEqual
<1> QED
  BY <1>2, <1>7, <1>13, <1>14 DEF Undoable!Undo, Past, Future, rest, undone, later

\* Going forward does the next of the undone states again.
LEMMA ForwardRedoes ==
  ASSUME HistoryTypeOK, NEW k \in 1 .. MaxHistory, Forward(k)
  PROVE  Undoable!Redo(k)
<1> DEFINE n == current_index + 1
           m == Len(history) - n
           again == SubSeq(Future, 1, k)
           rest == SubSeq(Future, k + 1, m)
           longer == Past \o again
<1>1. k \in Nat \ {0}
  BY HistoryAssumption
<1>2. n \in Nat /\ m \in Nat /\ k <= m
  BY <1>1 DEF Forward, HistoryTypeOK
<1>3. history' = history /\ current_index' = current_index + k
  BY <1>1 DEF Forward
<1>4. Halves
  BY PastAndFuture
<1>5. HistoryTypeOK'
  BY <1>1 DEF HistoryTypeOK, Forward
<1>6. Halves'
  BY <1>5, PastAndFutureNext
<1>7. /\ Past \in Seq(Data) /\ Len(Past) = n
      /\ \A i \in 1 .. n : Past[i] = history[i].data
  BY <1>4 DEF Halves
<1>8. /\ Future \in Seq(Data) /\ Len(Future) = m
      /\ \A i \in 1 .. m : Future[i] = history[n + i].data
  BY <1>2, <1>4 DEF Halves, HistoryTypeOK
<1>9. /\ Past' \in Seq(Data) /\ Len(Past') = n + k
      /\ Future' \in Seq(Data) /\ Len(Future') = m - k
      /\ \A i \in 1 .. n + k : Past'[i] = history[i].data
      /\ \A i \in 1 .. m - k : Future'[i] = history[n + k + i].data
  <2>1. current_index' + 1 = n + k /\ Len(history') - current_index' - 1 = m - k
    <3>1. Len(history) \in Nat /\ current_index \in Int /\ k \in Nat
      BY <1>1 DEF HistoryTypeOK
    <3> QED
      BY <1>3, <3>1
  <2> QED
    BY <1>3, <1>6, <2>1 DEF Halves
<1> HIDE DEF n, m
<1>10. /\ again \in Seq(Data) /\ Len(again) = k
       /\ \A i \in 1 .. k : again[i] = Future[i]
  BY <1>1, <1>2, <1>8
<1>11. /\ rest \in Seq(Data) /\ Len(rest) = m - k
       /\ \A i \in 1 .. m - k : rest[i] = Future[k + i]
  BY <1>1, <1>2, <1>8
<1> HIDE DEF again, rest
<1>12. /\ longer \in Seq(Data) /\ Len(longer) = n + k
       /\ \A i \in 1 .. n : longer[i] = Past[i]
       /\ \A i \in n + 1 .. n + k : longer[i] = again[i - n]
  BY <1>7, <1>10, Joined
<1> HIDE DEF longer
<1>13. Past' = longer
  <2>1. \A i \in 1 .. n + k : Past'[i] = longer[i]
    <3>1. TAKE i \in 1 .. n + k
    <3>2. CASE i \in 1 .. n
      BY <3>1, <3>2, <1>7, <1>9, <1>12
    <3>3. CASE i \in n + 1 .. n + k
      <4>1. i - n \in 1 .. k /\ i - n \in 1 .. m /\ n + (i - n) = i
        BY <1>1, <1>2, <3>3
      <4>2. longer[i] = Future[i - n]
        BY <4>1, <3>3, <1>10, <1>12
      <4>3. Future[i - n] = history[i].data
        BY <4>1, <1>8
      <4> QED
        BY <4>2, <4>3, <3>1, <1>9
    <3> QED
      BY <1>1, <1>2, <3>1, <3>2, <3>3
  <2> QED
    BY <1>9, <1>12, <2>1, SeqEqual
<1>14. Future' = rest
  <2>1. \A i \in 1 .. m - k : Future'[i] = rest[i]
    <3>1. TAKE i \in 1 .. m - k
    <3>2. k + i \in 1 .. m /\ n + (k + i) = n + k + i
      BY <1>1, <1>2, <3>1
    <3>3. rest[i] = history[n + k + i].data
      BY <3>1, <3>2, <1>8, <1>11
    <3> QED
      BY <3>1, <3>3, <1>9
  <2> QED
    BY <1>9, <1>11, <2>1, SeqEqual
<1> QED
  BY <1>2, <1>7, <1>8, <1>13, <1>14
     DEF Undoable!Redo, Past, Future, again, rest, longer

\* At first nothing is done and nothing can be undone.
LEMMA InitRefines == HistoryInit => Undoable!Init
<1> SUFFICES ASSUME HistoryInit PROVE Undoable!Init
  OBVIOUS
<1>1. HistoryTypeOK
  BY HistoryAssumption DEF HistoryInit, HistoryTypeOK
<1>2. Len(history) = 0 /\ current_index = -1
  BY DEF HistoryInit
<1>3. Past = << >> /\ Future = << >>
  BY <1>1, <1>2, PastAndFuture, EmptySeq DEF Halves
<1> QED
  BY <1>3 DEF Undoable!Init, Past, Future

\* Every step of the trajectory is one of the undo history, or changes nothing.
LEMMA StepRefines ==
  HistoryTypeOK /\ [HistoryNext]_historyVars => [Undoable!Next]_<<Past, Future>>
<1> SUFFICES ASSUME HistoryTypeOK, [HistoryNext]_historyVars
             PROVE  Undoable!Next \/ UNCHANGED <<Past, Future>>
  OBVIOUS
<1>1. CASE \E data \in Data : Initialize(data)
  BY <1>1, PushDoes DEF Initialize, Undoable!Next
<1>2. CASE \E delta \in Deltas : Update(delta)
  <2>1. PICK delta \in Deltas : Update(delta)
    BY <1>2
  <2> QED
    BY <2>1, PushedIsState, PushDoes DEF Update, Undoable!Next
<1>3. CASE \E k \in 1 .. MaxHistory : Rewind(k)
  BY <1>3, RewindUndoes DEF Undoable!Next
<1>4. CASE \E k \in 1 .. MaxHistory : Forward(k)
  BY <1>4, ForwardRedoes DEF Undoable!Next
<1>5. CASE UNCHANGED historyVars
  BY <1>5 DEF historyVars, Past, Future
<1> QED
  BY <1>1, <1>2, <1>3, <1>4, <1>5 DEF HistoryNext

\* However updates, rewinds and trims follow each other, the trajectory behaves as
\* a bounded undo history: its index never drifts from the state it stands for.
THEOREM Refinement == HistorySpec => ImplementsUndo
<1>1. HistoryTypeOK /\ [HistoryNext]_historyVars => [Undoable!Next]_<<Past, Future>>
  BY StepRefines
<1>2. HistorySpec => []HistoryTypeOK
  BY TypeCorrect
<1>3. HistorySpec => Undoable!Init /\ [][Undoable!Next]_<<Past, Future>>
  BY <1>1, <1>2, InitRefines, PTL DEF HistorySpec
<1> QED
  BY <1>3 DEF ImplementsUndo, Undoable!Spec, Past, Future

--------------------------------------------------------------------------------
(* Induction, on sets of numbers.                                               *)

LEMMA LeastNatural ==
  ASSUME NEW T \in SUBSET Nat, T # {}
  PROVE  \E n \in T : \A m \in T : n <= m
<1>1. PICK n \in T : \A m \in T : ~(<<m, n>> \in OpToRel(<, Nat))
  BY NatLessThanWellFounded, WFMin
<1>2. \A m \in T : ~(m < n)
  BY <1>1 DEF OpToRel
<1> QED
  BY <1>2

LEMMA SetInduction ==
  ASSUME NEW T \in SUBSET Nat, 0 \in T, \A n \in T : n + 1 \in T
  PROVE  \A n \in Nat : n \in T
<1> SUFFICES ASSUME Nat \ T # {} PROVE FALSE
  OBVIOUS
<1>1. PICK n \in Nat \ T : \A m \in Nat \ T : n <= m
  BY LeastNatural
<1>2. n - 1 \in Nat /\ n - 1 \in T
  BY <1>1
<1> QED
  BY <1>1, <1>2

--------------------------------------------------------------------------------
(* The reasoning trajectory.  A step's depth is the length of the path when it   *)
(* began, which its name holds: parents are less deep than their children, in    *)
(* what is left of earlier paths too, so the walks up and down the tree end.     *)

StepsSpec == StepsInit /\ [][StepsNext]_stepVars

Names == Types \X (0 .. MaxPath - 1)
Steps ==
  [status : {"executing", "completed", "backtracked"}, parent : Names \union {<< >>}, children : SUBSET Names]

StepsTypes ==
  /\ DOMAIN steps \subseteq Names /\ steps = [x \in DOMAIN steps |-> steps[x]]
  /\ \A x \in DOMAIN steps : steps[x] \in Steps
  /\ step_sequence \in Seq(Names) /\ Len(step_sequence) <= MaxPath

\* The tree goes down.
Downward ==
  \A x \in DOMAIN steps :
    /\ steps[x].parent # << >> => steps[x].parent \in DOMAIN steps /\ steps[x].parent[2] < x[2]
    /\ \A c \in steps[x].children : c \in DOMAIN steps /\ x[2] < c[2]

\* A step of the path has its place for its depth, and its parent before it.
OnItsPlace(i) ==
  LET id == step_sequence[i]
  IN /\ id \in DOMAIN steps /\ id[2] = i - 1 /\ steps[id].status # "backtracked"
     /\ \/ steps[id].parent = << >>
        \/ \E j \in 1 .. i - 1 :
             steps[id].parent = step_sequence[j] /\ id \in steps[step_sequence[j]].children

StepsInv ==
  /\ StepsTypes /\ Downward
  /\ \A i \in 1 .. Len(step_sequence) : OnItsPlace(i)
  /\ current_step_id = IF step_sequence = << >> THEN << >> ELSE Last(step_sequence)

LEMMA StepsInvInit == StepsInit => StepsInv
<1> SUFFICES ASSUME StepsInit PROVE StepsInv
  OBVIOUS
<1>1. steps = << >> /\ step_sequence = << >> /\ current_step_id = << >>
  BY DEF StepsInit
<1>2. Len(step_sequence) = 0 /\ step_sequence \in Seq(Names) /\ \A i \in 1 .. 0 : FALSE
  BY <1>1
<1>3. DOMAIN steps = {} /\ steps = [x \in DOMAIN steps |-> steps[x]]
  BY <1>1
<1> QED
  BY <1>1, <1>2, <1>3, StepsAssumption DEF StepsInv, StepsTypes, Downward

\* The walk up the tree: the steps of less depth than n come before those of depth n.
PathNext(f, id) == IF steps[id].parent = << >> THEN <<id>> ELSE Append(f[steps[id].parent], id)
Shallow(n) == {x \in DOMAIN steps : x[2] < n}

LEMMA DepthFacts ==
  ASSUME StepsInv
  PROVE  MaxPath \in Nat /\ \A x \in DOMAIN steps : x[2] \in 0 .. MaxPath - 1 /\ x[2] \in Nat
  BY StepsAssumption DEF StepsInv, StepsTypes, Names

LEMMA PathExists ==
  ASSUME StepsInv, NEW m \in Nat
  PROVE  \E f : f = [x \in Shallow(m) |-> PathNext(f, x)]
<1> DEFINE T == {n \in Nat : \E f : f = [x \in Shallow(n) |-> PathNext(f, x)]}
<1>1. 0 \in T
  <2> DEFINE f == [x \in {} |-> 0]
  <2>1. Shallow(0) = {}
    BY DepthFacts DEF Shallow
  <2>2. f = [x \in Shallow(0) |-> PathNext(f, x)]
    BY <2>1
  <2> QED
    BY <2>2
<1>2. ASSUME NEW n \in T PROVE n + 1 \in T
  <2>1. PICK f : f = [x \in Shallow(n) |-> PathNext(f, x)]
    OBVIOUS
  <2> DEFINE h == [x \in Shallow(n + 1) |-> PathNext(f, x)]
  <2>2. \A x \in Shallow(n) : x \in Shallow(n + 1) /\ h[x] = f[x]
    <3>1. \A x \in Shallow(n) : x \in Shallow(n + 1)
      BY DepthFacts DEF Shallow
    <3>2. \A x \in Shallow(n) : f[x] = PathNext(f, x)
      BY <2>1
    <3> QED
      BY <3>1, <3>2
  <2>3. ASSUME NEW x \in Shallow(n + 1) PROVE PathNext(h, x) = PathNext(f, x)
    <3>1. CASE steps[x].parent = << >>
      BY <3>1 DEF PathNext
    <3>2. CASE steps[x].parent # << >>
      <4>1. steps[x].parent \in DOMAIN steps /\ steps[x].parent[2] < x[2] /\ x \in DOMAIN steps /\ x[2] < n + 1
        BY <3>2 DEF StepsInv, Downward, Shallow
      <4>2. steps[x].parent[2] \in Nat /\ x[2] \in Nat /\ n \in Nat
        BY <4>1, DepthFacts
      <4>3. steps[x].parent \in Shallow(n)
        BY <4>1, <4>2 DEF Shallow
      <4> QED
        BY <2>2, <3>2, <4>3 DEF PathNext
    <3> QED
      BY <3>1, <3>2
  <2>4. h = [x \in Shallow(n + 1) |-> PathNext(h, x)]
    <3>1. h = [x \in Shallow(n + 1) |-> PathNext(f, x)]
      OBVIOUS
    <3> HIDE DEF h
    <3> QED
      BY <2>3, <3>1
  <2> HIDE DEF h
  <2>5. \E g : g = [x \in Shallow(n + 1) |-> PathNext(g, x)]
    BY <2>4
  <2>6. n + 1 \in Nat
    OBVIOUS
  <2> QED
    BY <2>5, <2>6
<1>3. T \in SUBSET Nat
  OBVIOUS
<1> HIDE DEF T
<1>4. m \in T
  BY <1>1, <1>2, <1>3, SetInduction
<1> QED
  BY <1>4 DEF T

LEMMA PathIs ==
  ASSUME StepsInv, NEW id \in DOMAIN steps
  PROVE  PathTo[id] = IF steps[id].parent = << >> THEN <<id>> ELSE Append(PathTo[steps[id].parent], id)
<1>1. Shallow(MaxPath) = DOMAIN steps /\ MaxPath \in Nat
  BY DepthFacts DEF Shallow
<1>2. \E f : f = [x \in DOMAIN steps |-> PathNext(f, x)]
  BY <1>1, PathExists
<1>3. PathTo = CHOOSE f : f = [x \in DOMAIN steps |-> PathNext(f, x)]
  BY DEF PathTo, PathNext
<1>4. PathTo = [x \in DOMAIN steps |-> PathNext(PathTo, x)]
  BY <1>2, <1>3
<1> QED
  BY <1>4 DEF PathNext

\* The walk down.
SubtreeNext(f, id) == {id} \union UNION {f[c] : c \in steps[id].children}
Deep(n) == {x \in DOMAIN steps : x[2] >= MaxPath - n}

LEMMA ChildIsDeeper ==
  ASSUME StepsInv, NEW n \in Nat, NEW x \in Deep(n + 1), NEW c \in steps[x].children
  PROVE  c \in Deep(n)
<1>1. x \in DOMAIN steps /\ c \in DOMAIN steps /\ x[2] < c[2] /\ x[2] >= MaxPath - (n + 1)
  BY DEF StepsInv, Downward, Deep
<1>2. x[2] \in Nat /\ c[2] \in Nat /\ MaxPath \in Nat
  BY <1>1, DepthFacts
<1> QED
  BY <1>1, <1>2 DEF Deep

LEMMA SubtreeExists ==
  ASSUME StepsInv, NEW m \in Nat
  PROVE  \E f : f = [x \in Deep(m) |-> SubtreeNext(f, x)]
<1> DEFINE T == {n \in Nat : \E f : f = [x \in Deep(n) |-> SubtreeNext(f, x)]}
<1>1. 0 \in T
  <2> DEFINE f == [x \in {} |-> 0]
  <2>1. Deep(0) = {}
    <3>1. \A x \in DOMAIN steps : ~(x[2] >= MaxPath - 0)
      BY DepthFacts
    <3> QED
      BY <3>1 DEF Deep
  <2>2. f = [x \in Deep(0) |-> SubtreeNext(f, x)]
    BY <2>1
  <2> QED
    BY <2>2
<1>2. ASSUME NEW n \in T PROVE n + 1 \in T
  <2>1. PICK f : f = [x \in Deep(n) |-> SubtreeNext(f, x)]
    OBVIOUS
  <2> DEFINE h == [x \in Deep(n + 1) |-> SubtreeNext(f, x)]
  <2>2. \A x \in Deep(n) : x \in Deep(n + 1) /\ h[x] = f[x]
    <3>1. \A x \in Deep(n) : x \in Deep(n + 1)
      BY DepthFacts DEF Deep
    <3>2. \A x \in Deep(n) : f[x] = SubtreeNext(f, x)
      BY <2>1
    <3> QED
      BY <3>1, <3>2
  <2>3. ASSUME NEW x \in Deep(n + 1) PROVE SubtreeNext(h, x) = SubtreeNext(f, x)
    <3>1. \A c \in steps[x].children : h[c] = f[c]
      BY <2>2, ChildIsDeeper
    <3> HIDE DEF h
    <3> QED
      BY <3>1 DEF SubtreeNext
  <2>4. h = [x \in Deep(n + 1) |-> SubtreeNext(h, x)]
    <3>1. h = [x \in Deep(n + 1) |-> SubtreeNext(f, x)]
      OBVIOUS
    <3> HIDE DEF h
    <3> QED
      BY <2>3, <3>1
  <2> HIDE DEF h
  <2>5. \E g : g = [x \in Deep(n + 1) |-> SubtreeNext(g, x)]
    BY <2>4
  <2>6. n + 1 \in Nat
    OBVIOUS
  <2> QED
    BY <2>5, <2>6
<1>3. T \in SUBSET Nat
  OBVIOUS
<1> HIDE DEF T
<1>4. m \in T
  BY <1>1, <1>2, <1>3, SetInduction
<1> QED
  BY <1>4 DEF T

LEMMA AllAreDeep == StepsInv => Deep(MaxPath) = DOMAIN steps /\ MaxPath \in Nat
<1> SUFFICES ASSUME StepsInv PROVE Deep(MaxPath) = DOMAIN steps /\ MaxPath \in Nat
  OBVIOUS
<1>1. MaxPath \in Nat /\ \A x \in DOMAIN steps : x[2] >= MaxPath - MaxPath
  BY DepthFacts
<1> QED
  BY <1>1 DEF Deep

LEMMA SubtreeIs ==
  ASSUME StepsInv, NEW id \in DOMAIN steps
  PROVE  Subtree[id] = {id} \union UNION {Subtree[c] : c \in steps[id].children}
<1>2. \E f : f = [x \in DOMAIN steps |-> SubtreeNext(f, x)]
  BY AllAreDeep, SubtreeExists
<1>3. Subtree = CHOOSE f : f = [x \in DOMAIN steps |-> SubtreeNext(f, x)]
  BY DEF Subtree, SubtreeNext
<1>4. Subtree = [x \in DOMAIN steps |-> SubtreeNext(Subtree, x)]
  BY <1>2, <1>3
<1> QED
  BY <1>4 DEF SubtreeNext

\* What is found under a step, its children are found under it too.
LEMMA SubtreeGrows ==
  ASSUME StepsInv, NEW x \in DOMAIN steps, NEW y \in Subtree[x]
  PROVE  y \in DOMAIN steps /\ steps[y].children \subseteq Subtree[x]
<1> DEFINE Good(z) == \A w \in Subtree[z] : w \in DOMAIN steps /\ steps[w].children \subseteq Subtree[z]
           T == {n \in Nat : \A z \in Deep(n) : Good(z)}
<1>1. 0 \in T
  <2>1. Deep(0) = {}
    <3>1. \A z \in DOMAIN steps : ~(z[2] >= MaxPath - 0)
      BY DepthFacts
    <3> QED
      BY <3>1 DEF Deep
  <2> QED
    BY <2>1
<1>2. ASSUME NEW n \in T PROVE n + 1 \in T
  <2>1. ASSUME NEW z \in Deep(n + 1) PROVE Good(z)
    <3>1. z \in DOMAIN steps /\ \A c \in steps[z].children : c \in Deep(n) /\ c \in DOMAIN steps
      BY ChildIsDeeper DEF Deep
    <3>2. \A c \in steps[z].children : Good(c)
      BY <3>1
    <3>3. Subtree[z] = {z} \union UNION {Subtree[c] : c \in steps[z].children}
      BY <3>1, SubtreeIs
    <3>4. \A c \in steps[z].children : c \in Subtree[c]
      BY <3>1, SubtreeIs
    <3>5. ASSUME NEW w \in Subtree[z] PROVE w \in DOMAIN steps /\ steps[w].children \subseteq Subtree[z]
      <4>1. CASE w = z
        BY <3>1, <3>3, <3>4, <4>1
      <4>2. CASE w # z
        <5>1. PICK c \in steps[z].children : w \in Subtree[c]
          BY <3>3, <4>2
        <5> QED
          BY <3>2, <3>3, <5>1
      <4> QED
        BY <4>1, <4>2
    <3> QED
      BY <3>5
  <2> HIDE DEF Good
  <2> QED
    BY <2>1
<1>3. T \in SUBSET Nat
  OBVIOUS
<1>4. x \in Deep(MaxPath) /\ MaxPath \in Nat
  BY AllAreDeep
<1> HIDE DEF T
<1>5. MaxPath \in T
  BY <1>1, <1>2, <1>3, <1>4, SetInduction
<1>6. Good(x)
  BY <1>4, <1>5 DEF T
<1> QED
  BY <1>6

LEMMA PlacesDiffer ==
  ASSUME StepsInv, NEW i \in 1 .. Len(step_sequence), NEW j \in 1 .. Len(step_sequence),
         step_sequence[i] = step_sequence[j]
  PROVE  i = j
<1>1. step_sequence[i][2] = i - 1 /\ step_sequence[j][2] = j - 1
  BY DEF StepsInv, OnItsPlace
<1> QED
  BY <1>1

\* The walk up from a step of the path.
PathGood(i) ==
  LET path == PathTo[step_sequence[i]]
  IN /\ path \in Seq(Names)
     /\ \A k \in 1 .. Len(path) :
          \E a \in 1 .. i : path[k] = step_sequence[a] /\ step_sequence[i] \in Subtree[step_sequence[a]]
     /\ \A k, l \in 1 .. Len(path), a, b \in 1 .. i :
          k < l /\ path[k] = step_sequence[a] /\ path[l] = step_sequence[b] => a < b

LEMMA PathStep ==
  ASSUME StepsInv, NEW i \in 1 .. Len(step_sequence),
         \A j \in 1 .. i - 1 : PathGood(j)
  PROVE  PathGood(i)
<1> DEFINE id == step_sequence[i]
           path == PathTo[id]
<1>1. /\ Len(step_sequence) \in Nat /\ id \in Names /\ id \in DOMAIN steps
      /\ \A a \in 1 .. i : a \in 1 .. Len(step_sequence)
      /\ step_sequence \in Seq(Names) /\ i \in 1 .. i
  BY DEF StepsInv, StepsTypes, OnItsPlace
<1>2. id \in Subtree[id]
  BY <1>1, SubtreeIs
<1>3. CASE steps[id].parent = << >>
  <2>1. path = <<id>>
    BY <1>1, <1>3, PathIs
  <2>2. path \in Seq(Names) /\ Len(path) = 1 /\ path[1] = id
    BY <1>1, <2>1
  <2> HIDE DEF path
  <2>3. \A k \in 1 .. Len(path) : k = 1
    BY <2>2
  <2>4. ~(1 < 1)
    OBVIOUS
  <2> QED
    BY <1>1, <1>2, <2>2, <2>3, <2>4 DEF PathGood, path
<1>4. CASE steps[id].parent # << >>
  <2>1. PICK j \in 1 .. i - 1 : steps[id].parent = step_sequence[j] /\ id \in steps[step_sequence[j]].children
    BY <1>4 DEF StepsInv, OnItsPlace
  <2> DEFINE q == PathTo[step_sequence[j]]
  <2>2. path = Append(q, id) /\ PathGood(j) /\ q \in Seq(Names)
    BY <1>1, <1>4, <2>1, PathIs DEF PathGood
  <2>3. /\ path \in Seq(Names) /\ Len(q) \in Nat /\ Len(path) = Len(q) + 1 /\ path[Len(q) + 1] = id
        /\ \A k \in 1 .. Len(q) : path[k] = q[k]
    BY <1>1, <2>2, AppendProperties
  <2> HIDE DEF q
  <2>4. /\ \A a \in 1 .. j : a \in 1 .. i /\ a < i /\ a \in 1 .. Len(step_sequence)
        /\ \A k \in 1 .. Len(q) + 1 : k = Len(q) + 1 \/ k \in 1 .. Len(q)
        /\ \A k \in 1 .. Len(q) : ~(Len(q) + 1 < k)
    BY <1>1, <2>3
  <2>5. \A k \in 1 .. Len(q) :
          \E a \in 1 .. j : q[k] = step_sequence[a] /\ step_sequence[j] \in Subtree[step_sequence[a]]
    BY <2>2 DEF PathGood, q
  <2>6. ASSUME NEW k \in 1 .. Len(path)
        PROVE  \E a \in 1 .. i : path[k] = step_sequence[a] /\ id \in Subtree[step_sequence[a]]
    <3>1. CASE k = Len(q) + 1
      BY <1>1, <1>2, <2>3, <3>1
    <3>2. CASE k \in 1 .. Len(q)
      <4>1. PICK a \in 1 .. j : q[k] = step_sequence[a] /\ step_sequence[j] \in Subtree[step_sequence[a]]
        BY <2>5, <3>2
      <4>2. a \in 1 .. i /\ step_sequence[a] \in DOMAIN steps
        BY <2>4, <4>1 DEF StepsInv, OnItsPlace
      <4>3. id \in Subtree[step_sequence[a]]
        BY <2>1, <4>1, <4>2, SubtreeGrows
      <4> QED
        BY <2>3, <3>2, <4>1, <4>2, <4>3
    <3> QED
      BY <2>3, <2>4, <3>1, <3>2
  <2>7. ASSUME NEW k \in 1 .. Len(path), NEW l \in 1 .. Len(path), NEW a \in 1 .. i, NEW b \in 1 .. i,
               k < l, path[k] = step_sequence[a], path[l] = step_sequence[b]
        PROVE  a < b
    <3>1. k \in 1 .. Len(q)
      BY <2>3, <2>7
    <3>2. PICK c \in 1 .. j : q[k] = step_sequence[c]
      BY <2>5, <3>1
    <3>3. a = c
      BY <1>1, <2>3, <2>4, <2>7, <3>1, <3>2, PlacesDiffer
    <3>4. CASE l = Len(q) + 1
      <4>1. b = i
        BY <1>1, <2>3, <2>7, <3>4, PlacesDiffer
      <4> QED
        BY <2>4, <3>2, <3>3, <4>1
    <3>5. CASE l \in 1 .. Len(q)
      <4>1. PICK d \in 1 .. j : q[l] = step_sequence[d]
        BY <2>5, <3>5
      <4>2. b = d
        BY <1>1, <2>3, <2>4, <2>7, <3>5, <4>1, PlacesDiffer
      <4> QED
        BY <2>2, <2>7, <3>1, <3>2, <3>3, <3>5, <4>1, <4>2 DEF PathGood, q
    <3> QED
      BY <2>3, <2>4, <3>4, <3>5
  <2> HIDE DEF path
  <2> QED
    BY <2>3, <2>6, <2>7 DEF PathGood, path
<1> QED
  BY <1>3, <1>4

LEMMA PathsAreGood == StepsInv => \A i \in 1 .. Len(step_sequence) : PathGood(i)
<1> SUFFICES ASSUME StepsInv PROVE \A i \in 1 .. Len(step_sequence) : PathGood(i)
  OBVIOUS
<1> DEFINE m == Len(step_sequence)
           T == {n \in Nat : \A i \in 1 .. m : i <= n => PathGood(i)}
<1>1. m \in Nat
  BY DEF StepsInv, StepsTypes
<1>2. 0 \in T
  BY <1>1
<1>3. ASSUME NEW n \in T PROVE n + 1 \in T
  <2>1. ASSUME NEW i \in 1 .. m, i <= n + 1 PROVE PathGood(i)
    <3>1. \A j \in 1 .. i - 1 : j \in 1 .. m /\ j <= n
      BY <1>1, <2>1
    <3>2. \A j \in 1 .. i - 1 : PathGood(j)
      BY <3>1
    <3> QED
      BY <3>2, PathStep
  <2> QED
    BY <2>1
<1>4. T \in SUBSET Nat
  OBVIOUS
<1> HIDE DEF T
<1>5. m \in T
  BY <1>1, <1>2, <1>3, <1>4, SetInduction
<1> HIDE DEF m
<1>6. \A i \in 1 .. m : i <= m
  BY <1>1
<1>7. \A i \in 1 .. m : PathGood(i)
  BY <1>5, <1>6 DEF T
<1> QED
  BY <1>7 DEF m

LEMMA StepsInvShows == StepsInv => ExplanationsHold
<1> SUFFICES ASSUME StepsInv PROVE ExplanationsHold
  OBVIOUS
<1>1. DOMAIN step_sequence = 1 .. Len(step_sequence) /\ Len(step_sequence) \in Nat
  BY DEF StepsInv, StepsTypes
<1>2. \A i, j \in 1 .. Len(step_sequence) : step_sequence[i] = step_sequence[j] => i = j
  BY PlacesDiffer
<1>3. ASSUME NEW i \in 1 .. Len(step_sequence)
      PROVE  LET id == step_sequence[i]
                 path == PathTo[id]
             IN /\ \A k \in DOMAIN path : \E a \in 1 .. i : path[k] = step_sequence[a]
                /\ \A k, l \in DOMAIN path, a, b \in 1 .. i :
                     k < l /\ path[k] = step_sequence[a] /\ path[l] = step_sequence[b] => a < b
                /\ \A x \in Range(path) : id \in Subtree[x]
                /\ \A e \in Range(Explain(id)) : e.status # "backtracked"
  <2> DEFINE path == PathTo[step_sequence[i]]
  <2>1. /\ path \in Seq(Names)
        /\ \A k \in 1 .. Len(path) :
             \E a \in 1 .. i : path[k] = step_sequence[a] /\ step_sequence[i] \in Subtree[step_sequence[a]]
        /\ \A k, l \in 1 .. Len(path), a, b \in 1 .. i :
             k < l /\ path[k] = step_sequence[a] /\ path[l] = step_sequence[b] => a < b
    BY PathsAreGood DEF PathGood
  <2>2. DOMAIN path = 1 .. Len(path)
    BY <2>1
  <2>3. \A k \in 1 .. Len(path) : steps[path[k]].status # "backtracked"
    <3>1. \A a \in 1 .. i : a \in 1 .. Len(step_sequence)
      BY <1>1
    <3> QED
      BY <2>1, <3>1 DEF StepsInv, OnItsPlace
  <2>4. \A x \in Range(path) : step_sequence[i] \in Subtree[x]
    BY <2>1, <2>2 DEF Range
  <2>5. Explain(step_sequence[i]) =
          [k \in 1 .. Len(path) |-> [id |-> path[k], status |-> steps[path[k]].status]]
    BY <2>2 DEF Explain
  <2>6. \A e \in Range(Explain(step_sequence[i])) : e.status # "backtracked"
    BY <2>3, <2>5 DEF Range
  <2> QED
    BY <2>1, <2>2, <2>4, <2>6
<1>4. current_step_id = IF step_sequence = << >> THEN << >> ELSE Last(step_sequence)
  BY DEF StepsInv
<1> QED
  BY <1>1, <1>2, <1>3, <1>4 DEF ExplanationsHold

\* A step begins at the end of the path, under a step of it or under none.
LEMMA BeginKeepsSteps ==
  ASSUME StepsInv, NEW type \in Types, NEW parent, parent = << >> \/ parent \in OnPath,
         BeginStep(NextId(type), parent)
  PROVE  StepsInv'
<1> DEFINE l == Len(step_sequence)
           id == <<type, l>>
<1>1. /\ l \in Nat /\ l < MaxPath /\ MaxPath \in Nat /\ step_sequence \in Seq(Names)
      /\ DOMAIN step_sequence = 1 .. l
  BY StepsAssumption DEF StepsInv, StepsTypes, BeginStep
<1>2. id \in Names /\ id[2] = l /\ id # << >> /\ id = NextId(type) /\ l = Len(step_sequence)
  BY <1>1 DEF Names, NextId
<1>3. /\ step_sequence' = Append(step_sequence, id) /\ current_step_id' = id
      /\ steps' = AddStep(id, parent)
  BY <1>2 DEF BeginStep
<1> HIDE DEF l, id
<1>4. /\ step_sequence' \in Seq(Names) /\ Len(step_sequence') = l + 1 /\ step_sequence'[l + 1] = id
      /\ \A i \in 1 .. l : step_sequence'[i] = step_sequence[i]
  BY <1>1, <1>2, <1>3, AppendProperties
<1>5. \A i \in 1 .. l : OnItsPlace(i)
  BY <1>2 DEF StepsInv
<1>6. parent = << >> \/ \E j \in 1 .. l : parent = step_sequence[j]
  BY <1>1 DEF OnPath, Range
<1>7. parent # << >> => parent \in DOMAIN steps /\ parent[2] < l /\ parent # id /\ parent \in Names
  <2>1. ASSUME NEW j \in 1 .. l, parent = step_sequence[j]
        PROVE  parent \in DOMAIN steps /\ parent[2] < l /\ parent # id /\ parent \in Names
    <3>1. parent \in DOMAIN steps /\ parent[2] = j - 1
      BY <1>5, <2>1 DEF OnItsPlace
    <3>2. parent[2] < l
      BY <1>1, <3>1
    <3>3. parent # id
      BY <1>1, <1>2, <3>2
    <3>4. parent \in Names
      BY <3>1 DEF StepsInv, StepsTypes
    <3> QED
      BY <3>1, <3>2, <3>3, <3>4
  <2> QED
    BY <1>6, <2>1
<1>8. DOMAIN steps \subseteq Names /\ \A x \in DOMAIN steps : steps[x] \in Steps
  BY DEF StepsInv, StepsTypes
<1>9. /\ DOMAIN steps' = DOMAIN steps \union {id} /\ steps' = [x \in DOMAIN steps' |-> steps'[x]]
      /\ steps'[id] = [status |-> "executing", parent |-> parent, children |-> {}]
      /\ \A x \in DOMAIN steps : x # id =>
           steps'[x] = IF x = parent THEN [steps[x] EXCEPT !.children = @ \union {id}] ELSE steps[x]
  BY <1>3 DEF AddStep
<1>10. steps'[id] \in Steps /\ steps'[id].parent = parent /\ steps'[id].children = {} /\ steps'[id].status # "backtracked"
  BY <1>7, <1>9 DEF Steps
<1>11. ASSUME NEW x \in DOMAIN steps, x # id
       PROVE  /\ steps'[x] \in Steps /\ steps'[x].parent = steps[x].parent /\ steps'[x].status = steps[x].status
              /\ steps'[x].children = IF x = parent THEN steps[x].children \union {id} ELSE steps[x].children
  <2>1. CASE x = parent
    <3>1. steps'[x] = [steps[x] EXCEPT !.children = @ \union {id}] /\ steps[x] \in Steps
      BY <1>8, <1>9, <1>11, <2>1
    <3> QED
      BY <1>2, <2>1, <3>1 DEF Steps
  <2>2. CASE x # parent
    BY <1>8, <1>9, <1>11, <2>2
  <2> QED
    BY <2>1, <2>2
<1>12. StepsTypes'
  <2>1. Len(step_sequence') <= MaxPath
    BY <1>1, <1>4
  <2>2. DOMAIN steps' \subseteq Names
    BY <1>2, <1>8, <1>9
  <2>3. \A x \in DOMAIN steps' : steps'[x] \in Steps
    BY <1>9, <1>10, <1>11
  <2> QED
    BY <1>4, <1>9, <2>1, <2>2, <2>3 DEF StepsTypes
<1>13. Downward'
  <2>1. ASSUME NEW x \in DOMAIN steps'
        PROVE  /\ steps'[x].parent # << >> => steps'[x].parent \in DOMAIN steps' /\ steps'[x].parent[2] < x[2]
               /\ \A c \in steps'[x].children : c \in DOMAIN steps' /\ x[2] < c[2]
    <3>1. CASE x = id
      BY <1>2, <1>7, <1>9, <1>10, <3>1
    <3>2. CASE x # id
      <4>1. /\ x \in DOMAIN steps
            /\ steps[x].parent # << >> => steps[x].parent \in DOMAIN steps /\ steps[x].parent[2] < x[2]
            /\ \A c \in steps[x].children : c \in DOMAIN steps /\ x[2] < c[2]
        BY <1>9, <3>2 DEF StepsInv, Downward
      <4>2. x = parent => x # << >> /\ x[2] < id[2]
        <5>1. x \in Names
          BY <1>8, <4>1
        <5>2. x # << >>
          <6>1. PICK t \in Types, d \in 0 .. MaxPath - 1 : x = <<t, d>>
            BY <5>1 DEF Names
          <6> QED
            BY <6>1
        <5> QED
          BY <1>2, <1>7, <5>2
      <4>3. steps'[x].parent = steps[x].parent /\ DOMAIN steps \subseteq DOMAIN steps' /\ id \in DOMAIN steps'
        BY <1>9, <1>11, <3>2, <4>1
      <4>4. \A c \in steps'[x].children : c \in steps[x].children \/ (x = parent /\ c = id)
        BY <1>11, <3>2, <4>1
      <4> HIDE DEF id
      <4> QED
        BY <4>1, <4>2, <4>3, <4>4
    <3> QED
      BY <3>1, <3>2
  <2> QED
    BY <2>1 DEF Downward
<1>14. ASSUME NEW i \in 1 .. l + 1
       PROVE  LET x == step_sequence'[i]
              IN /\ x \in DOMAIN steps' /\ x[2] = i - 1 /\ steps'[x].status # "backtracked"
                 /\ \/ steps'[x].parent = << >>
                    \/ \E j \in 1 .. i - 1 :
                         steps'[x].parent = step_sequence'[j] /\ x \in steps'[step_sequence'[j]].children
  <2>1. CASE i = l + 1
    <3>1. step_sequence'[i] = id /\ id \in DOMAIN steps' /\ i - 1 = l
      BY <1>1, <1>4, <1>9, <2>1
    <3>2. CASE parent = << >>
      BY <1>2, <1>10, <3>1, <3>2
    <3>3. CASE parent # << >>
      <4>1. PICK j \in 1 .. l : parent = step_sequence[j]
        BY <1>6, <3>3
      <4>2. step_sequence'[j] = parent /\ id \in steps'[parent].children
        BY <1>4, <1>7, <1>11, <3>3, <4>1
      <4> QED
        BY <1>2, <1>10, <3>1, <4>1, <4>2
    <3> QED
      BY <3>2, <3>3
  <2>2. CASE i \in 1 .. l
    <3>1. /\ step_sequence'[i] = step_sequence[i] /\ step_sequence[i] \in DOMAIN steps
          /\ step_sequence[i][2] = i - 1 /\ steps[step_sequence[i]].status # "backtracked"
          /\ \/ steps[step_sequence[i]].parent = << >>
             \/ \E j \in 1 .. i - 1 :
                  /\ steps[step_sequence[i]].parent = step_sequence[j]
                  /\ step_sequence[i] \in steps[step_sequence[j]].children
      BY <1>4, <1>5, <2>2 DEF OnItsPlace
    <3>2. step_sequence[i] # id /\ \A j \in 1 .. i - 1 : j \in 1 .. l
      BY <1>1, <1>2, <2>2, <3>1
    <3>3. \A j \in 1 .. i - 1 : step_sequence[j] \in DOMAIN steps /\ step_sequence[j] # id
      <4>1. ASSUME NEW j \in 1 .. i - 1 PROVE step_sequence[j] \in DOMAIN steps /\ step_sequence[j][2] = j - 1 /\ j - 1 # l
        BY <1>1, <1>5, <2>2, <3>2 DEF OnItsPlace
      <4> QED
        BY <1>2, <4>1
    <3> DEFINE x == step_sequence[i]
    <3>4. /\ x \in DOMAIN steps' /\ steps'[x].status # "backtracked" /\ steps'[x].parent = steps[x].parent
      BY <1>9, <1>11, <3>1, <3>2
    <3>5. \A j \in 1 .. i - 1 :
            /\ step_sequence'[j] = step_sequence[j]
            /\ steps[step_sequence[j]].children \subseteq steps'[step_sequence'[j]].children
      BY <1>4, <1>11, <3>2, <3>3
    <3>6. /\ x[2] = i - 1
          /\ \/ steps[x].parent = << >>
             \/ \E j \in 1 .. i - 1 : steps[x].parent = step_sequence[j] /\ x \in steps[step_sequence[j]].children
      BY <3>1
    <3>7. step_sequence'[i] = x
      BY <3>1
    <3> HIDE DEF x
    <3> QED
      BY <3>4, <3>5, <3>6, <3>7
  <2> QED
    BY <1>1, <2>1, <2>2
<1>15. \A i \in 1 .. Len(step_sequence') : OnItsPlace(i)'
  BY <1>4, <1>14 DEF OnItsPlace
<1>16. current_step_id' = IF step_sequence' = << >> THEN << >> ELSE Last(step_sequence')
  <2>1. step_sequence' # << >>
    BY <1>1, <1>4
  <2> QED
    BY <1>3, <1>4, <2>1 DEF Last
<1> QED
  BY <1>12, <1>13, <1>15, <1>16 DEF StepsInv

\* Parents and children stay; whatever is on the path then was on it, and is not marked.
LEMMA MarkKeepsSteps ==
  ASSUME StepsInv, NEW m \in 0 .. Len(step_sequence),
         DOMAIN steps' = DOMAIN steps, steps' = [x \in DOMAIN steps |-> steps'[x]],
         \A x \in DOMAIN steps :
           /\ steps'[x] \in Steps
           /\ steps'[x].parent = steps[x].parent /\ steps'[x].children = steps[x].children,
         step_sequence' \in Seq(Names), Len(step_sequence') = m,
         \A i \in 1 .. m : step_sequence'[i] = step_sequence[i],
         \A i \in 1 .. m : steps'[step_sequence[i]].status # "backtracked",
         current_step_id' = IF step_sequence' = << >> THEN << >> ELSE Last(step_sequence')
  PROVE  StepsInv'
<1>1. Len(step_sequence) \in Nat /\ Len(step_sequence) <= MaxPath /\ MaxPath \in Nat
  BY StepsAssumption DEF StepsInv, StepsTypes
<1>2. m <= MaxPath /\ \A i \in 1 .. m : i \in 1 .. Len(step_sequence)
  BY <1>1
<1>3. StepsTypes'
  BY <1>2 DEF StepsInv, StepsTypes
<1>4. Downward'
  BY DEF StepsInv, Downward
<1>5. ASSUME NEW i \in 1 .. m PROVE OnItsPlace(i)'
  <2>1. OnItsPlace(i) /\ \A j \in 1 .. i - 1 : j \in 1 .. m /\ OnItsPlace(j)
    <3>1. \A j \in 1 .. i - 1 : j \in 1 .. m
      BY <1>1
    <3> QED
      BY <1>2, <3>1 DEF StepsInv
  <2> DEFINE x == step_sequence[i]
  <2>2. /\ x \in DOMAIN steps /\ x[2] = i - 1
        /\ \/ steps[x].parent = << >>
           \/ \E j \in 1 .. i - 1 : steps[x].parent = step_sequence[j] /\ x \in steps[step_sequence[j]].children
    BY <2>1 DEF OnItsPlace
  <2>3. \A j \in 1 .. i - 1 : step_sequence[j] \in DOMAIN steps /\ step_sequence'[j] = step_sequence[j]
    BY <2>1 DEF OnItsPlace
  <2>4. step_sequence'[i] = x /\ steps'[x].status # "backtracked"
    OBVIOUS
  <2> HIDE DEF x
  <2>5. /\ x \in DOMAIN steps' /\ x[2] = i - 1 /\ steps'[x].status # "backtracked"
        /\ \/ steps'[x].parent = << >>
           \/ \E j \in 1 .. i - 1 : steps'[x].parent = step_sequence'[j] /\ x \in steps'[step_sequence'[j]].children
    BY <2>2, <2>3, <2>4
  <2> QED
    BY <2>4, <2>5 DEF OnItsPlace
<1> QED
  BY <1>3, <1>4, <1>5 DEF StepsInv

LEMMA CompleteKeepsSteps == \A id \in DOMAIN steps : StepsInv /\ CompleteStep(id) => StepsInv'
<1> SUFFICES ASSUME NEW id \in DOMAIN steps, StepsInv, CompleteStep(id) PROVE StepsInv'
  OBVIOUS
<1>1. /\ steps' = [steps EXCEPT ![id].status = "completed"]
      /\ step_sequence' = step_sequence /\ current_step_id' = current_step_id
  BY DEF CompleteStep
<1>2. StepsTypes /\ \A x \in DOMAIN steps : steps[x] \in Steps
  BY DEF StepsInv, StepsTypes
<1>3. /\ DOMAIN steps' = DOMAIN steps /\ steps' = [x \in DOMAIN steps |-> steps'[x]]
      /\ \A x \in DOMAIN steps : steps'[x] = IF x = id THEN [steps[x] EXCEPT !.status = "completed"] ELSE steps[x]
  BY <1>1, <1>2 DEF StepsTypes
<1>4. \A x \in DOMAIN steps :
        /\ steps'[x] \in Steps
        /\ steps'[x].parent = steps[x].parent /\ steps'[x].children = steps[x].children
        /\ steps[x].status # "backtracked" => steps'[x].status # "backtracked"
  BY <1>2, <1>3 DEF Steps
<1>5. \A i \in 1 .. Len(step_sequence) : steps'[step_sequence[i]].status # "backtracked"
  BY <1>4 DEF StepsInv, OnItsPlace
<1>6. step_sequence \in Seq(Names) /\ Len(step_sequence) \in 0 .. Len(step_sequence)
  BY <1>2 DEF StepsTypes
<1>7. current_step_id = IF step_sequence = << >> THEN << >> ELSE Last(step_sequence)
  BY DEF StepsInv
<1> QED
  BY <1>1, <1>3, <1>4, <1>5, <1>6, <1>7, MarkKeepsSteps

LEMMA BacktrackKeepsSteps == \A n \in 1 .. MaxPath : StepsInv /\ Backtrack(n) => StepsInv'
<1> SUFFICES ASSUME NEW n \in 1 .. MaxPath, StepsInv, Backtrack(n) PROVE StepsInv'
  OBVIOUS
<1> DEFINE m == Len(step_sequence) - n
<1>1. /\ MaxPath \in Nat /\ n \in Nat /\ step_sequence \in Seq(Names) /\ Len(step_sequence) \in Nat
      /\ n <= Len(step_sequence) /\ step_sequence' = SubSeq(step_sequence, 1, m)
      /\ current_step_id' = IF step_sequence' = << >> THEN << >> ELSE Last(step_sequence')
      /\ steps' = [x \in DOMAIN steps |->
                     IF x \in OnPath \ Range(step_sequence')
                     THEN [steps[x] EXCEPT !.status = "backtracked"] ELSE steps[x]]
  BY StepsAssumption DEF StepsInv, StepsTypes, Backtrack
<1>2. m \in 0 .. Len(step_sequence) /\ m \in Nat
  BY <1>1
<1>3. /\ step_sequence' \in Seq(Names) /\ Len(step_sequence') = m /\ DOMAIN step_sequence' = 1 .. m
      /\ \A i \in 1 .. m : step_sequence'[i] = step_sequence[i]
  BY <1>1, <1>2
<1> HIDE DEF m
<1>4. /\ DOMAIN steps' = DOMAIN steps /\ steps' = [x \in DOMAIN steps |-> steps'[x]]
      /\ \A x \in DOMAIN steps :
           steps'[x] = IF x \in OnPath \ Range(step_sequence')
                       THEN [steps[x] EXCEPT !.status = "backtracked"] ELSE steps[x]
  BY <1>1
<1>5. \A x \in DOMAIN steps :
        /\ steps'[x] \in Steps
        /\ steps'[x].parent = steps[x].parent /\ steps'[x].children = steps[x].children
  <2>1. \A x \in DOMAIN steps : steps[x] \in Steps
    BY DEF StepsInv, StepsTypes
  <2> QED
    BY <1>4, <2>1 DEF Steps
<1>6. \A i \in 1 .. m : steps'[step_sequence[i]].status # "backtracked"
  <2>1. \A i \in 1 .. m : step_sequence[i] \in Range(step_sequence')
    BY <1>3 DEF Range
  <2>2. \A i \in 1 .. m : step_sequence[i] \in DOMAIN steps /\ steps[step_sequence[i]].status # "backtracked"
    <3>1. \A i \in 1 .. m : i \in 1 .. Len(step_sequence)
      BY <1>1, <1>2
    <3> QED
      BY <3>1 DEF StepsInv, OnItsPlace
  <2> QED
    BY <1>4, <2>1, <2>2
<1> QED
  BY <1>1, <1>2, <1>3, <1>4, <1>5, <1>6, MarkKeepsSteps

LEMMA StepsInvStep == StepsInv /\ [StepsNext]_stepVars => StepsInv'
<1> SUFFICES ASSUME StepsInv, [StepsNext]_stepVars PROVE StepsInv'
  OBVIOUS
<1>1. ASSUME NEW type \in Types, RecordStep(type) PROVE StepsInv'
  BY <1>1, BeginKeepsSteps DEF RecordStep
<1>2. ASSUME NEW type \in Types, NEW parent \in OnPath, BeginChild(type, parent) PROVE StepsInv'
  BY <1>2, BeginKeepsSteps DEF BeginChild
<1>3. CASE UNCHANGED stepVars
  <2>1. steps' = steps /\ step_sequence' = step_sequence /\ current_step_id' = current_step_id
    BY <1>3 DEF stepVars
  <2> QED
    BY <2>1 DEF StepsInv, StepsTypes, Downward, OnItsPlace
<1> QED
  BY <1>1, <1>2, <1>3, CompleteKeepsSteps, BacktrackKeepsSteps DEF StepsNext

\* ExplanationsHold: the steps of the path have different names, and each is explained by
\* steps of the path, in their order, none of them backtracked, and found under each of
\* them, however often names come back and completions come late, for any types of steps
\* and any length of the path.
THEOREM ExplanationsStayTrue == StepsSpec => []ExplanationsHold
<1>1. StepsInit => StepsInv
  BY StepsInvInit
<1>2. StepsInv /\ [StepsNext]_stepVars => StepsInv'
  BY StepsInvStep
<1>3. StepsInv => ExplanationsHold
  BY StepsInvShows
<1> QED
  BY <1>1, <1>2, <1>3, PTL DEF StepsSpec

--------------------------------------------------------------------------------
(* Queries on a knowledge base: terms and places.                               *)

Nodes(t) == \A n \in t : n = <<n[1], n[2]>> /\ n[1] \in Seq(Nat)

LEMMA NodesEqual ==
  ASSUME NEW s, NEW t, Nodes(s), Nodes(t),
         \A q \in Seq(Nat) : \A l : <<q, l>> \in s <=> <<q, l>> \in t
  PROVE  s = t
<1>1. \A n \in s : n \in t
  BY DEF Nodes
<1>2. \A n \in t : n \in s
  BY DEF Nodes
<1> QED
  BY <1>1, <1>2

LEMMA Assoc ==
  ASSUME NEW p \in Seq(Nat), NEW q \in Seq(Nat), NEW r \in Seq(Nat)
  PROVE  (p \o q) \o r = p \o (q \o r)
OBVIOUS

LEMMA Single ==
  ASSUME NEW i \in Nat
  PROVE  <<i>> \in Seq(Nat) /\ Len(<<i>>) = 1 /\ <<i>>[1] = i
OBVIOUS

LEMMA SingleAssoc ==
  ASSUME NEW i \in Nat, NEW p \in Seq(Nat), NEW q \in Seq(Nat)
  PROVE  (<<i>> \o p) \o q = <<i>> \o (p \o q)
<1> DEFINE a == <<i>>
<1>1. a \in Seq(Nat)
  BY Single
<1> HIDE DEF a
<1>2. (a \o p) \o q = a \o (p \o q)
  BY <1>1, Assoc
<1> QED
  BY <1>2 DEF a

\* A place under another one is reached from it in one way.
LEMMA Below ==
  ASSUME NEW p \in Seq(Nat), NEW q \in Seq(Nat)
  PROVE  /\ p \o q \in Seq(Nat) /\ Len(p \o q) = Len(p) + Len(q)
         /\ IsPrefix(p, p \o q)
         /\ SubSeq(p \o q, Len(p) + 1, Len(p \o q)) = q
<1> DEFINE r == p \o q
<1>1. /\ r \in Seq(Nat) /\ Len(r) = Len(p) + Len(q) /\ Len(p) \in Nat /\ Len(q) \in Nat
      /\ \A i \in 1 .. Len(r) : r[i] = IF i <= Len(p) THEN p[i] ELSE q[i - Len(p)]
  BY ConcatProperties, LenProperties
<1> DEFINE a == SubSeq(p, 1, Len(p))
           b == SubSeq(r, 1, Len(p))
           c == SubSeq(r, Len(p) + 1, Len(r))
<1>2. /\ a \in Seq(Nat) /\ Len(a) = Len(p) /\ \A i \in 1 .. Len(p) : a[i] = p[i]
      /\ b \in Seq(Nat) /\ Len(b) = Len(p) /\ \A i \in 1 .. Len(p) : b[i] = p[i]
  <2>1. \A i \in 1 .. Len(p) : p[i] \in Nat /\ r[i] \in Nat
    BY <1>1, ElementOfSeq
  <2>2. a \in Seq(Nat) /\ Len(a) = Len(p) /\ \A i \in 1 .. Len(p) : a[i] = p[i]
    BY <1>1, <2>1, SubSeqProperties
  <2>3. b \in Seq(Nat) /\ Len(b) = Len(p) /\ \A i \in 1 .. Len(p) : b[i] = r[i]
    BY <1>1, <2>1, SubSeqProperties
  <2> QED
    BY <1>1, <2>2, <2>3
<1>3. a = b
  BY <1>1, <1>2, SeqEqual
<1>4. c \in Seq(Nat) /\ Len(c) = Len(q) /\ \A i \in 1 .. Len(q) : c[i] = q[i]
  <2>1. \A i \in Len(p) + 1 .. Len(r) : r[i] \in Nat
    BY <1>1, ElementOfSeq
  <2>2. /\ c \in Seq(Nat)
        /\ Len(c) = IF Len(p) + 1 <= Len(r) THEN Len(r) - (Len(p) + 1) + 1 ELSE 0
        /\ \A i \in 1 .. Len(r) - (Len(p) + 1) + 1 : c[i] = r[Len(p) + 1 + i - 1]
    <3> HIDE DEF r
    <3> QED
      BY <1>1, <2>1, SubSeqProperties
  <2> QED
    BY <1>1, <2>2
<1>5. c = q
  <2> HIDE DEF c
  <2> QED
    BY <1>4, SeqEqual, Zenon
<1> QED
  BY <1>1, <1>3, <1>5 DEF IsPrefix

LEMMA Prefixed ==
  ASSUME NEW p \in Seq(Nat), NEW r \in Seq(Nat), IsPrefix(p, r)
  PROVE  SubSeq(r, Len(p) + 1, Len(r)) \in Seq(Nat) /\ r = p \o SubSeq(r, Len(p) + 1, Len(r))
<1>1. Len(p) \in Nat /\ Len(r) \in Nat /\ Len(p) <= Len(r)
  BY LenProperties DEF IsPrefix
<1>2. SubSeq(r, 1, Len(p)) = p
  BY SubSeqFull DEF IsPrefix
<1>3. SubSeq(r, 1, Len(p)) \o SubSeq(r, Len(p) + 1, Len(r)) = SubSeq(r, 1, Len(r))
  <2>1. 1 \in 1 .. Len(r) + 1 /\ Len(p) \in 1 - 1 .. Len(r) /\ Len(r) \in Len(p) .. Len(r)
    BY <1>1
  <2> QED
    BY <2>1, ConcatAdjacentSubSeq
<1>4. SubSeq(r, 1, Len(r)) = r
  BY SubSeqFull
<1>5. \A i \in Len(p) + 1 .. Len(r) : r[i] \in Nat
  BY <1>1, ElementOfSeq
<1>6. SubSeq(r, Len(p) + 1, Len(r)) \in Seq(Nat)
  BY <1>1, <1>5, SubSeqProperties
<1> QED
  BY <1>2, <1>3, <1>4, <1>6

LEMMA AtNodes ==
  ASSUME NEW t, Nodes(t), NEW p \in Seq(Nat)
  PROVE  /\ Nodes(At(t, p))
         /\ \A q \in Seq(Nat) : \A l : <<q, l>> \in At(t, p) <=> <<p \o q, l>> \in t
<1>1. ASSUME NEW n \in At(t, p)
      PROVE  n = <<n[1], n[2]>> /\ n[1] \in Seq(Nat) /\ <<p \o n[1], n[2]>> \in t
  <2>1. PICK m \in t : /\ IsPrefix(p, m[1])
                       /\ n = <<SubSeq(m[1], Len(p) + 1, Len(m[1])), m[2]>>
    BY DEF At
  <2>2. m = <<m[1], m[2]>> /\ m[1] \in Seq(Nat)
    BY DEF Nodes
  <2>3. n[1] = SubSeq(m[1], Len(p) + 1, Len(m[1])) /\ n[2] = m[2]
    BY <2>1
  <2>4. n[1] \in Seq(Nat) /\ m[1] = p \o n[1]
    BY <2>1, <2>2, <2>3, Prefixed
  <2> QED
    BY <2>1, <2>2, <2>3, <2>4
<1>2. ASSUME NEW q \in Seq(Nat), NEW l, <<p \o q, l>> \in t PROVE <<q, l>> \in At(t, p)
  <2> DEFINE m == <<p \o q, l>>
  <2>1. m \in t /\ m[1] = p \o q /\ m[2] = l
    BY <1>2
  <2>2. IsPrefix(p, m[1]) /\ SubSeq(m[1], Len(p) + 1, Len(m[1])) = q
    BY <2>1, Below
  <2> HIDE DEF m
  <2> QED
    BY <2>1, <2>2 DEF At
<1> QED
  BY <1>1, <1>2 DEF Nodes

LEMMA AtAt ==
  ASSUME NEW t, Nodes(t), NEW p \in Seq(Nat), NEW q \in Seq(Nat)
  PROVE  At(At(t, p), q) = At(t, p \o q)
<1>1. Nodes(At(t, p)) /\ p \o q \in Seq(Nat)
  BY AtNodes, Below
<1>2. Nodes(At(At(t, p), q)) /\ Nodes(At(t, p \o q))
  BY <1>1, AtNodes
<1>3. ASSUME NEW r \in Seq(Nat), NEW l
      PROVE  <<r, l>> \in At(At(t, p), q) <=> <<r, l>> \in At(t, p \o q)
  <2>1. <<r, l>> \in At(At(t, p), q) <=> <<q \o r, l>> \in At(t, p)
    BY <1>1, AtNodes
  <2>2. <<q \o r, l>> \in At(t, p) <=> <<p \o (q \o r), l>> \in t
    BY AtNodes, Below
  <2>3. <<r, l>> \in At(t, p \o q) <=> <<(p \o q) \o r, l>> \in t
    BY <1>1, AtNodes
  <2>4. (p \o q) \o r = p \o (q \o r)
    BY Assoc
  <2> QED
    BY <2>1, <2>2, <2>3, <2>4
<1> QED
  BY <1>2, <1>3, NodesEqual

LEMMA TermFacts ==
  ASSUME NEW t, IsTerm(t)
  PROVE  /\ Nodes(t)
         /\ <<<< >>, Root(t)>> \in t
         /\ \A l : <<<< >>, l>> \in t => l = Root(t)
         /\ \A q \in Seq(Nat) : \A k, l : <<q, k>> \in t /\ <<q, l>> \in t => k = l
         /\ Arity(Root(t)) \in Nat
<1>1. Nodes(t) /\ \A n, m \in t : n[1] = m[1] => n = m
  BY DEF IsTerm, Nodes
<1>2. PICK n \in t : n[1] = << >>
  BY DEF IsTerm
<1> DEFINE c == CHOOSE m \in t : m[1] = << >>
<1>3. c \in t /\ c[1] = << >>
  BY <1>2
<1>4. c = <<<< >>, Root(t)>>
  BY <1>1, <1>3 DEF Root, Nodes
<1>5. \A q, k, l : <<q, k>> \in t /\ <<q, l>> \in t => k = l
  <2> SUFFICES ASSUME NEW q, NEW k, NEW l, <<q, k>> \in t, <<q, l>> \in t PROVE k = l
    OBVIOUS
  <2>1. <<q, k>> = <<q, l>>
    BY <1>1
  <2> QED
    BY <2>1
<1>6. Arity(Root(t)) \in Nat
  BY <1>3 DEF IsTerm, Root
<1> HIDE DEF c
<1> QED
  BY <1>1, <1>3, <1>4, <1>5, <1>6

\* The places below the root lead through a child.
LEMMA Through ==
  ASSUME NEW p \in Seq(Nat), p # << >>
  PROVE  \E i \in Nat, q \in Seq(Nat) : p = <<i>> \o q /\ i = p[1]
<1>1. Len(p) \in Nat \ {0}
  BY EmptySeq
<1>2. 1 \in 1 .. Len(p) /\ Len(p) \in 1 .. Len(p) /\ \A i \in 1 .. Len(p) : p[i] \in Nat
  BY <1>1, ElementOfSeq
<1>3. SubSeq(p, 1, Len(p)) = <<p[1]>> \o SubSeq(p, 1 + 1, Len(p))
  BY <1>2, SubSeqRecursiveFirst
<1>4. SubSeq(p, 1 + 1, Len(p)) \in Seq(Nat)
  BY <1>1, <1>2, SubSeqProperties
<1> QED
  BY <1>2, <1>3, <1>4, SubSeqFull

\* The places above one that is below p.
LEMMA Above ==
  ASSUME NEW p \in Seq(Nat), NEW q \in Seq(Nat), NEW k \in 1 .. Len(q)
  PROVE  /\ SubSeq(q, 1, k - 1) \in Seq(Nat)
         /\ SubSeq(p \o q, 1, Len(p) + k - 1) = p \o SubSeq(q, 1, k - 1)
         /\ Len(p) + k \in 1 .. Len(p \o q) /\ (p \o q)[Len(p) + k] = q[k]
<1> DEFINE a == SubSeq(q, 1, k - 1)
           b == SubSeq(q, k, Len(q))
           x == p \o a
<1>1. /\ Len(p) \in Nat /\ Len(q) \in Nat /\ k \in Nat /\ k >= 1 /\ k <= Len(q)
      /\ \A i \in 1 .. Len(q) : q[i] \in Nat
  BY LenProperties, ElementOfSeq
<1>2. a \in Seq(Nat) /\ Len(a) = k - 1
  <2>1. \A i \in 1 .. k - 1 : q[i] \in Nat
    BY <1>1
  <2> QED
    BY <1>1, <2>1, SubSeqProperties
<1>3. b \in Seq(Nat)
  <2>1. \A i \in k .. Len(q) : q[i] \in Nat
    BY <1>1
  <2> QED
    BY <1>1, <2>1, SubSeqProperties
<1>4. a \o b = q
  <2>1. 1 \in 1 .. Len(q) + 1 /\ k - 1 \in 1 - 1 .. Len(q) /\ Len(q) \in k - 1 .. Len(q)
        /\ (k - 1) + 1 = k
    BY <1>1
  <2>2. SubSeq(q, 1, k - 1) \o SubSeq(q, (k - 1) + 1, Len(q)) = SubSeq(q, 1, Len(q))
    BY <2>1, ConcatAdjacentSubSeq
  <2> QED
    BY <2>1, <2>2, SubSeqFull
<1> HIDE DEF a, b
<1>5. x \in Seq(Nat) /\ Len(x) = Len(p) + k - 1
  BY <1>1, <1>2, Below, ZenonT(60)
<1>6. p \o q = x \o b
  <2>1. (p \o a) \o b = p \o (a \o b)
    BY <1>2, <1>3, Assoc
  <2> QED
    BY <1>4, <2>1
<1> HIDE DEF x
<1>7. SubSeq(x \o b, 1, Len(x)) = x
  <2>1. IsPrefix(x, x \o b)
    BY <1>3, <1>5, Below
  <2>2. SubSeq(x, 1, Len(x)) = x
    BY <1>5, SubSeqFull
  <2> QED
    BY <2>1, <2>2 DEF IsPrefix
<1>8. Len(p) + k \in 1 .. Len(p \o q) /\ (p \o q)[Len(p) + k] = q[k]
  <2>1. /\ Len(p \o q) = Len(p) + Len(q)
        /\ \A i \in 1 .. Len(p) + Len(q) : (p \o q)[i] = IF i <= Len(p) THEN p[i] ELSE q[i - Len(p)]
    BY ConcatProperties
  <2> QED
    BY <1>1, <2>1
<1> QED
  BY <1>2, <1>5, <1>6, <1>7, <1>8 DEF a, x

\* One step down is no other.
LEMMA OneStep ==
  ASSUME NEW i \in Nat, NEW p \in Seq(Nat)
  PROVE  /\ <<i>> \o p \in Seq(Nat) /\ <<i>> \o p # << >>
         /\ (<<i>> \o p)[1] = i /\ Len(<<i>> \o p) = 1 + Len(p)
<1>1. <<i>> \in Seq(Nat) /\ Len(<<i>>) = 1 /\ <<i>>[1] = i /\ Len(p) \in Nat
  BY Single, LenProperties
<1>2. <<i>> \o p \in Seq(Nat) /\ Len(<<i>> \o p) = 1 + Len(p) /\ (<<i>> \o p)[1] = i
  BY <1>1, ConcatProperties
<1> QED
  BY <1>1, <1>2, EmptySeq

LEMMA SameStep ==
  ASSUME NEW i \in Nat, NEW j \in Nat, NEW p \in Seq(Nat), NEW q \in Seq(Nat), <<i>> \o p = <<j>> \o q
  PROVE  i = j /\ p = q
<1>1. i = j
  BY OneStep
<1> DEFINE a == <<i>>
<1>2. a \in Seq(Nat) /\ a \o p = a \o q
  BY <1>1, Single
<1> HIDE DEF a
<1>3. p = q
  BY <1>2, ConcatSimplifications
<1> QED
  BY <1>1, <1>3

\* The nodes below the root of a term are below one of its children.
LEMMA UnderChild ==
  ASSUME NEW t, IsTerm(t), NEW p \in Seq(Nat), p # << >>, NEW l, <<p, l>> \in t
  PROVE  \E i \in 1 .. Arity(Root(t)), q \in Seq(Nat) : p = <<i>> \o q /\ <<q, l>> \in At(t, <<i>>)
<1>1. PICK i \in Nat, q \in Seq(Nat) : p = <<i>> \o q /\ i = p[1]
  BY Through
<1>2. Len(p) \in Nat \ {0}
  BY EmptySeq
<1>3. PICK m \in t : m[1] = SubSeq(p, 1, 1 - 1) /\ p[1] \in 1 .. Arity(m[2])
  <2>1. 1 \in 1 .. Len(p) /\ <<p, l>>[1] = p
    BY <1>2
  <2>2. \A n \in t : \A k \in 1 .. Len(n[1]) :
          \E m \in t : m[1] = SubSeq(n[1], 1, k - 1) /\ n[1][k] \in 1 .. Arity(m[2])
    BY DEF IsTerm
  <2> QED
    BY <2>1, <2>2
<1>4. m[1] = << >>
  BY <1>3, SubSeqEmpty
<1>5. m[2] = Root(t)
  <2>1. m = <<<< >>, m[2]>>
    BY <1>3, <1>4, TermFacts DEF Nodes
  <2>2. <<<< >>, m[2]>> \in t
    BY <1>3, <2>1
  <2> QED
    BY <2>2, TermFacts
<1>6. <<q, l>> \in At(t, <<i>>)
  <2>1. <<i>> \in Seq(Nat) /\ Nodes(t)
    BY Single, TermFacts
  <2> QED
    BY <1>1, <2>1, AtNodes
<1> QED
  BY <1>1, <1>3, <1>5, <1>6

LEMMA ChildRoot ==
  ASSUME NEW t, IsTerm(t), NEW i \in 1 .. Arity(Root(t))
  PROVE  i \in Nat /\ <<i>> \in Seq(Nat) /\ \E l : <<<<i>>, l>> \in t
<1>1. <<<< >>, Root(t)>> \in t /\ Nodes(t) /\ Arity(Root(t)) \in Nat
  BY TermFacts
<1> DEFINE n == <<<< >>, Root(t)>>
<1>2. PICK m \in t : m[1] = Append(<< >>, i)
  <2>1. n \in t /\ n[1] = << >> /\ n[2] = Root(t)
    BY <1>1
  <2>2. \A x \in t : \A j \in 1 .. Arity(x[2]) : \E m \in t : m[1] = Append(x[1], j)
    BY DEF IsTerm
  <2> HIDE DEF n
  <2> QED
    BY <2>1, <2>2
<1>3. i \in Nat /\ <<i>> \in Seq(Nat) /\ Append(<< >>, i) = <<i>>
  BY <1>1
<1>4. m = <<<<i>>, m[2]>>
  BY <1>1, <1>2, <1>3 DEF Nodes
<1> QED
  BY <1>3, <1>4

\* What is at a place of a term is a term.
LEMMA SubtermIsTerm ==
  ASSUME NEW t, IsTerm(t), NEW p \in Seq(Nat), NEW r, <<p, r>> \in t
  PROVE  IsTerm(At(t, p)) /\ Root(At(t, p)) = r
<1> DEFINE s == At(t, p)
<1>1. Nodes(t) /\ \A n, m \in t : n[1] = m[1] => n = m
  BY DEF IsTerm, Nodes
<1>2. Nodes(s) /\ \A q \in Seq(Nat) : \A l : <<q, l>> \in s <=> <<p \o q, l>> \in t
  BY <1>1, AtNodes
<1>3. \A n \in s : n = <<n[1], n[2]>> /\ n[1] \in Seq(Nat) /\ <<p \o n[1], n[2]>> \in t
  BY <1>2 DEF Nodes
<1>5. \A n \in s : Arity(n[2]) \in Nat
  <2> SUFFICES ASSUME NEW n \in s PROVE Arity(n[2]) \in Nat
    OBVIOUS
  <2> DEFINE m == <<p \o n[1], n[2]>>
  <2>1. m \in t /\ m[2] = n[2]
    BY <1>3
  <2> HIDE DEF m, s
  <2> QED
    BY <2>1 DEF IsTerm
<1>6. <<<< >>, r>> \in s
  BY <1>2, ConcatEmptySeq, EmptySeq
<1>7. \A n, m \in s : n[1] = m[1] => n = m
  <2> SUFFICES ASSUME NEW n \in s, NEW m \in s, n[1] = m[1] PROVE n = m
    OBVIOUS
  <2>1. <<p \o n[1], n[2]>> = <<p \o m[1], m[2]>>
    BY <1>1, <1>3
  <2> QED
    BY <1>3, <2>1
<1>8. ASSUME NEW n \in s, NEW i \in 1 .. Arity(n[2])
      PROVE  \E m \in s : m[1] = Append(n[1], i)
  <2> DEFINE n1 == <<p \o n[1], n[2]>>
             q == n[1]
  <2>1. n1 \in t /\ n1[1] = p \o q /\ n1[2] = n[2] /\ q \in Seq(Nat)
    BY <1>3
  <2>2. PICK m \in t : m[1] = Append(p \o q, i)
    BY <2>1 DEF IsTerm
  <2>3. i \in Nat
    BY <1>5
  <2>4. Append(p \o q, i) = p \o Append(q, i) /\ Append(q, i) \in Seq(Nat)
    <3>1. p \o q \in Seq(Nat) /\ <<i>> \in Seq(Nat) /\ Append(q, i) \in Seq(Nat)
      BY <2>1, <2>3, Below, AppendProperties
    <3>2. Append(p \o q, i) = (p \o q) \o <<i>> /\ Append(q, i) = q \o <<i>>
      BY <2>1, <2>3, <3>1, AppendIsConcat
    <3> HIDE DEF q
    <3>3. (p \o q) \o <<i>> = p \o (q \o <<i>>)
      BY <2>1, <3>1, Assoc
    <3> QED
      BY <3>1, <3>2, <3>3
  <2>5. m = <<p \o Append(q, i), m[2]>>
    BY <1>1, <2>2, <2>4 DEF Nodes
  <2> HIDE DEF q, s
  <2>6. <<Append(q, i), m[2]>> \in s
    BY <1>2, <2>4, <2>5
  <2> QED
    BY <2>6 DEF q
<1>9. ASSUME NEW n \in s, NEW k \in 1 .. Len(n[1])
      PROVE  \E m \in s : m[1] = SubSeq(n[1], 1, k - 1) /\ n[1][k] \in 1 .. Arity(m[2])
  <2> DEFINE n1 == <<p \o n[1], n[2]>>
             q == n[1]
             a == SubSeq(q, 1, k - 1)
  <2>1. n1 \in t /\ n1[1] = p \o q /\ q \in Seq(Nat)
    BY <1>3
  <2> HIDE DEF q, s, n1
  <2>2. k \in 1 .. Len(q)
    BY DEF q
  <2>3. /\ a \in Seq(Nat) /\ SubSeq(p \o q, 1, Len(p) + k - 1) = p \o a
        /\ Len(p) + k \in 1 .. Len(p \o q) /\ (p \o q)[Len(p) + k] = q[k]
    BY <2>1, <2>2, Above
  <2> DEFINE j == Len(p) + k
  <2>4. PICK m \in t : m[1] = p \o a /\ q[k] \in 1 .. Arity(m[2])
    <3>1. \A i \in 1 .. Len(n1[1]) :
            \E m \in t : m[1] = SubSeq(n1[1], 1, i - 1) /\ n1[1][i] \in 1 .. Arity(m[2])
      BY <2>1 DEF IsTerm
    <3>2. j \in 1 .. Len(p \o q) /\ (p \o q)[j] = q[k] /\ SubSeq(p \o q, 1, j - 1) = p \o a
      BY ONLY <2>3, SMT
    <3> HIDE DEF j
    <3> QED
      BY <2>1, <3>1, <3>2
  <2>5. m = <<p \o a, m[2]>>
    BY <1>1, <2>3, <2>4 DEF Nodes
  <2> HIDE DEF a
  <2>6. <<a, m[2]>> \in s
    BY <1>2, <2>3, <2>5
  <2> QED
    BY <2>4, <2>6 DEF a, q
<1>10. IsTerm(s)
  <2> HIDE DEF s
  <2>1. \E n \in s : n[1] = << >>
    BY <1>6
  <2> QED
    BY <1>3, <1>5, <1>7, <1>8, <1>9, <2>1 DEF IsTerm
<1>11. Root(s) = r
  BY <1>6, <1>10, TermFacts
<1> QED
  BY <1>10, <1>11

--------------------------------------------------------------------------------
(* Substitutions.                                                               *)

GroundSubst(s) ==
  \A v \in DOMAIN s : v[1] = "var" /\ IsTerm(s[v]) /\ IsGround(s[v])

Extends(s, r) == DOMAIN r \subseteq DOMAIN s /\ \A v \in DOMAIN r : s[v] = r[v]

\* Where a node of the image comes from: the term, or the value of a variable in it.
InImage(s, t, q, l) ==
  \/ <<q, l>> \in t /\ l \notin DOMAIN s
  \/ \E p, x \in Seq(Nat), v \in DOMAIN s : <<p, v>> \in t /\ <<x, l>> \in s[v] /\ q = p \o x

LEMMA ApplyNodes ==
  ASSUME NEW t, Nodes(t), NEW s, GroundSubst(s)
  PROVE  /\ Nodes(Apply(s, t))
         /\ \A q \in Seq(Nat) : \A l :
              <<q, l>> \in Apply(s, t) <=> InImage(s, t, q, l)
<1>1. \A v \in DOMAIN s : Nodes(s[v])
  BY TermFacts DEF GroundSubst
<1>2. ASSUME NEW n \in Apply(s, t)
      PROVE  /\ n = <<n[1], n[2]>> /\ n[1] \in Seq(Nat)
             /\ \/ n \in t /\ n[2] \notin DOMAIN s
                \/ \E p, r \in Seq(Nat), v \in DOMAIN s :
                     <<p, v>> \in t /\ <<r, n[2]>> \in s[v] /\ n[1] = p \o r
  <2>1. PICK x \in t : n \in (IF x[2] \in DOMAIN s THEN {<<x[1] \o m[1], m[2]>> : m \in s[x[2]]} ELSE {x})
    BY DEF Apply
  <2>2. x = <<x[1], x[2]>> /\ x[1] \in Seq(Nat)
    BY DEF Nodes
  <2>3. CASE x[2] \notin DOMAIN s
    BY <2>1, <2>2, <2>3
  <2>4. CASE x[2] \in DOMAIN s
    <3>1. PICK m \in s[x[2]] : n = <<x[1] \o m[1], m[2]>>
      BY <2>1, <2>4
    <3>2. m = <<m[1], m[2]>> /\ m[1] \in Seq(Nat)
      BY <1>1, <2>4 DEF Nodes
    <3>3. n[1] = x[1] \o m[1] /\ n[2] = m[2] /\ n[1] \in Seq(Nat)
      BY <2>2, <3>1, <3>2, Below
    <3> QED
      BY <2>2, <2>4, <3>1, <3>2, <3>3
  <2> QED
    BY <2>3, <2>4
<1>3. ASSUME NEW q \in Seq(Nat), NEW l, <<q, l>> \in t, l \notin DOMAIN s
      PROVE  <<q, l>> \in Apply(s, t)
  <2> DEFINE x == <<q, l>>
  <2>1. x \in t /\ x[2] \notin DOMAIN s
    BY <1>3
  <2> HIDE DEF x
  <2>2. x \in Apply(s, t)
    BY <2>1 DEF Apply
  <2> QED
    BY <2>2 DEF x
<1>4. ASSUME NEW p \in Seq(Nat), NEW r \in Seq(Nat), NEW v \in DOMAIN s, NEW l,
             <<p, v>> \in t, <<r, l>> \in s[v]
      PROVE  <<p \o r, l>> \in Apply(s, t)
  <2> DEFINE x == <<p, v>>
             m == <<r, l>>
  <2>1. x \in t /\ x[2] = v /\ x[1] = p /\ m \in s[v] /\ m[1] = r /\ m[2] = l
    BY <1>4
  <2> HIDE DEF x, m
  <2>2. <<x[1] \o m[1], m[2]>> \in {<<x[1] \o y[1], y[2]>> : y \in s[x[2]]}
    BY <2>1
  <2>3. <<x[1] \o m[1], m[2]>> \in Apply(s, t)
    BY <2>1, <2>2 DEF Apply
  <2> QED
    BY <2>1, <2>3
<1>5. ASSUME NEW q \in Seq(Nat), NEW l, <<q, l>> \in Apply(s, t) PROVE InImage(s, t, q, l)
  <2> DEFINE n == <<q, l>>
  <2>1. n \in Apply(s, t) /\ n[1] = q /\ n[2] = l
    BY <1>5
  <2>2. \/ n \in t /\ n[2] \notin DOMAIN s
        \/ \E p, r \in Seq(Nat), v \in DOMAIN s :
             <<p, v>> \in t /\ <<r, n[2]>> \in s[v] /\ n[1] = p \o r
    BY <1>2, <2>1
  <2> QED
    BY <2>1, <2>2 DEF InImage
<1>6. ASSUME NEW q \in Seq(Nat), NEW l, InImage(s, t, q, l) PROVE <<q, l>> \in Apply(s, t)
  BY <1>3, <1>4, <1>6 DEF InImage
<1> QED
  BY <1>2, <1>5, <1>6 DEF Nodes

\* A ground term has nothing to substitute.
LEMMA ApplyGround ==
  ASSUME NEW t, IsGround(t), NEW s, GroundSubst(s)
  PROVE  Apply(s, t) = t
<1>1. \A n \in t : n[2] \notin DOMAIN s
  BY DEF IsGround, VarsOf, GroundSubst
<1>2. Apply(s, t) = UNION {{n} : n \in t}
  <2> DEFINE Image(n) == IF n[2] \in DOMAIN s THEN {<<n[1] \o m[1], m[2]>> : m \in s[n[2]]} ELSE {n}
  <2>1. \A n \in t : Image(n) = {n}
    BY <1>1
  <2>2. Apply(s, t) = UNION {Image(n) : n \in t}
    BY DEF Apply
  <2> HIDE DEF Image
  <2>3. {Image(n) : n \in t} = {{n} : n \in t}
    BY <2>1
  <2> QED
    BY <2>2, <2>3
<1> QED
  BY <1>2

LEMMA ApplyVars ==
  ASSUME NEW t, Nodes(t), NEW s, GroundSubst(s)
  PROVE  VarsOf(Apply(s, t)) = VarsOf(t) \ DOMAIN s
<1>1. /\ Nodes(Apply(s, t))
      /\ \A q \in Seq(Nat) : \A l :
           <<q, l>> \in Apply(s, t) <=> InImage(s, t, q, l)
  BY ApplyNodes
<1>2. \A v \in DOMAIN s : \A q, l : <<q, l>> \in s[v] => l[1] # "var"
  <2> SUFFICES ASSUME NEW v \in DOMAIN s, NEW q, NEW l, <<q, l>> \in s[v] PROVE l[1] # "var"
    OBVIOUS
  <2> DEFINE n == <<q, l>>
  <2>1. n \in s[v] /\ n[2] = l
    OBVIOUS
  <2> HIDE DEF n
  <2> QED
    BY <2>1 DEF GroundSubst, IsGround, VarsOf
<1>3. \A x, v : Nodes(x) => (v \in VarsOf(x) <=> v[1] = "var" /\ \E q \in Seq(Nat) : <<q, v>> \in x)
  <2> SUFFICES ASSUME NEW x, NEW v, Nodes(x)
               PROVE  v \in VarsOf(x) <=> v[1] = "var" /\ \E q \in Seq(Nat) : <<q, v>> \in x
    OBVIOUS
  <2>1. ASSUME v \in VarsOf(x) PROVE v[1] = "var" /\ \E q \in Seq(Nat) : <<q, v>> \in x
    <3>1. PICK n \in x : n[2][1] = "var" /\ v = n[2]
      BY <2>1 DEF VarsOf
    <3>2. n = <<n[1], v>> /\ n[1] \in Seq(Nat)
      BY <3>1 DEF Nodes
    <3> QED
      BY <3>1, <3>2
  <2>2. ASSUME v[1] = "var", NEW q \in Seq(Nat), <<q, v>> \in x PROVE v \in VarsOf(x)
    <3> DEFINE n == <<q, v>>
    <3>1. n \in x /\ n[2] = v
      BY <2>2
    <3> HIDE DEF n
    <3> QED
      BY <2>2, <3>1 DEF VarsOf
  <2> QED
    BY <2>1, <2>2
<1> DEFINE a == Apply(s, t)
<1> HIDE DEF a
<1>4. ASSUME NEW v \in VarsOf(a) PROVE v \in VarsOf(t) /\ v \notin DOMAIN s
  <2>1. v[1] = "var" /\ \E q \in Seq(Nat) : <<q, v>> \in a
    BY <1>1, <1>3 DEF a
  <2>2. PICK q \in Seq(Nat) : <<q, v>> \in t /\ v \notin DOMAIN s
    BY <1>1, <1>2, <2>1 DEF a, InImage
  <2> QED
    BY <1>3, <2>1, <2>2
<1>5. ASSUME NEW v \in VarsOf(t), v \notin DOMAIN s PROVE v \in VarsOf(a)
  <2>1. PICK q \in Seq(Nat) : v[1] = "var" /\ <<q, v>> \in t
    BY <1>3
  <2>2. <<q, v>> \in a
    BY <1>1, <1>5, <2>1 DEF a, InImage
  <2> QED
    BY <1>1, <1>3, <2>1, <2>2 DEF a
<1>6. VarsOf(a) = VarsOf(t) \ DOMAIN s
  BY <1>4, <1>5
<1> QED
  BY <1>6 DEF a

\* Applying a substitution after one it extends is applying it.
LEMMA ApplyTwice ==
  ASSUME NEW t, Nodes(t), NEW s, GroundSubst(s), NEW r, GroundSubst(r), Extends(s, r)
  PROVE  Apply(s, Apply(r, t)) = Apply(s, t)
<1> DEFINE u == Apply(r, t)
<1>1. /\ Nodes(u)
      /\ \A q \in Seq(Nat) : \A l :
           <<q, l>> \in u <=> InImage(r, t, q, l)
  BY ApplyNodes
<1> HIDE DEF u
<1>2. /\ Nodes(Apply(s, u))
      /\ \A q \in Seq(Nat) : \A l :
           <<q, l>> \in Apply(s, u) <=> InImage(s, u, q, l)
  BY <1>1, ApplyNodes
<1>3. /\ Nodes(Apply(s, t))
      /\ \A q \in Seq(Nat) : \A l :
           <<q, l>> \in Apply(s, t) <=> InImage(s, t, q, l)
  BY ApplyNodes
<1>4. \A v \in DOMAIN r : v \in DOMAIN s /\ s[v] = r[v]
  BY DEF Extends
<1>5. \A v \in DOMAIN r : \A q, l : <<q, l>> \in r[v] => l \notin DOMAIN s
  <2> SUFFICES ASSUME NEW v \in DOMAIN r, NEW q, NEW l, <<q, l>> \in r[v] PROVE l \notin DOMAIN s
    OBVIOUS
  <2> DEFINE n == <<q, l>>
  <2>1. n \in r[v] /\ n[2] = l
    OBVIOUS
  <2> HIDE DEF n
  <2> QED
    BY <2>1 DEF GroundSubst, IsGround, VarsOf
<1>6. \A p \in Seq(Nat), v \in DOMAIN s :
        <<p, v>> \in u <=> <<p, v>> \in t /\ v \notin DOMAIN r
  BY <1>1, <1>5 DEF InImage
<1>7. \A q \in Seq(Nat) : \A l : <<q, l>> \in Apply(s, u) <=> <<q, l>> \in Apply(s, t)
  <2> SUFFICES ASSUME NEW q \in Seq(Nat), NEW l
               PROVE  <<q, l>> \in Apply(s, u) <=> <<q, l>> \in Apply(s, t)
    OBVIOUS
  <2>1. ASSUME <<q, l>> \in Apply(s, u) PROVE <<q, l>> \in Apply(s, t)
    <3>1. CASE <<q, l>> \in u /\ l \notin DOMAIN s
      <4>1. CASE <<q, l>> \in t /\ l \notin DOMAIN r
        BY <1>3, <3>1, <4>1 DEF InImage
      <4>2. CASE \E p, x \in Seq(Nat), v \in DOMAIN r : <<p, v>> \in t /\ <<x, l>> \in r[v] /\ q = p \o x
        BY <1>3, <1>4, <4>2 DEF InImage
      <4> QED
        BY <1>1, <3>1, <4>1, <4>2 DEF InImage
    <3>2. CASE \E p, x \in Seq(Nat), v \in DOMAIN s : <<p, v>> \in u /\ <<x, l>> \in s[v] /\ q = p \o x
      BY <1>3, <1>6, <3>2 DEF InImage
    <3> QED
      BY <1>2, <2>1, <3>1, <3>2 DEF InImage
  <2>2. ASSUME <<q, l>> \in Apply(s, t) PROVE <<q, l>> \in Apply(s, u)
    <3>1. CASE <<q, l>> \in t /\ l \notin DOMAIN s
      BY <1>1, <1>2, <1>4, <3>1 DEF InImage
    <3>2. ASSUME NEW p \in Seq(Nat), NEW x \in Seq(Nat), NEW v \in DOMAIN s,
                 <<p, v>> \in t, <<x, l>> \in s[v], q = p \o x
          PROVE  <<q, l>> \in Apply(s, u)
      <4>1. CASE v \in DOMAIN r
        <5>1. <<x, l>> \in r[v] /\ l \notin DOMAIN s
          BY <1>4, <1>5, <3>2, <4>1
        <5>2. <<q, l>> \in u
          BY <1>1, <3>2, <4>1, <5>1 DEF InImage
        <5> QED
          BY <1>2, <5>1, <5>2 DEF InImage
      <4>2. CASE v \notin DOMAIN r
        BY <1>2, <1>6, <3>2, <4>2 DEF InImage
      <4> QED
        BY <4>1, <4>2
    <3> QED
      <4>1. InImage(s, t, q, l)
        BY <1>3, <2>2
      <4> QED
        BY <3>1, <3>2, <4>1 DEF InImage
  <2> QED
    BY <2>1, <2>2
<1> QED
  BY <1>2, <1>3, <1>7, NodesEqual DEF u

\* Below a root that is not replaced, the substitution is applied to each child.
LEMMA ApplyChild ==
  ASSUME NEW t, IsTerm(t), NEW s, GroundSubst(s), Root(t) \notin DOMAIN s, NEW i \in Nat
  PROVE  At(Apply(s, t), <<i>>) = Apply(s, At(t, <<i>>))
<1>1. /\ Nodes(t) /\ <<i>> \in Seq(Nat) /\ \A l : <<<< >>, l>> \in t => l = Root(t)
  BY TermFacts, Single
<1> DEFINE c == At(t, <<i>>)
           a == Apply(s, t)
<1>2. Nodes(c) /\ \A q \in Seq(Nat) : \A l : <<q, l>> \in c <=> <<<<i>> \o q, l>> \in t
  BY <1>1, AtNodes
<1>3. /\ Nodes(a)
      /\ \A q \in Seq(Nat) : \A l :
           <<q, l>> \in a <=> InImage(s, t, q, l)
  BY <1>1, ApplyNodes
<1> HIDE DEF a, c
<1>4. Nodes(At(a, <<i>>)) /\ \A q \in Seq(Nat) : \A l : <<q, l>> \in At(a, <<i>>) <=> <<<<i>> \o q, l>> \in a
  BY <1>1, <1>3, AtNodes
<1>5. /\ Nodes(Apply(s, c))
      /\ \A q \in Seq(Nat) : \A l :
           <<q, l>> \in Apply(s, c) <=> InImage(s, c, q, l)
  BY <1>2, ApplyNodes
<1>6. ASSUME NEW q \in Seq(Nat), NEW l
      PROVE  <<q, l>> \in At(a, <<i>>) <=> <<q, l>> \in Apply(s, c)
  <2>1. <<i>> \o q \in Seq(Nat)
    BY <1>1, Below
  <2>2. <<q, l>> \in At(a, <<i>>) <=> InImage(s, t, <<i>> \o q, l)
    BY <1>3, <1>4, <2>1
  <2>3. ASSUME NEW p \in Seq(Nat), NEW x \in Seq(Nat), NEW v \in DOMAIN s,
               <<p, v>> \in t, <<x, l>> \in s[v], <<i>> \o q = p \o x
        PROVE  InImage(s, c, q, l)
    <3>1. p # << >>
      BY <1>1, <2>3
    <3>2. PICK j \in Nat, y \in Seq(Nat) : p = <<j>> \o y
      BY <3>1, Through
    <3>3. <<j>> \in Seq(Nat) /\ y \o x \in Seq(Nat)
      BY Single, Below
    <3>4. <<i>> \o q = <<j>> \o (y \o x)
      BY <2>3, <3>2, SingleAssoc
    <3>5. i = j /\ q = y \o x
      <4> DEFINE z == y \o x
      <4>1. z \in Seq(Nat) /\ <<i>> \o q = <<j>> \o z
        BY <3>3, <3>4
      <4> HIDE DEF z
        <4>2. i = j /\ q = z
        BY <4>1, SameStep
      <4> QED
        BY <4>2 DEF z
    <3>6. <<y, v>> \in c
      BY <1>2, <2>3, <3>2, <3>5
    <3> QED
      BY <2>3, <3>5, <3>6 DEF InImage
  <2>4. ASSUME NEW p \in Seq(Nat), NEW x \in Seq(Nat), NEW v \in DOMAIN s,
               <<p, v>> \in c, <<x, l>> \in s[v], q = p \o x
        PROVE  InImage(s, t, <<i>> \o q, l)
    <3>1. <<<<i>> \o p, v>> \in t /\ <<i>> \o p \in Seq(Nat)
      BY <1>1, <1>2, <2>4, Below
    <3>2. <<i>> \o q = (<<i>> \o p) \o x
      <4>1. (<<i>> \o p) \o x = <<i>> \o (p \o x)
        BY <1>1, <2>4, SingleAssoc
      <4> QED
        BY <2>4, <4>1
    <3> QED
      BY <2>4, <3>1, <3>2 DEF InImage
  <2>5. InImage(s, t, <<i>> \o q, l) => InImage(s, c, q, l)
    BY <1>2, <2>3 DEF InImage
  <2>6. InImage(s, c, q, l) => InImage(s, t, <<i>> \o q, l)
    BY <1>2, <2>4 DEF InImage
  <2> QED
    BY <1>5, <2>2, <2>5, <2>6
<1>7. At(a, <<i>>) = Apply(s, c)
  BY <1>4, <1>5, <1>6, NodesEqual
<1> QED
  BY <1>7 DEF a, c

--------------------------------------------------------------------------------
(* The image of a term is a term.                                               *)

\* Of two places above the same one, the shorter is above the longer.
LEMMA Shorter ==
  ASSUME NEW p \in Seq(Nat), NEW q \in Seq(Nat), NEW x \in Seq(Nat), NEW y \in Seq(Nat),
         p \o x = q \o y, Len(p) <= Len(q)
  PROVE  \E z \in Seq(Nat) : q = p \o z
<1>1. Len(p) \in Nat /\ Len(q) \in Nat /\ Len(x) \in Nat /\ Len(y) \in Nat
  BY LenProperties
<1>2. /\ \A i \in 1 .. Len(p) + Len(x) : (p \o x)[i] = IF i <= Len(p) THEN p[i] ELSE x[i - Len(p)]
      /\ \A i \in 1 .. Len(q) + Len(y) : (q \o y)[i] = IF i <= Len(q) THEN q[i] ELSE y[i - Len(q)]
  BY ConcatProperties
<1>3. \A i \in 1 .. Len(p) : p[i] = q[i] /\ q[i] \in Nat
  <2>1. \A i \in 1 .. Len(p) : (p \o x)[i] = p[i] /\ (q \o y)[i] = q[i]
    BY <1>1, <1>2
  <2>2. \A i \in 1 .. Len(q) : q[i] \in Nat
    BY ElementOfSeq
  <2> QED
    BY <1>1, <2>1, <2>2
<1> DEFINE a == SubSeq(q, 1, Len(p))
<1>4. a \in Seq(Nat) /\ Len(a) = Len(p) /\ \A i \in 1 .. Len(p) : a[i] = q[i]
  BY <1>1, <1>3, SubSeqProperties
<1>5. a = p
  <2> HIDE DEF a
  <2> QED
    BY <1>3, <1>4, SeqEqual
<1>6. SubSeq(p, 1, Len(p)) = p
  BY SubSeqFull
<1>7. IsPrefix(p, q)
  BY <1>5, <1>6 DEF IsPrefix
<1> QED
  BY <1>7, Prefixed

\* Nothing is below a node without children.
LEMMA NothingBelow ==
  ASSUME NEW t, IsTerm(t), NEW p \in Seq(Nat), NEW v, <<p, v>> \in t, Arity(v) = 0,
         NEW q \in Seq(Nat), NEW l, <<p \o q, l>> \in t
  PROVE  q = << >> /\ l = v
<1> DEFINE u == At(t, p)
<1>1. IsTerm(u) /\ Root(u) = v
  BY SubtermIsTerm
<1>2. <<q, l>> \in u
  BY AtNodes, TermFacts
<1> HIDE DEF u
<1>3. q = << >>
  <2> SUFFICES ASSUME q # << >> PROVE FALSE
    OBVIOUS
  <2>1. PICK i \in 1 .. Arity(Root(u)) : TRUE
    BY <1>1, <1>2, UnderChild
  <2>2. i \in 1 .. 0
    BY <1>1, <2>1
  <2> QED
    BY <2>2
<1> QED
  BY <1>1, <1>2, <1>3, TermFacts

\* A term whose root has no children is its root.
LEMMA Leaf ==
  ASSUME NEW t, IsTerm(t), Arity(Root(t)) = 0
  PROVE  t = {<<<< >>, Root(t)>>}
<1> DEFINE u == {<<<< >>, Root(t)>>}
<1>1. Nodes(t) /\ Nodes(u)
  <2>1. << >> \in Seq(Nat)
    BY EmptySeq
  <2>2. Nodes(u)
    <3>1. \A n \in u : n = <<n[1], n[2]>> /\ n[1] = << >>
      OBVIOUS
    <3> HIDE DEF u
    <3> QED
      BY <2>1, <3>1 DEF Nodes
  <2> QED
    BY <2>2, TermFacts
<1>2. ASSUME NEW q \in Seq(Nat), NEW l PROVE <<q, l>> \in t <=> <<q, l>> \in u
  <2>1. ASSUME <<q, l>> \in t, q # << >> PROVE FALSE
    <3>1. PICK i \in 1 .. Arity(Root(t)) : TRUE
      BY <2>1, UnderChild
    <3>2. i \in 1 .. 0
      BY <3>1
    <3> QED
      BY <3>2
  <2>2. <<<< >>, l>> \in t <=> l = Root(t)
    BY TermFacts
  <2> QED
    BY <2>1, <2>2
<1> QED
  BY <1>1, <1>2, NodesEqual

LEMMA VarNodes ==
  ASSUME NEW t, Nodes(t), NEW v
  PROVE  v \in VarsOf(t) <=> v[1] = "var" /\ \E q \in Seq(Nat) : <<q, v>> \in t
<1>1. ASSUME v \in VarsOf(t) PROVE v[1] = "var" /\ \E q \in Seq(Nat) : <<q, v>> \in t
  <2>1. PICK n \in t : n[2][1] = "var" /\ v = n[2]
    BY <1>1 DEF VarsOf
  <2>2. n = <<n[1], v>> /\ n[1] \in Seq(Nat)
    BY <2>1 DEF Nodes
  <2> QED
    BY <2>1, <2>2
<1>2. ASSUME v[1] = "var", NEW q \in Seq(Nat), <<q, v>> \in t PROVE v \in VarsOf(t)
  <2> DEFINE n == <<q, v>>
  <2>1. n \in t /\ n[2] = v
    BY <1>2
  <2> HIDE DEF n
  <2> QED
    BY <1>2, <2>1 DEF VarsOf
<1> QED
  BY <1>1, <1>2

LEMMA ImageIsTerm ==
  ASSUME NEW t, IsTerm(t), NEW s, GroundSubst(s)
  PROVE  IsTerm(Apply(s, t))
<1> DEFINE a == Apply(s, t)
<1>1. Nodes(t) /\ \A q \in Seq(Nat) : \A k, l : <<q, k>> \in t /\ <<q, l>> \in t => k = l
  BY TermFacts
<1>2. \A v \in DOMAIN s : IsTerm(s[v]) /\ Arity(v) = 0
  BY DEF GroundSubst, Arity
<1>3. Nodes(a) /\ \A q \in Seq(Nat) : \A l : <<q, l>> \in a <=> InImage(s, t, q, l)
  BY <1>1, ApplyNodes
<1> HIDE DEF a
\* Every place of the term is one of the image.
<1>4. ASSUME NEW q \in Seq(Nat), NEW l, <<q, l>> \in t
      PROVE  \E k : <<q, k>> \in a
  <2>1. CASE l \notin DOMAIN s
    BY <1>3, <1>4, <2>1 DEF InImage
  <2>2. CASE l \in DOMAIN s
    <3>1. << >> \in Seq(Nat) /\ q \o << >> = q /\ <<<< >>, Root(s[l])>> \in s[l]
      BY <1>2, <2>2, EmptySeq, ConcatEmptySeq, TermFacts
    <3>2. InImage(s, t, q, Root(s[l]))
      BY <1>4, <2>2, <3>1 DEF InImage
    <3> QED
      BY <1>3, <3>2
  <2> QED
    BY <2>1, <2>2
\* An inner node of the term stays.
<1>5. ASSUME NEW q \in Seq(Nat), NEW l, <<q, l>> \in t, NEW i \in 1 .. Arity(l)
      PROVE  <<q, l>> \in a
  <2>1. l \notin DOMAIN s
    BY <1>2, <1>5
  <2> QED
    BY <1>3, <1>5, <2>1 DEF InImage
<1>6. ASSUME NEW q \in Seq(Nat), NEW k, NEW l, <<q, k>> \in a, <<q, l>> \in a
      PROVE  k = l
  <2>1. ASSUME NEW p \in Seq(Nat), NEW x \in Seq(Nat), NEW v \in DOMAIN s,
               <<p, v>> \in t, q = p \o x, NEW b, <<q, b>> \in t
        PROVE  b \in DOMAIN s
    <3>1. <<p \o x, b>> \in t /\ Arity(v) = 0 /\ <<p, v>> \in t
      BY <1>2, <2>1
    <3>2. b = v
      BY <3>1, NothingBelow
    <3> QED
      BY <3>2
  <2>2. ASSUME NEW p \in Seq(Nat), NEW x \in Seq(Nat), NEW v \in DOMAIN s,
               <<p, v>> \in t, q = p \o x, <<x, k>> \in s[v],
               NEW r \in Seq(Nat), NEW y \in Seq(Nat), NEW w \in DOMAIN s,
               <<r, w>> \in t, q = r \o y, <<y, l>> \in s[w]
        PROVE  k = l
    <3>1. p = r
      <4>1. Len(p) \in Nat /\ Len(r) \in Nat /\ p \o x = r \o y /\ r \o y = p \o x
        BY <2>2, LenProperties
      <4>2. CASE Len(p) <= Len(r)
        <5>1. PICK z \in Seq(Nat) : r = p \o z
          BY <4>1, <4>2, Shorter
        <5>2. z = << >>
          BY <1>2, <2>2, <5>1, NothingBelow
        <5> QED
          BY <5>1, <5>2, ConcatEmptySeq
      <4>3. CASE Len(r) <= Len(p)
        <5>1. PICK z \in Seq(Nat) : p = r \o z
          BY <4>1, <4>3, Shorter
        <5>2. z = << >>
          BY <1>2, <2>2, <5>1, NothingBelow
        <5> QED
          BY <5>1, <5>2, ConcatEmptySeq
      <4> QED
        BY <4>1, <4>2, <4>3
    <3>2. v = w
      BY <1>1, <2>2, <3>1
    <3>3. x = y
      BY <2>2, <3>1, ConcatSimplifications
    <3> QED
      BY <1>2, <2>2, <3>2, <3>3, TermFacts
  <2>3. InImage(s, t, q, k) /\ InImage(s, t, q, l)
    BY <1>3, <1>6
  <2>4. CASE <<q, k>> \in t /\ k \notin DOMAIN s
    BY <1>1, <2>1, <2>3, <2>4 DEF InImage
  <2>5. CASE <<q, l>> \in t /\ l \notin DOMAIN s
    BY <1>1, <2>1, <2>3, <2>5 DEF InImage
  <2>6. CASE /\ \E p, x \in Seq(Nat), v \in DOMAIN s : <<p, v>> \in t /\ <<x, k>> \in s[v] /\ q = p \o x
             /\ \E p, x \in Seq(Nat), v \in DOMAIN s : <<p, v>> \in t /\ <<x, l>> \in s[v] /\ q = p \o x
    BY <2>2, <2>6
  <2> QED
    BY <2>3, <2>4, <2>5, <2>6 DEF InImage
<1>7. ASSUME NEW n \in a, NEW i \in 1 .. Arity(n[2])
      PROVE  \E m \in a : m[1] = Append(n[1], i)
  <2> DEFINE q == n[1]
             l == n[2]
  <2>1. q \in Seq(Nat) /\ InImage(s, t, q, l) /\ n = <<q, l>>
    <3>1. n = <<q, l>> /\ q \in Seq(Nat)
      BY <1>3 DEF Nodes
    <3> HIDE DEF q, l
    <3> QED
      BY <1>3, <3>1
  <2> HIDE DEF q, l
  <2>2. ASSUME <<q, l>> \in t PROVE \E k : <<Append(q, i), k>> \in a
    <3> DEFINE x == <<q, l>>
    <3>1. x \in t /\ x[1] = q /\ x[2] = l
      BY <2>2
    <3> HIDE DEF x
    <3>2. PICK m \in t : m[1] = Append(q, i)
      BY <3>1 DEF IsTerm, l
    <3>3. m = <<Append(q, i), m[2]>> /\ Append(q, i) \in Seq(Nat)
      BY <1>1, <3>2 DEF Nodes
    <3> QED
      BY <1>4, <3>2, <3>3
  <2>3. ASSUME NEW p \in Seq(Nat), NEW x \in Seq(Nat), NEW v \in DOMAIN s,
               <<p, v>> \in t, <<x, l>> \in s[v], q = p \o x
        PROVE  \E k : <<Append(q, i), k>> \in a
    <3> DEFINE y == <<x, l>>
               u == s[v]
    <3>1. y \in u /\ y[1] = x /\ y[2] = l /\ IsTerm(u)
      BY <1>2, <2>3
    <3> HIDE DEF y, u
    <3>2. PICK m \in u : m[1] = Append(x, i)
      BY <3>1 DEF IsTerm, l
    <3>3. Nodes(u) /\ Arity(l) \in Nat
      BY <3>1, TermFacts DEF IsTerm
    <3>4. m = <<Append(x, i), m[2]>> /\ Append(x, i) \in Seq(Nat) /\ i \in Nat
      BY <3>2, <3>3 DEF Nodes, l
    <3>5. Append(p \o x, i) = p \o Append(x, i)
      <4>1. p \o x \in Seq(Nat) /\ <<i>> \in Seq(Nat)
        BY <3>4, Below
      <4>2. Append(p \o x, i) = (p \o x) \o <<i>> /\ Append(x, i) = x \o <<i>>
        BY <3>4, <4>1, AppendIsConcat
      <4> DEFINE w == <<i>>
      <4> HIDE DEF w
      <4>3. (p \o x) \o w = p \o (x \o w)
        BY <4>1, Assoc DEF w
      <4> QED
        BY <4>2, <4>3 DEF w
    <3>6. InImage(s, t, Append(q, i), m[2]) /\ Append(q, i) \in Seq(Nat)
      <4>1. Append(q, i) = p \o Append(x, i) /\ Append(q, i) \in Seq(Nat)
        BY <2>3, <3>4, <3>5, Below
      <4>2. <<Append(x, i), m[2]>> \in s[v]
        BY <3>2, <3>4 DEF u
      <4> QED
        BY <2>3, <3>4, <4>1, <4>2 DEF InImage
    <3> QED
      BY <1>3, <3>6
  <2>4. PICK k : <<Append(q, i), k>> \in a
    BY <2>1, <2>2, <2>3 DEF InImage
  <2> QED
    BY <2>4 DEF q
<1>8. ASSUME NEW n \in a, NEW k \in 1 .. Len(n[1])
      PROVE  \E m \in a : m[1] = SubSeq(n[1], 1, k - 1) /\ n[1][k] \in 1 .. Arity(m[2])
  <2> DEFINE q == n[1]
             l == n[2]
  <2>1. q \in Seq(Nat) /\ InImage(s, t, q, l) /\ n = <<q, l>>
    <3>1. n = <<q, l>> /\ q \in Seq(Nat)
      BY <1>3 DEF Nodes
    <3> HIDE DEF q, l
    <3> QED
      BY <1>3, <3>1
  <2> HIDE DEF q, l
  \* A node of the term above a place of it is one of the image.
  <2>2. ASSUME NEW p \in Seq(Nat), NEW v, <<p, v>> \in t, NEW j \in 1 .. Len(p)
        PROVE  \E m \in a : m[1] = SubSeq(p, 1, j - 1) /\ p[j] \in 1 .. Arity(m[2])
    <3> DEFINE x == <<p, v>>
    <3>1. x \in t /\ x[1] = p
      BY <2>2
    <3> HIDE DEF x
    <3>2. PICK m \in t : m[1] = SubSeq(p, 1, j - 1) /\ p[j] \in 1 .. Arity(m[2])
      BY <3>1 DEF IsTerm
    <3>3. m = <<m[1], m[2]>> /\ m[1] \in Seq(Nat)
      BY <1>1, <3>2 DEF Nodes
    <3>4. m \in a
      BY <1>5, <3>2, <3>3
    <3> QED
      BY <3>2, <3>4
  <2>3. ASSUME NEW p \in Seq(Nat), NEW x \in Seq(Nat), NEW v \in DOMAIN s,
               <<p, v>> \in t, <<x, l>> \in s[v], q = p \o x
        PROVE  \E m \in a : m[1] = SubSeq(q, 1, k - 1) /\ q[k] \in 1 .. Arity(m[2])
    <3>1. Len(p) \in Nat /\ Len(x) \in Nat /\ Len(q) = Len(p) + Len(x) /\ k \in 1 .. Len(q)
      BY <2>3, Below DEF q
    <3>2. CASE k <= Len(p)
      <4>1. k \in 1 .. Len(p)
        BY <3>1, <3>2
      <4>2. SubSeq(q, 1, k - 1) = SubSeq(p, 1, k - 1) /\ q[k] = p[k]
        <5>1. Len(p) \in Nat /\ \A i \in 1 .. Len(p) : p[i] \in Nat /\ q[i] \in Nat /\ q[i] = p[i]
          BY <2>3, <3>1, ElementOfSeq, ConcatProperties
        <5>2. \A i \in 1 .. k - 1 : p[i] \in Nat /\ q[i] \in Nat /\ q[i] = p[i]
          BY <4>1, <5>1
        <5> DEFINE b == SubSeq(q, 1, k - 1)
                   c == SubSeq(p, 1, k - 1)
        <5>3. b \in Seq(Nat) /\ Len(b) = k - 1 /\ \A i \in 1 .. k - 1 : b[i] = q[i]
          BY <3>1, <5>2, SubSeqProperties
        <5>4. c \in Seq(Nat) /\ Len(c) = k - 1 /\ \A i \in 1 .. k - 1 : c[i] = p[i]
          BY <3>1, <5>2, SubSeqProperties
        <5> HIDE DEF b, c
        <5>5. b = c
          BY <5>2, <5>3, <5>4, SeqEqual
        <5> QED
          BY <4>1, <5>1, <5>5 DEF b, c
      <4> QED
        BY <2>2, <2>3, <4>1, <4>2
    <3>3. CASE k > Len(p)
      <4> DEFINE j == k - Len(p)
                 y == <<x, l>>
                 u == s[v]
      <4>1. j \in 1 .. Len(x) /\ Len(p) + j = k /\ Len(p) + j - 1 = k - 1
        BY <3>1, <3>3
      <4>2. y \in u /\ y[1] = x /\ IsTerm(u)
        BY <1>2, <2>3
      <4> HIDE DEF j, y, u
      <4>3. PICK m \in u : m[1] = SubSeq(x, 1, j - 1) /\ x[j] \in 1 .. Arity(m[2])
        BY <4>1, <4>2 DEF IsTerm
      <4>4. /\ SubSeq(x, 1, j - 1) \in Seq(Nat)
            /\ SubSeq(q, 1, Len(p) + j - 1) = p \o SubSeq(x, 1, j - 1)
            /\ q[Len(p) + j] = x[j]
        BY <2>3, <4>1, Above
      <4>5. m = <<m[1], m[2]>> /\ m[1] \in Seq(Nat)
        BY <4>2, <4>3, TermFacts DEF Nodes
      <4>6. p \o m[1] \in Seq(Nat) /\ InImage(s, t, p \o m[1], m[2])
        BY <2>3, <4>3, <4>5, Below DEF InImage, u
      <4>7. <<p \o m[1], m[2]>> \in a
        BY <1>3, <4>6
      <4>8. SubSeq(q, 1, k - 1) = p \o m[1] /\ q[k] \in 1 .. Arity(m[2])
        BY <4>1, <4>3, <4>4
      <4> QED
        BY <4>7, <4>8
    <3> QED
      BY <3>1, <3>2, <3>3
  <2>4. k \in 1 .. Len(q)
    BY DEF q
  <2>5. \E m \in a : m[1] = SubSeq(q, 1, k - 1) /\ q[k] \in 1 .. Arity(m[2])
    BY <2>1, <2>2, <2>3, <2>4 DEF InImage
  <2> QED
    BY <2>5 DEF q
<1>9. \A n \in a : Arity(n[2]) \in Nat
  <2> SUFFICES ASSUME NEW n \in a PROVE Arity(n[2]) \in Nat
    OBVIOUS
  <2>1. n = <<n[1], n[2]>> /\ n[1] \in Seq(Nat) /\ InImage(s, t, n[1], n[2])
    BY <1>3 DEF Nodes
  <2>2. \A u, q, l : IsTerm(u) /\ <<q, l>> \in u => Arity(l) \in Nat
    <3> SUFFICES ASSUME NEW u, NEW q, NEW l, IsTerm(u), <<q, l>> \in u PROVE Arity(l) \in Nat
      OBVIOUS
    <3> DEFINE y == <<q, l>>
    <3>1. y \in u /\ y[2] = l
      OBVIOUS
    <3> HIDE DEF y
    <3> QED
      BY <3>1 DEF IsTerm
  <2> QED
    BY <1>2, <2>1, <2>2 DEF InImage
<1>10. \E n \in a : n[1] = << >>
  <2>1. << >> \in Seq(Nat) /\ <<<< >>, Root(t)>> \in t
    BY EmptySeq, TermFacts
  <2>2. PICK k : <<<< >>, k>> \in a
    BY <1>4, <2>1
  <2> QED
    BY <2>2
<1>11. \A n, m \in a : n[1] = m[1] => n = m
  <2> SUFFICES ASSUME NEW n \in a, NEW m \in a, n[1] = m[1] PROVE n = m
    OBVIOUS
  <2>1. n = <<n[1], n[2]>> /\ n[1] \in Seq(Nat) /\ m = <<n[1], m[2]>>
    BY <1>3 DEF Nodes
  <2>2. n[2] = m[2]
    BY <1>6, <2>1
  <2> QED
    BY <2>1, <2>2
<1>12. IsTerm(a)
  BY <1>3, <1>7, <1>8, <1>9, <1>10, <1>11 DEF IsTerm, Nodes
<1> QED
  BY <1>12 DEF a

--------------------------------------------------------------------------------
(* What the cases of unify compare.                                             *)

LEMMA AtRoot ==
  ASSUME NEW t, Nodes(t)
  PROVE  At(t, << >>) = t
<1>1. << >> \in Seq(Nat) /\ \A q \in Seq(Nat) : << >> \o q = q
  BY EmptySeq, ConcatEmptySeq
<1>2. Nodes(At(t, << >>)) /\ \A q \in Seq(Nat) : \A l : <<q, l>> \in At(t, << >>) <=> <<q, l>> \in t
  BY <1>1, AtNodes
<1> QED
  BY <1>2, NodesEqual

LEMMA VarsOfAt ==
  ASSUME NEW t, Nodes(t), NEW p \in Seq(Nat)
  PROVE  VarsOf(At(t, p)) \subseteq VarsOf(t)
<1>1. Nodes(At(t, p)) /\ \A q \in Seq(Nat) : \A l : <<q, l>> \in At(t, p) <=> <<p \o q, l>> \in t
  BY AtNodes
<1>2. ASSUME NEW v \in VarsOf(At(t, p)) PROVE v \in VarsOf(t)
  <2>1. PICK q \in Seq(Nat) : v[1] = "var" /\ <<q, v>> \in At(t, p)
    BY <1>1, VarNodes
  <2>2. p \o q \in Seq(Nat) /\ <<p \o q, v>> \in t
    BY <1>1, <2>1, Below
  <2> QED
    BY <2>1, <2>2, VarNodes
<1> QED
  BY <1>2

\* The variables of a list or a dict are those of its children.
LEMMA VarsOfChildren ==
  ASSUME NEW t, IsTerm(t), ~IsVar(t), NEW v \in VarsOf(t)
  PROVE  \E i \in 1 .. Arity(Root(t)) : v \in VarsOf(At(t, <<i>>))
<1>1. PICK p \in Seq(Nat) : v[1] = "var" /\ <<p, v>> \in t
  BY VarNodes, TermFacts
<1>2. p # << >>
  BY <1>1, TermFacts DEF IsVar
<1>3. PICK i \in 1 .. Arity(Root(t)), q \in Seq(Nat) : <<q, v>> \in At(t, <<i>>)
  BY <1>1, <1>2, UnderChild
<1>4. <<i>> \in Seq(Nat) /\ Nodes(t)
  BY ChildRoot, TermFacts
<1>5. Nodes(At(t, <<i>>))
  BY <1>4, AtNodes
<1> QED
  BY <1>1, <1>3, <1>5, VarNodes

\* A variable is its only node.
LEMMA VarShape ==
  ASSUME NEW t, IsTerm(t), IsVar(t)
  PROVE  t = {<<<< >>, Root(t)>>} /\ VarsOf(t) = {Root(t)}
<1>1. Arity(Root(t)) = 0
  BY DEF Arity, IsVar
<1>2. t = {<<<< >>, Root(t)>>}
  BY <1>1, Leaf
<1>3. \A v : v \in VarsOf(t) <=> v = Root(t)
  <2> SUFFICES ASSUME NEW v PROVE v \in VarsOf(t) <=> v = Root(t)
    OBVIOUS
  <2>1. v \in VarsOf(t) <=> v[1] = "var" /\ \E q \in Seq(Nat) : <<q, v>> \in t
    BY TermFacts, VarNodes
  <2>2. (\E q \in Seq(Nat) : <<q, v>> \in t) <=> v = Root(t)
    BY <1>2, EmptySeq
  <2> QED
    BY <2>1, <2>2 DEF IsVar
<1> QED
  BY <1>2, <1>3

LEMMA ImageOfVar ==
  ASSUME NEW t, IsTerm(t), IsVar(t), NEW s, GroundSubst(s)
  PROVE  /\ Root(t) \in DOMAIN s => Apply(s, t) = s[Root(t)]
         /\ Root(t) \notin DOMAIN s => Apply(s, t) = t
<1> DEFINE n == <<<< >>, Root(t)>>
<1>1. t = {n} /\ n[2] = Root(t) /\ n[1] = << >>
  BY VarShape
<1> HIDE DEF n
<1>2. CASE Root(t) \in DOMAIN s
  <2> DEFINE u == s[Root(t)]
  <2>1. Nodes(u)
    BY <1>2, TermFacts DEF GroundSubst
  <2>2. Apply(s, t) = {<<n[1] \o m[1], m[2]>> : m \in u}
    BY <1>1, <1>2 DEF Apply
  <2> HIDE DEF u
  <2>3. \A m \in u : <<n[1] \o m[1], m[2]>> = m
    BY <1>1, <2>1, ConcatEmptySeq DEF Nodes
  <2>4. {<<n[1] \o m[1], m[2]>> : m \in u} = u
    BY <2>3
  <2> QED
    BY <1>2, <2>2, <2>4 DEF u
<1>3. CASE Root(t) \notin DOMAIN s
  BY <1>1, <1>3 DEF Apply
<1> QED
  BY <1>2, <1>3

LEMMA ImageRoot ==
  ASSUME NEW t, IsTerm(t), NEW s, GroundSubst(s), ~IsVar(t)
  PROVE  Root(Apply(s, t)) = Root(t) /\ Root(t) \notin DOMAIN s
<1>1. Root(t) \notin DOMAIN s
  BY DEF GroundSubst, IsVar
<1>2. << >> \in Seq(Nat) /\ <<<< >>, Root(t)>> \in t /\ Nodes(t)
  BY EmptySeq, TermFacts
<1>3. InImage(s, t, << >>, Root(t))
  BY <1>1, <1>2 DEF InImage
<1>4. <<<< >>, Root(t)>> \in Apply(s, t) /\ IsTerm(Apply(s, t))
  BY <1>2, <1>3, ApplyNodes, ImageIsTerm
<1> QED
  BY <1>1, <1>4, TermFacts

\* Lists and dicts are equal when their children are.
LEMMA SameChildren ==
  ASSUME NEW t, IsTerm(t), NEW u, IsTerm(u), Root(t) = Root(u),
         \A i \in 1 .. Arity(Root(t)) : At(t, <<i>>) = At(u, <<i>>)
  PROVE  t = u
<1>1. ASSUME NEW x, IsTerm(x), NEW y, IsTerm(y), Root(x) = Root(y),
             \A i \in 1 .. Arity(Root(x)) : At(x, <<i>>) = At(y, <<i>>),
             NEW p \in Seq(Nat), NEW l, <<p, l>> \in x
      PROVE  <<p, l>> \in y
  <2>1. CASE p = << >>
    BY <1>1, <2>1, TermFacts
  <2>2. CASE p # << >>
    <3>1. PICK i \in 1 .. Arity(Root(x)), q \in Seq(Nat) : p = <<i>> \o q /\ <<q, l>> \in At(x, <<i>>)
      BY <1>1, <2>2, UnderChild
    <3>2. <<i>> \in Seq(Nat) /\ Nodes(y)
      BY <1>1, ChildRoot, TermFacts
    <3>3. <<q, l>> \in At(y, <<i>>)
      BY <1>1, <3>1
    <3> QED
      BY <3>1, <3>2, <3>3, AtNodes
  <2> QED
    BY <2>1, <2>2
<1>2. \A p \in Seq(Nat) : \A l : <<p, l>> \in t <=> <<p, l>> \in u
  BY <1>1
<1> QED
  BY <1>2, TermFacts, NodesEqual

\* A list or a dict becomes u exactly when its children become those of u.
LEMMA ImageOfChildren ==
  ASSUME NEW t, IsTerm(t), ~IsVar(t), NEW u, IsTerm(u), Root(t) = Root(u), NEW s, GroundSubst(s)
  PROVE  Apply(s, t) = u
           <=> \A i \in 1 .. Arity(Root(t)) : Apply(s, At(t, <<i>>)) = At(u, <<i>>)
<1> DEFINE a == Apply(s, t)
<1>1. IsTerm(a) /\ Root(a) = Root(t) /\ Root(t) \notin DOMAIN s
  BY ImageIsTerm, ImageRoot
<1>2. \A i \in 1 .. Arity(Root(t)) : At(a, <<i>>) = Apply(s, At(t, <<i>>))
  BY <1>1, ApplyChild, ChildRoot
<1> HIDE DEF a
<1>3. (\A i \in 1 .. Arity(Root(t)) : At(a, <<i>>) = At(u, <<i>>)) => a = u
  BY <1>1, SameChildren
<1> QED
  BY <1>2, <1>3 DEF a

--------------------------------------------------------------------------------
(* One call of unify.                                                           *)

\* The ways to bind the variables of a goal to parts of a fact.
Ways(g, f) == [VarsOf(g) -> Subterms(f)]

\* The nodes of f from a place down.
Cone(f, p) == {n \in f : \E q \in Seq(Nat) : n[1] = p \o q}

SubstOk(g, f, s) ==
  /\ s = [v \in DOMAIN s |-> s[v]]
  /\ GroundSubst(s) /\ DOMAIN s \subseteq VarsOf(g) /\ \A v \in DOMAIN s : s[v] \in Subterms(f)

PairOk(g, f, pair, p) ==
  /\ pair = <<pair[1], At(f, p)>>
  /\ IsTerm(pair[1]) /\ VarsOf(pair[1]) \subseteq VarsOf(g)
  /\ p \in Seq(Nat) /\ \E l : <<p, l>> \in f

Meets(s, todo) == \A i \in 1 .. Len(todo) : Apply(s, todo[i][1]) = todo[i][2]

\* The pairs that are left each compare a part of the goal with what is at a
\* place of the fact, no place twice; the solutions are those of the pairs that
\* agree with the bindings; and there are places left for the calls to come.
Pending(g, f, todo, subst, places, n) ==
  /\ (\E S : todo \in Seq(S)) /\ places \in Seq(Seq(Nat)) /\ Len(todo) = Len(places)
  /\ SubstOk(g, f, subst)
  /\ \A i \in 1 .. Len(todo) : PairOk(g, f, todo[i], places[i])
  /\ \A v \in VarsOf(g) : v \in DOMAIN subst \/ \E i \in 1 .. Len(todo) : v \in VarsOf(todo[i][1])
  /\ \A s \in Ways(g, f) : Apply(s, g) = f <=> Extends(s, subst) /\ Meets(s, todo)
  /\ \A i, j \in 1 .. Len(todo) : i # j => Cone(f, places[i]) \cap Cone(f, places[j]) = {}
  /\ \E R : /\ IsFiniteSet(R) /\ Cardinality(R) + n <= MaxPairs
            /\ \A i \in 1 .. Len(todo) : Cone(f, places[i]) \subseteq R

LEMMA Spliced ==
  ASSUME NEW S, NEW c \in Seq(S), NEW T, NEW todo \in Seq(T), todo # << >>,
         NEW r, r = c \o Tail(todo), NEW k, k = Len(c)
  PROVE  /\ r \in Seq(S \union T) /\ Len(r) = k + Len(todo) - 1
         /\ k \in Nat /\ Len(todo) \in Nat \ {0}
         /\ \A i \in 1 .. k : i \in 1 .. Len(r) /\ r[i] = c[i]
         /\ \A i \in 2 .. Len(todo) : k + i - 1 \in 1 .. Len(r) /\ r[k + i - 1] = todo[i]
         /\ \A i \in 1 .. Len(r) :
              i \in 1 .. k \/ (i - k + 1 \in 2 .. Len(todo) /\ r[i] = todo[i - k + 1])
<1> DEFINE t == Tail(todo)
<1>1. /\ t \in Seq(T) /\ Len(t) = Len(todo) - 1 /\ Len(todo) \in Nat \ {0} /\ k \in Nat
      /\ \A i \in 1 .. Len(t) : t[i] = todo[i + 1]
  BY HeadTailProperties, EmptySeq, LenProperties
<1> HIDE DEF t
<1>2. c \in Seq(S \union T) /\ t \in Seq(S \union T)
  <2>1. \A i \in 1 .. Len(c) : c[i] \in S \union T
    BY ElementOfSeq
  <2>2. \A i \in 1 .. Len(t) : t[i] \in S \union T
    BY <1>1, ElementOfSeq
  <2>3. c = [i \in 1 .. Len(c) |-> c[i]] /\ t = [i \in 1 .. Len(t) |-> t[i]]
    BY <1>1, LenProperties
  <2> QED
    BY <1>1, <2>1, <2>2, IsASeq, LenProperties
<1>3. /\ r \in Seq(S \union T) /\ Len(r) = k + Len(t)
      /\ \A i \in 1 .. k + Len(t) : r[i] = IF i <= k THEN c[i] ELSE t[i - k]
  <2> DEFINE U == S \union T
  <2>1. r = c \o t
    BY DEF t
  <2>2. c \in Seq(U) /\ t \in Seq(U)
    BY <1>2
  <2> HIDE DEF U
  <2>3. /\ c \o t \in Seq(U) /\ Len(c \o t) = Len(c) + Len(t)
        /\ \A i \in 1 .. Len(c) + Len(t) : (c \o t)[i] = IF i <= Len(c) THEN c[i] ELSE t[i - Len(c)]
    BY <2>2, ConcatProperties
  <2> QED
    BY <2>1, <2>3 DEF U
<1>4. \A i \in 1 .. k : i \in 1 .. Len(r) /\ r[i] = c[i]
  BY <1>1, <1>3
<1>5. \A i \in 2 .. Len(todo) : k + i - 1 \in 1 .. Len(r) /\ r[k + i - 1] = todo[i]
  <2> SUFFICES ASSUME NEW i \in 2 .. Len(todo)
               PROVE  k + i - 1 \in 1 .. Len(r) /\ r[k + i - 1] = todo[i]
    OBVIOUS
  <2> DEFINE j == k + i - 1
  <2>1. j \in 1 .. k + Len(t) /\ ~(j <= k) /\ j - k \in 1 .. Len(t) /\ (j - k) + 1 = i
    BY <1>1
  <2> HIDE DEF j
  <2>2. r[j] = t[j - k] /\ t[j - k] = todo[(j - k) + 1]
    BY <1>1, <1>3, <2>1
  <2>3. j \in 1 .. Len(r) /\ r[j] = todo[i]
    BY <1>3, <2>1, <2>2
  <2> QED
    BY <2>3 DEF j
<1>6. \A i \in 1 .. Len(r) :
        i \in 1 .. k \/ (i - k + 1 \in 2 .. Len(todo) /\ r[i] = todo[i - k + 1])
  <2> SUFFICES ASSUME NEW i \in 1 .. Len(r), i \notin 1 .. k
               PROVE  i - k + 1 \in 2 .. Len(todo) /\ r[i] = todo[i - k + 1]
    OBVIOUS
  <2>1. i \in 1 .. k + Len(t) /\ ~(i <= k) /\ i - k \in 1 .. Len(t) /\ i - k + 1 \in 2 .. Len(todo)
    BY <1>1, <1>3
  <2>2. r[i] = t[i - k] /\ t[i - k] = todo[(i - k) + 1]
    BY <1>1, <1>3, <2>1
  <2> QED
    BY <2>1, <2>2
<1>7. Len(r) = k + Len(todo) - 1
  BY <1>1, <1>3
<1> QED
  BY <1>1, <1>3, <1>4, <1>5, <1>6, <1>7

\* The first pair has been replaced by the pairs c.
LEMMA Replaced ==
  ASSUME NEW g, NEW f, NEW todo, NEW subst, NEW places, NEW n \in Nat,
         Pending(g, f, todo, subst, places, n), todo # << >>,
         NEW S, NEW c \in Seq(S), NEW cp \in Seq(Seq(Nat)), Len(cp) = Len(c),
         NEW subst2, SubstOk(g, f, subst2), DOMAIN subst \subseteq DOMAIN subst2,
         \A i \in 1 .. Len(c) : PairOk(g, f, c[i], cp[i]),
         NEW h \in Cone(f, places[1]),
         \A i \in 1 .. Len(c) : Cone(f, cp[i]) \subseteq Cone(f, places[1]) \ {h},
         \A i, j \in 1 .. Len(c) : i # j => Cone(f, cp[i]) \cap Cone(f, cp[j]) = {},
         \A v \in VarsOf(todo[1][1]) :
           v \in DOMAIN subst2 \/ \E i \in 1 .. Len(c) : v \in VarsOf(c[i][1]),
         \A s \in Ways(g, f) :
           Extends(s, subst) /\ Apply(s, todo[1][1]) = todo[1][2]
             <=> Extends(s, subst2) /\ Meets(s, c),
         MaxPairs \in Nat
  PROVE  Pending(g, f, c \o Tail(todo), subst2, cp \o Tail(places), n + 1)
<1> DEFINE k == Len(c)
           r == c \o Tail(todo)
           rp == cp \o Tail(places)
<1>1. PICK T : todo \in Seq(T)
  BY DEF Pending
<1>2. /\ r \in Seq(S \union T) /\ Len(r) = k + Len(todo) - 1
      /\ k \in Nat /\ Len(todo) \in Nat \ {0}
      /\ \A i \in 1 .. k : i \in 1 .. Len(r) /\ r[i] = c[i]
      /\ \A i \in 2 .. Len(todo) : k + i - 1 \in 1 .. Len(r) /\ r[k + i - 1] = todo[i]
      /\ \A i \in 1 .. Len(r) :
           i \in 1 .. k \/ (i - k + 1 \in 2 .. Len(todo) /\ r[i] = todo[i - k + 1])
  BY <1>1, Spliced
<1>3. places \in Seq(Seq(Nat)) /\ Len(todo) = Len(places) /\ places # << >>
  <2>1. places \in Seq(Seq(Nat)) /\ Len(todo) = Len(places)
    BY DEF Pending
  <2> QED
    BY <1>2, <2>1, EmptySeq
<1>4. /\ rp \in Seq(Seq(Nat) \union Seq(Nat)) /\ Len(rp) = k + Len(places) - 1
      /\ \A i \in 1 .. k : i \in 1 .. Len(rp) /\ rp[i] = cp[i]
      /\ \A i \in 2 .. Len(places) : k + i - 1 \in 1 .. Len(rp) /\ rp[k + i - 1] = places[i]
      /\ \A i \in 1 .. Len(rp) :
           i \in 1 .. k \/ (i - k + 1 \in 2 .. Len(places) /\ rp[i] = places[i - k + 1])
  <2> DEFINE V == Seq(Nat)
  <2>1. k = Len(cp) /\ rp = cp \o Tail(places) /\ cp \in Seq(V) /\ places \in Seq(V)
    BY <1>3
  <2> HIDE DEF k, rp, V
  <2>2. /\ rp \in Seq(V \union V) /\ Len(rp) = k + Len(places) - 1
        /\ \A i \in 1 .. k : i \in 1 .. Len(rp) /\ rp[i] = cp[i]
        /\ \A i \in 2 .. Len(places) : k + i - 1 \in 1 .. Len(rp) /\ rp[k + i - 1] = places[i]
        /\ \A i \in 1 .. Len(rp) :
             i \in 1 .. k \/ (i - k + 1 \in 2 .. Len(places) /\ rp[i] = places[i - k + 1])
    BY ONLY <1>3, <2>1, Spliced
  <2> QED
    BY <2>2 DEF V
<1>5. rp \in Seq(Seq(Nat)) /\ Len(rp) = Len(r)
  BY <1>2, <1>3, <1>4
<1> HIDE DEF r, rp, k
\* Each pair is one of c, or an old one that was not the first.
<1>6. \A i \in 1 .. Len(r) :
        \/ i \in 1 .. k /\ r[i] = c[i] /\ rp[i] = cp[i]
        \/ /\ i - k + 1 \in 2 .. Len(todo)
           /\ r[i] = todo[i - k + 1] /\ rp[i] = places[i - k + 1]
  BY <1>2, <1>3, <1>4, <1>5
<1>7. \A i \in 2 .. Len(todo) : i \in 1 .. Len(todo) /\ i # 1
  BY <1>2
<1>8. 1 \in 1 .. Len(todo)
  BY <1>2
<1>9. \A i \in 1 .. Len(r) : PairOk(g, f, r[i], rp[i])
  BY <1>6, <1>7 DEF Pending, k
<1>10. \A v \in VarsOf(g) : v \in DOMAIN subst2 \/ \E i \in 1 .. Len(r) : v \in VarsOf(r[i][1])
  <2> SUFFICES ASSUME NEW v \in VarsOf(g), v \notin DOMAIN subst2
               PROVE  \E i \in 1 .. Len(r) : v \in VarsOf(r[i][1])
    OBVIOUS
  <2>1. PICK i \in 1 .. Len(todo) : v \in VarsOf(todo[i][1])
    BY DEF Pending
  <2>2. CASE i = 1
    BY <1>2, <2>1, <2>2 DEF k
  <2>3. CASE i # 1
    <3>1. i \in 2 .. Len(todo)
      BY <1>2, <2>3
    <3> QED
      BY <1>2, <2>1, <3>1
  <2> QED
    BY <2>2, <2>3
<1>11. ASSUME NEW s \in Ways(g, f)
       PROVE  Apply(s, g) = f <=> Extends(s, subst2) /\ Meets(s, r)
  <2>1. Apply(s, g) = f <=> Extends(s, subst) /\ Meets(s, todo)
    BY DEF Pending
  <2> DEFINE Rest == \A i \in 2 .. Len(todo) : Apply(s, todo[i][1]) = todo[i][2]
  <2>2. Meets(s, todo) <=> Apply(s, todo[1][1]) = todo[1][2] /\ Rest
    <3>1. \A i \in 1 .. Len(todo) : i = 1 \/ i \in 2 .. Len(todo)
      BY <1>2
    <3> QED
      BY <1>7, <1>8, <3>1 DEF Meets
  <2>3. Meets(s, r) <=> Meets(s, c) /\ Rest
    <3>1. Meets(s, r) => Meets(s, c) /\ Rest
      <4>1. ASSUME Meets(s, r) PROVE Meets(s, c)
        BY <1>2, <4>1 DEF Meets, k
      <4>2. ASSUME Meets(s, r), NEW i \in 2 .. Len(todo) PROVE Apply(s, todo[i][1]) = todo[i][2]
        <5>1. k + i - 1 \in 1 .. Len(r) /\ r[k + i - 1] = todo[i]
          BY <1>2
        <5> QED
          BY <4>2, <5>1 DEF Meets
      <4> QED
        BY <4>1, <4>2
    <3>2. Meets(s, c) /\ Rest => Meets(s, r)
      <4> SUFFICES ASSUME Meets(s, c), Rest, NEW i \in 1 .. Len(r)
                   PROVE  Apply(s, r[i][1]) = r[i][2]
        BY DEF Meets
      <4>1. CASE i \in 1 .. k /\ r[i] = c[i]
        BY <4>1 DEF Meets, k
      <4>2. CASE i - k + 1 \in 2 .. Len(todo) /\ r[i] = todo[i - k + 1]
        BY <4>2
      <4> QED
        BY <1>6, <4>1, <4>2
    <3> QED
      BY <3>1, <3>2
  <2> HIDE DEF Rest
  <2>4. Extends(s, subst) /\ Apply(s, todo[1][1]) = todo[1][2] <=> Extends(s, subst2) /\ Meets(s, c)
    OBVIOUS
  <2> QED
    BY <2>1, <2>2, <2>3, <2>4
<1>12. \A i, j \in 1 .. Len(todo) : i # j => Cone(f, places[i]) \cap Cone(f, places[j]) = {}
  BY DEF Pending
<1>13. ASSUME NEW i \in 1 .. Len(r), NEW j \in 1 .. Len(r), i # j
       PROVE  Cone(f, rp[i]) \cap Cone(f, rp[j]) = {}
  <2>1. CASE i \in 1 .. k /\ j \in 1 .. k
    BY <1>4, <1>13, <2>1 DEF k
  <2>2. ASSUME NEW a \in 1 .. k, NEW b \in 2 .. Len(todo)
        PROVE  Cone(f, cp[a]) \cap Cone(f, places[b]) = {}
    <3>1. Cone(f, places[1]) \cap Cone(f, places[b]) = {}
      BY <1>7, <1>8, <1>12
    <3>2. Cone(f, cp[a]) \subseteq Cone(f, places[1])
      BY DEF k
    <3> QED
      BY <3>1, <3>2
  <2>3. ASSUME i - k + 1 \in 2 .. Len(todo), j - k + 1 \in 2 .. Len(todo)
        PROVE  Cone(f, places[i - k + 1]) \cap Cone(f, places[j - k + 1]) = {}
    <3>1. i - k + 1 # j - k + 1
      BY <1>2, <1>13
    <3> QED
      BY <1>7, <1>12, <2>3, <3>1
  <2> QED
    BY <1>6, <2>1, <2>2, <2>3
<1>14. \E R : /\ IsFiniteSet(R) /\ Cardinality(R) + (n + 1) <= MaxPairs
              /\ \A i \in 1 .. Len(r) : Cone(f, rp[i]) \subseteq R
  <2>1. PICK R : /\ IsFiniteSet(R) /\ Cardinality(R) + n <= MaxPairs
                 /\ \A i \in 1 .. Len(todo) : Cone(f, places[i]) \subseteq R
    BY DEF Pending
  <2>2. h \in R
    BY <1>8, <2>1
  <2>3. IsFiniteSet(R \ {h}) /\ Cardinality(R \ {h}) = Cardinality(R) - 1 /\ Cardinality(R) \in Nat
    BY <2>1, <2>2, FS_RemoveElement, FS_CardinalityType
  <2>4. ASSUME NEW i \in 1 .. Len(r) PROVE Cone(f, rp[i]) \subseteq R \ {h}
    <3>1. CASE i \in 1 .. k
      <4>1. Cone(f, rp[i]) \subseteq Cone(f, places[1]) \ {h}
        BY <1>4, <3>1 DEF k
      <4> QED
        BY <1>8, <2>1, <4>1
    <3>2. CASE i - k + 1 \in 2 .. Len(todo) /\ rp[i] = places[i - k + 1]
      <4> DEFINE j == i - k + 1
      <4>1. j \in 1 .. Len(todo) /\ j # 1 /\ rp[i] = places[j]
        BY <1>7, <3>2
      <4> HIDE DEF j
      <4>2. Cone(f, places[1]) \cap Cone(f, places[j]) = {} /\ Cone(f, places[j]) \subseteq R
        BY <1>8, <1>12, <2>1, <4>1
      <4> QED
        BY <4>1, <4>2
    <3> QED
      BY <1>6, <3>1, <3>2
  <2>5. Cardinality(R \ {h}) + (n + 1) <= MaxPairs
    BY <2>1, <2>3
  <2> QED
    BY <2>3, <2>4, <2>5
<1>15. Pending(g, f, r, subst2, rp, n + 1)
  BY <1>2, <1>5, <1>9, <1>10, <1>11, <1>13, <1>14 DEF Pending
<1> QED
  BY <1>15 DEF r, rp

\* A pair is next: its goal and fact, and what they compare.
Turn(g, f, todo, subst, places, n) ==
  /\ IsTerm(g) /\ IsTerm(f) /\ IsGround(f)
  /\ Pending(g, f, todo, subst, places, n) /\ todo # << >>
  /\ n \in Nat /\ MaxPairs \in Nat

LEMMA PartOfFact ==
  ASSUME NEW f, IsTerm(f), IsGround(f), NEW p \in Seq(Nat), NEW l, <<p, l>> \in f
  PROVE  /\ IsTerm(At(f, p)) /\ IsGround(At(f, p)) /\ ~IsVar(At(f, p))
         /\ At(f, p) \in Subterms(f)
<1>1. IsTerm(At(f, p))
  BY SubtermIsTerm
<1>2. IsGround(At(f, p))
  BY VarsOfAt, TermFacts DEF IsGround
<1>3. ~IsVar(At(f, p))
  <2> DEFINE u == At(f, p)
  <2> HIDE DEF u
  <2>1. IsTerm(u) /\ VarsOf(u) = {}
    BY <1>1, <1>2 DEF IsGround, u
  <2>2. ASSUME IsVar(u) PROVE FALSE
    <3>1. VarsOf(u) = {Root(u)}
      BY <2>1, <2>2, VarShape
    <3> QED
      BY <2>1, <3>1
  <2> QED
    BY <2>2 DEF u
<1>4. At(f, p) \in Subterms(f)
  <2> DEFINE n == <<p, l>>
  <2>1. n \in f /\ n[1] = p
    OBVIOUS
  <2> HIDE DEF n
  <2> QED
    BY <2>1 DEF Subterms
<1> QED
  BY <1>1, <1>2, <1>3, <1>4

LEMMA WayIsGround ==
  ASSUME NEW g, NEW f, IsTerm(f), IsGround(f), NEW s \in Ways(g, f)
  PROVE  GroundSubst(s) /\ DOMAIN s = VarsOf(g)
<1>1. \A u \in Subterms(f) : IsTerm(u) /\ IsGround(u)
  <2> SUFFICES ASSUME NEW n \in f PROVE IsTerm(At(f, n[1])) /\ IsGround(At(f, n[1]))
    BY DEF Subterms
  <2>1. n = <<n[1], n[2]>> /\ n[1] \in Seq(Nat)
    BY TermFacts DEF Nodes
  <2> QED
    BY <2>1, PartOfFact
<1>2. DOMAIN s = VarsOf(g) /\ \A v \in VarsOf(g) : s[v] \in Subterms(f)
  BY DEF Ways
<1>3. \A v \in VarsOf(g) : v[1] = "var"
  BY DEF VarsOf
<1> QED
  BY <1>1, <1>2, <1>3 DEF GroundSubst

LEMMA TurnFacts ==
  ASSUME NEW g, NEW f, NEW todo, NEW subst, NEW places, NEW n,
         Turn(g, f, todo, subst, places, n),
         NEW u, u = At(f, places[1]), NEW t, t = Apply(subst, todo[1][1])
  PROVE  /\ Head(todo) = <<todo[1][1], u>> /\ todo[1][2] = u
         /\ IsTerm(todo[1][1]) /\ VarsOf(todo[1][1]) \subseteq VarsOf(g)
         /\ IsTerm(u) /\ IsGround(u) /\ ~IsVar(u) /\ u \in Subterms(f) /\ Apply(subst, u) = u
         /\ IsTerm(t) /\ VarsOf(t) = VarsOf(todo[1][1]) \ DOMAIN subst
         /\ places[1] \in Seq(Nat) /\ \E h \in Cone(f, places[1]) : h[1] = places[1]
         /\ \A s \in Ways(g, f) :
              /\ GroundSubst(s) /\ DOMAIN s = VarsOf(g)
              /\ Extends(s, subst) => Apply(s, t) = Apply(s, todo[1][1])
<1> DEFINE x == todo[1][1]
<1>1. PICK T : todo \in Seq(T)
  BY DEF Turn, Pending
<1>2. 1 \in 1 .. Len(todo) /\ Head(todo) = todo[1]
  BY <1>1, EmptySeq DEF Turn
<1>3. PairOk(g, f, todo[1], places[1]) /\ SubstOk(g, f, subst)
  BY <1>2 DEF Turn, Pending
<1>4. PICK l : <<places[1], l>> \in f
  BY <1>3 DEF PairOk
<1>5. IsTerm(u) /\ IsGround(u) /\ ~IsVar(u) /\ u \in Subterms(f)
  BY <1>3, <1>4, PartOfFact DEF Turn, PairOk
<1>6. Apply(subst, u) = u
  BY <1>3, <1>5, ApplyGround DEF SubstOk
<1>7. IsTerm(x) /\ Nodes(x) /\ GroundSubst(subst)
  BY <1>3, TermFacts DEF PairOk, SubstOk
<1>8. IsTerm(t) /\ VarsOf(t) = VarsOf(x) \ DOMAIN subst
  BY <1>7, ImageIsTerm, ApplyVars
<1>9. \E h \in Cone(f, places[1]) : h[1] = places[1]
  <2> DEFINE h == <<places[1], l>>
  <2>1. h \in f /\ h[1] = places[1] /\ << >> \in Seq(Nat) /\ places[1] \o << >> = places[1]
    BY <1>3, <1>4, EmptySeq, ConcatEmptySeq DEF PairOk
  <2> HIDE DEF h
  <2>2. h \in Cone(f, places[1])
    BY <2>1 DEF Cone
  <2> QED
    BY <2>1, <2>2
<1>10. \A s \in Ways(g, f) :
         /\ GroundSubst(s) /\ DOMAIN s = VarsOf(g)
         /\ Extends(s, subst) => Apply(s, t) = Apply(s, x)
  BY <1>7, WayIsGround, ApplyTwice DEF Turn
<1>11. Head(todo) = <<x, u>> /\ todo[1][2] = u
  <2>1. todo[1] = <<x, u>>
    BY <1>3 DEF PairOk
  <2> QED
    BY <1>2, <2>1
<1> QED
  BY <1>3, <1>5, <1>6, <1>7, <1>8, <1>9, <1>10, <1>11 DEF PairOk

\* The pair is equal.
LEMMA EqualTurn ==
  ASSUME NEW g, NEW f, NEW todo, NEW subst, NEW places, NEW n,
         Turn(g, f, todo, subst, places, n),
         NEW t, t = Apply(subst, todo[1][1]), NEW u, u = At(f, places[1])
  PROVE  t = u => Pending(g, f, << >> \o Tail(todo), subst, << >> \o Tail(places), n + 1)
<1> DEFINE x == todo[1][1]
           c == << >>
<1>1. /\ todo[1][2] = u /\ IsGround(u) /\ VarsOf(t) = VarsOf(x) \ DOMAIN subst
      /\ \A s \in Ways(g, f) :
           /\ GroundSubst(s) /\ DOMAIN s = VarsOf(g)
           /\ Extends(s, subst) => Apply(s, t) = Apply(s, x)
      /\ \E h \in Cone(f, places[1]) : h[1] = places[1]
  BY TurnFacts
<1> HAVE t = u
<1>2. PICK h \in Cone(f, places[1]) : h[1] = places[1]
  BY <1>1
<1>3. c \in Seq({}) /\ c \in Seq(Seq(Nat)) /\ Len(c) = 0
  BY EmptySeq
<1> HIDE DEF c, x
<1>4. \A i \in 1 .. Len(c) : FALSE
  BY <1>3
<1>5. \A v \in VarsOf(x) : v \in DOMAIN subst
  BY <1>1 DEF IsGround
<1>6. \A s \in Ways(g, f) :
        Extends(s, subst) /\ Apply(s, x) = u <=> Extends(s, subst) /\ Meets(s, c)
  BY <1>1, <1>4, ApplyGround DEF Meets
<1>7. /\ Pending(g, f, todo, subst, places, n) /\ todo # << >> /\ n \in Nat /\ MaxPairs \in Nat
      /\ SubstOk(g, f, subst) /\ DOMAIN subst \subseteq DOMAIN subst
  BY DEF Turn, Pending
<1>8. \A v \in VarsOf(todo[1][1]) :
        v \in DOMAIN subst \/ \E i \in 1 .. Len(c) : v \in VarsOf(c[i][1])
  BY <1>5 DEF x
<1>9. \A s \in Ways(g, f) :
        Extends(s, subst) /\ Apply(s, todo[1][1]) = todo[1][2]
          <=> Extends(s, subst) /\ Meets(s, c)
  BY <1>1, <1>6 DEF x
<1>10. Pending(g, f, c \o Tail(todo), subst, c \o Tail(places), n + 1)
  BY <1>2, <1>3, <1>4, <1>7, <1>8, <1>9, Replaced
<1> QED
  BY <1>10 DEF c

\* The part of the goal is a variable without a binding: it is bound.
LEMMA VarTurn ==
  ASSUME NEW g, NEW f, NEW todo, NEW subst, NEW places, NEW n,
         Turn(g, f, todo, subst, places, n),
         NEW t, t = Apply(subst, todo[1][1]), IsVar(t),
         NEW u, u = At(f, places[1])
  PROVE  \E b : /\ Bind(subst, Root(t), u) = {b}
                /\ Pending(g, f, << >> \o Tail(todo), b, << >> \o Tail(places), n + 1)
<1> DEFINE x == todo[1][1]
           r == Root(t)
           b == [v \in DOMAIN subst \union {r} |-> IF v = r THEN u ELSE subst[v]]
           c == << >>
<1>1. /\ todo[1][2] = u /\ IsTerm(x) /\ VarsOf(x) \subseteq VarsOf(g)
      /\ IsTerm(u) /\ IsGround(u) /\ u \in Subterms(f)
      /\ IsTerm(t) /\ VarsOf(t) = VarsOf(x) \ DOMAIN subst
      /\ \A s \in Ways(g, f) :
           /\ GroundSubst(s) /\ DOMAIN s = VarsOf(g)
           /\ Extends(s, subst) => Apply(s, t) = Apply(s, x)
      /\ \E h \in Cone(f, places[1]) : h[1] = places[1]
  BY TurnFacts, SMTT(40)
<1>2. PICK h \in Cone(f, places[1]) : h[1] = places[1]
  BY <1>1
<1>3. /\ Pending(g, f, todo, subst, places, n) /\ todo # << >> /\ n \in Nat /\ MaxPairs \in Nat
      /\ SubstOk(g, f, subst)
  BY DEF Turn, Pending
<1>4. r[1] = "var" /\ VarsOf(t) = {r}
  BY <1>1, VarShape DEF IsVar
<1> HIDE DEF x, r
<1>5. r \in VarsOf(x) /\ r \in VarsOf(g) /\ r \notin DOMAIN subst
  BY <1>1, <1>4
<1>6. VarsOf(x) \subseteq DOMAIN subst \union {r}
  BY <1>1, <1>4
<1>7. Bind(subst, r, u) = {b}
  <2>1. ~OccursCheck(r, u)
    BY <1>1, <1>4 DEF OccursCheck, IsGround, VarsOf
  <2> QED
    BY <2>1 DEF Bind
<1>8. /\ DOMAIN b = DOMAIN subst \union {r} /\ b[r] = u
      /\ \A v \in DOMAIN subst : b[v] = subst[v]
      /\ b = [v \in DOMAIN b |-> b[v]]
  BY <1>5
<1> HIDE DEF b
<1>9. SubstOk(g, f, b)
  BY <1>1, <1>3, <1>4, <1>5, <1>8 DEF SubstOk, GroundSubst
<1>10. c \in Seq({}) /\ c \in Seq(Seq(Nat)) /\ Len(c) = 0
  BY EmptySeq
<1> HIDE DEF c
<1>11. \A i \in 1 .. Len(c) : FALSE
  BY <1>10
<1>12. ASSUME NEW s \in Ways(g, f)
       PROVE  Extends(s, subst) /\ Apply(s, x) = u <=> Extends(s, b) /\ Meets(s, c)
  <2>1. GroundSubst(s) /\ r \in DOMAIN s
    BY <1>1, <1>5
  <2>2. Apply(s, t) = s[r]
    BY <1>1, <2>1, ImageOfVar DEF r
  <2>3. Extends(s, b) <=> Extends(s, subst) /\ s[r] = u
    BY <1>8, <2>1 DEF Extends
  <2> QED
    BY <1>1, <1>11, <2>2, <2>3 DEF Meets
<1>13. /\ DOMAIN subst \subseteq DOMAIN b
       /\ \A v \in VarsOf(todo[1][1]) : v \in DOMAIN b \/ \E i \in 1 .. Len(c) : v \in VarsOf(c[i][1])
  BY <1>6, <1>8 DEF x
<1>14. \A s \in Ways(g, f) :
         Extends(s, subst) /\ Apply(s, todo[1][1]) = todo[1][2] <=> Extends(s, b) /\ Meets(s, c)
  BY <1>1, <1>12 DEF x
<1>15. Pending(g, f, c \o Tail(todo), b, c \o Tail(places), n + 1)
  BY <1>2, <1>3, <1>9, <1>10, <1>11, <1>13, <1>14, Replaced
<1> QED
  BY <1>7, <1>15 DEF c, r

LEMMA SeqOfFunction ==
  ASSUME NEW S, NEW k \in Nat, NEW e \in [1 .. k -> S]
  PROVE  e \in Seq(S) /\ Len(e) = k
OBVIOUS

\* The part of the goal is a list or a dict of the same shape: its children are next.
LEMMA ChildrenTurn ==
  ASSUME NEW g, NEW f, NEW todo, NEW subst, NEW places, NEW n,
         Turn(g, f, todo, subst, places, n),
         NEW t, t = Apply(subst, todo[1][1]), NEW u, u = At(f, places[1]),
         Root(t) = Root(u)
  PROVE  \E cp : Pending(g, f, Children(t, u) \o Tail(todo), subst, cp \o Tail(places), n + 1)
<1> DEFINE x == todo[1][1]
           p == places[1]
           k == Arity(Root(t))
           c == Children(t, u)
           cp == [i \in 1 .. k |-> p \o <<i>>]
<1>1. /\ todo[1][2] = u /\ IsTerm(x) /\ VarsOf(x) \subseteq VarsOf(g)
      /\ IsTerm(u) /\ ~IsVar(u)
      /\ IsTerm(t) /\ VarsOf(t) = VarsOf(x) \ DOMAIN subst
      /\ p \in Seq(Nat)
      /\ \A s \in Ways(g, f) :
           /\ GroundSubst(s) /\ DOMAIN s = VarsOf(g)
           /\ Extends(s, subst) => Apply(s, t) = Apply(s, x)
      /\ \E h \in Cone(f, p) : h[1] = p
  BY TurnFacts
<1>2. PICK h \in Cone(f, p) : h[1] = p
  BY <1>1
<1>3. /\ Pending(g, f, todo, subst, places, n) /\ todo # << >> /\ n \in Nat /\ MaxPairs \in Nat
      /\ SubstOk(g, f, subst) /\ DOMAIN subst \subseteq DOMAIN subst /\ IsTerm(f)
  BY DEF Turn, Pending
<1>4. k \in Nat /\ Nodes(t) /\ Nodes(u) /\ Nodes(f) /\ ~IsVar(t)
  BY <1>1, <1>3, TermFacts DEF IsVar
<1>5. \A i \in 1 .. k : /\ i \in Nat /\ <<i>> \in Seq(Nat) /\ p \o <<i>> \in Seq(Nat)
                        /\ \E l : <<<<i>>, l>> \in t
                        /\ \E l : <<<<i>>, l>> \in u
                        /\ At(u, <<i>>) = At(f, p \o <<i>>)
  <2> SUFFICES ASSUME NEW i \in 1 .. k
               PROVE  /\ i \in Nat /\ <<i>> \in Seq(Nat) /\ p \o <<i>> \in Seq(Nat)
                      /\ \E l : <<<<i>>, l>> \in t
                      /\ \E l : <<<<i>>, l>> \in u
                      /\ At(u, <<i>>) = At(f, p \o <<i>>)
    OBVIOUS
  <2>1. i \in Nat /\ <<i>> \in Seq(Nat) /\ (\E l : <<<<i>>, l>> \in t) /\ \E l : <<<<i>>, l>> \in u
    BY <1>1, ChildRoot
  <2> DEFINE q == <<i>>
  <2>2. q \in Seq(Nat)
    BY <2>1
  <2> HIDE DEF q, p
  <2>3. p \o q \in Seq(Nat) /\ At(At(f, p), q) = At(f, p \o q)
    BY <1>1, <1>4, <2>2, Below, AtAt
  <2> QED
    BY <2>1, <2>3 DEF q, p
<1>6. c = [i \in 1 .. k |-> <<At(t, <<i>>), At(u, <<i>>)>>]
  BY DEF Children
<1> HIDE DEF c
<1>7. /\ Len(c) = k /\ c \in Seq({c[i] : i \in 1 .. k})
      /\ \A i \in 1 .. k : c[i][1] = At(t, <<i>>) /\ c[i][2] = At(u, <<i>>) /\ c[i] = <<c[i][1], c[i][2]>>
  <2>1. \A i \in 1 .. k : c[i] = <<At(t, <<i>>), At(u, <<i>>)>>
    BY <1>6
  <2>2. c \in [1 .. k -> {c[i] : i \in 1 .. k}]
    BY <1>6
  <2>3. Len(c) = k /\ c \in Seq({c[i] : i \in 1 .. k})
    <3> DEFINE S == {c[i] : i \in 1 .. k}
    <3>1. c \in [1 .. k -> S]
      BY <2>2
    <3> HIDE DEF S, k
    <3>2. c \in Seq(S) /\ Len(c) = k
      BY <1>4, <3>1, SeqOfFunction
    <3> QED
      BY <3>2 DEF S
  <2> HIDE DEF k
  <2> QED
    BY <2>1, <2>3
<1>8. /\ cp \in Seq(Seq(Nat)) /\ Len(cp) = k /\ \A i \in 1 .. k : cp[i] = p \o <<i>>
  <2>1. cp \in [1 .. k -> Seq(Nat)] /\ \A i \in 1 .. k : cp[i] = p \o <<i>>
    BY <1>5
  <2> HIDE DEF cp, k
  <2>2. cp \in Seq(Seq(Nat)) /\ Len(cp) = k
    BY <1>4, <2>1, SeqOfFunction
  <2> QED
    BY <2>1, <2>2
<1> HIDE DEF cp, k, x, p
<1>9. \A i \in 1 .. k : PairOk(g, f, c[i], cp[i])
  <2> SUFFICES ASSUME NEW i \in 1 .. k PROVE PairOk(g, f, c[i], cp[i])
    OBVIOUS
  <2>1. /\ c[i] = <<At(t, <<i>>), At(u, <<i>>)>> /\ c[i][1] = At(t, <<i>>)
        /\ cp[i] = p \o <<i>> /\ At(u, <<i>>) = At(f, p \o <<i>>)
        /\ cp[i] \in Seq(Nat) /\ <<i>> \in Seq(Nat)
    BY <1>5, <1>7, <1>8
  <2>2. IsTerm(At(t, <<i>>)) /\ VarsOf(At(t, <<i>>)) \subseteq VarsOf(g)
    <3>1. IsTerm(At(t, <<i>>))
      BY <1>1, <1>5, SubtermIsTerm
    <3>2. VarsOf(At(t, <<i>>)) \subseteq VarsOf(t)
      BY <1>4, <2>1, VarsOfAt
    <3> QED
      BY <1>1, <3>1, <3>2
  <2>3. \E l : <<cp[i], l>> \in f
    <3>1. PICK l : <<<<i>>, l>> \in u
      BY <1>5
    <3> DEFINE q == <<i>>
    <3>2. q \in Seq(Nat) /\ <<q, l>> \in At(f, p)
      BY <2>1, <3>1 DEF p
    <3> HIDE DEF q
    <3>3. <<p \o q, l>> \in f
      BY <1>1, <1>4, <3>2, AtNodes
    <3> QED
      BY <2>1, <3>3 DEF q
  <2> QED
    BY <2>1, <2>2, <2>3 DEF PairOk
\* What is below a child is below the pair, and below no other child.
<1>10. ASSUME NEW i \in 1 .. k, NEW m \in Cone(f, cp[i])
       PROVE  m \in f /\ \E q \in Seq(Nat) : m[1] = p \o (<<i>> \o q) /\ <<i>> \o q \in Seq(Nat)
  <2>1. PICK q \in Seq(Nat) : m \in f /\ m[1] = cp[i] \o q
    BY <1>10 DEF Cone
  <2> DEFINE b == <<i>>
  <2>2. b \in Seq(Nat) /\ p \in Seq(Nat) /\ cp[i] = p \o b
    BY <1>1, <1>5, <1>8
  <2> HIDE DEF b
  <2>3. (p \o b) \o q = p \o (b \o q)
    BY <2>2, Assoc
  <2>4. b \o q \in Seq(Nat)
    BY <2>2, Below
  <2> QED
    BY <2>1, <2>2, <2>3, <2>4 DEF b
<1>11. \A i \in 1 .. k : Cone(f, cp[i]) \subseteq Cone(f, p) \ {h}
  <2> SUFFICES ASSUME NEW i \in 1 .. k, NEW m \in Cone(f, cp[i]) PROVE m \in Cone(f, p) /\ m # h
    OBVIOUS
  <2>1. PICK q \in Seq(Nat) : m \in f /\ m[1] = p \o (<<i>> \o q) /\ <<i>> \o q \in Seq(Nat)
    BY <1>10
  <2>2. m \in Cone(f, p)
    BY <2>1 DEF Cone
  <2>3. ASSUME m = h PROVE FALSE
    <3> DEFINE z == <<i>> \o q
    <3>1. z \in Seq(Nat) /\ z # << >> /\ p \o z = p
      BY <1>2, <1>5, <2>1, <2>3, OneStep
    <3> HIDE DEF z
    <3>2. z = << >>
      BY <1>1, <3>1, ConcatSimplifications
    <3> QED
      BY <3>1, <3>2
  <2> QED
    BY <2>2, <2>3
<1>12. \A i, j \in 1 .. k : i # j => Cone(f, cp[i]) \cap Cone(f, cp[j]) = {}
  <2> SUFFICES ASSUME NEW i \in 1 .. k, NEW j \in 1 .. k, NEW m, m \in Cone(f, cp[i]), m \in Cone(f, cp[j])
               PROVE  i = j
    OBVIOUS
  <2>1. PICK q \in Seq(Nat) : m[1] = p \o (<<i>> \o q) /\ <<i>> \o q \in Seq(Nat)
    BY <1>10
  <2>2. PICK r \in Seq(Nat) : m[1] = p \o (<<j>> \o r) /\ <<j>> \o r \in Seq(Nat)
    BY <1>10
  <2> DEFINE y == <<i>> \o q
             z == <<j>> \o r
  <2>3. y \in Seq(Nat) /\ z \in Seq(Nat) /\ p \o y = p \o z
    BY <2>1, <2>2
  <2> HIDE DEF y, z
  <2>4. y = z
    BY <1>1, <2>3, ConcatSimplifications
  <2> QED
    BY <1>5, <2>4, SameStep DEF y, z
<1>13. ASSUME NEW v \in VarsOf(x)
       PROVE  v \in DOMAIN subst \/ \E i \in 1 .. k : v \in VarsOf(c[i][1])
  <2> SUFFICES ASSUME v \notin DOMAIN subst PROVE \E i \in 1 .. k : v \in VarsOf(c[i][1])
    OBVIOUS
  <2>1. v \in VarsOf(t)
    BY <1>1
  <2>2. PICK i \in 1 .. k : v \in VarsOf(At(t, <<i>>))
    BY <1>1, <1>4, <2>1, VarsOfChildren DEF k
  <2> QED
    BY <1>7, <2>2
<1>14. ASSUME NEW s \in Ways(g, f)
       PROVE  Extends(s, subst) /\ Apply(s, x) = u <=> Extends(s, subst) /\ Meets(s, c)
  <2>1. GroundSubst(s) /\ (Extends(s, subst) => Apply(s, t) = Apply(s, x))
    BY <1>1
  <2>2. Apply(s, t) = u <=> \A i \in 1 .. k : Apply(s, At(t, <<i>>)) = At(u, <<i>>)
    BY <1>1, <1>4, <2>1, ImageOfChildren DEF k
  <2>3. Meets(s, c) <=> \A i \in 1 .. k : Apply(s, At(t, <<i>>)) = At(u, <<i>>)
    BY <1>7 DEF Meets
  <2> QED
    BY <2>1, <2>2, <2>3
<1> DEFINE S == {c[i] : i \in 1 .. k}
<1>15. c \in Seq(S) /\ Len(cp) = Len(c) /\ k = Len(c) /\ h \in Cone(f, places[1])
  BY <1>2, <1>7, <1>8 DEF p
<1> HIDE DEF S
<1>16. /\ \A i \in 1 .. Len(c) : PairOk(g, f, c[i], cp[i])
       /\ \A i \in 1 .. Len(c) : Cone(f, cp[i]) \subseteq Cone(f, places[1]) \ {h}
       /\ \A i, j \in 1 .. Len(c) : i # j => Cone(f, cp[i]) \cap Cone(f, cp[j]) = {}
       /\ \A v \in VarsOf(todo[1][1]) :
            v \in DOMAIN subst \/ \E i \in 1 .. Len(c) : v \in VarsOf(c[i][1])
       /\ \A s \in Ways(g, f) :
            Extends(s, subst) /\ Apply(s, todo[1][1]) = todo[1][2]
              <=> Extends(s, subst) /\ Meets(s, c)
  BY <1>1, <1>9, <1>11, <1>12, <1>13, <1>14, <1>15 DEF x, p
<1>17. Pending(g, f, c \o Tail(todo), subst, cp \o Tail(places), n + 1)
  BY <1>3, <1>8, <1>15, <1>16, Replaced
<1> QED
  BY <1>17 DEF c

\* The pair differs at its roots: nothing makes the goal the fact.
LEMMA FailTurn ==
  ASSUME NEW g, NEW f, NEW todo, NEW subst, NEW places, NEW n,
         Turn(g, f, todo, subst, places, n),
         NEW t, t = Apply(subst, todo[1][1]), NEW u, u = At(f, places[1]),
         ~IsVar(t)
  PROVE  t # u /\ ~(IsCompound(t) /\ Root(t) = Root(u))
           => \A s \in Ways(g, f) : Apply(s, g) # f
<1>1. /\ todo[1][2] = u /\ IsTerm(todo[1][1]) /\ VarsOf(todo[1][1]) \subseteq VarsOf(g)
      /\ IsTerm(u) /\ ~IsVar(u)
      /\ IsTerm(t) /\ VarsOf(t) = VarsOf(todo[1][1]) \ DOMAIN subst
      /\ \A s \in Ways(g, f) :
           /\ GroundSubst(s) /\ DOMAIN s = VarsOf(g)
           /\ Extends(s, subst) => Apply(s, t) = Apply(s, todo[1][1])
  BY TurnFacts
<1> SUFFICES ASSUME t # u, ~(IsCompound(t) /\ Root(t) = Root(u)),
                    NEW s \in Ways(g, f), Apply(s, g) = f
             PROVE  FALSE
  OBVIOUS
<1>2. PICK T : todo \in Seq(T)
  BY DEF Turn, Pending
<1>3. 1 \in 1 .. Len(todo)
  BY <1>2, EmptySeq DEF Turn
<1>4. Extends(s, subst) /\ Apply(s, todo[1][1]) = u
  BY <1>1, <1>3 DEF Turn, Pending, Meets
<1>5. GroundSubst(s) /\ Apply(s, t) = u
  BY <1>1, <1>4
<1>6. Root(t) = Root(u)
  BY <1>1, <1>5, ImageRoot
<1>7. Arity(Root(t)) = 0
  BY <1>6 DEF IsCompound, Arity
<1>8. t = {<<<< >>, Root(t)>>} /\ u = {<<<< >>, Root(u)>>}
  BY <1>1, <1>6, <1>7, Leaf
<1> QED
  BY <1>6, <1>8

\* What is to be unified after n calls, if anything still is: at most one list
\* of pairs, and none only when the goal cannot become the fact.
Course(g, f, states, n) ==
  \/ states = {} /\ \A s \in Ways(g, f) : Apply(s, g) # f
  \/ \E todo, subst, places :
       states = {<<todo, subst>>} /\ Pending(g, f, todo, subst, places, n)

LEMMA OneCall ==
  ASSUME NEW g, NEW f, NEW todo, NEW subst, NEW places, NEW n,
         Turn(g, f, todo, subst, places, n)
  PROVE  Course(g, f, UnifyPair(todo, subst), n + 1)
<1> DEFINE t == Apply(subst, todo[1][1])
           u == At(f, places[1])
           After(pairs, substs) == {<<pairs \o Tail(todo), s>> : s \in substs}
<1>1. Head(todo)[1] = todo[1][1] /\ Head(todo)[2] = u /\ Apply(subst, u) = u /\ ~IsVar(u)
  BY TurnFacts
<1> HIDE DEF u
<1>2. UnifyPair(todo, subst) =
        IF t = u THEN After(<< >>, {subst})
        ELSE IF IsVar(t) THEN After(<< >>, Bind(subst, Root(t), u))
        ELSE IF IsCompound(t) /\ Root(t) = Root(u) THEN After(Children(t, u), {subst})
        ELSE {}
  BY <1>1 DEF UnifyPair
<1>3. \A pairs, s : After(pairs, {s}) = {<<pairs \o Tail(todo), s>>}
  OBVIOUS
<1> HIDE DEF t, After
<1>4. CASE t = u
  <2>1. Pending(g, f, << >> \o Tail(todo), subst, << >> \o Tail(places), n + 1)
    BY <1>4, EqualTurn DEF t, u
  <2>2. UnifyPair(todo, subst) = {<<<< >> \o Tail(todo), subst>>}
    BY <1>2, <1>3, <1>4
  <2> QED
    BY <2>1, <2>2 DEF Course
<1>5. CASE t # u /\ IsVar(t)
  <2>1. PICK b : /\ Bind(subst, Root(t), u) = {b}
                 /\ Pending(g, f, << >> \o Tail(todo), b, << >> \o Tail(places), n + 1)
    BY <1>5, VarTurn DEF t, u
  <2>2. UnifyPair(todo, subst) = {<<<< >> \o Tail(todo), b>>}
    BY <1>2, <1>3, <1>5, <2>1
  <2> QED
    BY <2>1, <2>2 DEF Course
<1>6. CASE t # u /\ ~IsVar(t) /\ IsCompound(t) /\ Root(t) = Root(u)
  <2>1. PICK cp : Pending(g, f, Children(t, u) \o Tail(todo), subst, cp \o Tail(places), n + 1)
    BY <1>6, ChildrenTurn DEF t, u
  <2>2. UnifyPair(todo, subst) = {<<Children(t, u) \o Tail(todo), subst>>}
    BY <1>2, <1>3, <1>6
  <2> QED
    BY <2>1, <2>2 DEF Course
<1>7. CASE t # u /\ ~IsVar(t) /\ ~(IsCompound(t) /\ Root(t) = Root(u))
  <2>1. \A s \in Ways(g, f) : Apply(s, g) # f
    BY <1>7, FailTurn DEF t, u
  <2>2. UnifyPair(todo, subst) = {}
    BY <1>2, <1>7
  <2> QED
    BY <2>1, <2>2 DEF Course
<1> QED
  BY <1>4, <1>5, <1>6, <1>7

\* The calls of unify, one after the other.
Calls(states) == UNION {IF m[1] = << >> THEN {m} ELSE UnifyPair(m[1], m[2]) : m \in states}

LEMMA NextCall ==
  ASSUME NEW g, IsTerm(g), NEW f, IsTerm(f), IsGround(f), MaxPairs \in Nat,
         NEW n \in Nat, n < MaxPairs, NEW states, Course(g, f, states, n)
  PROVE  Course(g, f, Calls(states), n + 1)
<1>1. CASE states = {} /\ \A s \in Ways(g, f) : Apply(s, g) # f
  BY <1>1 DEF Calls, Course
<1>2. ASSUME NEW todo, NEW subst, NEW places,
             states = {<<todo, subst>>}, Pending(g, f, todo, subst, places, n)
      PROVE  Course(g, f, Calls(states), n + 1)
  <2>1. Calls(states) = IF todo = << >> THEN states ELSE UnifyPair(todo, subst)
    <3> DEFINE m == <<todo, subst>>
    <3>1. m[1] = todo /\ m[2] = subst /\ states = {m}
      BY <1>2
    <3> HIDE DEF m
    <3> QED
      BY <3>1 DEF Calls
  <2>2. CASE todo # << >>
    <3>1. Turn(g, f, todo, subst, places, n)
      BY <1>2, <2>2 DEF Turn
    <3> QED
      BY <2>1, <2>2, <3>1, OneCall
  <2>3. CASE todo = << >>
    <3>1. Len(todo) = 0
      BY <2>3
    <3>2. IsFiniteSet({}) /\ Cardinality({}) = 0
      BY FS_EmptySet
    <3>3. Cardinality({}) + (n + 1) <= MaxPairs
      BY <3>2
    <3>4. \E R : /\ IsFiniteSet(R) /\ Cardinality(R) + (n + 1) <= MaxPairs
                 /\ \A i \in 1 .. Len(todo) : Cone(f, places[i]) \subseteq R
      BY <3>1, <3>2, <3>3
    <3>5. Pending(g, f, todo, subst, places, n + 1)
      BY <1>2, <3>4 DEF Pending
    <3> QED
      BY <1>2, <2>1, <2>3, <3>5 DEF Course
  <2> QED
    BY <2>2, <2>3
<1> QED
  BY <1>1, <1>2 DEF Course

\* Before the first call, the goal and the fact are the only pair.
LEMMA FirstCall ==
  ASSUME NEW g, IsTerm(g), NEW f, IsTerm(f), IsGround(f), MaxPairs \in Nat,
         IsFiniteSet(f), Cardinality(f) <= MaxPairs
  PROVE  Course(g, f, {<< << <<g, f>> >>, << >> >>}, 0)
<1> DEFINE todo == << <<g, f>> >>
           subst == << >>
           places == << << >> >>
<1>1. /\ todo \in Seq({<<g, f>>}) /\ Len(todo) = 1 /\ todo[1] = <<g, f>>
      /\ todo[1][1] = g /\ todo[1][2] = f
  OBVIOUS
<1>2. /\ places \in Seq(Seq(Nat)) /\ Len(places) = 1 /\ places[1] = << >> /\ << >> \in Seq(Nat)
  BY EmptySeq
<1>3. DOMAIN subst = {} /\ subst = [v \in DOMAIN subst |-> subst[v]]
  OBVIOUS
<1>4. Nodes(f) /\ At(f, << >>) = f /\ \E l : <<<< >>, l>> \in f
  BY TermFacts, AtRoot
<1> HIDE DEF todo, places, subst
<1>5. \A i \in 1 .. Len(todo) : i = 1
  BY <1>1
<1>6. 1 \in 1 .. Len(todo)
  BY <1>1
<1>7. \A i \in 1 .. Len(todo) : PairOk(g, f, todo[i], places[i])
  BY <1>1, <1>2, <1>4, <1>5 DEF PairOk
<1>8. SubstOk(g, f, subst)
  BY <1>3 DEF SubstOk, GroundSubst
<1>9. \A s \in Ways(g, f) : Apply(s, g) = f <=> Extends(s, subst) /\ Meets(s, todo)
  BY <1>1, <1>3, <1>5, <1>6 DEF Extends, Meets
<1>10. \A i \in 1 .. Len(todo) : Cone(f, places[i]) \subseteq f
  BY DEF Cone
<1>11. Cardinality(f) + 0 <= MaxPairs
  BY FS_CardinalityType
<1>12. Pending(g, f, todo, subst, places, 0)
  BY <1>1, <1>2, <1>5, <1>6, <1>7, <1>8, <1>9, <1>10, <1>11 DEF Pending
<1> QED
  BY <1>12 DEF Course, todo, subst


\* The calls, from the first one.
IsRun(a, g, f, m) ==
  a = [n \in 0 .. m |->
         IF n = 0 THEN {<< << <<g, f>> >>, << >> >>}
         ELSE UNION {IF x[1] = << >> THEN {x} ELSE UnifyPair(x[1], x[2]) : x \in a[n - 1]}]

LEMMA RunExists ==
  ASSUME NEW g, NEW f, NEW m \in Nat
  PROVE  \E a : IsRun(a, g, f, m)
<1> DEFINE First == {<< << <<g, f>> >>, << >> >>}
           T == {n \in Nat : \E a : IsRun(a, g, f, n)}
<1> HIDE DEF First
<1>0. \A a, n : IsRun(a, g, f, n) <=> a = [k \in 0 .. n |-> IF k = 0 THEN First ELSE Calls(a[k - 1])]
  BY DEF IsRun, Calls, First
<1>1. 0 \in T
  <2> DEFINE b == [k \in 0 .. 0 |-> First]
  <2>1. b = [k \in 0 .. 0 |-> IF k = 0 THEN First ELSE Calls(b[k - 1])]
    OBVIOUS
  <2> HIDE DEF b
  <2>2. IsRun(b, g, f, 0)
    BY <1>0, <2>1
  <2> QED
    BY <2>2
<1>2. ASSUME NEW n \in T PROVE n + 1 \in T
  <2>1. PICK a : IsRun(a, g, f, n)
    OBVIOUS
  <2>2. n \in Nat /\ \A k \in 0 .. n : a[k] = IF k = 0 THEN First ELSE Calls(a[k - 1])
    BY <1>0, <2>1
  <2> DEFINE b == [k \in 0 .. n + 1 |-> IF k = n + 1 THEN Calls(a[n]) ELSE a[k]]
  <2>3. ASSUME NEW k \in 0 .. n + 1
        PROVE  b[k] = IF k = 0 THEN First ELSE Calls(b[k - 1])
    <3>1. CASE k = n + 1
      <4>1. b[k] = Calls(a[n]) /\ k - 1 = n /\ k # 0 /\ n \in 0 .. n + 1 /\ n # n + 1
        BY <2>2, <3>1
      <4>2. b[n] = a[n]
        BY <4>1
      <4> HIDE DEF b
      <4> QED
        BY <4>1, <4>2
    <3>2. CASE k # n + 1 /\ k = 0
      <4>1. b[k] = a[k] /\ k \in 0 .. n
        BY <2>2, <3>2
      <4> HIDE DEF b
      <4> QED
        BY <2>2, <3>2, <4>1
    <3>3. CASE k # n + 1 /\ k # 0
      <4>1. k \in 0 .. n /\ k - 1 \in 0 .. n + 1 /\ k - 1 # n + 1
        BY <2>2, <3>3
      <4>2. b[k] = a[k] /\ b[k - 1] = a[k - 1]
        BY <3>3, <4>1
      <4> HIDE DEF b
      <4> QED
        BY <2>2, <3>3, <4>1, <4>2
    <3> QED
      BY <3>1, <3>2, <3>3
  <2>4. b = [k \in 0 .. n + 1 |-> b[k]]
    OBVIOUS
  <2> HIDE DEF b
  <2>5. b = [k \in 0 .. n + 1 |-> IF k = 0 THEN First ELSE Calls(b[k - 1])]
    BY <2>3, <2>4
  <2>6. IsRun(b, g, f, n + 1)
    BY <1>0, <2>5
  <2> QED
    BY <2>2, <2>6
<1>3. \A n \in Nat : n \in T
  <2>1. T \in SUBSET Nat
    OBVIOUS
  <2> HIDE DEF T
  <2> QED
    BY <1>1, <1>2, <2>1, SetInduction
<1> QED
  BY <1>3

LEMMA UnifyIs ==
  ASSUME NEW g, NEW f, MaxPairs \in Nat
  PROVE  \E a : /\ IsRun(a, g, f, MaxPairs)
                /\ Unify(g, f, << >>) = {m[2] : m \in {x \in a[MaxPairs] : x[1] = << >>}}
<1> DEFINE chosen == CHOOSE a : IsRun(a, g, f, MaxPairs)
<1>1. IsRun(chosen, g, f, MaxPairs)
  BY RunExists
<1>2. Unify(g, f, << >>) = {m[2] : m \in {x \in chosen[MaxPairs] : x[1] = << >>}}
  BY DEF Unify, IsRun
<1> QED
  BY <1>1, <1>2

\* The ways that unify returns are those that make the goal the fact.
LEMMA UnifyExact ==
  ASSUME NEW g, IsTerm(g), NEW f, IsTerm(f), IsGround(f), MaxPairs \in Nat,
         IsFiniteSet(f), Cardinality(f) <= MaxPairs
  PROVE  Unify(g, f, << >>) = {s \in [VarsOf(g) -> Subterms(f)] : Apply(s, g) = f}
<1>1. PICK a : /\ IsRun(a, g, f, MaxPairs)
               /\ Unify(g, f, << >>) = {m[2] : m \in {x \in a[MaxPairs] : x[1] = << >>}}
  BY UnifyIs
<1>2. \A n \in 0 .. MaxPairs :
        a[n] = IF n = 0 THEN {<< << <<g, f>> >>, << >> >>} ELSE Calls(a[n - 1])
  BY <1>1 DEF IsRun, Calls
<1> DEFINE T == {n \in Nat : n <= MaxPairs => Course(g, f, a[n], n)}
<1>3. 0 \in T
  <2>1. a[0] = {<< << <<g, f>> >>, << >> >>}
    BY <1>2
  <2> QED
    BY <2>1, FirstCall
<1>4. ASSUME NEW n \in T PROVE n + 1 \in T
  <2>1. n \in Nat
    OBVIOUS
  <2> SUFFICES ASSUME n + 1 <= MaxPairs PROVE Course(g, f, a[n + 1], n + 1)
    BY <2>1
  <2>2. Course(g, f, a[n], n) /\ n < MaxPairs
    BY <2>1
  <2>3. a[n + 1] = Calls(a[n])
    BY <1>2, <2>1
  <2>4. Course(g, f, Calls(a[n]), n + 1)
    BY <2>1, <2>2, NextCall
  <2> QED
    BY <2>3, <2>4
<1>5. Course(g, f, a[MaxPairs], MaxPairs)
  <2>1. T \in SUBSET Nat
    OBVIOUS
  <2> HIDE DEF T
  <2>2. MaxPairs \in T
    BY <1>3, <1>4, <2>1, SetInduction
  <2> QED
    BY <2>2 DEF T
<1>6. CASE a[MaxPairs] = {} /\ \A s \in Ways(g, f) : Apply(s, g) # f
  BY <1>1, <1>6 DEF Ways
<1>7. ASSUME NEW todo, NEW subst, NEW places,
             a[MaxPairs] = {<<todo, subst>>}, Pending(g, f, todo, subst, places, MaxPairs)
      PROVE  Unify(g, f, << >>) = {s \in [VarsOf(g) -> Subterms(f)] : Apply(s, g) = f}
  <2>1. PICK S : todo \in Seq(S)
    BY <1>7 DEF Pending
  \* Every place has been visited.
  <2>2. todo = << >>
    <3> SUFFICES ASSUME todo # << >> PROVE FALSE
      OBVIOUS
    <3>1. 1 \in 1 .. Len(todo)
      BY <2>1, EmptySeq
    <3>2. PICK R : /\ IsFiniteSet(R) /\ Cardinality(R) + MaxPairs <= MaxPairs
                   /\ \A i \in 1 .. Len(todo) : Cone(f, places[i]) \subseteq R
      BY <1>7 DEF Pending
    <3>3. Turn(g, f, todo, subst, places, MaxPairs)
      BY <1>7 DEF Turn
    <3>4. \E h : h \in Cone(f, places[1])
      BY <3>3, TurnFacts
    <3>5. R # {} /\ Cardinality(R) \in Nat
      BY <3>1, <3>2, <3>4, FS_CardinalityType
    <3>6. Cardinality(R) = 0
      BY <3>2, <3>5
    <3> QED
      BY <3>2, <3>5, <3>6, FS_EmptySet
  <2>3. Len(todo) = 0 /\ SubstOk(g, f, subst)
    BY <1>7, <2>2 DEF Pending
  <2>4. DOMAIN subst = VarsOf(g)
    <3>1. DOMAIN subst \subseteq VarsOf(g)
      BY <2>3 DEF SubstOk
    <3>2. \A v \in VarsOf(g) :
            v \in DOMAIN subst \/ \E i \in 1 .. Len(todo) : v \in VarsOf(todo[i][1])
      BY <1>7 DEF Pending
    <3>3. \A i \in 1 .. Len(todo) : FALSE
      BY <2>3
    <3> QED
      BY <3>1, <3>2, <3>3
  <2>5. Unify(g, f, << >>) = {subst}
    <3> DEFINE m == <<todo, subst>>
    <3>1. m[1] = << >> /\ m[2] = subst /\ a[MaxPairs] = {m}
      BY <1>7, <2>2
    <3> HIDE DEF m
    <3> QED
      BY <1>1, <3>1
  <2>6. subst \in Ways(g, f)
    BY <2>3, <2>4 DEF SubstOk, Ways
  <2>7. \A s \in Ways(g, f) : Apply(s, g) = f <=> Extends(s, subst)
    BY <1>7, <2>3 DEF Pending, Meets
  <2>8. \A s \in Ways(g, f) : Extends(s, subst) <=> s = subst
    BY <2>4, <2>6 DEF Extends, Ways
  <2> QED
    BY <2>5, <2>6, <2>7, <2>8 DEF Ways
<1> QED
  BY <1>5, <1>6, <1>7 DEF Course

--------------------------------------------------------------------------------
(* The queries.                                                                 *)

\* The base holds facts and rules of the constants.
KBInv ==
  /\ facts \in [FactIds -> SUBSET Facts]
  /\ rules \in [RuleIds -> SUBSET Rules]

LEMMA KBInvHolds == KBSpec => []KBInv
<1>1. KBInit => KBInv
  BY DEF KBInit, KBInv
<1>2. KBInv /\ [KBNext]_kbVars => KBInv'
  BY DEF KBInv, KBNext, kbVars, RetractFact, AssertFact, RegisterRule
<1> QED
  BY <1>1, <1>2, PTL DEF KBSpec

\* An empty substitution changes nothing.
LEMMA ApplyEmpty ==
  ASSUME NEW t
  PROVE  Apply(<< >>, t) = t
<1> DEFINE Image(n) == IF n[2] \in DOMAIN << >>
                       THEN {<<n[1] \o m[1], m[2]>> : m \in << >>[n[2]]} ELSE {n}
<1>1. \A n \in t : Image(n) = {n}
  OBVIOUS
<1>2. Apply(<< >>, t) = UNION {Image(n) : n \in t}
  BY DEF Apply
<1> HIDE DEF Image
<1>3. {Image(n) : n \in t} = {{n} : n \in t}
  BY <1>1
<1> QED
  BY <1>2, <1>3

\* A Fact itself unifies with no dict.
LEMMA ObjectFails ==
  ASSUME NEW c, NEW t, Root(t)[1] = "dict", MaxPairs \in Nat, MaxPairs # 0
  PROVE  Unify(Object(c), t, << >>) = {}
<1> DEFINE o == Object(c)
           todo == << <<o, t>> >>
           first == <<todo, << >> >>
<1>1. Root(o) = <<"object", c>>
  <2> DEFINE node == << << >>, <<"object", c>> >>
  <2>1. o = {node} /\ node[1] = << >> /\ node[2] = <<"object", c>>
    BY DEF Object
  <2> HIDE DEF o, node
  <2>2. (CHOOSE n \in o : n[1] = << >>) = node
    BY <2>1
  <2> QED
    BY <2>1, <2>2 DEF Root
<1>2. /\ o # t
      /\ ~IsVar(o) /\ ~IsVar(t) /\ ~IsCompound(o)
  BY <1>1 DEF IsVar, IsCompound
<1> HIDE DEF o
<1>3. UnifyPair(todo, << >>) = {}
  <2>1. todo # << >> /\ Head(todo)[1] = o /\ Head(todo)[2] = t
    OBVIOUS
  <2>2. Apply(<< >>, o) = o /\ Apply(<< >>, t) = t
    BY ApplyEmpty
  <2> HIDE DEF todo
  <2> QED
    BY <1>2, <2>1, <2>2 DEF UnifyPair
<1>4. PICK a : /\ IsRun(a, o, t, MaxPairs)
               /\ Unify(o, t, << >>) = {m[2] : m \in {x \in a[MaxPairs] : x[1] = << >>}}
  BY UnifyIs
<1>5. \A n \in 0 .. MaxPairs : a[n] = IF n = 0 THEN {first} ELSE Calls(a[n - 1])
  BY <1>4 DEF IsRun, Calls
<1>6. first[1] = todo /\ first[2] = << >> /\ todo # << >>
  OBVIOUS
<1> HIDE DEF first, todo
<1>7. Calls({first}) = {} /\ Calls({}) = {}
  BY <1>3, <1>6 DEF Calls
<1> DEFINE T == {n \in Nat : n # 0 /\ n <= MaxPairs => a[n] = {}}
<1>8. 0 \in T
  OBVIOUS
<1>9. ASSUME NEW n \in T PROVE n + 1 \in T
  <2> SUFFICES ASSUME n + 1 <= MaxPairs PROVE a[n + 1] = {}
    OBVIOUS
  <2>1. n \in 0 .. MaxPairs /\ n + 1 \in 0 .. MaxPairs /\ n + 1 # 0 /\ (n + 1) - 1 = n
    OBVIOUS
  <2>2. a[n + 1] = Calls(a[n])
    BY <1>5, <2>1
  <2>3. a[n] = {first} \/ a[n] = {}
    BY <1>5, <2>1
  <2> QED
    BY <1>7, <2>2, <2>3
<1>10. MaxPairs \in T
  <2>1. T \in SUBSET Nat
    OBVIOUS
  <2> HIDE DEF T
  <2> QED
    BY <1>8, <1>9, <2>1, SetInduction
<1> QED
  BY <1>4, <1>10 DEF o

\* No condition is proved, so that a rule gives its solutions when it has none.
LEMMA ConditionsFail ==
  ASSUME KBInv, NEW rule \in KnownRules, NEW subst
  PROVE  ProveConditions(rule.conditions, subst) = IF rule.conditions = << >> THEN {subst} ELSE {}
<1> DEFINE conditions == rule.conditions
<1>1. rule \in Rules /\ conditions \in Seq(Facts)
  BY KnowledgeAssumption DEF KBInv, KnownRules
<1>2. \A t \in AllKnown : t \in Facts \union Conclusions(Rules)
  BY DEF AllKnown, KnownFacts, KnownRules, KBInv, Conclusions
<1>3. ASSUME NEW c PROVE QueryCondition(c) = {}
  <2>1. ASSUME NEW t \in AllKnown PROVE Unify(Object(c), t, << >>) = {}
    <3>1. /\ IsTerm(t) /\ Root(t)[1] = "dict" /\ IsFiniteSet(t) /\ Cardinality(t) <= MaxPairs
          /\ MaxPairs \in Nat
      BY <1>2, KnowledgeAssumption
    <3>2. t # {}
      BY <3>1 DEF IsTerm
    <3>3. MaxPairs # 0
      BY <3>1, <3>2, FS_CardinalityType, FS_EmptySet
    <3> QED
      BY <3>1, <3>3, ObjectFails
  <2> QED
    BY <2>1 DEF QueryCondition
<1> DEFINE l == Len(conditions)
           Proved(a) == a = [n \in 0 .. l |->
                               IF n = 0 THEN {subst} ELSE UNION {QueryCondition(conditions[n]) : s \in a[n - 1]}]
           proved == CHOOSE a : Proved(a)
           all == [n \in 0 .. l |-> IF n = 0 THEN {subst} ELSE {}]
<1>4. l \in Nat
  BY <1>1
<1>5. ASSUME NEW a PROVE \A n \in 0 .. l : UNION {QueryCondition(conditions[n]) : s \in a[n - 1]} = {}
  BY <1>3
<1>6. Proved(all)
  BY <1>5
<1>7. Proved(proved)
  BY <1>6
<1>8. ProveConditions(conditions, subst) = proved[l]
  BY DEF ProveConditions
<1> HIDE DEF proved, l
<1>9. proved[l] = IF l = 0 THEN {subst} ELSE {}
  <2>1. l \in 0 .. l
    BY <1>4
  <2>2. proved[l] = IF l = 0 THEN {subst} ELSE UNION {QueryCondition(conditions[l]) : s \in proved[l - 1]}
    BY <1>7, <2>1
  <2> QED
    BY <1>5, <2>1, <2>2
<1>10. l = 0 <=> conditions = << >>
  BY <1>1, EmptySeq DEF l
<1> QED
  BY <1>8, <1>9, <1>10

\* Whatever the base is, what query finds are the exact ways to make the goal a fact, or
\* the conclusion of a rule without conditions, for those that have no variables, and
\* what unify finds for the others; a rule with conditions adds nothing.
THEOREM QueriesAnswerExactly == KBSpec => []AnswersExact
<1>1. KBInv => AnswersExact
  <2> SUFFICES ASSUME KBInv, NEW goal \in Goals
               PROVE  Query(goal) =
                        UNION {IF IsGround(t) THEN Solutions(goal, t) ELSE Unify(goal, t, << >>) :
                                 t \in Known}
    BY DEF AnswersExact
  <2> DEFINE U(f) == Unify(goal, f, << >>)
             W(t) == IF IsGround(t) THEN Solutions(goal, t) ELSE U(t)
             Q == {r \in KnownRules : r.conditions = << >>}
             C(r) == UNION {ProveConditions(r.conditions, s) : s \in U(r.conclusion)}
  <2>1. \A f \in Known : f \in Facts \union Conclusions(Rules)
    BY DEF Known, KnownFacts, KnownRules, KBInv, Conclusions
  <2>2. ASSUME NEW f \in Known PROVE U(f) = W(f)
    <3>1. CASE IsGround(f)
      <4>1. /\ IsTerm(goal) /\ IsTerm(f) /\ IsFiniteSet(f) /\ Cardinality(f) <= MaxPairs
            /\ MaxPairs \in Nat
        BY <2>1, KnowledgeAssumption
      <4> QED
        BY <3>1, <4>1, UnifyExact DEF Solutions
    <3>2. CASE ~IsGround(f)
      BY <3>2
    <3> QED
      BY <3>1, <3>2
  <2>3. ASSUME NEW r \in KnownRules PROVE C(r) = IF r \in Q THEN U(r.conclusion) ELSE {}
    <3>1. \A s : ProveConditions(r.conditions, s) = IF r.conditions = << >> THEN {s} ELSE {}
      BY ConditionsFail
    <3> HIDE DEF U
    <3>2. CASE r.conditions = << >>
      BY <3>1, <3>2
    <3>3. CASE r.conditions # << >>
      BY <3>1, <3>3
    <3> QED
      BY <3>2, <3>3
  <2>4. Query(goal) = (UNION {U(f) : f \in KnownFacts}) \union (UNION {C(r) : r \in KnownRules})
    BY DEF Query
  <2>5. Known = KnownFacts \union {r.conclusion : r \in Q}
    BY DEF Known, Conclusions
  <2>6. Q \subseteq KnownRules
    OBVIOUS
  <2> HIDE DEF U, W, Q, C
  <2>7. UNION {C(r) : r \in KnownRules} = UNION {U(r.conclusion) : r \in Q}
    BY <2>3, <2>6
  <2>8. Query(goal) = UNION {U(f) : f \in Known}
    BY <2>4, <2>5, <2>7
  <2>9. Query(goal) = UNION {W(f) : f \in Known}
    BY <2>2, <2>8
  <2> QED
    BY <2>9 DEF W, U
<1> QED
  BY <1>1, KBInvHolds, PTL
================================================================================
