--------------------------- MODULE EventOrderProofs ---------------------------
(***************************************************************************)
(* What EventStream keeps whatever fails: the types of its variables and   *)
(* the order in which a connection sends events.                           *)
(***************************************************************************)
EXTENDS EventStream, Integers, SequenceTheorems, WellFoundedInduction, TLAPS

\* A connection opens after one of the events A.
Opens(s, A) == \E a \in A : OpenAt(s, a)

\* A step of the server, whose connections may open after any of the events A:
\* what a client knows is EventStream's Seen, and ClientView's url.
ServerStep(A) ==
  \/ WorkerStep
  \/ \E s \in Streams : Opens(s, A) \/ Serve(s) \/ Disconnect(s)
  \/ Crash
  \/ Reconcile

\* A nonempty set of numbers has a least element.
LEMMA LeastExists ==
  ASSUME NEW S \in SUBSET Nat, S # {}
  PROVE  \E n \in S : \A m \in S : n <= m
<1> DEFINE Less == {p \in Nat \X Nat : p[1] < p[2]}
<1>1. IsWellFoundedOn(Less, Nat)
  BY NatLessThanWellFounded, Zenon DEF OpToRel
<1>2. PICK n \in S : \A m \in S : ~ (<<m, n>> \in Less)
  BY <1>1, WFMin
<1>3. ASSUME NEW m \in S PROVE n <= m
  <2>1. ~(m < n)
    BY <1>2
  <2> QED BY <2>1
<1> QED BY <1>3

\* A nonempty set of seqs has a greatest element.
LEMMA GreatestExists ==
  ASSUME NEW S \in SUBSET (1..MaxSeq), S # {}
  PROVE  \E m \in S : \A e \in S : e <= m
<1> DEFINE Gaps == {g \in Nat : MaxSeq - g \in S}
<1>1. \A e \in S : MaxSeq - e \in Gaps /\ e = MaxSeq - (MaxSeq - e)
  BY MaxSeqAssumption
<1>2. \E g \in Gaps : \A f \in Gaps : g <= f
  <2> HIDE DEF Gaps
  <2>1. Gaps # {}
    BY <1>1
  <2>2. Gaps \in SUBSET Nat
    BY DEF Gaps
  <2> QED BY <2>1, <2>2, LeastExists
<1>3. PICK g \in Gaps : \A f \in Gaps : g <= f
  BY <1>2
<1>4. ASSUME NEW e \in S PROVE e <= MaxSeq - g
  <2>1. g <= MaxSeq - e
    BY <1>1, <1>3
  <2> QED BY <2>1, MaxSeqAssumption
<1> QED BY <1>4

\* What get_events returns lies behind the event the client names, and
\* max_replayed_seq is no less than any of it.
LEMMA ReadBounds ==
  ASSUME TypeOK, NEW a \in 0..MaxSeq
  PROVE  /\ EventsAfter(a) \in SUBSET (1..MaxSeq)
         /\ LastSeq(a) \in 0..MaxSeq
         /\ \A e \in EventsAfter(a) : e <= LastSeq(a)
<1>1. EventsAfter(a) \in SUBSET (1..MaxSeq)
  BY DEF EventsAfter, TypeOK
<1>2. CASE EventsAfter(a) = {}
  BY <1>1, <1>2 DEF LastSeq
<1>3. CASE EventsAfter(a) # {}
  <2>1. \E m \in EventsAfter(a) : \A e \in EventsAfter(a) : e <= m
    BY <1>1, <1>3, GreatestExists
  <2>2. /\ LastSeq(a) \in EventsAfter(a)
        /\ \A e \in EventsAfter(a) : e <= LastSeq(a)
    BY <1>3, <2>1 DEF LastSeq
  <2> QED BY <1>1, <2>2
<1> QED BY <1>2, <1>3

\* No client has seen an event beyond the last one.
LEMMA SeenIsBounded == ASSUME TypeOK PROVE Seen \subseteq 0..MaxSeq
<1> SUFFICES ASSUME NEW a \in Seen PROVE a \in 0..MaxSeq
  OBVIOUS
<1>1. CASE a \in {0} \cup log
  BY <1>1, MaxSeqAssumption DEF TypeOK
<1>2. ASSUME NEW s \in Streams, NEW i \in DOMAIN sent[s], a = sent[s][i]
      PROVE  a \in 0..MaxSeq
  <2>1. sent[s] \in Seq(1..MaxSeq)
    BY DEF TypeOK
  <2>2. i \in 1..Len(sent[s])
    BY <2>1
  <2>3. sent[s][i] \in 1..MaxSeq
    BY <2>1, <2>2, ElementOfSeq
  <2> QED BY <1>2, <2>3
<1> QED BY <1>1, <1>2 DEF Seen

\* EventStream takes the steps of the server.
LEMMA NextIsServed == ASSUME TypeOK, [Next]_vars PROVE ServerStep(0..MaxSeq) \/ UNCHANGED vars
  BY SeenIsBounded DEF Next, ServerStep, Opens, Open

-----------------------------------------------------------------------------
(* Types.                                                                  *)

LEMMA TypeInit == ASSUME Init PROVE TypeOK
<1>1. seq \in 0..MaxSeq
  BY MaxSeqAssumption DEF Init
<1>2. <<>> \in Seq(0..MaxSeq) /\ <<>> \in Seq(1..MaxSeq)
  OBVIOUS
<1> QED BY <1>1, <1>2 DEF Init, TypeOK

LEMMA TypeStep ==
  ASSUME TypeOK, ServerStep(0..MaxSeq) \/ UNCHANGED vars
  PROVE  TypeOK'
<1> USE MaxSeqAssumption DEF TypeOK, workerVars, streamVars
<1>1. CASE EmitPersist
  <2>1. seq' = seq + 1 /\ seq + 1 \in 1..MaxSeq
    BY <1>1 DEF EmitPersist
  <2>2. log' \subseteq 1..MaxSeq
    BY <1>1, <2>1 DEF EmitPersist
  <2> QED BY <1>1, <2>1, <2>2 DEF EmitPersist
<1>2. CASE EmitPublish \/ Close
  <2>1. /\ \A s \in Streams : Append(queue[s], seq) \in Seq(0..MaxSeq)
        /\ \A s \in Streams : Append(queue[s], EndMark) \in Seq(0..MaxSeq)
    BY DEF EndMark
  <2>2. queue' \in [Streams -> Seq(0..MaxSeq)]
    BY <1>2, <2>1 DEF EmitPublish, Close, Delivered
  <2> QED BY <1>2, <2>2 DEF EmitPublish, Close
<1>3. CASE MarkFinished
  BY <1>3 DEF MarkFinished
<1>4. ASSUME NEW s \in Streams, NEW a \in 0..MaxSeq, OpenAt(s, a) PROVE TypeOK'
  <2>1. after' \in [Streams -> 0..MaxSeq]
    BY <1>4 DEF OpenAt
  <2>2. isTerminal' \in [Streams -> BOOLEAN]
    <3>1. CASE status = "terminal"
      BY <1>4, <3>1 DEF OpenAt
    <3>2. CASE status = "active"
      BY <1>4, <3>2 DEF OpenAt
    <3> QED BY <3>1, <3>2
  <2>3. spc' \in [Streams -> {"new", "opened", "subscribed", "stream",
                              "ended", "failed", "gone"}]
    BY <1>4 DEF OpenAt
  <2> QED BY <1>4, <2>1, <2>2, <2>3 DEF OpenAt
<1>5. ASSUME NEW s \in Streams, Subscribe(s) PROVE TypeOK'
  BY <1>5 DEF Subscribe
<1>6. ASSUME NEW s \in Streams, ReadHistory(s) PROVE TypeOK'
  <2>1. EventsAfter(after[s]) \in SUBSET (1..MaxSeq) /\ LastSeq(after[s]) \in 0..MaxSeq
    BY ReadBounds
  <2> QED BY <1>6, <2>1 DEF ReadHistory
<1>7. ASSUME NEW s \in Streams, Replay(s) PROVE TypeOK'
  <2>1. PICK e \in history[s] : /\ sent' = [sent EXCEPT ![s] = Append(@, e)]
                                /\ history' = [history EXCEPT ![s] = @ \ {e}]
    BY <1>7 DEF Replay
  <2>2. Append(sent[s], e) \in Seq(1..MaxSeq)
    BY <2>1
  <2>3. sent' \in [Streams -> Seq(1..MaxSeq)]
    BY <2>1, <2>2
  <2>4. history' \in [Streams -> SUBSET (1..MaxSeq)]
    BY <2>1
  <2> QED BY <1>7, <2>3, <2>4 DEF Replay
<1>8. ASSUME NEW s \in Streams, EndTerminal(s) \/ Disconnect(s) PROVE TypeOK'
  BY <1>8 DEF EndTerminal, Disconnect, Unsubscribed
<1>9. ASSUME NEW s \in Streams, Take(s) PROVE TypeOK'
  <2>1. queue[s] \in Seq(0..MaxSeq) /\ queue[s] # <<>>
    BY <1>9 DEF Take
  <2>2. Head(queue[s]) \in 0..MaxSeq /\ Tail(queue[s]) \in Seq(0..MaxSeq)
    BY <2>1
  <2>3. queue' \in [Streams -> Seq(0..MaxSeq)]
    BY <1>9, <2>2 DEF Take
  <2>4. sent' \in [Streams -> Seq(1..MaxSeq)]
    <3>1. CASE UNCHANGED sent
      BY <3>1
    <3>2. CASE /\ Head(queue[s]) # EndMark
               /\ sent' = [sent EXCEPT ![s] = Append(@, Head(queue[s]))]
      <4>1. Append(sent[s], Head(queue[s])) \in Seq(1..MaxSeq)
        BY <2>2, <3>2 DEF EndMark
      <4> QED BY <3>2, <4>1
    <3> QED BY <1>9, <3>1, <3>2 DEF Take
  <2>5. /\ spc' \in [Streams -> {"new", "opened", "subscribed", "stream",
                                 "ended", "failed", "gone"}]
        /\ subs' \subseteq Streams
    BY <1>9 DEF Take, Unsubscribed
  <2> QED BY <1>9, <2>3, <2>4, <2>5 DEF Take
<1>10. CASE Crash
  BY <1>10 DEF Crash
<1>11. CASE Reconcile
  BY <1>11 DEF Reconcile
<1>12. CASE UNCHANGED vars
  BY <1>12 DEF vars
<1> QED BY <1>1, <1>2, <1>3, <1>4, <1>5, <1>6, <1>7, <1>8, <1>9, <1>10, <1>11, <1>12
        DEF ServerStep, Opens, WorkerStep, Serve

\* Every variable of the stream keeps its type, whatever fails.
THEOREM TypeCorrect == Spec => []TypeOK
<1>1. TypeOK /\ [Next]_vars => TypeOK'
  BY NextIsServed, TypeStep
<1> QED BY TypeInit, <1>1, PTL DEF Spec

-----------------------------------------------------------------------------
(* Order.                                                                  *)

\* The number of events published so far.
Published == IF wpc = "publish" THEN seq - 1 ELSE seq

\* The worker publishes an event after it has counted and perhaps stored it.
CountInv == /\ log \subseteq 1..seq
            /\ wpc = "publish" => seq >= 1

Increasing(q) == \A i, j \in 1..Len(q) : i < j => q[i] < q[j]

\* An event lies before all those that wait in a queue.
Precedes(e, q) == \A k \in 1..Len(q) : q[k] = EndMark \/ e < q[k]

\* A queue is in order and holds nothing that was not published.
QueueOrder(s) ==
  /\ \A k \in 1..Len(queue[s]) : queue[s][k] <= Published
  /\ \A i, j \in 1..Len(queue[s]) :
       i < j => queue[s][j] = EndMark \/ queue[s][i] < queue[s][j]

\* What a connection has sent lies before its history, and before its queue
\* wherever the replay does not mask it.
SentOrder(s) ==
  /\ \A e \in history[s] : e <= maxReplayed[s]
  /\ \A i \in 1..Len(sent[s]) :
       /\ \A e \in history[s] : sent[s][i] < e
       /\ \/ sent[s][i] <= maxReplayed[s]
          \/ sent[s][i] <= Published /\ Precedes(sent[s][i], queue[s])

OrderInv(s) ==
  /\ Increasing(sent[s])
  /\ QueueOrder(s)
  /\ spc[s] \in {"new", "opened", "subscribed"} => sent[s] = <<>>
  /\ spc[s] = "stream" => SentOrder(s)

DeliveryInv == TypeOK /\ CountInv /\ \A s \in Streams : OrderInv(s)

\* The numbers that the model counts with.
LEMMA Numbers ==
  ASSUME TypeOK
  PROVE  /\ seq \in Nat /\ Published \in Int
         /\ \A s \in Streams :
              /\ queue[s] \in Seq(Nat) /\ Len(queue[s]) \in Nat
              /\ sent[s] \in Seq(Nat) /\ Len(sent[s]) \in Nat
              /\ history[s] \subseteq Nat /\ maxReplayed[s] \in Nat
<1>1. seq \in Nat /\ Published \in Int
  BY MaxSeqAssumption DEF TypeOK, Published
<1>2. 0..MaxSeq \subseteq Nat /\ 1..MaxSeq \subseteq Nat
  BY MaxSeqAssumption
<1>3. ASSUME NEW s \in Streams
      PROVE  /\ queue[s] \in Seq(Nat) /\ Len(queue[s]) \in Nat
             /\ sent[s] \in Seq(Nat) /\ Len(sent[s]) \in Nat
             /\ history[s] \subseteq Nat /\ maxReplayed[s] \in Nat
  <2>1. queue[s] \in Seq(0..MaxSeq) /\ sent[s] \in Seq(1..MaxSeq)
    BY DEF TypeOK
  <2>2. queue[s] \in Seq(Nat) /\ sent[s] \in Seq(Nat)
    BY <1>2, <2>1, SeqMonotonic
  <2> QED BY <1>2, <2>2, LenProperties DEF TypeOK
<1> QED BY <1>1, <1>3

\* An item goes behind the items of a sequence.
LEMMA AppendItem ==
  ASSUME NEW q \in Seq(Nat), NEW e \in Nat
  PROVE  /\ Len(q) \in Nat
         /\ Len(Append(q, e)) = Len(q) + 1
         /\ Append(q, e)[Len(q) + 1] = e
         /\ \A i \in 1..Len(q) : Append(q, e)[i] = q[i] /\ q[i] \in Nat
  OBVIOUS

\* A sequence goes on increasing when a greater item is appended.
LEMMA AppendGreater ==
  ASSUME NEW q \in Seq(Nat), NEW e \in Nat, Increasing(q),
         \A i \in 1..Len(q) : q[i] < e
  PROVE  Increasing(Append(q, e))
  BY AppendItem DEF Increasing

\* What a step of the worker does to the counters and to a queue.
LEMMA WorkerEffect ==
  ASSUME TypeOK, CountInv, WorkerStep, NEW s \in Streams
  PROVE  /\ UNCHANGED streamVars
         /\ \/ /\ UNCHANGED queue
               /\ Published <= Published'
            \/ \E e \in {EndMark, Published + 1} :
                 /\ e \in Nat
                 /\ e <= Published'
                 /\ Published <= Published'
                 /\ queue'[s] = IF s \in subs THEN Append(queue[s], e) ELSE queue[s]
<1> USE DEF workerVars, streamVars, Published, CountInv
<1>0. seq \in Nat
  BY Numbers
<1>1. CASE EmitPersist
  BY <1>0, <1>1 DEF EmitPersist
<1>2. CASE EmitPublish
  <2>1. queue'[s] = IF s \in subs THEN Append(queue[s], seq) ELSE queue[s]
    BY <1>2 DEF EmitPublish, Delivered, TypeOK
  <2>2. seq = Published + 1 /\ Published' = seq /\ UNCHANGED streamVars
    BY <1>0, <1>2 DEF EmitPublish
  <2> QED BY <1>0, <2>1, <2>2
<1>3. CASE MarkFinished
  BY <1>0, <1>3 DEF MarkFinished
<1>4. CASE Close
  <2>1. queue'[s] = IF s \in subs THEN Append(queue[s], EndMark) ELSE queue[s]
    BY <1>4 DEF Close, Delivered, TypeOK
  <2>2. Published' = Published /\ Published = seq /\ UNCHANGED streamVars
    BY <1>4 DEF Close
  <2> QED BY <1>0, <2>1, <2>2 DEF EndMark
<1> QED BY <1>1, <1>2, <1>3, <1>4 DEF WorkerStep

\* A published event goes behind those that wait, and behind all that were sent
\* from the queue before.
LEMMA OrderAppend ==
  ASSUME DeliveryInv, NEW s \in Streams, NEW e \in {EndMark, Published + 1}, e \in Nat,
         Published <= Published', Published' \in Int, e <= Published',
         queue'[s] = Append(queue[s], e),
         UNCHANGED <<spc[s], history[s], maxReplayed[s], sent[s]>>
  PROVE  OrderInv(s)'
<1> DEFINE q == queue[s]
<1>1. /\ q \in Seq(Nat) /\ Len(q) \in Nat /\ Published \in Int
      /\ sent[s] \in Seq(Nat) /\ Len(sent[s]) \in Nat
  BY Numbers DEF DeliveryInv
<1>2. OrderInv(s)
  BY DEF DeliveryInv
<1>3. /\ Len(queue'[s]) = Len(q) + 1
      /\ queue'[s][Len(q) + 1] = e
      /\ \A i \in 1..Len(q) : queue'[s][i] = q[i] /\ q[i] \in Nat
  BY <1>1, AppendItem
<1>4. QueueOrder(s)'
  <2>1. \A k \in 1..(Len(q) + 1) : queue'[s][k] <= Published'
    BY <1>1, <1>2, <1>3 DEF OrderInv, QueueOrder
  <2>2. ASSUME NEW i \in 1..(Len(q) + 1), NEW j \in 1..(Len(q) + 1), i < j
        PROVE  queue'[s][j] = EndMark \/ queue'[s][i] < queue'[s][j]
    <3>1. i \in 1..Len(q)
      BY <1>1, <2>2
    <3>2. CASE j \in 1..Len(q)
      BY <1>2, <1>3, <2>2, <3>1, <3>2 DEF OrderInv, QueueOrder
    <3>3. CASE j = Len(q) + 1
      BY <1>1, <1>2, <1>3, <3>1, <3>3 DEF OrderInv, QueueOrder
    <3> QED BY <1>1, <3>2, <3>3
  <2> QED BY <1>3, <2>1, <2>2 DEF QueueOrder
<1>5. SentOrder(s) => SentOrder(s)'
  <2> SUFFICES ASSUME SentOrder(s), NEW i \in 1..Len(sent[s]),
                      ~(sent[s][i] <= maxReplayed[s])
               PROVE  sent[s][i] <= Published' /\ Precedes(sent[s][i], queue'[s])
    BY DEF SentOrder, Precedes
  <2>1. sent[s][i] <= Published /\ Precedes(sent[s][i], q) /\ sent[s][i] \in Nat
    BY <1>1, ElementOfSeq DEF SentOrder
  <2>2. ASSUME NEW k \in 1..(Len(q) + 1)
        PROVE  queue'[s][k] = EndMark \/ sent[s][i] < queue'[s][k]
    <3>1. CASE k \in 1..Len(q)
      <4>1. queue'[s][k] = q[k]
        BY <1>3, <3>1
      <4> QED BY <2>1, <3>1, <4>1 DEF Precedes
    <3>2. CASE k = Len(q) + 1
      <4>1. queue'[s][k] = e
        BY <1>3, <3>2
      <4>2. CASE e = EndMark
        BY <4>1, <4>2
      <4>3. CASE e = Published + 1
        <5>1. sent[s][i] < Published + 1
          BY <1>1, <2>1
        <5> QED BY <4>1, <4>3, <5>1
      <4> QED BY <4>2, <4>3
    <3> QED BY <1>1, <3>1, <3>2
  <2>3. sent[s][i] <= Published'
    BY <1>1, <2>1
  <2>4. Precedes(sent[s][i], queue'[s])
    BY <1>3, <2>2 DEF Precedes
  <2> QED BY <2>3, <2>4
<1> QED BY <1>2, <1>4, <1>5 DEF OrderInv

\* Nothing that matters to a connection changes, except that the worker may
\* have gone on, or that the connection is over.
LEMMA OrderIdle ==
  ASSUME DeliveryInv, NEW s \in Streams, Published <= Published', Published' \in Int,
         UNCHANGED <<queue[s], history[s], maxReplayed[s], sent[s]>>,
         spc'[s] \in {spc[s], "ended", "failed", "gone"}
  PROVE  OrderInv(s)'
<1>1. /\ queue[s] \in Seq(Nat) /\ Published \in Int
      /\ sent[s] \in Seq(Nat)
  BY Numbers DEF DeliveryInv
<1>2. OrderInv(s)
  BY DEF DeliveryInv
<1>3. QueueOrder(s)'
  <2>1. ASSUME NEW k \in 1..Len(queue[s]) PROVE queue[s][k] <= Published'
    <3>1. queue[s][k] \in Nat /\ queue[s][k] <= Published
      BY <1>1, <1>2, ElementOfSeq DEF OrderInv, QueueOrder
    <3> QED BY <1>1, <3>1
  <2> QED BY <1>2, <2>1 DEF OrderInv, QueueOrder
<1>4. SentOrder(s) => SentOrder(s)'
  <2>1. ASSUME NEW i \in 1..Len(sent[s]), sent[s][i] <= Published
        PROVE  sent[s][i] <= Published'
    <3>1. sent[s][i] \in Nat
      BY <1>1, ElementOfSeq
    <3> QED BY <1>1, <2>1, <3>1
  <2> QED BY <2>1 DEF SentOrder, Precedes
<1> QED BY <1>2, <1>3, <1>4 DEF OrderInv, Increasing

\* The steps of the connection itself.
LEMMA OrderMoves ==
  ASSUME DeliveryInv, NEW s \in Streams,
         Opens(s, 0..MaxSeq) \/ Serve(s) \/ Disconnect(s)
  PROVE  OrderInv(s)'
<1> DEFINE q == queue[s]
<1>1. /\ q \in Seq(Nat) /\ Len(q) \in Nat /\ Published \in Int
      /\ sent[s] \in Seq(Nat) /\ Len(sent[s]) \in Nat
      /\ history[s] \subseteq Nat /\ maxReplayed[s] \in Nat
  BY Numbers DEF DeliveryInv
<1>2. OrderInv(s) /\ TypeOK
  BY DEF DeliveryInv
<1>3. UNCHANGED Published
  BY DEF Opens, OpenAt, Serve, Subscribe, ReadHistory, Replay, EndTerminal, Take, Disconnect,
         workerVars, Published
<1>4. CASE Opens(s, 0..MaxSeq) \/ Subscribe(s)
  <2>1. /\ UNCHANGED <<queue, sent>> /\ sent[s] = <<>>
        /\ spc'[s] \in {"opened", "subscribed"}
    BY <1>2, <1>4 DEF Opens, OpenAt, Subscribe, OrderInv, TypeOK
  <2> QED BY <1>2, <1>3, <2>1 DEF OrderInv, QueueOrder, Increasing
<1>5. CASE ReadHistory(s)
  <2>1. /\ UNCHANGED <<queue, sent>> /\ sent[s] = <<>>
        /\ spc'[s] \in {"stream", "failed"}
        /\ spc'[s] = "stream" => /\ history'[s] = EventsAfter(after[s])
                                /\ maxReplayed'[s] = LastSeq(after[s])
    BY <1>2, <1>5 DEF ReadHistory, OrderInv, TypeOK
  <2>2. \A e \in EventsAfter(after[s]) : e <= LastSeq(after[s])
    BY <1>2, ReadBounds DEF TypeOK
  <2>3. spc'[s] = "stream" => SentOrder(s)'
    BY <2>1, <2>2 DEF SentOrder
  <2> QED BY <1>2, <1>3, <2>1, <2>3 DEF OrderInv, QueueOrder, Increasing
<1>6. CASE Replay(s)
  <2>1. PICK e \in history[s] :
          /\ \A d \in history[s] : e <= d
          /\ sent' = [sent EXCEPT ![s] = Append(@, e)]
          /\ history' = [history EXCEPT ![s] = @ \ {e}]
    BY <1>6 DEF Replay
  <2>2. /\ spc[s] = "stream"
        /\ UNCHANGED <<queue, spc, maxReplayed>>
        /\ sent'[s] = Append(sent[s], e)
        /\ history'[s] = history[s] \ {e}
        /\ SentOrder(s)
    BY <1>2, <1>6, <2>1 DEF Replay, TypeOK, OrderInv
  <2>3. e \in Nat /\ \A i \in 1..Len(sent[s]) : sent[s][i] < e
    BY <1>1, <2>2 DEF SentOrder
  <2>4. Increasing(sent'[s])
    BY <1>1, <1>2, <2>2, <2>3, AppendGreater DEF OrderInv
  <2>5. SentOrder(s)'
    <3>1. /\ Len(sent'[s]) = Len(sent[s]) + 1
          /\ sent'[s][Len(sent[s]) + 1] = e
          /\ \A i \in 1..Len(sent[s]) : sent'[s][i] = sent[s][i]
      BY <1>1, <2>2, <2>3, AppendItem
    <3>2. ASSUME NEW d \in history'[s] PROVE d <= maxReplayed[s] /\ e < d
      <4>1. d \in Nat /\ d # e /\ e <= d
        BY <1>1, <2>1, <2>2
      <4> QED BY <2>2, <2>3, <4>1 DEF SentOrder
    <3>3. e <= maxReplayed[s]
      BY <2>2 DEF SentOrder
    <3>4. ASSUME NEW i \in 1..Len(sent'[s])
          PROVE  /\ \A d \in history'[s] : sent'[s][i] < d
                 /\ \/ sent'[s][i] <= maxReplayed'[s]
                    \/ sent'[s][i] <= Published' /\ Precedes(sent'[s][i], queue'[s])
      <4>1. CASE i = Len(sent[s]) + 1
        BY <2>2, <3>1, <3>2, <3>3, <4>1
      <4>2. CASE i \in 1..Len(sent[s])
        BY <1>3, <2>2, <3>1, <4>2 DEF SentOrder
      <4> QED BY <1>1, <3>1, <4>1, <4>2
    <3> QED BY <2>2, <3>2, <3>4 DEF SentOrder
  <2> QED BY <1>2, <1>3, <2>2, <2>4, <2>5 DEF OrderInv, QueueOrder
<1>7. CASE EndTerminal(s) \/ Disconnect(s)
  <2>1. /\ UNCHANGED <<queue, history, maxReplayed, sent>>
        /\ spc'[s] \in {"ended", "gone"}
    BY <1>2, <1>7 DEF EndTerminal, Disconnect, TypeOK
  <2> QED BY <1>1, <1>3, <2>1, OrderIdle
<1>8. CASE Take(s)
  <2> DEFINE e == Head(q)
  <2>1. /\ spc[s] = "stream" /\ q # <<>> /\ history[s] = {}
        /\ queue'[s] = Tail(q)
        /\ UNCHANGED <<history, maxReplayed>>
        /\ SentOrder(s) /\ QueueOrder(s)
    BY <1>2, <1>8 DEF Take, TypeOK, OrderInv
  <2>2. /\ Len(Tail(q)) = Len(q) - 1 /\ Len(q) >= 1
        /\ \A i \in 1..Len(Tail(q)) : Tail(q)[i] = q[i + 1] /\ i + 1 \in 1..Len(q)
        /\ e = q[1] /\ 1 \in 1..Len(q)
    BY <1>1, <2>1, HeadTailProperties
  <2>3. e \in Nat
    BY <1>1, <2>2, ElementOfSeq
  <2>4. QueueOrder(s)'
    <3>1. \A k \in 1..Len(Tail(q)) : Tail(q)[k] <= Published
      BY <2>1, <2>2 DEF QueueOrder
    <3>2. ASSUME NEW i \in 1..Len(Tail(q)), NEW j \in 1..Len(Tail(q)), i < j
          PROVE  Tail(q)[j] = EndMark \/ Tail(q)[i] < Tail(q)[j]
      <4>1. i + 1 \in 1..Len(q) /\ j + 1 \in 1..Len(q) /\ i + 1 < j + 1
        BY <2>2, <3>2
      <4> QED BY <2>1, <2>2, <4>1 DEF QueueOrder
    <3> QED BY <1>3, <2>1, <3>1, <3>2 DEF QueueOrder
  <2>5. \A x : Precedes(x, q) => Precedes(x, queue'[s])
    BY <2>1, <2>2 DEF Precedes
  <2>6. CASE UNCHANGED sent
    <3>1. SentOrder(s)'
      BY <1>3, <2>1, <2>5, <2>6 DEF SentOrder
    <3>2. spc'[s] \in {"stream", "ended"}
      BY <1>2, <1>8, <2>1 DEF Take, TypeOK
    <3> QED BY <1>2, <2>4, <2>6, <3>1, <3>2 DEF OrderInv
  <2>7. CASE /\ e # EndMark
             /\ ~AlreadySent(s, e)
             /\ sent' = [sent EXCEPT ![s] = Append(@, e)]
             /\ UNCHANGED spc
    <3>1. sent'[s] = Append(sent[s], e)
      BY <1>2, <2>7 DEF TypeOK
    <3>2. ASSUME NEW i \in 1..Len(sent[s]) PROVE sent[s][i] < e
      <4>1. sent[s][i] \in Nat
        BY <1>1, ElementOfSeq
      <4>2. CASE sent[s][i] <= maxReplayed[s]
        <5>1. ~(e <= maxReplayed[s])
          BY <2>7 DEF AlreadySent
        <5>2. maxReplayed[s] \in Int
          BY <1>1
        <5> QED BY <2>3, <4>1, <4>2, <5>1, <5>2
      <4>3. CASE Precedes(sent[s][i], q)
        BY <2>2, <2>7, <4>3 DEF Precedes
      <4> QED BY <2>1, <4>2, <4>3 DEF SentOrder
    <3>3. Increasing(sent'[s])
      BY <1>1, <1>2, <2>3, <3>1, <3>2, AppendGreater DEF OrderInv
    <3>4. e <= Published /\ Precedes(e, queue'[s])
      <4>1. e <= Published
        BY <2>1, <2>2 DEF QueueOrder
      <4>2. ASSUME NEW k \in 1..Len(Tail(q)) PROVE Tail(q)[k] = EndMark \/ e < Tail(q)[k]
        <5>1. k + 1 \in 1..Len(q) /\ 1 < k + 1
          BY <2>2
        <5> QED BY <2>1, <2>2, <5>1 DEF QueueOrder
      <4> QED BY <2>1, <4>1, <4>2 DEF Precedes
    <3>5. /\ Len(sent'[s]) = Len(sent[s]) + 1
          /\ sent'[s][Len(sent[s]) + 1] = e
          /\ \A i \in 1..Len(sent[s]) : sent'[s][i] = sent[s][i]
      BY <1>1, <2>3, <3>1, AppendItem
    <3>6. ASSUME NEW i \in 1..Len(sent'[s])
          PROVE  \/ sent'[s][i] <= maxReplayed[s]
                 \/ sent'[s][i] <= Published /\ Precedes(sent'[s][i], queue'[s])
      <4>1. CASE i = Len(sent[s]) + 1
        BY <3>4, <3>5, <4>1
      <4>2. CASE i \in 1..Len(sent[s])
        BY <2>1, <2>5, <3>5, <4>2 DEF SentOrder
      <4> QED BY <1>1, <3>5, <4>1, <4>2
    <3>7. SentOrder(s)'
      BY <1>3, <2>1, <3>6 DEF SentOrder
    <3> QED BY <2>1, <2>4, <2>7, <3>3, <3>7 DEF OrderInv
  <2> QED BY <1>8, <2>6, <2>7 DEF Take
<1> QED BY <1>4, <1>5, <1>6, <1>7, <1>8 DEF Serve

LEMMA DeliveryInit == ASSUME Init PROVE DeliveryInv
<1>1. TypeOK
  BY TypeInit
<1>2. CountInv
  BY DEF Init, CountInv
<1>3. ASSUME NEW s \in Streams PROVE OrderInv(s)
  BY DEF Init, OrderInv, QueueOrder, Increasing
<1> QED BY <1>1, <1>2, <1>3 DEF DeliveryInv

\* Every step of the server keeps types, counters and order.
LEMMA DeliveryStep ==
  ASSUME DeliveryInv, ServerStep(0..MaxSeq) \/ UNCHANGED vars
  PROVE  DeliveryInv'
<1>0. TypeOK /\ TypeOK' /\ Published' \in Int /\ Published \in Int /\ seq \in Nat
  <2>1. TypeOK'
    BY TypeStep DEF DeliveryInv
  <2>2. seq' \in Nat
    BY <2>1, MaxSeqAssumption DEF TypeOK
  <2>3. Published' \in Int
    BY <2>2 DEF Published
  <2> QED BY <2>1, <2>3, Numbers DEF DeliveryInv
<1>1. CountInv'
  <2> USE DEF CountInv, DeliveryInv
  <2>1. CASE EmitPersist
    <3>1. seq' = seq + 1 /\ log' \subseteq log \cup {seq + 1}
      BY <2>1 DEF EmitPersist
    <3> QED BY <1>0, <3>1
  <2>2. CASE EmitPublish \/ MarkFinished \/ Close \/ Crash \/ Reconcile \/ UNCHANGED vars
    BY <2>2 DEF EmitPublish, MarkFinished, Close, Crash, Reconcile, vars
  <2>3. ASSUME NEW s \in Streams,
               Opens(s, 0..MaxSeq) \/ Serve(s) \/ Disconnect(s)
        PROVE  CountInv'
    BY <2>3 DEF Opens, OpenAt, Serve, Subscribe, ReadHistory, Replay, EndTerminal, Take,
                Disconnect, workerVars
  <2> QED BY <2>1, <2>2, <2>3 DEF ServerStep, WorkerStep
<1>2. ASSUME NEW s \in Streams PROVE OrderInv(s)'
  <2>1. CASE WorkerStep
    <3>1. /\ UNCHANGED <<spc[s], history[s], maxReplayed[s], sent[s]>>
          /\ Published <= Published'
      BY <2>1, WorkerEffect DEF DeliveryInv, streamVars
    <3>2. CASE UNCHANGED queue[s]
      BY <1>0, <3>1, <3>2, OrderIdle
    <3>3. ASSUME NEW e \in {EndMark, Published + 1}, e \in Nat, e <= Published',
                 queue'[s] = Append(queue[s], e)
          PROVE  OrderInv(s)'
      BY <1>0, <3>1, <3>3, OrderAppend
    <3> QED BY <2>1, <3>2, <3>3, WorkerEffect DEF DeliveryInv
  <2>2. CASE Opens(s, 0..MaxSeq) \/ Serve(s) \/ Disconnect(s)
    BY <2>2, OrderMoves
  <2>3. ASSUME NEW t \in Streams \ {s},
               Opens(t, 0..MaxSeq) \/ Serve(t) \/ Disconnect(t)
        PROVE  OrderInv(s)'
    <3>1. UNCHANGED Published
      BY <2>3 DEF Opens, OpenAt, Serve, Subscribe, ReadHistory, Replay, EndTerminal, Take,
                  Disconnect, workerVars, Published
    <3>2. UNCHANGED <<spc[s], queue[s]>>
      BY <1>0, <2>3 DEF Opens, OpenAt, Serve, Subscribe, ReadHistory, Replay, EndTerminal, Take,
                        Disconnect, TypeOK
    <3>3. UNCHANGED <<history[s], maxReplayed[s], sent[s]>>
      BY <1>0, <2>3 DEF Opens, OpenAt, Serve, Subscribe, ReadHistory, Replay, EndTerminal, Take,
                        Disconnect, TypeOK
    <3> QED BY <1>0, <3>1, <3>2, <3>3, OrderIdle
  <2>4. CASE Crash
    <3>1. /\ UNCHANGED <<seq, queue, history, maxReplayed, sent>>
          /\ spc'[s] \in {spc[s], "gone"}
          /\ wpc' = "exited"
      BY <2>4 DEF Crash
    <3>2. Published <= Published'
      BY <1>0, <3>1 DEF Published
    <3> QED BY <1>0, <3>1, <3>2, OrderIdle
  <2>5. CASE Reconcile \/ UNCHANGED vars
    <3>1. UNCHANGED <<seq, wpc, queue, history, maxReplayed, sent, spc>>
      BY <2>5 DEF Reconcile, vars, streamVars
    <3>2. UNCHANGED Published
      BY <3>1 DEF Published
    <3> QED BY <1>0, <3>1, <3>2, OrderIdle
  <2> QED BY <2>1, <2>2, <2>3, <2>4, <2>5 DEF ServerStep
<1> QED BY <1>0, <1>1, <1>2 DEF DeliveryInv

LEMMA OrderedDelivery == DeliveryInv => InOrderOnce
<1> SUFFICES ASSUME DeliveryInv, NEW s \in Streams
             PROVE  \A i, j \in DOMAIN sent[s] : i < j => sent[s][i] < sent[s][j]
  BY DEF InOrderOnce
<1>1. DOMAIN sent[s] = 1..Len(sent[s])
  BY Numbers, LenProperties DEF DeliveryInv
<1> QED BY <1>1 DEF DeliveryInv, OrderInv, Increasing

\* No connection sends an event twice or after a later one, although events may
\* be missing from the table, reads may fail and the process may crash.
THEOREM NothingTwice == Spec => []InOrderOnce
<1>1. DeliveryInv /\ [Next]_vars => DeliveryInv'
  <2> SUFFICES ASSUME DeliveryInv, [Next]_vars PROVE DeliveryInv'
    OBVIOUS
  <2>1. ServerStep(0..MaxSeq) \/ UNCHANGED vars
    BY NextIsServed DEF DeliveryInv
  <2> QED BY <2>1, DeliveryStep
<1> QED BY DeliveryInit, <1>1, OrderedDelivery, PTL DEF Spec
=============================================================================
