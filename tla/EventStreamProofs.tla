--------------------------- MODULE EventStreamProofs ---------------------------
(* Theorems about EventStream, for every set of connections and number of    *)
(* events.  They assume that every event is persisted; the reads, the final  *)
(* update of the row and the whole process may still fail.                   *)
EXTENDS EventOrderProofs

\* append_event never fails: emit would log it and go on.
TableObeys == "persist" \notin Faults

\* The last event that a connection has sent, or the one it started after.
Position(s) == after[s] + Len(sent[s])

\* The events in a queue, without the end mark behind them.
Waiting(s) == IF Len(queue[s]) > 0 /\ queue[s][Len(queue[s])] = EndMark
              THEN Len(queue[s]) - 1 ELSE Len(queue[s])

\* The last event that was published but is no longer, or never was, in a queue.
Base(s) == Published - Waiting(s)

\* The worker writes to the log in step with its counter, and closes last.
WorkerInv ==
  /\ log = 1..seq
  /\ wpc = "publish" => seq >= 1
  /\ wpc \in {"run", "publish"} => status = "active"
  /\ wpc = "close" => status = "terminal"
  /\ proc = "crashed" =>
       /\ wpc = "exited"
       /\ \A s \in Streams : spc[s] \notin {"opened", "subscribed", "stream"}

\* A queue holds the latest events in a row, and the end mark only after them.
QueueInv(s) ==
  /\ s \in subs
  /\ 0 <= Base(s)
  /\ \A i \in 1..Waiting(s) : queue[s][i] = Base(s) + i
  /\ Waiting(s) < Len(queue[s]) => wpc = "exited" /\ status = "terminal"

\* The replay reaches up to maxReplayed, the queue begins no later than there,
\* and once the connection is past the replay it is where its queue begins.
SpliceInv(s) ==
  /\ history[s] = (Position(s) + 1)..maxReplayed[s]
  /\ maxReplayed[s] <= seq
  /\ Base(s) <= Position(s) \/ Base(s) <= maxReplayed[s]
  /\ Position(s) > maxReplayed[s] => Position(s) = Base(s)
  /\ isTerminal[s] => maxReplayed[s] = seq

ConnectionInv(s) ==
  /\ after[s] <= seq
  /\ Position(s) <= seq
  /\ \A i \in 1..Len(sent[s]) : sent[s][i] = after[s] + i
  /\ spc[s] \in {"new", "opened"} => queue[s] = <<>> /\ s \notin subs
  /\ spc[s] \in {"new", "opened", "subscribed"} => sent[s] = <<>>
  /\ spc[s] \in {"subscribed", "stream"} => QueueInv(s)
  /\ spc[s] = "stream" => SpliceInv(s)
  /\ isTerminal[s] => status = "terminal"
  /\ spc[s] = "ended" => status = "terminal" /\ Position(s) = seq

StreamInv == TypeOK /\ WorkerInv /\ \A s \in Streams : ConnectionInv(s)

-----------------------------------------------------------------------------
(* Reading the log.                                                        *)

\* When the log holds all events, a read returns those after a, and the last
\* of them is the last event of all.
LEMMA ReadLog ==
  ASSUME TypeOK, log = 1..seq, NEW a \in 0..seq
  PROVE  EventsAfter(a) = (a + 1)..seq /\ LastSeq(a) = seq
<1>1. seq \in Nat
  BY MaxSeqAssumption DEF TypeOK
<1>2. EventsAfter(a) = (a + 1)..seq
  BY <1>1 DEF EventsAfter
<1>3. CASE a = seq
  BY <1>1, <1>2, <1>3 DEF LastSeq
<1>4. CASE a < seq
  <2>1. seq \in EventsAfter(a) /\ \A e \in EventsAfter(a) : e <= seq
    BY <1>1, <1>2, <1>4
  <2>2. \A m \in EventsAfter(a) : (\A e \in EventsAfter(a) : e <= m) => m = seq
    BY <1>1, <1>2, <2>1
  <2>3. (CHOOSE m \in EventsAfter(a) : \A e \in EventsAfter(a) : e <= m) = seq
    BY <2>1, <2>2
  <2>4. EventsAfter(a) # {}
    BY <2>1
  <2> QED BY <1>2, <2>3, <2>4, Zenon DEF LastSeq
<1>5. a = seq \/ a < seq
  BY <1>1
<1> QED BY <1>3, <1>4, <1>5

\* No client has seen more than was emitted.
LEMMA SeenIsEmitted ==
  ASSUME StreamInv, NEW a \in Seen
  PROVE  a \in 0..seq
<1>1. seq \in Nat
  BY MaxSeqAssumption DEF StreamInv, TypeOK
<1>2. CASE a \in {0} \cup log
  BY <1>1, <1>2 DEF StreamInv, WorkerInv
<1>3. ASSUME NEW s \in Streams, NEW i \in DOMAIN sent[s], a = sent[s][i]
      PROVE  a \in 0..seq
  <2>1. sent[s] \in Seq(1..MaxSeq) /\ after[s] \in Nat
    BY DEF StreamInv, TypeOK
  <2>2. i \in 1..Len(sent[s]) /\ Len(sent[s]) \in Nat
    BY <2>1
  <2>3. a = after[s] + i /\ after[s] + Len(sent[s]) <= seq
    BY <1>3, <2>2 DEF StreamInv, ConnectionInv, Position
  <2> QED BY <1>1, <2>1, <2>2, <2>3
<1> QED BY <1>2, <1>3 DEF Seen

-----------------------------------------------------------------------------
(* The worker.                                                             *)

LEMMA WorkerStepInv ==
  ASSUME StreamInv, ServerStep(0..seq) \/ UNCHANGED vars, log' = 1..seq'
  PROVE  WorkerInv'
<1> USE MaxSeqAssumption DEF StreamInv, TypeOK, WorkerInv, workerVars, streamVars
<1>1. CASE EmitPersist
  BY <1>1 DEF EmitPersist
<1>2. CASE EmitPublish \/ Close \/ MarkFinished
  BY <1>2 DEF EmitPublish, Close, MarkFinished
<1>3. ASSUME NEW s \in Streams, Opens(s, 0..seq) \/ Serve(s) \/ Disconnect(s)
      PROVE  WorkerInv'
  <2>1. /\ UNCHANGED <<proc, seq, log, status, wpc>>
        /\ \/ UNCHANGED spc
           \/ \E p \in {"opened", "subscribed", "stream", "ended", "failed", "gone"} :
                spc' = [spc EXCEPT ![s] = p]
        /\ proc = "up" \/ spc[s] \in {"opened", "subscribed", "stream"}
    BY <1>3 DEF Opens, OpenAt, Serve, Subscribe, ReadHistory, Replay, EndTerminal, Take, Disconnect
  <2> QED BY <2>1
<1>4. CASE Crash
  BY <1>4 DEF Crash
<1>5. CASE Reconcile
  BY <1>5 DEF Reconcile
<1>6. CASE UNCHANGED vars
  BY <1>6 DEF vars
<1> QED BY <1>1, <1>2, <1>3, <1>4, <1>5, <1>6 DEF ServerStep, WorkerStep

-----------------------------------------------------------------------------
(* Queues.                                                                 *)

\* An event sent after those that follow event a, when it is the next one.
LEMMA SendNext ==
  ASSUME NEW q \in Seq(1..MaxSeq), NEW a \in Nat, NEW e \in 1..MaxSeq,
         \A i \in 1..Len(q) : q[i] = a + i,
         e = a + Len(q) + 1
  PROVE  /\ a + Len(Append(q, e)) = a + Len(q) + 1
         /\ \A i \in 1..Len(Append(q, e)) : Append(q, e)[i] = a + i
<1>1. /\ Len(q) \in Nat
      /\ Len(Append(q, e)) = Len(q) + 1
      /\ Append(q, e)[Len(q) + 1] = e
      /\ \A i \in 1..Len(q) : Append(q, e)[i] = q[i]
  OBVIOUS
<1>2. ASSUME NEW i \in 1..(Len(q) + 1) PROVE Append(q, e)[i] = a + i
  <2>1. CASE i \in 1..Len(q)
    BY <1>1, <2>1
  <2>2. CASE i = Len(q) + 1
    BY <1>1, <2>2
  <2> QED BY <1>1, <2>1, <2>2
<1> QED BY <1>1, <1>2

\* What the head of a queue is, and what is left behind it.
LEMMA TakeHead ==
  ASSUME StreamInv, NEW s \in Streams, spc[s] = "stream", queue[s] # <<>>
  PROVE  /\ Head(queue[s]) = EndMark =>
              Waiting(s) = 0 /\ wpc = "exited" /\ status = "terminal"
         /\ Head(queue[s]) # EndMark =>
              /\ Waiting(s) >= 1
              /\ Head(queue[s]) = Base(s) + 1
<1> DEFINE q == queue[s]
<1>1. q \in Seq(0..MaxSeq) /\ Len(q) \in Nat /\ Len(q) >= 1 /\ Head(q) = q[1]
  BY MaxSeqAssumption DEF StreamInv, TypeOK
<1>2. QueueInv(s)
  BY DEF StreamInv, ConnectionInv
<1>3. Base(s) \in Nat /\ Waiting(s) \in Nat
  <2>1. Waiting(s) \in Nat
    BY <1>1 DEF Waiting
  <2>2. Published \in Int
    BY MaxSeqAssumption DEF Published, StreamInv, TypeOK
  <2> QED BY <1>2, <2>1, <2>2 DEF QueueInv, Base
<1>4. CASE Waiting(s) = 0
  <2>1. Len(q) = 1 /\ q[Len(q)] = EndMark
    BY <1>1, <1>4 DEF Waiting
  <2> QED BY <1>1, <1>2, <1>4, <2>1 DEF QueueInv
<1>5. CASE Waiting(s) >= 1
  BY <1>1, <1>2, <1>3, <1>5 DEF QueueInv, EndMark
<1> QED BY <1>3, <1>4, <1>5

\* Taking an event moves the base of the queue by one.
LEMMA TakeTail ==
  ASSUME StreamInv, NEW s \in Streams, spc[s] = "stream", queue[s] # <<>>,
         Head(queue[s]) # EndMark,
         queue'[s] = Tail(queue[s]), UNCHANGED <<seq, wpc, status>>, s \in subs'
  PROVE  QueueInv(s)' /\ Base(s)' = Base(s) + 1
<1> DEFINE q == queue[s]
<1>1. q \in Seq(0..MaxSeq) /\ Len(q) \in Nat /\ Len(q) >= 1
  BY MaxSeqAssumption DEF StreamInv, TypeOK
<1>2. /\ Len(Tail(q)) = Len(q) - 1
      /\ \A i \in 1..(Len(q) - 1) : Tail(q)[i] = q[i + 1]
  BY <1>1
<1>3. QueueInv(s) /\ Waiting(s) >= 1
  BY TakeHead DEF StreamInv, ConnectionInv
<1>4. Waiting(s)' = Waiting(s) - 1 /\ Waiting(s) \in Nat
  <2>1. CASE Len(q) = 1
    BY <1>1, <1>2, <1>3, <2>1 DEF Waiting
  <2>2. CASE Len(q) >= 2
    <3>1. Tail(q)[Len(q) - 1] = q[Len(q)]
      BY <1>1, <1>2, <2>2
    <3> QED BY <1>1, <1>2, <2>2, <3>1 DEF Waiting
  <2>3. Len(q) = 1 \/ Len(q) >= 2
    <3>1. \A n \in Nat : n >= 1 => n = 1 \/ n >= 2
      OBVIOUS
    <3> QED BY <1>1, <3>1
  <2> QED BY <2>1, <2>2, <2>3
<1>5. Published' = Published /\ Published \in Int
  BY MaxSeqAssumption DEF Published, StreamInv, TypeOK
<1>6. Base(s)' = Base(s) + 1 /\ Base(s) \in Int
  BY <1>4, <1>5 DEF Base
<1>7. \A i \in 1..Waiting(s)' : queue'[s][i] = Base(s)' + i
  <2> SUFFICES ASSUME NEW i \in 1..(Waiting(s) - 1)
               PROVE  Tail(q)[i] = Base(s) + 1 + i
    BY <1>4, <1>6
  <2>1. Waiting(s) <= Len(q)
    BY <1>1 DEF Waiting
  <2>2. i + 1 \in 1..Waiting(s) /\ i \in 1..(Len(q) - 1)
    BY <1>1, <1>4, <2>1
  <2>3. q[i + 1] = Base(s) + (i + 1)
    BY <1>3, <2>2 DEF QueueInv
  <2> QED BY <1>2, <1>6, <2>2, <2>3
<1>8. Waiting(s)' < Len(queue'[s]) => wpc' = "exited" /\ status' = "terminal"
  BY <1>1, <1>2, <1>3, <1>4 DEF QueueInv
<1>9. 0 <= Base(s)'
  BY <1>3, <1>6 DEF QueueInv
<1> QED BY <1>6, <1>7, <1>8, <1>9 DEF QueueInv

-----------------------------------------------------------------------------
(* One step, seen by one connection.                                       *)

\* The worker's steps.
LEMMA WorkerMoves ==
  ASSUME StreamInv, WorkerStep, log' = 1..seq', NEW s \in Streams
  PROVE  ConnectionInv(s)'
<1> DEFINE q == queue[s]
<1>1. /\ seq \in Nat /\ after[s] \in Nat /\ maxReplayed[s] \in Nat
      /\ Len(sent[s]) \in Nat
      /\ q \in Seq(0..MaxSeq) /\ Len(q) \in Nat
      /\ isTerminal[s] \in BOOLEAN
  BY MaxSeqAssumption DEF StreamInv, TypeOK
<1>2. ConnectionInv(s) /\ WorkerInv
  BY DEF StreamInv
<1>3. UNCHANGED streamVars
  BY DEF WorkerStep, EmitPersist, EmitPublish, MarkFinished, Close, streamVars
<1>4. UNCHANGED Position(s) /\ Position(s) \in Nat
  BY <1>1, <1>3 DEF Position, streamVars
<1>5. Waiting(s) \in Nat /\ Published \in Int /\ Base(s) \in Int
  BY <1>1 DEF Waiting, Published, Base
<1>6. CASE EmitPersist
  <2>1. /\ wpc = "run" /\ wpc' = "publish" /\ seq' = seq + 1
        /\ UNCHANGED <<status, subs, queue>> /\ status = "active"
    BY <1>2, <1>6 DEF EmitPersist, WorkerInv
  <2>2. UNCHANGED <<Published, Waiting(s), Base(s)>>
    BY <1>1, <2>1 DEF Published, Waiting, Base
  <2>3. QueueInv(s) => QueueInv(s)'
    BY <2>1, <2>2 DEF QueueInv
  <2>4. ~isTerminal[s]
    BY <1>2, <2>1 DEF ConnectionInv
  <2>5. SpliceInv(s) => SpliceInv(s)'
    BY <1>1, <1>3, <1>4, <2>1, <2>2, <2>4 DEF SpliceInv, streamVars
  <2>6. after'[s] <= seq' /\ Position(s)' <= seq'
    BY <1>1, <1>2, <1>3, <1>4, <2>1 DEF ConnectionInv, streamVars
  <2> QED BY <1>2, <1>3, <1>4, <2>1, <2>3, <2>5, <2>6 DEF ConnectionInv, streamVars
<1>7. CASE MarkFinished
  <2>1. /\ wpc = "run" /\ wpc' \in {"close", "exited"} /\ status = "active"
        /\ UNCHANGED <<seq, subs, queue>>
    BY <1>2, <1>7 DEF MarkFinished, WorkerInv
  <2>2. UNCHANGED <<Published, Waiting(s), Base(s)>>
    BY <1>1, <2>1 DEF Published, Waiting, Base
  <2> QED BY <1>1, <1>2, <1>3, <1>4, <1>5, <2>1, <2>2
          DEF ConnectionInv, QueueInv, SpliceInv, streamVars
<1>8. CASE s \notin subs /\ (EmitPublish \/ Close)
  <2>1. UNCHANGED <<seq, status, subs>> /\ UNCHANGED q
    BY <1>8 DEF EmitPublish, Close, Delivered
  <2> QED BY <1>2, <1>3, <1>4, <1>8, <2>1
          DEF ConnectionInv, QueueInv, streamVars
<1>9. ASSUME s \in subs, NEW e \in 0..MaxSeq, queue' = Delivered(e),
             wpc \in {"publish", "close"}, UNCHANGED <<seq, status, subs>>,
             /\ wpc = "publish" => e = seq /\ wpc' = "run"
             /\ wpc = "close" => e = EndMark /\ wpc' = "exited"
      PROVE  ConnectionInv(s)'
  <2>1. spc[s] \notin {"new", "opened"}
    BY <1>2, <1>9 DEF ConnectionInv
  <2>2. CASE spc[s] \notin {"subscribed", "stream"}
    BY <1>2, <1>3, <1>4, <1>9, <2>1, <2>2 DEF ConnectionInv, streamVars
  <2>3. CASE spc[s] \in {"subscribed", "stream"}
    <3>1. queue'[s] = Append(q, e)
      BY <1>9 DEF Delivered, StreamInv, TypeOK
    <3>2. Waiting(s) = Len(q) /\ QueueInv(s)
      BY <1>1, <1>2, <1>9, <2>3 DEF ConnectionInv, QueueInv, Waiting
    <3>3. /\ Len(queue'[s]) = Len(q) + 1
          /\ queue'[s][Len(q) + 1] = e
          /\ \A i \in 1..Len(q) : queue'[s][i] = q[i]
      BY <1>1, <1>9, <3>1, AppendProperties
    <3>4. CASE wpc = "publish"
      <4>1. seq >= 1 /\ Published = seq - 1 /\ Published' = seq /\ e # EndMark
        BY <1>1, <1>2, <1>9, <3>4 DEF WorkerInv, Published, EndMark
      <4>2. Waiting(s)' = Len(q) + 1
        BY <1>1, <1>9, <3>3, <4>1 DEF Waiting
      <4>3. Base(s)' = Base(s) /\ Base(s) + (Len(q) + 1) = seq
        BY <1>1, <3>2, <4>1, <4>2 DEF Base
      <4>4. QueueInv(s)'
        <5>1. \A i \in 1..Waiting(s)' : queue'[s][i] = Base(s)' + i
          <6> SUFFICES ASSUME NEW i \in 1..(Len(q) + 1)
                       PROVE  queue'[s][i] = Base(s) + i
            BY <4>2, <4>3
          <6>1. CASE i \in 1..Len(q)
            BY <3>2, <3>3, <6>1 DEF QueueInv
          <6>2. CASE i = Len(q) + 1
            BY <1>9, <3>3, <3>4, <4>3, <6>2
          <6> QED BY <1>1, <6>1, <6>2
        <5> QED BY <1>1, <1>5, <1>9, <3>2, <3>3, <4>2, <4>3, <5>1 DEF QueueInv
      <4> QED BY <1>2, <1>3, <1>4, <1>9, <2>1, <4>3, <4>4
              DEF ConnectionInv, SpliceInv, streamVars
    <3>5. CASE wpc = "close"
      <4>1. status = "terminal" /\ wpc' = "exited" /\ e = EndMark
        BY <1>2, <1>9, <3>5 DEF WorkerInv
      <4>2. Published' = Published
        BY <1>9, <3>5 DEF Published
      <4>3. Waiting(s)' = Len(q)
        BY <1>1, <3>3, <4>1 DEF Waiting
      <4>4. Base(s)' = Base(s)
        BY <3>2, <4>2, <4>3 DEF Base
      <4>5. QueueInv(s)'
        <5>1. \A i \in 1..Waiting(s)' : queue'[s][i] = Base(s)' + i
          BY <1>1, <3>2, <3>3, <4>3, <4>4 DEF QueueInv
        <5> QED BY <1>9, <3>2, <4>1, <4>4, <5>1 DEF QueueInv
      <4> QED BY <1>2, <1>3, <1>4, <1>9, <2>1, <4>4, <4>5
              DEF ConnectionInv, SpliceInv, streamVars
    <3> QED BY <1>9, <3>4, <3>5
  <2> QED BY <2>2, <2>3
<1>10. CASE s \in subs /\ EmitPublish
  <2>1. seq \in 0..MaxSeq
    BY DEF StreamInv, TypeOK
  <2> QED BY <1>9, <1>10, <2>1 DEF EmitPublish
<1>11. CASE s \in subs /\ Close
  <2>1. EndMark \in 0..MaxSeq
    BY MaxSeqAssumption DEF EndMark
  <2> QED BY <1>9, <1>11, <2>1 DEF Close
<1> QED BY <1>6, <1>7, <1>8, <1>10, <1>11 DEF WorkerStep

\* The steps of the connection itself.
LEMMA ConnectionMoves ==
  ASSUME StreamInv, NEW s \in Streams, Opens(s, 0..seq) \/ Serve(s) \/ Disconnect(s)
  PROVE  ConnectionInv(s)'
<1>1. /\ seq \in Nat /\ after[s] \in Nat /\ maxReplayed[s] \in Nat
      /\ sent[s] \in Seq(1..MaxSeq) /\ Len(sent[s]) \in Nat
      /\ Position(s) \in Nat
  BY MaxSeqAssumption DEF StreamInv, TypeOK, Position
<1>t. Waiting(s) \in Nat /\ Published \in Int /\ Base(s) \in Int
  <2>1. queue[s] \in Seq(0..MaxSeq)
    BY DEF StreamInv, TypeOK
  <2>2. Len(queue[s]) \in Nat
    BY <2>1
  <2> QED BY <1>1, <2>2 DEF Waiting, Published, Base
<1>2. ConnectionInv(s) /\ WorkerInv /\ log = 1..seq
  BY DEF StreamInv, WorkerInv
<1>3. UNCHANGED <<seq, log, status, wpc>>
  BY DEF Opens, OpenAt, Serve, Subscribe, ReadHistory, Replay, EndTerminal, Take, Disconnect,
         workerVars
<1>4. CASE Opens(s, 0..seq)
  <2>1. PICK a \in 0..seq : after' = [after EXCEPT ![s] = a]
    BY <1>4 DEF Opens, OpenAt
  <2>2. a \in 0..seq
    BY <2>1
  <2>3. /\ after'[s] = a /\ spc'[s] = "opened" /\ spc[s] = "new"
        /\ UNCHANGED <<sent, queue, subs>>
        /\ isTerminal'[s] => status = "terminal"
    BY <1>4, <2>1 DEF Opens, OpenAt, StreamInv, TypeOK
  <2>4. sent[s] = <<>> /\ Len(sent[s]) = 0
    BY <1>2, <2>3 DEF ConnectionInv
  <2>5. Position(s)' = a
    BY <2>2, <2>3, <2>4 DEF Position
  <2> QED BY <1>1, <1>2, <1>3, <2>2, <2>3, <2>4, <2>5 DEF ConnectionInv
<1>5. CASE Subscribe(s)
  <2>1. /\ spc[s] = "opened" /\ spc'[s] = "subscribed" /\ s \in subs'
        /\ UNCHANGED <<queue, after, isTerminal, sent>>
    BY <1>5 DEF Subscribe, StreamInv, TypeOK
  <2>2. UNCHANGED Position(s)
    BY <2>1 DEF Position
  <2>3. QueueInv(s)'
    <3>1. Len(queue[s]) = 0
      BY <1>2, <2>1 DEF ConnectionInv
    <3>2. Waiting(s)' = 0
      BY <2>1, <3>1 DEF Waiting
    <3>3. Published' \in Nat
      BY <1>1, <1>2, <1>3 DEF Published, WorkerInv
    <3>a. Base(s)' = Published' - Waiting(s)'
      BY DEF Base
    <3>4. Base(s)' = Published' /\ 0 <= Base(s)'
      <4>1. \A n \in Nat : n - 0 = n /\ 0 <= n
        OBVIOUS
      <4> QED BY <3>2, <3>3, <3>a, <4>1
    <3>5. Len(queue'[s]) = 0
      BY <2>1, <3>1
    <3> QED BY <2>1, <3>2, <3>4, <3>5 DEF QueueInv
  <2> QED BY <1>2, <1>3, <2>1, <2>2, <2>3 DEF ConnectionInv
<1>6. CASE ReadHistory(s)
  <2>1. /\ spc[s] = "subscribed"
        /\ UNCHANGED <<queue, subs, after, isTerminal, sent>>
        /\ sent[s] = <<>> /\ Len(sent[s]) = 0
    BY <1>2, <1>6 DEF ReadHistory, ConnectionInv
  <2>2. UNCHANGED <<Position(s), Waiting(s), Base(s)>> /\ Position(s) = after[s]
    BY <1>1, <1>3, <2>1 DEF Position, Waiting, Base, Published
  <2>3. QueueInv(s) /\ QueueInv(s)'
    BY <1>2, <1>3, <2>1, <2>2 DEF ConnectionInv, QueueInv
  <2>4. CASE spc'[s] = "failed"
    BY <1>2, <1>3, <2>1, <2>2, <2>4 DEF ConnectionInv
  <2>5. CASE /\ spc'[s] = "stream"
             /\ history'[s] = EventsAfter(after[s])
             /\ maxReplayed'[s] = LastSeq(after[s])
    <3>1. after[s] \in 0..seq
      BY <1>1, <1>2 DEF ConnectionInv
    <3>2. history'[s] = (after[s] + 1)..seq /\ maxReplayed'[s] = seq
      BY <1>2, <2>5, <3>1, ReadLog DEF StreamInv
    <3>3. Base(s) <= seq
      BY <1>1, <1>t DEF Base, Published
    <3>4. SpliceInv(s)'
      BY <1>1, <1>3, <2>1, <2>2, <3>1, <3>2, <3>3 DEF SpliceInv
    <3> QED BY <1>2, <1>3, <2>1, <2>2, <2>3, <2>5, <3>4 DEF ConnectionInv
  <2> QED BY <1>6, <2>4, <2>5 DEF ReadHistory, StreamInv, TypeOK
<1>7. CASE Replay(s)
  <2>1. PICK e \in history[s] :
          /\ \A d \in history[s] : e <= d
          /\ sent' = [sent EXCEPT ![s] = Append(@, e)]
          /\ history' = [history EXCEPT ![s] = @ \ {e}]
    BY <1>7 DEF Replay
  <2>2. /\ spc[s] = "stream"
        /\ UNCHANGED <<queue, subs, spc, after, isTerminal, maxReplayed>>
        /\ sent'[s] = Append(sent[s], e)
        /\ history'[s] = history[s] \ {e}
    BY <1>7, <2>1 DEF Replay, StreamInv, TypeOK
  <2>3. QueueInv(s) /\ SpliceInv(s)
    BY <1>2, <2>2 DEF ConnectionInv
  <2>4. e = Position(s) + 1 /\ e <= maxReplayed[s] /\ maxReplayed[s] <= seq
    <3> DEFINE P == Position(s)
               M == maxReplayed[s]
    <3>1. history[s] = (P + 1)..M /\ M <= seq
      BY <2>3 DEF SpliceInv
    <3>2. \A p, m \in Nat : \A x \in (p + 1)..m :
            x <= m /\ ((\A d \in (p + 1)..m : x <= d) => x = p + 1)
      <4> SUFFICES ASSUME NEW p \in Nat, NEW m \in Nat, NEW x \in (p + 1)..m
                   PROVE  x <= m /\ ((\A d \in (p + 1)..m : x <= d) => x = p + 1)
        OBVIOUS
      <4>1. p + 1 \in (p + 1)..m
        OBVIOUS
      <4> QED BY <4>1
    <3>3. e \in (P + 1)..M /\ \A d \in (P + 1)..M : e <= d
      BY <2>1, <3>1
    <3> QED BY <1>1, <3>1, <3>2, <3>3
  <2>5. e \in Nat /\ e \in 1..MaxSeq
    BY <1>1, <2>1, <2>4 DEF StreamInv, TypeOK
  <2>6. after'[s] = after[s]
    BY <2>2
  <2>7. /\ Position(s)' = Position(s) + 1
        /\ \A i \in 1..Len(sent'[s]) : sent'[s][i] = after'[s] + i
    <3>1. e = after[s] + Len(sent[s]) + 1
      BY <2>4 DEF Position
    <3>2. \A i \in 1..Len(sent[s]) : sent[s][i] = after[s] + i
      BY <1>2 DEF ConnectionInv
    <3>3. /\ after[s] + Len(Append(sent[s], e)) = after[s] + Len(sent[s]) + 1
          /\ \A i \in 1..Len(Append(sent[s], e)) : Append(sent[s], e)[i] = after[s] + i
      BY <1>1, <2>5, <3>1, <3>2, SendNext
    <3> QED BY <2>2, <2>6, <3>3, Zenon DEF Position
  <2>9. UNCHANGED <<Waiting(s), Base(s)>>
    BY <1>3, <2>2 DEF Waiting, Base, Published
  <2>10. history'[s] = (Position(s)' + 1)..maxReplayed[s]
    BY <1>1, <2>2, <2>3, <2>4, <2>7 DEF SpliceInv
  <2>11. Base(s) <= maxReplayed[s]
    <3>1. Base(s) <= Position(s) \/ Base(s) <= maxReplayed[s]
      BY <2>3 DEF SpliceInv
    <3>2. Position(s) <= maxReplayed[s]
      BY <1>1, <2>4
    <3> QED BY <1>1, <1>t, <3>1, <3>2
  <2>12. SpliceInv(s)'
    BY <1>1, <1>3, <2>2, <2>3, <2>4, <2>7, <2>9, <2>10, <2>11 DEF SpliceInv
  <2>13. QueueInv(s)'
    BY <1>3, <2>2, <2>3, <2>9 DEF QueueInv
  <2> QED BY <1>1, <1>2, <1>3, <2>2, <2>4, <2>7, <2>12, <2>13 DEF ConnectionInv
<1>8. CASE EndTerminal(s)
  <2>1. /\ spc[s] = "stream" /\ spc'[s] = "ended" /\ history[s] = {} /\ isTerminal[s]
        /\ UNCHANGED <<queue, after, isTerminal, sent>>
    BY <1>8 DEF EndTerminal, StreamInv, TypeOK
  <2>2. UNCHANGED Position(s)
    BY <2>1 DEF Position
  <2>3. Position(s) = seq /\ status = "terminal"
    BY <1>1, <1>2, <2>1 DEF ConnectionInv, SpliceInv
  <2> QED BY <1>2, <1>3, <2>1, <2>2, <2>3 DEF ConnectionInv
<1>9. CASE Disconnect(s)
  <2>1. /\ spc'[s] = "gone" /\ spc[s] = "stream"
        /\ UNCHANGED <<queue, after, isTerminal, sent>>
    BY <1>9 DEF Disconnect, StreamInv, TypeOK
  <2>2. UNCHANGED Position(s)
    BY <2>1 DEF Position
  <2> QED BY <1>2, <1>3, <2>1, <2>2 DEF ConnectionInv
<1>10. CASE Take(s)
  <2> DEFINE e == Head(queue[s])
  <2>1. /\ spc[s] = "stream" /\ queue[s] # <<>> /\ history[s] = {} /\ ~isTerminal[s]
        /\ queue'[s] = Tail(queue[s])
        /\ UNCHANGED <<seq, wpc, status, after, isTerminal, history, maxReplayed>>
    BY <1>3, <1>10 DEF Take, StreamInv, TypeOK
  <2>2. QueueInv(s) /\ SpliceInv(s)
    BY <1>2, <2>1 DEF ConnectionInv
  <2>3. Position(s) >= maxReplayed[s]
    <3>1. (Position(s) + 1)..maxReplayed[s] = {}
      BY <2>1, <2>2, Zenon DEF SpliceInv
    <3>2. \A p, m \in Nat : (p + 1)..m = {} => p >= m
      <4> SUFFICES ASSUME NEW p \in Nat, NEW m \in Nat, p < m
                   PROVE  (p + 1)..m # {}
        OBVIOUS
      <4>1. m \in (p + 1)..m
        OBVIOUS
      <4> QED BY <4>1
    <3> QED BY <1>1, <3>1, <3>2
  <2>4. Published <= seq
    BY <1>1 DEF Published
  <2>5. CASE /\ e = EndMark
             /\ spc' = [spc EXCEPT ![s] = "ended"]
             /\ UNCHANGED sent
    <3>1. Waiting(s) = 0 /\ wpc = "exited" /\ status = "terminal"
      BY <2>1, <2>5, TakeHead
    <3>2. Base(s) = seq
      BY <1>1, <3>1 DEF Base, Published
    <3>3. Position(s) = seq
      BY <1>1, <1>2, <2>2, <2>3, <3>2 DEF SpliceInv, ConnectionInv
    <3>4. UNCHANGED Position(s)
      BY <2>1, <2>5 DEF Position
    <3>5. spc'[s] = "ended"
      BY <2>5 DEF StreamInv, TypeOK
    <3> QED BY <1>2, <2>1, <2>5, <3>1, <3>3, <3>4, <3>5 DEF ConnectionInv
  <2>6. CASE e # EndMark /\ AlreadySent(s, e) /\ UNCHANGED <<spc, subs, sent>>
    <3>1. Waiting(s) >= 1 /\ e = Base(s) + 1
      BY <2>1, <2>6, TakeHead
    <3>2. QueueInv(s)' /\ Base(s)' = Base(s) + 1
      BY <2>1, <2>2, <2>6, TakeTail DEF QueueInv
    <3>3. Base(s)' <= maxReplayed[s]
      BY <2>6, <3>1, <3>2 DEF AlreadySent
    <3>4. Position(s) = maxReplayed[s]
      BY <1>1, <1>t, <2>2, <2>3, <3>2, <3>3 DEF SpliceInv
    <3>5. UNCHANGED Position(s)
      BY <2>1, <2>6 DEF Position
    <3>6. SpliceInv(s)'
      BY <1>1, <2>1, <2>2, <3>3, <3>4, <3>5 DEF SpliceInv
    <3> QED BY <1>2, <2>1, <2>6, <3>2, <3>5, <3>6 DEF ConnectionInv
  <2>7. CASE /\ e # EndMark /\ ~AlreadySent(s, e)
             /\ sent' = [sent EXCEPT ![s] = Append(@, e)]
             /\ UNCHANGED <<spc, subs>>
    <3>1. Waiting(s) >= 1 /\ e = Base(s) + 1
      BY <2>1, <2>7, TakeHead
    <3>2. QueueInv(s)' /\ Base(s)' = Base(s) + 1
      BY <2>1, <2>2, <2>7, TakeTail DEF QueueInv
    <3>3. Base(s) >= maxReplayed[s]
      BY <1>1, <1>t, <2>7, <3>1 DEF AlreadySent
    <3>4. Position(s) = Base(s)
      BY <1>1, <1>t, <2>2, <2>3, <3>3 DEF SpliceInv
    <3>5. e \in 1..MaxSeq /\ e = Position(s) + 1 /\ e <= seq
      <4>1. Base(s) + 1 <= seq
        BY <1>1, <1>t, <2>4, <3>1 DEF Base
      <4>2. seq <= MaxSeq /\ MaxSeq \in Nat
        BY MaxSeqAssumption DEF StreamInv, TypeOK
      <4> QED BY <1>1, <3>1, <3>4, <4>1, <4>2
    <3>6. sent'[s] = Append(sent[s], e)
      BY <2>7 DEF StreamInv, TypeOK
    <3>7. after'[s] = after[s]
      BY <2>1
    <3>9. /\ Position(s)' = Position(s) + 1
          /\ \A i \in 1..Len(sent'[s]) : sent'[s][i] = after'[s] + i
      <4>1. e = after[s] + Len(sent[s]) + 1
        BY <3>5 DEF Position
      <4>2. \A i \in 1..Len(sent[s]) : sent[s][i] = after[s] + i
        BY <1>2 DEF ConnectionInv
      <4>3. /\ after[s] + Len(Append(sent[s], e)) = after[s] + Len(sent[s]) + 1
            /\ \A i \in 1..Len(Append(sent[s], e)) : Append(sent[s], e)[i] = after[s] + i
        BY <1>1, <3>5, <4>1, <4>2, SendNext
      <4> QED BY <3>6, <3>7, <4>3, Zenon DEF Position
    <3>11. SpliceInv(s)'
      <4>1. history[s] = (Position(s)' + 1)..maxReplayed[s]
        <5>1. (Position(s)' + 1)..maxReplayed[s] = {}
          BY <1>1, <2>3, <3>9
        <5> QED BY <2>1, <5>1
      <4>2. Base(s)' = Position(s)'
        BY <3>2, <3>4, <3>9
      <4>3. Base(s)' <= Position(s)'
        BY <1>1, <3>9, <4>2
      <4> QED BY <2>1, <2>2, <4>1, <4>2, <4>3 DEF SpliceInv
    <3> QED BY <1>1, <1>2, <2>1, <2>7, <3>2, <3>5, <3>9, <3>11 DEF ConnectionInv
  <2> QED BY <1>10, <2>5, <2>6, <2>7 DEF Take
<1> QED BY <1>4, <1>5, <1>6, <1>7, <1>8, <1>9, <1>10 DEF Serve

\* A step that leaves the worker and a connection alone.
LEMMA ConnectionIdle ==
  ASSUME NEW s \in Streams, ConnectionInv(s),
         UNCHANGED <<seq, status, wpc>>,
         UNCHANGED <<queue[s], spc[s], after[s], isTerminal[s],
                     history[s], maxReplayed[s], sent[s]>>,
         s \in subs' <=> s \in subs
  PROVE  ConnectionInv(s)'
<1>1. UNCHANGED <<Position(s), Waiting(s), Base(s)>>
  BY DEF Position, Waiting, Base, Published
<1>2. QueueInv(s) => QueueInv(s)'
  BY <1>1 DEF QueueInv
<1>3. SpliceInv(s) => SpliceInv(s)'
  BY <1>1 DEF SpliceInv
<1> QED BY <1>1, <1>2, <1>3 DEF ConnectionInv

\* The steps of another connection, and those of the process.
LEMMA OtherMoves ==
  ASSUME StreamInv, NEW s \in Streams,
         \/ \E t \in Streams \ {s} : Opens(t, 0..seq) \/ Serve(t) \/ Disconnect(t)
         \/ Crash
         \/ Reconcile
         \/ UNCHANGED vars
  PROVE  ConnectionInv(s)'
<1>1. ConnectionInv(s) /\ WorkerInv
  BY DEF StreamInv
<1>3. ASSUME NEW t \in Streams \ {s}, Opens(t, 0..seq) \/ Serve(t) \/ Disconnect(t)
      PROVE  ConnectionInv(s)'
  <2>1. UNCHANGED <<seq, status, wpc>> /\ (s \in subs' <=> s \in subs)
    BY <1>3 DEF Opens, OpenAt, Serve, Subscribe, ReadHistory, Replay, EndTerminal, Take, Disconnect,
                Unsubscribed, workerVars
  <2>2. UNCHANGED <<queue[s], spc[s], after[s], isTerminal[s]>>
    BY <1>3 DEF Opens, OpenAt, Serve, Subscribe, ReadHistory, Replay, EndTerminal, Take, Disconnect,
                StreamInv, TypeOK
  <2>3. UNCHANGED <<history[s], maxReplayed[s], sent[s]>>
    BY <1>3 DEF Opens, OpenAt, Serve, Subscribe, ReadHistory, Replay, EndTerminal, Take, Disconnect,
                StreamInv, TypeOK
  <2> QED BY <1>1, <2>1, <2>2, <2>3, ConnectionIdle
<1>4. CASE Crash
  <2>1. /\ UNCHANGED <<seq, status, queue, after, isTerminal, sent>>
        /\ subs' = {}
        /\ spc'[s] \notin {"opened", "subscribed", "stream"}
        /\ spc'[s] = spc[s] \/ spc'[s] = "gone"
    BY <1>4 DEF Crash
  <2>2. UNCHANGED Position(s)
    BY <2>1 DEF Position
  <2> QED BY <1>1, <2>1, <2>2 DEF ConnectionInv
<1>5. CASE Reconcile
  <2>1. /\ UNCHANGED <<seq, subs, queue, spc, after, isTerminal, sent>>
        /\ status' = "terminal"
        /\ spc[s] \notin {"opened", "subscribed", "stream"}
    BY <1>1, <1>5 DEF Reconcile, streamVars, WorkerInv
  <2>2. UNCHANGED Position(s)
    BY <2>1 DEF Position
  <2> QED BY <1>1, <2>1, <2>2 DEF ConnectionInv
<1>6. CASE UNCHANGED vars
  BY <1>1, <1>6, ConnectionIdle DEF vars
<1> QED BY <1>3, <1>4, <1>5, <1>6

-----------------------------------------------------------------------------
(* The invariant and what follows from it.                                 *)

\* The initial state of the worker and of every connection.
LEMMA InitInv == ASSUME Init PROVE StreamInv
<1>1. TypeOK /\ seq = 0 /\ 1..seq = {}
  <2>1. TypeOK
    BY TypeInit
  <2> QED BY <2>1 DEF Init
<1>2. WorkerInv
  BY <1>1 DEF Init, WorkerInv
<1>3. ASSUME NEW s \in Streams PROVE ConnectionInv(s)
  <2>1. /\ after[s] = 0 /\ sent[s] = <<>> /\ spc[s] = "new"
        /\ queue[s] = <<>> /\ s \notin subs /\ isTerminal[s] = FALSE
    BY DEF Init
  <2>2. Position(s) = 0
    BY <2>1 DEF Position
  <2> QED BY <1>1, <2>1, <2>2 DEF ConnectionInv
<1> QED BY <1>1, <1>2, <1>3 DEF StreamInv

\* Every step that leaves no event out of the table keeps the invariant of the
\* worker, of each queue and of each splice of history and queue.
LEMMA StreamStep ==
  ASSUME StreamInv, ServerStep(0..seq) \/ UNCHANGED vars, log' = 1..seq'
  PROVE  StreamInv'
<1>1. ServerStep(0..MaxSeq) \/ UNCHANGED vars
  <2>1. 0..seq \subseteq 0..MaxSeq
    BY MaxSeqAssumption DEF StreamInv, TypeOK
  <2> QED BY <2>1 DEF ServerStep, Opens
<1>2. TypeOK' /\ WorkerInv'
  BY <1>1, TypeStep, WorkerStepInv DEF StreamInv
<1>3. ASSUME NEW s \in Streams PROVE ConnectionInv(s)'
  <2>1. CASE WorkerStep
    BY <2>1, WorkerMoves
  <2>2. CASE Opens(s, 0..seq) \/ Serve(s) \/ Disconnect(s)
    BY <2>2, ConnectionMoves
  <2>3. CASE \/ \E t \in Streams \ {s} : Opens(t, 0..seq) \/ Serve(t) \/ Disconnect(t)
             \/ Crash
             \/ Reconcile
             \/ UNCHANGED vars
    BY <2>3, OtherMoves
  <2> QED BY <2>1, <2>2, <2>3 DEF ServerStep
<1> QED BY <1>2, <1>3 DEF StreamInv

\* EventStream takes the steps of the server, from what its clients have seen.
LEMMA NextIsKnown ==
  ASSUME StreamInv, [Next]_vars
  PROVE  ServerStep(0..seq) \/ UNCHANGED vars
  BY SeenIsEmitted DEF Next, ServerStep, Opens, Open

\* When append_event succeeds, the table follows the counter.
LEMMA LogStep ==
  ASSUME TableObeys, StreamInv, [Next]_vars
  PROVE  log' = 1..seq'
<1>1. log = 1..seq /\ seq \in Nat
  BY MaxSeqAssumption DEF StreamInv, WorkerInv, TypeOK
<1>2. CASE EmitPersist
  <2>1. log' = log \cup {seq + 1} /\ seq' = seq + 1
    BY <1>2 DEF EmitPersist, TableObeys, MayFail
  <2>2. \A n \in Nat : (1..n) \cup {n + 1} = 1..(n + 1)
    OBVIOUS
  <2> QED BY <1>1, <2>1, <2>2
<1>3. CASE UNCHANGED <<log, seq>>
  BY <1>1, <1>3
<1>4. EmitPersist \/ UNCHANGED <<log, seq>>
  BY DEF Next, WorkerStep, EmitPublish, MarkFinished, Close, Open, OpenAt, Serve, Subscribe,
         ReadHistory, Replay, EndTerminal, Take, Disconnect, Crash, Reconcile, workerVars, vars
<1> QED BY <1>2, <1>3, <1>4

\* With every event persisted, the invariant holds in every reachable state.
LEMMA StreamInvariant == ASSUME TableObeys PROVE Spec => []StreamInv
<1>1. StreamInv /\ [Next]_vars => StreamInv'
  BY LogStep, NextIsKnown, StreamStep
<1> QED BY InitInv, <1>1, PTL DEF Spec

\* Where the replay of the table and the live queue meet (routes.py), no event
\* is left out and none is sent twice, however the worker, the reads and the
\* connections interleave.
THEOREM GaplessDelivery ==
  ASSUME TableObeys
  PROVE  Spec => []Gapless
<1>1. StreamInv => Gapless
  <2> SUFFICES ASSUME StreamInv, NEW s \in Streams, NEW i \in DOMAIN sent[s]
               PROVE  sent[s][i] = after[s] + i
    BY DEF Gapless
  <2>1. sent[s] \in Seq(1..MaxSeq)
    BY DEF StreamInv, TypeOK
  <2>2. i \in 1..Len(sent[s])
    BY <2>1
  <2> QED BY <2>2 DEF StreamInv, ConnectionInv
<1> QED BY <1>1, StreamInvariant, PTL

\* A connection that is told that the stream has ended has sent every event
\* after the one it started from.
THEOREM EndedIsComplete ==
  ASSUME TableObeys
  PROVE  Spec => []CompleteWhenEnded
<1>1. StreamInv => CompleteWhenEnded
  BY DEF StreamInv, ConnectionInv, CompleteWhenEnded, Position
<1> QED BY <1>1, StreamInvariant, PTL

-----------------------------------------------------------------------------
(* The refinement of EventFeed.                                            *)

\* A step that leaves every variable of the feed as it is.
FeedStutters == UNCHANGED <<seq, status, after, sent>>
                /\ \A s \in Streams : UNCHANGED FeedState(s)

LEMMA StutterStep == ASSUME FeedStutters PROVE UNCHANGED Feed!feedVars
  BY DEF FeedStutters, Feed!feedVars

\* Whatever a connection sends is the next event that the feed owes it.
LEMMA SendIsDelivery ==
  ASSUME StreamInv, StreamInv', NEW s \in Streams, NEW e \in Nat,
         spc[s] = "stream",
         sent' = [sent EXCEPT ![s] = Append(@, e)],
         UNCHANGED <<seq, status, spc, after>>
  PROVE  Feed!Deliver(s)
<1>1. /\ sent[s] \in Seq(Nat) /\ Len(sent[s]) \in Nat
      /\ seq \in Nat /\ after[s] \in Nat
  BY Numbers, MaxSeqAssumption DEF StreamInv, TypeOK
<1>2. sent'[s] = Append(sent[s], e)
  BY DEF StreamInv, TypeOK
<1>3. /\ Len(sent'[s]) = Len(sent[s]) + 1
      /\ sent'[s][Len(sent[s]) + 1] = e
  BY <1>1, <1>2, AppendItem
<1>4. e = after[s] + Len(sent[s]) + 1
  <2>1. \A i \in 1..Len(sent'[s]) : sent'[s][i] = after'[s] + i
    BY DEF StreamInv, ConnectionInv
  <2>2. sent'[s][Len(sent[s]) + 1] = after[s] + (Len(sent[s]) + 1)
    BY <1>1, <1>3, <2>1
  <2> QED BY <1>1, <1>3, <2>2
<1>5. after[s] + Len(sent[s]) < seq
  <2>1. after'[s] + Len(sent'[s]) <= seq'
    BY DEF StreamInv, ConnectionInv, Position
  <2> QED BY <1>1, <1>3, <2>1
<1>6. sent' = [sent EXCEPT ![s] = Append(@, after[s] + Len(@) + 1)]
  BY <1>4 DEF StreamInv, TypeOK
<1> QED BY <1>5, <1>6 DEF Feed!Deliver, FeedState

\* A connection ends only when the feed lets it.
LEMMA EndIsEnd ==
  ASSUME StreamInv, StreamInv', NEW s \in Streams,
         spc[s] = "stream",
         spc' = [spc EXCEPT ![s] = "ended"],
         UNCHANGED <<seq, status, after, sent>>
  PROVE  Feed!End(s)
<1>1. spc'[s] = "ended" /\ \A t \in Streams \ {s} : spc'[t] = spc[t]
  BY DEF StreamInv, TypeOK
<1>2. status = "terminal" /\ after[s] + Len(sent[s]) = seq
  BY <1>1 DEF StreamInv, ConnectionInv, Position
<1>3. [t \in Streams |-> FeedState(t)'] =
        [[t \in Streams |-> FeedState(t)] EXCEPT ![s] = "ended"]
  BY <1>1 DEF FeedState
<1> QED BY <1>2, <1>3 DEF Feed!End, FeedState

\* Every step of the stream is a step of the feed or leaves it alone.
LEMMA FeedStep ==
  ASSUME StreamInv, StreamInv', [Next]_vars
  PROVE  [Feed!Next]_Feed!feedVars
<1> USE DEF workerVars, streamVars
<1>1. CASE EmitPersist
  <2>1. status = "active"
    BY <1>1 DEF EmitPersist, StreamInv, WorkerInv
  <2>2. Feed!Emit
    BY <1>1, <2>1 DEF EmitPersist, Feed!Emit, FeedState
  <2> QED BY <2>2 DEF Feed!Next
<1>2. CASE EmitPublish \/ Close
  <2>1. FeedStutters
    BY <1>2 DEF EmitPublish, Close, FeedStutters, FeedState
  <2> QED BY <2>1, StutterStep
<1>3. CASE MarkFinished \/ Reconcile
  <2>1. CASE status = "active" /\ status' = "terminal"
    <3>1. Feed!Finish
      BY <1>3, <2>1 DEF MarkFinished, Reconcile, Feed!Finish, FeedState
    <3> QED BY <3>1 DEF Feed!Next
  <2>2. CASE UNCHANGED status
    <3>1. FeedStutters
      BY <1>3, <2>2 DEF MarkFinished, Reconcile, FeedStutters, FeedState
    <3> QED BY <3>1, StutterStep
  <2>3. status \in {"active", "terminal"} /\ status' \in {"active", "terminal"}
    BY DEF StreamInv, TypeOK
  <2> QED BY <1>3, <2>1, <2>2, <2>3 DEF MarkFinished, Reconcile
<1>4. ASSUME NEW s \in Streams, Open(s) PROVE Feed!Next
  <2>1. PICK a \in Seen : OpenAt(s, a)
    BY <1>4 DEF Open
  <2>2. a \in 0..seq
    BY <2>1, SeenIsEmitted
  <2>3. spc[s] = "new" /\ spc'[s] = "opened" /\ \A t \in Streams \ {s} : spc'[t] = spc[t]
    BY <2>1 DEF OpenAt, StreamInv, TypeOK
  <2>4. [t \in Streams |-> FeedState(t)'] =
          [[t \in Streams |-> FeedState(t)] EXCEPT ![s] = "open"]
    BY <2>3 DEF FeedState
  <2>5. after' = [after EXCEPT ![s] = a] /\ UNCHANGED <<seq, status, sent>>
    BY <2>1 DEF OpenAt
  <2>6. Feed!Connect(s)
    BY <2>2, <2>3, <2>4, <2>5 DEF Feed!Connect, FeedState
  <2> QED BY <2>6 DEF Feed!Next
<1>5. ASSUME NEW s \in Streams, Subscribe(s) \/ ReadHistory(s)
      PROVE  UNCHANGED Feed!feedVars
  <2>1. /\ UNCHANGED <<seq, status, after, sent>>
        /\ spc[s] \in {"opened", "subscribed"}
        /\ spc'[s] \in {"subscribed", "stream", "failed"}
        /\ \A t \in Streams \ {s} : spc'[t] = spc[t]
    BY <1>5 DEF Subscribe, ReadHistory, StreamInv, TypeOK
  <2>2. FeedStutters
    BY <2>1 DEF FeedStutters, FeedState
  <2> QED BY <2>2, StutterStep
<1>6. ASSUME NEW s \in Streams, Replay(s) PROVE Feed!Next
  <2>1. PICK e \in history[s] : sent' = [sent EXCEPT ![s] = Append(@, e)]
    BY <1>6 DEF Replay
  <2>2. e \in Nat
    BY <2>1, Numbers DEF StreamInv
  <2>3. spc[s] = "stream" /\ UNCHANGED <<seq, status, spc, after>>
    BY <1>6 DEF Replay
  <2>4. Feed!Deliver(s)
    BY <2>1, <2>2, <2>3, SendIsDelivery
  <2> QED BY <2>4 DEF Feed!Next
<1>7. ASSUME NEW s \in Streams, EndTerminal(s) PROVE Feed!Next
  <2>1. Feed!End(s)
    BY <1>7, EndIsEnd DEF EndTerminal
  <2> QED BY <2>1 DEF Feed!Next
<1>8. ASSUME NEW s \in Streams, Take(s) PROVE [Feed!Next]_Feed!feedVars
  <2> DEFINE e == Head(queue[s])
  <2>1. spc[s] = "stream" /\ UNCHANGED <<seq, status, after>> /\ e \in Nat
    <3>1. queue[s] \in Seq(Nat) /\ queue[s] # <<>>
      BY <1>8, Numbers DEF Take, StreamInv
    <3>2. e \in Nat
      BY <3>1, HeadTailProperties
    <3> QED BY <1>8, <3>2 DEF Take
  <2>2. CASE spc' = [spc EXCEPT ![s] = "ended"] /\ UNCHANGED sent
    <3>1. Feed!End(s)
      BY <2>1, <2>2, EndIsEnd
    <3> QED BY <3>1 DEF Feed!Next
  <2>3. CASE UNCHANGED <<spc, sent>>
    <3>1. FeedStutters
      BY <2>1, <2>3 DEF FeedStutters, FeedState
    <3> QED BY <3>1, StutterStep
  <2>4. CASE sent' = [sent EXCEPT ![s] = Append(@, e)] /\ UNCHANGED spc
    <3>1. Feed!Deliver(s)
      BY <2>1, <2>4, SendIsDelivery
    <3> QED BY <3>1 DEF Feed!Next
  <2> QED BY <1>8, <2>2, <2>3, <2>4 DEF Take
<1>9. ASSUME NEW S \in SUBSET Streams,
             \A s \in S : spc[s] \in {"opened", "subscribed", "stream"},
             \A s \in Streams : spc'[s] = IF s \in S THEN "gone" ELSE spc[s],
             UNCHANGED <<seq, status, after, sent>>
      PROVE  Feed!Next
  <2>1. [t \in Streams |-> FeedState(t)'] =
          [t \in Streams |-> IF t \in S THEN "gone" ELSE FeedState(t)]
    BY <1>9 DEF FeedState
  <2>2. S \in SUBSET {t \in Streams : [u \in Streams |-> FeedState(u)][t] = "open"}
    BY <1>9 DEF FeedState
  <2>3. Feed!Drop
    BY <1>9, <2>1, <2>2 DEF Feed!Drop
  <2> QED BY <2>3 DEF Feed!Next
<1>10. ASSUME NEW s \in Streams, Disconnect(s) PROVE Feed!Next
  <2>1. /\ spc[s] = "stream"
        /\ \A t \in Streams : spc'[t] = IF t \in {s} THEN "gone" ELSE spc[t]
        /\ UNCHANGED <<seq, status, after, sent>>
    BY <1>10 DEF Disconnect, StreamInv, TypeOK
  <2> QED BY <1>9, <2>1
<1>11. CASE Crash
  <2> DEFINE S == {t \in Streams : spc[t] \in {"opened", "subscribed", "stream"}}
  <2>1. /\ \A t \in Streams : spc'[t] = IF t \in S THEN "gone" ELSE spc[t]
        /\ UNCHANGED <<seq, status, after, sent>>
    BY <1>11 DEF Crash
  <2> QED BY <1>9, <2>1
<1>12. CASE UNCHANGED vars
  <2>1. FeedStutters
    BY <1>12 DEF vars, FeedStutters, FeedState
  <2> QED BY <2>1, StutterStep
<1> QED BY <1>1, <1>2, <1>3, <1>4, <1>5, <1>6, <1>7, <1>8, <1>10, <1>11, <1>12
        DEF Next, WorkerStep, Serve

\* The stream is the feed of EventFeed: table, bus, queue and replay together
\* deliver each event once, in order and completely, as if there were a single
\* list of events that each connection reads from where it started.
THEOREM Refinement == ASSUME TableObeys PROVE Spec => ImplementsFeed
<1>1. Init => Feed!Init
  <2> SUFFICES ASSUME Init PROVE Feed!Init
    OBVIOUS
  <2>1. [s \in Streams |-> FeedState(s)] = [s \in Streams |-> "new"]
    BY DEF Init, FeedState
  <2> QED BY <2>1 DEF Init, Feed!Init
<1>2. StreamInv /\ StreamInv' /\ [Next]_vars => [Feed!Next]_Feed!feedVars
  BY FeedStep
<1> QED BY <1>1, <1>2, StreamInvariant, PTL DEF Spec, ImplementsFeed, Feed!Spec
=============================================================================
