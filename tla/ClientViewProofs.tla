--------------------------- MODULE ClientViewProofs ---------------------------
(***************************************************************************)
(* Theorems about ClientView, for every number of events and losses and    *)
(* every set of database failures.                                         *)
(***************************************************************************)
EXTENDS ClientView, EventStreamProofs, FiniteSetTheorems

-----------------------------------------------------------------------------
(* What the client computes from the rows of get_events.                   *)

\* A function on 1..n whose values increase.
IncreasingTo(n, q) == \A i, j \in 1..n : i < j => q[i] < q[j]

\* An increasing list of positive numbers grows at least as fast as its indices.
LEMMA IncreasingAbove ==
  ASSUME NEW n \in Nat, NEW q \in [1..n -> Nat \ {0}], IncreasingTo(n, q)
  PROVE  \A i \in 1..n : i <= q[i]
<1> DEFINE Below == {i \in 1..n : q[i] < i}
<1>1. ASSUME Below # {} PROVE FALSE
  <2>1. Below \in SUBSET Nat
    OBVIOUS
  <2>2. PICK i \in Below : \A j \in Below : i <= j
    <3> HIDE DEF Below
    <3> QED BY <1>1, <2>1, LeastExists
  <2>3. q[i] \in Nat /\ q[i] >= 1 /\ i \in 1..n /\ i >= 2
    BY <2>2
  <2>4. i - 1 \in 1..n /\ i - 1 < i /\ i - 1 \notin Below
    BY <2>2, <2>3
  <2>5. q[i - 1] \in Nat /\ i - 1 <= q[i - 1]
    BY <2>4
  <2>6. q[i - 1] < q[i]
    BY <2>3, <2>4 DEF IncreasingTo
  <2> QED BY <2>2, <2>3, <2>5, <2>6
<1>2. ASSUME NEW i \in 1..n PROVE i <= q[i]
  <2>1. q[i] \in Nat /\ i \notin Below
    BY <1>1
  <2> QED BY <2>1
<1> QED BY <1>2

\* The only increasing list of 1..n that is in 1..n counts.
LEMMA IncreasingCounts ==
  ASSUME NEW n \in Nat, NEW q \in [1..n -> 1..n], IncreasingTo(n, q)
  PROVE  q = [i \in 1..n |-> i]
<1> DEFINE r == [i \in 1..n |-> n + 1 - q[n + 1 - i]]
<1>1. \A i \in 1..n : i <= q[i]
  <2>1. q \in [1..n -> Nat \ {0}]
    OBVIOUS
  <2> HIDE DEF r
  <2> QED BY <2>1, IncreasingAbove
<1>2. r \in [1..n -> Nat \ {0}] /\ IncreasingTo(n, r)
  <2>1. ASSUME NEW i \in 1..n PROVE n + 1 - i \in 1..n /\ r[i] \in Nat \ {0}
    <3>1. n + 1 - i \in 1..n
      OBVIOUS
    <3>2. q[n + 1 - i] \in 1..n
      BY <3>1
    <3> QED BY <3>1, <3>2
  <2>2. ASSUME NEW i \in 1..n, NEW j \in 1..n, i < j PROVE r[i] < r[j]
    <3>1. /\ n + 1 - i \in 1..n /\ n + 1 - j \in 1..n
          /\ n + 1 - j < n + 1 - i
      BY <2>2
    <3>2. q[n + 1 - j] < q[n + 1 - i] /\ q[n + 1 - j] \in 1..n /\ q[n + 1 - i] \in 1..n
      BY <3>1 DEF IncreasingTo
    <3> QED BY <3>2
  <2> QED BY <2>1, <2>2 DEF IncreasingTo
<1>3. \A i \in 1..n : i <= r[i]
  <2> HIDE DEF r
  <2> QED BY <1>2, IncreasingAbove
<1>4. ASSUME NEW i \in 1..n PROVE q[i] = i
  <2>1. n + 1 - i \in 1..n /\ n + 1 - (n + 1 - i) = i
    OBVIOUS
  <2>2. n + 1 - i <= n + 1 - q[i]
    BY <1>3, <2>1
  <2> QED BY <1>1, <2>2
<1> QED BY <1>4

\* Every set of seqs can be listed in order.
LEMMA OrderExists ==
  ASSUME NEW S \in SUBSET (1..MaxSeq)
  PROVE  /\ IsFiniteSet(S) /\ Cardinality(S) \in Nat
         /\ \E q \in [1..Cardinality(S) -> S] : IncreasingTo(Cardinality(S), q)
<1> DEFINE Listed(T) == \E q \in [1..Cardinality(T) -> T] : IncreasingTo(Cardinality(T), q)
           Bad == {n \in Nat : n <= MaxSeq /\ \E T \in SUBSET (1..n) : ~Listed(T)}
<1>0. ASSUME NEW n \in Nat, NEW T \in SUBSET (1..n)
      PROVE  IsFiniteSet(T) /\ Cardinality(T) \in Nat
  <2>1. 1 \in Int /\ n \in Int
    OBVIOUS
  <2>2. IsFiniteSet(1..n)
    BY <2>1, FS_Interval
  <2>3. IsFiniteSet(T)
    BY <2>2, FS_Subset
  <2> QED BY <2>3, FS_CardinalityType
<1>1. ASSUME Bad # {} PROVE FALSE
  <2>1. PICK n \in Bad : \A m \in Bad : n <= m
    <3>1. Bad \in SUBSET Nat
      OBVIOUS
    <3> HIDE DEF Bad
    <3> QED BY <1>1, <3>1, LeastExists
  <2>2. PICK T \in SUBSET (1..n) : ~Listed(T)
    BY <2>1
  <2>3. T # {}
    <3>1. SUFFICES ASSUME T = {} PROVE FALSE
      OBVIOUS
    <3>2. Cardinality(T) = 0
      BY <3>1, FS_EmptySet
    <3>3. [i \in 1..0 |-> i] \in [1..Cardinality(T) -> T]
      BY <3>2
    <3>4. Listed(T)
      BY <3>2, <3>3 DEF IncreasingTo
    <3> QED BY <2>2, <3>4
  <2>4. n \in Nat /\ n >= 1 /\ n <= MaxSeq
    <3>1. n \in Nat /\ n <= MaxSeq
      BY <2>1
    <3>2. PICK e \in T : e \in 1..n
      BY <2>2, <2>3
    <3> QED BY <3>1, <3>2
  <2>5. n - 1 \notin Bad /\ n - 1 \in Nat /\ n - 1 <= MaxSeq
    <3>1. n - 1 \in Nat /\ n - 1 <= MaxSeq /\ ~(n <= n - 1)
      BY <2>4, MaxSeqAssumption
    <3> HIDE DEF Bad
    <3> QED BY <2>1, <3>1
  <2> DEFINE R == T \ {n}
             k == Cardinality(R)
  <2>6. R \in SUBSET (1..(n - 1))
    BY <2>2, <2>4
  <2>7. Listed(R)
    BY <2>5, <2>6
  <2>8. n \in T
    <3>1. SUFFICES ASSUME n \notin T PROVE FALSE
      OBVIOUS
    <3>2. R = T
      BY <3>1
    <3> QED BY <2>2, <2>7, <3>2
  <2>9. k \in Nat /\ Cardinality(T) = k + 1
    <3>1. IsFiniteSet(T) /\ Cardinality(T) \in Nat
      BY <1>0, <2>2, <2>4
    <3>2. IsFiniteSet(R) /\ k = Cardinality(T) - 1
      BY <2>8, <3>1, FS_RemoveElement
    <3>3. k \in Nat
      BY <3>2, FS_CardinalityType
    <3> QED BY <3>1, <3>2, <3>3
  <2>10. PICK q \in [1..k -> R] : IncreasingTo(k, q)
    BY <2>7
  <2> DEFINE p == [i \in 1..(k + 1) |-> IF i = k + 1 THEN n ELSE q[i]]
  <2> HIDE DEF R, k
  <2>11. \A i \in 1..k : q[i] \in R /\ q[i] \in T /\ q[i] \in Nat /\ q[i] < n
    <3>1. \A i \in 1..k : q[i] \in R
      BY <2>10
    <3>2. \A x \in R : x \in T /\ x \in Nat /\ x < n
      BY <2>4, <2>6 DEF R
    <3> QED BY <3>1, <3>2
  <2>12. p \in [1..(k + 1) -> T]
    BY <2>8, <2>9, <2>11
  <2>13. IncreasingTo(k + 1, p)
    BY <2>9, <2>10, <2>11 DEF IncreasingTo
  <2>14. Listed(T)
    BY <2>9, <2>12, <2>13
  <2> QED BY <2>2, <2>14
<1>2. MaxSeq \in Nat /\ MaxSeq \notin Bad /\ MaxSeq <= MaxSeq
  <2> HIDE DEF Bad
  <2> QED BY <1>1, MaxSeqAssumption
<1>3. Listed(S)
  BY <1>2
<1> QED BY <1>0, <1>2, <1>3

\* A function on 1..n is a sequence.
LEMMA FunctionIsSeq ==
  ASSUME NEW X, NEW n \in Nat, NEW q \in [1..n -> X]
  PROVE  q \in Seq(X) /\ Len(q) = n
  OBVIOUS

\* What Ordered lists.
LEMMA OrderedLists ==
  ASSUME NEW S \in SUBSET (1..MaxSeq)
  PROVE  /\ Ordered(S) \in Seq(1..MaxSeq)
         /\ Increasing(Ordered(S))
         /\ Ordered(S) \in [1..Cardinality(S) -> S]
         /\ IncreasingTo(Cardinality(S), Ordered(S))
<1> DEFINE n == Cardinality(S)
<1>1. n \in Nat /\ \E q \in [1..n -> S] : IncreasingTo(n, q)
  BY OrderExists
<1>2. \E q \in [1..n -> S] : \A i, j \in DOMAIN q : i < j => q[i] < q[j]
  BY <1>1 DEF IncreasingTo
<1>3. /\ Ordered(S) \in [1..n -> S]
      /\ \A i, j \in DOMAIN Ordered(S) : i < j => Ordered(S)[i] < Ordered(S)[j]
  BY <1>2 DEF Ordered
<1>4. IncreasingTo(n, Ordered(S))
  BY <1>3 DEF IncreasingTo
<1>5. Ordered(S) \in [1..n -> 1..MaxSeq]
  BY <1>3
<1>6. Ordered(S) \in Seq(1..MaxSeq) /\ Len(Ordered(S)) = n
  BY <1>1, <1>5, FunctionIsSeq
<1> QED BY <1>3, <1>4, <1>6 DEF IncreasingTo, Increasing

\* The first events in order.
LEMMA OrderedFirst ==
  ASSUME NEW m \in 0..MaxSeq
  PROVE  Ordered(1..m) = [i \in 1..m |-> i]
<1>1. m \in Nat /\ 1..m \in SUBSET (1..MaxSeq)
  BY MaxSeqAssumption
<1>2. Cardinality(1..m) = m
  <2>1. 1 \in Int /\ m \in Int
    BY <1>1
  <2>2. Cardinality(1..m) = IF 1 > m THEN 0 ELSE m - 1 + 1
    BY <2>1, FS_Interval
  <2> QED BY <1>1, <2>2
<1>3. Ordered(1..m) \in [1..m -> 1..m] /\ IncreasingTo(m, Ordered(1..m))
  BY <1>1, <1>2, OrderedLists
<1> QED BY <1>1, <1>3, IncreasingCounts

\* No increasing list of seqs is longer than there are seqs.
LEMMA IncreasingIsShort ==
  ASSUME NEW q \in Seq(1..MaxSeq), Increasing(q)
  PROVE  Len(q) \in 0..MaxSeq
<1>1. /\ Len(q) \in Nat
      /\ q \in [1..Len(q) -> Nat \ {0}]
      /\ \A i \in 1..Len(q) : q[i] \in 1..MaxSeq
  BY MaxSeqAssumption
<1>2. \A i \in 1..Len(q) : i <= q[i]
  BY <1>1, IncreasingAbove DEF Increasing, IncreasingTo
<1>3. CASE Len(q) = 0
  BY <1>3, MaxSeqAssumption
<1>4. CASE Len(q) >= 1
  <2>1. Len(q) <= q[Len(q)] /\ q[Len(q)] \in 1..MaxSeq
    BY <1>1, <1>2, <1>4
  <2> QED BY <1>1, <2>1, MaxSeqAssumption
<1> QED BY <1>1, <1>3, <1>4

\* The status that an increasing list of events leads to: all but the last
\* event of the task show it as running, and the last one shows how it ended,
\* if it says so.
LEMMA FoldedStatus ==
  ASSUME NEW st, NEW evs \in Seq(1..MaxSeq), Increasing(evs)
  PROVE  Folded(st, evs) = IF Len(evs) = 0 THEN st
                           ELSE IF evs[Len(evs)] < MaxSeq THEN "running"
                           ELSE IF outcome = "done" THEN "done"
                           ELSE IF Len(evs) = 1 THEN st ELSE "running"
<1> DEFINE n == Len(evs)
           Step(g) == [k \in 0..n |-> IF k = 0 THEN st ELSE Applied(g[k - 1], evs[k])]
<1>1. n \in Nat /\ \A k \in 1..n : evs[k] \in 1..MaxSeq
  BY LenProperties, ElementOfSeq
<1>2. ASSUME NEW k \in 1..n, k >= 2
      PROVE  k - 1 \in 1..n /\ evs[k - 1] < MaxSeq
  <2>1. k - 1 \in 1..n /\ k - 1 < k
    BY <1>1, <1>2
  <2>2. evs[k - 1] < evs[k]
    BY <2>1 DEF Increasing
  <2>3. evs[k - 1] \in 1..MaxSeq /\ evs[k] \in 1..MaxSeq
    BY <1>1, <2>1
  <2> QED BY <2>1, <2>2, <2>3, MaxSeqAssumption
<1>3. \E g : g = Step(g)
  <2> DEFINE h == [k \in 0..n |-> IF k = 0 THEN st
                                  ELSE IF evs[k] < MaxSeq THEN "running"
                                  ELSE IF outcome = "done" THEN "done"
                                  ELSE IF k = 1 THEN st ELSE "running"]
  <2>1. ASSUME NEW k \in 1..n PROVE h[k] = Applied(h[k - 1], evs[k])
    <3>1. CASE k = 1
      BY <1>1, <3>1 DEF Applied
    <3>2. CASE k >= 2
      <4>1. k - 1 \in 1..n /\ h[k - 1] = "running"
        BY <1>1, <1>2, <3>2
      <4>2. k \in 0..n /\ k # 0 /\ k # 1
        BY <1>1, <3>2
      <4> QED BY <4>1, <4>2 DEF Applied
    <3> QED BY <1>1, <3>1, <3>2
  <2>2. h[0] = st
    BY <1>1
  <2>3. ASSUME NEW k \in 0..n
        PROVE  h[k] = IF k = 0 THEN st ELSE Applied(h[k - 1], evs[k])
    <3> HIDE DEF h
    <3>1. k = 0 \/ k \in 1..n
      BY <1>1
    <3> QED BY <1>1, <2>1, <2>2, <3>1
  <2>4. h = Step(h)
    BY <2>3
  <2> QED BY <2>4
<1>4. PICK f : f = Step(f) /\ Folded(st, evs) = f[n]
  <2> HIDE DEF Step
  <2>1. (CHOOSE g : g = Step(g)) = Step(CHOOSE g : g = Step(g))
    BY <1>3
  <2>2. Folded(st, evs) = (CHOOSE g : g = Step(g))[n]
    BY Zenon DEF Folded, Step
  <2> QED BY <2>1, <2>2
<1>5. \A k \in 0..n : f[k] = IF k = 0 THEN st ELSE Applied(f[k - 1], evs[k])
  BY <1>4
<1> HIDE DEF n, Step
<1>6. CASE n = 0
  BY <1>4, <1>5, <1>6 DEF n
<1>7. CASE n = 1
  <2>1. f[0] = st /\ f[1] = Applied(f[0], evs[1])
    BY <1>5, <1>7
  <2> QED BY <1>4, <1>7, <2>1 DEF n, Applied
<1>8. CASE n >= 2
  <2>1. /\ f[n] = Applied(f[n - 1], evs[n])
        /\ f[n - 1] = Applied(f[n - 1 - 1], evs[n - 1])
    <3>1. n \in 0..n /\ n # 0 /\ n - 1 \in 0..n /\ n - 1 # 0
      BY <1>1, <1>8
    <3> QED BY <1>5, <3>1
  <2>2. n \in 1..n /\ n # 0 /\ n # 1
    BY <1>1, <1>8
  <2>3. f[n - 1] = "running"
    BY <1>2, <1>8, <2>1, <2>2 DEF Applied
  <2> QED BY <1>4, <2>1, <2>2, <2>3 DEF n, Applied
<1> QED BY <1>1, <1>6, <1>7, <1>8

-----------------------------------------------------------------------------
(* The invariant.                                                          *)

\* The hook reads a connection only while it is streaming, and remembers the
\* last of the events it shows.
ShownInv ==
  /\ conn # None => cpc = "streaming"
  /\ cpc = "streaming" => conn \in Streams
  /\ lastSeq = LastOf(events)
  /\ Increasing(events)

\* The source began where its URL says, and the hook has all it handled.
SourceInv ==
  cpc = "streaming" =>
    /\ spc[conn] # "new"
    /\ after[conn] = url
    /\ url + read <= lastSeq

\* An answer under way is no shorter than what is shown, and complete if its
\* row is final.
AnswerInv ==
  /\ cpc \in {"events", "answer"} =>
       /\ snap.row \in Rows
       /\ snap.row # "running" => status = "terminal"
  /\ cpc = "answer" =>
       \E m \in lastSeq..seq : /\ snap.events = 1..m
                               /\ snap.row # "running" => m = seq

\* When every event was persisted, the hook shows the first events of the task,
\* all of them once it has stopped asking; a final status is never followed by
\* a new event.
HookInv ==
  /\ events = [i \in 1..lastSeq |-> i]
  /\ lastSeq <= seq
  /\ url <= lastSeq
  /\ SourceInv
  /\ AnswerInv
  /\ cpc \in {"rest", "closed"} => status = "terminal" /\ lastSeq = seq
  /\ view = "done" => (outcome = "done" /\ lastSeq = MaxSeq) \/ cpc = "rest"

\* What holds whatever fails, and what holds while every event was persisted.
ClientInv ==
  /\ ClientTypeOK
  /\ DeliveryInv
  /\ ShownInv
  /\ AllPersisted => StreamInv /\ HookInv

-----------------------------------------------------------------------------
(* The steps of the server, under a client.                                *)

\* A step of the server on its own.
Behind == /\ ServerStep({})
          /\ UNCHANGED <<outcome, clientVars>>
          /\ row' \in Rows /\ (row' = "running") = (status' = "active")

\* A step of the hook that the server does not notice.
Alone == UNCHANGED <<vars, outcome, row>>

LEMMA ServerActs ==
  ASSUME ClientTypeOK,
         Emit \/ Finish \/ CrashDown \/ Restart \/ \E s \in Streams : ServeOne(s)
  PROVE  Behind
<1>0. /\ row \in Rows /\ (row = "running") = (status = "active")
      /\ outcome \in Rows \ {"running"} /\ status \in {"active", "terminal"}
  BY DEF ClientTypeOK, TypeOK, Rows
<1>1. CASE Emit
  <2>1. UNCHANGED <<row, status, outcome, clientVars>>
    BY <1>1 DEF Emit, EmitPersist, EmitPublish, Close
  <2> QED BY <1>0, <1>1, <2>1 DEF Emit, Behind, ServerStep, WorkerStep
<1>2. CASE Finish
  <2>1. row' \in Rows /\ (row' = "running") = (status' = "active")
    BY <1>0, <1>2 DEF Finish, MarkFinished
  <2> QED BY <1>2, <2>1 DEF Finish, Behind, ServerStep, WorkerStep
<1>3. CASE Restart
  <2>1. row' \in Rows /\ (row' = "running") = (status' = "active")
    BY <1>0, <1>3 DEF Restart, Reconcile, Rows
  <2> QED BY <1>3, <2>1 DEF Restart, Behind, ServerStep
<1>4. CASE CrashDown
  <2>1. UNCHANGED <<row, status, outcome, clientVars>>
    BY <1>4 DEF CrashDown, Crash
  <2> QED BY <1>0, <1>4, <2>1 DEF CrashDown, Behind, ServerStep
<1>5. ASSUME NEW s \in Streams, ServeOne(s) PROVE Behind
  <2>1. UNCHANGED <<row, status, outcome, clientVars>>
    BY <1>5 DEF ServeOne, Serve, Subscribe, ReadHistory, Replay, EndTerminal, Take, workerVars
  <2> QED BY <1>0, <1>5, <2>1 DEF ServeOne, Behind, ServerStep
<1> QED BY <1>1, <1>2, <1>3, <1>4, <1>5

LEMMA Sides ==
  ASSUME ClientTypeOK, [ClientNext]_allVars
  PROVE  \/ Behind
         \/ \E s \in Streams : Recycle(s)
         \/ \E s \in Streams : Connect(s)
         \/ Alone
<1>1. CASE Select \/ Leave
  BY <1>1 DEF Select, Leave, Alone
<1>2. CASE ReadRow \/ ReadEvents \/ Hydrate \/ HydrateFails
  BY <1>2 DEF ReadRow, ReadEvents, Hydrate, HydrateFails, Alone
<1>3. CASE GetTicket \/ TicketFails \/ TicketExpires \/ Refused \/ StreamFails
  BY <1>3 DEF GetTicket, TicketFails, TicketExpires, Refused, StreamFails, Alone
<1>4. CASE ConnectionLost \/ TimerFires \/ Deliver \/ DeliverEnd
  BY <1>4 DEF ConnectionLost, TimerFires, Deliver, DeliverEnd, Alone
<1>5. CASE UNCHANGED allVars
  BY <1>5 DEF allVars, Alone
<1> QED BY ServerActs, <1>1, <1>2, <1>3, <1>4, <1>5 DEF ClientNext

\* What is left of a connection that is recycled.
LEMMA Recycled ==
  ASSUME TypeOK, NEW s \in Streams, Recycle(s)
  PROVE  /\ UNCHANGED <<proc, crashed, workerVars, row, outcome, clientVars>>
         /\ s # conn
         /\ spc'[s] = "new" /\ queue'[s] = <<>> /\ sent'[s] = <<>>
         /\ after'[s] = 0 /\ isTerminal'[s] = FALSE /\ s \notin subs'
         /\ \A t \in Streams \ {s} :
              /\ UNCHANGED <<queue[t], spc[t], after[t], isTerminal[t],
                             history[t], maxReplayed[t], sent[t]>>
              /\ t \in subs' <=> t \in subs
         /\ TypeOK'
<1> USE DEF TypeOK, Recycle, Unsubscribed
<1>1. /\ UNCHANGED <<proc, crashed, workerVars, row, outcome, clientVars>>
      /\ s # conn
  OBVIOUS
<1>2. /\ spc'[s] = "new" /\ queue'[s] = <<>> /\ sent'[s] = <<>>
      /\ after'[s] = 0 /\ isTerminal'[s] = FALSE /\ s \notin subs'
  OBVIOUS
<1>3. ASSUME NEW t \in Streams \ {s}
      PROVE  /\ UNCHANGED <<queue[t], spc[t], after[t], isTerminal[t],
                            history[t], maxReplayed[t], sent[t]>>
             /\ t \in subs' <=> t \in subs
  OBVIOUS
<1>4. TypeOK'
  <2>1. 0 \in 0..MaxSeq /\ <<>> \in Seq(0..MaxSeq) /\ <<>> \in Seq(1..MaxSeq)
    BY MaxSeqAssumption
  <2> QED BY <2>1 DEF workerVars
<1> QED BY <1>1, <1>2, <1>3, <1>4

\* Types, counters and order survive every step of client and server.
LEMMA ServerSide ==
  ASSUME ClientTypeOK, DeliveryInv, [ClientNext]_allVars
  PROVE  DeliveryInv'
<1>1. CASE Behind \/ Alone
  <2>1. ServerStep(0..MaxSeq) \/ UNCHANGED vars
    BY <1>1 DEF Behind, Alone, ServerStep, Opens
  <2> QED BY <2>1, DeliveryStep
<1>2. ASSUME NEW s \in Streams, Connect(s) PROVE DeliveryInv'
  <2>1. ServerStep(0..MaxSeq)
    BY <1>2 DEF Connect, ServerStep, Opens, ClientTypeOK
  <2> QED BY <2>1, DeliveryStep
<1>3. ASSUME NEW s \in Streams, Recycle(s) PROVE DeliveryInv'
  <2>1. /\ UNCHANGED <<seq, log, wpc, Published>>
        /\ TypeOK' /\ Published \in Int
    BY <1>3, Recycled, Numbers DEF DeliveryInv, workerVars, Published
  <2>2. CountInv'
    BY <2>1 DEF CountInv, DeliveryInv
  <2>3. OrderInv(s)'
    <3>1. queue'[s] = <<>> /\ sent'[s] = <<>> /\ spc'[s] = "new"
      BY <1>3, Recycled DEF DeliveryInv
    <3> QED BY <3>1 DEF OrderInv, QueueOrder, Increasing
  <2>4. ASSUME NEW t \in Streams \ {s} PROVE OrderInv(t)'
    <3>1. UNCHANGED <<queue[t], spc[t], history[t], maxReplayed[t], sent[t]>>
      BY <1>3, Recycled DEF DeliveryInv
    <3>2. Published <= Published' /\ Published' \in Int
      BY <2>1
    <3> QED BY <3>1, <3>2, OrderIdle
  <2> QED BY <2>1, <2>2, <2>3, <2>4 DEF DeliveryInv
<1> QED BY <1>1, <1>2, <1>3, Sides

-----------------------------------------------------------------------------
(* Types, and the order of what is shown.                                  *)

LEMMA LastOfList ==
  ASSUME NEW evs \in Seq(1..MaxSeq)
  PROVE  /\ LastOf(evs) = IF Len(evs) = 0 THEN 0 ELSE evs[Len(evs)]
         /\ LastOf(evs) \in 0..MaxSeq
<1>1. Len(evs) \in Nat /\ (evs = <<>> <=> Len(evs) = 0)
  BY LenProperties, EmptySeq
<1>2. Len(evs) # 0 => evs[Len(evs)] \in 1..MaxSeq
  <2>1. Len(evs) # 0 => Len(evs) \in 1..Len(evs)
    BY <1>1
  <2> QED BY <2>1, ElementOfSeq
<1> QED BY <1>1, <1>2, MaxSeqAssumption DEF LastOf, Last

\* What hydration shows.
LEMMA HydrationShows ==
  ASSUME ClientTypeOK, Hydrate
  PROVE  /\ events' \in Seq(1..MaxSeq) /\ Increasing(events')
         /\ lastSeq' \in 0..MaxSeq /\ lastSeq' = LastOf(events')
         /\ view' \in Rows \cup {None}
         /\ cpc' \in {"ticket", "rest"}
<1>1. snap.row \in Rows \cup {None} /\ snap.events \in SUBSET (1..MaxSeq)
  BY DEF ClientTypeOK
<1>2. events' = Ordered(snap.events) /\ lastSeq' = LastOf(events')
  BY DEF Hydrate
<1>3. events' \in Seq(1..MaxSeq) /\ Increasing(events')
  BY <1>1, <1>2, OrderedLists
<1>4. lastSeq' \in 0..MaxSeq
  BY <1>2, <1>3, LastOfList
<1>5. Folded(snap.row, events') \in Rows \cup {None}
  BY <1>1, <1>3, FoldedStatus DEF Rows
<1>6. view' \in Rows \cup {None}
  BY <1>2, <1>5 DEF Hydrate, Hydrated, Rows
<1> QED BY <1>2, <1>3, <1>4, <1>6 DEF Hydrate

\* What handleEvent does with the next event.
LEMMA DeliveryShows ==
  ASSUME ClientTypeOK, DeliveryInv, ShownInv, Deliver
  PROVE  /\ conn \in Streams /\ cpc = "streaming" /\ UNCHANGED <<cpc, url, conn>>
         /\ read' = read + 1 /\ read + 1 \in 1..Len(sent[conn]) /\ read' \in 0..MaxSeq
         /\ \E e \in 1..MaxSeq :
              /\ e = sent[conn][read + 1]
              /\ \/ e <= lastSeq /\ UNCHANGED hookVars
                 \/ /\ lastSeq < e
                    /\ events' = Append(events, e)
                    /\ view' = Applied(view, e)
                    /\ lastSeq' = e
<1>1. conn \in Streams /\ cpc = "streaming" /\ UNCHANGED <<cpc, url, conn>>
  BY DEF Deliver, ShownInv, sourceVars
<1>2. sent[conn] \in Seq(1..MaxSeq) /\ Increasing(sent[conn]) /\ Len(sent[conn]) \in Nat
  BY <1>1, LenProperties DEF ClientTypeOK, TypeOK, DeliveryInv, OrderInv
<1>3. Len(sent[conn]) <= MaxSeq
  BY <1>2, IncreasingIsShort
<1>4. /\ read' = read + 1 /\ read + 1 \in 1..Len(sent[conn]) /\ read' \in 0..MaxSeq
  BY <1>2, <1>3, MaxSeqAssumption DEF Deliver, ClientTypeOK
<1>5. sent[conn][read + 1] \in 1..MaxSeq
  BY <1>2, <1>4, ElementOfSeq
<1>6. lastSeq \in Nat
  BY DEF ClientTypeOK
<1> QED BY <1>1, <1>4, <1>5, <1>6 DEF Deliver, IsNew

LEMMA ClientTypeStep ==
  ASSUME ClientTypeOK, DeliveryInv, ShownInv, [ClientNext]_allVars
  PROVE  ClientTypeOK'
<1>0. TypeOK'
  BY ServerSide DEF DeliveryInv
<1> USE <1>0 DEF ClientTypeOK, clientVars, hookVars, sourceVars
<1>1. CASE Behind
  BY <1>1 DEF Behind
<1>2. ASSUME NEW s \in Streams, Recycle(s) PROVE ClientTypeOK'
  BY <1>2, Recycled DEF workerVars
<1>3. ASSUME NEW s \in Streams, Connect(s) PROVE ClientTypeOK'
  <2>1. 0 \in 0..MaxSeq
    BY MaxSeqAssumption
  <2> QED BY <1>3, <2>1 DEF Connect, OpenAt, workerVars
<1>4. CASE Select \/ Leave
  <2>1. NoSnap \in [row : Rows \cup {None}, events : SUBSET (1..MaxSeq)]
    BY DEF NoSnap
  <2>2. 0 \in 0..MaxSeq /\ <<>> \in Seq(1..MaxSeq)
    BY MaxSeqAssumption
  <2> QED BY <1>4, <2>1, <2>2 DEF Select, Leave, NoSource, vars
<1>5. CASE ReadRow \/ ReadEvents
  <2>1. log \in SUBSET (1..MaxSeq)
    BY DEF TypeOK
  <2> QED BY <1>5, <2>1 DEF ReadRow, ReadEvents, vars
<1>6. CASE Hydrate
  <2>1. NoSnap \in [row : Rows \cup {None}, events : SUBSET (1..MaxSeq)]
    BY DEF NoSnap
  <2> QED BY <1>6, <2>1, HydrationShows DEF Hydrate, vars
<1>7. losses' \in 0..MaxLosses \/ ~(Lose \/ UNCHANGED losses)
  BY LossesAssumption DEF Lose
<1>8. CASE HydrateFails
  <2>1. NoSnap \in [row : Rows \cup {None}, events : SUBSET (1..MaxSeq)]
    BY DEF NoSnap
  <2>2. losses' \in 0..MaxLosses
    BY <1>7, <1>8 DEF HydrateFails
  <2> QED BY <1>8, <2>1, <2>2 DEF HydrateFails, vars
<1>9. CASE GetTicket \/ TimerFires
  BY <1>9 DEF GetTicket, TimerFires, vars
<1>10. CASE TicketFails \/ TicketExpires \/ Refused \/ StreamFails \/ ConnectionLost
  <2>1. losses' \in 0..MaxLosses
    BY <1>7, <1>10 DEF TicketFails, TicketExpires, Refused, StreamFails, ConnectionLost
  <2>2. 0 \in 0..MaxSeq
    BY MaxSeqAssumption
  <2> QED BY <1>10, <2>1, <2>2
          DEF TicketFails, TicketExpires, Refused, StreamFails, ConnectionLost,
              Retry, Broken, NoSource, vars
<1>11. CASE Deliver
  <2>1. PICK e \in 1..MaxSeq :
          \/ UNCHANGED hookVars
          \/ /\ events' = Append(events, e)
             /\ view' = Applied(view, e)
             /\ lastSeq' = e
    BY <1>11, DeliveryShows
  <2>2. Append(events, e) \in Seq(1..MaxSeq) /\ e \in 0..MaxSeq
    BY MaxSeqAssumption
  <2>3. Applied(view, e) \in Rows \cup {None}
    BY DEF Applied, Rows
  <2>4. events' \in Seq(1..MaxSeq) /\ view' \in Rows \cup {None} /\ lastSeq' \in 0..MaxSeq
    BY <2>1, <2>2, <2>3
  <2>5. read' \in 0..MaxSeq
    BY <1>11, DeliveryShows
  <2> QED BY <1>11, <2>4, <2>5 DEF Deliver, vars
<1>12. CASE DeliverEnd
  <2>1. 0 \in 0..MaxSeq
    BY MaxSeqAssumption
  <2> QED BY <1>12, <2>1 DEF DeliverEnd, NoSource, vars
<1>13. CASE UNCHANGED allVars
  BY <1>13 DEF allVars, vars
<1>14. CASE Emit \/ Finish \/ CrashDown \/ Restart \/ \E s \in Streams : ServeOne(s)
  <2>1. Behind
    BY <1>14, ServerActs
  <2> QED BY <1>1, <2>1
<1> QED BY <1>2, <1>3, <1>4, <1>5, <1>6, <1>8, <1>9, <1>10, <1>11, <1>12, <1>13, <1>14
        DEF ClientNext

\* The events shown increase, and only a streaming hook reads a connection.
LEMMA ShownStep ==
  ASSUME ClientTypeOK, DeliveryInv, ShownInv, [ClientNext]_allVars
  PROVE  ShownInv'
<1> USE DEF ShownInv, hookVars, sourceVars, clientVars
<1>1. CASE Behind \/ \E s \in Streams : Recycle(s)
  <2>1. UNCHANGED clientVars
    BY <1>1 DEF Behind, Recycle
  <2> QED BY <2>1 DEF LastOf
<1>2. ASSUME NEW s \in Streams, Connect(s) PROVE ShownInv'
  BY <1>2 DEF Connect
<1>3. CASE Select \/ ReadRow \/ ReadEvents \/ HydrateFails \/ GetTicket \/ TicketExpires
           \/ TimerFires
  BY <1>3 DEF Select, ReadRow, ReadEvents, HydrateFails, GetTicket, TicketExpires, TimerFires
<1>4. CASE TicketFails \/ Refused \/ StreamFails \/ ConnectionLost \/ DeliverEnd
  BY <1>4 DEF TicketFails, Refused, StreamFails, ConnectionLost, DeliverEnd,
              Retry, Broken, NoSource
<1>5. CASE Leave
  <2>1. events' = <<>> /\ lastSeq' = 0 /\ cpc' = "off" /\ conn' = None
    BY <1>5 DEF Leave, NoSource
  <2> QED BY <2>1 DEF LastOf, Increasing
<1>6. CASE Hydrate
  <2>1. UNCHANGED conn /\ conn = None
    BY <1>6 DEF Hydrate
  <2> QED BY <1>6, <2>1, HydrationShows
<1>7. CASE Deliver
  <2>1. PICK e \in 1..MaxSeq :
          \/ UNCHANGED hookVars
          \/ /\ lastSeq < e
             /\ events' = Append(events, e)
             /\ lastSeq' = e
    BY <1>7, DeliveryShows
  <2>2. cpc' = "streaming" /\ conn' \in Streams
    BY <1>7, DeliveryShows
  <2>3. CASE UNCHANGED hookVars
    BY <2>2, <2>3
  <2>4. CASE lastSeq < e /\ events' = Append(events, e) /\ lastSeq' = e
    <3>1. /\ events \in Seq(1..MaxSeq) /\ events \in Seq(Nat) /\ Len(events) \in Nat
          /\ e \in Nat /\ lastSeq \in Nat
      <4>1. 1..MaxSeq \subseteq Nat
        BY MaxSeqAssumption
      <4>2. events \in Seq(1..MaxSeq)
        BY DEF ClientTypeOK
      <4>3. events \in Seq(Nat) /\ Len(events) \in Nat
        BY <4>1, <4>2, SeqMonotonic, LenProperties
      <4> QED BY <4>1, <4>2, <4>3, MaxSeqAssumption DEF ClientTypeOK
    <3>2. \A i \in 1..Len(events) : events[i] < e
      <4>1. Len(events) # 0 => lastSeq = events[Len(events)]
        BY <3>1, LastOfList
      <4>2. ASSUME NEW i \in 1..Len(events) PROVE events[i] <= lastSeq /\ events[i] \in Nat
        <5>1. i = Len(events) \/ i < Len(events)
          BY <3>1
        <5>2. Len(events) \in 1..Len(events) /\ events[i] \in Nat
          BY <3>1, ElementOfSeq
        <5> QED BY <3>1, <4>1, <5>1, <5>2 DEF Increasing
      <4> QED BY <2>4, <3>1, <4>2
    <3>3. Increasing(events')
      BY <2>4, <3>1, <3>2, AppendGreater
    <3>4. LastOf(events') = e
      <4>1. /\ Append(events, e) \in Seq(1..MaxSeq)
            /\ Len(Append(events, e)) = Len(events) + 1
            /\ Append(events, e)[Len(events) + 1] = e
        BY <3>1, AppendItem
      <4>2. Len(events) + 1 # 0
        BY <3>1
      <4> QED BY <2>4, <4>1, <4>2, LastOfList
    <3> QED BY <2>2, <2>4, <3>3, <3>4
  <2> QED BY <2>1, <2>3, <2>4
<1>8. CASE UNCHANGED allVars
  BY <1>8 DEF allVars, LastOf
<1>9. CASE Emit \/ Finish \/ CrashDown \/ Restart \/ \E s \in Streams : ServeOne(s)
  <2>1. Behind
    BY <1>9, ServerActs
  <2> QED BY <1>1, <2>1
<1> QED BY <1>1, <1>2, <1>3, <1>4, <1>5, <1>6, <1>7, <1>8, <1>9 DEF ClientNext

LEMMA ShownInit == ASSUME ClientInit PROVE ClientTypeOK /\ DeliveryInv /\ ShownInv
<1>1. DeliveryInv /\ TypeOK
  BY DeliveryInit DEF ClientInit, DeliveryInv
<1>2. ShownInv
  BY DEF ClientInit, ShownInv, LastOf, Increasing
<1>3. 0 \in 0..MaxSeq /\ 0 \in 0..MaxLosses /\ <<>> \in Seq(1..MaxSeq)
  BY MaxSeqAssumption, LossesAssumption
<1>4. NoSnap \in [row : Rows \cup {None}, events : SUBSET (1..MaxSeq)]
  BY DEF NoSnap
<1>5. ClientTypeOK
  BY <1>1, <1>3, <1>4 DEF ClientInit, Init, ClientTypeOK, Rows
<1> QED BY <1>1, <1>2, <1>5

LEMMA ShownInvariant == ClientSpec => [](ClientTypeOK /\ DeliveryInv /\ ShownInv)
<1>1. /\ ClientTypeOK /\ DeliveryInv /\ ShownInv
      /\ [ClientNext]_allVars
      => (ClientTypeOK /\ DeliveryInv /\ ShownInv)'
  BY ServerSide, ClientTypeStep, ShownStep
<1> QED BY ShownInit, <1>1, PTL DEF ClientSpec

\* Every variable of server and client keeps its type, whatever fails and however
\* often the client returns.
THEOREM TypesAreKept == ClientSpec => []ClientTypeOK
  BY ShownInvariant, PTL

\* Whatever is hydrated, replayed, sent live or repeated after a lost connection,
\* no event is shown twice or after a later one.
THEOREM ShownOnce == ClientSpec => []ViewInOrder
<1>1. ClientTypeOK /\ ShownInv => ViewInOrder
  <2> SUFFICES ASSUME ClientTypeOK, ShownInv PROVE ViewInOrder
    OBVIOUS
  <2>1. DOMAIN events = 1..Len(events)
    BY LenProperties DEF ClientTypeOK
  <2> QED BY <2>1 DEF ShownInv, Increasing, ViewInOrder
<1> QED BY <1>1, ShownInvariant, PTL

\* The connections of a client that returns keep their order as well.
THEOREM SentOnce == ClientSpec => []InOrderOnce
  BY OrderedDelivery, ShownInvariant, PTL

-----------------------------------------------------------------------------
(* While every event was persisted.                                        *)

\* An event that was left out of the table stays out of it.
LEMMA PersistedBefore ==
  ASSUME ClientTypeOK, DeliveryInv, [ClientNext]_allVars, AllPersisted'
  PROVE  AllPersisted
<1>1. seq \in Nat /\ log \subseteq 1..seq
  BY Numbers DEF DeliveryInv, CountInv
<1>2. CASE EmitPersist
  <2>1. seq' = seq + 1 /\ log' \subseteq log \cup {seq + 1} /\ log' = 1..seq'
    BY <1>2 DEF EmitPersist, AllPersisted
  <2>2. 1..seq \subseteq log
    BY <1>1, <2>1
  <2> QED BY <1>1, <2>2 DEF AllPersisted
<1>3. CASE UNCHANGED <<log, seq>>
  BY <1>3 DEF AllPersisted
<1>4. EmitPersist \/ UNCHANGED <<log, seq>>
  <2>1. CASE Behind
    BY <2>1 DEF Behind, ServerStep, Opens, WorkerStep, EmitPublish, MarkFinished, Close, Serve,
                Subscribe, ReadHistory, Replay, EndTerminal, Take, Disconnect, Crash, Reconcile,
                workerVars
  <2>2. ASSUME NEW s \in Streams, Recycle(s) \/ Connect(s) PROVE UNCHANGED <<log, seq>>
    BY <2>2 DEF Recycle, Connect, OpenAt, workerVars
  <2>3. CASE Alone
    BY <2>3 DEF Alone, vars
  <2> QED BY <2>1, <2>2, <2>3, Sides
<1> QED BY <1>2, <1>3, <1>4

\* The invariant of the connections survives every step.
LEMMA StreamSide ==
  ASSUME ClientTypeOK, StreamInv, HookInv, [ClientNext]_allVars, AllPersisted'
  PROVE  StreamInv'
<1>0. log' = 1..seq'
  BY DEF AllPersisted
<1>1. CASE Behind \/ Alone
  <2>1. ServerStep(0..seq) \/ UNCHANGED vars
    BY <1>1 DEF Behind, Alone, ServerStep, Opens
  <2> QED BY <1>0, <2>1, StreamStep
<1>2. ASSUME NEW s \in Streams, Connect(s) PROVE StreamInv'
  <2>1. url \in 0..seq
    BY MaxSeqAssumption DEF HookInv, ClientTypeOK, TypeOK
  <2>2. ServerStep(0..seq)
    BY <1>2, <2>1 DEF Connect, ServerStep, Opens
  <2> QED BY <1>0, <2>2, StreamStep
<1>3. ASSUME NEW s \in Streams, Recycle(s) PROVE StreamInv'
  <2>1. /\ UNCHANGED <<proc, crashed, seq, log, status, wpc>>
        /\ TypeOK' /\ seq \in Nat
    <3>1. UNCHANGED <<proc, crashed, workerVars>> /\ TypeOK'
      BY <1>3, Recycled DEF StreamInv
    <3> QED BY <3>1, Numbers DEF StreamInv, workerVars
  <2>2. WorkerInv'
    <3>1. \A t \in Streams : spc'[t] = spc[t] \/ spc'[t] = "new"
      BY <1>3, Recycled DEF StreamInv
    <3> QED BY <2>1, <3>1 DEF StreamInv, WorkerInv
  <2>3. ConnectionInv(s)'
    <3>1. /\ after'[s] = 0 /\ sent'[s] = <<>> /\ spc'[s] = "new"
          /\ queue'[s] = <<>> /\ s \notin subs' /\ isTerminal'[s] = FALSE
      BY <1>3, Recycled DEF StreamInv
    <3>2. Position(s)' = 0
      BY <3>1 DEF Position
    <3> QED BY <2>1, <3>1, <3>2 DEF ConnectionInv
  <2>4. ASSUME NEW t \in Streams \ {s} PROVE ConnectionInv(t)'
    <3>1. /\ UNCHANGED <<queue[t], spc[t], after[t], isTerminal[t],
                         history[t], maxReplayed[t], sent[t]>>
          /\ t \in subs' <=> t \in subs
      BY <1>3, Recycled DEF StreamInv
    <3> QED BY <2>1, <3>1, ConnectionIdle DEF StreamInv
  <2> QED BY <2>1, <2>2, <2>3, <2>4 DEF StreamInv
<1> QED BY <1>1, <1>2, <1>3, Sides

\* What the hook can notice of a step of the server: events are added only to an
\* active task, a finished one stays finished, and its connection goes on from
\* where it started.
LEMMA ServerEffect ==
  ASSUME StreamInv, ServerStep({})
  PROVE  /\ seq' \in {seq, seq + 1}
         /\ status = "terminal" => status' = "terminal" /\ seq' = seq
         /\ \A s \in Streams : spc[s] # "new" => spc'[s] # "new" /\ after'[s] = after[s]
<1> USE DEF workerVars, streamVars, StreamInv, TypeOK
<1>1. CASE EmitPersist
  BY <1>1 DEF EmitPersist, WorkerInv
<1>2. CASE EmitPublish \/ MarkFinished \/ Close
  BY <1>2 DEF EmitPublish, MarkFinished, Close
<1>3. ASSUME NEW t \in Streams, Serve(t) \/ Disconnect(t)
      PROVE  /\ UNCHANGED <<seq, status, after>>
             /\ \A s \in Streams : spc[s] # "new" => spc'[s] # "new"
  <2>1. UNCHANGED <<seq, status, after>>
    BY <1>3 DEF Serve, Subscribe, ReadHistory, Replay, EndTerminal, Take, Disconnect
  <2>2. spc' = spc \/ \E p \in {"subscribed", "stream", "ended", "failed", "gone"} :
                        spc' = [spc EXCEPT ![t] = p]
    BY <1>3 DEF Serve, Subscribe, ReadHistory, Replay, EndTerminal, Take, Disconnect
  <2> QED BY <2>1, <2>2
<1>4. CASE Crash \/ Reconcile
  BY <1>4 DEF Crash, Reconcile
<1> QED BY <1>1, <1>2, <1>3, <1>4 DEF ServerStep, Opens, WorkerStep

\* The hook does not move.
LEMMA HookIdle ==
  ASSUME ClientTypeOK, HookInv, UNCHANGED <<outcome, clientVars>>,
         seq \in Nat, seq' \in Nat, seq <= seq',
         status = "terminal" => status' = "terminal" /\ seq' = seq,
         cpc = "streaming" => spc'[conn] # "new" /\ after'[conn] = after[conn]
  PROVE  HookInv'
<1> USE DEF HookInv, clientVars, hookVars, sourceVars
<1>1. lastSeq \in Nat
  BY DEF ClientTypeOK
<1>2. lastSeq <= seq'
  BY <1>1
<1>3. SourceInv'
  BY DEF SourceInv
<1>4. AnswerInv'
  <2>1. \A m \in lastSeq..seq : m \in lastSeq..seq' /\ (status = "terminal" /\ m = seq => m = seq')
    BY <1>1
  <2> QED BY <2>1 DEF AnswerInv
<1> QED BY <1>2, <1>3, <1>4

\* What hydration makes of an answer with the first events of the task.
LEMMA HydrationFirst ==
  ASSUME ClientTypeOK, Hydrate, NEW m \in 0..MaxSeq, snap.events = 1..m,
         snap.row \in Rows
  PROVE  /\ events' = [i \in 1..m |-> i]
         /\ lastSeq' = m
         /\ m = MaxSeq /\ outcome = "done" => view' = "done"
         /\ view' = "done" /\ snap.row # "done" => outcome = "done" /\ m = MaxSeq
<1> DEFINE evs == [i \in 1..m |-> i]
<1>1. Ordered(1..m) = evs
  BY OrderedFirst
<1>2. events' = evs /\ lastSeq' = LastOf(evs) /\ view' = Hydrated(snap)
  BY <1>1 DEF Hydrate
<1>3. m \in Nat /\ evs \in Seq(1..MaxSeq) /\ Len(evs) = m
  <2>1. m \in Nat /\ evs \in [1..m -> 1..MaxSeq]
    BY MaxSeqAssumption
  <2> HIDE DEF evs
  <2> QED BY <2>1, FunctionIsSeq
<1>4. m # 0 => evs[m] = m
  BY <1>3
<1>5. lastSeq' = m
  BY <1>2, <1>3, <1>4, LastOfList
<1>6. Increasing(evs)
  BY <1>3 DEF Increasing
<1> HIDE DEF evs
<1>7. Folded(snap.row, evs) = IF m = 0 THEN snap.row
                              ELSE IF m < MaxSeq THEN "running"
                              ELSE IF outcome = "done" THEN "done"
                              ELSE IF m = 1 THEN snap.row ELSE "running"
  BY <1>3, <1>4, <1>6, FoldedStatus
<1>8. view' = IF snap.row = "done" THEN "done" ELSE Folded(snap.row, evs)
  BY <1>1, <1>2 DEF Hydrated
<1> QED BY <1>2, <1>3, <1>5, <1>7, <1>8, MaxSeqAssumption DEF evs

\* The next event of a stream without gaps is known or the next one to show.
LEMMA DeliveryExtends ==
  ASSUME ClientTypeOK, DeliveryInv, ShownInv, StreamInv, HookInv, Deliver
  PROVE  /\ conn \in Streams /\ cpc = "streaming" /\ UNCHANGED <<cpc, url, conn>>
         /\ \/ UNCHANGED hookVars /\ url + read' <= lastSeq
            \/ /\ lastSeq < seq
               /\ lastSeq' = lastSeq + 1
               /\ events' = [i \in 1..lastSeq' |-> i]
               /\ view' = Applied(view, lastSeq')
               /\ url + read' = lastSeq'
<1>1. /\ conn \in Streams /\ cpc = "streaming" /\ UNCHANGED <<cpc, url, conn>>
      /\ read' = read + 1 /\ read + 1 \in 1..Len(sent[conn])
  BY DeliveryShows
<1>2. PICK e \in 1..MaxSeq :
        /\ e = sent[conn][read + 1]
        /\ \/ e <= lastSeq /\ UNCHANGED hookVars
           \/ /\ lastSeq < e
              /\ events' = Append(events, e)
              /\ view' = Applied(view, e)
              /\ lastSeq' = e
  BY DeliveryShows
<1>3. /\ after[conn] = url /\ url + read <= lastSeq
      /\ sent[conn][read + 1] = after[conn] + (read + 1)
      /\ after[conn] + Len(sent[conn]) <= seq
  BY <1>1 DEF HookInv, SourceInv, StreamInv, ConnectionInv, Position
<1>4. /\ lastSeq \in Nat /\ url \in Nat /\ read \in Nat /\ seq \in Nat /\ e \in Nat
      /\ Len(sent[conn]) \in Nat
  BY <1>1, Numbers DEF ClientTypeOK, TypeOK
<1>5. e = url + read + 1 /\ e <= seq
  BY <1>1, <1>2, <1>3, <1>4
<1>6. CASE e <= lastSeq /\ UNCHANGED hookVars
  BY <1>1, <1>4, <1>5, <1>6
<1>7. CASE lastSeq < e /\ events' = Append(events, e) /\ view' = Applied(view, e) /\ lastSeq' = e
  <2>1. e = lastSeq + 1
    BY <1>3, <1>4, <1>5, <1>7
  <2>2. events = [i \in 1..lastSeq |-> i]
    BY DEF HookInv
  <2>3. Append([i \in 1..lastSeq |-> i], lastSeq + 1) = [i \in 1..(lastSeq + 1) |-> i]
    BY <1>4
  <2> QED BY <1>1, <1>4, <1>5, <1>7, <2>1, <2>2, <2>3
<1> QED BY <1>1, <1>2, <1>6, <1>7

\* What the hook shows, and where its source is, survives every step.
LEMMA HookStep ==
  ASSUME ClientTypeOK, DeliveryInv, ShownInv, StreamInv, HookInv, AllPersisted,
         [ClientNext]_allVars, ClientTypeOK'
  PROVE  HookInv'
<1>0. /\ seq \in Nat /\ seq' \in Nat /\ lastSeq \in Nat /\ url \in Nat /\ read \in Nat
      /\ lastSeq <= MaxSeq
  BY MaxSeqAssumption DEF ClientTypeOK, TypeOK
<1> USE DEF HookInv, clientVars, hookVars, sourceVars
<1>1. CASE Behind
  <2>1. /\ seq' \in {seq, seq + 1}
        /\ status = "terminal" => status' = "terminal" /\ seq' = seq
        /\ \A s \in Streams : spc[s] # "new" => spc'[s] # "new" /\ after'[s] = after[s]
    BY <1>1, ServerEffect DEF Behind
  <2>2. seq <= seq'
    BY <1>0, <2>1
  <2>3. cpc = "streaming" => spc'[conn] # "new" /\ after'[conn] = after[conn]
    BY <2>1 DEF SourceInv, ShownInv
  <2> QED BY <1>0, <1>1, <2>1, <2>2, <2>3, HookIdle DEF Behind
<1>2. ASSUME NEW s \in Streams, Recycle(s) PROVE HookInv'
  <2>1. /\ UNCHANGED <<seq, status, outcome, clientVars>> /\ s # conn
    BY <1>2, Recycled DEF StreamInv, workerVars
  <2>2. cpc = "streaming" => spc'[conn] # "new" /\ after'[conn] = after[conn]
    BY <1>2, <2>1, Recycled DEF StreamInv, SourceInv, ShownInv
  <2> QED BY <1>0, <2>1, <2>2, HookIdle
<1>3. ASSUME NEW s \in Streams, Connect(s) PROVE HookInv'
  <2>1. spc'[s] = "opened" /\ after'[s] = url
    BY <1>3 DEF Connect, OpenAt, StreamInv, TypeOK
  <2>2. SourceInv' /\ AnswerInv'
    BY <1>0, <1>3, <2>1 DEF Connect, SourceInv, AnswerInv
  <2> QED BY <1>3, <2>2 DEF Connect, OpenAt, workerVars
<1>4. CASE UNCHANGED allVars
  BY <1>0, <1>4, HookIdle DEF allVars, vars, SourceInv
<1>5. ASSUME Alone, UNCHANGED hookVars, url' \in {url, lastSeq, 0},
             cpc' \notin {"events", "answer", "streaming", "rest", "closed"},
             cpc # "rest"
      PROVE  HookInv'
  <2>1. SourceInv' /\ AnswerInv'
    BY <1>5 DEF SourceInv, AnswerInv
  <2>2. UNCHANGED <<seq, status, outcome>>
    BY <1>5 DEF Alone, vars
  <2> QED BY <1>0, <1>5, <2>1, <2>2
<1>6. CASE Select \/ HydrateFails \/ GetTicket \/ TimerFires
  BY <1>5, <1>6 DEF Select, HydrateFails, GetTicket, TimerFires, Alone
<1>7. CASE TicketFails \/ Refused \/ StreamFails \/ ConnectionLost
  BY <1>5, <1>7 DEF TicketFails, Refused, StreamFails, ConnectionLost, Retry, Broken, NoSource,
                    Alone
<1>8. CASE TicketExpires
  BY <1>0, <1>8 DEF TicketExpires, vars, SourceInv, AnswerInv
<1>9. CASE Leave
  <2>1. /\ events' = <<>> /\ lastSeq' = 0 /\ url' = 0 /\ cpc' = "off" /\ view' = None
        /\ UNCHANGED seq
    BY <1>9 DEF Leave, NoSource, vars
  <2>2. SourceInv' /\ AnswerInv'
    BY <2>1 DEF SourceInv, AnswerInv
  <2>3. events' = [i \in 1..lastSeq' |-> i]
    BY <2>1
  <2> QED BY <1>0, <2>1, <2>2, <2>3 DEF None
<1>10. CASE ReadRow
  <2>1. /\ cpc' = "events" /\ snap'.row = row /\ cpc = "row"
        /\ UNCHANGED <<seq, status, outcome, hookVars, url>>
    BY <1>10 DEF ReadRow, ClientTypeOK, vars
  <2>2. row \in Rows /\ (row # "running" => status = "terminal")
    BY DEF ClientTypeOK, TypeOK
  <2>3. SourceInv' /\ AnswerInv'
    BY <2>1, <2>2 DEF SourceInv, AnswerInv
  <2> QED BY <2>1, <2>3
<1>11. CASE ReadEvents
  <2>1. /\ cpc = "events" /\ cpc' = "answer"
        /\ snap'.row = snap.row /\ snap'.events = log
        /\ UNCHANGED <<seq, status, outcome, hookVars, url>>
    BY <1>11 DEF ReadEvents, ClientTypeOK, vars
  <2>2. snap'.events = 1..seq /\ seq \in lastSeq'..seq
    BY <1>0, <2>1 DEF AllPersisted
  <2>3. SourceInv' /\ AnswerInv'
    BY <2>1, <2>2 DEF SourceInv, AnswerInv
  <2> QED BY <2>1, <2>3
<1>12. CASE Hydrate
  <2>1. cpc = "answer" /\ UNCHANGED <<seq, status, outcome, url>>
    BY <1>12 DEF Hydrate, vars
  <2>2. snap.row \in Rows /\ (snap.row # "running" => status = "terminal")
    BY <2>1 DEF AnswerInv
  <2>3. PICK m \in lastSeq..seq : /\ snap.events = 1..m
                                  /\ snap.row # "running" => m = seq
    BY <2>1 DEF AnswerInv
  <2>4. m \in 0..MaxSeq /\ lastSeq <= m /\ m <= seq
    BY <1>0, <2>3 DEF ClientTypeOK, TypeOK
  <2>5. /\ events' = [i \in 1..m |-> i] /\ lastSeq' = m
        /\ view' = "done" /\ snap.row # "done" => outcome = "done" /\ m = MaxSeq
    BY <1>12, <2>2, <2>3, <2>4, HydrationFirst
  <2>6. cpc' = IF snap.row = "running" THEN "ticket" ELSE "rest"
    BY <1>12 DEF Hydrate
  <2>7. SourceInv' /\ AnswerInv'
    BY <2>6 DEF SourceInv, AnswerInv
  <2> QED BY <1>0, <2>1, <2>2, <2>3, <2>4, <2>5, <2>6, <2>7
<1>13. CASE Deliver
  <2>1. /\ cpc = "streaming" /\ conn \in Streams
        /\ UNCHANGED <<cpc, url, conn, seq, spc, after, outcome>>
    BY <1>13, DeliveryExtends DEF Deliver, vars
  <2>2. AnswerInv'
    BY <2>1 DEF AnswerInv
  <2>3. CASE UNCHANGED hookVars /\ url + read' <= lastSeq
    BY <2>1, <2>2, <2>3 DEF SourceInv
  <2>4. CASE /\ lastSeq < seq
             /\ lastSeq' = lastSeq + 1
             /\ events' = [i \in 1..lastSeq' |-> i]
             /\ view' = Applied(view, lastSeq')
             /\ url + read' = lastSeq'
    <3>1. SourceInv' /\ url' <= lastSeq' /\ lastSeq' <= seq'
      BY <1>0, <2>1, <2>4 DEF SourceInv
    <3>2. view' = "done" => outcome = "done" /\ lastSeq' = MaxSeq
      <4>1. seq <= MaxSeq /\ MaxSeq \in Nat
        BY MaxSeqAssumption DEF ClientTypeOK, TypeOK
      <4>2. view # "done"
        BY <1>0, <2>1, <2>4, <4>1
      <4> QED BY <1>0, <2>4, <4>1, <4>2 DEF Applied
    <3> QED BY <2>1, <2>2, <2>4, <3>1, <3>2
  <2> QED BY <1>13, <2>3, <2>4, DeliveryExtends
<1>14. CASE DeliverEnd
  <2>1. /\ cpc = "streaming" /\ spc[conn] = "ended" /\ read = Len(sent[conn])
        /\ cpc' = "closed" /\ url' = 0
        /\ UNCHANGED <<seq, status, outcome, hookVars>>
    BY <1>14 DEF DeliverEnd, NoSource, vars
  <2>2. status = "terminal" /\ after[conn] + Len(sent[conn]) = seq
    BY <2>1 DEF ShownInv, StreamInv, ConnectionInv, Position
  <2>3. lastSeq = seq
    BY <1>0, <2>1, <2>2 DEF SourceInv
  <2>4. SourceInv' /\ AnswerInv'
    BY <2>1 DEF SourceInv, AnswerInv
  <2> QED BY <1>0, <2>1, <2>2, <2>3, <2>4
<1>15. CASE Emit \/ Finish \/ CrashDown \/ Restart \/ \E s \in Streams : ServeOne(s)
  BY <1>1, <1>15, ServerActs
<1> QED BY <1>2, <1>3, <1>4, <1>6, <1>7, <1>8, <1>9, <1>10, <1>11, <1>12, <1>13, <1>14, <1>15
        DEF ClientNext

LEMMA ClientInvStep ==
  ASSUME ClientInv, [ClientNext]_allVars
  PROVE  ClientInv'
<1>1. ClientTypeOK' /\ DeliveryInv' /\ ShownInv'
  BY ServerSide, ClientTypeStep, ShownStep DEF ClientInv
<1>2. ASSUME AllPersisted' PROVE StreamInv' /\ HookInv'
  <2>1. AllPersisted
    BY <1>2, PersistedBefore DEF ClientInv
  <2>2. StreamInv'
    BY <1>2, <2>1, StreamSide DEF ClientInv
  <2>3. HookInv'
    BY <1>1, <2>1, HookStep DEF ClientInv
  <2> QED BY <2>2, <2>3
<1> QED BY <1>1, <1>2 DEF ClientInv

LEMMA ClientInvInit == ASSUME ClientInit PROVE ClientInv
<1>1. ClientTypeOK /\ DeliveryInv /\ ShownInv
  BY ShownInit
<1>2. StreamInv
  BY InitInv DEF ClientInit
<1>3. HookInv
  <2>1. /\ seq = 0 /\ cpc = "off" /\ events = <<>> /\ lastSeq = 0 /\ url = 0 /\ view = None
    BY DEF ClientInit, Init
  <2>2. events = [i \in 1..lastSeq |-> i]
    BY <2>1
  <2> QED BY <2>1, <2>2 DEF HookInv, SourceInv, AnswerInv, None
<1> QED BY <1>1, <1>2, <1>3 DEF ClientInv

LEMMA ClientInvariant == ClientSpec => []ClientInv
<1>1. ClientInv /\ [ClientNext]_allVars => ClientInv'
  BY ClientInvStep
<1> QED BY ClientInvInit, <1>1, PTL DEF ClientSpec

\* A client that has stopped asking shows every event of the task, however often
\* it had to return, if every event was persisted.
THEOREM StoppedIsComplete == ClientSpec => []ClosedIsComplete
<1>1. ClientInv => ClosedIsComplete
  BY DEF ClientInv, HookInv, ClosedIsComplete
<1> QED BY <1>1, ClientInvariant, PTL

\* A client that shows more of the first events shows all it did before.
LEMMA FirstIsPrefix ==
  ASSUME NEW m \in Nat, NEW n \in Nat, m <= n
  PROVE  IsPrefix([i \in 1..m |-> i], [i \in 1..n |-> i])
  BY DEF IsPrefix

\* What a selected task shows only grows, and a final status stays, through
\* hydration, replay, crashes and refused streams.
THEOREM HistoryNeverShrinks == ClientSpec => ViewNeverGoesBack
<1> DEFINE Grows == AllPersisted /\ cpc' # "off" =>
                      /\ IsPrefix(events, events')
                      /\ view = "done" => view' = "done"
<1>1. ASSUME ClientInv, ClientInv', [ClientNext]_allVars, AllPersisted, cpc' # "off"
      PROVE  /\ IsPrefix(events, events')
             /\ view = "done" => view' = "done"
  <2>0. HookInv /\ lastSeq \in Nat /\ events \in Seq(1..MaxSeq) /\ events' \in Seq(1..MaxSeq)
    BY <1>1 DEF ClientInv, ClientTypeOK
  <2>1. CASE UNCHANGED hookVars
    <3>1. IsPrefix(events, events)
      BY <2>0 DEF IsPrefix
    <3> QED BY <2>1, <3>1 DEF hookVars
  <2>2. CASE Hydrate
    <3>1. cpc = "answer" /\ seq \in Nat /\ seq <= MaxSeq
      BY <1>1, <2>2, MaxSeqAssumption DEF Hydrate, ClientInv, ClientTypeOK, TypeOK
    <3>2. PICK m \in lastSeq..seq : snap.events = 1..m /\ snap.row \in Rows
      BY <2>0, <3>1 DEF HookInv, AnswerInv
    <3>3. m \in 0..MaxSeq /\ lastSeq <= m
      BY <2>0, <3>1, MaxSeqAssumption
    <3>4. /\ events' = [i \in 1..m |-> i]
          /\ m = MaxSeq /\ outcome = "done" => view' = "done"
      BY <1>1, <2>2, <3>2, <3>3, HydrationFirst DEF ClientInv
    <3>5. IsPrefix(events, events')
      BY <2>0, <3>3, <3>4, FirstIsPrefix DEF HookInv
    <3>6. view = "done" => m = MaxSeq /\ outcome = "done"
      BY <2>0, <3>1, <3>3, MaxSeqAssumption DEF HookInv
    <3> QED BY <3>4, <3>5, <3>6
  <2>3. CASE Deliver
    <3>1. /\ cpc = "streaming"
          /\ \/ UNCHANGED hookVars
             \/ /\ lastSeq < seq
                /\ lastSeq' = lastSeq + 1
                /\ events' = [i \in 1..lastSeq' |-> i]
      BY <1>1, <2>3, DeliveryExtends DEF ClientInv
    <3>2. CASE lastSeq < seq /\ lastSeq' = lastSeq + 1 /\ events' = [i \in 1..lastSeq' |-> i]
      <4>1. IsPrefix(events, events')
        BY <2>0, <3>2, FirstIsPrefix DEF HookInv
      <4>2. view # "done"
        BY <1>1, <2>0, <3>1, <3>2, MaxSeqAssumption DEF HookInv, ClientInv, ClientTypeOK, TypeOK
      <4> QED BY <4>1, <4>2
    <3> QED BY <2>1, <3>1, <3>2
  <2>4. UNCHANGED hookVars \/ Hydrate \/ Deliver
    <3>1. CASE Emit \/ Finish \/ CrashDown \/ Restart \/ \E s \in Streams : ServeOne(s)
      BY <1>1, <3>1, ServerActs DEF Behind, clientVars, ClientInv
    <3>2. ASSUME NEW s \in Streams, Recycle(s) \/ Connect(s) PROVE UNCHANGED hookVars
      BY <3>2 DEF Recycle, Connect, clientVars
    <3>3. CASE Select \/ ReadRow \/ ReadEvents \/ HydrateFails
      BY <3>3 DEF Select, ReadRow, ReadEvents, HydrateFails
    <3>4. CASE GetTicket \/ TicketFails \/ TicketExpires \/ Refused \/ StreamFails
      BY <3>4 DEF GetTicket, TicketFails, TicketExpires, Refused, StreamFails
    <3>5. CASE ConnectionLost \/ TimerFires \/ DeliverEnd
      BY <3>5 DEF ConnectionLost, TimerFires, DeliverEnd
    <3>6. ~Leave
      BY <1>1 DEF Leave
    <3>7. CASE UNCHANGED allVars
      BY <3>7 DEF allVars, clientVars
    <3> QED BY <1>1, <3>1, <3>2, <3>3, <3>4, <3>5, <3>6, <3>7 DEF ClientNext
  <2> QED BY <2>1, <2>2, <2>3, <2>4
<1>2. ClientInv /\ ClientInv' /\ [ClientNext]_allVars => [Grows]_<<cpc, hookVars>>
  BY <1>1
<1> QED BY <1>2, ClientInvariant, PTL DEF ClientSpec, ViewNeverGoesBack
=============================================================================
