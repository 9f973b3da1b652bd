----------------------------- MODULE EventStream -----------------------------
(***************************************************************************)
(* The events of one task on their way to the browser.  The worker thread  *)
(* numbers each event, persists it and publishes it (emit in               *)
(* api/executor.py, api/event_bus.py); GET /tasks/{id}/stream              *)
(* (stream_task in api/routes.py) splices the persisted history and the    *)
(* live queue into one SSE stream per connection.                          *)
(*                                                                         *)
(* The worker thread and the event loop interleave between any two         *)
(* database calls.  EventBus.publish reaches a queue through               *)
(* call_soon_threadsafe; the loop runs these callbacks in order and only   *)
(* the queue's own connection reads the queue, so a callback that has not  *)
(* run yet looks like a reader that lags, and both are one append here.    *)
(***************************************************************************)
EXTENDS Naturals, Sequences

CONSTANTS
  Streams,   \* the connections that clients may open; a reconnect is a new one
  MaxSeq,    \* bound on the events of the task
  MayCrash,  \* whether the process may crash, once
  Faults     \* database failures that may occur

FaultKinds == {"persist", "history", "finish"}

ASSUME MaxSeqAssumption == MaxSeq \in Nat /\ MaxSeq >= 2
ASSUME CrashAssumption  == MayCrash \in BOOLEAN
ASSUME FaultsAssumption == Faults \subseteq FaultKinds

VARIABLES
  proc,         \* "up", or "crashed" until the lifespan has reconciled
  crashed,      \* history: a crash has happened
  seq,          \* ctx.seq of the executor
  log,          \* the seqs of the task's rows in task_events
  status,       \* whether Task.status is terminal
  wpc,          \* where the worker is
  subs,         \* the connections whose queue is in EventBus._subscribers
  queue,        \* the asyncio.Queue of each connection
  spc,          \* where the handler or generator of a connection is
  after,        \* its after_seq parameter
  isTerminal,   \* its is_terminal
  history,      \* the replayed events it still has to send
  maxReplayed,  \* its max_replayed_seq
  sent          \* the seqs it has sent, in order

workerVars == <<seq, log, status, wpc>>
streamVars == <<spc, after, isTerminal, history, maxReplayed, sent>>
vars == <<proc, crashed, seq, log, status, wpc, subs, queue,
          spc, after, isTerminal, history, maxReplayed, sent>>

\* The None that EventBus.close puts into a queue; events count from 1.
EndMark == 0

TypeOK ==
  /\ proc \in {"up", "crashed"}
  /\ crashed \in BOOLEAN
  /\ seq \in 0..MaxSeq
  /\ log \subseteq 1..MaxSeq
  /\ status \in {"active", "terminal"}
  /\ wpc \in {"run", "publish", "close", "exited"}
  /\ subs \subseteq Streams
  /\ queue \in [Streams -> Seq(0..MaxSeq)]
  /\ spc \in [Streams -> {"new", "opened", "subscribed", "stream",
                          "ended", "failed", "gone"}]
  /\ after \in [Streams -> 0..MaxSeq]
  /\ isTerminal \in [Streams -> BOOLEAN]
  /\ history \in [Streams -> SUBSET (1..MaxSeq)]
  /\ maxReplayed \in [Streams -> 0..MaxSeq]
  /\ sent \in [Streams -> Seq(1..MaxSeq)]

Init ==
  /\ proc = "up"
  /\ crashed = FALSE
  /\ seq = 0
  /\ log = {}
  /\ status = "active"
  /\ wpc = "run"
  /\ subs = {}
  /\ queue = [s \in Streams |-> <<>>]
  /\ spc = [s \in Streams |-> "new"]
  /\ after = [s \in Streams |-> 0]
  /\ isTerminal = [s \in Streams |-> FALSE]
  /\ history = [s \in Streams |-> {}]
  /\ maxReplayed = [s \in Streams |-> 0]
  /\ sent = [s \in Streams |-> <<>>]

MayFail(k) == k \in Faults

\* What put_nowait leaves in the queues when the bus delivers an item.
Delivered(item) ==
  [s \in Streams |-> IF s \in subs THEN Append(queue[s], item) ELSE queue[s]]

-----------------------------------------------------------------------------
(* The worker thread.                                                      *)

\* emit, first half: number the event and persist it.  A failure to persist is
\* logged and swallowed.
EmitPersist ==
  /\ wpc = "run"
  /\ seq < MaxSeq
  /\ seq' = seq + 1
  /\ wpc' = "publish"
  /\ \/ log' = log \cup {seq + 1}
     \/ MayFail("persist") /\ UNCHANGED log
  /\ UNCHANGED <<proc, crashed, status, subs, queue, streamVars>>

\* emit, second half: EventBus.publish.
EmitPublish ==
  /\ wpc = "publish"
  /\ queue' = Delivered(seq)
  /\ wpc' = "run"
  /\ UNCHANGED <<proc, crashed, seq, log, status, subs, streamVars>>

\* Mutation of MarkFinished: the row is closed before the last event is emitted.
MarkFinishedEarly ==
  /\ wpc = "run"
  /\ seq >= 1
  /\ status' = "terminal"
  /\ wpc' \in {"run", "close"}
  /\ UNCHANGED <<proc, crashed, seq, log, subs, queue, streamVars>>

\* mark_finished, after at least the "status" event and a "done" or "error"
\* event.  When it raises, EventBus.close is skipped.
MarkFinished ==
  /\ wpc = "run"
  /\ seq >= 2
  /\ \/ status' = "terminal" /\ wpc' = "close"
     \/ MayFail("finish") /\ wpc' = "exited" /\ UNCHANGED status
  /\ UNCHANGED <<proc, crashed, seq, log, subs, queue, streamVars>>

\* EventBus.close.
Close ==
  /\ wpc = "close"
  /\ queue' = Delivered(EndMark)
  /\ wpc' = "exited"
  /\ UNCHANGED <<proc, crashed, seq, log, status, subs, streamVars>>

-----------------------------------------------------------------------------
(* The event loop: stream_task and its generator.                          *)

\* What a client can have seen, and so can name in after_seq: what another
\* connection sent it, or what GET /tasks/{id} read from the table.
Seen == {0} \cup log \cup UNION {{sent[s][i] : i \in DOMAIN sent[s]} : s \in Streams}

\* get_task: is_terminal is computed later, from the row as it is read here.
OpenAt(s, a) ==
  /\ proc = "up"
  /\ spc[s] = "new"
  /\ spc' = [spc EXCEPT ![s] = "opened"]
  /\ after' = [after EXCEPT ![s] = a]
  /\ isTerminal' = [isTerminal EXCEPT ![s] = (status = "terminal")]
  /\ UNCHANGED <<proc, crashed, workerVars, subs, queue, history, maxReplayed, sent>>

Open(s) == \E a \in Seen : OpenAt(s, a)

\* EventBus.subscribe.
Subscribe(s) ==
  /\ spc[s] = "opened"
  /\ subs' = subs \cup {s}
  /\ spc' = [spc EXCEPT ![s] = "subscribed"]
  /\ UNCHANGED <<proc, crashed, workerVars, queue,
                 after, isTerminal, history, maxReplayed, sent>>

\* Mutation of EventsAfter: the selection includes the event the client names.
EventsFrom(a) == {e \in log : e >= a}

\* The rows that get_events selects.
EventsAfter(a) == {e \in log : e > a}

\* Mutation of LastSeq: the next seq to come instead of the last one read.
NextSeq(a) == IF EventsAfter(a) = {} THEN a + 1
              ELSE 1 + CHOOSE m \in EventsAfter(a) : \A e \in EventsAfter(a) : e <= m

\* The seq of the last row that get_events returned, if it returned one.
LastSeq(a) == IF EventsAfter(a) = {} THEN a
              ELSE CHOOSE m \in EventsAfter(a) : \A e \in EventsAfter(a) : e <= m

\* get_events, and max_replayed_seq from its last row if it has one.  When it
\* raises, the request fails outside the generator, whose finally clause would
\* have unsubscribed the queue.
ReadHistory(s) ==
  /\ spc[s] = "subscribed"
  /\ \/ /\ spc' = [spc EXCEPT ![s] = "stream"]
        /\ history' = [history EXCEPT ![s] = EventsAfter(after[s])]
        /\ maxReplayed' = [maxReplayed EXCEPT ![s] = LastSeq(after[s])]
     \/ /\ MayFail("history")
        /\ spc' = [spc EXCEPT ![s] = "failed"]
        /\ UNCHANGED <<history, maxReplayed>>
  /\ UNCHANGED <<proc, crashed, workerVars, subs, queue, after, isTerminal, sent>>

\* The generator sends the history, ordered by seq.
Replay(s) ==
  /\ spc[s] = "stream"
  /\ \E e \in history[s] :
       /\ \A d \in history[s] : e <= d
       /\ sent' = [sent EXCEPT ![s] = Append(@, e)]
       /\ history' = [history EXCEPT ![s] = @ \ {e}]
  /\ UNCHANGED <<proc, crashed, workerVars, subs, queue,
                 spc, after, isTerminal, maxReplayed>>

Unsubscribed(s) == subs \ {s}

\* The generator ends a stream that found the task terminal when it was opened.
EndTerminal(s) ==
  /\ spc[s] = "stream"
  /\ history[s] = {}
  /\ isTerminal[s]
  /\ spc' = [spc EXCEPT ![s] = "ended"]
  /\ subs' = Unsubscribed(s)
  /\ UNCHANGED <<proc, crashed, workerVars, queue,
                 after, isTerminal, history, maxReplayed, sent>>

\* Mutation of AlreadySent: the replay and the queue are not told apart.
NeverSent(s, e) == FALSE

\* Mutation of AlreadySent: off by one, as with a max_replayed_seq that counts
\* from the event to come.
SentUpToNext(s, e) == e <= maxReplayed[s] + 1

\* An event taken from the queue was already sent by the replay.
AlreadySent(s, e) == e <= maxReplayed[s]

\* The generator takes an item from its queue: the end mark, an event that the
\* replay has covered, or an event to send.
Take(s) ==
  /\ spc[s] = "stream"
  /\ history[s] = {}
  /\ ~isTerminal[s]
  /\ queue[s] # <<>>
  /\ queue' = [queue EXCEPT ![s] = Tail(@)]
  /\ LET e == Head(queue[s]) IN
     \/ /\ e = EndMark
        /\ spc' = [spc EXCEPT ![s] = "ended"]
        /\ subs' = Unsubscribed(s)
        /\ UNCHANGED sent
     \/ /\ e # EndMark
        /\ AlreadySent(s, e)
        /\ UNCHANGED <<spc, subs, sent>>
     \/ /\ e # EndMark
        /\ ~AlreadySent(s, e)
        /\ sent' = [sent EXCEPT ![s] = Append(@, e)]
        /\ UNCHANGED <<spc, subs>>
  /\ UNCHANGED <<proc, crashed, workerVars, after, isTerminal, history, maxReplayed>>

\* The client leaves; the generator's finally clause unsubscribes.
Disconnect(s) ==
  /\ spc[s] = "stream"
  /\ spc' = [spc EXCEPT ![s] = "gone"]
  /\ subs' = Unsubscribed(s)
  /\ UNCHANGED <<proc, crashed, workerVars, queue,
                 after, isTerminal, history, maxReplayed, sent>>

-----------------------------------------------------------------------------
(* A crash takes the worker, the bus and every connection with it; the     *)
(* table survives, and the next process marks the task as interrupted.     *)

Crash ==
  /\ MayCrash
  /\ ~crashed
  /\ crashed' = TRUE
  /\ proc' = "crashed"
  /\ wpc' = "exited"
  /\ subs' = {}
  /\ spc' = [s \in Streams |-> IF spc[s] \in {"opened", "subscribed", "stream"}
                               THEN "gone" ELSE spc[s]]
  /\ UNCHANGED <<seq, log, status, queue, after, isTerminal, history, maxReplayed, sent>>

\* reconcile_orphaned in the lifespan, before the first request is served.
Reconcile ==
  /\ proc = "crashed"
  /\ proc' = "up"
  /\ status' = "terminal"
  /\ UNCHANGED <<crashed, seq, log, wpc, subs, queue, streamVars>>

-----------------------------------------------------------------------------
WorkerStep == EmitPersist \/ EmitPublish \/ MarkFinished \/ Close
\* What the loop does for a connection on its own; clients open and leave.
Serve(s)   == Subscribe(s) \/ ReadHistory(s) \/ Replay(s) \/ EndTerminal(s) \/ Take(s)

Next ==
  \/ WorkerStep
  \/ \E s \in Streams : Open(s) \/ Serve(s) \/ Disconnect(s)
  \/ Crash
  \/ Reconcile

\* The worker gets to its end, the loop serves every connection, and a crashed
\* process is restarted.
Fairness == /\ WF_vars(WorkerStep)
            /\ \A s \in Streams : WF_vars(Serve(s))
            /\ WF_vars(Reconcile)

Spec     == Init /\ [][Next]_vars
FairSpec == Spec /\ Fairness

-----------------------------------------------------------------------------
(* What the stream promises.                                               *)

\* A connection sends exactly the events that follow its after_seq, without a
\* gap where the history and the live queue meet, and without a repetition.
\* It needs every event to have been persisted.
Gapless ==
  \A s \in Streams : \A i \in DOMAIN sent[s] : sent[s][i] = after[s] + i

\* Even when events were not persisted or reads failed, no connection sends an
\* event twice or after a later one: the client drops what does not increase.
InOrderOnce ==
  \A s \in Streams :
    \A i, j \in DOMAIN sent[s] : i < j => sent[s][i] < sent[s][j]

\* A connection that was told that the stream has ended has sent every event of
\* the task that follows its after_seq: the client closes and never asks again.
CompleteWhenEnded ==
  \A s \in Streams : spc[s] = "ended" => after[s] + Len(sent[s]) = seq

\* An event in the table reaches every connection that should send it, through
\* the replay or through the queue, unless the client or the process goes first.
Reaches(s, n) == \/ n <= after[s]
                 \/ \E i \in DOMAIN sent[s] : sent[s][i] = n
                 \/ spc[s] = "gone"
EventuallyCaughtUp ==
  \A s \in Streams : \A n \in 1..MaxSeq :
    (spc[s] = "stream" /\ n \in log) ~> Reaches(s, n)

\* A connection does not hang: docs/architecture.md has it that one made after
\* the task has finished "gets a synthetic terminal event immediately rather
\* than hanging", and one made before gets the end from EventBus.close.
StreamsEnd ==
  \A s \in Streams : (spc[s] = "stream") ~> (spc[s] \in {"ended", "gone"})

\* To the feed, a connection is open from its request to its end, and a request
\* that failed is one that never delivers.
FeedState(s) == IF spc[s] \in {"new", "ended", "gone"} THEN spc[s] ELSE "open"

\* The splice of replay and queue implements the abstract feed.
Feed == INSTANCE EventFeed WITH
  emitted <- seq,
  closed  <- status = "terminal",
  state   <- [s \in Streams |-> FeedState(s)],
  from    <- after,
  got     <- sent
ImplementsFeed == Feed!Spec
=============================================================================
