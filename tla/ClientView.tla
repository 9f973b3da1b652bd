------------------------------ MODULE ClientView ------------------------------
(***************************************************************************)
(* The browser's view of one task.  useTaskStream reads the task           *)
(* (GET /tasks/{id}), asks for a stream ticket, opens the SSE stream of     *)
(* EventStream after the last event it knows, and starts over when the     *)
(* stream is refused; EventSource itself repeats a request whose           *)
(* connection broke.  The connections of EventStream are recycled here, so *)
(* that a client may reconnect any number of times.                        *)
(*                                                                         *)
(* The task emits MaxSeq events.  The last one is "done", which carries    *)
(* the final status, or "error", which carries none; those before it show  *)
(* the task as running.  "done" stands for the statuses passed and failed. *)
(***************************************************************************)
EXTENDS EventStream, FiniteSets, SequencesExt

CONSTANT MaxLosses   \* bound on what the network and the clock may spoil

ASSUME LossesAssumption == MaxLosses \in Nat

VARIABLES
  outcome,  \* how the task is going to end
  row,      \* Task.status
  cpc,      \* where connect() is
  snap,     \* the answer to getTask that is on its way
  view,     \* state.status of the hook
  events,   \* its events
  lastSeq,  \* lastSeqRef
  url,      \* the after_seq in the URL of source
  fresh,    \* whether the ticket in that URL is still valid
  conn,     \* the connection that source reads, if any
  read,     \* how many of the events that conn sent it has handled
  losses    \* how often a request, a connection or a ticket was lost

hookVars   == <<view, events, lastSeq>>
sourceVars == <<url, fresh, conn, read>>
clientVars == <<cpc, snap, hookVars, sourceVars, losses>>
allVars    == <<vars, outcome, row, clientVars>>

None   == "none"
NoSnap == [row |-> None, events |-> {}]
Rows   == {"running", "done", "error"}

ClientTypeOK ==
  /\ TypeOK
  /\ outcome \in {"done", "error"}
  /\ row \in Rows
  /\ (row = "running") = (status = "active")
  /\ cpc \in {"off", "row", "events", "answer", "ticket", "connecting",
              "streaming", "waiting", "rest", "closed"}
  /\ snap \in [row : Rows \cup {None}, events : SUBSET (1..MaxSeq)]
  /\ view \in Rows \cup {None}
  /\ events \in Seq(1..MaxSeq)
  /\ lastSeq \in 0..MaxSeq
  /\ url \in 0..MaxSeq
  /\ fresh \in BOOLEAN
  /\ conn \in Streams \cup {None}
  /\ read \in 0..MaxSeq
  /\ losses \in 0..MaxLosses

ClientInit ==
  /\ Init
  /\ outcome \in {"done", "error"}
  /\ row = "running"
  /\ cpc = "off"
  /\ snap = NoSnap
  /\ view = None
  /\ events = <<>>
  /\ lastSeq = 0
  /\ url = 0
  /\ fresh = FALSE
  /\ conn = None
  /\ read = 0
  /\ losses = 0

Lose == losses < MaxLosses /\ losses' = losses + 1

-----------------------------------------------------------------------------
(* The server, as in EventStream, with the status that the row shows.      *)

Emit == /\ EmitPersist \/ EmitPublish \/ Close
        /\ UNCHANGED <<row, outcome, clientVars>>

ServeOne(s) == Serve(s) /\ UNCHANGED <<row, outcome, clientVars>>

CrashDown == Crash /\ UNCHANGED <<row, outcome, clientVars>>

Finish ==
  /\ MarkFinished
  /\ seq = MaxSeq
  /\ row' = IF status' = "terminal" THEN outcome ELSE row
  /\ UNCHANGED <<outcome, clientVars>>

\* reconcile_orphaned: the rows that are still active become errors.
Restart ==
  /\ Reconcile
  /\ row' = IF row = "running" THEN "error" ELSE row
  /\ UNCHANGED <<outcome, clientVars>>

\* The loop is done with a connection that nobody reads any more, at the latest
\* when its generator notices (EventStream's Disconnect and what follows); it
\* then stands for the next request.
Recycle(s) ==
  /\ s # conn
  /\ spc[s] # "new"
  /\ spc' = [spc EXCEPT ![s] = "new"]
  /\ subs' = Unsubscribed(s)
  /\ queue' = [queue EXCEPT ![s] = <<>>]
  /\ after' = [after EXCEPT ![s] = 0]
  /\ isTerminal' = [isTerminal EXCEPT ![s] = FALSE]
  /\ history' = [history EXCEPT ![s] = {}]
  /\ maxReplayed' = [maxReplayed EXCEPT ![s] = 0]
  /\ sent' = [sent EXCEPT ![s] = <<>>]
  /\ UNCHANGED <<proc, crashed, workerVars, row, outcome, clientVars>>

-----------------------------------------------------------------------------
(* The hook: a task is selected, or another one or none is.                *)

NoSource == /\ url' = 0
            /\ fresh' = FALSE
            /\ conn' = None
            /\ read' = 0

Select ==
  /\ cpc = "off"
  /\ cpc' = "row"
  /\ UNCHANGED <<vars, outcome, row, snap, hookVars, sourceVars, losses>>

\* The effect's cleanup closes the source; what is in flight finds cancelled
\* set.  The next effect starts from an empty state.
Leave ==
  /\ cpc # "off"
  /\ cpc' = "off"
  /\ snap' = NoSnap
  /\ view' = None
  /\ events' = <<>>
  /\ lastSeq' = 0
  /\ NoSource
  /\ UNCHANGED <<vars, outcome, row, losses>>

-----------------------------------------------------------------------------
(* connect(), first half: hydrate.                                         *)

\* GET /tasks/{id} reads the row ...
ReadRow ==
  /\ cpc = "row"
  /\ proc = "up"
  /\ cpc' = "events"
  /\ snap' = [snap EXCEPT !.row = row]
  /\ UNCHANGED <<vars, outcome, row, hookVars, sourceVars, losses>>

\* Mutation of ReadEvents: the events were read at some time before the row.
EventsBeforeRow ==
  /\ cpc = "events"
  /\ proc = "up"
  /\ cpc' = "answer"
  /\ \E n \in 0..seq :
       snap' = [row |-> row, events |-> {e \in log : e <= n}]
  /\ UNCHANGED <<vars, outcome, row, hookVars, sourceVars, losses>>

\* ... and then the events.
ReadEvents ==
  /\ cpc = "events"
  /\ proc = "up"
  /\ cpc' = "answer"
  /\ snap' = [snap EXCEPT !.events = log]
  /\ UNCHANGED <<vars, outcome, row, hookVars, sourceVars, losses>>

\* applyEvent: the status after an event.
Applied(st, e) == IF e < MaxSeq THEN "running"
                  ELSE IF outcome = "done" THEN "done" ELSE st

\* The rows of get_events, ordered by seq.
Ordered(S) == CHOOSE q \in [1..Cardinality(S) -> S] :
                \A i, j \in DOMAIN q : i < j => q[i] < q[j]

\* The events applied in order.
Folded(st, evs) ==
  LET upTo[n \in 0..Len(evs)] ==
        IF n = 0 THEN st ELSE Applied(upTo[n - 1], evs[n])
  IN  upTo[Len(evs)]

\* The status after hydration: the row's, then what the events make of it, then
\* the final_state of the row, which for an error holds no status.
Hydrated(s) == IF s.row = "done" THEN "done" ELSE Folded(s.row, Ordered(s.events))

\* Mutation of LastOf: the event to come instead of the last one hydrated.
NextOf(evs) == IF evs = <<>> THEN 1 ELSE Last(evs) + 1

\* snapshot.events.at(-1)?.seq ?? 0
LastOf(evs) == IF evs = <<>> THEN 0 ELSE Last(evs)

\* The answer replaces what is shown; a finished task is never streamed.
Hydrate ==
  /\ cpc = "answer"
  /\ cpc' = IF snap.row = "running" THEN "ticket" ELSE "rest"
  /\ view' = Hydrated(snap)
  /\ events' = Ordered(snap.events)
  /\ lastSeq' = LastOf(events')
  /\ snap' = NoSnap
  /\ UNCHANGED <<vars, outcome, row, sourceVars, losses>>

\* getTask rejects: connect() goes on with what it has.
HydrateFails ==
  /\ cpc \in {"row", "events", "answer"}
  /\ proc = "up" => Lose
  /\ proc # "up" => UNCHANGED losses
  /\ cpc' = "ticket"
  /\ snap' = NoSnap
  /\ UNCHANGED <<vars, outcome, row, hookVars, sourceVars>>

-----------------------------------------------------------------------------
(* connect(), second half: ticket and stream.                              *)

GetTicket ==
  /\ cpc = "ticket"
  /\ proc = "up"
  /\ cpc' = "connecting"
  /\ url' = lastSeq
  /\ fresh' = TRUE
  /\ UNCHANGED <<vars, outcome, row, snap, hookVars, conn, read, losses>>

\* Mutation of Retry: no reconnection is scheduled.
NoRetry == cpc' = "closed" /\ NoSource

\* setTimeout(connect, delay), for a source that is closed.
Retry == cpc' = "waiting" /\ NoSource

TicketFails ==
  /\ cpc = "ticket"
  /\ proc = "up" => Lose
  /\ proc # "up" => UNCHANGED losses
  /\ Retry
  /\ UNCHANGED <<vars, outcome, row, snap, hookVars>>

TicketExpires ==
  /\ fresh
  /\ Lose
  /\ fresh' = FALSE
  /\ UNCHANGED <<vars, outcome, row, cpc, snap, hookVars, url, conn, read>>

\* verify_stream_ticket accepts the ticket, and stream_task begins.
Connect(s) ==
  /\ cpc = "connecting"
  /\ fresh
  /\ OpenAt(s, url)
  /\ cpc' = "streaming"
  /\ conn' = s
  /\ read' = 0
  /\ UNCHANGED <<outcome, row, snap, hookVars, url, fresh, losses>>

\* A 401, or an error of the proxy for a process that is down.
Refused ==
  /\ cpc = "connecting"
  /\ ~fresh \/ proc # "up"
  /\ Retry
  /\ UNCHANGED <<vars, outcome, row, snap, hookVars, losses>>

\* The 500 of a stream whose history could not be read.
StreamFails ==
  /\ cpc = "streaming"
  /\ spc[conn] = "failed"
  /\ Retry
  /\ UNCHANGED <<vars, outcome, row, snap, hookVars, losses>>

\* Mutation of Broken: the hook reconnects on every error and leaves the old
\* source open: the request it repeats may still deliver.
HookReconnects ==
  /\ cpc' = "row"
  /\ UNCHANGED sourceVars

\* EventSource repeats the request by itself, with the same URL; onerror finds
\* it connecting, not closed, and returns.
Broken ==
  /\ cpc' = "connecting"
  /\ conn' = None
  /\ read' = 0
  /\ UNCHANGED <<url, fresh>>

\* The connection breaks: its process has crashed, or the network fails.
ConnectionLost ==
  /\ cpc = "streaming"
  /\ IF spc[conn] = "gone" THEN UNCHANGED losses ELSE Lose
  /\ Broken
  /\ UNCHANGED <<vars, outcome, row, snap, hookVars>>

\* The timer of a retry fires.
TimerFires ==
  /\ cpc = "waiting"
  /\ cpc' = "row"
  /\ UNCHANGED <<vars, outcome, row, snap, hookVars, sourceVars, losses>>

\* Mutation of IsNew: no deduplication.
AlwaysNew(e) == TRUE

IsNew(e) == e > lastSeq

\* onmessage: handleEvent for the next event that the connection sent.
Deliver ==
  /\ conn # None
  /\ read < Len(sent[conn])
  /\ read' = read + 1
  /\ LET e == sent[conn][read + 1] IN
     IF IsNew(e)
     THEN /\ events' = Append(events, e)
          /\ view' = Applied(view, e)
          /\ lastSeq' = e
     ELSE UNCHANGED hookVars
  /\ UNCHANGED <<vars, outcome, row, cpc, snap, url, fresh, conn, losses>>

\* The "end" event, after everything that was sent: the source is closed.
DeliverEnd ==
  /\ cpc = "streaming"
  /\ spc[conn] = "ended"
  /\ read = Len(sent[conn])
  /\ cpc' = "closed"
  /\ NoSource
  /\ UNCHANGED <<vars, outcome, row, snap, hookVars, losses>>

-----------------------------------------------------------------------------
ClientStep ==
  \/ ReadRow \/ ReadEvents \/ Hydrate \/ (HydrateFails /\ proc # "up")
  \/ GetTicket \/ (TicketFails /\ proc # "up")
  \/ (\E s \in Streams : Connect(s)) \/ Refused
  \/ StreamFails \/ (ConnectionLost /\ spc[conn] = "gone")
  \/ TimerFires \/ Deliver \/ DeliverEnd

ClientNext ==
  \/ Emit
  \/ Finish
  \/ CrashDown
  \/ Restart
  \/ \E s \in Streams : ServeOne(s) \/ Recycle(s)
  \/ Select
  \/ Leave
  \/ ReadRow
  \/ ReadEvents
  \/ Hydrate
  \/ HydrateFails
  \/ GetTicket
  \/ TicketFails
  \/ TicketExpires
  \/ \E s \in Streams : Connect(s)
  \/ Refused
  \/ StreamFails
  \/ ConnectionLost
  \/ TimerFires
  \/ Deliver
  \/ DeliverEnd

\* The worker and the loop make progress, a crashed process is restarted, the
\* loop notices clients that left, and the browser handles what it receives.
ClientFairness ==
  /\ WF_allVars(Emit)
  /\ WF_allVars(Finish)
  /\ WF_allVars(Restart)
  /\ \A s \in Streams : WF_allVars(ServeOne(s)) /\ WF_allVars(Recycle(s))
  /\ WF_allVars(ClientStep)

ClientSpec     == ClientInit /\ [][ClientNext]_allVars
FairClientSpec == ClientSpec /\ ClientFairness

-----------------------------------------------------------------------------
(* What the user sees.                                                     *)

\* The table holds every event so far: no append_event has failed.
AllPersisted == log = 1..seq

\* Whatever is hydrated, replayed, sent live or repeated, no event is shown
\* twice or after a later one (handleEvent drops "replay/reconnect overlap").
ViewInOrder == \A i, j \in DOMAIN events : i < j => events[i] < events[j]

\* "A client that reconnects and replays from Postgres must never see a
\* shorter history than it already rendered while connected" (executor.py):
\* what a selected task shows only grows, and a final status stays, through
\* reconnections, crashes and refused streams, if the events were persisted.
ViewNeverGoesBack ==
  [][AllPersisted /\ cpc' # "off" =>
       /\ IsPrefix(events, events')
       /\ view = "done" => view' = "done"]_<<cpc, hookVars>>

\* A client that has stopped asking shows every event of the task: nothing
\* brings an event to it any more.
ClosedIsComplete ==
  cpc \in {"rest", "closed"} /\ AllPersisted => events = [i \in 1..seq |-> i]

\* A selected task that has passed or failed is eventually shown so, however
\* often the stream had to be opened again.
ViewConverges ==
  (row = "done" /\ MaxSeq \in log /\ cpc # "off") ~> (view = "done" \/ cpc = "off")

\* useTaskStream: "taskId may point at an already-finished task from history,
\* in which case we just render it": what is shown is then what the row says.
FinishedIsShown == cpc = "rest" => view = row
=============================================================================
