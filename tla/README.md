# Formal models of the refactoring agent

TLA+ models of the Autonomous Codebase Refactoring Agent: how tasks are
admitted, executed, cut off and recovered, how their events reach the browser
and what it shows of them, how the agent's graph comes to its verdict, how long
an uploaded repository lives, and how a repository is chunked and indexed for
search. TLC checks the models on small instances; TLAPS proves their safety
properties and the refinement for every value of the constants. Paths below are relative to the repository; `app/` is `backend/app/`.

## 1. The system

| Component | State it keeps | Operations | Talks to |
|---|---|---|---|
| Task admission (`app/api/routes.py` create_task, `task_store.py`) | rows of `tasks` | count, insert, submit | the thread pool |
| Executor (`app/api/executor.py`) | pool of `MAX_CONCURRENT_TASKS` threads, locals of each run, one timer thread per run | execute_task, emit, _on_timeout | database, sandbox driver, agent graph, event bus |
| Sandbox driver (`app/drivers/`) | containers of the Docker daemon, a handle per run | build, start, exec, stop, cleanup, reap | Docker daemon |
| Lifespan (`app/main.py`) | none | reconcile rows, reap containers, start the sweep | database, Docker daemon |
| Event bus and stream (`event_bus.py`, `routes.py` stream_task) | one queue per connection, rows of `task_events` | publish, close, subscribe, unsubscribe, replay | worker threads (through `call_soon_threadsafe`), SSE clients |
| Agent graph (`app/agent/`) | `AgentState`, the workspace on disk | planner, coder, tester, self_healer | LLM, sandbox driver |
| Upload intake (`routes.py` upload_repository) | upload directories, rows of `uploads` | upload, chown, create row | disk, database |
| Retention (`app/core/retention.py`) | the same | periodic sweep | disk, database |
| Browser client (`frontend/src/hooks/useTaskStream.ts`, `App.tsx`) | status and events shown, `lastSeq`, the open `EventSource` | select, hydrate, get a ticket, stream, reconnect, leave | REST and SSE endpoints |
| Authentication (`app/core/auth.py`, `stream_ticket.py`, `app/api/deps.py`) | users, signed tickets | verify, issue | all endpoints |
| Retrieval index (`app/rag/`) | chunks in ChromaDB | chunk, index, query | `scripts/smoke_test_rag.py` only: the executor passes `vector_store=None` |

Three kinds of actor run at once: the event loop (all handlers declared `async`,
and all queues), the worker threads of the pool, and one watchdog thread per
run. They share the database, the Docker daemon and the bus. The hard behaviours
are their interleavings, a process that dies at any point while rows and
containers survive, calls that fail or never return, and the place where an
event stream changes from the replay of the table to the live queue. What makes
each component correct:

* admission: both limits hold whatever runs beside the handler, and the limit
  fits the pool, so that nothing is queued in silence;
* executor: every task is decided in the end, once; a run cut off by its
  watchdog is an error; no container survives its task;
* lifespan: after a restart no row and no container of the old process is left;
* stream: each connection gets the events it asked for, each once, in order,
  and is told the end only after the last;
* agent: the verdict is about the files as they are left, the retry budget is
  spent exactly, each repair sees the latest failure;
* uploads: a workspace lives as long as a task may use it, and no longer;
* client: what it shows only grows, in order, and converges to what the server
  has;
* index: a file that was indexed is found byte for byte and once, and never two
  versions of it.

## 2. Modules

| Module | Models |
|---|---|
| `TaskService` | admission, execution, watchdog, crash and recovery of all tasks |
| `EventStream` | the events of one task on their way to any number of connections |
| `EventFeed` | what such a stream promises: the abstract specification |
| `ClientView` | the browser's hook over one task, on top of `EventStream` |
| `AgentGraph` | one run of the agent over its workspace |
| `Retention` | uploads, host paths and the sweep, beside the tasks that use them |
| `Chunker` | `chunk_source`: the spans of a file and their parts |
| `Indexer` | `index_repository` over `Chunker` and the collection |
| `MC...` | instances for TLC: definitions that the `.cfg` files give to constants |
| `TaskServiceProofs`, `AgentGraphProofs`, `RetentionProofs`, `ChunkerProofs`, `IndexerProofs` | theorems about the module of that name |
| `EventOrderProofs`, `EventStreamProofs` | theorems about `EventStream`: under every fault, and with every event persisted |
| `ClientViewProofs` | theorems about `ClientView`, on top of those two |

The modules meet at interfaces. `TaskService` reduces the agent to "a node ran
and returned, raised or hangs"; `AgentGraph` is what runs there, and
`WithinRecursionLimit`, `Terminates` and its exceptions are what `TaskService`
may assume of it. `EventStream` follows the worker of one task through `emit`,
`mark_finished` and `event_bus.close`, the part that `TaskService` collapses
into `MarkFinished` and `Close`. `Retention` in turn reduces the worker to what
keeps a repository in use: an active row, and a container that has it mounted.
`ClientView` extends `EventStream` and takes its steps as they are; it adds the status
that the row shows, and the client. `Indexer` extends `Chunker` in the same way: a
step of `chunk_source` is a step of the index run.

The modules that theorems are about have no RECURSIVE operator. Where the code folds or
sorts, they use a recursive function (`Folded`, the reduction over the events in
`useTaskStream.ts`) or say what the result is (`Ordered`, the rows by seq).

Operators named "Mutation of ..." are plausible errors in one definition. Nothing
uses them; each shows, put in the place of the definition, that a property can fail.

### TaskService

A task is a request that may own one row. Its state is spread as in the
program: `status` (Postgres), `adm` (how far create_task has come), `pool` (the
executor's queue), `wpc` (the position in execute_task), `verdict` (its local
`status`), `container` (Docker), `wd` (the timer and its flag `timed_out`).

* *Handler.* create_task is a coroutine without an `await`, so the loop runs no
  other handler between its checks and its insert (`LoopFree`); workers and
  watchdogs do run in between, so each database call is a step of its own:
  `CheckUser`, `CheckServer`, `InsertTask`, `Submit`.
* *Worker.* `Dispatch` takes the oldest item of the pool. `MarkRunning` stands
  before the `try`; `Build`, `Start`, the nodes and `Check` inside it;
  `StopSandbox`, `Cleanup`, `MarkFinished` and `Close` are the `finally` clause.
  A step that may raise has a disjunct for it that goes where the exception
  goes. `NodeHangs` is a command or an LLM call that does not return.
* *Watchdog.* `WatchdogFires` sets `timed_out`, `WatchdogStops` stops the
  container, at any point of the worker's own teardown: cancelling a timer that
  has fired does nothing.
* *Crash* empties what lives in the process. `Reconcile` and `Reap` are the
  lifespan, before the first request.

Faults are a constant: each run names the calls that may fail. `cut` records
the runs whose watchdog fired while the graph was running.

### EventStream and EventFeed

`seq`, `log` and `wpc` follow the worker: `EmitPersist` and `EmitPublish` are the
two halves of emit, between which a connection may subscribe or read. A
connection goes through `Open` (get_task: the row from which `is_terminal` will
be computed), `Subscribe`, `ReadHistory`, then `Replay`, `EndTerminal` or `Take`,
and leaves by `Disconnect`. `call_soon_threadsafe` delivers in order, and a queue
has one reader, so a callback that has not run yet cannot be told from a reader
that lags: publication appends to the queues at once. Payloads are abstracted to
their `seq`; the truncation of stored payloads changes no `seq`. A client may ask for
anything it has seen (`Seen`): what a connection sent, what the table held, or
nothing.

`EventFeed` knows neither tables nor queues. A connection starts after some
event, `Deliver` gives it the next one, `End` is enabled only when the task is
closed and everything was delivered. `EventStream` implements it under the
mapping at its end (`seq` for what was emitted, `sent` for what was delivered,
the handler's position for the state of a connection).

### ClientView

One selected task and the hook's `connect()`, whose awaits are the borders of the
actions: `cpc` says which answer it waits for.

* *Hydration.* GET /tasks/{id} reads the row and then the events, in two
  statements (`ReadRow`, `ReadEvents`) between which the worker may emit, close the row or
  die. `Hydrate` is what the code does with the answer: it replaces the view, folds the
  events over the row's status, and streams only a task that is not finished. A
  request that fails leaves the view alone and goes on to the ticket.
* *Stream.* `GetTicket` puts the present `lastSeq` into a URL; `Connect` opens a
  connection of `EventStream` for that URL; `Deliver` is `handleEvent` for the next event
  it sent. A connection that breaks is repeated by the browser with the same URL
  (`Broken`), while a refused one (a 401 for an expired ticket, a 500, a process that is
  down) closes the source, and the hook's own timer starts over with a hydration (`Retry`,
  `TimerFires`).
* *Leave* is the effect's cleanup. It may come at any point, and answers still in flight
  find `cancelled` set.
* *Abstractions.* The view is the status and the sequence of events. `done` stands for
  passed and failed; an event before the last shows the task as running. A connection
  identifier stands for one connection after another (`Recycle`): a generator that
  nobody reads any more changes nothing a client could see, and is dropped. What may be
  lost by chance (a request, a connection, a ticket) is bounded by `MaxLosses`; what a
  crash breaks is not counted.

### AgentGraph

One action per node, and the coder in three: its LLM call, one round of the loop
over the file blocks, its return. The LLM's answer is any sequence of up to
`MaxBlocks` blocks, also none. `GoTo` counts supersteps as langgraph does. A
test output is the number of the test run that produced it, which is all that
"latest failure" needs. A read that fails counts as a missing file and touches only the
`before` of a diff. An exception ends the run where it happens.

The test command is the user's and runs in a writable mount (`docker_driver.py:59`; the
example of the repository's own README is `npm install && npm test`), so `Tester` leaves the
workspace in any state. Others may write too, at any moment (`Environment`): a process that a test
command left in the background, a sandbox that outlived its task, another task on the same
directory. History variables keep how the last test run left the workspace (`left`), the files
that the coder has written since that run began (`unseen`), and how often somebody else wrote or a
read failed (`disturbances`, bounded by `MaxDisturbances`). A path stands for the file it names; that an answer may spell one file in two
ways (`a.py` and `./a.py`) is left out.

### Retention

A repository is a directory (`dir`), a row of `uploads` (`row`, `age`) and the
handler that writes it (`upload`); a host path has only a directory until its
first task adds a row. `task` and `mounted` are kept apart, since a container may
outlive its row.

* *Handlers.* An upload awaits between two chunks, so `BeginUpload` and
  `FinishUpload` or `AbortUpload` are separate steps; after the last chunk there is
  no `await` before the row is committed. create_task has none at all.
* *Sweep.* It runs on the event loop without an `await`: no handler runs between
  `SweepBegin` and `SweepCommit` (`LoopFree`), but workers do, and a crash may.
  `SweepBegin` reads tasks, uploads and the clock; `SweepRemove` removes one
  directory and leaves the update of its row to the one commit at the end.
* *Crash* rolls back what `SweepCommit` has not reached; `torn` records which
  uploads that concerns. The lifespan closes the rows and then reaps the containers
  (`ReconcileOrphaned`, `ReapSandboxes`); workers, handlers and the sweep come after both, but time
  passes and a crash may come in between. `NeverPulledOut` depends on that order.
* *Time* is a tick of every row's age. Only comparisons with the two windows
  matter, so ages stop at `MaxAge`.

### Chunker and Indexer

A source is its size, the bytes that `str.strip` removes, and the spans of the
items that `_walk` collects. What is assumed of tree-sitter is in `IsSource`: nodes are
nested or apart, not empty, and begin with a token. Which item is whose child follows
from the spans. `Parse` is `_flatten_structure` (each item up to its first child),
`NextGap` and `LastGap` are the loop of `_residual_spans` and its end, `TakeSpan`, `Cut` and
`EndOfSpan` those of `_split_oversized`. `WholeFile` covers files without a grammar and parsers that
raise. `LeftOut` names what the code leaves out of the index: the body of an item
between its children or behind the last, since the head ends where the first
child begins.

`Indexer` walks the files lazily, as `rglob` does, chunks each and replaces its
entries: `DeleteByFile`, then `UpsertChunks`. `Edit` creates, rewrites or removes a file at any
point, by the user or the agent; `Abort` is an exception of ChromaDB or the end of the
process at any point. An entry's id is made of positions and carries no version, so the
model adds the version of the text an entry was made of (`ver`, `seen`); `fresh`
records the files that the last run stored and that have not changed since.

## 3. Checks

| Run | Bounds | Shows |
|---|---|---|
| `service_core` | 3 tasks, two of one user, ceiling 2, 1 per user, 1 crash, commands that hang, fair | `TypeOK`, `AdmissionBound`, `SandboxCeiling`, `ActiveIsBacked`, `TornDown`, `Settles` |
| `service_faults` | 3 tasks of 3 users, ceiling 2, 1 crash, every fault | `AdmissionBound`, `NoSilentQueue`, `CutMeansError`, `TerminalAbsorbing` |
| `stream_core` | 2 connections, 3 events, 1 crash, fair | `TypeOK`, `Gapless`, `CompleteWhenEnded`, `ImplementsFeed`, `EventuallyCaughtUp` |
| `client_core` | 1 connection at a time, 3 events, every database fault, 1 crash, 1 loss, fair | `ClientTypeOK`, `InOrderOnce`, `ViewInOrder`, `ClosedIsComplete`, `ViewNeverGoesBack`, `ViewConverges` |
| `agent_core` | 2 files, 2 contents, answers of up to 2 blocks, every budget, test commands that write anything, every fault, 1 disturbance, fair | `TypeOK`, `VerdictIsEarned`, `RepairSeesLastFailure`, `WithinRecursionLimit`, `DiffIsTrue`, `Terminates` |
| `retention_core` | 2 uploads, 1 host path, 3 tasks, windows of 0 and 1 ticks, 1 crash, failing inserts, fair | `TypeOK`, `DeletedIsGone`, `OnlyLostUploadsLeak`, `NeverPulledOut`, `AdmittedHasRepo`, `SpaceIsFreed` |
| `index_core` | every source of up to 3 bytes, limit 2, 2 files, 2 edits | `IndexTypeOK`, `ChunksDisjoint`, `ChunksBounded`, `ChunksCover`, `OneVersion`, `FreshIsSearchable` |

The bounds are the smallest at which the interesting cases occur. In `service_core` the two
tasks of one user let the limit per user refuse a request, whose
retry is admitted into the slot that the finishing task frees, before or after its
worker has left its thread; in `service_faults` three users let the ceiling of two refuse
one. One crash reaches every position of every worker, and its successor admits new
tasks over the remains. Two connections allow an old one and a reconnection of the same
client. Three events allow one in the table only, one in both table and queue, and one
in the queue only. In `client_core` the one identifier is used again and again, so that a
client hydrates, streams, loses its stream by the crash or the loss, is refused and starts
over, with the third event still to come. Two blocks over two files allow a file
written twice, two files, and two rounds that touch different files. Of the two uploads
one serves two tasks, which may overlap or follow each other around a sweep, and one
serves none; a sweep may have both and the host path to remove, and a crash may fall
between any two removals. Three bytes hold an item with a child and a gap or a tail beside
it, and a limit of two splits a span of three; the
first file starts as any such source, and two edits change it while it is being indexed
and once more, or create the second file. Runs with a deadlock check switched off are those of
systems that rightly stop: all tasks finished, all connections closed, a verdict.

No run uses symmetry: most of them check liveness, where it is unsound.

`SandboxCeiling`, `ActiveIsBacked` and `TornDown` are checked with a database and a
Docker daemon that obey: when `mark_finished` raises, or `stop` or `remove` does,
the code logs the failure and goes on, and what is left stays until a restart. The
theorems about them tell the two apart: the containers need the daemon only, the rows the
database only.
`DiffIsTrue` says of a round of the coder that each file in its diff starts as the last test run
left it, ends as the next one finds it, and is continued from block to block if an answer
names it more than once, and that files which are not in the diff did not change in the round. It
excepts the runs in which a read has failed or somebody else has written, since nothing in the code
guards the workspace. `VerdictIsEarned` and `RepairSeesLastFailure` have no exception: they are
about what the coder wrote and not about what the workspace holds, and a verdict says nothing
of what the tests wrote themselves.
`NeverPulledOut` needs the same of `stop` and of the reaper, `DeletedIsGone` and
`OnlyLostUploadsLeak` need an `rmtree` that removes everything. `AdmittedHasRepo` excepts
the uploads in `torn`: after a sweep that was cut off, their rows say ready until
the next sweep, and a task may be admitted on a directory that is gone.
`ViewNeverGoesBack` and `ClosedIsComplete` are stated for steps and states in which every
event was persisted (`AllPersisted`); see below.

### Where code and text disagree

Five runs expect a violation of what the repository says of itself.

* `stream_stranded` (`StreamsEnd`): stream_task reads the row at
  `routes.py:192`, subscribes at 199 and computes `is_terminal` at 202 from the
  row as it was at 192. A task that finishes in between has put its end mark into
  the queues before this one existed, and the connection receives every event and
  then waits for ever. `docs/architecture.md:42`: a subscriber "connecting after the task
  has already finished gets a synthetic terminal event immediately rather than
  hanging".
* `client_stuck` (`FinishedIsShown`): the hook folds the events of a finished task over
  the status of its row (`useTaskStream.ts:56-57`). For a task that ended with an
  exception or a restart no event and no `final_state` brings the status back to `error`, and
  it is shown as running, though "we just render it" (`useTaskStream.ts:50-51`). The live
  stream ends the same way, and the form stays disabled (`App.tsx:24`).
* `service_hung_llm` (`HardCap`): the comment at `executor.py:95` counts a hung LLM call
  among what stopping the container unwedges; it does not run in the container.
* `agent_partial_diff` (`DiffNamesEveryChange`): `files_changed` is replaced in each
  round of the coder, so after a self-heal the diff no longer has "each changed file"
  (`README.md:54`).
* `retention_host` (`HostPathsAreKept`): the sweep "Deletes expired upload directories"
  (`retention.py:38`), and takes the row that get_or_create_local_upload adds around a
  host path for one of them: an hour after its first task the user's own
  repository is removed.

Further behaviours are in the models without a run of their own:

* emit logs a failing insert and publishes the event (`executor.py:57-58`), although the
  docstring above it says that a replay "must never" be shorter than what was rendered.
  Without its premise `AllPersisted`, `ViewNeverGoesBack` fails in `client_core`.
* A failing `mark_finished` leaves an active row that refuses its user until a restart.
* A failing `get_events` leaves a subscribed queue behind.
* A failing read makes the coder show an existing file as new.
* An `rmtree` that fails is not noticed, because it is told to ignore errors, and the
  directory is never looked for again.
* The 24-hour window of the sweep never decides anything, since the one-hour window also
  counts from the creation of the row; the comment in the code calls this an
  approximation.
* The old entries of a file that was removed, or has become blank, stay searchable
  (`indexer.py:67-69` skips it before the deletion).

Three more were met while reading the index and are below its abstraction: `EXCLUDED_DIRS` is
compared with the parts of the absolute path (`indexer.py:45`), so that a repository below a
directory called `build` or `data` is skipped as a whole; the limit counts bytes, and a part may end
inside a UTF-8 character, which is then decoded with replacement; and the bodies in `LeftOut` are
never embedded.

### Fairness

`TaskService`: a handler that has begun goes on (the loop does not stop between its
statements), threads and timers are scheduled, the pool hands out work, a dead process
is restarted (by whoever operates it: `docker-compose.yml` sets no restart policy). A client need not
submit, an LLM need not answer, and a blocked command returns for certain only
when its container is not running. `EventStream`: the worker goes on to its end,
the loop serves each connection, a dead process is restarted; clients open and
leave as they like. `ClientView` adds that the loop is done at last with a connection
that nobody reads, and that the browser handles answers, errors, timers and events; its user selects and
leaves at will, and nothing says that a loss must happen. `AgentGraph`: a node returns or raises; one that does not
is the subject of `TaskService`. `Retention`: time passes, the sweep's timer fires, a
run that has begun comes to its end (which is what `Settles` says), a dead process is
restarted; clients do as they like.

## 4. Proofs

Each theorem holds for all values of the constants that satisfy the named
assumptions of the module.

`TaskServiceProofs` (every fault allowed):
* `TypeCorrect`, `VerdictsAreFinal` (`TerminalAbsorbing`), `CutRunsNeverPass`
  (`CutMeansError`);
* `AdmissionIsBounded` (`AdmissionBound`) and `NothingQueuesSilently`
  (`NoSilentQueue`). Neither is inductive. The bound on rows holds at the insert only because the
  counts taken before it cannot have grown: the invariant says that at most one handler
  is past its first check, and that while it is, the counts are still below the limits.
  The second adds that a queued or executing task has an active row, so that
  the first bounds the second, and that each item of the pool's queue is a queued task.
  `CountsMonotone`, `OnlyInsertAdds` and `CountStep` say how a step changes a cardinality.
  `CutRunsNeverPass` needs that a run in `cut` has timed out and keeps the verdict
  `error` until it is recorded.

* `SandboxesAreBounded` (`SandboxCeiling`) and `EndedTasksAreTornDown` (`TornDown`) under
  `SandboxesObey`: the daemon leaves no container half created and stops, removes and reaps
  what it is told to. Every fault of the database, the LLM and the commands remains. The
  invariant `ContainerInv` says that, while requests are served, a container belongs to a
  worker between the start of its sandbox and its cleanup. That makes it one of a run in
  the pool, of which `NothingQueuesSilently` has bounded the number, and one
  whose row is not final yet.
* `ActiveRowsAreBacked` (`ActiveIsBacked`) under `RowsObey`: no update of a row and no submission
  fails. Its invariant `BackedInv` holds before the lifespan is through as well, except
  between a crash and the reconciliation, which is why a restart keeps it.

`EventOrderProofs` (every fault allowed):
* `TypeCorrect`, `NothingTwice` (`InOrderOnce`). When events may be missing from the table,
  neither the history nor the queue is an interval any more, so the invariant
  `DeliveryInv` knows only orders: a queue increases and holds nothing that
  was not published; what is in the history is no later than `maxReplayed`; and whatever a
  connection has sent is before its history, and either masked by `maxReplayed` or before
  everything that waits in its queue.
* The steps are stated for a server whose connections open after any of a given
  set of events (`ServerStep`), so that the client's reconnections are covered too.

`EventStreamProofs` under `TableObeys` (every event is persisted; reads and the final update may fail):
* `GaplessDelivery` (`Gapless`), `EndedIsComplete` (`CompleteWhenEnded`). The inductive
  invariant `StreamInv` says for the worker that the log is `1..seq` and that it closes last;
  for a queue, that it holds the latest published events in a row, from `Base + 1` on, with the
  end mark only behind them; for the splice, that the replay still to come is exactly the
  interval up to `maxReplayed`, that the queue begins no later than there, and that a
  connection past the replay stands where its queue begins. One lemma per
  actor shows that its steps keep it: `WorkerMoves`, `ConnectionMoves`, `OtherMoves`.
* `Refinement` (`ImplementsFeed`). Each action is mapped to one of the feed or to none
  (`FeedStep`). What has to be shown for a step that sends is that its event is the next one the feed
  owes the connection (`SendIsDelivery`), for one that ends, that the feed owes nothing more
  (`EndIsEnd`); both follow from `StreamInv` before and after the step. A request on
  its way to its stream, and one that has failed, is an open connection of the feed.

`ClientViewProofs` (every fault, loss and return allowed):
* `TypesAreKept` (`ClientTypeOK`), `ShownOnce` (`ViewInOrder`), `SentOnce` (`InOrderOnce`)
  without a hypothesis. The bound on what the hook has handled needs that a connection sends
  no more events than there are, hence `DeliveryInv`; an answer is in order because
  `Ordered` is (`OrderExists`, `OrderedLists`).
* `StoppedIsComplete` (`ClosedIsComplete`) and `HistoryNeverShrinks` (`ViewNeverGoesBack`), whose
  premise `AllPersisted` is part of the properties. An event that was left out stays out
  (`PersistedBefore`), so in the states they are about, `StreamInv` holds and
  with it `HookInv`: the view is the first `lastSeq` events; a stream
  began where its URL says, and the hook has everything it handled; an
  answer under way is no shorter than the view, and complete when its row is final; a view that is final
  has the last event. `FoldedStatus` is the closed form of the fold over an increasing
  list: the equation of the recursive function is solved by it, and unfolding it twice
  gives the status.

`AgentGraphProofs`:
* `TypeCorrect`, `VerdictsAreEarned`, `RepairsAreInformed`, `NeverOutOfSteps`. The
  invariant ties each node to the number of test runs and of supersteps that
  its iteration implies, and to what the last test run has seen of the coder's writes.
* `DiffsAreTrue` (`DiffIsTrue`), also for test commands that rewrite files.
  `CoderInv` says in the middle of the loop what the property says at its end, and that files not
  yet in the list are as the last test run left them; `RoundStep` adds a block for a file
  that is in the list already, or for one that is not.

`RetentionProofs`:
* `TypeCorrect` and the links between uploads, tasks and the sweep (`LinksHold`) under
  every failure. The link that matters is `DoomedAreUnused`: the paths that a sweep read at
  its beginning stay right until its end, because admission waits and everything
  else only ends tasks.
* `MountedAreKept` (`NeverPulledOut`), when containers stop that are told to: it
  adds that, while the process is up, a container belongs to a run under way.
* `DeletedAreGone`, `OnlyLostLeak`, `AdmittedHaveRepos` (`DeletedIsGone`,
  `OnlyLostUploadsLeak`, `AdmittedHasRepo`), when rmtree removes what it is told to: the
  invariant `Files` relates each row to its directory and its handler.

`ChunkerProofs` (sources of any size and nesting, any limit):
* `TypeCorrect`, `NoOverlap` (`ChunksDisjoint`), `WithinLimit` (`ChunksBounded`). The
  invariant `ChunkInv` says that spans and chunks are apart from each other, and that,
  while gaps are collected, a span is a head or lies before the cursor outside every
  item. Its heart is `HeadsApart`: the heads of two items never
  overlap, since an item that contains another ends its head before it.
* `NothingElseLost` (`ChunksCover`). The invariant says of each byte that is neither
  blank nor left out where it is kept: in a chunk, in a span, or in the part of the file
  that the gaps have not reached. `ItemsAreCovered` finds the head for a byte of an item: that of the
  smallest item around it.

`IndexerProofs` (any files, edits and runs cut off anywhere):
* `IndexTypeCorrect`, `NeverMixed` (`OneVersion`), `FreshIsFound` (`FreshIsSearchable`). A
  step of the indexer that is not one of `chunk_source` begins a call or leaves it alone,
  so the invariants of the chunker hold throughout, and their steps are cited as lemmas.
  The invariant `Progress` adds that, while a file is worked on, equal versions mean that
  the chunks are those of its present text, and that none of its entries are left when the
  new ones are inserted.

Hypotheses are named where a theorem needs them (`SandboxesObey`, `RowsObey`,
`TableObeys`, `DiskObeys`); each says which calls may not fail, and leaves every other fault,
the crashes and the interleavings as they are. Everything else is in the assumptions of the modules.

Only model-checked: liveness (`Settles`, `EventuallyCaughtUp`, `ViewConverges`, `Terminates`,
`SpaceIsFreed`), which rests on fairness and is beyond the prover. Every invariant and every action property of a
passing run, and the refinement, is stated by a theorem. The proofs were tried against
wrong code: with `IsNew` off by one, with a hook that reconnects beside an open source, or with
a hydration that misses events, the step that fails is the one of that action.

## 5. Not modelled, and the plan

Not modelled:

* the bytes of archives and payloads, prompts, logging, migrations, packaging and the
  rendering components: no state, or none that a property tells apart;
* token verification, the last-seen cache and the scoping of rows to their users: a filter
  on every request, without a behaviour over time. The expiry of stream tickets is in
  `ClientView`;
* the transfer of files to and from a container, `get_logs`, `is_running`: calls that succeed or
  raise, as the nodes of `AgentGraph` see them;
* embeddings and the ranking of a query;
* the pool of database connections. SQL sessions are abstracted to their commits, but the
  engine (`app/db/session.py:15`) has the default limit of 15 connections, async handlers wait for one
  on the event loop, and a stream may keep its session for as long as it is open, which
  depends on the version of FastAPI that `requirements.txt` lets in.

A composition of `TaskService` with `EventStream` was planned and dropped: what a client sees
between the done event and the closing of the row is in `ClientView`, whose `Finish` follows the
last event, and the rest of `TaskService` does not depend on events.

Still worth proving: that the client, seen as one more reader, follows the abstract feed.
