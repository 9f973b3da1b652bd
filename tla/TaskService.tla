----------------------------- MODULE TaskService -----------------------------
(***************************************************************************)
(* The life of refactoring tasks in one backend process: POST /tasks       *)
(* admits a task (api/routes.py create_task), a bounded thread pool runs   *)
(* it (api/executor.py execute_task) inside a Docker sandbox               *)
(* (drivers/docker_driver.py), a timer thread guards its wall clock, and   *)
(* the lifespan of main.py repairs the database and Docker after a crash.  *)
(*                                                                         *)
(* Three kinds of actor interleave: the event loop (request handlers, one  *)
(* at a time because create_task never awaits), the pool's worker threads  *)
(* and the watchdog threads.  Task rows and containers survive a crash;    *)
(* threads, timers and the pool's queue do not.                            *)
(*                                                                         *)
(* The agent's own nodes are abstracted to "a node ran": AgentGraph is     *)
(* their model.  The events a run emits are EventStream's subject.         *)
(***************************************************************************)
EXTENDS Naturals, Sequences, FiniteSets

CONSTANTS
  Tasks,          \* the requests that clients may submit; each owns at most one row
  Users,
  Owner,          \* the user who submits each task
  MaxConcurrent,  \* settings.MAX_CONCURRENT_TASKS: pool size and global ceiling
  MaxPerUser,     \* settings.MAX_TASKS_PER_USER
  MaxCrashes,     \* bound on the crashes of one behaviour
  Faults          \* the failures of Postgres, Docker and the LLM that may occur

FaultKinds == {"submit", "mark_running", "mark_finished", "reconcile",
               "start_half", "stop", "remove", "reap", "exec_hang", "llm_hang"}

ASSUME TasksAssumption  == IsFiniteSet(Tasks)
ASSUME OwnerAssumption  == Owner \in [Tasks -> Users]
ASSUME BoundsAssumption == /\ MaxConcurrent \in Nat \ {0}
                           /\ MaxPerUser \in Nat \ {0}
                           /\ MaxCrashes \in Nat
ASSUME FaultsAssumption == Faults \subseteq FaultKinds

VARIABLES
  proc,       \* "up", or the lifespan step a restarted process has reached
  crashes,    \* how many crashes have happened (bounded by MaxCrashes)
  status,     \* Task.status in Postgres, "none" when there is no row
  adm,        \* how far the create_task handler of a task has come
  pool,       \* the work queue of ThreadPoolExecutor
  wpc,        \* where the worker of a task is in execute_task
  verdict,    \* the local variable `status` of execute_task
  container,  \* the task's container in the Docker daemon
  wd,         \* the watchdog thread; timed_out is set once it fires
  cut         \* history: the tasks whose watchdog fired before their last check

vars == <<proc, crashes, status, adm, pool, wpc, verdict, container, wd, cut>>

Active   == {"pending", "queued", "running"}
Verdicts == {"passed", "failed", "error"}

\* Positions of a worker whose row is not yet closed, in program order.
Executing == {"begin", "build", "start", "node", "exec_hung", "llm_hung",
              "check", "stop", "cleanup", "finish"}
\* Those in which the graph has not ended.
InGraph   == {"node", "exec_hung", "llm_hung", "check"}
\* Those that occupy a thread.
OnThread  == Executing \cup {"close"}

TypeOK ==
  /\ proc \in {"up", "reconcile", "reap"}
  /\ crashes \in 0..MaxCrashes
  /\ status \in [Tasks -> {"none"} \cup Active \cup Verdicts]
  /\ adm \in [Tasks -> {"idle", "user_ok", "server_ok", "inserted"}]
  /\ pool \in Seq(Tasks)
  /\ wpc \in [Tasks -> {"none", "queued", "exited"} \cup OnThread]
  /\ verdict \in [Tasks -> Verdicts]
  /\ container \in [Tasks -> {"none", "half", "running", "stopped"}]
  /\ wd \in [Tasks -> {"off", "armed", "stopping", "fired"}]
  /\ cut \subseteq Tasks

Init ==
  /\ proc = "up"
  /\ crashes = 0
  /\ status = [t \in Tasks |-> "none"]
  /\ adm = [t \in Tasks |-> "idle"]
  /\ pool = <<>>
  /\ wpc = [t \in Tasks |-> "none"]
  /\ verdict = [t \in Tasks |-> "error"]
  /\ container = [t \in Tasks |-> "none"]
  /\ wd = [t \in Tasks |-> "off"]
  /\ cut = {}

\* Mutation of ActiveTasks: the admission counts only the tasks that run.
RunningTasks  == {t \in Tasks : status[t] = "running"}

\* The rows that count_active_tasks counts.
ActiveTasks   == {t \in Tasks : status[t] \in Active}
ActiveOf(u)   == {t \in ActiveTasks : Owner[t] = u}

\* The pool's threads at work.
Busy          == {t \in Tasks : wpc[t] \in OnThread}

\* Mutation of TimedOut: the flag is set after the container was stopped.
TimedOutLate(t) == wd[t] = "fired"

\* The flag timed_out.
TimedOut(t)   == wd[t] \in {"stopping", "fired"}
MayFail(k)    == k \in Faults

-----------------------------------------------------------------------------
(* The event loop: POST /tasks.                                            *)

\* Mutation of LoopFree: create_task awaits between its checks and its insert.
LoopShared(t) == TRUE

\* No other handler is between its first check and its submit: create_task is
\* a coroutine without an await, so the loop runs nothing else meanwhile.
LoopFree(t) == \A o \in Tasks \ {t} : adm[o] = "idle"

\* count_active_tasks(user_id): a user at the limit gets 429 and nothing changes.
CheckUser(t) ==
  /\ proc = "up"
  /\ status[t] = "none"
  /\ adm[t] = "idle"
  /\ LoopFree(t)
  /\ Cardinality(ActiveOf(Owner[t])) < MaxPerUser
  /\ adm' = [adm EXCEPT ![t] = "user_ok"]
  /\ UNCHANGED <<proc, crashes, status, pool, wpc, verdict, container, wd, cut>>

\* count_active_tasks(): a server at capacity answers 429.
CheckServer(t) ==
  /\ adm[t] = "user_ok"
  /\ adm' = [adm EXCEPT ![t] = IF Cardinality(ActiveTasks) < MaxConcurrent
                               THEN "server_ok" ELSE "idle"]
  /\ UNCHANGED <<proc, crashes, status, pool, wpc, verdict, container, wd, cut>>

InsertTask(t) ==
  /\ adm[t] = "server_ok"
  /\ adm' = [adm EXCEPT ![t] = "inserted"]
  /\ status' = [status EXCEPT ![t] = "pending"]
  /\ UNCHANGED <<proc, crashes, pool, wpc, verdict, container, wd, cut>>

\* submit_task.  The refresh after the insert's commit, or the pool, may raise:
\* the client gets a 500 and the row stays.
Submit(t) ==
  /\ adm[t] = "inserted"
  /\ adm' = [adm EXCEPT ![t] = "idle"]
  /\ \/ /\ pool' = Append(pool, t)
        /\ wpc' = [wpc EXCEPT ![t] = "queued"]
     \/ /\ MayFail("submit")
        /\ UNCHANGED <<pool, wpc>>
  /\ UNCHANGED <<proc, crashes, status, verdict, container, wd, cut>>

-----------------------------------------------------------------------------
(* A worker thread: execute_task.                                          *)

\* A free thread of the pool takes the oldest work item.
Dispatch ==
  /\ pool # <<>>
  /\ Cardinality(Busy) < MaxConcurrent
  /\ wpc' = [wpc EXCEPT ![Head(pool)] = "begin"]
  /\ pool' = Tail(pool)
  /\ UNCHANGED <<proc, crashes, status, adm, verdict, container, wd, cut>>

\* mark_running stands before the try block: when it raises, the worker
\* leaves without the finally clause.
MarkRunning(t) ==
  /\ wpc[t] = "begin"
  /\ \/ /\ status' = [status EXCEPT ![t] = "running"]
        /\ wpc' = [wpc EXCEPT ![t] = "build"]
     \/ /\ MayFail("mark_running")
        /\ wpc' = [wpc EXCEPT ![t] = "exited"]
        /\ UNCHANGED status
  /\ UNCHANGED <<proc, crashes, adm, pool, verdict, container, wd, cut>>

\* driver.build: a failing build raises into the except clause.
Build(t) ==
  /\ wpc[t] = "build"
  /\ \E next \in {"start", "stop"} : wpc' = [wpc EXCEPT ![t] = next]
  /\ UNCHANGED <<proc, crashes, status, adm, pool, verdict, container, wd, cut>>

\* driver.start creates and starts the container, then the timer is armed.
\* When the daemon fails between the two, the created container stays behind
\* and the driver holds no handle on it.
Start(t) ==
  /\ wpc[t] = "start"
  /\ \/ /\ container' = [container EXCEPT ![t] = "running"]
        /\ wd' = [wd EXCEPT ![t] = "armed"]
        /\ wpc' = [wpc EXCEPT ![t] = "node"]
     \/ /\ \/ UNCHANGED container
           \/ /\ MayFail("start_half")
              /\ container' = [container EXCEPT ![t] = "half"]
        /\ wpc' = [wpc EXCEPT ![t] = "stop"]
        /\ UNCHANGED wd
  /\ UNCHANGED <<proc, crashes, status, adm, pool, verdict, cut>>

\* A node of the agent graph returns its update or raises.
NodeEnds(t) ==
  /\ wpc[t] = "node"
  /\ \E next \in {"check", "stop"} : wpc' = [wpc EXCEPT ![t] = next]
  /\ UNCHANGED <<proc, crashes, status, adm, pool, verdict, container, wd, cut>>

\* A node blocks: a command that ignores its own timeout, or an LLM call.  A
\* command can only be started in a running container.
NodeHangs(t) ==
  /\ wpc[t] = "node"
  /\ \/ /\ MayFail("exec_hang")
        /\ container[t] = "running"
        /\ wpc' = [wpc EXCEPT ![t] = "exec_hung"]
     \/ /\ MayFail("llm_hang")
        /\ wpc' = [wpc EXCEPT ![t] = "llm_hung"]
  /\ UNCHANGED <<proc, crashes, status, adm, pool, verdict, container, wd, cut>>

\* The blocked exec_run returns, which stopping the container forces.
ExecReturns(t) ==
  /\ wpc[t] = "exec_hung"
  /\ \E next \in {"check", "stop"} : wpc' = [wpc EXCEPT ![t] = next]
  /\ UNCHANGED <<proc, crashes, status, adm, pool, verdict, container, wd, cut>>

LlmReturns(t) ==
  /\ wpc[t] = "llm_hung"
  /\ \E next \in {"check", "stop"} : wpc' = [wpc EXCEPT ![t] = next]
  /\ UNCHANGED <<proc, crashes, status, adm, pool, verdict, container, wd, cut>>

\* The test between two nodes.  A timed-out run raises TimeoutError, and so
\* does one whose deadline has passed; otherwise the graph goes on, or has
\* ended with the verdict of the tester.
Check(t) ==
  /\ wpc[t] = "check"
  /\ \/ /\ wpc' = [wpc EXCEPT ![t] = "stop"]
        /\ UNCHANGED verdict
     \/ /\ ~TimedOut(t)
        /\ wpc' = [wpc EXCEPT ![t] = "node"]
        /\ UNCHANGED verdict
     \/ /\ ~TimedOut(t)
        /\ wpc' = [wpc EXCEPT ![t] = "stop"]
        /\ \E v \in {"passed", "failed"} : verdict' = [verdict EXCEPT ![t] = v]
  /\ UNCHANGED <<proc, crashes, status, adm, pool, container, wd, cut>>

\* Mutation of AfterStop: a sandbox that the watchdog stopped is taken for gone.
AfterStopUnlessTimedOut(t) == IF TimedOut(t) THEN "finish" ELSE "cleanup"

\* driver.cleanup follows every driver.stop that returns.
AfterStop(t) == "cleanup"

\* The finally clause cancels the timer, which works only before it fires, and
\* stops the container.  A stop that raises skips the removal.
StopSandbox(t) ==
  /\ wpc[t] = "stop"
  /\ wd' = [wd EXCEPT ![t] = IF @ = "armed" THEN "off" ELSE @]
  /\ \/ /\ container' = [container EXCEPT ![t] = IF @ = "running" THEN "stopped" ELSE @]
        /\ wpc' = [wpc EXCEPT ![t] = AfterStop(t)]
     \/ /\ MayFail("stop")
        /\ container[t] = "running"
        /\ wpc' = [wpc EXCEPT ![t] = "finish"]
        /\ UNCHANGED container
  /\ UNCHANGED <<proc, crashes, status, adm, pool, verdict, cut>>

\* driver.cleanup removes the container the driver holds, if it holds one.
Cleanup(t) ==
  /\ wpc[t] = "cleanup"
  /\ wpc' = [wpc EXCEPT ![t] = "finish"]
  /\ \/ container' = [container EXCEPT ![t] = IF @ = "half" THEN @ ELSE "none"]
     \/ /\ MayFail("remove")
        /\ UNCHANGED container
  /\ UNCHANGED <<proc, crashes, status, adm, pool, verdict, wd, cut>>

\* mark_finished; when it raises, the row keeps its active status and
\* event_bus.close is never reached.
MarkFinished(t) ==
  /\ wpc[t] = "finish"
  /\ \/ /\ status' = [status EXCEPT ![t] = verdict[t]]
        /\ wpc' = [wpc EXCEPT ![t] = "close"]
     \/ /\ MayFail("mark_finished")
        /\ wpc' = [wpc EXCEPT ![t] = "exited"]
        /\ UNCHANGED status
  /\ UNCHANGED <<proc, crashes, adm, pool, verdict, container, wd, cut>>

\* event_bus.close, the worker's last call: its thread is free again and its
\* locals are gone.
Close(t) ==
  /\ wpc[t] = "close"
  /\ wpc' = [wpc EXCEPT ![t] = "exited"]
  /\ verdict' = [verdict EXCEPT ![t] = "error"]
  /\ UNCHANGED <<proc, crashes, status, adm, pool, container, wd, cut>>

-----------------------------------------------------------------------------
(* The watchdog thread: _on_timeout.                                       *)

WatchdogFires(t) ==
  /\ wd[t] = "armed"
  /\ wd' = [wd EXCEPT ![t] = "stopping"]
  /\ cut' = IF wpc[t] \in InGraph THEN cut \cup {t} ELSE cut
  /\ UNCHANGED <<proc, crashes, status, adm, pool, wpc, verdict, container>>

\* Mutation of WatchdogStops: the timer only sets its flag.
WatchdogOnlyFlags(t) ==
  /\ wd[t] = "stopping"
  /\ wd' = [wd EXCEPT ![t] = "fired"]
  /\ UNCHANGED <<proc, crashes, status, adm, pool, wpc, verdict, container, cut>>

\* driver.stop from the timer thread; its failure is logged and swallowed.
WatchdogStops(t) ==
  /\ wd[t] = "stopping"
  /\ wd' = [wd EXCEPT ![t] = "fired"]
  /\ \/ container' = [container EXCEPT ![t] = IF @ = "running" THEN "stopped" ELSE @]
     \/ /\ MayFail("stop")
        /\ UNCHANGED container
  /\ UNCHANGED <<proc, crashes, status, adm, pool, wpc, verdict, cut>>

-----------------------------------------------------------------------------
(* A crash, and the lifespan of the process that replaces it.              *)

\* The process dies at any point: its threads, its timers, its request in
\* flight and its work queue are gone; rows and containers are not.
Crash ==
  /\ crashes < MaxCrashes
  /\ crashes' = crashes + 1
  /\ proc' = "reconcile"
  /\ adm' = [t \in Tasks |-> "idle"]
  /\ pool' = <<>>
  /\ wpc' = [t \in Tasks |-> IF wpc[t] = "none" THEN "none" ELSE "exited"]
  /\ verdict' = [t \in Tasks |-> "error"]
  /\ wd' = [t \in Tasks |-> "off"]
  /\ UNCHANGED <<status, container, cut>>

\* Mutation of OrphanedRows: only tasks that had begun are marked.
BegunRows == {t \in Tasks : status[t] = "running"}

\* Mutation of OrphanedRows: the update without its where clause.
AllRows == {t \in Tasks : status[t] # "none"}

\* The rows that reconcile_orphaned updates.
OrphanedRows == {t \in Tasks : status[t] \in Active}

\* Mutation of Interrupted: a status of its own, which nothing else knows.
InterruptedApart == "interrupted"

\* The status it gives them.
Interrupted == "error"

\* reconcile_orphaned; a database that cannot be reached is logged and skipped.
Reconcile ==
  /\ proc = "reconcile"
  /\ proc' = "reap"
  /\ \/ status' = [t \in Tasks |-> IF t \in OrphanedRows THEN Interrupted ELSE status[t]]
     \/ /\ MayFail("reconcile")
        /\ UNCHANGED status
  /\ UNCHANGED <<crashes, adm, pool, wpc, verdict, container, wd, cut>>

\* Mutation of OrphanedSandboxes: a listing without all=True.
RunningSandboxes == {t \in Tasks : container[t] = "running"}

\* The containers that reap_orphaned_sandboxes lists: all with the label,
\* running or not.
OrphanedSandboxes == {t \in Tasks : container[t] # "none"}

\* reap_orphaned_sandboxes removes every labelled container it can; each
\* removal, or the listing of all of them, may fail and be passed over.
Reap ==
  /\ proc = "reap"
  /\ proc' = "up"
  /\ \E kept \in SUBSET OrphanedSandboxes :
       /\ kept = {} \/ MayFail("reap")
       /\ container' = [t \in Tasks |-> IF t \in OrphanedSandboxes \ kept
                                      THEN "none" ELSE container[t]]
  /\ UNCHANGED <<crashes, status, adm, pool, wpc, verdict, wd, cut>>

-----------------------------------------------------------------------------
Handler(t)  == CheckUser(t) \/ CheckServer(t) \/ InsertTask(t) \/ Submit(t)
\* The steps a worker takes without waiting for anything outside.
Worker(t)   == \/ MarkRunning(t) \/ Build(t) \/ Start(t)
               \/ NodeEnds(t) \/ NodeHangs(t) \/ Check(t)
               \/ StopSandbox(t) \/ Cleanup(t) \/ MarkFinished(t) \/ Close(t)
Blocked(t)  == ExecReturns(t) \/ LlmReturns(t)
Watchdog(t) == WatchdogFires(t) \/ WatchdogStops(t)
Lifespan    == Reconcile \/ Reap

Next ==
  \/ \E t \in Tasks : Handler(t) \/ Worker(t) \/ Blocked(t) \/ Watchdog(t)
  \/ Dispatch
  \/ Crash
  \/ Lifespan

\* A handler that has begun runs to its end, threads are scheduled, timers
\* expire, a process that has crashed is restarted.  A client need not submit,
\* a blocked call returns for certain only when its container has stopped, and
\* nothing obliges an LLM to answer.
Fairness ==
  /\ \A t \in Tasks : /\ WF_vars(CheckServer(t) \/ InsertTask(t) \/ Submit(t))
                      /\ WF_vars(Worker(t))
                      /\ WF_vars(ExecReturns(t) /\ container[t] # "running")
                      /\ WF_vars(Watchdog(t))
  /\ WF_vars(Dispatch)
  /\ WF_vars(Lifespan)

Spec     == Init /\ [][Next]_vars
FairSpec == Spec /\ Fairness

-----------------------------------------------------------------------------
(* What the service promises.                                              *)

\* The 429 answers of create_task keep the active rows within both limits,
\* whatever the workers and a restart do between its checks and its insert.
AdmissionBound ==
  /\ Cardinality(ActiveTasks) <= MaxConcurrent
  /\ \A u \in Users : Cardinality(ActiveOf(u)) <= MaxPerUser

\* count_active_tasks exists so that excess work is refused, not silently
\* queued: the runs in the pool never outnumber its threads, except that a run
\* may wait for a worker that only has its event_bus.close left to call.
NoSilentQueue ==
  Cardinality({t \in Tasks : wpc[t] \in {"queued"} \cup Executing}) <= MaxConcurrent

\* The host never carries more sandboxes than the ceiling, also after restarts
\* (executor.py: not "zero ceiling").  It needs a Docker daemon that obeys.
SandboxCeiling ==
  proc = "up" => Cardinality({t \in Tasks : container[t] # "none"}) <= MaxConcurrent

\* An active row is one that somebody will finish: its handler is about to
\* submit it, or a worker has it.  Otherwise its user is told to "wait for it
\* to finish" until the next restart.
ActiveIsBacked ==
  proc = "up" =>
    \A t \in ActiveTasks : adm[t] = "inserted" \/ wpc[t] \in {"queued"} \cup Executing

\* A task with a terminal row has no sandbox left, whoever ended it: its
\* worker, its watchdog in a race with that worker, or a restart.
TornDown ==
  proc = "up" => \A t \in Tasks : status[t] \in Verdicts => container[t] = "none"

\* A run that its watchdog interrupted while the graph was still running never
\* ends as passed or failed, since its last node saw a stopped container.
CutMeansError ==
  \A t \in cut : status[t] \notin {"passed", "failed"}

\* A verdict, once recorded, is final: no worker of the old process and no
\* reconciliation rewrites it.
TerminalAbsorbing ==
  [][\A t \in Tasks : status[t] \in Verdicts => status'[t] = status[t]]_vars

\* Every admitted task is decided in the end, though its command may hang and
\* the process may crash: the watchdog or the restart sees to it.
Settles == \A t \in Tasks : (status[t] = "pending") ~> (status[t] \in Verdicts)

\* The watchdog unwedges whatever the run is blocked in, so that the wall
\* clock limit is a hard cap on the task.
HardCap == \A t \in Tasks : TimedOut(t) ~> (status[t] \in Verdicts)
=============================================================================
