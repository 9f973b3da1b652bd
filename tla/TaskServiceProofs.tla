-------------------------- MODULE TaskServiceProofs --------------------------
(* Theorems about TaskService, for every set of tasks, owner and limit.    *)
EXTENDS TaskService, FiniteSetTheorems, TLAPS

\* Every step keeps the type of every variable.
LEMMA TypeStep == TypeOK /\ [Next]_vars => TypeOK'
<1> SUFFICES ASSUME TypeOK, [Next]_vars PROVE TypeOK'
  OBVIOUS
<1> USE DEF TypeOK, Active, Verdicts, OnThread, Executing
<1>1. ASSUME NEW t \in Tasks, Handler(t) PROVE TypeOK'
  <2>1. CASE CheckUser(t)
    BY <2>1 DEF CheckUser
  <2>2. CASE CheckServer(t)
    BY <2>2 DEF CheckServer
  <2>3. CASE InsertTask(t)
    BY <2>3 DEF InsertTask
  <2>4. CASE Submit(t)
    <3>1. pool' \in Seq(Tasks)
      <4>1. Append(pool, t) \in Seq(Tasks)
        OBVIOUS
      <4> QED BY <2>4, <4>1 DEF Submit
    <3>2. /\ wpc' \in [Tasks -> {"none", "queued", "exited"} \cup OnThread]
          /\ adm' \in [Tasks -> {"idle", "user_ok", "server_ok", "inserted"}]
      BY <2>4 DEF Submit
    <3> QED BY <2>4, <3>1, <3>2 DEF Submit
  <2> QED BY <1>1, <2>1, <2>2, <2>3, <2>4 DEF Handler
<1>2. ASSUME NEW t \in Tasks, Worker(t) PROVE TypeOK'
  <2>1. CASE MarkRunning(t)
    BY <2>1 DEF MarkRunning
  <2>2. CASE Build(t)
    BY <2>2 DEF Build
  <2>3. CASE Start(t)
    BY <2>3 DEF Start
  <2>4. CASE NodeEnds(t)
    BY <2>4 DEF NodeEnds
  <2>5. CASE NodeHangs(t)
    BY <2>5 DEF NodeHangs
  <2>6. CASE Check(t)
    BY <2>6 DEF Check
  <2>7. CASE StopSandbox(t)
    BY <2>7 DEF StopSandbox, AfterStop
  <2>8. CASE Cleanup(t)
    BY <2>8 DEF Cleanup
  <2>9. CASE MarkFinished(t)
    BY <2>9 DEF MarkFinished
  <2>10. CASE Close(t)
    BY <2>10 DEF Close
  <2> QED BY <1>2, <2>1, <2>2, <2>3, <2>4, <2>5, <2>6, <2>7, <2>8, <2>9, <2>10
          DEF Worker
<1>3. ASSUME NEW t \in Tasks, Blocked(t) PROVE TypeOK'
  BY <1>3 DEF Blocked, ExecReturns, LlmReturns
<1>4. ASSUME NEW t \in Tasks, Watchdog(t) PROVE TypeOK'
  BY <1>4 DEF Watchdog, WatchdogFires, WatchdogStops
<1>5. CASE Dispatch
  BY <1>5 DEF Dispatch
<1>6. CASE Crash
  BY <1>6, BoundsAssumption DEF Crash
<1>7. CASE Reconcile
  BY <1>7 DEF Reconcile, Interrupted
<1>8. CASE Reap
  BY <1>8 DEF Reap
<1>9. CASE UNCHANGED vars
  BY <1>9 DEF vars
<1> QED BY <1>1, <1>2, <1>3, <1>4, <1>5, <1>6, <1>7, <1>8, <1>9 DEF Next, Lifespan

\* The variables of the service keep their types in every behaviour.
THEOREM TypeCorrect == Spec => []TypeOK
<1>1. Init => TypeOK
  BY BoundsAssumption DEF Init, TypeOK, Verdicts
<1> QED BY <1>1, TypeStep, PTL DEF Spec

-----------------------------------------------------------------------------
(* The inductive invariant.                                                *)

\* A task that is queued or executed.
Live(t) == wpc[t] \in {"queued"} \cup Executing

\* At most one create_task handler is between its first check and its submit.
OneHandler ==
  \A t, o \in Tasks : adm[t] # "idle" /\ adm[o] # "idle" => t = o

\* Before the lifespan is done, no handler, no worker and no timer exists.
QuietBoot ==
  proc # "up" =>
    /\ pool = <<>>
    /\ \A t \in Tasks : adm[t] = "idle" /\ wpc[t] \in {"none", "exited"}

\* A row comes before its worker, and stays active as long as there is work.
RowBeforeWork ==
  \A t \in Tasks :
    /\ status[t] = "none" => wpc[t] = "none"
    /\ adm[t] # "idle" => wpc[t] = "none"
    /\ adm[t] \in {"user_ok", "server_ok"} => status[t] = "none"
    /\ adm[t] = "inserted" => status[t] \in Active
    /\ Live(t) => status[t] \in Active

\* The work queue holds the queued tasks, each once.
PoolIsQueued ==
  /\ \A i \in 1..Len(pool) : wpc[pool[i]] = "queued"
  /\ \A i, j \in 1..Len(pool) : i # j => pool[i] # pool[j]

\* What the handler has counted still holds when it inserts its row.
CountsHold ==
  \A t \in Tasks :
    /\ adm[t] \in {"user_ok", "server_ok"} =>
         Cardinality(ActiveOf(Owner[t])) < MaxPerUser
    /\ adm[t] = "server_ok" => Cardinality(ActiveTasks) < MaxConcurrent

Flow == TypeOK /\ OneHandler /\ QuietBoot /\ RowBeforeWork /\ PoolIsQueued

ServiceInv == Flow /\ CountsHold /\ AdmissionBound

\* Every step keeps the order of handler, row, queue and worker.
LEMMA FlowStep == Flow /\ [Next]_vars => Flow'
<1> SUFFICES ASSUME Flow, [Next]_vars PROVE Flow'
  OBVIOUS
<1>0. TypeOK'
  BY TypeStep DEF Flow
<1> SUFFICES OneHandler' /\ QuietBoot' /\ RowBeforeWork' /\ PoolIsQueued'
  BY <1>0 DEF Flow
<1> USE DEF Flow, OneHandler, QuietBoot, RowBeforeWork, PoolIsQueued, Live,
            Active, Verdicts, Executing, OnThread
<1>1. ASSUME NEW t \in Tasks, CheckUser(t) \/ CheckServer(t) \/ InsertTask(t)
      PROVE  OneHandler' /\ QuietBoot' /\ RowBeforeWork' /\ PoolIsQueued'
  <2>1. CASE CheckUser(t)
    BY <2>1 DEF CheckUser, LoopFree, TypeOK
  <2>2. CASE CheckServer(t)
    BY <2>2 DEF CheckServer, TypeOK
  <2>3. CASE InsertTask(t)
    BY <2>3 DEF InsertTask, TypeOK
  <2> QED BY <1>1, <2>1, <2>2, <2>3
<1>2. ASSUME NEW t \in Tasks, Submit(t)
      PROVE  OneHandler' /\ QuietBoot' /\ RowBeforeWork' /\ PoolIsQueued'
  <2>1. OneHandler' /\ QuietBoot' /\ RowBeforeWork'
    BY <1>2 DEF Submit, TypeOK
  <2>2. \A i \in 1..Len(pool) : pool[i] # t
    BY <1>2 DEF Submit, TypeOK
  <2>3. PoolIsQueued'
    <3>1. CASE pool' = Append(pool, t) /\ wpc' = [wpc EXCEPT ![t] = "queued"]
      <4>1. /\ Len(pool') = Len(pool) + 1
            /\ \A i \in 1..Len(pool) : pool'[i] = pool[i] /\ pool[i] \in Tasks
            /\ pool'[Len(pool) + 1] = t
        BY <3>1 DEF TypeOK
      <4>2. \A i \in 1..Len(pool') : wpc'[pool'[i]] = "queued"
        BY <2>2, <3>1, <4>1 DEF TypeOK
      <4>3. \A i, j \in 1..Len(pool') : i # j => pool'[i] # pool'[j]
        BY <2>2, <4>1 DEF TypeOK
      <4> QED BY <4>2, <4>3
    <3>2. CASE UNCHANGED <<pool, wpc>>
      BY <3>2
    <3> QED BY <1>2, <3>1, <3>2 DEF Submit
  <2> QED BY <2>1, <2>3
<1>3. CASE Dispatch
  <2>1. Head(pool) \in Tasks /\ wpc[Head(pool)] = "queued"
    BY <1>3 DEF Dispatch, TypeOK
  <2>2. OneHandler' /\ QuietBoot' /\ RowBeforeWork'
    BY <1>3, <2>1 DEF Dispatch, TypeOK
  <2>3. \A i \in 1..Len(pool') : pool'[i] = pool[i + 1] /\ i + 1 \in 1..Len(pool)
    BY <1>3 DEF Dispatch, TypeOK
  <2>4. \A i \in 1..Len(pool') : pool'[i] # Head(pool)
    BY <1>3, <2>3 DEF Dispatch, TypeOK
  <2>5. PoolIsQueued'
    BY <1>3, <2>3, <2>4 DEF Dispatch, TypeOK
  <2> QED BY <2>2, <2>5
<1>4. ASSUME NEW t \in Tasks, Worker(t) \/ Blocked(t)
      PROVE  OneHandler' /\ QuietBoot' /\ RowBeforeWork' /\ PoolIsQueued'
  <2>1. /\ wpc[t] \in OnThread
        /\ wpc' = [wpc EXCEPT ![t] = wpc'[t]]
        /\ wpc'[t] \in Executing \cup {"close", "exited"}
        /\ wpc'[t] \in Executing => wpc[t] \in Executing
        /\ \/ UNCHANGED status
           \/ status' = [status EXCEPT ![t] = "running"] /\ wpc[t] = "begin"
           \/ status' = [status EXCEPT ![t] = verdict[t]] /\ wpc'[t] = "close"
        /\ UNCHANGED <<proc, adm, pool>>
    <3>1. CASE MarkRunning(t)
      BY <3>1 DEF MarkRunning, TypeOK
    <3>2. CASE Build(t) \/ Start(t)
      BY <3>2 DEF Build, Start, TypeOK
    <3>3. CASE NodeEnds(t) \/ NodeHangs(t) \/ Blocked(t)
      BY <3>3 DEF NodeEnds, NodeHangs, Blocked, ExecReturns, LlmReturns, TypeOK
    <3>4. CASE Check(t)
      BY <3>4 DEF Check, TypeOK
    <3>5. CASE StopSandbox(t) \/ Cleanup(t)
      BY <3>5 DEF StopSandbox, AfterStop, Cleanup, TypeOK
    <3>6. CASE MarkFinished(t) \/ Close(t)
      BY <3>6 DEF MarkFinished, Close, TypeOK
    <3> QED BY <1>4, <3>1, <3>2, <3>3, <3>4, <3>5, <3>6 DEF Worker
  <2>2. OneHandler' /\ QuietBoot'
    BY <2>1 DEF TypeOK
  <2>3. RowBeforeWork'
    BY <2>1 DEF TypeOK
  <2>4. PoolIsQueued'
    BY <2>1 DEF TypeOK
  <2> QED BY <2>2, <2>3, <2>4
<1>5. ASSUME NEW t \in Tasks, Watchdog(t)
      PROVE  OneHandler' /\ QuietBoot' /\ RowBeforeWork' /\ PoolIsQueued'
  BY <1>5 DEF Watchdog, WatchdogFires, WatchdogStops
<1>6. CASE Crash
  BY <1>6 DEF Crash, TypeOK
<1>7. CASE Reconcile
  BY <1>7 DEF Reconcile, OrphanedRows, Interrupted, TypeOK
<1>8. CASE Reap
  BY <1>8 DEF Reap
<1>9. CASE UNCHANGED vars
  BY <1>9 DEF vars
<1> QED
  BY <1>1, <1>2, <1>3, <1>4, <1>5, <1>6, <1>7, <1>8, <1>9
  DEF Next, Handler, Lifespan

-----------------------------------------------------------------------------
(* Admission.                                                              *)

\* The sets that the handler counts are finite, and count monotonically.
LEMMA CountsMonotone ==
  ASSUME NEW S \in SUBSET Tasks, NEW R \in SUBSET S
  PROVE  /\ Cardinality(S) \in Nat
         /\ Cardinality(R) \in Nat
         /\ Cardinality(R) <= Cardinality(S)
<1>1. IsFiniteSet(S)
  BY FS_Subset, TasksAssumption
<1>2. IsFiniteSet(R)
  BY <1>1, FS_Subset
<1> QED BY <1>1, <1>2, FS_Subset, FS_CardinalityType

\* Only InsertTask makes a row active.
LEMMA OnlyInsertAdds ==
  ASSUME Flow, [Next]_vars, \A t \in Tasks : ~InsertTask(t)
  PROVE  ActiveTasks' \subseteq ActiveTasks
<1> USE DEF ActiveTasks, Active, Flow
<1>1. ASSUME NEW t \in Tasks, Handler(t) PROVE UNCHANGED status
  BY <1>1 DEF Handler, CheckUser, CheckServer, Submit
<1>2. ASSUME NEW t \in Tasks, Worker(t) PROVE ActiveTasks' \subseteq ActiveTasks
  <2>1. CASE MarkRunning(t)
    BY <2>1 DEF MarkRunning, RowBeforeWork, Live, Executing, TypeOK
  <2>2. CASE MarkFinished(t)
    BY <2>2 DEF MarkFinished, Verdicts, TypeOK
  <2>3. CASE UNCHANGED status
    BY <2>3
  <2> QED BY <1>2, <2>1, <2>2, <2>3
          DEF Worker, Build, Start, NodeEnds, NodeHangs, Check, StopSandbox, Cleanup, Close
<1>3. ASSUME NEW t \in Tasks, Blocked(t) \/ Watchdog(t) PROVE UNCHANGED status
  BY <1>3 DEF Blocked, ExecReturns, LlmReturns, Watchdog, WatchdogFires, WatchdogStops
<1>4. CASE Dispatch \/ Crash \/ Reap \/ UNCHANGED vars
  BY <1>4 DEF Dispatch, Crash, Reap, vars
<1>5. CASE Reconcile
  BY <1>5 DEF Reconcile, OrphanedRows, Interrupted, TypeOK
<1> QED BY <1>1, <1>2, <1>3, <1>4, <1>5 DEF Next, Lifespan

\* The counts that the handler has taken still hold when it inserts its row.
LEMMA CountStep == ServiceInv /\ [Next]_vars => CountsHold' /\ AdmissionBound'
<1> SUFFICES ASSUME ServiceInv, [Next]_vars PROVE CountsHold' /\ AdmissionBound'
  OBVIOUS
<1>0. /\ ActiveTasks \in SUBSET Tasks
      /\ \A u : ActiveOf(u) \in SUBSET Tasks
  BY DEF ActiveTasks, ActiveOf
<1>1. CASE \A t \in Tasks : ~InsertTask(t)
  <2>1. ActiveTasks' \subseteq ActiveTasks
    BY <1>1, OnlyInsertAdds DEF ServiceInv
  <2>2. \A u : (ActiveOf(u))' \subseteq ActiveOf(u)
    BY <2>1 DEF ActiveOf
  <2>3. /\ Cardinality(ActiveTasks) \in Nat
        /\ Cardinality(ActiveTasks') \in Nat
        /\ Cardinality(ActiveTasks') <= Cardinality(ActiveTasks)
    BY <1>0, <2>1, CountsMonotone
  <2>4. \A u : /\ Cardinality(ActiveOf(u)) \in Nat
               /\ Cardinality((ActiveOf(u))') \in Nat
               /\ Cardinality((ActiveOf(u))') <= Cardinality(ActiveOf(u))
    BY <1>0, <2>2, CountsMonotone
  <2>5. AdmissionBound'
    BY <2>3, <2>4, BoundsAssumption DEF ServiceInv, AdmissionBound
  <2> DEFINE Counted(t) ==
        /\ adm'[t] \in {"user_ok", "server_ok"} =>
             \/ adm[t] \in {"user_ok", "server_ok"}
             \/ Cardinality(ActiveOf(Owner[t])) < MaxPerUser
        /\ adm'[t] = "server_ok" =>
             \/ adm[t] = "server_ok"
             \/ Cardinality(ActiveTasks) < MaxConcurrent
  <2>6. ASSUME NEW t \in Tasks PROVE Counted(t)
    <3> USE <2>6 DEF ServiceInv, Flow, TypeOK
    <3>1. ASSUME NEW o \in Tasks, Handler(o) PROVE Counted(t)
      BY <1>1, <3>1 DEF Handler, CheckUser, CheckServer, Submit
    <3>2. ASSUME NEW o \in Tasks, Worker(o) \/ Blocked(o) \/ Watchdog(o)
          PROVE  UNCHANGED adm
      BY <3>2 DEF Worker, MarkRunning, Build, Start, NodeEnds, NodeHangs, Check,
                  StopSandbox, Cleanup, MarkFinished, Close, Blocked, ExecReturns,
                  LlmReturns, Watchdog, WatchdogFires, WatchdogStops
    <3>3. CASE Dispatch \/ Crash \/ Lifespan \/ UNCHANGED vars
      BY <3>3 DEF Dispatch, Crash, Lifespan, Reconcile, Reap, vars
    <3> QED BY <3>1, <3>2, <3>3 DEF Next
  <2>7. CountsHold'
    BY <2>3, <2>4, <2>6, BoundsAssumption DEF ServiceInv, CountsHold
  <2> QED BY <2>5, <2>7
<1>2. ASSUME NEW t \in Tasks, InsertTask(t) PROVE CountsHold' /\ AdmissionBound'
  <2> USE <1>2 DEF InsertTask, ServiceInv, Flow, TypeOK
  <2>1. \A o \in Tasks : adm'[o] \notin {"user_ok", "server_ok"}
    BY DEF OneHandler
  <2>2. CountsHold'
    BY <2>1 DEF CountsHold
  <2>3. /\ ActiveTasks' = ActiveTasks \cup {t}
        /\ t \notin ActiveTasks
    BY DEF ActiveTasks, Active, RowBeforeWork
  <2>4. /\ (ActiveOf(Owner[t]))' = ActiveOf(Owner[t]) \cup {t}
        /\ \A u : u # Owner[t] => (ActiveOf(u))' = ActiveOf(u)
        /\ t \notin ActiveOf(Owner[t])
    BY <2>3 DEF ActiveOf
  <2>5. Cardinality(ActiveTasks') <= MaxConcurrent
    <3>1. IsFiniteSet(ActiveTasks)
      BY <1>0, FS_Subset, TasksAssumption
    <3>2. /\ Cardinality(ActiveTasks') = Cardinality(ActiveTasks) + 1
          /\ Cardinality(ActiveTasks) \in Nat
      BY <2>3, <3>1, FS_AddElement, FS_CardinalityType
    <3> QED BY <3>2, BoundsAssumption DEF CountsHold
  <2>6. Cardinality((ActiveOf(Owner[t]))') <= MaxPerUser
    <3>1. IsFiniteSet(ActiveOf(Owner[t]))
      BY <1>0, FS_Subset, TasksAssumption
    <3>2. /\ Cardinality((ActiveOf(Owner[t]))') = Cardinality(ActiveOf(Owner[t])) + 1
          /\ Cardinality(ActiveOf(Owner[t])) \in Nat
      BY <2>4, <3>1, FS_AddElement, FS_CardinalityType
    <3> QED BY <3>2, BoundsAssumption DEF CountsHold
  <2>7. AdmissionBound'
    BY <2>4, <2>5, <2>6 DEF AdmissionBound
  <2> QED BY <2>2, <2>7
<1> QED BY <1>1, <1>2

\* The inductive invariant holds in every behaviour.
LEMMA ServiceInvariant == Spec => []ServiceInv
<1>1. Init => ServiceInv
  <2> SUFFICES ASSUME Init PROVE ServiceInv
    OBVIOUS
  <2>1. TypeOK
    BY BoundsAssumption DEF Init, TypeOK, Verdicts
  <2>2. OneHandler /\ QuietBoot /\ RowBeforeWork /\ PoolIsQueued /\ CountsHold
    BY DEF Init, OneHandler, QuietBoot, RowBeforeWork, PoolIsQueued, CountsHold,
           Live, Executing
  <2>3. ActiveTasks = {} /\ \A u : ActiveOf(u) = {}
    BY DEF Init, ActiveTasks, ActiveOf, Active
  <2>4. AdmissionBound
    BY <2>3, FS_EmptySet, BoundsAssumption DEF AdmissionBound
  <2> QED BY <2>1, <2>2, <2>4 DEF ServiceInv, Flow
<1>2. ServiceInv /\ [Next]_vars => ServiceInv'
  BY FlowStep, CountStep DEF ServiceInv
<1> QED BY <1>1, <1>2, PTL DEF Spec

\* create_task never lets the active rows exceed the limit of the server or of
\* a user, although workers and restarts change rows between its checks.
THEOREM AdmissionIsBounded == Spec => []AdmissionBound
<1>1. ServiceInv => AdmissionBound
  BY DEF ServiceInv
<1> QED BY <1>1, ServiceInvariant, PTL

\* Hence the runs handed to the pool never outnumber its threads: whoever is
\* admitted is not left waiting behind another run.
THEOREM NothingQueuesSilently == Spec => []NoSilentQueue
<1>1. ServiceInv => NoSilentQueue
  <2> SUFFICES ASSUME ServiceInv PROVE NoSilentQueue
    OBVIOUS
  <2> DEFINE Runs == {t \in Tasks : wpc[t] \in {"queued"} \cup Executing}
  <2>1. Runs \subseteq ActiveTasks
    BY DEF ServiceInv, Flow, RowBeforeWork, Live, ActiveTasks
  <2>2. ActiveTasks \in SUBSET Tasks
    BY DEF ActiveTasks
  <2>3. /\ Cardinality(Runs) <= Cardinality(ActiveTasks)
        /\ Cardinality(Runs) \in Nat
        /\ Cardinality(ActiveTasks) \in Nat
    BY <2>1, <2>2, CountsMonotone
  <2>4. Cardinality(Runs) <= MaxConcurrent
    BY <2>3, BoundsAssumption DEF ServiceInv, AdmissionBound
  <2> QED BY <2>4 DEF NoSilentQueue
<1> QED BY <1>1, ServiceInvariant, PTL

\* A recorded verdict is never rewritten, by any interleaving of workers,
\* crashes and reconciliations.
THEOREM VerdictsAreFinal == Spec => TerminalAbsorbing
<1>1. ServiceInv /\ [Next]_vars =>
        [\A t \in Tasks : status[t] \in Verdicts => status'[t] = status[t]]_vars
  <2> SUFFICES ASSUME ServiceInv, Next, NEW t \in Tasks, status[t] \in Verdicts
               PROVE  status'[t] = status[t]
    OBVIOUS
  <2> USE DEF ServiceInv, Flow, TypeOK, RowBeforeWork, Active, Verdicts
  <2>1. ASSUME NEW o \in Tasks, Handler(o) PROVE status'[t] = status[t]
    BY <2>1 DEF Handler, CheckUser, CheckServer, InsertTask, Submit
  <2>2. ASSUME NEW o \in Tasks, Worker(o) PROVE status'[t] = status[t]
    <3>1. CASE MarkRunning(o) \/ MarkFinished(o)
      BY <3>1 DEF MarkRunning, MarkFinished, Live, Executing
    <3>2. CASE UNCHANGED status
      BY <3>2
    <3> QED BY <2>2, <3>1, <3>2
            DEF Worker, Build, Start, NodeEnds, NodeHangs, Check, StopSandbox, Cleanup, Close
  <2>3. ASSUME NEW o \in Tasks, Blocked(o) \/ Watchdog(o) PROVE status'[t] = status[t]
    BY <2>3 DEF Blocked, ExecReturns, LlmReturns, Watchdog, WatchdogFires, WatchdogStops
  <2>4. CASE Dispatch \/ Crash \/ Reap
    BY <2>4 DEF Dispatch, Crash, Reap
  <2>5. CASE Reconcile
    BY <2>5 DEF Reconcile, OrphanedRows
  <2> QED BY <2>1, <2>2, <2>3, <2>4, <2>5 DEF Next, Lifespan
<1> QED BY <1>1, ServiceInvariant, PTL DEF Spec, TerminalAbsorbing

-----------------------------------------------------------------------------
(* A run that the watchdog has cut off.                                    *)

\* Its worker is past the start, sees the flag at its next check, and carries
\* no verdict other than the "error" that execute_task began with.
CutInv ==
  \A t \in Tasks :
    /\ wpc[t] \in {"none", "queued", "begin", "build", "start"} \cup InGraph =>
         verdict[t] = "error"
    /\ t \in cut =>
         /\ status[t] \notin {"passed", "failed"}
         /\ verdict[t] = "error"
         /\ wpc[t] \notin {"none", "queued", "begin", "build", "start"}
         /\ Live(t) => TimedOut(t)

LEMMA CutStep == ServiceInv /\ CutInv /\ [Next]_vars => CutInv'
<1> SUFFICES ASSUME ServiceInv, CutInv, [Next]_vars PROVE CutInv'
  OBVIOUS
<1> USE DEF ServiceInv, Flow, TypeOK, CutInv, RowBeforeWork, Live, TimedOut,
            Active, Verdicts, Executing, OnThread, InGraph
<1>1. ASSUME NEW t \in Tasks, Handler(t) PROVE CutInv'
  BY <1>1 DEF Handler, CheckUser, CheckServer, InsertTask, Submit
<1>2. ASSUME NEW t \in Tasks, Worker(t) PROVE CutInv'
  <2>1. CASE MarkRunning(t) \/ Build(t)
    BY <2>1 DEF MarkRunning, Build
  <2>2. CASE Start(t)
    BY <2>2 DEF Start
  <2>3. CASE NodeEnds(t) \/ NodeHangs(t)
    BY <2>3 DEF NodeEnds, NodeHangs
  <2>4. CASE Check(t)
    BY <2>4 DEF Check
  <2>5. CASE StopSandbox(t)
    BY <2>5 DEF StopSandbox, AfterStop
  <2>6. CASE Cleanup(t)
    BY <2>6 DEF Cleanup
  <2>7. CASE MarkFinished(t) \/ Close(t)
    BY <2>7 DEF MarkFinished, Close
  <2> QED BY <1>2, <2>1, <2>2, <2>3, <2>4, <2>5, <2>6, <2>7 DEF Worker
<1>3. ASSUME NEW t \in Tasks, Blocked(t) PROVE CutInv'
  BY <1>3 DEF Blocked, ExecReturns, LlmReturns
<1>4. ASSUME NEW t \in Tasks, Watchdog(t) PROVE CutInv'
  BY <1>4 DEF Watchdog, WatchdogFires, WatchdogStops
<1>5. CASE Dispatch
  <2>1. Head(pool) \in Tasks /\ wpc[Head(pool)] = "queued"
    BY <1>5 DEF Dispatch, PoolIsQueued
  <2> QED BY <1>5, <2>1 DEF Dispatch
<1>6. CASE Crash
  BY <1>6 DEF Crash
<1>7. CASE Reconcile
  BY <1>7 DEF Reconcile, OrphanedRows, Interrupted
<1>8. CASE Reap \/ UNCHANGED vars
  BY <1>8 DEF Reap, vars
<1> QED BY <1>1, <1>2, <1>3, <1>4, <1>5, <1>6, <1>7, <1>8 DEF Next, Lifespan

\* A run that was cut off while its graph was running is never recorded as
\* passed or failed, however late its worker notices.
THEOREM CutRunsNeverPass == Spec => []CutMeansError
<1>1. Init => CutInv
  BY DEF Init, CutInv
<1>2. ServiceInv /\ CutInv /\ [Next]_vars => CutInv'
  BY CutStep
<1>3. CutInv /\ ServiceInv => CutMeansError
  BY DEF CutInv, ServiceInv, Flow, TypeOK, CutMeansError
<1> QED BY <1>1, <1>2, <1>3, ServiceInvariant, PTL DEF Spec

-----------------------------------------------------------------------------
(* Sandboxes, when the Docker daemon does what it is told.                 *)

\* No container is left half created, survives its stop, or survives a removal.
SandboxesObey == Faults \cap {"start_half", "stop", "remove", "reap"} = {}

\* Where the worker of a task that has a container is.
HoldsSandbox == {"node", "exec_hung", "llm_hung", "check", "stop", "cleanup"}

ContainerInv ==
  \A t \in Tasks :
    /\ container[t] # "half"
    /\ proc = "up" /\ container[t] # "none" => wpc[t] \in HoldsSandbox

\* Every step leaves a container only with a worker that is going to remove it,
\* or to a restart that reaps it.
LEMMA ContainerStep ==
  ASSUME SandboxesObey
  PROVE  ServiceInv /\ ContainerInv /\ [Next]_vars => ContainerInv'
<1> SUFFICES ASSUME ServiceInv, ContainerInv, [Next]_vars PROVE ContainerInv'
  OBVIOUS
<1> USE SandboxesObey DEF SandboxesObey, MayFail, ServiceInv, Flow, TypeOK,
        ContainerInv, HoldsSandbox
<1>1. ASSUME NEW t \in Tasks, Handler(t) PROVE ContainerInv'
  <2>1. CASE CheckUser(t) \/ CheckServer(t) \/ InsertTask(t)
    BY <2>1 DEF CheckUser, CheckServer, InsertTask
  <2>2. CASE Submit(t)
    BY <2>2 DEF Submit, RowBeforeWork
  <2> QED BY <1>1, <2>1, <2>2 DEF Handler
<1>2. ASSUME NEW t \in Tasks, Worker(t) PROVE ContainerInv'
  <2>1. CASE MarkRunning(t) \/ Build(t)
    BY <2>1 DEF MarkRunning, Build
  <2>2. CASE Start(t)
    BY <2>2 DEF Start
  <2>3. CASE NodeEnds(t) \/ NodeHangs(t)
    BY <2>3 DEF NodeEnds, NodeHangs
  <2>4. CASE Check(t)
    BY <2>4 DEF Check
  <2>5. CASE StopSandbox(t)
    BY <2>5 DEF StopSandbox, AfterStop
  <2>6. CASE Cleanup(t)
    BY <2>6 DEF Cleanup
  <2>7. CASE MarkFinished(t) \/ Close(t)
    BY <2>7 DEF MarkFinished, Close
  <2> QED BY <1>2, <2>1, <2>2, <2>3, <2>4, <2>5, <2>6, <2>7 DEF Worker
<1>3. ASSUME NEW t \in Tasks, Blocked(t) PROVE ContainerInv'
  BY <1>3 DEF Blocked, ExecReturns, LlmReturns
<1>4. ASSUME NEW t \in Tasks, Watchdog(t) PROVE ContainerInv'
  BY <1>4 DEF Watchdog, WatchdogFires, WatchdogStops
<1>5. CASE Dispatch
  <2>1. Head(pool) \in Tasks /\ wpc[Head(pool)] = "queued"
    BY <1>5 DEF Dispatch, PoolIsQueued
  <2> QED BY <1>5, <2>1 DEF Dispatch
<1>6. CASE Crash
  BY <1>6 DEF Crash
<1>7. CASE Reconcile
  BY <1>7 DEF Reconcile
<1>8. CASE Reap
  BY <1>8 DEF Reap, OrphanedSandboxes
<1>9. CASE UNCHANGED vars
  BY <1>9 DEF vars
<1> QED BY <1>1, <1>2, <1>3, <1>4, <1>5, <1>6, <1>7, <1>8, <1>9
        DEF Next, Lifespan

LEMMA ContainerInvariant ==
  ASSUME SandboxesObey PROVE Spec => []ContainerInv
<1>1. Init => ContainerInv
  BY DEF Init, ContainerInv
<1>2. ServiceInv /\ ContainerInv /\ [Next]_vars => ContainerInv'
  BY ContainerStep
<1> QED BY <1>1, <1>2, ServiceInvariant, PTL DEF Spec

\* With a Docker daemon that obeys, the host never carries more sandboxes than
\* the ceiling: neither a task that ends as another is admitted nor a crash
\* with its restart leaves one over.
THEOREM SandboxesAreBounded ==
  ASSUME SandboxesObey PROVE Spec => []SandboxCeiling
<1>1. ServiceInv /\ ContainerInv => SandboxCeiling
  <2> SUFFICES ASSUME ServiceInv, ContainerInv, proc = "up"
               PROVE  Cardinality({t \in Tasks : container[t] # "none"}) <= MaxConcurrent
    BY DEF SandboxCeiling
  <2> DEFINE Boxes == {t \in Tasks : container[t] # "none"}
  <2>1. Boxes \subseteq ActiveTasks
    BY DEF ServiceInv, Flow, RowBeforeWork, Live, ContainerInv, HoldsSandbox,
           Executing, ActiveTasks
  <2>2. ActiveTasks \in SUBSET Tasks
    BY DEF ActiveTasks
  <2>3. /\ Cardinality(Boxes) <= Cardinality(ActiveTasks)
        /\ Cardinality(Boxes) \in Nat
        /\ Cardinality(ActiveTasks) \in Nat
    BY <2>1, <2>2, CountsMonotone
  <2> QED BY <2>3, BoundsAssumption DEF ServiceInv, AdmissionBound
<1> QED BY <1>1, ServiceInvariant, ContainerInvariant, PTL

\* With a Docker daemon that obeys, a task whose row is terminal has no sandbox
\* left, in every race of its worker, its watchdog and a restart.
THEOREM EndedTasksAreTornDown ==
  ASSUME SandboxesObey PROVE Spec => []TornDown
<1>1. ServiceInv /\ ContainerInv => TornDown
  BY DEF ServiceInv, Flow, RowBeforeWork, Live, ContainerInv, HoldsSandbox,
         Executing, Active, Verdicts, TornDown
<1> QED BY <1>1, ServiceInvariant, ContainerInvariant, PTL

-----------------------------------------------------------------------------
(* Rows, when Postgres answers.                                            *)

\* No update of a task's row fails, and the pool takes what it is given.
RowsObey == Faults \cap {"submit", "mark_running", "mark_finished", "reconcile"} = {}

\* Only between a crash and the reconciliation may an active row be forsaken.
BackedInv ==
  proc # "reconcile" =>
    \A t \in ActiveTasks : adm[t] = "inserted" \/ Live(t)

LEMMA BackedStep ==
  ASSUME RowsObey
  PROVE  ServiceInv /\ BackedInv /\ [Next]_vars => BackedInv'
<1> SUFFICES ASSUME ServiceInv, BackedInv, [Next]_vars PROVE BackedInv'
  OBVIOUS
<1> USE RowsObey DEF RowsObey, MayFail, ServiceInv, Flow, TypeOK, BackedInv,
        ActiveTasks, Active, Verdicts, Live, Executing, OnThread
<1>1. ASSUME NEW t \in Tasks, Handler(t) PROVE BackedInv'
  <2>1. CASE CheckUser(t) \/ CheckServer(t) \/ InsertTask(t)
    BY <2>1 DEF CheckUser, CheckServer, InsertTask, RowBeforeWork
  <2>2. CASE Submit(t)
    BY <2>2 DEF Submit
  <2> QED BY <1>1, <2>1, <2>2 DEF Handler
<1>2. ASSUME NEW t \in Tasks, Worker(t) PROVE BackedInv'
  <2>1. CASE MarkRunning(t) \/ Build(t) \/ Start(t)
    BY <2>1 DEF MarkRunning, Build, Start
  <2>2. CASE NodeEnds(t) \/ NodeHangs(t) \/ Check(t)
    BY <2>2 DEF NodeEnds, NodeHangs, Check
  <2>3. CASE StopSandbox(t) \/ Cleanup(t)
    BY <2>3 DEF StopSandbox, AfterStop, Cleanup
  <2>4. CASE MarkFinished(t) \/ Close(t)
    BY <2>4 DEF MarkFinished, Close
  <2> QED BY <1>2, <2>1, <2>2, <2>3, <2>4 DEF Worker
<1>3. ASSUME NEW t \in Tasks, Blocked(t) PROVE BackedInv'
  BY <1>3 DEF Blocked, ExecReturns, LlmReturns
<1>4. ASSUME NEW t \in Tasks, Watchdog(t) PROVE BackedInv'
  BY <1>4 DEF Watchdog, WatchdogFires, WatchdogStops
<1>5. CASE Dispatch
  BY <1>5 DEF Dispatch
<1>6. CASE Crash
  BY <1>6 DEF Crash
<1>7. CASE Reconcile
  BY <1>7 DEF Reconcile, OrphanedRows, Interrupted
<1>8. CASE Reap
  BY <1>8 DEF Reap
<1>9. CASE UNCHANGED vars
  BY <1>9 DEF vars
<1> QED BY <1>1, <1>2, <1>3, <1>4, <1>5, <1>6, <1>7, <1>8, <1>9
        DEF Next, Lifespan

\* With a database that answers, an active row always has somebody who will
\* finish it, except between a crash and the end of the reconciliation.
THEOREM ActiveRowsAreBacked ==
  ASSUME RowsObey PROVE Spec => []ActiveIsBacked
<1>1. Init => BackedInv
  BY DEF Init, BackedInv, ActiveTasks, Active
<1>2. ServiceInv /\ BackedInv /\ [Next]_vars => BackedInv'
  BY BackedStep
<1>3. BackedInv => ActiveIsBacked
  BY DEF BackedInv, ActiveIsBacked, Live
<1> QED BY <1>1, <1>2, <1>3, ServiceInvariant, PTL DEF Spec
=============================================================================
