--------------------------- MODULE RetentionProofs ---------------------------
(***************************************************************************)
(* Theorems about Retention, for any repositories, tasks, windows and      *)
(* crashes.  Each names the failures it cannot bear.                       *)
(***************************************************************************)
EXTENDS Retention, TLAPS

USE DEF Active, disk, sweeper, MayFail

\* The failures under which a container may outlive its task's row.
SandboxesObey == "stop" \notin Faults /\ "reap" \notin Faults

\* rmtree removes what it is told to remove.
DiskObeys == "rmtree" \notin Faults

\* Every variable keeps its type.
THEOREM TypeCorrect == Spec => []TypeOK
<1>1. Init => TypeOK
  BY AgesAssumption, BoundsAssumption DEF Init, TypeOK
<1>2. TypeOK /\ [Next]_vars => TypeOK'
  <2> SUFFICES ASSUME TypeOK, [Next]_vars PROVE TypeOK'
    OBVIOUS
  <2> USE ReposAssumption, AgesAssumption, BoundsAssumption DEF TypeOK
  <2>1. ASSUME NEW r \in Repos, Upload(r) PROVE TypeOK'
    BY <2>1 DEF Upload, BeginUpload, FinishUpload, AbortUpload
  <2>2. ASSUME NEW t \in Tasks, CreateTask(t) PROVE TypeOK'
    BY <2>2 DEF CreateTask
  <2>3. ASSUME NEW t \in Tasks, CreateHostTask(t) PROVE TypeOK'
    BY <2>3 DEF CreateHostTask
  <2>4. ASSUME NEW t \in Tasks, Worker(t) PROVE TypeOK'
    BY <2>4 DEF Worker, StartSandbox, EndSandbox, MarkFinished
  <2>5. CASE SweepBegin
    BY <2>5 DEF SweepBegin, Candidates
  <2>6. ASSUME NEW r \in Repos, SweepRemove(r) PROVE TypeOK'
    BY <2>6 DEF SweepRemove
  <2>7. CASE SweepCommit
    BY <2>7 DEF SweepCommit
  <2>8. CASE Tick
    <3>1. \A r \in Repos : age[r] < MaxAge => age[r] + 1 \in 0..MaxAge
      OBVIOUS
    <3>2. age' \in [Repos -> 0..MaxAge]
      BY <2>8, <3>1 DEF Tick
    <3>3. QED
      BY <2>8, <3>2 DEF Tick
  <2>9. CASE Crash
    BY <2>9 DEF Crash
  <2>10. CASE Restart
    BY <2>10 DEF Restart, ReconcileOrphaned, ReapSandboxes, Reconciled
  <2>11. CASE UNCHANGED vars
    BY <2>11 DEF vars
  <2>12. QED
    BY <2>1, <2>2, <2>3, <2>4, <2>5, <2>6, <2>7, <2>8, <2>9, <2>10, <2>11
    DEF Next, Sweep
<1>3. QED
  BY <1>1, <1>2, PTL DEF Spec

-----------------------------------------------------------------------------
(* What links uploads, tasks and the sweep, whatever fails.                *)

RowsFollowUploads ==
  \A r \in Repos : /\ r \in HostPaths => upload[r] = "idle"
                   /\ r \notin HostPaths /\ row[r] # "none" => upload[r] = "over"

TasksHaveRows ==
  \A t \in Tasks : task[t] # "none" /\ RepoOf[t] \notin HostPaths
                     => row[RepoOf[t]] # "none"

SweepIsAlone ==
  /\ sweep = "sweeping" => proc = "up"
  /\ sweep = "asleep" => doomed = {} /\ marked = {}
  /\ \A r \in doomed : row[r] = "ready" /\ r \notin marked
  /\ \A r \in marked : row[r] = "ready"

\* The paths read at the beginning of a sweep stay right until its end.
DoomedAreUnused == \A t \in Tasks : task[t] \in Active => RepoOf[t] \notin doomed

MountedHaveTasks == \A t \in mounted : task[t] # "none"

Links == /\ TypeOK
         /\ RowsFollowUploads
         /\ TasksHaveRows
         /\ SweepIsAlone
         /\ DoomedAreUnused
         /\ MountedHaveTasks

\* The links hold in every state, under every failure.
THEOREM LinksHold == Spec => []Links
<1>1. Init => Links
  BY AgesAssumption, BoundsAssumption
  DEF Init, Links, TypeOK, RowsFollowUploads, TasksHaveRows, SweepIsAlone,
      DoomedAreUnused, MountedHaveTasks
<1>2. Links /\ TypeOK' /\ [Next]_vars => Links'
  <2> SUFFICES ASSUME Links, TypeOK', [Next]_vars PROVE Links'
    OBVIOUS
  <2> USE ReposAssumption DEF Links, TypeOK, RowsFollowUploads, TasksHaveRows,
      SweepIsAlone, DoomedAreUnused, MountedHaveTasks
  <2>1. ASSUME NEW r \in Repos, Upload(r) PROVE Links'
    BY <2>1 DEF Upload, BeginUpload, FinishUpload, AbortUpload, LoopFree
  <2>2. ASSUME NEW t \in Tasks, CreateTask(t) PROVE Links'
    BY <2>2 DEF CreateTask, LoopFree, Usable
  <2>3. ASSUME NEW t \in Tasks, CreateHostTask(t) PROVE Links'
    BY <2>3 DEF CreateHostTask, LoopFree
  <2>4. ASSUME NEW t \in Tasks, Worker(t) PROVE Links'
    BY <2>4 DEF Worker, StartSandbox, EndSandbox, MarkFinished
  <2>5. CASE SweepBegin
    BY <2>5 DEF SweepBegin, Candidates, ActivePaths, LoopFree
  <2>6. ASSUME NEW r \in Repos, SweepRemove(r) PROVE Links'
    BY <2>6 DEF SweepRemove
  <2>7. CASE SweepCommit
    BY <2>7 DEF SweepCommit
  <2>8. CASE Tick
    BY <2>8 DEF Tick
  <2>9. CASE Crash
    BY <2>9 DEF Crash
  <2>10. CASE Restart
    BY <2>10 DEF Restart, ReconcileOrphaned, ReapSandboxes, Reconciled
  <2>11. CASE UNCHANGED vars
    BY <2>11 DEF vars
  <2>12. QED
    BY <2>1, <2>2, <2>3, <2>4, <2>5, <2>6, <2>7, <2>8, <2>9, <2>10, <2>11
    DEF Next, Sweep
<1>3. QED
  BY <1>1, <1>2, TypeCorrect, PTL DEF Spec

-----------------------------------------------------------------------------
\* While the process is up, a container belongs to a run that is under way.
MountedRun == proc = "up" => \A t \in mounted : task[t] = "running"

\* Containers follow their rows when Docker stops and removes what it is told to.
LEMMA MountedRunHolds == ASSUME SandboxesObey PROVE Spec => []MountedRun
<1>1. Init => MountedRun
  BY DEF Init, MountedRun
<1>2. Links /\ MountedRun /\ [Next]_vars => MountedRun'
  <2> SUFFICES ASSUME Links, MountedRun, [Next]_vars PROVE MountedRun'
    OBVIOUS
  <2> USE SandboxesObey DEF Links, TypeOK, MountedRun, SandboxesObey
  <2>1. ASSUME NEW r \in Repos, Upload(r) PROVE MountedRun'
    BY <2>1 DEF Upload, BeginUpload, FinishUpload, AbortUpload
  <2>2. ASSUME NEW t \in Tasks, CreateTask(t) \/ CreateHostTask(t) PROVE MountedRun'
    BY <2>2 DEF CreateTask, CreateHostTask, LoopFree
  <2>3. ASSUME NEW t \in Tasks, Worker(t) PROVE MountedRun'
    BY <2>3 DEF Worker, StartSandbox, EndSandbox, MarkFinished
  <2>4. CASE Sweep
    BY <2>4 DEF Sweep, SweepBegin, SweepRemove, SweepCommit
  <2>5. CASE Tick \/ Crash \/ Restart
    BY <2>5 DEF Tick, Crash, Restart, ReconcileOrphaned, ReapSandboxes
  <2>6. CASE UNCHANGED vars
    BY <2>6 DEF vars
  <2>7. QED
    BY <2>1, <2>2, <2>3, <2>4, <2>5, <2>6 DEF Next
<1>3. QED
  BY <1>1, <1>2, LinksHold, PTL DEF Spec

\* No step of the sweep, of an upload or of a restart changes a repository
\* that a sandbox has mounted.
THEOREM MountedAreKept == ASSUME SandboxesObey PROVE Spec => NeverPulledOut
<1>1. Links /\ MountedRun /\ [Next]_vars
        => [\A t \in mounted : dir'[RepoOf[t]] = dir[RepoOf[t]]]_vars
  <2> SUFFICES ASSUME Links, MountedRun, [Next]_vars, NEW t \in mounted
               PROVE  dir'[RepoOf[t]] = dir[RepoOf[t]] \/ UNCHANGED vars
    OBVIOUS
  <2>1. t \in Tasks /\ RepoOf[t] \in Repos /\ task[t] # "none"
    BY ReposAssumption DEF Links, TypeOK, MountedHaveTasks
  <2>2. ASSUME NEW r \in Repos, Upload(r) PROVE dir'[RepoOf[t]] = dir[RepoOf[t]]
    <3>1. upload[r] \in {"idle", "writing"} /\ (upload[r] = "idle" => r \notin HostPaths)
      BY <2>2 DEF Upload, BeginUpload, FinishUpload, AbortUpload
    <3>2. r # RepoOf[t]
      BY <2>1, <3>1 DEF Links, RowsFollowUploads, TasksHaveRows
    <3>3. QED
      BY <2>1, <2>2, <3>2
      DEF Upload, BeginUpload, FinishUpload, AbortUpload, Links, TypeOK
  <2>3. ASSUME NEW r \in Repos, SweepRemove(r) PROVE dir'[RepoOf[t]] = dir[RepoOf[t]]
    <3>1. proc = "up" /\ r \in doomed
      BY <2>3 DEF SweepRemove, Links, SweepIsAlone
    <3>2. r # RepoOf[t]
      BY <2>1, <3>1 DEF MountedRun, Links, DoomedAreUnused
    <3>3. QED
      BY <2>1, <2>3, <3>2 DEF SweepRemove, Links, TypeOK
  <2>4. CASE \/ SweepBegin \/ SweepCommit \/ Tick \/ Crash \/ Restart
             \/ \E s \in Tasks : CreateTask(s) \/ CreateHostTask(s) \/ Worker(s)
    BY <2>4 DEF SweepBegin, SweepCommit, Tick, Crash, Restart,
              ReconcileOrphaned, ReapSandboxes, CreateTask,
                CreateHostTask, Worker, StartSandbox, EndSandbox, MarkFinished
  <2>5. QED
    BY <2>2, <2>3, <2>4 DEF Next, Sweep
<1>2. QED
  BY <1>1, LinksHold, MountedRunHolds, PTL DEF Spec, NeverPulledOut

-----------------------------------------------------------------------------
(* Directories and rows.                                                   *)

UploadsMatchRows ==
  \A r \in Repos \ HostPaths :
    /\ upload[r] = "idle" => dir[r] = "none"
    /\ row[r] = "none" /\ dir[r] # "none" => upload[r] \in {"writing", "lost"}
    /\ row[r] = "ready" /\ r \notin torn /\ r \notin marked => dir[r] = "full"

HostPathsAreWhole == \A r \in HostPaths : dir[r] # "partial"

MarkedAreGone == \A r \in marked : dir[r] = "none"

Files == UploadsMatchRows /\ HostPathsAreWhole /\ MarkedAreGone /\ DeletedIsGone

\* Directories and rows agree when rmtree removes what it is told to.
LEMMA FilesHold == ASSUME DiskObeys PROVE Spec => []Files
<1>1. Init => Files
  BY ReposAssumption
  DEF Init, Files, UploadsMatchRows, HostPathsAreWhole, MarkedAreGone, DeletedIsGone
<1>2. Links /\ Files /\ [Next]_vars => Files'
  <2> SUFFICES ASSUME Links, Files, [Next]_vars PROVE Files'
    OBVIOUS
  <2> USE ReposAssumption, DiskObeys
      DEF Links, TypeOK, Files, UploadsMatchRows, HostPathsAreWhole,
          MarkedAreGone, DeletedIsGone, DiskObeys, SweepIsAlone, RowsFollowUploads
  <2>1. ASSUME NEW r \in Repos, Upload(r) PROVE Files'
    BY <2>1 DEF Upload, BeginUpload, FinishUpload, AbortUpload, LoopFree
  <2>2. ASSUME NEW t \in Tasks, CreateTask(t) PROVE Files'
    BY <2>2 DEF CreateTask
  <2>3. ASSUME NEW t \in Tasks, CreateHostTask(t) PROVE Files'
    BY <2>3 DEF CreateHostTask
  <2>4. ASSUME NEW t \in Tasks, Worker(t) PROVE Files'
    BY <2>4 DEF Worker, StartSandbox, EndSandbox, MarkFinished
  <2>5. CASE SweepBegin
    BY <2>5 DEF SweepBegin
  <2>6. ASSUME NEW r \in Repos, SweepRemove(r) PROVE Files'
    BY <2>6 DEF SweepRemove
  <2>7. CASE SweepCommit
    BY <2>7 DEF SweepCommit
  <2>8. CASE Tick \/ Restart
    BY <2>8 DEF Tick, Restart, ReconcileOrphaned, ReapSandboxes
  <2>9. CASE Crash
    BY <2>9 DEF Crash
  <2>10. CASE UNCHANGED vars
    BY <2>10 DEF vars
  <2>11. QED
    BY <2>1, <2>2, <2>3, <2>4, <2>5, <2>6, <2>7, <2>8, <2>9, <2>10 DEF Next, Sweep
<1>3. QED
  BY <1>1, <1>2, LinksHold, PTL DEF Spec

\* A row marked as deleted has no directory left.
THEOREM DeletedAreGone == ASSUME DiskObeys PROVE Spec => []DeletedIsGone
<1>1. Files => DeletedIsGone
  BY DEF Files
<1>2. QED
  BY <1>1, FilesHold, PTL

\* Only an upload in flight, or one cut off, has a directory that the sweep
\* cannot find.
THEOREM OnlyLostLeak == ASSUME DiskObeys PROVE Spec => []OnlyLostUploadsLeak
<1>1. Links /\ Files => OnlyLostUploadsLeak
  BY DEF Links, TypeOK, Files, UploadsMatchRows, DeletedIsGone, OnlyLostUploadsLeak
<1>2. QED
  BY <1>1, LinksHold, FilesHold, PTL

\* A task is admitted on a whole repository, unless a sweep that removed it
\* was cut off before its commit.
THEOREM AdmittedHaveRepos == ASSUME DiskObeys PROVE Spec => AdmittedHasRepo
<1>1. Links /\ Files /\ [Next]_vars
        => [\A t \in Tasks :
              task[t] = "none" /\ task'[t] = "pending" /\ RepoOf[t] \notin torn
                => dir[RepoOf[t]] = "full"]_vars
  <2> SUFFICES ASSUME Links, Files, [Next]_vars, NEW t \in Tasks,
                      task[t] = "none", task'[t] = "pending", RepoOf[t] \notin torn
               PROVE  dir[RepoOf[t]] = "full"
    OBVIOUS
  <2>1. RepoOf[t] \in Repos
    BY ReposAssumption
  <2>2. ASSUME NEW s \in Tasks, CreateTask(s) PROVE dir[RepoOf[t]] = "full"
    <3>1. s = t
      BY <2>2 DEF CreateTask, Links, TypeOK
    <3>2. QED
      BY <2>1, <2>2, <3>1
      DEF CreateTask, Usable, LoopFree, Links, SweepIsAlone, Files, UploadsMatchRows
  <2>3. ASSUME NEW s \in Tasks, CreateHostTask(s) PROVE dir[RepoOf[t]] = "full"
    <3>1. s = t
      BY <2>3 DEF CreateHostTask, Links, TypeOK
    <3>2. QED
      BY <2>1, <2>3, <3>1
      DEF CreateHostTask, Links, TypeOK, Files, HostPathsAreWhole
  <2>4. ASSUME NEW s \in Tasks, Worker(s) PROVE FALSE
    BY <2>4 DEF Worker, StartSandbox, EndSandbox, MarkFinished, Links, TypeOK
  <2>5. ASSUME NEW r \in Repos, Upload(r) PROVE FALSE
    BY <2>5 DEF Upload, BeginUpload, FinishUpload, AbortUpload
  <2>6. CASE Sweep \/ Tick \/ Crash \/ Restart
    BY <2>6 DEF Sweep, SweepBegin, SweepRemove, SweepCommit, Tick, Crash, Restart,
                ReconcileOrphaned, ReapSandboxes, Links, TypeOK, Reconciled
  <2>7. CASE UNCHANGED vars
    BY <2>7 DEF vars
  <2>8. QED
    BY <2>2, <2>3, <2>4, <2>5, <2>6, <2>7 DEF Next
<1>2. QED
  BY <1>1, LinksHold, FilesHold, PTL DEF Spec, AdmittedHasRepo
=============================================================================
