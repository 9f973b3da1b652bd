------------------------------ MODULE Retention ------------------------------
(***************************************************************************)
(* The life of uploaded repositories: POST /uploads writes a directory and *)
(* then its row (api/routes.py upload_repository), POST /tasks lets tasks  *)
(* use it (create_task), a worker bind-mounts it into a sandbox            *)
(* (api/executor.py), and the retention sweep (core/retention.py, main.py) *)
(* removes it once it is old and no active task refers to it.              *)
(*                                                                         *)
(* Handlers and the sweep share the event loop, and only an upload awaits; *)
(* workers run in threads beside them.  Rows, directories and containers   *)
(* survive a crash.  TaskService has the detail of admission and of the    *)
(* worker; here a task is what keeps a repository in use.                  *)
(***************************************************************************)
EXTENDS Naturals, FiniteSets

CONSTANTS
  Repos,       \* the repositories: one per POST /uploads, and the host paths
  HostPaths,   \* those that are the user's own (ALLOW_ARBITRARY_REPO_PATH)
  Tasks,
  RepoOf,      \* the repository that each request of a task names
  Grace,       \* settings.UPLOAD_POST_TASK_GRACE_MINUTES, in ticks
  Ttl,         \* settings.UPLOAD_RETENTION_HOURS, in ticks
  MaxAge,      \* ages from here on are not told apart
  MaxCrashes,  \* bound on the crashes of one behaviour
  Faults       \* the failures of the disk, Postgres and Docker that may occur

FaultKinds == {"insert", "rmtree", "commit", "stop", "reconcile", "reap"}

ASSUME ReposAssumption  == HostPaths \subseteq Repos /\ RepoOf \in [Tasks -> Repos]
ASSUME AgesAssumption   == /\ Grace \in Nat /\ Ttl \in Nat /\ MaxAge \in Nat
                           /\ Grace < MaxAge /\ Ttl < MaxAge
ASSUME BoundsAssumption == MaxCrashes \in Nat /\ Faults \subseteq FaultKinds

VARIABLES
  proc,     \* "up"; after a crash "down", and "rows" once the lifespan has
            \* closed the rows that the dead process has left active
  crashes,  \* how many crashes have happened (bounded by MaxCrashes)
  dir,      \* the directory on disk
  row,      \* Upload.status, "none" when there is no row
  age,      \* how long ago the row was created
  upload,   \* how far the upload_repository handler has come
  task,     \* Task.status and, while it is active, how far the worker has come
  mounted,  \* the tasks with a running container on their repository
  sweep,    \* "asleep", or "sweeping" between its first read and its commit
  doomed,   \* the uploads that the current sweep has still to remove
  marked,   \* those it has removed; the update of their rows is not committed
  torn      \* history: those whose removal outlived its update

vars == <<proc, crashes, dir, row, age, upload, task, mounted,
          sweep, doomed, marked, torn>>
disk    == <<dir, row, age, upload>>
sweeper == <<sweep, doomed, marked, torn>>

\* A worker holds "pending" (not begun) to "ended" (sandbox gone, row still
\* active); a "dead" row is active but its worker died with the process.
Active == {"pending", "running", "ended", "dead"}

TypeOK ==
  /\ proc \in {"up", "down", "rows"}
  /\ crashes \in 0..MaxCrashes
  /\ dir \in [Repos -> {"none", "partial", "full"}]
  /\ row \in [Repos -> {"none", "ready", "deleted"}]
  /\ age \in [Repos -> 0..MaxAge]
  /\ upload \in [Repos -> {"idle", "writing", "over", "lost"}]
  /\ task \in [Tasks -> {"none", "finished"} \cup Active]
  /\ mounted \subseteq Tasks
  /\ sweep \in {"asleep", "sweeping"}
  /\ doomed \subseteq Repos
  /\ marked \subseteq Repos
  /\ torn \subseteq Repos

Init ==
  /\ proc = "up"
  /\ crashes = 0
  /\ dir = [r \in Repos |-> IF r \in HostPaths THEN "full" ELSE "none"]
  /\ row = [r \in Repos |-> "none"]
  /\ age = [r \in Repos |-> 0]
  /\ upload = [r \in Repos |-> "idle"]
  /\ task = [t \in Tasks |-> "none"]
  /\ mounted = {}
  /\ sweep = "asleep"
  /\ doomed = {}
  /\ marked = {}
  /\ torn = {}

MayFail(k) == k \in Faults

\* Mutation of LoopFree: the sweep runs in a thread of its own.
LoopShared == proc = "up"

\* Mutation of LoopFree: the sweep and the handlers do not wait for the reaper.
LoopEarly == proc # "down" /\ sweep = "asleep"

\* The event loop can run a handler: the sweep never awaits, and both come after
\* the lifespan.
LoopFree == proc = "up" /\ sweep = "asleep"

-----------------------------------------------------------------------------
(* POST /uploads.                                                          *)

\* The request passes its checks and the disk has room; the directory is made.
BeginUpload(r) ==
  /\ LoopFree
  /\ r \notin HostPaths
  /\ upload[r] = "idle"
  /\ upload' = [upload EXCEPT ![r] = "writing"]
  /\ dir' = [dir EXCEPT ![r] = "partial"]
  /\ UNCHANGED <<proc, crashes, row, age, task, mounted, sweeper>>

\* After the last await: the last bytes, chown, and create_upload.  When the
\* insert fails the directory stays, and no row says that it is there.
FinishUpload(r) ==
  /\ LoopFree
  /\ upload[r] = "writing"
  /\ dir' = [dir EXCEPT ![r] = "full"]
  /\ \/ /\ row' = [row EXCEPT ![r] = "ready"]
        /\ upload' = [upload EXCEPT ![r] = "over"]
     \/ /\ MayFail("insert")
        /\ upload' = [upload EXCEPT ![r] = "lost"]
        /\ UNCHANGED row
  /\ UNCHANGED <<proc, crashes, age, task, mounted, sweeper>>

\* Mutation of AbortUpload: the except clause is missing.
AbortAndKeep(r) ==
  /\ LoopFree
  /\ upload[r] = "writing"
  /\ upload' = [upload EXCEPT ![r] = "over"]
  /\ UNCHANGED <<proc, crashes, dir, row, age, task, mounted, sweeper>>

\* A limit, a bad path or a lost client raises between two chunks; the except
\* clause removes what was written, as far as the disk lets it.
AbortUpload(r) ==
  /\ LoopFree
  /\ upload[r] = "writing"
  /\ \/ /\ dir' = [dir EXCEPT ![r] = "none"]
        /\ upload' = [upload EXCEPT ![r] = "over"]
     \/ /\ MayFail("rmtree")
        /\ upload' = [upload EXCEPT ![r] = "lost"]
        /\ UNCHANGED dir
  /\ UNCHANGED <<proc, crashes, row, age, task, mounted, sweeper>>

-----------------------------------------------------------------------------
(* POST /tasks.                                                            *)

\* Mutation of Usable: get_upload does not ask for the status.
AnyRow(r) == row[r] # "none"

\* get_upload finds the row of an upload only while it is ready.
Usable(r) == row[r] = "ready"

\* create_task on an upload.  A refusal by the limits changes nothing.
CreateTask(t) ==
  /\ LoopFree
  /\ task[t] = "none"
  /\ RepoOf[t] \notin HostPaths
  /\ Usable(RepoOf[t])
  /\ task' = [task EXCEPT ![t] = "pending"]
  /\ UNCHANGED <<proc, crashes, disk, mounted, sweeper>>

\* create_task on a host path that exists: get_or_create_local_upload adds a
\* row, or takes the one there is whatever its status, before the limits admit
\* or refuse the task.
CreateHostTask(t) ==
  /\ LoopFree
  /\ task[t] = "none"
  /\ RepoOf[t] \in HostPaths
  /\ dir[RepoOf[t]] # "none"
  /\ row' = [row EXCEPT ![RepoOf[t]] = IF @ = "none" THEN "ready" ELSE @]
  /\ task' \in {task, [task EXCEPT ![t] = "pending"]}
  /\ UNCHANGED <<proc, crashes, dir, age, upload, mounted, sweeper>>

-----------------------------------------------------------------------------
(* A worker thread, as far as it touches the repository.                   *)

\* execute_task starts a container on the repository, or fails before it.
StartSandbox(t) ==
  /\ proc = "up"
  /\ task[t] = "pending"
  /\ \/ /\ task' = [task EXCEPT ![t] = "running"]
        /\ mounted' = mounted \cup {t}
     \/ /\ task' = [task EXCEPT ![t] = "ended"]
        /\ UNCHANGED mounted
  /\ UNCHANGED <<proc, crashes, disk, sweeper>>

\* The finally clause stops and removes it; a failure is logged and passed over.
EndSandbox(t) ==
  /\ proc = "up"
  /\ task[t] = "running"
  /\ task' = [task EXCEPT ![t] = "ended"]
  /\ \/ mounted' = mounted \ {t}
     \/ /\ MayFail("stop")
        /\ UNCHANGED mounted
  /\ UNCHANGED <<proc, crashes, disk, sweeper>>

MarkFinished(t) ==
  /\ proc = "up"
  /\ task[t] = "ended"
  /\ task' = [task EXCEPT ![t] = "finished"]
  /\ UNCHANGED <<proc, crashes, disk, mounted, sweeper>>

-----------------------------------------------------------------------------
(* The retention sweep.                                                    *)

\* Mutation of ActivePaths: the paths of all tasks, also of the finished.
PathsOfAllTasks == {RepoOf[t] : t \in {s \in Tasks : task[s] # "none"}}

\* _active_repo_paths.
ActivePaths == {RepoOf[t] : t \in {s \in Tasks : task[s] \in Active}}

\* _is_expired.  Both windows count from the creation of the row.
Expired(r) == age[r] > Ttl \/ age[r] > Grace

\* The uploads that a sweep beginning now will remove.
Candidates == {r \in Repos : row[r] = "ready" /\ r \notin ActivePaths /\ Expired(r)}

\* Mutation of SweepBegin: the rows are updated before the directories go.
SweepMarksFirst ==
  /\ LoopFree
  /\ sweep' = "sweeping"
  /\ doomed' = Candidates
  /\ row' = [r \in Repos |-> IF r \in Candidates THEN "deleted" ELSE row[r]]
  /\ UNCHANGED <<proc, crashes, dir, age, upload, task, mounted, marked, torn>>

\* purge_expired_uploads reads tasks, uploads and the clock once.
SweepBegin ==
  /\ LoopFree
  /\ sweep' = "sweeping"
  /\ doomed' = Candidates
  /\ UNCHANGED <<proc, crashes, disk, task, mounted, marked, torn>>

\* rmtree with ignore_errors: what the disk refuses stays, and the row is
\* updated all the same.
SweepRemove(r) ==
  /\ sweep = "sweeping"
  /\ r \in doomed
  /\ doomed' = doomed \ {r}
  /\ marked' = marked \cup {r}
  /\ \/ dir' = [dir EXCEPT ![r] = "none"]
     \/ /\ MayFail("rmtree")
        /\ dir[r] # "none"
        /\ dir' = [dir EXCEPT ![r] = "partial"]
  /\ UNCHANGED <<proc, crashes, row, age, upload, task, mounted, sweep, torn>>

\* One commit for all updates; when it fails they are rolled back together,
\* and the loop goes back to sleep.
SweepCommit ==
  /\ sweep = "sweeping"
  /\ doomed = {}
  /\ sweep' = "asleep"
  /\ marked' = {}
  /\ \/ /\ row' = [r \in Repos |-> IF r \in marked THEN "deleted" ELSE row[r]]
        /\ UNCHANGED torn
     \/ /\ MayFail("commit")
        /\ torn' = torn \cup marked
        /\ UNCHANGED row
  /\ UNCHANGED <<proc, crashes, dir, age, upload, task, mounted, doomed>>

-----------------------------------------------------------------------------
(* Time, a crash, and the lifespan of the next process.                    *)

Tick ==
  /\ \E r \in Repos : row[r] # "none" /\ age[r] < MaxAge
  /\ age' = [r \in Repos |-> IF row[r] # "none" /\ age[r] < MaxAge
                             THEN age[r] + 1 ELSE age[r]]
  /\ UNCHANGED <<proc, crashes, dir, row, upload, task, mounted, sweeper>>

\* Handlers, workers and the sweep are gone where they stand; an update that
\* was not committed is rolled back.
Crash ==
  /\ crashes < MaxCrashes
  /\ crashes' = crashes + 1
  /\ proc' = "down"
  /\ upload' = [r \in Repos |-> IF upload[r] = "writing" THEN "lost" ELSE upload[r]]
  /\ task' = [t \in Tasks |-> IF task[t] \in Active THEN "dead" ELSE task[t]]
  /\ sweep' = "asleep"
  /\ doomed' = {}
  /\ marked' = {}
  /\ torn' = torn \cup marked
  /\ UNCHANGED <<dir, row, age, mounted>>

\* Mutation of Reconciled: a status that the rest of the code does not know.
ReconciledApart == "interrupted"

\* reconcile_orphaned closes the row.
Reconciled == "finished"

\* The lifespan first runs reconcile_orphaned, which may fail as a whole; that
\* is logged, and the lifespan goes on.
ReconcileOrphaned ==
  /\ proc = "down"
  /\ proc' = "rows"
  /\ \/ task' = [t \in Tasks |-> IF task[t] = "dead" THEN Reconciled ELSE task[t]]
     \/ /\ MayFail("reconcile")
        /\ UNCHANGED task
  /\ UNCHANGED <<crashes, disk, mounted, sweeper>>

\* Then it runs reap_orphaned_sandboxes, in the same way, and only now starts the
\* sweep's loop and lets requests in.
ReapSandboxes ==
  /\ proc = "rows"
  /\ proc' = "up"
  /\ \/ mounted' = {}
     \/ /\ MayFail("reap")
        /\ UNCHANGED mounted
  /\ UNCHANGED <<crashes, disk, task, sweeper>>

-----------------------------------------------------------------------------
Upload(r) == BeginUpload(r) \/ FinishUpload(r) \/ AbortUpload(r)
Worker(t) == StartSandbox(t) \/ EndSandbox(t) \/ MarkFinished(t)
Restart   == ReconcileOrphaned \/ ReapSandboxes
Sweep     == SweepBegin \/ (\E r \in Repos : SweepRemove(r)) \/ SweepCommit

Next ==
  \/ \E r \in Repos : Upload(r)
  \/ \E t \in Tasks : CreateTask(t) \/ CreateHostTask(t) \/ Worker(t)
  \/ Sweep
  \/ Tick
  \/ Crash
  \/ Restart

\* Time passes, the sweep's timer fires and its steps follow one another,
\* workers go on to their end (TaskService's Settles), a process that has
\* crashed is restarted.  No client need come, and no upload need end.
Fairness ==
  /\ WF_vars(Tick)
  /\ WF_vars(Sweep)
  /\ \A t \in Tasks : WF_vars(Worker(t))
  /\ WF_vars(Restart)

Spec     == Init /\ [][Next]_vars
FairSpec == Spec /\ Fairness

-----------------------------------------------------------------------------
(* What retention promises.                                                *)

\* _active_repo_paths: an upload mounted into a running sandbox is never
\* deleted out from under it, although tasks begin, start and end while the
\* sweep works from paths it read once, and a crash may come in between.
NeverPulledOut ==
  [][\A t \in mounted : dir'[RepoOf[t]] = dir[RepoOf[t]]]_vars

\* A task is admitted only on a repository that is there as it was uploaded.
\* The exceptions are those that a sweep removed without its commit: their
\* rows say ready until the next sweep.
AdmittedHasRepo ==
  [][\A t \in Tasks :
       task[t] = "none" /\ task'[t] = "pending" /\ RepoOf[t] \notin torn
         => dir[RepoOf[t]] = "full"]_vars

\* "Deletes expired upload directories from disk and marks their rows
\* 'deleted'": a row so marked has no directory left, because nothing would
\* ever look for it again.
DeletedIsGone == \A r \in Repos \ HostPaths : row[r] = "deleted" => dir[r] = "none"

\* The sweep finds directories through their rows.  Whatever fails, one that it
\* cannot find belongs to an upload in flight or to one that a crash or a
\* failing insert cut off.
OnlyLostUploadsLeak ==
  \A r \in Repos \ HostPaths :
    dir[r] # "none" => row[r] = "ready" \/ upload[r] \in {"writing", "lost"}

\* "Deletes expired upload directories": a host path is not one, it is the
\* user's own repository, and its row is only "a lightweight record around it".
HostPathsAreKept == [][\A r \in HostPaths : dir'[r] = dir[r]]_vars

\* Every upload is removed in the end, also one whose task never came, whose
\* task died in a crash, or whose removal was interrupted.
SpaceIsFreed == \A r \in Repos : (row[r] = "ready") ~> (row[r] = "deleted")
=============================================================================
