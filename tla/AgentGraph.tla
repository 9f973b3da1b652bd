------------------------------ MODULE AgentGraph ------------------------------
(***************************************************************************)
(* One run of the agent: the graph planner -> coder -> tester, with the    *)
(* loop self_healer -> coder while tests fail (agent/graph.py,             *)
(* agent/nodes.py), over a workspace that the coder rewrites file by file  *)
(* through the sandbox (tools/file_tools.py).                              *)
(*                                                                         *)
(* The LLM and the tests are outside: an answer is any short sequence of   *)
(* file blocks, an exit code is zero or not.  The test command is the      *)
(* user's, and the workspace is mounted read-write: an install, a          *)
(* formatter or a snapshot may rewrite any file.  Texts are abstracted to  *)
(* what tells them apart: a test output is the number of the test run that *)
(* produced it, a file's content a model value, a path the file it names.  *)
(***************************************************************************)
EXTENDS Naturals, Sequences

CONSTANTS
  Paths,            \* the files an answer of the LLM may name
  Contents,         \* what a file may contain
  Absent,           \* a file that does not exist, also the empty text of its diff
  MaxBlocks,        \* bound on the file blocks of one answer
  MaxDisturbances,  \* bound on what disturbs the diff of one run
  Faults            \* what may raise besides a command in a stopped sandbox

FaultKinds == {"llm", "read", "write", "exec"}

ASSUME BoundsAssumption  == MaxBlocks \in Nat /\ MaxDisturbances \in Nat
ASSUME ContentAssumption == Absent \notin Contents
ASSUME FaultsAssumption  == Faults \subseteq FaultKinds

VARIABLES
  node,          \* the node that runs, or how the run has ended
  status,        \* the fields of AgentState
  iteration,
  max_iterations,
  error_context,
  test_output,
  test_exit_code,
  files_changed,
  steps,         \* supersteps taken, which langgraph counts
  blocks,        \* the coder's locals: the blocks it has still to write,
  writing,       \* whether it is in its loop over them,
  done_blocks,   \* and its files_changed, with "before" and "after"
  disk,          \* the workspace
  tests,         \* history: how many times the tests have run,
  left,          \* how the last of them left the workspace (at first its state
                 \* before the run),
  unseen,        \* the files that the coder has written since that one began,
  disturbances   \* and how often a read has failed, or somebody else written to
                 \* the workspace (bounded by MaxDisturbances)

stateVars == <<status, iteration, max_iterations, error_context, test_output,
               test_exit_code, files_changed>>
coderVars == <<blocks, writing, done_blocks>>
testVars  == <<tests, left>>
histVars  == <<testVars, unseen, disturbances>>
vars == <<node, stateVars, steps, coderVars, disk, histVars>>

\* Mutation of AllowedIterations: a schema that admits more.
MoreIterations == 0..10

\* TaskCreateRequest.max_iterations: Field(ge=0, le=3).
AllowedIterations == 0..3

\* langgraph's default recursion_limit, which the executor leaves alone (newer
\* versions of langgraph have a larger one).
RecursionLimit == 25

Files   == [Paths -> Contents \cup {Absent}]
Block   == [path : Paths, content : Contents]
Change  == [path : Paths, before : Contents \cup {Absent}, after : Contents]
Answers == UNION {[1..n -> Block] : n \in 0..MaxBlocks}
NoExit  == "none"

TypeOK ==
  /\ node \in {"planner", "coder", "tester", "self_healer",
               "end", "raised", "recursion"}
  /\ status \in {"planning", "coding", "testing", "healing", "passed", "failed"}
  /\ max_iterations \in AllowedIterations
  /\ iteration \in 0..max_iterations
  /\ error_context \in Nat
  /\ test_output \in Nat
  /\ test_exit_code \in {NoExit, "zero", "nonzero"}
  /\ files_changed \in Seq(Change)
  /\ steps \in 0..RecursionLimit
  /\ blocks \in Seq(Block)
  /\ writing \in BOOLEAN
  /\ done_blocks \in Seq(Change)
  /\ disk \in Files
  /\ tests \in Nat
  /\ left \in Files
  /\ unseen \subseteq Paths
  /\ disturbances \in 0..MaxDisturbances

Init ==
  /\ node = "planner"
  /\ status = "planning"
  /\ iteration = 0
  /\ max_iterations \in AllowedIterations
  /\ error_context = 0
  /\ test_output = 0
  /\ test_exit_code = NoExit
  /\ files_changed = <<>>
  /\ steps = 0
  /\ blocks = <<>>
  /\ writing = FALSE
  /\ done_blocks = <<>>
  /\ disk \in Files
  /\ tests = 0
  /\ left = disk
  /\ unseen = {}
  /\ disturbances = 0

MayFail(k) == k \in Faults

\* A node has returned: the next superstep runs node n, unless the graph has
\* used up its recursion limit.
GoTo(n) == /\ steps' = steps + 1
           /\ node' = IF n # "end" /\ steps + 1 >= RecursionLimit THEN "recursion" ELSE n

\* Mutation of Raise: a node that has raised is run again, without a limit.
RunAgain == UNCHANGED <<node, steps>>

\* An exception in a node ends the run; what it wrote stays.
Raise == node' = "raised" /\ UNCHANGED steps

-----------------------------------------------------------------------------
\* planner_node: get_completion, then status "coding".
Planner ==
  /\ node = "planner"
  /\ \/ /\ status' = "coding"
        /\ GoTo("coder")
     \/ /\ MayFail("llm")
        /\ Raise
        /\ UNCHANGED status
  /\ UNCHANGED <<iteration, max_iterations, error_context, test_output,
                 test_exit_code, files_changed, coderVars, disk, histVars>>

\* coder_node, up to its loop: the LLM's answer holds any number of blocks,
\* none when it does not parse.
CoderAsks ==
  /\ node = "coder"
  /\ ~writing
  /\ \/ /\ \E answer \in Answers : blocks' = answer
        /\ writing' = TRUE
        /\ done_blocks' = <<>>
        /\ UNCHANGED <<node, steps>>
     \/ /\ MayFail("llm")
        /\ Raise
        /\ UNCHANGED coderVars
  /\ UNCHANGED <<stateVars, disk, histVars>>

\* Mutation of ReadBefore: all files are read before the first is written.
ReadBeforeLoop(p) == left[p]

\* What read_file returns, or what the coder makes of its exception when there
\* is no such file.
ReadBefore(p) == disk[p]

\* One round of the loop over the blocks: read, write, remember.  Any exception of
\* the read is taken for a missing file.  When the write raises, the files written
\* so far stay and the coder's locals are gone.
CoderWrites ==
  /\ node = "coder"
  /\ writing
  /\ blocks # <<>>
  /\ LET b == Head(blocks) IN
     \/ /\ disk' = [disk EXCEPT ![b.path] = b.content]
        /\ \E failed \in BOOLEAN :
             /\ failed => MayFail("read") /\ disturbances < MaxDisturbances
             /\ done_blocks' = Append(done_blocks,
                  [path   |-> b.path,
                   before |-> IF failed THEN Absent ELSE ReadBefore(b.path),
                   after  |-> b.content])
             /\ disturbances' = IF failed THEN disturbances + 1 ELSE disturbances
        /\ blocks' = Tail(blocks)
        /\ unseen' = unseen \cup {b.path}
        /\ UNCHANGED <<node, steps, writing>>
     \/ /\ MayFail("write")
        /\ Raise
        /\ blocks' = <<>>
        /\ done_blocks' = <<>>
        /\ writing' = FALSE
        /\ UNCHANGED <<disk, unseen, disturbances>>
  /\ UNCHANGED <<stateVars, testVars>>

\* coder_node returns; files_changed has no reducer, so it is replaced.
CoderReturns ==
  /\ node = "coder"
  /\ writing
  /\ blocks = <<>>
  /\ files_changed' = done_blocks
  /\ status' = "testing"
  /\ writing' = FALSE
  /\ done_blocks' = <<>>
  /\ GoTo("tester")
  /\ UNCHANGED <<iteration, max_iterations, error_context, test_output,
                 test_exit_code, blocks, disk, histVars>>

\* Mutation of TestVerdict: the budget is overdrawn by one iteration.
TestVerdictLate(exit) ==
  IF exit = "zero" THEN "passed"
  ELSE IF iteration > max_iterations THEN "failed" ELSE "healing"

\* Mutation of TestVerdict: the last iteration of the budget is not granted.
TestVerdictEarly(exit) ==
  IF exit = "zero" THEN "passed"
  ELSE IF iteration + 1 >= max_iterations THEN "failed" ELSE "healing"

\* The verdict of tester_node.
TestVerdict(exit) ==
  IF exit = "zero" THEN "passed"
  ELSE IF iteration >= max_iterations THEN "failed" ELSE "healing"

\* _route_after_tester.
RouteAfterTester(verdict) ==
  IF verdict \in {"passed", "failed"} THEN "end" ELSE "self_healer"

\* tester_node and the conditional edge after it.  The command runs in the
\* workspace and leaves it in any state, also when its exit code is lost.
Tester ==
  /\ node = "tester"
  /\ disk' \in Files
  /\ \/ /\ \E exit \in {"zero", "nonzero"} :
             /\ test_exit_code' = exit
             /\ status' = TestVerdict(exit)
             /\ GoTo(RouteAfterTester(TestVerdict(exit)))
        /\ test_output' = tests + 1
        /\ tests' = tests + 1
        /\ left' = disk'
        /\ unseen' = {}
     \/ /\ MayFail("exec")
        /\ Raise
        /\ UNCHANGED <<test_exit_code, status, test_output, testVars, unseen>>
  /\ UNCHANGED <<iteration, max_iterations, error_context, files_changed,
                 coderVars, disturbances>>

\* Mutation of HealerContext: the context is carried over, not renewed.
StaleContext == error_context

\* What self_healer_node hands to the coder.
HealerContext == test_output

\* The iteration that self_healer_node begins.
HealedIteration == iteration + 1

\* self_healer_node: one more iteration, with the failure as error_context.
SelfHealer ==
  /\ node = "self_healer"
  /\ \/ /\ iteration' = HealedIteration
        /\ error_context' = HealerContext
        /\ status' = "coding"
        /\ GoTo("coder")
     \/ /\ MayFail("llm")
        /\ Raise
        /\ UNCHANGED <<iteration, error_context, status>>
  /\ UNCHANGED <<max_iterations, test_output, test_exit_code, files_changed,
                 coderVars, disk, histVars>>

-----------------------------------------------------------------------------
System == \/ Planner \/ CoderAsks \/ CoderWrites \/ CoderReturns
          \/ Tester \/ SelfHealer

\* Somebody else writes to the workspace at any moment: a process that a test
\* command has left behind, a sandbox that outlived its task, or another task
\* on the same directory.
Environment ==
  /\ node \notin {"end", "raised", "recursion"}
  /\ disturbances < MaxDisturbances
  /\ disturbances' = disturbances + 1
  /\ \E p \in Paths, text \in Contents \cup {Absent} : disk' = [disk EXCEPT ![p] = text]
  /\ UNCHANGED <<node, stateVars, steps, coderVars, testVars, unseen>>

Next == System \/ Environment

Spec     == Init /\ [][Next]_vars
\* Every call of a node returns or raises; a call that does not is the subject
\* of TaskService.
FairSpec == Spec /\ WF_vars(System)

-----------------------------------------------------------------------------
(* What a run promises.                                                    *)

\* The verdict of a finished run is that of a test run which began after the
\* last write of the coder: "passed" means that it exited with zero, and
\* "failed" that it did not although the whole budget of iterations, and no
\* more, had been spent.  It says nothing of what the tests themselves wrote.
VerdictIsEarned ==
  node = "end" =>
    /\ unseen = {}
    /\ (status = "passed") <=> (test_exit_code = "zero")
    /\ status = "failed" => tests = max_iterations + 1

\* A coder that repairs is told of the latest test run and not of an earlier
\* one; that run failed, and nothing the coder wrote came after it.
RepairSeesLastFailure ==
  (node = "coder" /\ ~writing /\ iteration > 0) =>
    /\ error_context = tests
    /\ unseen = {}
    /\ test_exit_code = "nonzero"

\* The longest run the request schema admits stays below langgraph's recursion
\* limit, which would turn a verdict into an error.
WithinRecursionLimit == node # "recursion"

\* Every run comes to a verdict or raises.
Terminates == <>(node \in {"end", "raised"})

\* The changes lead to these files: the last change of a file ends in its text,
\* and a change that follows another of the same file begins where that one
\* ended.
LaterChanges(changes, i) ==
  {j \in DOMAIN changes : j > i /\ changes[j].path = changes[i].path}
ChangesLeadTo(changes, files) ==
  \A i \in DOMAIN changes :
    /\ LaterChanges(changes, i) = {} => changes[i].after = files[changes[i].path]
    /\ \A j \in LaterChanges(changes, i) :
         (\A k \in LaterChanges(changes, i) : j <= k) =>
            changes[j].before = changes[i].after

\* The first change of each file begins with its text among these files.
ChangesBeginWith(changes, files) ==
  \A i \in DOMAIN changes :
    (\A j \in DOMAIN changes : j < i => changes[j].path # changes[i].path) =>
       changes[i].before = files[changes[i].path]

\* A file without a change is as the last test run has left it.
OthersAreAsLeft(changes) ==
  \A p \in Paths : (\A i \in DOMAIN changes : changes[i].path # p) => disk[p] = left[p]

\* The diff of a round leads from the workspace as the last test run left it,
\* whatever that run has written, to the workspace as the next one finds it,
\* and leaves nothing of the round out, however often an answer names a file.
\* The exceptions are runs in which a read has failed or somebody else has
\* written to the workspace.
DiffIsTrue ==
  (node = "tester" /\ disturbances = 0) =>
    /\ ChangesLeadTo(files_changed, disk)
    /\ ChangesBeginWith(files_changed, left)
    /\ OthersAreAsLeft(files_changed)

\* The diff view shows "a real side-by-side Monaco diff for each changed file,
\* once the Coder writes it": a file that the diff has named as changed is named
\* by every later diff of the run.
DiffNamesEveryChange ==
  [][\A i \in DOMAIN files_changed :
       files_changed[i].before # files_changed[i].after =>
         \E j \in DOMAIN files_changed' : files_changed'[j].path = files_changed[i].path]_vars
=============================================================================
