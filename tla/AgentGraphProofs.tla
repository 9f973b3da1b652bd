--------------------------- MODULE AgentGraphProofs ---------------------------
(* Theorems about AgentGraph, for every set of paths and contents and every *)
(* length of the LLM's answers.                                             *)
EXTENDS AgentGraph, TLAPS

\* Where a run stands determines how many supersteps it has taken, how often
\* the tests have run, and what is known about their last run.
Progress ==
  /\ node = "planner" => steps = 0 /\ iteration = 0 /\ tests = 0
  /\ node = "coder" => steps = 3 * iteration + 1 /\ tests = iteration
  /\ node = "tester" => steps = 3 * iteration + 2 /\ tests = iteration
  /\ node = "self_healer" =>
       /\ steps = 3 * iteration + 3
       /\ tests = iteration + 1
       /\ iteration < max_iterations
  /\ node = "end" => steps <= 3 * iteration + 3
  /\ node # "recursion"

\* The healer works on the failure that the tests have just produced.
Evidence ==
  /\ node = "self_healer" =>
       /\ test_output = tests
       /\ unseen = {}
       /\ test_exit_code = "nonzero"
  /\ writing => node = "coder"

Scalars ==
  /\ node \in {"planner", "coder", "tester", "self_healer",
               "end", "raised", "recursion"}
  /\ max_iterations \in AllowedIterations
  /\ iteration \in 0..max_iterations
  /\ tests \in Nat
  /\ steps \in Nat

AgentInv ==
  Scalars /\ Progress /\ Evidence /\ VerdictIsEarned /\ RepairSeesLastFailure

LEMMA AgentInit == Init => AgentInv
  BY DEF Init, AgentInv, Scalars, Progress, Evidence, VerdictIsEarned,
         RepairSeesLastFailure, AllowedIterations

LEMMA AgentStep == AgentInv /\ [Next]_vars => AgentInv'
<1> SUFFICES ASSUME AgentInv, [Next]_vars PROVE AgentInv'
  OBVIOUS
<1> USE DEF AgentInv, Scalars, Progress, Evidence, VerdictIsEarned,
            RepairSeesLastFailure, AllowedIterations, GoTo, Raise, RecursionLimit,
            coderVars, histVars, testVars
<1>1. CASE Planner
  BY <1>1 DEF Planner
<1>2. CASE CoderAsks
  BY <1>2 DEF CoderAsks, stateVars
<1>3. CASE CoderWrites
  BY <1>3 DEF CoderWrites, stateVars
<1>4. CASE CoderReturns
  BY <1>4 DEF CoderReturns
<1>5. CASE Tester
  <2>1. CASE node' = "raised"
    BY <1>5, <2>1 DEF Tester
  <2>2. ASSUME NEW exit \in {"zero", "nonzero"},
               test_exit_code' = exit,
               status' = TestVerdict(exit),
               GoTo(RouteAfterTester(TestVerdict(exit))),
               test_output' = tests + 1, tests' = tests + 1, unseen' = {}
        PROVE  AgentInv'
    <3>1. UNCHANGED <<iteration, max_iterations, error_context, writing>>
      BY <1>5 DEF Tester
    <3>2. node = "tester"
      BY <1>5 DEF Tester
    <3>3. CASE exit = "zero"
      BY <2>2, <3>1, <3>2, <3>3 DEF TestVerdict, RouteAfterTester
    <3>4. CASE exit = "nonzero" /\ iteration >= max_iterations
      BY <2>2, <3>1, <3>2, <3>4 DEF TestVerdict, RouteAfterTester
    <3>5. CASE exit = "nonzero" /\ ~(iteration >= max_iterations)
      BY <2>2, <3>1, <3>2, <3>5 DEF TestVerdict, RouteAfterTester
    <3> QED BY <3>3, <3>4, <3>5
  <2> QED BY <1>5, <2>1, <2>2 DEF Tester
<1>6. CASE SelfHealer
  BY <1>6 DEF SelfHealer, HealedIteration, HealerContext
<1>7. CASE Environment
  BY <1>7 DEF Environment, stateVars
<1>8. CASE UNCHANGED vars
  BY <1>8 DEF vars, stateVars
<1> QED BY <1>1, <1>2, <1>3, <1>4, <1>5, <1>6, <1>7, <1>8 DEF Next, System

LEMMA AgentInvariant == Spec => []AgentInv
  BY AgentInit, AgentStep, PTL DEF Spec

\* No run that the request schema admits reaches langgraph's recursion limit:
\* a run with m iterations takes at most 3 * m + 3 supersteps.
THEOREM NeverOutOfSteps == Spec => []WithinRecursionLimit
<1>1. AgentInv => WithinRecursionLimit
  BY DEF AgentInv, Progress, WithinRecursionLimit
<1> QED BY <1>1, AgentInvariant, PTL

\* Nothing the coder wrote escapes the test run that gives the verdict, and
\* "failed" comes exactly when the budget is spent, for every answer of the LLM
\* and whatever the tests and others write to the workspace.
THEOREM VerdictsAreEarned == Spec => []VerdictIsEarned
<1>1. AgentInv => VerdictIsEarned
  BY DEF AgentInv
<1> QED BY <1>1, AgentInvariant, PTL

\* A repair always starts from the latest failure, and from no write of the
\* coder that the failing run has not seen.
THEOREM RepairsAreInformed == Spec => []RepairSeesLastFailure
<1>1. AgentInv => RepairSeesLastFailure
  BY DEF AgentInv
<1> QED BY <1>1, AgentInvariant, PTL

-----------------------------------------------------------------------------
(* Types.                                                                  *)

\* A failing read counts as a disturbance, and there is room for it.
LEMMA DisturbancesBounded ==
  ASSUME TypeOK, CoderWrites
  PROVE  disturbances' \in 0..MaxDisturbances
<1>1. disturbances \in Nat /\ disturbances <= MaxDisturbances /\ MaxDisturbances \in Nat
  BY BoundsAssumption DEF TypeOK
<1>2. CASE UNCHANGED disturbances
  BY <1>1, <1>2
<1>3. CASE disturbances < MaxDisturbances /\ disturbances' = disturbances + 1
  BY <1>1, <1>3
<1> QED BY <1>2, <1>3 DEF CoderWrites

LEMMA TypeStep == TypeOK /\ AgentInv /\ AgentInv' /\ [Next]_vars => TypeOK'
<1> SUFFICES ASSUME TypeOK, AgentInv, AgentInv', [Next]_vars PROVE TypeOK'
  OBVIOUS
<1>0. /\ Scalars'
      /\ steps' \in 0..RecursionLimit
  BY DEF AgentInv, TypeOK, Scalars, Progress, AllowedIterations, RecursionLimit,
         Next, Planner, CoderAsks, CoderWrites, CoderReturns, Tester, SelfHealer,
         System, Environment, vars, GoTo, Raise
<1> USE DEF TypeOK, coderVars, histVars, testVars
<1>1. CASE Planner
  BY <1>0, <1>1 DEF Scalars, Planner
<1>2. CASE CoderAsks
  <2>1. \A answer \in Answers : answer \in Seq(Block)
    BY BoundsAssumption DEF Answers
  <2>2. blocks' \in Seq(Block)
    BY <1>2, <2>1 DEF CoderAsks
  <2>3. <<>> \in Seq(Change)
    OBVIOUS
  <2>4. done_blocks' \in Seq(Change) /\ writing' \in BOOLEAN
    BY <1>2, <2>3 DEF CoderAsks
  <2> QED BY <1>0, <1>2, <2>2, <2>4 DEF Scalars, CoderAsks, stateVars
<1>3. CASE CoderWrites
  <2>1. CASE node' = "raised"
    <3>1. <<>> \in Seq(Block) /\ <<>> \in Seq(Change)
      OBVIOUS
    <3>2. /\ blocks' = <<>> /\ done_blocks' = <<>> /\ writing' = FALSE
          /\ UNCHANGED <<disk, unseen, disturbances, stateVars, testVars>>
      BY <1>3, <2>1 DEF CoderWrites
    <3> QED BY <1>0, <3>1, <3>2 DEF Scalars, stateVars
  <2>2. CASE UNCHANGED node
    <3> DEFINE b == Head(blocks)
    <3>1. b \in Block /\ Tail(blocks) \in Seq(Block)
      BY <1>3 DEF CoderWrites
    <3>2. b.path \in Paths /\ b.content \in Contents
      BY <3>1 DEF Block
    <3>3. /\ disk' = [disk EXCEPT ![b.path] = b.content]
          /\ \E before \in {Absent, ReadBefore(b.path)} :
               done_blocks' = Append(done_blocks,
                 [path |-> b.path, before |-> before, after |-> b.content])
          /\ blocks' = Tail(blocks)
          /\ unseen' = unseen \cup {b.path}
          /\ UNCHANGED <<stateVars, writing, testVars>>
      BY <1>3, <2>2 DEF CoderWrites, Raise
    <3>4. disk' \in Files
      BY <3>2, <3>3 DEF Files
    <3>5. done_blocks' \in Seq(Change)
      <4>1. ReadBefore(b.path) \in Contents \cup {Absent}
        BY <3>2 DEF ReadBefore, Files
      <4>2. PICK before \in {Absent, ReadBefore(b.path)} :
              done_blocks' = Append(done_blocks,
                [path |-> b.path, before |-> before, after |-> b.content])
        BY <3>3
      <4>3. [path |-> b.path, before |-> before, after |-> b.content] \in Change
        BY <3>2, <4>1 DEF Change
      <4> QED BY <4>2, <4>3
    <3>6. unseen' \subseteq Paths
      BY <3>2, <3>3
    <3>7. disturbances' \in 0..MaxDisturbances
      BY <1>3, <2>2, DisturbancesBounded DEF CoderWrites, Raise
    <3> QED BY <1>0, <3>1, <3>3, <3>4, <3>5, <3>6, <3>7 DEF Scalars, stateVars
  <2> QED BY <1>3, <2>1, <2>2 DEF CoderWrites, Raise
<1>4. CASE CoderReturns
  <2>1. <<>> \in Seq(Change)
    OBVIOUS
  <2>2. done_blocks' \in Seq(Change) /\ files_changed' \in Seq(Change)
    BY <1>4, <2>1 DEF CoderReturns
  <2> QED BY <1>0, <1>4, <2>2 DEF Scalars, CoderReturns
<1>5. CASE Tester
  BY <1>0, <1>5 DEF Scalars, Tester, TestVerdict
<1>6. CASE SelfHealer
  BY <1>0, <1>6 DEF Scalars, SelfHealer, HealerContext
<1>7. CASE Environment
  <2>1. disk' \in Files
    BY <1>7 DEF Environment, Files
  <2>2. disturbances' \in 0..MaxDisturbances
    BY <1>7, BoundsAssumption DEF Environment
  <2> QED BY <1>0, <1>7, <2>1, <2>2 DEF Scalars, Environment, stateVars
<1>8. CASE UNCHANGED vars
  BY <1>8 DEF vars, stateVars
<1> QED BY <1>1, <1>2, <1>3, <1>4, <1>5, <1>6, <1>7, <1>8 DEF Next, System

\* The fields of AgentState and the coder's locals keep their types, and the
\* iteration never exceeds what the request allows.
THEOREM TypeCorrect == Spec => []TypeOK
<1>1. Init => TypeOK
  <2> SUFFICES ASSUME Init PROVE TypeOK
    OBVIOUS
  <2>1. <<>> \in Seq(Block) /\ <<>> \in Seq(Change)
    OBVIOUS
  <2>2. blocks \in Seq(Block) /\ files_changed \in Seq(Change) /\ done_blocks \in Seq(Change)
    BY <2>1 DEF Init
  <2>3. steps \in 0..RecursionLimit /\ max_iterations \in AllowedIterations
        /\ iteration \in 0..max_iterations
    BY DEF Init, RecursionLimit, AllowedIterations
  <2>4. disturbances \in 0..MaxDisturbances
    BY BoundsAssumption DEF Init
  <2> QED BY <2>2, <2>3, <2>4 DEF Init, TypeOK
<1> QED BY <1>1, TypeStep, AgentInvariant, PTL DEF Spec

-----------------------------------------------------------------------------
(* The diff of a round.                                                    *)

\* While the coder works undisturbed, its list is true to what it has written so
\* far, and what it has not written is still as the last test run has left it.
CoderInv ==
  disturbances = 0 =>
    /\ node \in {"planner", "self_healer"} \/ (node = "coder" /\ ~writing) => disk = left
    /\ node = "coder" /\ writing =>
         /\ ChangesLeadTo(done_blocks, disk)
         /\ ChangesBeginWith(done_blocks, left)
         /\ OthersAreAsLeft(done_blocks)

\* One more block keeps the list true, also when its file is in it already.
LEMMA RoundStep ==
  ASSUME TypeOK, CoderInv, CoderWrites, node' = "coder", disturbances' = 0
  PROVE  CoderInv'
<1> DEFINE b == Head(blocks)
           n == Len(done_blocks)
           c == [path |-> b.path, before |-> disk[b.path], after |-> b.content]
<1>1. b.path \in Paths /\ b.content \in Contents
  <2>1. b \in Block
    BY DEF CoderWrites, TypeOK
  <2> QED BY <2>1 DEF Block
<1>2. /\ node = "coder" /\ writing /\ disturbances = 0
      /\ disk' = [disk EXCEPT ![b.path] = b.content]
      /\ done_blocks' = Append(done_blocks, c)
      /\ writing' /\ left' = left
  <2>1. PICK failed \in BOOLEAN :
          /\ done_blocks' = Append(done_blocks,
               [path   |-> b.path,
                before |-> IF failed THEN Absent ELSE ReadBefore(b.path),
                after  |-> b.content])
          /\ disturbances' = IF failed THEN disturbances + 1 ELSE disturbances
    BY DEF CoderWrites, Raise
  <2>2. disturbances \in Nat
    BY BoundsAssumption DEF TypeOK
  <2>3. ~failed /\ disturbances = 0
    BY <2>1, <2>2
  <2>4. /\ node = "coder" /\ writing /\ writing'
        /\ disk' = [disk EXCEPT ![b.path] = b.content]
        /\ left' = left
    BY DEF CoderWrites, Raise, testVars, TypeOK
  <2> QED BY <2>1, <2>3, <2>4 DEF ReadBefore
<1>3. /\ n \in Nat
      /\ DOMAIN done_blocks = 1..n /\ DOMAIN done_blocks' = 1..(n + 1)
      /\ \A i \in 1..n : done_blocks'[i] = done_blocks[i] /\ done_blocks[i].path \in Paths
      /\ done_blocks'[n + 1] = c
  <2>1. done_blocks \in Seq(Change)
    BY DEF TypeOK
  <2>2. ASSUME NEW i \in 1..n PROVE done_blocks[i].path \in Paths
    <3>1. done_blocks[i] \in Change
      BY <2>1
    <3> QED BY <3>1 DEF Change
  <2> QED BY <1>2, <2>1, <2>2
<1>4. /\ disk'[b.path] = b.content
      /\ \A p \in Paths : p # b.path => disk'[p] = disk[p]
  BY <1>1, <1>2 DEF TypeOK, Files
<1>5. /\ c.path = b.path /\ c.before = disk[b.path] /\ c.after = b.content
  OBVIOUS
<1> HIDE DEF b, n, c
<1>6. ASSUME NEW i \in 1..(n + 1)
      PROVE  /\ i = n + 1 => LaterChanges(done_blocks', i) = {}
             /\ i \in 1..n => LaterChanges(done_blocks', i) =
                  IF done_blocks[i].path = b.path
                  THEN LaterChanges(done_blocks, i) \cup {n + 1}
                  ELSE LaterChanges(done_blocks, i)
  BY <1>3, <1>5 DEF LaterChanges
<1>7. ChangesLeadTo(done_blocks, disk)'
  <2> SUFFICES ASSUME NEW i \in 1..(n + 1)
               PROVE  /\ LaterChanges(done_blocks', i) = {} =>
                           done_blocks'[i].after = disk'[done_blocks'[i].path]
                      /\ \A j \in LaterChanges(done_blocks', i) :
                           (\A k \in LaterChanges(done_blocks', i) : j <= k) =>
                              done_blocks'[j].before = done_blocks'[i].after
    BY <1>3 DEF ChangesLeadTo, LaterChanges
  <2>1. CASE i = n + 1
    BY <1>3, <1>4, <1>5, <1>6, <2>1
  <2>2. CASE i \in 1..n /\ done_blocks[i].path # b.path
    <3>1. LaterChanges(done_blocks', i) = LaterChanges(done_blocks, i)
      BY <1>6, <2>2
    <3>2. LaterChanges(done_blocks, i) \subseteq 1..n
      BY <1>3 DEF LaterChanges
    <3> QED BY <1>2, <1>3, <1>4, <2>2, <3>1, <3>2 DEF CoderInv, ChangesLeadTo
  <2>3. CASE i \in 1..n /\ done_blocks[i].path = b.path
    <3>1. LaterChanges(done_blocks', i) = LaterChanges(done_blocks, i) \cup {n + 1}
      BY <1>6, <2>3
    <3>2. LaterChanges(done_blocks, i) \subseteq 1..n
      BY <1>3 DEF LaterChanges
    <3>3. ASSUME NEW j \in LaterChanges(done_blocks', i),
                 \A k \in LaterChanges(done_blocks', i) : j <= k
          PROVE  done_blocks'[j].before = done_blocks'[i].after
      <4>1. CASE j \in LaterChanges(done_blocks, i)
        BY <1>2, <1>3, <2>3, <3>1, <3>2, <3>3, <4>1 DEF CoderInv, ChangesLeadTo
      <4>2. CASE j = n + 1
        <5>1. LaterChanges(done_blocks, i) = {}
          BY <1>3, <3>1, <3>2, <3>3, <4>2
        <5> QED BY <1>2, <1>3, <1>5, <2>3, <4>2, <5>1 DEF CoderInv, ChangesLeadTo
      <4> QED BY <3>1, <4>1, <4>2
    <3> QED BY <3>1, <3>3
  <2> QED BY <1>3, <2>1, <2>2, <2>3
<1>8. ChangesBeginWith(done_blocks, left)'
  <2> SUFFICES ASSUME NEW i \in 1..(n + 1),
                      \A j \in 1..(n + 1) : j < i => done_blocks'[j].path # done_blocks'[i].path
               PROVE  done_blocks'[i].before = left[done_blocks'[i].path]
    BY <1>2, <1>3 DEF ChangesBeginWith
  <2>1. CASE i = n + 1
    BY <1>1, <1>2, <1>3, <1>5, <2>1 DEF CoderInv, OthersAreAsLeft
  <2>2. CASE i \in 1..n
    BY <1>2, <1>3, <2>2 DEF CoderInv, ChangesBeginWith
  <2> QED BY <1>3, <2>1, <2>2
<1>9. OthersAreAsLeft(done_blocks)'
  <2> SUFFICES ASSUME NEW p \in Paths,
                      \A i \in DOMAIN done_blocks' : done_blocks'[i].path # p
               PROVE  disk'[p] = left'[p]
    BY DEF OthersAreAsLeft
  <2>1. p # b.path /\ \A i \in DOMAIN done_blocks : done_blocks[i].path # p
    BY <1>3, <1>5
  <2> QED BY <1>2, <1>4, <2>1 DEF CoderInv, OthersAreAsLeft
<1> QED BY <1>2, <1>7, <1>8, <1>9 DEF CoderInv

DiffInv == CoderInv /\ DiffIsTrue

LEMMA DiffStep == TypeOK /\ AgentInv /\ DiffInv /\ [Next]_vars => DiffInv'
<1> SUFFICES ASSUME TypeOK, AgentInv, DiffInv, [Next]_vars PROVE DiffInv'
  OBVIOUS
<1> USE DEF DiffInv, CoderInv, DiffIsTrue, GoTo, Raise, coderVars, histVars, testVars
<1>1. CASE Planner
  BY <1>1 DEF Planner, AgentInv, Evidence
<1>2. CASE CoderAsks
  BY <1>2 DEF CoderAsks, stateVars, ChangesLeadTo, ChangesBeginWith, OthersAreAsLeft
<1>3. CASE CoderWrites
  <2>1. CASE node' = "coder"
    <3>1. disturbances' = 0 => CoderInv'
      BY <1>3, <2>1, RoundStep
    <3> QED BY <2>1, <3>1
  <2>2. CASE node' = "raised"
    BY <2>2
  <2> QED BY <1>3, <2>1, <2>2 DEF CoderWrites
<1>4. CASE CoderReturns
  <2>1. /\ node = "coder" /\ writing
        /\ files_changed' = done_blocks
        /\ node' \in {"tester", "recursion"}
        /\ UNCHANGED <<disk, left, disturbances>>
    BY <1>4 DEF CoderReturns
  <2>2. ASSUME disturbances = 0
        PROVE  /\ ChangesLeadTo(files_changed, disk)'
               /\ ChangesBeginWith(files_changed, left)'
               /\ OthersAreAsLeft(files_changed)'
    BY <2>1, <2>2 DEF ChangesLeadTo, ChangesBeginWith, OthersAreAsLeft, LaterChanges
  <2> QED BY <2>1, <2>2
<1>5. CASE Tester
  <2>1. CASE node' \in {"end", "recursion", "raised"}
    BY <2>1
  <2>2. CASE node' = "self_healer" /\ left' = disk'
    BY <2>2
  <2> QED BY <1>5, <2>1, <2>2 DEF Tester, RouteAfterTester
<1>6. CASE SelfHealer
  BY <1>6 DEF SelfHealer, AgentInv, Evidence
<1>7. CASE Environment
  <2>1. disturbances' # 0
    BY <1>7 DEF Environment, TypeOK
  <2> QED BY <2>1
<1>8. CASE UNCHANGED vars
  BY <1>8 DEF vars, stateVars, ChangesLeadTo, ChangesBeginWith, OthersAreAsLeft
<1> QED BY <1>1, <1>2, <1>3, <1>4, <1>5, <1>6, <1>7, <1>8 DEF Next, System

\* Until a read fails or somebody else writes to the workspace, the diff of every
\* round leads from the files as the last test run left them to the files as the
\* next one finds them, and names each that the round changed, for every answer
\* of the LLM and whatever the test command writes.
THEOREM DiffsAreTrue == Spec => []DiffIsTrue
<1>1. Init => DiffInv
  BY DEF Init, DiffInv, CoderInv, DiffIsTrue
<1>2. TypeOK /\ AgentInv /\ DiffInv /\ [Next]_vars => DiffInv'
  BY DiffStep
<1>3. DiffInv => DiffIsTrue
  BY DEF DiffInv
<1> QED BY <1>1, <1>2, <1>3, TypeCorrect, AgentInvariant, PTL DEF Spec
=============================================================================
