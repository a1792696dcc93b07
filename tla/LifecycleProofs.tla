--------------------------- MODULE LifecycleProofs ---------------------------
(***************************************************************************)
(* The code implements ComponentLifecycle: every step of BuildBroker is a  *)
(* step of the lifecycle of its builds, or changes nothing of the phases   *)
(* in the two tables; and every step of the whole plane one of the         *)
(* lifecycle of its builds and runs.                                       *)
(***************************************************************************)
EXTENDS PlaneProofs

LEMMA PhaseShown ==
  ASSUME StoreTypeOK, NEW t \in Tasks, NEW phase, NEW digest, NEW error,
         UpdateBuildStatus(Target[t], phase, digest, error)
  PROVE  /\ PhaseOf[Target[t]] \notin {"Absent", "Deleted"}
         /\ PhaseOf' = [PhaseOf EXCEPT ![Target[t]] = phase]
<1>1. Target[t] \in Components
  BY StoreAssumption
<1>2. components' = [components EXCEPT
        ![Target[t]] = [phase |-> phase, digest |-> digest, error |-> error]]
  BY DEF UpdateBuildStatus
<1>3. \A c \in Components :
        components'[c].phase =
          IF c = Target[t] THEN phase ELSE components[c].phase
  BY <1>1, <1>2 DEF StoreTypeOK
<1>4. PhaseOf' = [PhaseOf EXCEPT ![Target[t]] = phase]
  BY <1>1, <1>3 DEF PhaseOf
<1>5. PhaseOf[Target[t]] \in Phase
  BY <1>1 DEF UpdateBuildStatus, Exists, PhaseOf
<1> QED BY <1>4, <1>5 DEF Phase

LEMMA OutcomeShown ==
  ASSUME BrokerTypeOK, NEW b \in Builds, NEW phase,
         NEW started \in BOOLEAN, NEW completed \in BOOLEAN,
         UpdatePhase(b, phase, started, completed)
  PROVE  OutcomeOf' = [OutcomeOf EXCEPT ![b] = phase]
<1>1. \A t \in Tasks : executions[t] \in ExecutionRow
  BY DEF BrokerTypeOK, StoreTypeOK
<1>2. \A d \in Builds :
        executions'[d].phase = IF d = b THEN phase ELSE executions[d].phase
  BY <1>1, BuildIsTask DEF UpdatePhase, ExecutionRow, BrokerTypeOK, StoreTypeOK
<1> QED BY <1>2 DEF OutcomeOf

\* A build that moves to another program counter moves to its stage.
LEMMA StageShown ==
  ASSUME BrokerTypeOK, NEW b \in Builds, NEW step, Goto(b, step)
  PROVE  StageOf' = [StageOf EXCEPT ![b] = BuildStage[step]]
BY DEF Goto, StageOf, BrokerTypeOK, BuildTypeOK

\* A write of the component's status.
LEMMA ShowStep ==
  ASSUME BrokerTypeOK, NEW b \in Builds, NEW phase, NEW digest, NEW error,
         UpdateBuildStatus(Target[b], phase, digest, error),
         UNCHANGED executions, NEW step, Goto(b, step)
  PROVE  /\ BuildLifecycle!Show(b, phase)
         /\ BuildLifecycle!Advance(b, BuildStage[bpc[b]], BuildStage[step])
         /\ UNCHANGED OutcomeOf
BY PhaseShown, StageShown, BuildIsTask
   DEF BrokerTypeOK, BuildLifecycle!Show, BuildLifecycle!Present, BuildLifecycle!Advance,
       StageOf, OutcomeOf

LEMMA StageNames ==
  /\ BuildStage["mark"] = "idle" /\ BuildStage["create"] = "accepted"
  /\ BuildStage["markBuilding"] = "open"
  /\ BuildStage["startExecution"] = "announced"
  /\ BuildStage["clone"] = "working" /\ BuildStage["built"] = "working"
  /\ BuildStage["failStatus"] = "working"
  /\ BuildStage["succeed"] = "Built" /\ BuildStage["failPhase"] = "Failed"
  /\ BuildStage["done"] = "over"
BY DEF BuildStage

\* Each write of a build is the step of its lifecycle it stands for.
LEMMA BuildStepsShown ==
  ASSUME BrokerTypeOK, NEW b \in Builds
  PROVE  /\ BuildMark(b) => BuildLifecycle!Accept(b)
         /\ BrokerCreate(b) => BuildLifecycle!Open(b)
         /\ BrokerMarkBuilding(b) => BuildLifecycle!Announce(b)
         /\ BrokerStartExecution(b) => BuildLifecycle!Begin(b)
         /\ BrokerBuilt(b) => BuildLifecycle!Settle(b, "Built")
         /\ BrokerFailStatus(b) => BuildLifecycle!Settle(b, "Failed")
         /\ BrokerSucceed(b) => BuildLifecycle!Close(b, "Built")
         /\ BrokerFailPhase(b) => BuildLifecycle!Close(b, "Failed")
<1> USE StageNames DEF BuildLifecycle!Work
<1>1. ASSUME BuildMark(b) PROVE BuildLifecycle!Accept(b)
  BY <1>1, ShowStep DEF BuildMark, BuildLifecycle!Accept
<1>2. ASSUME BrokerCreate(b) PROVE BuildLifecycle!Open(b)
  <2>1. \A d \in Builds :
          executions'[d].phase =
            IF d = b THEN "Pending" ELSE executions[d].phase
    BY <1>2, BuildIsTask
       DEF BrokerCreate, CreateExecution, BrokerTypeOK, StoreTypeOK, ExecutionRow
  <2>2. OutcomeOf' = [OutcomeOf EXCEPT ![b] = "Pending"]
    BY <2>1 DEF OutcomeOf
  <2>3. PhaseOf[Target[b]] \notin {"Absent", "Deleted"} /\ UNCHANGED PhaseOf
    BY <1>2, BuildIsTask
       DEF BrokerCreate, CreateExecution, Exists, Phase, PhaseOf
  <2>4. StageOf[b] = "accepted" /\ StageOf' = [StageOf EXCEPT ![b] = "open"]
    BY <1>2, StageShown DEF BrokerCreate, StageOf
  <2> QED
    BY <2>2, <2>3, <2>4
       DEF BuildLifecycle!Open, BuildLifecycle!Advance, BuildLifecycle!Present
<1>3. ASSUME BrokerMarkBuilding(b) PROVE BuildLifecycle!Announce(b)
  BY <1>3, ShowStep DEF BrokerMarkBuilding, BuildLifecycle!Announce
<1>4. ASSUME BrokerStartExecution(b) PROVE BuildLifecycle!Begin(b)
  <2>1. OutcomeOf' = [OutcomeOf EXCEPT ![b] = "Running"]
    BY <1>4, OutcomeShown DEF BrokerStartExecution
  <2>2. UNCHANGED PhaseOf
    BY <1>4 DEF BrokerStartExecution, PhaseOf
  <2>3. BuildLifecycle!Advance(b, "announced", "working")
    BY <1>4, StageShown DEF BrokerStartExecution, BuildLifecycle!Advance, StageOf
  <2> QED BY <2>1, <2>2, <2>3 DEF BuildLifecycle!Begin
<1>5. ASSUME BrokerBuilt(b) PROVE BuildLifecycle!Settle(b, "Built")
  BY <1>5, ShowStep DEF BrokerBuilt, BuildLifecycle!Settle
<1>6. ASSUME BrokerFailStatus(b) PROVE BuildLifecycle!Settle(b, "Failed")
  BY <1>6, ShowStep DEF BrokerFailStatus, BuildLifecycle!Settle
<1>7. ASSUME BrokerSucceed(b) PROVE BuildLifecycle!Close(b, "Built")
  <2>1. OutcomeOf' = [OutcomeOf EXCEPT ![b] = "Succeeded"]
    BY <1>7, OutcomeShown DEF BrokerSucceed
  <2>2. UNCHANGED PhaseOf
    BY <1>7 DEF BrokerSucceed, PhaseOf
  <2>3. BuildLifecycle!Advance(b, "Built", "over")
    BY <1>7, StageShown
       DEF BrokerSucceed, Return, BuildLifecycle!Advance, StageOf
  <2> QED BY <2>1, <2>2, <2>3 DEF BuildLifecycle!Close
<1>8. ASSUME BrokerFailPhase(b) PROVE BuildLifecycle!Close(b, "Failed")
  <2>1. OutcomeOf' = [OutcomeOf EXCEPT ![b] = "Failed"]
    BY <1>8, OutcomeShown DEF BrokerFailPhase
  <2>2. UNCHANGED PhaseOf
    BY <1>8 DEF BrokerFailPhase, PhaseOf
  <2>3. BuildLifecycle!Advance(b, "Failed", "over")
    BY <1>8, StageShown
       DEF BrokerFailPhase, Return, BuildLifecycle!Advance, StageOf
  <2> QED BY <2>1, <2>2, <2>3 DEF BuildLifecycle!Close
<1> QED BY <1>1, <1>2, <1>3, <1>4, <1>5, <1>6, <1>7, <1>8

\* Git, docker and the log: nothing a client of the lifecycle sees.
LEMMA WorkHidden ==
  ASSUME BrokerTypeOK, NEW b \in Builds,
         \/ BuildRequest(b) \/ Clone(b) \/ BuildRefused(b)
         \/ DockerBuildFails(b) \/ DockerBuild(b) \/ Inspect(b) \/ BrokerLog(b)
  PROVE  UNCHANGED <<PhaseOf, OutcomeOf, StageOf>>
<1>1. UNCHANGED PhaseOf
  BY DEF BuildRequest, Clone, BuildRefused, DockerBuildFails, DockerBuild,
         Inspect, BrokerLog, PhaseOf, storeVars
<1>2. UNCHANGED OutcomeOf
  <2>1. CASE BrokerLog(b)
    <3>1. \A t \in Tasks : executions[t] \in ExecutionRow
      BY DEF BrokerTypeOK, StoreTypeOK
    <3>2. \A d \in Builds : executions'[d].phase = executions[d].phase
      BY <2>1, <3>1, BuildIsTask
         DEF BrokerLog, UpdateBuildLog, ExecutionRow, BrokerTypeOK, StoreTypeOK
    <3> QED BY <3>2 DEF OutcomeOf
  <2> QED
    BY <2>1 DEF BuildRequest, Clone, BuildRefused, DockerBuildFails,
                DockerBuild, Inspect, OutcomeOf, storeVars
<1>3. ASSUME NEW step, Goto(b, step), BuildStage[bpc[b]] = BuildStage[step]
      PROVE  UNCHANGED StageOf
  <2>1. StageOf' = [StageOf EXCEPT ![b] = StageOf[b]]
    BY <1>3, StageShown DEF StageOf
  <2> QED BY <2>1 DEF StageOf
<1>4. UNCHANGED StageOf
  BY <1>3 DEF BuildRequest, Clone, BuildRefused, DockerBuildFails, DockerBuild,
              Inspect, BrokerLog, AfterLog, BuildStage
<1> QED BY <1>1, <1>2, <1>4

LEMMA StopShown ==
  ASSUME BrokerTypeOK, UNCHANGED <<components, executions>>,
         NEW S \in SUBSET Builds,
         \A b \in Builds : BuildStage[bpc'[b]] =
           IF b \in S THEN "over" ELSE BuildStage[bpc[b]]
  PROVE  BuildLifecycle!Stop(S)
BY DEF BuildLifecycle!Stop, BuildLifecycle!Tasks, PhaseOf, OutcomeOf, StageOf

\* One step of one build.
LEMMA BuildActShown ==
  ASSUME BrokerTypeOK, NEW b \in Builds,
         BuildRequest(b) \/ BuildHandler(b) \/ Broker(b)
  PROVE  \/ BuildLifecycle!Step(b)
         \/ BuildLifecycle!Stop({b})
         \/ UNCHANGED <<PhaseOf, OutcomeOf, StageOf>>
<1>1. CASE \/ BuildMark(b) \/ BrokerCreate(b) \/ BrokerMarkBuilding(b)
           \/ BrokerStartExecution(b) \/ BrokerBuilt(b)
           \/ BrokerFailStatus(b) \/ BrokerSucceed(b) \/ BrokerFailPhase(b)
  BY <1>1, BuildStepsShown DEF BuildLifecycle!Step, BuildLifecycle!Good
<1>2. CASE BuildMarkFails(b) \/ BrokerAborts(b)
  <2>1. UNCHANGED <<components, executions>> /\ Goto(b, "done")
    BY <1>2 DEF BuildMarkFails, BrokerAborts, Return
  <2>2. \A d \in Builds : BuildStage[bpc'[d]] =
          IF d \in {b} THEN "over" ELSE BuildStage[bpc[d]]
    BY <2>1, StageNames DEF Goto, BrokerTypeOK, BuildTypeOK
  <2> QED BY <2>1, <2>2, StopShown
<1>3. CASE \/ BuildRequest(b) \/ Clone(b) \/ BuildRefused(b)
           \/ DockerBuildFails(b) \/ DockerBuild(b) \/ Inspect(b)
           \/ BrokerLog(b)
  BY <1>3, WorkHidden
<1> QED BY <1>1, <1>2, <1>3 DEF BuildHandler, Broker

\* Components come and go.
LEMMA TableShown ==
  ASSUME StoreTypeOK, NEW c \in Components
  PROVE  /\ CreateComponent(c) =>
              /\ PhaseOf[c] = "Absent"
              /\ PhaseOf' = [PhaseOf EXCEPT ![c] = "Pending"]
         /\ DeleteComponent(c) =>
              /\ PhaseOf[c] \notin {"Absent", "Deleted"}
              /\ \A t \in Tasks : Target[t] = c => executions[t].phase = "Absent"
              /\ PhaseOf' = [PhaseOf EXCEPT ![c] = "Deleted"]
<1>1. ASSUME CreateComponent(c)
      PROVE  /\ PhaseOf[c] = "Absent"
             /\ PhaseOf' = [PhaseOf EXCEPT ![c] = "Pending"]
  <2>1. \A d \in Components : components[d] \in ComponentRow
    BY DEF StoreTypeOK
  <2>2. \A d \in Components :
          components'[d].phase =
            IF d = c THEN "Pending" ELSE components[d].phase
    BY <1>1, <2>1 DEF CreateComponent, ComponentRow, StoreTypeOK
  <2> QED BY <1>1, <2>2 DEF CreateComponent, PhaseOf
<1>2. ASSUME DeleteComponent(c)
      PROVE  /\ PhaseOf[c] \notin {"Absent", "Deleted"}
             /\ \A t \in Tasks : Target[t] = c => executions[t].phase = "Absent"
             /\ PhaseOf' = [PhaseOf EXCEPT ![c] = "Deleted"]
  <2>1. components' = [components EXCEPT ![c] = NoRow("Deleted")]
    BY <1>2 DEF DeleteComponent
  <2>2. \A d \in Components :
          components'[d].phase =
            IF d = c THEN "Deleted" ELSE components[d].phase
    BY <2>1 DEF NoRow, StoreTypeOK
  <2>3. PhaseOf' = [PhaseOf EXCEPT ![c] = "Deleted"]
    BY <2>2 DEF PhaseOf
  <2>4. PhaseOf[c] \notin {"Absent", "Deleted"}
    BY <1>2 DEF DeleteComponent, Exists, Phase, PhaseOf
  <2>5. \A t \in Tasks : Target[t] = c => executions[t].phase = "Absent"
    <3>1. \A t \in Tasks : executions[t] \in ExecutionRow
      BY DEF StoreTypeOK
    <3> QED BY <1>2, <3>1 DEF DeleteComponent, Executed, ExecutionRow
  <2> QED BY <2>3, <2>4, <2>5
<1> QED BY <1>1, <1>2

LEMMA LifecycleStep ==
  ASSUME BrokerTypeOK, [BrokerNext]_brokerVars
  PROVE  [BuildLifecycle!Next]_(BuildLifecycle!lifecycleVars)
<1>1. ASSUME NEW c \in Components, UNCHANGED buildVars
      PROVE  /\ CreateComponent(c) => BuildLifecycle!Create(c)
             /\ DeleteComponent(c) => BuildLifecycle!Delete(c)
  <2>1. CreateComponent(c) \/ DeleteComponent(c)
          => UNCHANGED <<OutcomeOf, StageOf>>
    BY <1>1
       DEF CreateComponent, DeleteComponent, buildVars, OutcomeOf, StageOf
  <2>2. CreateComponent(c) => BuildLifecycle!Create(c)
    BY <2>1, TableShown DEF BrokerTypeOK, BuildLifecycle!Create
  <2>3. DeleteComponent(c) =>
          \A b \in Builds : Target[b] = c => OutcomeOf[b] = "Absent"
    BY TableShown, BuildIsTask DEF BrokerTypeOK, OutcomeOf
  <2>4. DeleteComponent(c) => BuildLifecycle!Delete(c)
    BY <2>1, <2>3, TableShown
       DEF BrokerTypeOK, BuildLifecycle!Delete, BuildLifecycle!Present,
           BuildLifecycle!Tasks
  <2> QED BY <2>2, <2>4
<1>2. ASSUME BuildCrash
      PROVE  BuildLifecycle!Stop({b \in Builds : bpc[b] \in BuildLive})
  <2>1. BuildStage["lost"] = "over"
    BY DEF BuildStage
  <2>2. \A d \in Builds : BuildStage[bpc'[d]] =
          IF d \in {b \in Builds : bpc[b] \in BuildLive} THEN "over"
                                                  ELSE BuildStage[bpc[d]]
    BY <1>2, <2>1 DEF BuildCrash, BuildsLost
  <2> QED BY <1>2, <2>2, StopShown DEF BuildCrash, storeVars
<1> USE DEF BuildLifecycle!Next, BuildLifecycle!lifecycleVars
<1>3. CASE StoreNext /\ UNCHANGED buildVars
  BY <1>1, <1>3 DEF StoreNext
<1>4. CASE BuildCrash
  BY <1>2, <1>4 DEF BuildLifecycle!Tasks
<1>5. CASE BuildNext
  BY <1>5, BuildActShown DEF BuildNext, BuildLifecycle!Tasks
<1>6. CASE UNCHANGED brokerVars
  BY <1>6 DEF brokerVars, storeVars, buildVars, PhaseOf, OutcomeOf, StageOf
<1> QED BY <1>3, <1>4, <1>5, <1>6 DEF BrokerNext

(* Every behaviour of the broker, with failing stores, deletes and         *)
(* crashes, is a behaviour of ComponentLifecycle: in the tables of         *)
(* components and Executions no build ever writes out of turn.             *)
THEOREM BrokerImplementsLifecycle == BrokerSpec => BuildsFollowLifecycle
<1>1. BrokerInit => BuildLifecycle!Init
  BY DEF BrokerInit, StoreInit, BuildInit, NoRow, BuildStage, Tasks,
         BuildLifecycle!Init, BuildLifecycle!Tasks, PhaseOf, OutcomeOf, StageOf
<1>2. BrokerTypeOK /\ [BrokerNext]_brokerVars
        => [BuildLifecycle!Next]_(BuildLifecycle!lifecycleVars)
  BY LifecycleStep
<1> QED
  BY <1>1, <1>2, BrokerTypeCorrect, PTL
     DEF BrokerSpec, BuildsFollowLifecycle, BuildLifecycle!Spec

---------------------------------------------------------------------------
(* The whole plane.  A build's step shows what it shows alone, a run's is  *)
(* the same argument over again, and everything else is hidden.            *)

TaskOutcome == [t \in Tasks |-> executions[t].phase]
TaskStage == [t \in Tasks |-> IF t \in Builds THEN BuildStage[bpc[t]]
                                              ELSE RunStage(t)]

LEMMA WorkTasks ==
  /\ WorkLifecycle!Tasks = Tasks
  /\ \A b \in Builds : /\ WorkLifecycle!Work(b) = "Building"
                       /\ WorkLifecycle!Good(b) = "Built"
  /\ \A r \in Runs : /\ WorkLifecycle!Work(r) = "Running"
                     /\ WorkLifecycle!Good(r) = "Succeeded"
BY RunIsTask DEF WorkLifecycle!Tasks, WorkLifecycle!Work, WorkLifecycle!Good,
                 Tasks

\* A step of a build that leaves the runs alone is that step of the plane.
LEMMA BuildLifts ==
  ASSUME NEW b \in Builds, BuildLifecycle!Step(b),
         \A r \in Runs : /\ executions'[r].phase = executions[r].phase
                         /\ RunStage(r)' = RunStage(r)
  PROVE  WorkLifecycle!Step(b)
<1>1. ASSUME NEW p, OutcomeOf' = [OutcomeOf EXCEPT ![b] = p]
      PROVE  TaskOutcome' = [TaskOutcome EXCEPT ![b] = p]
  <2>1. \A d \in Builds :
          executions'[d].phase = IF d = b THEN p ELSE executions[d].phase
    BY <1>1 DEF OutcomeOf
  <2> QED BY <2>1, RunIsTask DEF TaskOutcome, Tasks
<1>2. UNCHANGED OutcomeOf => UNCHANGED TaskOutcome
  BY DEF OutcomeOf, TaskOutcome, Tasks
<1>3. ASSUME NEW from, NEW to, BuildLifecycle!Advance(b, from, to)
      PROVE  WorkLifecycle!Advance(b, from, to)
  <2>1. \A d \in Builds :
          BuildStage[bpc'[d]] = IF d = b THEN to ELSE BuildStage[bpc[d]]
    BY <1>3 DEF BuildLifecycle!Advance, StageOf
  <2>2. TaskStage' = [TaskStage EXCEPT ![b] = to]
    BY <2>1, RunIsTask DEF TaskStage, Tasks
  <2>3. TaskStage[b] = from
    BY <1>3, BuildIsTask DEF BuildLifecycle!Advance, StageOf, TaskStage
  <2> QED BY <2>2, <2>3 DEF WorkLifecycle!Advance, TaskStage
<1>4. ASSUME NEW p, BuildLifecycle!Show(b, p)
      PROVE  WorkLifecycle!Show(b, p)
  BY <1>4 DEF BuildLifecycle!Show, BuildLifecycle!Present,
              WorkLifecycle!Show, WorkLifecycle!Present
<1> USE BuildIsTask, WorkTasks DEF BuildLifecycle!Work, BuildLifecycle!Good
<1>5. BuildLifecycle!Accept(b) => WorkLifecycle!Accept(b)
  BY <1>2, <1>3, <1>4
     DEF BuildLifecycle!Accept, WorkLifecycle!Accept, TaskOutcome
<1>6. BuildLifecycle!Open(b) => WorkLifecycle!Open(b)
  BY <1>1, <1>3
     DEF BuildLifecycle!Open, BuildLifecycle!Present,
         WorkLifecycle!Open, WorkLifecycle!Present, TaskOutcome
<1>7. BuildLifecycle!Announce(b) => WorkLifecycle!Announce(b)
  BY <1>2, <1>3, <1>4
     DEF BuildLifecycle!Announce, WorkLifecycle!Announce, TaskOutcome
<1>8. BuildLifecycle!Begin(b) => WorkLifecycle!Begin(b)
  BY <1>1, <1>3 DEF BuildLifecycle!Begin, WorkLifecycle!Begin, TaskOutcome
<1>9. ASSUME NEW v
      PROVE  /\ BuildLifecycle!Settle(b, v) => WorkLifecycle!Settle(b, v)
             /\ BuildLifecycle!Close(b, v) => WorkLifecycle!Close(b, v)
  BY <1>1, <1>2, <1>3, <1>4
     DEF BuildLifecycle!Settle, WorkLifecycle!Settle,
         BuildLifecycle!Close, WorkLifecycle!Close, TaskOutcome
<1> QED BY <1>5, <1>6, <1>7, <1>8, <1>9
        DEF BuildLifecycle!Step, WorkLifecycle!Step

RunNamed(r) ==
  /\ rpc[r] = "mark" => RunStage(r) = "idle"
  /\ rpc[r] = "create" => RunStage(r) = "accepted"
  /\ rpc[r] = "markRunning" => RunStage(r) = "open"
  /\ rpc[r] = "startExecution" => RunStage(r) = "announced"
  /\ rpc[r] \in RunWorking \cup {"finalStatus", "failStatus"} =>
       RunStage(r) = "working"
  /\ rpc[r] = "finalPhase" => RunStage(r) = FinalPhase(r)
  /\ rpc[r] = "failPhase" => RunStage(r) = "Failed"
  /\ rpc[r] \in {"done", "lost"} => RunStage(r) = "over"

LEMMA RunStageNames == \A r \in Runs : RunNamed(r) /\ RunNamed(r)'
BY DEF RunNamed, RunStage, RunWorking

\* What a run's step shows: it moves to the stage of its next call.
LEMMA RunStageShown ==
  ASSUME RunnerTypeOK, NEW r \in Runs, NEW step, RGoto(r, step),
         \A q \in Runs \ {r} : seen'[q] = seen[q],
         UNCHANGED bpc
  PROVE  /\ TaskStage[r] = RunStage(r)
         /\ TaskStage' = [TaskStage EXCEPT ![r] = RunStage(r)']
         /\ rpc'[r] = step
<1>1. rpc'[r] = step /\ \A q \in Runs \ {r} : rpc'[q] = rpc[q]
  BY DEF RGoto, RunnerTypeOK
<1>2. \A q \in Runs \ {r} : RunStage(q)' = RunStage(q)
  BY <1>1 DEF RunStage, FinalPhase, HasPostRun, ContinueOnError
<1> QED BY <1>1, <1>2, RunIsTask DEF TaskStage, Tasks

LEMMA TaskOutcomeShown ==
  ASSUME StoreTypeOK, NEW t \in Tasks, NEW phase,
         NEW started \in BOOLEAN, NEW completed \in BOOLEAN,
         UpdatePhase(t, phase, started, completed)
  PROVE  TaskOutcome' = [TaskOutcome EXCEPT ![t] = phase]
<1>1. \A u \in Tasks : executions[u] \in ExecutionRow
  BY DEF StoreTypeOK
<1>2. \A u \in Tasks :
        executions'[u].phase = IF u = t THEN phase ELSE executions[u].phase
  BY <1>1 DEF UpdatePhase, ExecutionRow, StoreTypeOK
<1> QED BY <1>2 DEF TaskOutcome

\* A write of the component's status, and one of the Execution's.
LEMMA RunShowStep ==
  ASSUME StoreTypeOK, RunnerTypeOK, NEW r \in Runs, NEW phase, NEW error,
         UpdateBuildStatus(Target[r], phase, rdigest[r], error),
         UNCHANGED <<executions, seen, bpc>>, NEW step, RGoto(r, step)
  PROVE  /\ WorkLifecycle!Show(r, phase)
         /\ \A from, to : (RunStage(r) = from /\ RunStage(r)' = to)
                           => WorkLifecycle!Advance(r, from, to)
         /\ rpc'[r] = step
         /\ UNCHANGED TaskOutcome
<1>1. TaskStage[r] = RunStage(r)
  BY RunIsTask DEF TaskStage
<1> QED
  BY <1>1, PhaseShown, RunStageShown, RunIsTask
     DEF WorkLifecycle!Show, WorkLifecycle!Present, WorkLifecycle!Advance,
         TaskStage, TaskOutcome

LEMMA RunCloseStep ==
  ASSUME StoreTypeOK, RunnerTypeOK, NEW r \in Runs, NEW phase,
         NEW completed \in BOOLEAN,
         UpdatePhase(r, phase, TRUE, completed),
         UNCHANGED <<components, seen, bpc>>, NEW step, RGoto(r, step)
  PROVE  /\ TaskOutcome' = [TaskOutcome EXCEPT ![r] = phase]
         /\ \A from, to : (RunStage(r) = from /\ RunStage(r)' = to)
                           => WorkLifecycle!Advance(r, from, to)
         /\ rpc'[r] = step
         /\ UNCHANGED PhaseOf
<1>1. TaskStage[r] = RunStage(r)
  BY RunIsTask DEF TaskStage
<1> QED
  BY <1>1, TaskOutcomeShown, RunStageShown, RunIsTask
     DEF WorkLifecycle!Advance, TaskStage, PhaseOf

\* Each write of a run is the step of its lifecycle it stands for.
LEMMA RunStepsShown ==
  ASSUME StoreTypeOK, RunnerTypeOK, OutcomeKnown, UNCHANGED bpc,
         NEW r \in Runs
  PROVE  /\ RunMark(r) => WorkLifecycle!Accept(r)
         /\ RunnerCreate(r) => WorkLifecycle!Open(r)
         /\ RunnerMarkRunning(r) => WorkLifecycle!Announce(r)
         /\ RunnerStartExecution(r) => WorkLifecycle!Begin(r)
         /\ FinalStatus(r) =>
              \E v \in {"Succeeded", "Failed"} : WorkLifecycle!Settle(r, v)
         /\ RunnerFailStatus(r) => WorkLifecycle!Settle(r, "Failed")
         /\ FinalizeExecution(r) =>
              \E v \in {"Succeeded", "Failed"} : WorkLifecycle!Close(r, v)
         /\ RunnerFailPhase(r) => WorkLifecycle!Close(r, "Failed")
<1> USE WorkTasks, RunStageNames DEF RunNamed
<1>1. ASSUME RunMark(r) PROVE WorkLifecycle!Accept(r)
  BY <1>1, RunShowStep
     DEF RunMark, WorkLifecycle!Accept, TaskOutcome
<1>2. ASSUME RunnerCreate(r) PROVE WorkLifecycle!Open(r)
  <2>1. \A t \in Tasks :
          executions'[t].phase =
            IF t = r THEN "Pending" ELSE executions[t].phase
    BY <1>2, RunIsTask
       DEF RunnerCreate, CreateExecution, StoreTypeOK, ExecutionRow
  <2>2. TaskOutcome' = [TaskOutcome EXCEPT ![r] = "Pending"]
    BY <2>1 DEF TaskOutcome
  <2>3. PhaseOf[Target[r]] \notin {"Absent", "Deleted"} /\ UNCHANGED PhaseOf
    BY <1>2, RunIsTask
       DEF RunnerCreate, CreateExecution, Exists, Phase, PhaseOf
  <2>4. TaskStage[r] = "accepted" /\ TaskStage' = [TaskStage EXCEPT ![r] = "open"]
    BY <1>2, RunStageShown DEF RunnerCreate
  <2> QED
    BY <2>2, <2>3, <2>4
       DEF WorkLifecycle!Open, WorkLifecycle!Advance, WorkLifecycle!Present,
           TaskStage, TaskOutcome
<1>3. ASSUME RunnerMarkRunning(r) PROVE WorkLifecycle!Announce(r)
  BY <1>3, RunShowStep
     DEF RunnerMarkRunning, WorkLifecycle!Announce, TaskOutcome
<1>4. ASSUME RunnerStartExecution(r) PROVE WorkLifecycle!Begin(r)
  BY <1>4, RunCloseStep
     DEF RunnerStartExecution, RunWorking, WorkLifecycle!Begin, TaskOutcome
<1>5. ASSUME FinalStatus(r)
      PROVE  \E v \in {"Succeeded", "Failed"} : WorkLifecycle!Settle(r, v)
  <2>1. PICK v \in {"Succeeded", "Failed"} : FinalPhase(r) = v
    BY <1>5, FinalPhaseType DEF FinalStatus, HasOutcome
  <2>2. UpdateBuildStatus(Target[r], v, rdigest[r], FinalError(r))
    BY <1>5, <2>1 DEF FinalStatus
  <2>3. RunStage(r) = "working"
    BY <1>5 DEF FinalStatus
  <2>4. RunStage(r)' = v
    <3>1. rpc'[r] = "finalPhase"
      BY <1>5 DEF FinalStatus, RGoto, RunnerTypeOK
    <3>2. FinalPhase(r)' = FinalPhase(r)
      BY <1>5 DEF FinalStatus, FinalPhase, HasPostRun, ContinueOnError
    <3> QED BY <2>1, <3>1, <3>2
  <2> QED
    BY <1>5, <2>2, <2>3, <2>4, RunShowStep
       DEF FinalStatus, WorkLifecycle!Settle, TaskOutcome
<1>6. ASSUME RunnerFailStatus(r) PROVE WorkLifecycle!Settle(r, "Failed")
  BY <1>6, RunShowStep
     DEF RunnerFailStatus, WorkLifecycle!Settle, TaskOutcome
<1>7. ASSUME FinalizeExecution(r)
      PROVE  \E v \in {"Succeeded", "Failed"} : WorkLifecycle!Close(r, v)
  <2>1. PICK v \in {"Succeeded", "Failed"} : FinalPhase(r) = v
    BY <1>7, FinalPhaseType DEF FinalizeExecution, HasOutcome
  <2>2. UpdatePhase(r, v, TRUE, TRUE)
    BY <1>7, <2>1 DEF FinalizeExecution
  <2>3. RunStage(r) = v
    BY <1>7, <2>1 DEF FinalizeExecution
  <2>4. /\ TaskOutcome' = [TaskOutcome EXCEPT ![r] = v]
        /\ WorkLifecycle!Advance(r, v, "over")
        /\ UNCHANGED PhaseOf
    BY <1>7, <2>2, <2>3, RunCloseStep DEF FinalizeExecution
  <2> QED BY <2>4 DEF WorkLifecycle!Close, TaskOutcome
<1>8. ASSUME RunnerFailPhase(r) PROVE WorkLifecycle!Close(r, "Failed")
  BY <1>8, RunCloseStep
     DEF RunnerFailPhase, WorkLifecycle!Close, TaskOutcome
<1> QED BY <1>1, <1>2, <1>3, <1>4, <1>5, <1>6, <1>7, <1>8

\* Everything else a run does: nothing a client of the lifecycle sees.
LEMMA RunWorkHidden ==
  ASSUME StoreTypeOK, RunnerTypeOK, UNCHANGED bpc, NEW r \in Runs,
         \/ RunRequest(r) \/ Prepare(r) \/ GetPVC(r) \/ EnsurePVC(r)
         \/ \E k \in Kinds : Apply(r, k) \/ Poll(r, k) \/ ApplyAnswerLost(r, k)
         \/ WorkFails(r)
  PROVE  UNCHANGED <<PhaseOf, TaskOutcome, TaskStage>>
<1>1. UNCHANGED <<components, executions>>
  BY DEF RunRequest, Prepare, GetPVC, EnsurePVC, Apply, Poll, ApplyAnswerLost,
         WorkFails, storeVars
<1>2. \A q \in Runs \ {r} : seen'[q] = seen[q]
  BY DEF RunRequest, Prepare, GetPVC, EnsurePVC, Apply, Poll, ApplyAnswerLost,
         WorkFails, RunnerTypeOK
<1>3. CASE RunRequest(r)
  <2>1. rpc[r] = "idle" /\ RGoto(r, "mark")
    BY <1>3 DEF RunRequest
  <2>2. RunStage(r) = "idle" /\ RunStage(r)' = "idle"
    BY <1>2, <2>1, RunStageShown, RunStageNames DEF RunNamed, RunStage
  <2>3. TaskStage' = [TaskStage EXCEPT ![r] = TaskStage[r]]
    BY <1>2, <2>1, <2>2, RunStageShown
  <2> QED BY <1>1, <2>3 DEF TaskStage, PhaseOf, TaskOutcome
<1>4. CASE ~RunRequest(r)
  <2>1. \E step \in RunWorking \cup {"finalStatus", "failStatus"} :
          RGoto(r, step)
    BY <1>4 DEF Prepare, GetPVC, EnsurePVC, Apply, Poll, ApplyAnswerLost,
                WorkFails, RunWorking, PollStep, AfterPoll, Kinds
  <2>2. rpc[r] \in RunWorking
    BY <1>4 DEF Prepare, GetPVC, EnsurePVC, Apply, Poll, ApplyAnswerLost,
                WorkFails, Conflict, MeetsError, RunWorking, ApplyStep,
                PollStep, Kinds
  <2>3. RunStage(r) = "working"
    BY <2>2, RunStageNames DEF RunNamed
  <2>4. RunStage(r)' = "working"
    BY <1>2, <2>1, RunStageShown, RunStageNames DEF RunNamed
  <2>5. TaskStage' = [TaskStage EXCEPT ![r] = TaskStage[r]]
    BY <1>2, <2>1, <2>3, <2>4, RunStageShown
  <2> QED BY <1>1, <2>5 DEF TaskStage, PhaseOf, TaskOutcome
<1> QED BY <1>3, <1>4

LEMMA WorkStopShown ==
  ASSUME UNCHANGED <<components, executions>>, NEW S \in SUBSET Tasks,
         \A b \in Builds : BuildStage[bpc'[b]] =
           IF b \in S THEN "over" ELSE BuildStage[bpc[b]],
         \A r \in Runs : RunStage(r)' = IF r \in S THEN "over" ELSE RunStage(r)
  PROVE  WorkLifecycle!Stop(S)
<1>1. TaskStage' = [t \in Tasks |-> IF t \in S THEN "over" ELSE TaskStage[t]]
  BY RunIsTask DEF TaskStage, Tasks
<1> QED
  BY <1>1 DEF WorkLifecycle!Stop, WorkLifecycle!Tasks, Tasks, PhaseOf,
              TaskOutcome, TaskStage

\* One step of one run.
LEMMA RunActShown ==
  ASSUME StoreTypeOK, RunnerTypeOK, OutcomeKnown, UNCHANGED bpc,
         NEW r \in Runs, RunRequest(r) \/ RunHandler(r) \/ RunGoroutine(r)
  PROVE  \/ WorkLifecycle!Step(r)
         \/ WorkLifecycle!Stop({r})
         \/ UNCHANGED <<PhaseOf, TaskOutcome, TaskStage>>
<1>1. CASE \/ RunMark(r) \/ RunnerCreate(r) \/ RunnerMarkRunning(r)
           \/ RunnerStartExecution(r)
  BY <1>1, RunStepsShown DEF WorkLifecycle!Step
<1>2. CASE \/ FinalStatus(r) \/ RunnerFailStatus(r)
           \/ FinalizeExecution(r) \/ RunnerFailPhase(r)
  <2>1. \A v \in {"Succeeded", "Failed"} :
          WorkLifecycle!Settle(r, v) \/ WorkLifecycle!Close(r, v)
            => WorkLifecycle!Step(r)
    BY WorkTasks DEF WorkLifecycle!Step
  <2> QED BY <1>2, <2>1, RunStepsShown
<1>3. CASE RunMarkFails(r) \/ RunnerAborts(r)
  <2>1. /\ UNCHANGED <<components, executions, seen>>
        /\ RGoto(r, "done")
    BY <1>3 DEF RunMarkFails, RunnerAborts
  <2>2. \A q \in Runs : rpc'[q] = IF q = r THEN "done" ELSE rpc[q]
    BY <2>1 DEF RGoto, RunnerTypeOK
  <2>3. \A q \in Runs :
          RunStage(q)' = IF q \in {r} THEN "over" ELSE RunStage(q)
    BY <2>1, <2>2 DEF RunStage, FinalPhase, HasPostRun, ContinueOnError
  <2>4. \A b \in Builds : BuildStage[bpc'[b]] =
          IF b \in {r} THEN "over" ELSE BuildStage[bpc[b]]
    BY RunIsTask
  <2> QED BY <2>1, <2>3, <2>4, WorkStopShown, RunIsTask
<1>4. CASE \/ RunRequest(r) \/ Prepare(r) \/ GetPVC(r) \/ EnsurePVC(r)
           \/ \E k \in Kinds : Apply(r, k) \/ Poll(r, k) \/ ApplyAnswerLost(r, k)
           \/ WorkFails(r)
  BY <1>4, RunWorkHidden
<1> QED BY <1>1, <1>2, <1>3, <1>4 DEF RunHandler, RunGoroutine

\* One step of one build, the runs left alone.
LEMMA BuildActLifts ==
  ASSUME BrokerTypeOK, UNCHANGED <<rpc, seen>>, NEW b \in Builds,
         BuildRequest(b) \/ BuildHandler(b) \/ Broker(b)
  PROVE  \/ WorkLifecycle!Step(b)
         \/ WorkLifecycle!Stop({b})
         \/ UNCHANGED <<PhaseOf, TaskOutcome, TaskStage>>
<1>1. \A r \in Runs : executions'[r] = executions[r]
  BY BrokerLeavesRuns DEF BrokerTypeOK, BrokerNext, BuildNext
<1>2. \A r \in Runs : RunStage(r)' = RunStage(r)
  BY DEF RunStage, FinalPhase, HasPostRun, ContinueOnError
<1>3. CASE BuildLifecycle!Step(b)
  BY <1>1, <1>2, <1>3, BuildLifts
<1>4. CASE BuildLifecycle!Stop({b})
  <2>1. TaskStage' = [t \in Tasks |-> IF t \in {b} THEN "over" ELSE TaskStage[t]]
    BY <1>2, <1>4, RunIsTask
       DEF BuildLifecycle!Stop, BuildLifecycle!Tasks, StageOf, TaskStage, Tasks
  <2>2. UNCHANGED <<PhaseOf, TaskOutcome>>
    BY <1>1, <1>4 DEF BuildLifecycle!Stop, OutcomeOf, TaskOutcome, Tasks
  <2> QED BY <2>1, <2>2 DEF WorkLifecycle!Stop, WorkLifecycle!Tasks, Tasks,
                            TaskStage, TaskOutcome
<1>5. CASE UNCHANGED <<PhaseOf, OutcomeOf, StageOf>>
  BY <1>1, <1>2, <1>5 DEF OutcomeOf, StageOf, TaskOutcome, TaskStage, Tasks
<1> QED BY <1>3, <1>4, <1>5, BuildActShown

LEMMA WorkStep ==
  ASSUME TypeInv, [Next]_vars
  PROVE  [WorkLifecycle!Next]_(WorkLifecycle!lifecycleVars)
<1> DEFINE Hidden == UNCHANGED <<PhaseOf, TaskOutcome, TaskStage>>
           Goal == [WorkLifecycle!Next]_(WorkLifecycle!lifecycleVars)
<1>1. Hidden => Goal
  BY DEF WorkLifecycle!lifecycleVars, TaskOutcome, TaskStage
<1>2. UNCHANGED <<storeVars, bpc, rpc, seen>> => Hidden
  BY DEF storeVars, PhaseOf, TaskOutcome, TaskStage, RunStage, FinalPhase,
         HasPostRun, ContinueOnError
<1>3. ASSUME NEW t \in Tasks,
             WorkLifecycle!Step(t) \/ WorkLifecycle!Stop({t}) \/ Hidden
      PROVE  Goal
  BY <1>1, <1>3, WorkTasks DEF WorkLifecycle!Next
<1>4. CASE StoreActs
  <2>1. UNCHANGED <<executions, bpc, rpc, seen>>
    BY <1>4 DEF StoreActs, StoreNext, CreateComponent, DeleteComponent,
                buildVars, runnerVars
  <2>2. UNCHANGED <<TaskOutcome, TaskStage>>
    BY <2>1 DEF TaskOutcome, TaskStage, RunStage, FinalPhase, HasPostRun,
                ContinueOnError
  <2>3. PICK c \in Components : CreateComponent(c) \/ DeleteComponent(c)
    BY <1>4 DEF StoreActs, StoreNext
  <2>4. CASE CreateComponent(c)
    <3>1. WorkLifecycle!Create(c)
      BY <2>2, <2>4, TableShown
         DEF TypeInv, TypeOK, WorkLifecycle!Create, TaskOutcome, TaskStage
    <3> QED BY <3>1 DEF WorkLifecycle!Next
  <2>5. CASE DeleteComponent(c)
    <3>1. \A t \in Tasks : Target[t] = c => TaskOutcome[t] = "Absent"
      BY <2>5, TableShown DEF TypeInv, TypeOK, TaskOutcome
    <3>2. WorkLifecycle!Delete(c)
      BY <2>2, <2>5, <3>1, TableShown, WorkTasks
         DEF TypeInv, TypeOK, WorkLifecycle!Delete, WorkLifecycle!Present,
             TaskOutcome, TaskStage
    <3> QED BY <3>2 DEF WorkLifecycle!Next
  <2> QED BY <2>3, <2>4, <2>5
<1>5. CASE BuildActs
  <2>1. PICK b \in Builds : BuildRequest(b) \/ BuildHandler(b) \/ Broker(b)
    BY <1>5 DEF BuildActs, BuildNext
  <2>2. UNCHANGED <<rpc, seen>> /\ BrokerTypeOK
    BY <1>5 DEF BuildActs, runnerVars, TypeInv, TypeOK, BrokerTypeOK
  <2> QED BY <1>3, <2>1, <2>2, BuildActLifts, BuildIsTask
<1>6. CASE RunActs
  <2>1. PICK r \in Runs : RunRequest(r) \/ RunHandler(r) \/ RunGoroutine(r)
    BY <1>6 DEF RunActs, RunNext
  <2>2. UNCHANGED bpc
    BY <1>6 DEF RunActs, buildVars
  <2> QED BY <1>3, <2>1, <2>2, RunActShown, RunIsTask DEF TypeInv, TypeOK
<1>7. CASE Crash
  <2>1. PICK S \in SUBSET Tasks :
          S = {b \in Builds : bpc[b] \in BuildLive}
              \cup {r \in Runs : rpc[r] \in RunLive}
    BY DEF Tasks
  <2>2. \A b \in Builds : BuildStage[bpc'[b]] =
          IF b \in S THEN "over" ELSE BuildStage[bpc[b]]
    <3>1. BuildStage["lost"] = "over"
      BY DEF BuildStage
    <3> QED BY <1>7, <2>1, <3>1, RunIsTask DEF Crash, BuildsLost
  <2>3. \A r \in Runs : RunStage(r)' = IF r \in S THEN "over" ELSE RunStage(r)
    <3>1. \A r \in Runs :
            rpc'[r] = IF r \in S THEN "lost" ELSE rpc[r]
      BY <1>7, <2>1, RunIsTask DEF Crash, RunsLost
    <3> QED BY <1>7, <3>1
            DEF Crash, RunStage, FinalPhase, HasPostRun, ContinueOnError
  <2>4. WorkLifecycle!Stop(S)
    BY <1>7, <2>2, <2>3, WorkStopShown DEF Crash, storeVars
  <2> QED BY <2>4, WorkTasks DEF WorkLifecycle!Next
<1>8. CASE ClusterActs \/ UNCHANGED vars
  BY <1>1, <1>2, <1>8
     DEF ClusterActs, ClusterNext, vars, buildVars, runnerVars
<1>9. CASE CleanupActs
  <2>1. UNCHANGED <<storeVars, bpc, rpc, seen>>
    BY <1>9 DEF CleanupActs, CleanupNext, CleanupRequest, ListResources, List,
                Delete, SkipPod, SweepFails, SweepEnds, Record, CleanupEnds,
                Cancel, buildVars, runnerVars
  <2> QED BY <1>1, <1>2, <2>1
<1> QED BY <1>4, <1>5, <1>6, <1>7, <1>8, <1>9 DEF Next

(* The plane as a whole is a lifecycle of its builds and runs: whatever    *)
(* requests overlap on a component, and with stores that fail, Jobs that   *)
(* vanish, cleanups, deletes and crashes, the phases of components (polled *)
(* by clients) and Executions are a history of ComponentLifecycle.         *)
THEOREM PlaneImplementsLifecycle == Spec => WorkFollowsLifecycle
<1>1. Init => WorkLifecycle!Init
  BY RunIsTask
     DEF Init, StoreInit, BuildInit, RunnerInit, NoRow, BuildStage, Tasks,
         RunStage, WorkLifecycle!Init, WorkLifecycle!Tasks, PhaseOf
<1>2. TypeInv /\ [Next]_vars
        => [WorkLifecycle!Next]_(WorkLifecycle!lifecycleVars)
  BY WorkStep
<1> QED
  BY <1>1, <1>2, TypeInvariant, PTL
     DEF Spec, WorkFollowsLifecycle, WorkLifecycle!Spec
============================================================================
