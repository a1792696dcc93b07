---------------------------- MODULE PlaneProofs ----------------------------
(***************************************************************************)
(* The whole control plane, for any number of components, builds, runs and *)
(* cleanups in one process that may die.  To the store and the broker, a   *)
(* step of the cluster, a cleanup or a crash is one of BrokerSpec, so what *)
(* is proved of the broker's steps is used again here; new are the steps   *)
(* of the runs.                                                            *)
(***************************************************************************)
EXTENDS KubeForge, BuildBrokerProofs

USE StoreAssumption, BuildAssumption, RunnerAssumption, CleanupAssumption

LEMMA RunIsTask ==
  \A r \in Runs : r \in Tasks /\ r \notin Builds /\ Target[r] \in Components
BY DEF Tasks

\* A step that is no run's is one the broker allows for.
LEMMA StepKinds ==
  ASSUME BuildTypeOK, [Next]_vars
  PROVE  RunActs \/ [BrokerNext]_brokerVars
<1>1. StoreActs \/ BuildActs => BrokerNext
  BY DEF StoreActs, BuildActs, BrokerNext
<1>2. ClusterActs => UNCHANGED brokerVars
  BY DEF ClusterActs, ClusterNext, brokerVars
<1>3. CleanupActs => UNCHANGED storeVars
  BY DEF CleanupActs, CleanupNext, CleanupRequest, ListResources, List, Delete,
         SkipPod, SweepFails, SweepEnds, Record, CleanupEnds, Cancel
<1>4. CleanupActs => UNCHANGED brokerVars
  BY <1>3 DEF CleanupActs, brokerVars
<1>5. Crash => BuildCrash \/ UNCHANGED brokerVars
  <2>1. CASE \E b \in Builds : bpc[b] \in BuildLive
    BY <2>1 DEF Crash, BuildCrash
  <2>2. CASE ~\E b \in Builds : bpc[b] \in BuildLive
    <3>1. Crash => bpc' = bpc
      BY <2>2 DEF Crash, BuildsLost, BuildTypeOK
    <3> QED BY <3>1 DEF Crash, brokerVars, buildVars
  <2> QED BY <2>1, <2>2
<1>6. UNCHANGED vars => UNCHANGED brokerVars
  BY DEF vars, brokerVars
<1> QED BY <1>1, <1>2, <1>4, <1>5, <1>6 DEF Next, BrokerNext

\* The broker never writes the Execution of a run.
LEMMA BrokerLeavesRuns ==
  ASSUME StoreTypeOK, [BrokerNext]_brokerVars, NEW r \in Runs
  PROVE  executions'[r] = executions[r]
<1> USE DEF StoreTypeOK
<1>1. ASSUME NEW b \in Builds,
             \/ CreateExecution(b)
             \/ \E phase, started, completed : UpdatePhase(b, phase, started, completed)
             \/ \E tag : UpdateBuildLog(b, tag)
      PROVE  executions'[r] = executions[r]
  BY <1>1, RunIsTask, BuildIsTask
     DEF CreateExecution, UpdatePhase, UpdateBuildLog
<1> QED
  BY <1>1
     DEF BrokerNext, StoreNext, CreateComponent, DeleteComponent, BuildNext,
         BuildRequest, BuildHandler, BuildMark, BuildMarkFails, Broker,
         BrokerCreate, BrokerMarkBuilding, BrokerStartExecution, Clone,
         BuildRefused, DockerBuildFails, DockerBuild, Inspect, BrokerLog,
         BrokerBuilt, BrokerSucceed, BrokerFailStatus, BrokerFailPhase,
         BrokerAborts, BuildCrash, storeVars, brokerVars

\* The runner's variables are changed by runs and crashes only.
LEMMA RunnerSteps ==
  ASSUME [Next]_vars
  PROVE  RunActs \/ Crash \/ UNCHANGED runnerVars
<1>1. CleanupActs => UNCHANGED runnerVars
  BY DEF CleanupActs, CleanupNext, CleanupRequest, ListResources, List, Delete,
         SkipPod, SweepFails, SweepEnds, Record, CleanupEnds, Cancel
<1> QED BY <1>1 DEF Next, StoreActs, BuildActs, ClusterActs, ClusterNext, vars

---------------------------------------------------------------------------
(* Typing.  A run that is about to write its outcome has one: the phase it *)
(* has polled for its main Job.                                            *)

HasOutcome(r) == rpc[r] \in {"applyPost", "pollPost", "finalStatus", "finalPhase"}
OutcomeKnown == \A r \in Runs : HasOutcome(r) => seen[r]["main"] # "none"

\* What one step of a run does to the tables.
RowWritten(r) ==
  \E phase \in {"Running", "Succeeded", "Failed"}, error \in {r, NoTask} :
    UpdateBuildStatus(Target[r], phase, rdigest[r], error)
ExecutionWritten(r) ==
  \/ CreateExecution(r)
  \/ UpdatePhase(r, "Running", TRUE, FALSE)
  \/ UpdatePhase(r, "Succeeded", TRUE, TRUE)
  \/ UpdatePhase(r, "Failed", TRUE, TRUE)

LEMMA FinalPhaseType ==
  ASSUME RunnerTypeOK, OutcomeKnown, NEW r \in Runs, HasOutcome(r)
  PROVE  FinalPhase(r) \in {"Succeeded", "Failed"}
<1>1. seen[r]["main"] \in Seen
  BY DEF RunnerTypeOK, Kinds
<1> QED BY <1>1 DEF OutcomeKnown, FinalPhase, Seen

LEMMA RunTables ==
  ASSUME RunnerTypeOK, OutcomeKnown, NEW r \in Runs,
         RunRequest(r) \/ RunHandler(r) \/ RunGoroutine(r)
  PROVE  /\ \/ UNCHANGED components
            \/ RowWritten(r)
         /\ \/ UNCHANGED executions
            \/ ExecutionWritten(r)
         /\ \/ UNCHANGED storeError
            \/ storeError' = [storeError EXCEPT ![r] = rpc[r]]
               /\ rpc[r] \in RunStoreCall \cup {"mark"}
<1>1. CASE \/ RunMark(r) \/ RunnerMarkRunning(r) \/ RunnerFailStatus(r)
  BY <1>1 DEF RunMark, RunnerMarkRunning, RunnerFailStatus, RowWritten
<1>2. CASE FinalStatus(r)
  BY <1>2, FinalPhaseType DEF FinalStatus, FinalError, RowWritten, HasOutcome
<1>3. CASE FinalizeExecution(r)
  BY <1>3, FinalPhaseType
     DEF FinalizeExecution, ExecutionWritten, HasOutcome
<1>4. CASE \/ RunnerCreate(r) \/ RunnerStartExecution(r) \/ RunnerFailPhase(r)
  BY <1>4 DEF RunnerCreate, RunnerStartExecution, RunnerFailPhase,
              ExecutionWritten
<1>5. CASE RunMarkFails(r) \/ RunnerAborts(r)
  BY <1>5 DEF RunMarkFails, RunnerAborts, CallFails
<1>6. CASE \/ RunRequest(r) \/ Prepare(r) \/ GetPVC(r) \/ EnsurePVC(r)
           \/ \E k \in Kinds : Apply(r, k) \/ Poll(r, k) \/ ApplyAnswerLost(r, k)
           \/ WorkFails(r)
  BY <1>6 DEF RunRequest, Prepare, GetPVC, EnsurePVC, Apply, Poll,
              ApplyAnswerLost, WorkFails, storeVars
<1> QED BY <1>1, <1>2, <1>3, <1>4, <1>5, <1>6 DEF RunHandler, RunGoroutine

LEMMA RunStoreType ==
  ASSUME StoreTypeOK, RunnerTypeOK, OutcomeKnown, RunNext
  PROVE  StoreTypeOK'
<1> USE RunIsTask
<1>1. PICK r \in Runs : RunRequest(r) \/ RunHandler(r) \/ RunGoroutine(r)
  BY DEF RunNext
<1>2. components' \in [Components -> ComponentRow]
  <2>1. CASE RowWritten(r)
    <3>1. PICK phase \in {"Running", "Succeeded", "Failed"},
               error \in {r, NoTask} :
            UpdateBuildStatus(Target[r], phase, rdigest[r], error)
      BY <2>1 DEF RowWritten
    <3>2. /\ phase \in Phase /\ error \in Tasks \cup {NoTask}
          /\ rdigest[r] \in Digests \cup {NoDigest}
      BY DEF RunnerTypeOK, Phase
    <3>3. Target[r] \in Components
      OBVIOUS
    <3> QED BY <3>1, <3>2, <3>3, UpdateBuildStatusType
  <2>2. CASE UNCHANGED components
    BY <2>2 DEF StoreTypeOK
  <2> QED BY <1>1, <2>1, <2>2, RunTables
<1>3. executions' \in [Tasks -> ExecutionRow]
  <2>1. CASE CreateExecution(r)
    <3>1. executions[r] \in ExecutionRow
      BY DEF StoreTypeOK
    <3>2. [executions[r] EXCEPT !.phase = "Pending"] \in ExecutionRow
      BY <3>1 DEF ExecutionRow, ExecutionPhase
    <3> QED BY <2>1, <3>2 DEF CreateExecution, StoreTypeOK
  <2>2. CASE UpdatePhase(r, "Running", TRUE, FALSE)
    BY <2>2, UpdatePhaseType DEF ExecutionPhase
  <2>3. CASE \/ UpdatePhase(r, "Succeeded", TRUE, TRUE)
             \/ UpdatePhase(r, "Failed", TRUE, TRUE)
    BY <2>3, UpdatePhaseType DEF ExecutionPhase
  <2>4. CASE UNCHANGED executions
    BY <2>4 DEF StoreTypeOK
  <2> QED BY <1>1, <2>1, <2>2, <2>3, <2>4, RunTables DEF ExecutionWritten
<1>4. storeError' \in [Tasks -> StoreCall \cup {"none"}]
  <2>1. CASE UNCHANGED storeError
    BY <2>1 DEF StoreTypeOK
  <2>2. ASSUME NEW call \in RunStoreCall \cup {"mark"},
               storeError' = [storeError EXCEPT ![r] = call]
        PROVE  storeError' \in [Tasks -> StoreCall \cup {"none"}]
    BY <2>2 DEF StoreTypeOK, RunStoreCall, StoreCall
  <2> QED BY <1>1, <2>1, <2>2, RunTables
<1> QED BY <1>2, <1>3, <1>4 DEF StoreTypeOK

\* Where a run goes, and what it takes with it.
LEMMA RunnerTypeStep ==
  ASSUME StoreTypeOK, RunnerTypeOK, OutcomeKnown, [Next]_vars
  PROVE  RunnerTypeOK' /\ OutcomeKnown'
<1> USE RunIsTask DEF RunnerTypeOK, OutcomeKnown, HasOutcome, Kinds, Seen
<1>1. CASE UNCHANGED runnerVars
  BY <1>1 DEF runnerVars
<1>2. CASE Crash
  BY <1>2 DEF Crash, RunsLost, RunStep
<1>3. ASSUME NEW r \in Runs, NEW step \in RunStep, RGoto(r, step),
             UNCHANGED <<rdigest, seen, latestRun>>,
             step \in {"applyPost", "pollPost", "finalStatus", "finalPhase"}
               => HasOutcome(r)
      PROVE  RunnerTypeOK' /\ OutcomeKnown'
  BY <1>3 DEF RGoto
<1> USE DEF RunStep, RunLive, RunStoreCall, RunWorking
<1>4. ASSUME NEW r \in Runs, RunRequest(r)
      PROVE  RunnerTypeOK' /\ OutcomeKnown'
  <2>1. components[Target[r]].digest \in Digests \cup {NoDigest}
    BY DEF StoreTypeOK, ComponentRow
  <2> QED BY <1>4, <2>1 DEF RunRequest, RGoto
<1>5. ASSUME NEW r \in Runs, RunnerCreate(r)
      PROVE  RunnerTypeOK' /\ OutcomeKnown'
  BY <1>5 DEF RunnerCreate, RGoto
<1>6. ASSUME NEW r \in Runs, NEW k \in Kinds, Poll(r, k)
      PROVE  RunnerTypeOK' /\ OutcomeKnown'
  <2>1. PICK s \in {"Succeeded", "Failed"} : seen' = [seen EXCEPT ![r][k] = s]
    BY <1>6 DEF Poll
  <2>2. seen' \in [Runs -> [Kinds -> Seen]]
    BY <2>1
  <2>3. seen'[r]["main"] # "none"
    BY <1>6, <2>1 DEF Poll, PollStep
  <2>4. \A q \in Runs \ {r} : seen'[q] = seen[q] /\ rpc'[q] = rpc[q]
    BY <1>6, <2>1 DEF Poll, RGoto
  <2>5. rpc' \in [Runs -> RunStep]
    BY <1>6 DEF Poll, RGoto, AfterPoll
  <2> QED BY <1>6, <2>2, <2>3, <2>4, <2>5 DEF Poll
<1>7. ASSUME NEW r \in Runs, NEW k \in Kinds, Apply(r, k)
      PROVE  RunnerTypeOK' /\ OutcomeKnown'
  BY <1>3, <1>7 DEF Apply, ApplyStep, PollStep
<1>8. ASSUME NEW r \in Runs,
             \/ RunHandler(r) \/ RunnerMarkRunning(r) \/ RunnerStartExecution(r)
             \/ Prepare(r) \/ GetPVC(r) \/ EnsurePVC(r)
             \/ \E k \in Kinds : ApplyAnswerLost(r, k)
             \/ WorkFails(r) \/ FinalStatus(r) \/ FinalizeExecution(r)
             \/ RunnerFailStatus(r) \/ RunnerFailPhase(r) \/ RunnerAborts(r)
      PROVE  RunnerTypeOK' /\ OutcomeKnown'
  BY <1>3, <1>8
     DEF RunHandler, RunMark, RunMarkFails, RunnerMarkRunning,
         RunnerStartExecution, Prepare, GetPVC, EnsurePVC, ApplyAnswerLost,
         WorkFails, FinalStatus, FinalizeExecution, RunnerFailStatus,
         RunnerFailPhase, RunnerAborts
<1>9. CASE RunActs
  BY <1>4, <1>5, <1>6, <1>7, <1>8, <1>9 DEF RunActs, RunNext, RunGoroutine
<1> QED BY <1>1, <1>2, <1>9, RunnerSteps

\* The cluster's objects change by the API calls and controllers alone.
LEMMA ClusterSteps ==
  ASSUME [Next]_vars
  PROVE  \/ UNCHANGED clusterVars
         \/ \E r \in Runs : \/ EnsurePVC(r)
                            \/ \E k \in Kinds : Apply(r, k) \/ ApplyAnswerLost(r, k)
         \/ /\ \/ \E r \in Runs, k \in Kinds :
                    PodStarts(r, k) \/ JobEnds(r, k) \/ PodCollected(r, k)
               \/ \E c \in Components, k \in Kinds : Expires(c, k)
            /\ UNCHANGED runnerVars
         \/ \E u \in Cleanups : Delete(u)
<1>1. ASSUME NEW r \in Runs, RunRequest(r) \/ RunHandler(r) \/ RunGoroutine(r)
      PROVE  \/ UNCHANGED clusterVars
             \/ \E k \in Kinds : Apply(r, k) \/ ApplyAnswerLost(r, k)
             \/ EnsurePVC(r)
  BY <1>1 DEF RunRequest, RunHandler, RunMark, RunMarkFails, RunGoroutine,
              RunnerCreate, RunnerMarkRunning, RunnerStartExecution, Prepare,
              GetPVC, Poll, WorkFails, FinalStatus, FinalizeExecution,
              RunnerFailStatus, RunnerFailPhase, RunnerAborts
<1>2. CASE CleanupActs
  BY <1>2 DEF CleanupActs, CleanupNext, CleanupRequest, ListResources, List,
              SkipPod, SweepFails, SweepEnds, Record, CleanupEnds, Cancel
<1>3. CASE ClusterActs
  BY <1>3 DEF ClusterActs, ClusterNext
<1>4. CASE StoreActs \/ BuildActs \/ Crash \/ UNCHANGED vars
  BY <1>4 DEF StoreActs, BuildActs, Crash, vars
<1>5. CASE RunActs
  BY <1>1, <1>5 DEF RunActs, RunNext
<1> QED BY <1>2, <1>3, <1>4, <1>5 DEF Next

LEMMA ClusterTypeStep ==
  ASSUME ClusterTypeOK, [Next]_vars
  PROVE  ClusterTypeOK'
<1> USE RunIsTask DEF ClusterTypeOK
<1>1. ASSUME NEW r \in Runs, NEW k \in Kinds, CreateJob(r, k)
      PROVE  ClusterTypeOK'
  BY <1>1 DEF CreateJob, JobStatus
<1>2. ASSUME NEW r \in Runs, NEW k \in Kinds, PodStarts(r, k)
      PROVE  ClusterTypeOK'
  BY <1>2 DEF PodStarts
<1>3. ASSUME NEW r \in Runs, NEW k \in Kinds, JobEnds(r, k)
      PROVE  ClusterTypeOK'
  <2>1. PICK status \in JobStatus : jobs' = [jobs EXCEPT ![r][k] = status]
    BY <1>3 DEF JobEnds, JobStatus
  <2> QED BY <1>3, <2>1 DEF JobEnds
<1>4. ASSUME NEW r \in Runs, NEW k \in Kinds, PodCollected(r, k)
      PROVE  ClusterTypeOK'
  BY <1>4 DEF PodCollected
<1>5. ASSUME NEW c \in Components, NEW k \in Kinds, Expires(c, k)
      PROVE  ClusterTypeOK'
  BY <1>5 DEF Expires, JobExpires
<1>6. ASSUME NEW r \in Runs, EnsurePVC(r)
      PROVE  ClusterTypeOK'
  BY <1>6 DEF EnsurePVC, CreatePVC
<1>7. ASSUME NEW c \in Components, NEW k \in Kinds, DeleteJob(c, k)
      PROVE  ClusterTypeOK'
  <2>1. /\ named[c][k] \in Runs
        /\ jobs[named[c][k]][k] \in JobStatus
    BY <1>7 DEF DeleteJob, JobNamed
  <2>2. PICK status \in JobStatus :
          jobs' = [jobs EXCEPT ![named[c][k]][k] = status]
    BY <1>7, <2>1 DEF DeleteJob, JobStatus
  <2> QED BY <1>7, <2>1, <2>2 DEF DeleteJob
<1>8. ASSUME NEW u \in Cleanups, Delete(u)
      PROVE  ClusterTypeOK'
  <2>1. PICK x : DeleteResource(u, x)
    BY <1>8 DEF Delete
  <2>2. \/ \E c \in Components, k \in Kinds : DeleteJob(c, k)
        \/ pods' \subseteq pods /\ pvcs' \subseteq pvcs
           /\ UNCHANGED <<jobs, named>>
    BY <2>1 DEF DeleteResource
  <2> QED BY <1>7, <2>2
<1>9. CASE UNCHANGED clusterVars
  BY <1>9 DEF clusterVars
<1> QED
  BY <1>1, <1>2, <1>3, <1>4, <1>5, <1>6, <1>8, <1>9, ClusterSteps
     DEF Apply, ApplyAnswerLost

LEMMA CleanupTypeStep ==
  ASSUME ClusterTypeOK, CleanupTypeOK, [Next]_vars
  PROVE  CleanupTypeOK'
<1> USE DEF CleanupTypeOK
<1>1. ASSUME NEW u \in Cleanups, NEW step \in CleanupStep, CGoto(u, step)
      PROVE  cpc' \in [Cleanups -> CleanupStep]
  BY <1>1 DEF CGoto
<1> USE DEF CleanupStep, CleanupLive, CleanupCluster
<1>2. ASSUME NEW u \in Cleanups, CleanupRequest(u)
      PROVE  CleanupTypeOK'
  BY <1>1, <1>2 DEF CleanupRequest
<1>3. ASSUME NEW u \in Cleanups, ListResources(u)
      PROVE  CleanupTypeOK'
  <2>1. JobsInScope(u) \subseteq Resources
    BY DEF JobsInScope
  <2>2. PodsInScope(u) \subseteq Resources
    BY DEF PodsInScope, Resources, ClusterTypeOK
  <2>3. ClaimsInScope(u) \subseteq Resources
    BY DEF ClaimsInScope, Resources, ClusterTypeOK
  <2>4. PICK from \in CleanupLive, to \in CleanupCluster,
             items \in SUBSET Resources : List(u, from, to, items)
    BY <1>3, <2>1, <2>2, <2>3 DEF ListResources
  <2> QED BY <1>1, <2>4 DEF List
<1>4. ASSUME NEW u \in Cleanups, Delete(u)
      PROVE  CleanupTypeOK'
  <2>1. PICK x \in Resources :
          /\ taken' = [taken EXCEPT ![u] = Append(@, x)]
          /\ removed' = [removed EXCEPT ![u] = Append(@, x)] \/ UNCHANGED removed
          /\ \/ listed' = [listed EXCEPT ![u] = @ \ {x}]
             \/ listed' = [listed EXCEPT ![u] = {}]
          /\ UNCHANGED cpc \/ CGoto(u, "audit")
    BY <1>4 DEF Delete
  <2>2. taken' \in [Cleanups -> Seq(Resources)]
    BY <2>1
  <2>3. removed' \in [Cleanups -> Seq(Resources)]
    <3>1. CASE removed' = [removed EXCEPT ![u] = Append(@, x)]
      BY <3>1
    <3> QED BY <2>1, <3>1
  <2>4. listed' \in [Cleanups -> SUBSET Resources]
    <3>1. CASE listed' = [listed EXCEPT ![u] = @ \ {x}]
      BY <3>1
    <3>2. CASE listed' = [listed EXCEPT ![u] = {}]
      BY <3>2
    <3> QED BY <2>1, <3>1, <3>2
  <2>5. cpc' \in [Cleanups -> CleanupStep]
    BY <1>1, <2>1
  <2> QED BY <1>4, <2>2, <2>3, <2>4, <2>5 DEF Delete
<1>5. ASSUME NEW u \in Cleanups, SkipPod(u) \/ Cancel(u)
      PROVE  CleanupTypeOK'
  <2>1. CASE SkipPod(u)
    BY <2>1 DEF SkipPod
  <2>2. CASE Cancel(u)
    BY <2>2 DEF Cancel
  <2> QED BY <1>5, <2>1, <2>2
<1>6. ASSUME NEW u \in Cleanups, Record(u)
      PROVE  CleanupTypeOK'
  <2>1. removed[u][Len(audit[u]) + 1] \in Resources
    BY <1>6 DEF Record
  <2> QED BY <1>6, <2>1 DEF Record
<1>7. ASSUME NEW u \in Cleanups, SweepFails(u) \/ SweepEnds(u) \/ CleanupEnds(u)
      PROVE  CleanupTypeOK'
  BY <1>1, <1>7 DEF SweepFails, SweepEnds, CleanupEnds
<1>8. CASE Crash
  BY <1>8 DEF Crash
<1>9. CASE UNCHANGED cleanupVars
  BY <1>9 DEF cleanupVars
<1>10. CASE CleanupActs
  BY <1>2, <1>3, <1>4, <1>5, <1>6, <1>7, <1>10 DEF CleanupActs, CleanupNext
<1> QED
  BY <1>8, <1>9, <1>10
     DEF Next, StoreActs, BuildActs, RunActs, ClusterActs, vars

TypeInv == TypeOK /\ TagKnown /\ OutcomeKnown

LEMMA TypeInvariant == Spec => []TypeInv
<1>1. Init => TypeInv
  <2> SUFFICES ASSUME Init PROVE TypeInv
    OBVIOUS
  <2>1. BrokerTypeOK /\ TagKnown
    BY DEF Init, StoreInit, BuildInit, BrokerTypeOK, StoreTypeOK, BuildTypeOK,
           ComponentRow, ExecutionRow, NoRow, BuildStep, TagKnown
  <2>2. RunnerTypeOK /\ OutcomeKnown
    BY DEF Init, RunnerInit, RunnerTypeOK, RunStep, Seen, OutcomeKnown,
           HasOutcome
  <2>3. ClusterTypeOK
    BY DEF Init, ClusterInit, ClusterTypeOK, JobStatus
  <2>4. CleanupTypeOK
    BY DEF Init, CleanupInit, CleanupTypeOK, CleanupStep
  <2> QED BY <2>1, <2>2, <2>3, <2>4 DEF TypeInv, TypeOK, BrokerTypeOK
<1>2. TypeInv /\ [Next]_vars => TypeInv'
  <2> SUFFICES ASSUME TypeInv, [Next]_vars PROVE TypeInv'
    OBVIOUS
  <2> USE DEF TypeInv, TypeOK, BrokerTypeOK
  <2>1. (StoreTypeOK /\ BuildTypeOK /\ TagKnown)'
    <3>1. CASE RunActs
      <4>1. StoreTypeOK'
        BY <3>1, RunStoreType DEF RunActs
      <4> QED BY <3>1, <4>1 DEF RunActs, buildVars, BuildTypeOK, TagKnown
    <3>2. CASE [BrokerNext]_brokerVars
      BY <3>2, BrokerTypeStep, TagKnownStep
    <3> QED BY <3>1, <3>2, StepKinds
  <2> QED BY <2>1, RunnerTypeStep, ClusterTypeStep, CleanupTypeStep
<1> QED BY <1>1, <1>2, PTL DEF Spec

(* Every variable of the plane stays well typed: a run that writes an      *)
(* outcome has polled one, and nothing that is not labelled for a          *)
(* component is ever listed for deletion or recorded as removed.           *)
THEOREM PlaneTypeCorrect == Spec => []TypeOK
<1>1. TypeInv => TypeOK
  BY DEF TypeInv
<1> QED BY <1>1, TypeInvariant, PTL
============================================================================
