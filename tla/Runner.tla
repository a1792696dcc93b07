------------------------------- MODULE Runner -------------------------------
(***************************************************************************)
(* POST /components/{id}/run and the goroutine it starts: Runner.Run       *)
(* (internal/controller), which applies the main Job, polls it by name,    *)
(* then does the same with the verification Job, and records the outcome.  *)
(***************************************************************************)
EXTENDS Cluster

CONSTANTS
  Storage,       \* resources.storage.type of each component
  PostRunItems,  \* the continueOnError values among its hooks.postRun
  ShortTTL       \* may a Job expire before the Runner's next poll?

StorageTypes == {"none", "ephemeral", "pvc"}

ASSUME RunnerAssumption ==
  /\ Storage \in [Components -> StorageTypes]
  /\ PostRunItems \in [Components -> SUBSET BOOLEAN]
  /\ ShortTTL \in BOOLEAN

VARIABLES
  rpc,      \* the next call of each run's handler or goroutine
  rdigest,  \* BuildImageDigest in the handler's copy of the component
  seen,     \* the terminal phase each run has polled for each kind of Job
  latestRun \* the run of each component with the newest Execution row

runnerVars == <<rpc, rdigest, seen, latestRun>>

RunStoreCall == {"create", "markRunning", "startExecution",
                 "finalStatus", "finalPhase", "failStatus", "failPhase"}
RunWorking == {"prepare", "getPVC", "createPVC",
               "applyMain", "pollMain", "applyPost", "pollPost"}
RunLive == RunStoreCall \cup RunWorking \cup {"mark"}
RunStep == RunLive \cup {"idle", "done", "lost"}
Seen == {"none", "Succeeded", "Failed"}

ApplyStep(k) == IF k = "main" THEN "applyMain" ELSE "applyPost"
PollStep(k) == IF k = "main" THEN "pollMain" ELSE "pollPost"

RunnerInit ==
  /\ rpc = [r \in Runs |-> "idle"]
  /\ rdigest = [r \in Runs |-> NoDigest]
  /\ seen = [r \in Runs |-> [k \in Kinds |-> "none"]]
  /\ latestRun = [c \in Components |-> NoTask]

RunnerTypeOK ==
  /\ rpc \in [Runs -> RunStep]
  /\ rdigest \in [Runs -> Digests \cup {NoDigest}]
  /\ seen \in [Runs -> [Kinds -> Seen]]
  /\ latestRun \in [Components -> Runs \cup {NoTask}]

RGoto(r, step) == rpc' = [rpc EXCEPT ![r] = step]

---------------------------------------------------------------------------
(* The plan read from the component's immutable spec (job_builder.go) *)

\* BuildStoragePVC: a claim is needed for type "pvc" only.
NeedsPVC(r) == Storage[Target[r]] = "pvc"

\* BuildPostRunJob: no items, no verification Job.
HasPostRun(r) == PostRunItems[Target[r]] # {}

\* postRunContinueOnError: every item must allow it.
ContinueOnError(r) == FALSE \notin PostRunItems[Target[r]]

\* BuildJob: the main container's image is the digest in the handler's copy
\* of the component, never pulled (PullNever).
Image(r) == rdigest[r]

\* determineFinalPhase, and mainPhase alone without a verification Job.
FinalPhase(r) ==
  IF HasPostRun(r) /\ seen[r]["postrun"] = "Failed" /\ ~ContinueOnError(r)
  THEN "Failed"
  ELSE seen[r]["main"]

---------------------------------------------------------------------------
(* handleRunComponent *)

\* Mutant: only a build in progress is refused.
MayRunUnlessBuilding(r) ==
  Exists(Target[r]) /\ components[Target[r]].phase # "Building"

\* The phase check of the handler: only a Built component may run.
MayRun(r) == components[Target[r]].phase = "Built"

\* Components.Get and the phase check, on a copy of the row (404 and 409
\* change nothing).
RunRequest(r) ==
  /\ rpc[r] = "idle"
  /\ MayRun(r)
  /\ rdigest' = [rdigest EXCEPT ![r] = components[Target[r]].digest]
  /\ RGoto(r, "mark")
  /\ UNCHANGED <<storeVars, clusterVars, seen, latestRun>>

\* UpdateBuildStatus(Running): a second statement, which does not look at
\* the phase again; then the goroutine starts (202 Accepted).
RunMark(r) ==
  /\ rpc[r] = "mark"
  /\ UpdateBuildStatus(Target[r], "Running", rdigest[r], NoTask)
  /\ RGoto(r, "create")
  /\ UNCHANGED <<executions, storeError, clusterVars, rdigest, seen, latestRun>>

RunMarkFails(r) ==
  /\ rpc[r] = "mark"
  /\ CallFails(r, "mark", ~Exists(Target[r]))
  /\ RGoto(r, "done")
  /\ UNCHANGED <<components, executions, clusterVars, rdigest, seen, latestRun>>

---------------------------------------------------------------------------
(* Runner.Run *)

RunnerCreate(r) ==
  /\ rpc[r] = "create"
  /\ CreateExecution(r)
  /\ latestRun' = [latestRun EXCEPT ![Target[r]] = r]
  /\ RGoto(r, "markRunning")
  /\ UNCHANGED <<components, storeError, clusterVars, rdigest, seen>>

RunnerMarkRunning(r) ==
  /\ rpc[r] = "markRunning"
  /\ UpdateBuildStatus(Target[r], "Running", rdigest[r], NoTask)
  /\ RGoto(r, "startExecution")
  /\ UNCHANGED <<executions, storeError, clusterVars, rdigest, seen, latestRun>>

RunnerStartExecution(r) ==
  /\ rpc[r] = "startExecution"
  /\ UpdatePhase(r, "Running", TRUE, FALSE)
  /\ RGoto(r, "prepare")
  /\ UNCHANGED <<components, storeError, clusterVars, rdigest, seen, latestRun>>

\* parseTargetContext, GetClientset and BuildStoragePVC: pure or read-only.
Prepare(r) ==
  /\ rpc[r] = "prepare"
  /\ RGoto(r, IF NeedsPVC(r) THEN "getPVC" ELSE "applyMain")
  /\ UNCHANGED <<storeVars, clusterVars, rdigest, seen, latestRun>>

\* Mutant: the claim is left to the Pod's volume.
SkipPVC(r) ==
  /\ rpc[r] = "getPVC"
  /\ RGoto(r, "applyMain")
  /\ UNCHANGED <<storeVars, clusterVars, rdigest, seen, latestRun>>

\* ensurePVC: an existing claim is reused as it is.
GetPVC(r) ==
  /\ rpc[r] = "getPVC"
  /\ RGoto(r, IF Target[r] \in pvcs THEN "applyMain" ELSE "createPVC")
  /\ UNCHANGED <<storeVars, clusterVars, rdigest, seen, latestRun>>

\* A second API call: it fails (WorkFails) if the claim has appeared since.
EnsurePVC(r) ==
  /\ rpc[r] = "createPVC"
  /\ CreatePVC(Target[r])
  /\ RGoto(r, "applyMain")
  /\ UNCHANGED <<storeVars, rdigest, seen, latestRun>>

\* Mutant: AlreadyExists is taken for success, as in an idempotent apply.
ApplyOrReuse(r, k) ==
  /\ rpc[r] = ApplyStep(k)
  /\ CreateJob(r, k) \/ (JobNamed(Target[r], k) /\ UNCHANGED clusterVars)
  /\ RGoto(r, PollStep(k))
  /\ UNCHANGED <<storeVars, rdigest, seen, latestRun>>

\* applyAndWait, first half: Jobs.Create.  The object returned has no
\* terminal condition yet, so the loop goes on to poll.
Apply(r, k) ==
  /\ rpc[r] = ApplyStep(k)
  /\ CreateJob(r, k)
  /\ RGoto(r, PollStep(k))
  /\ UNCHANGED <<storeVars, rdigest, seen, latestRun>>

AfterPoll(r, k) ==
  IF k = "main" /\ HasPostRun(r) THEN "applyPost" ELSE "finalStatus"

\* Mutant: the condition's type is kept where a phase is expected.
PollCondition(r, k) ==
  /\ rpc[r] = PollStep(k)
  /\ JobNamed(Target[r], k)
  /\ StatusNamed(Target[r], k) # "Active"
  /\ seen' = [seen EXCEPT ![r][k] = StatusNamed(Target[r], k)]
  /\ RGoto(r, AfterPoll(r, k))
  /\ UNCHANGED <<storeVars, clusterVars, rdigest, latestRun>>

\* applyAndWait, second half: Jobs.Get by name finds a terminal condition
\* (jobTerminalPhase) on whichever Job has that name now.  While the Job is
\* active a poll changes nothing.
Poll(r, k) ==
  /\ rpc[r] = PollStep(k)
  /\ JobNamed(Target[r], k)
  /\ \/ /\ StatusNamed(Target[r], k) = "Complete"
        /\ seen' = [seen EXCEPT ![r][k] = "Succeeded"]
     \/ /\ StatusNamed(Target[r], k) = "Failed"
        /\ seen' = [seen EXCEPT ![r][k] = "Failed"]
  /\ RGoto(r, AfterPoll(r, k))
  /\ UNCHANGED <<storeVars, clusterVars, rdigest, latestRun>>

\* AlreadyExists from a Create, NotFound from a poll: the run fails.
Conflict(r) ==
  \/ rpc[r] = "createPVC" /\ Target[r] \in pvcs
  \/ \E k \in Kinds : rpc[r] = ApplyStep(k) /\ JobNamed(Target[r], k)
  \/ \E k \in Kinds : rpc[r] = PollStep(k) /\ ~JobNamed(Target[r], k)

\* Any step may also meet an invalid block of the spec, an unreachable
\* cluster or another API error.
MeetsError(r) == rpc[r] \in RunWorking

WorkFails(r) ==
  /\ Conflict(r) \/ MeetsError(r)
  /\ RGoto(r, "failStatus")
  /\ UNCHANGED <<storeVars, clusterVars, rdigest, seen, latestRun>>

\* Jobs.Create reports an error although the server has created the Job.
ApplyAnswerLost(r, k) ==
  /\ rpc[r] = ApplyStep(k)
  /\ CreateJob(r, k)
  /\ RGoto(r, "failStatus")
  /\ UNCHANGED <<storeVars, rdigest, seen, latestRun>>

\* Mutants: an error message on success too; the digest of the row as it is
\* now instead of the run's own.
AlwaysAnError(r) == r
FinalKeepsRow(r) ==
  /\ rpc[r] = "finalStatus"
  /\ UpdateBuildStatus(Target[r], FinalPhase(r), components[Target[r]].digest,
                       IF FinalPhase(r) = "Failed" THEN r ELSE NoTask)
  /\ RGoto(r, "finalPhase")
  /\ UNCHANGED <<executions, storeError, clusterVars, rdigest, seen, latestRun>>

\* Runner.finalize: first the component, then the Execution.
FinalError(r) == IF FinalPhase(r) = "Failed" THEN r ELSE NoTask

FinalStatus(r) ==
  /\ rpc[r] = "finalStatus"
  /\ UpdateBuildStatus(Target[r], FinalPhase(r), rdigest[r], FinalError(r))
  /\ RGoto(r, "finalPhase")
  /\ UNCHANGED <<executions, storeError, clusterVars, rdigest, seen, latestRun>>

FinalizeExecution(r) ==
  /\ rpc[r] = "finalPhase"
  /\ UpdatePhase(r, FinalPhase(r), TRUE, TRUE)
  /\ RGoto(r, "done")
  /\ UNCHANGED <<components, storeError, clusterVars, rdigest, seen, latestRun>>

\* Mutant: fail tells the Execution only.
RunnerFailSilently(r) ==
  /\ rpc[r] = "failStatus"
  /\ RGoto(r, "failPhase")
  /\ UNCHANGED <<storeVars, clusterVars, rdigest, seen, latestRun>>

\* Runner.fail: the digest stays, unlike Broker.fail.
RunnerFailStatus(r) ==
  /\ rpc[r] = "failStatus"
  /\ UpdateBuildStatus(Target[r], "Failed", rdigest[r], r)
  /\ RGoto(r, "failPhase")
  /\ UNCHANGED <<executions, storeError, clusterVars, rdigest, seen, latestRun>>

\* Mutant: UpdatePhase is passed a nil startedAt.
RunnerFailForgetsStart(r) ==
  /\ rpc[r] = "failPhase"
  /\ UpdatePhase(r, "Failed", FALSE, TRUE)
  /\ RGoto(r, "done")
  /\ UNCHANGED <<components, storeError, clusterVars, rdigest, seen, latestRun>>

RunnerFailPhase(r) ==
  /\ rpc[r] = "failPhase"
  /\ UpdatePhase(r, "Failed", TRUE, TRUE)
  /\ RGoto(r, "done")
  /\ UNCHANGED <<components, storeError, clusterVars, rdigest, seen, latestRun>>

\* Any repository call of Run, fail or finalize returns an error: Run
\* returns at once.
RunnerAborts(r) ==
  /\ rpc[r] \in RunStoreCall
  /\ CallFails(r, rpc[r], ~Exists(Target[r]))
  /\ RGoto(r, "done")
  /\ UNCHANGED <<components, executions, clusterVars, rdigest, seen, latestRun>>

RunGoroutine(r) ==
  \/ RunnerCreate(r) \/ RunnerMarkRunning(r) \/ RunnerStartExecution(r)
  \/ Prepare(r) \/ GetPVC(r) \/ EnsurePVC(r)
  \/ \E k \in Kinds : Apply(r, k) \/ Poll(r, k) \/ ApplyAnswerLost(r, k)
  \/ WorkFails(r)
  \/ FinalStatus(r) \/ FinalizeExecution(r)
  \/ RunnerFailStatus(r) \/ RunnerFailPhase(r)
  \/ RunnerAborts(r)

RunHandler(r) == RunMark(r) \/ RunMarkFails(r)

RunNext == \E r \in Runs : RunRequest(r) \/ RunHandler(r) \/ RunGoroutine(r)

RunsLost ==
  rpc' = [r \in Runs |-> IF rpc[r] \in RunLive THEN "lost" ELSE rpc[r]]

---------------------------------------------------------------------------
(* The cluster, seen from the runs: unless a component asks for a TTL of   *)
(* the order of the poll interval (2 s against a default of 3600), a Job   *)
(* that a run is polling for does not expire before that run has seen it.  *)

Expires(c, k) ==
  /\ JobExpires(c, k)
  /\ ShortTTL \/ rpc[named[c][k]] # PollStep(k)

ClusterNext ==
  /\ \/ \E r \in Runs, k \in Kinds :
          PodStarts(r, k) \/ JobEnds(r, k) \/ PodCollected(r, k)
     \/ \E c \in Components, k \in Kinds : Expires(c, k)
  /\ UNCHANGED <<storeVars, runnerVars>>
============================================================================
