----------------------------- MODULE KubeForge -----------------------------
(***************************************************************************)
(* The whole control plane: builds, runs and cleanups of the same          *)
(* components, over one metadata store and one cluster, in one process     *)
(* that may die.  Nothing serialises two requests for a component; what    *)
(* they share is the component's row and the names of its Jobs and claim.  *)
(***************************************************************************)
EXTENDS BuildBroker, Cleanup

vars == <<storeVars, buildVars, clusterVars, runnerVars, cleanupVars>>

Init == StoreInit /\ BuildInit /\ ClusterInit /\ RunnerInit /\ CleanupInit

\* The server dies or is shut down: main.go waits for no goroutine.  A
\* cleanup of the CLI, a process of its own, may survive.
Crash ==
  /\ MayCrash
  /\ \/ \E b \in Builds : bpc[b] \in BuildLive
     \/ \E r \in Runs : rpc[r] \in RunLive
     \/ \E u \in Cleanups : cpc[u] \in CleanupLive
  /\ BuildsLost
  /\ RunsLost
  /\ \E killed \in SUBSET {u \in Cleanups : cpc[u] \in CleanupLive} :
       cpc' = [u \in Cleanups |-> IF u \in killed THEN "lost" ELSE cpc[u]]
  /\ UNCHANGED <<storeVars, result, cloneDirs, tags, images, clusterVars,
                 rdigest, seen, latestRun,
                 listed, removed, swept, cancelled, audit, found, taken>>

StoreActs == StoreNext /\ UNCHANGED <<buildVars, clusterVars, runnerVars,
                                      cleanupVars>>
BuildActs == BuildNext /\ UNCHANGED <<clusterVars, runnerVars, cleanupVars>>
RunActs == RunNext /\ UNCHANGED <<buildVars, cleanupVars>>
ClusterActs == ClusterNext /\ UNCHANGED <<buildVars, cleanupVars>>
CleanupActs == CleanupNext /\ UNCHANGED buildVars

Next ==
  \/ StoreActs \/ BuildActs \/ RunActs \/ ClusterActs \/ CleanupActs
  \/ Crash

Spec == Init /\ [][Next]_vars

\* Goroutines are scheduled; git and docker terminate (assumed); every
\* active Job ends (activeDeadlineSeconds is always set).  That an API call
\* fails, a Job expires, a Pod starts or a cleanup is asked for is not fair.
RunProgress(r) ==
  /\ RunHandler(r) \/ RunGoroutine(r)
  /\ MeetsError(r) => rpc'[r] # "failStatus" \/ Conflict(r)

FairSpec ==
  /\ Spec
  /\ \A b \in Builds :
       WF_vars((BuildHandler(b) \/ Broker(b))
               /\ UNCHANGED <<clusterVars, runnerVars, cleanupVars>>)
  /\ \A r \in Runs :
       WF_vars(RunProgress(r) /\ UNCHANGED <<buildVars, cleanupVars>>)
  /\ \A r \in Runs, k \in Kinds :
       WF_vars(JobEnds(r, k) /\ UNCHANGED <<storeVars, runnerVars, buildVars,
                                            cleanupVars>>)

---------------------------------------------------------------------------
\* The types of every part's state.
TypeOK ==
  /\ StoreTypeOK /\ BuildTypeOK /\ ClusterTypeOK /\ RunnerTypeOK /\ CleanupTypeOK

BuildOwns(b) == \/ bpc[b] \in BuildLive \ {"mark", "succeed", "failPhase"}
                \/ bpc[b] = "lost" \/ storeError[b] # "none"
RunOwns(r) == \/ rpc[r] \in RunLive \ {"mark", "finalPhase", "failPhase"}
              \/ rpc[r] = "lost" \/ storeError[r] # "none"

(* A component shows work in progress only while a task of that kind is    *)
(* still going to write its status, or was stopped by a crash or by a      *)
(* failed store call: builds and runs that overlap and overwrite each      *)
(* other's status never leave it Building or Running for ever.             *)
WorkHasOwner ==
  \A c \in Components :
    /\ components[c].phase = "Building" =>
         \E b \in Builds : Target[b] = c /\ BuildOwns(b)
    /\ components[c].phase = "Running" =>
         \E r \in Runs : Target[r] = c /\ RunOwns(r)

(* Built, Running and Succeeded come with the image they are about, and    *)
(* the handler's copy of a run's digest is never NULL, although builds     *)
(* reset the column while runs hold older copies of it.                    *)
ImageWhenNeeded ==
  /\ \A c \in Components :
       components[c].phase \in {"Built", "Running", "Succeeded"} =>
         components[c].digest # NoDigest
  /\ \A r \in Runs : rpc[r] # "idle" => rdigest[r] # NoDigest

(* Every main Job runs an image built from its own component, whatever     *)
(* builds and runs happen between the build and the Job.                   *)
JobRunsOwnImage ==
  DisjointTags =>
    \A r \in Runs : jobs[r]["main"] # "Absent" =>
      \E b \in images[Image(r)] : Target[b] = Target[r]

(* A run's recorded success is the success of the Jobs that run created:   *)
(* its own main Job completed, and its own verification Job unless the     *)
(* component lets it fail.  Jobs are polled by a name that all runs of the *)
(* component share: it holds of runs alone, a cleanup between two polls    *)
(* lets one run take another's Job for its own.                            *)
SuccessIsOwn ==
  \A r \in Runs : executions[r].phase = "Succeeded" =>
    /\ jobs[r]["main"] = "Complete"
    /\ (HasPostRun(r) /\ ~ContinueOnError(r)) =>
         jobs[r]["postrun"] = "Complete"

(* The image a Succeeded component shows is one that some run of it has    *)
(* really run to completion, not one a later build has put in the row.     *)
SucceededImageRan ==
  \A c \in Components : components[c].phase = "Succeeded" =>
    \E r \in Runs : /\ Target[r] = c
                    /\ Image(r) = components[c].digest
                    /\ jobs[r]["main"] = "Complete"

\* The Execution of t has the verdict, is about to get it, or was left open
\* by a crash or a failed store call.
Agrees(t, verdict) ==
  \/ executions[t].phase = verdict
  \/ /\ executions[t].phase = "Running"
     /\ \/ storeError[t] # "none"
        \/ /\ t \in Builds
           /\ bpc[t] \in {"lost", IF verdict = "Failed" THEN "failPhase" ELSE "succeed"}
        \/ /\ t \in Runs
           /\ \/ rpc[t] = "lost"
              \/ rpc[t] = "finalPhase" /\ FinalPhase(t) = verdict
              \/ rpc[t] = "failPhase" /\ verdict = "Failed"

(* Every verdict a component shows is that of a task of its own, whoever   *)
(* wrote the row before: Failed names the task, Built and Succeeded show   *)
(* the image of one, and the Execution of that task agrees.                *)
VerdictHasCause ==
  \A c \in Components :
    LET row == components[c] IN
    /\ IF row.phase = "Failed"
       THEN /\ row.error \in Tasks /\ Target[row.error] = c
            /\ Agrees(row.error, "Failed")
       ELSE row.error = NoTask
    /\ row.phase = "Built" =>
         \E b \in Builds : /\ Target[b] = c /\ result[b].digest = row.digest
                           /\ Agrees(b, "Succeeded")
    /\ row.phase = "Succeeded" =>
         \E r \in Runs : /\ Target[r] = c /\ Image(r) = row.digest
                         /\ Agrees(r, "Succeeded")

(* A run with a claim never has an active Job without it; runs alone never *)
(* break this (a cleanup may).                                             *)
JobHasClaim ==
  \A r \in Runs : (NeedsPVC(r) /\ jobs[r]["main"] = "Active") =>
    Target[r] \in pvcs

(* The comment on handleRunComponent and ADR 0015: the phase check guards  *)
(* against two runs of one component at the same time.                     *)
RunGoing(r) == rpc[r] \in RunLive \ {"mark"}
NoConcurrentRuns ==
  \A r1, r2 \in Runs :
    (r1 # r2 /\ Target[r1] = Target[r2]) => ~(RunGoing(r1) /\ RunGoing(r2))

(* The comment on RunComponentCleanup: what is labelled for a component is *)
(* what its most recent execution created.  The code does not keep this    *)
(* (README, section 4).                                                    *)
ResourcesAreLatest ==
  \A c \in Components, k \in Kinds :
    (/\ JobNamed(c, k)
     /\ rpc[named[c][k]] = "done" /\ rpc[latestRun[c]] = "done")
    => named[c][k] = latestRun[c]

(* With a store that works, a process that lives and Jobs with deadlines,  *)
(* a component does not stay Building or Running.                          *)
WorkEnds ==
  \A c \in Components :
    components[c].phase \in {"Building", "Running"}
      ~> components[c].phase \notin {"Building", "Running"}

(* A cleanup that reports success has removed every Job that was there in  *)
(* its scope when it began, whatever the runs, the TTL controller and      *)
(* other cleanups did meanwhile.                                           *)
SweepIsComplete ==
  \A u \in swept : \A j \in found[u] : named[Target[j[1]]][j[2]] # j[1]

(* The audit log against what the cluster really deleted for a cleanup.    *)
(* However the sweep, the process and the audit end, the log is the        *)
(* beginning of the deletions, in their order: it names nothing that was   *)
(* not deleted, and no claim before the Jobs deleted ahead of it.  With a  *)
(* store that works, a cleanup nobody cancelled is done with at most its   *)
(* last deletion missing, the one whose answer never came, and with none   *)
(* missing if its sweep met no error.                                      *)
AuditFollowsSweep ==
  \A u \in Cleanups :
    /\ Len(audit[u]) <= Len(taken[u])
    /\ audit[u] = SubSeq(taken[u], 1, Len(audit[u]))
    /\ (cpc[u] = "done" /\ u \notin cancelled /\ ~MayFault) =>
         Len(taken[u]) <= Len(audit[u]) + (IF u \in swept THEN 0 ELSE 1)

(* What RunCleanup's comment promises the caller: whatever error ends the  *)
(* sweep, that of a cancelled request included, what it returned as        *)
(* removed is recorded.                                                    *)
AnySweepAudited ==
  \A u \in Cleanups : (cpc[u] = "done" /\ ~MayFault) => audit[u] = removed[u]

---------------------------------------------------------------------------
(* The whole plane implements ComponentLifecycle.                          *)

RunStage(r) ==
  CASE rpc[r] \in {"idle", "mark"} -> "idle"
    [] rpc[r] = "create"           -> "accepted"
    [] rpc[r] = "markRunning"      -> "open"
    [] rpc[r] = "startExecution"   -> "announced"
    [] rpc[r] = "finalPhase"       -> FinalPhase(r)
    [] rpc[r] = "failPhase"        -> "Failed"
    [] rpc[r] \in {"done", "lost"} -> "over"
    [] OTHER                       -> "working"

WorkLifecycle == INSTANCE ComponentLifecycle WITH
  phase   <- PhaseOf,
  outcome <- [t \in Tasks |-> executions[t].phase],
  stage   <- [t \in Tasks |-> IF t \in Builds THEN BuildStage[bpc[t]]
                                              ELSE RunStage(t)]

(* Builds, runs, cleanups, deletes and crashes together show in the two    *)
(* tables nothing but the lifecycle: a cleanup never changes a phase (no   *)
(* code writes CleanedUp), a task settles its component at most once, with *)
(* the verdict its Execution then gets, and what a crash leaves is only    *)
(* ever a task that stopped.                                               *)
WorkFollowsLifecycle == WorkLifecycle!Spec
============================================================================
