--------------------------- MODULE ClusterProofs ---------------------------
(***************************************************************************)
(* What runs and cleanups may rely on although Jobs are addressed by names *)
(* that all runs of a component share.  A run creates each of its Jobs at  *)
(* most once, so a Job that has lost its name never gets it back: this is  *)
(* what makes a sweep complete.  And while nothing else deletes Jobs, the  *)
(* name a run polls stays with the Job that run created: this is what      *)
(* makes its recorded success its own.  The later sections carry what is   *)
(* proved of builds alone over to the row that builds and runs share: the  *)
(* images it shows and Jobs run, who still owns it, why it has Failed, and *)
(* the history of every Execution; the last is about how work ends.        *)
(***************************************************************************)
EXTENDS PlaneProofs, Naturals

USE StoreAssumption, BuildAssumption, RunnerAssumption, CleanupAssumption

\* Changing one entry of a table of tables changes that entry only.
LEMMA UpdateAt ==
  ASSUME NEW S, NEW K, NEW V, NEW f \in [S -> [K -> V]],
         NEW x \in S, NEW y \in K, NEW v, NEW s \in S, NEW k \in K
  PROVE  [f EXCEPT ![x][y] = v][s][k] =
           IF x = s /\ y = k THEN v ELSE f[s][k]
<1>1. CASE x = s
  BY <1>1
<1>2. CASE x # s
  BY <1>2
<1> QED BY <1>1, <1>2

\* A step of another process leaves a run where it is; a crash only stops it.
RunUntouched(r) == /\ rpc'[r] = rpc[r] /\ seen'[r] = seen[r]
                   /\ rdigest'[r] = rdigest[r]
RunStopped(r) == /\ rpc[r] \in RunLive /\ rpc'[r] = "lost"
                 /\ seen'[r] = seen[r]
                 /\ rdigest'[r] = rdigest[r]
OwnStep(r) == RunRequest(r) \/ RunHandler(r) \/ RunGoroutine(r)

LEMMA RunOwnSteps ==
  ASSUME RunnerTypeOK, [Next]_vars, NEW r \in Runs
  PROVE  RunUntouched(r) \/ RunStopped(r) \/ OwnStep(r)
<1> USE DEF RunnerTypeOK, RunUntouched, RunStopped
<1>1. CASE UNCHANGED runnerVars
  BY <1>1 DEF runnerVars
<1>2. CASE Crash
  BY <1>2 DEF Crash, RunsLost
<1>3. ASSUME NEW q \in Runs, OwnStep(q), q # r PROVE RunUntouched(r)
  BY <1>3
     DEF OwnStep, RunRequest, RunHandler, RunMark, RunMarkFails, RunGoroutine,
         RunnerCreate, RunnerMarkRunning, RunnerStartExecution, Prepare,
         GetPVC, EnsurePVC, Apply, Poll, ApplyAnswerLost, WorkFails,
         FinalStatus, FinalizeExecution, RunnerFailStatus, RunnerFailPhase,
         RunnerAborts, RGoto
<1>4. CASE RunActs
  BY <1>3, <1>4 DEF RunActs, RunNext, OwnStep
<1> QED BY <1>1, <1>2, <1>4, RunnerSteps

---------------------------------------------------------------------------
(* A run creates each of its Jobs at most once.                            *)

AfterPost == {"pollPost", "finalStatus", "finalPhase", "failStatus",
              "failPhase", "done", "lost"}
PastApply(k) == AfterPost \cup (IF k = "main" THEN {"pollMain", "applyPost"}
                                              ELSE {})

JobsFollow ==
  /\ \A r \in Runs, k \in Kinds : jobs[r][k] # "Absent" => rpc[r] \in PastApply(k)
  /\ \A c \in Components, k \in Kinds : JobNamed(c, k) =>
       Target[named[c][k]] = c /\ jobs[named[c][k]][k] # "Absent"

LEMMA PastApplyStays ==
  ASSUME RunnerTypeOK, [Next]_vars, NEW r \in Runs, NEW k \in Kinds,
         rpc[r] \in PastApply(k)
  PROVE  rpc'[r] \in PastApply(k)
<1> USE DEF RunnerTypeOK, PastApply, AfterPost, Kinds
<1>1. CASE RunUntouched(r) \/ RunStopped(r)
  BY <1>1 DEF RunUntouched, RunStopped
<1>2. CASE OwnStep(r)
  BY <1>2
     DEF OwnStep, RunRequest, RunHandler, RunMark, RunMarkFails, RunGoroutine,
         RunnerCreate, RunnerMarkRunning, RunnerStartExecution, Prepare,
         GetPVC, EnsurePVC, Apply, ApplyStep, PollStep, Poll, AfterPoll,
         ApplyAnswerLost, WorkFails, FinalStatus, FinalizeExecution,
         RunnerFailStatus, RunnerFailPhase, RunnerAborts, RGoto
<1> QED BY <1>1, <1>2, RunOwnSteps

\* A Job that exists is not created again, nor is its name given back to it.
LEMMA JobStays ==
  ASSUME TypeOK, JobsFollow, [Next]_vars, NEW r \in Runs, NEW k \in Kinds,
         jobs[r][k] # "Absent"
  PROVE  /\ jobs'[r][k] # "Absent"
         /\ jobs'[r][k] = "Active" => jobs[r][k] = "Active"
         /\ jobs[r][k] = "Complete" => jobs'[r][k] = "Complete"
         /\ named'[Target[r]][k] = r => named[Target[r]][k] = r
<1> USE RunIsTask DEF TypeOK, ClusterTypeOK
<1>1. ASSUME NEW q \in Runs, NEW j \in Kinds, Apply(q, j) \/ ApplyAnswerLost(q, j)
      PROVE  /\ jobs'[r][k] = jobs[r][k]
             /\ named'[Target[r]][k] = r => named[Target[r]][k] = r
  <2>1. rpc[q] = ApplyStep(j) /\ CreateJob(q, j)
    BY <1>1 DEF Apply, ApplyAnswerLost
  <2>2. ApplyStep(j) \notin PastApply(j)
    BY DEF ApplyStep, PastApply, AfterPost, Kinds
  <2>3. <<q, j>> # <<r, k>>
    BY <2>1, <2>2 DEF JobsFollow
  <2> QED BY <2>1, <2>3 DEF CreateJob
<1>2. ASSUME NEW q \in Runs, NEW j \in Kinds, JobEnds(q, j)
      PROVE  /\ \/ jobs'[r][k] = jobs[r][k]
                \/ jobs[r][k] = "Active" /\ jobs'[r][k] \in {"Complete", "Failed"}
             /\ UNCHANGED named
  <2>1. PICK status \in {"Complete", "Failed"} :
          jobs' = [jobs EXCEPT ![q][j] = status]
    BY <1>2 DEF JobEnds
  <2>2. jobs'[r][k] = IF q = r /\ j = k THEN status ELSE jobs[r][k]
    BY <2>1, UpdateAt
  <2> QED BY <1>2, <2>2 DEF JobEnds
<1>3. ASSUME NEW c \in Components, NEW j \in Kinds, DeleteJob(c, j)
      PROVE  /\ \/ jobs'[r][k] = jobs[r][k]
                \/ jobs[r][k] = "Active" /\ jobs'[r][k] = "Deleted"
             /\ named'[Target[r]][k] = r => named[Target[r]][k] = r
  <2> DEFINE q == named[c][j]
             status == IF jobs[q][j] = "Active" THEN "Deleted" ELSE jobs[q][j]
  <2>1. q \in Runs /\ jobs' = [jobs EXCEPT ![q][j] = status]
    BY <1>3 DEF DeleteJob, JobNamed
  <2>2. jobs'[r][k] = IF q = r /\ j = k THEN status ELSE jobs[r][k]
    <3> HIDE DEF q, status
    <3> QED BY <2>1, UpdateAt
  <2>3. named'[Target[r]][k] =
          IF c = Target[r] /\ j = k THEN NoTask ELSE named[Target[r]][k]
    BY <1>3, UpdateAt DEF DeleteJob
  <2> QED BY <2>1, <2>2, <2>3
<1>4. ASSUME NEW c \in Components, NEW j \in Kinds, Expires(c, j)
      PROVE  /\ UNCHANGED jobs
             /\ named'[Target[r]][k] = r => named[Target[r]][k] = r
  <2>1. named'[Target[r]][k] =
          IF c = Target[r] /\ j = k THEN NoTask ELSE named[Target[r]][k]
    BY <1>4, UpdateAt DEF Expires, JobExpires
  <2> QED BY <1>4, <2>1 DEF Expires, JobExpires
<1>5. ASSUME NEW u \in Cleanups, Delete(u)
      PROVE  \/ UNCHANGED <<jobs, named>>
             \/ \E c \in Components, j \in Kinds : DeleteJob(c, j)
  BY <1>5 DEF Delete, DeleteResource
<1>6. \/ UNCHANGED <<jobs, named>>
      \/ \E q \in Runs, j \in Kinds :
           Apply(q, j) \/ ApplyAnswerLost(q, j) \/ JobEnds(q, j)
      \/ \E c \in Components, j \in Kinds : DeleteJob(c, j) \/ Expires(c, j)
  BY <1>5, ClusterSteps
     DEF clusterVars, EnsurePVC, CreatePVC, PodStarts, PodCollected
<1> QED BY <1>1, <1>2, <1>3, <1>4, <1>6

LEMMA JobsFollowStep ==
  ASSUME TypeOK, JobsFollow, [Next]_vars
  PROVE  JobsFollow'
<1> USE RunIsTask DEF TypeOK, ClusterTypeOK
<1>1. ASSUME NEW q \in Runs, NEW j \in Kinds, Apply(q, j) \/ ApplyAnswerLost(q, j)
      PROVE  rpc'[q] \in PastApply(j)
  <2>1. rpc'[q] \in {PollStep(j), "failStatus"}
    BY <1>1 DEF Apply, ApplyAnswerLost, RGoto, RunnerTypeOK
  <2>2. PollStep(j) \in PastApply(j) /\ "failStatus" \in PastApply(j)
    <3>1. j = "main" \/ j = "postrun"
      BY DEF Kinds
    <3> QED BY <3>1 DEF PollStep, PastApply, AfterPost
  <2> QED BY <2>1, <2>2
<1>2. ASSUME NEW q \in Runs, NEW j \in Kinds,
             Apply(q, j) \/ ApplyAnswerLost(q, j),
             NEW r \in Runs, NEW k \in Kinds
      PROVE  /\ jobs'[r][k] = IF q = r /\ j = k THEN "Active" ELSE jobs[r][k]
             /\ \A c \in Components :
                  named'[c][k] = IF Target[q] = c /\ j = k THEN q ELSE named[c][k]
  <2>1. /\ jobs' = [jobs EXCEPT ![q][j] = "Active"]
        /\ named' = [named EXCEPT ![Target[q]][j] = q]
    BY <1>2 DEF Apply, ApplyAnswerLost, CreateJob
  <2>2. jobs'[r][k] = IF q = r /\ j = k THEN "Active" ELSE jobs[r][k]
    BY <2>1, UpdateAt
  <2>3. ASSUME NEW c \in Components
        PROVE  named'[c][k] = IF Target[q] = c /\ j = k THEN q ELSE named[c][k]
    BY <2>1, UpdateAt
  <2> QED BY <2>2, <2>3
<1>3. \/ /\ \A r \in Runs, k \in Kinds :
              jobs'[r][k] # "Absent" => jobs[r][k] # "Absent"
         /\ \A c \in Components, k \in Kinds :
              named'[c][k] \in {NoTask, named[c][k]}
      \/ \E q \in Runs, j \in Kinds : Apply(q, j) \/ ApplyAnswerLost(q, j)
  <2>1. ASSUME NEW q \in Runs, NEW j \in Kinds, JobEnds(q, j),
               NEW r \in Runs, NEW k \in Kinds, jobs'[r][k] # "Absent"
        PROVE  jobs[r][k] # "Absent" /\ UNCHANGED named
    <3>1. PICK status : jobs' = [jobs EXCEPT ![q][j] = status]
      BY <2>1 DEF JobEnds
    <3>2. jobs'[r][k] = IF q = r /\ j = k THEN status ELSE jobs[r][k]
      BY <3>1, UpdateAt
    <3> QED BY <2>1, <3>2 DEF JobEnds
  <2>2. ASSUME NEW c \in Components, NEW j \in Kinds, DeleteJob(c, j),
               NEW r \in Runs, NEW k \in Kinds, jobs'[r][k] # "Absent"
        PROVE  jobs[r][k] # "Absent"
    <3> DEFINE q == named[c][j]
               status == IF jobs[q][j] = "Active" THEN "Deleted" ELSE jobs[q][j]
    <3>1. q \in Runs /\ jobs' = [jobs EXCEPT ![q][j] = status]
      BY <2>2 DEF DeleteJob, JobNamed
    <3>2. jobs'[r][k] = IF q = r /\ j = k THEN status ELSE jobs[r][k]
      <4> HIDE DEF q, status
      <4> QED BY <3>1, UpdateAt
    <3> QED BY <2>2, <3>2
  <2>3. ASSUME NEW d \in Components, NEW j \in Kinds,
               named' = [named EXCEPT ![d][j] = NoTask],
               NEW c \in Components, NEW k \in Kinds
        PROVE  named'[c][k] \in {NoTask, named[c][k]}
    BY <2>3
  <2>4. ASSUME NEW u \in Cleanups, Delete(u)
        PROVE  \/ UNCHANGED <<jobs, named>>
               \/ \E c \in Components, j \in Kinds : DeleteJob(c, j)
    BY <2>4 DEF Delete, DeleteResource
  <2>5. ASSUME NEW c \in Components, NEW j \in Kinds, DeleteJob(c, j) \/ Expires(c, j)
        PROVE  named' = [named EXCEPT ![c][j] = NoTask]
    BY <2>5 DEF DeleteJob, Expires, JobExpires
  <2>6. \/ UNCHANGED <<jobs, named>>
        \/ \E q \in Runs, j \in Kinds :
             Apply(q, j) \/ ApplyAnswerLost(q, j) \/ JobEnds(q, j)
        \/ \E c \in Components, j \in Kinds : DeleteJob(c, j) \/ Expires(c, j)
    BY <2>4, ClusterSteps
       DEF clusterVars, EnsurePVC, CreatePVC, PodStarts, PodCollected
  <2>7. ASSUME \E c \in Components, j \in Kinds :
                 named' = [named EXCEPT ![c][j] = NoTask]
        PROVE  \A c \in Components, k \in Kinds : named'[c][k] \in {NoTask, named[c][k]}
    BY <2>3, <2>7
  <2>8. ASSUME NEW c \in Components, NEW j \in Kinds, Expires(c, j)
        PROVE  UNCHANGED jobs
    BY <2>8 DEF Expires, JobExpires
  <2>9. ASSUME NEW q \in Runs, NEW j \in Kinds, JobEnds(q, j)
        PROVE  UNCHANGED named
    BY <2>9 DEF JobEnds
  <2>10. CASE \E q \in Runs, j \in Kinds : Apply(q, j) \/ ApplyAnswerLost(q, j)
    BY <2>10
  <2>11. CASE UNCHANGED <<jobs, named>>
    BY <2>11
  <2>12. CASE \E q \in Runs, j \in Kinds : JobEnds(q, j)
    <3>1. UNCHANGED named
      BY <2>9, <2>12
    <3>2. \A r \in Runs, k \in Kinds : jobs'[r][k] # "Absent" => jobs[r][k] # "Absent"
      BY <2>1, <2>12
    <3> QED BY <3>1, <3>2
  <2>13. CASE \E c \in Components, j \in Kinds : DeleteJob(c, j) \/ Expires(c, j)
    <3>1. \A c \in Components, k \in Kinds : named'[c][k] \in {NoTask, named[c][k]}
      BY <2>5, <2>7, <2>13
    <3>2. \A r \in Runs, k \in Kinds : jobs'[r][k] # "Absent" => jobs[r][k] # "Absent"
      BY <2>2, <2>8, <2>13
    <3> QED BY <3>1, <3>2
  <2> QED BY <2>6, <2>10, <2>11, <2>12, <2>13
<1>4. ASSUME NEW r \in Runs, NEW k \in Kinds, jobs'[r][k] # "Absent"
      PROVE  rpc'[r] \in PastApply(k)
  <2>1. CASE jobs[r][k] # "Absent"
    BY <2>1, PastApplyStays DEF JobsFollow
  <2>2. CASE jobs[r][k] = "Absent"
    <3>1. PICK q \in Runs, j \in Kinds : Apply(q, j) \/ ApplyAnswerLost(q, j)
      BY <1>3, <1>4, <2>2
    <3>2. q = r /\ j = k
      BY <1>2, <1>4, <2>2, <3>1
    <3> QED BY <1>1, <3>1, <3>2
  <2> QED BY <2>1, <2>2
<1>5. ASSUME NEW c \in Components, NEW k \in Kinds, named'[c][k] # NoTask
      PROVE  Target[named'[c][k]] = c /\ jobs'[named'[c][k]][k] # "Absent"
  <2>1. CASE named'[c][k] = named[c][k]
    <3>1. PICK r \in Runs : r = named[c][k]
      BY <1>5, <2>1
    <3>2. jobs[r][k] # "Absent" /\ Target[r] = c
      BY <1>5, <2>1, <3>1 DEF JobsFollow, JobNamed
    <3>3. jobs'[r][k] # "Absent"
      BY <3>2, JobStays
    <3> QED BY <2>1, <3>1, <3>2, <3>3
  <2>2. ASSUME NEW q \in Runs, NEW j \in Kinds, Apply(q, j) \/ ApplyAnswerLost(q, j),
               named'[c][k] # named[c][k]
        PROVE  Target[named'[c][k]] = c /\ jobs'[named'[c][k]][k] # "Absent"
    <3>1. named'[c][k] = q /\ Target[q] = c /\ j = k
      BY <1>2, <2>2
    <3> QED BY <1>2, <2>2, <3>1
  <2> QED BY <1>3, <1>5, <2>1, <2>2
<1> QED BY <1>4, <1>5 DEF JobsFollow, JobNamed

---------------------------------------------------------------------------
(* The sweep.  What it has listed is what it still has to delete, and a    *)
(* Job that was in its scope at the start keeps its name only while the    *)
(* name is listed; SweepsFollow says so for each stage.                    *)

JobSwept(u, j) ==
  /\ Selects(u, Target[j[1]]) /\ jobs[j[1]][j[2]] # "Absent"
  /\ (cpc[u] = "jobs" /\ named[Target[j[1]]][j[2]] = j[1]) =>
       Job(Target[j[1]], j[2]) \in listed[u]
  /\ (cpc[u] \in {"pods", "claims"} \/ u \in swept) =>
       named[Target[j[1]]][j[2]] # j[1]
SweepsFollow ==
  \A u \in Cleanups :
    /\ u \in swept => cpc[u] \in {"audit", "done", "lost"}
    /\ \A j \in found[u] : JobSwept(u, j)

\* A cleanup's variables change by its own steps and by crashes only.
CleanupUntouched(u) ==
  /\ UNCHANGED <<cpc[u], listed[u], found[u], removed[u], audit[u], taken[u]>>
  /\ u \in swept' <=> u \in swept
  /\ u \in cancelled' <=> u \in cancelled
CleanupKilled(u) ==
  /\ cpc[u] \in CleanupLive /\ cpc'[u] = "lost"
  /\ UNCHANGED <<listed[u], found[u], removed[u], audit[u], taken[u]>>
  /\ u \in swept' <=> u \in swept
CleanupOwnStep(u) ==
  \/ CleanupRequest(u) \/ ListResources(u) \/ Delete(u) \/ SkipPod(u)
  \/ SweepFails(u) \/ SweepEnds(u) \/ Record(u) \/ CleanupEnds(u)
  \/ Cancel(u)

LEMMA CleanupOwnSteps ==
  ASSUME CleanupTypeOK, [Next]_vars, NEW u \in Cleanups
  PROVE  CleanupUntouched(u) \/ CleanupKilled(u) \/ CleanupOwnStep(u)
<1> USE DEF CleanupTypeOK, CleanupUntouched, CleanupKilled
<1>1. CASE UNCHANGED cleanupVars
  BY <1>1 DEF cleanupVars
<1>2. CASE Crash
  BY <1>2 DEF Crash
<1>3. ASSUME NEW w \in Cleanups, CleanupOwnStep(w), w # u
      PROVE  CleanupUntouched(u)
  BY <1>3 DEF CleanupOwnStep, CleanupRequest, ListResources, List, Delete,
              SkipPod, SweepFails, SweepEnds, Record, CleanupEnds, Cancel, CGoto
<1>4. CASE CleanupActs
  BY <1>3, <1>4 DEF CleanupActs, CleanupNext, CleanupOwnStep
<1> QED
  BY <1>1, <1>2, <1>4
     DEF Next, StoreActs, BuildActs, RunActs, ClusterActs, vars

LEMMA SweepsFollowStep ==
  ASSUME TypeOK, JobsFollow, SweepsFollow, [Next]_vars
  PROVE  SweepsFollow'
<1> SUFFICES ASSUME NEW u \in Cleanups
             PROVE  /\ u \in swept' => cpc'[u] \in {"audit", "done", "lost"}
                    /\ \A j \in found'[u] : JobSwept(u, j)'
  BY DEF SweepsFollow
<1> USE DEF CleanupLive, CleanupCluster
<1>a. CleanupTypeOK /\ cpc \in [Cleanups -> CleanupStep]
  BY DEF TypeOK, CleanupTypeOK
<1>b. u \in swept => cpc[u] \in {"audit", "done", "lost"}
  BY DEF SweepsFollow
<1>c. CleanupUntouched(u) \/ CleanupKilled(u) \/ CleanupOwnStep(u)
  BY CleanupOwnSteps DEF TypeOK
<1>1. u \in swept' => cpc'[u] \in {"audit", "done", "lost"}
  BY <1>a, <1>b, <1>c
     DEF CleanupUntouched, CleanupKilled, CleanupOwnStep, CleanupRequest,
         ListResources, List, Delete, SkipPod, SweepFails, SweepEnds, Record,
         CleanupEnds, Cancel, CGoto
<1>2. CASE CleanupRequest(u)
  <2> SUFFICES ASSUME NEW j \in found'[u] PROVE JobSwept(u, j)'
    BY <1>1
  <2>1. /\ j \in Runs \X Kinds /\ Selects(u, Target[j[1]])
        /\ named[Target[j[1]]][j[2]] = j[1]
    BY <1>2 DEF CleanupRequest, TypeOK, CleanupTypeOK
  <2>2. jobs[j[1]][j[2]] # "Absent"
    BY <2>1, RunIsTask DEF JobsFollow, JobNamed
  <2>3. cpc'[u] = "listJobs" /\ u \notin swept' /\ UNCHANGED clusterVars
    BY <1>2, <1>a, <1>b DEF CleanupRequest, CGoto
  <2> QED BY <2>1, <2>2, <2>3 DEF JobSwept, Selects, clusterVars
<1>3. ASSUME ~CleanupRequest(u), NEW j \in found'[u]
      PROVE  JobSwept(u, j)'
  <2>1. j \in found[u]
    BY <1>3, <1>a, <1>c
       DEF CleanupUntouched, CleanupKilled, CleanupOwnStep, ListResources,
           List, Delete, SkipPod, SweepFails, SweepEnds, Record, CleanupEnds,
           Cancel
  <2>2. PICK r \in Runs, k \in Kinds : j = <<r, k>>
    BY <2>1, <1>a DEF CleanupTypeOK
  <2>3. /\ Selects(u, Target[r]) /\ jobs[r][k] # "Absent"
        /\ (cpc[u] = "jobs" /\ named[Target[r]][k] = r) =>
             Job(Target[r], k) \in listed[u]
        /\ (cpc[u] \in {"pods", "claims"} \/ u \in swept) =>
             named[Target[r]][k] # r
    BY <2>1, <2>2 DEF SweepsFollow, JobSwept
  <2>4. jobs'[r][k] # "Absent" /\ (named'[Target[r]][k] = r => named[Target[r]][k] = r)
    BY <2>3, JobStays
  <2> SUFFICES
        /\ (cpc'[u] = "jobs" /\ named'[Target[r]][k] = r) =>
             Job(Target[r], k) \in listed'[u]
        /\ (cpc'[u] \in {"pods", "claims"} \/ u \in swept') =>
             named'[Target[r]][k] # r
    BY <2>2, <2>3, <2>4 DEF JobSwept, Selects
  <2>5. CASE CleanupUntouched(u) \/ CleanupKilled(u)
    BY <2>3, <2>4, <2>5 DEF CleanupUntouched, CleanupKilled
  <2>6. CASE List(u, "listJobs", "jobs", JobsInScope(u))
    <3>1. cpc'[u] = "jobs" /\ listed'[u] = JobsInScope(u) /\ u \notin swept'
          /\ UNCHANGED clusterVars
      BY <1>a, <1>b, <2>6 DEF List, CGoto, CleanupTypeOK
    <3>2. named[Target[r]][k] = r => Job(Target[r], k) \in JobsInScope(u)
      BY <2>3, RunIsTask DEF JobsInScope, Resources, JobNamed
    <3> QED BY <3>1, <3>2 DEF clusterVars
  <2>7. CASE \/ List(u, "jobs", "pods", PodsInScope(u))
             \/ List(u, "pods", "claims", ClaimsInScope(u))
    BY <1>a, <2>3, <2>4, <2>7 DEF List, CGoto
  <2>8. ASSUME NEW x \in listed[u], DeleteResource(u, x),
               listed' = [listed EXCEPT ![u] = @ \ {x}], UNCHANGED <<cpc, swept>>
        PROVE  /\ (cpc'[u] = "jobs" /\ named'[Target[r]][k] = r) =>
                    Job(Target[r], k) \in listed'[u]
               /\ (cpc'[u] \in {"pods", "claims"} \/ u \in swept') =>
                    named'[Target[r]][k] # r
    <3>1. cpc[u] = "jobs" => \/ named'[Target[r]][k] # r
                             \/ x # Job(Target[r], k)
      <4> SUFFICES ASSUME cpc[u] = "jobs", x = Job(Target[r], k)
                   PROVE  named'[Target[r]][k] # r
        OBVIOUS
      <4>1. PICK c \in Components, i \in Kinds : x = Job(c, i) /\ DeleteJob(c, i)
        BY <2>8 DEF DeleteResource
      <4>2. c = Target[r] /\ i = k
        BY <4>1 DEF Job
      <4> QED BY <4>1, <4>2, RunIsTask DEF DeleteJob, TypeOK, ClusterTypeOK
    <3> QED BY <1>a, <2>3, <2>4, <2>8, <3>1 DEF CleanupTypeOK
  <2>9. ASSUME cpc[u] \in CleanupCluster, CGoto(u, "audit"), UNCHANGED swept
         PROVE  cpc'[u] = "audit" /\ u \notin swept'
    BY <1>a, <1>b, <2>9 DEF CGoto
  <2>10. CASE Delete(u)
    <3>1. PICK x \in listed[u] :
            /\ DeleteResource(u, x)
            /\ \/ listed' = [listed EXCEPT ![u] = @ \ {x}] /\ UNCHANGED cpc
               \/ CGoto(u, "audit")
      BY <2>10 DEF Delete
    <3>2. cpc[u] \in CleanupCluster /\ UNCHANGED swept
      BY <2>10, <3>1 DEF Delete, DeleteResource
    <3> QED BY <2>8, <2>9, <3>1, <3>2
  <2>11. CASE \/ SkipPod(u) \/ SweepFails(u) \/ SweepEnds(u) \/ Record(u)
             \/ CleanupEnds(u) \/ Cancel(u)
    BY <1>a, <2>3, <2>4, <2>11
       DEF SkipPod, SweepFails, SweepEnds, Record, CleanupEnds, Cancel, CGoto
  <2> QED
    BY <1>3, <1>c, <2>5, <2>6, <2>7, <2>10, <2>11
       DEF CleanupOwnStep, ListResources
<1> QED BY <1>1, <1>2, <1>3

LEMMA SweepInvariant == Spec => [](JobsFollow /\ SweepsFollow)
<1>1. Init => JobsFollow /\ SweepsFollow
  BY RunIsTask DEF Init, ClusterInit, CleanupInit, JobsFollow, JobNamed,
                   SweepsFollow
<1>2. TypeOK /\ JobsFollow /\ SweepsFollow /\ [Next]_vars
        => (JobsFollow /\ SweepsFollow)'
  BY JobsFollowStep, SweepsFollowStep
<1> QED BY <1>1, <1>2, PlaneTypeCorrect, PTL DEF Spec

(* A cleanup that met no error has taken the name from every Job that was  *)
(* in its scope when it began: runs that go on creating Jobs, Jobs that    *)
(* expire, other cleanups and crashes included, none of those Jobs is ever *)
(* addressed again.                                                        *)
THEOREM SweepsComplete == Spec => []SweepIsComplete
<1>1. SweepsFollow /\ TypeOK => SweepIsComplete
  BY DEF SweepsFollow, JobSwept, SweepIsComplete, TypeOK, CleanupTypeOK
<1> QED BY <1>1, SweepInvariant, PlaneTypeCorrect, PTL

(* The audit log of a cleanup, the results of its sweep and the deletions  *)
(* of the cluster: each is the beginning of the next, and the results lack *)
(* a deletion only if its answer was lost, which ended the sweep.          *)
LogFollows(u) ==
  /\ Len(audit[u]) <= Len(removed[u])
  /\ \A i \in 1..Len(audit[u]) : audit[u][i] = removed[u][i]
  /\ Len(removed[u]) <= Len(taken[u]) /\ Len(taken[u]) <= Len(removed[u]) + 1
  /\ \A i \in 1..Len(removed[u]) : removed[u][i] = taken[u][i]
  /\ cpc[u] \in {"idle", "listJobs", "jobs", "pods", "claims"} \/ u \in swept
       => Len(taken[u]) = Len(removed[u])
  /\ (cpc[u] = "done" /\ u \notin cancelled /\ ~MayFault) => audit[u] = removed[u]
LogsFollow == \A u \in Cleanups : LogFollows(u)

LEMMA LogsFollowStep ==
  ASSUME TypeOK, SweepsFollow, LogsFollow, [Next]_vars
  PROVE  LogsFollow'
<1> SUFFICES ASSUME NEW u \in Cleanups PROVE LogFollows(u)'
  BY DEF LogsFollow
<1>a. CleanupTypeOK
  BY DEF TypeOK
<1>b. LogFollows(u)
  BY DEF LogsFollow
<1>c. u \in swept => cpc[u] \in {"audit", "done", "lost"}
  BY DEF SweepsFollow
<1>d. /\ audit[u] \in Seq(Resources) /\ removed[u] \in Seq(Resources)
      /\ taken[u] \in Seq(Resources)
  BY <1>a DEF CleanupTypeOK
<1> USE DEF CleanupTypeOK, CGoto, CleanupLive, CleanupCluster
<1>1. CASE CleanupUntouched(u) \/ CleanupKilled(u)
  BY <1>b, <1>1 DEF CleanupUntouched, CleanupKilled, LogFollows
<1>2. CASE \/ CleanupRequest(u) \/ ListResources(u) \/ SkipPod(u)
           \/ SweepFails(u) \/ SweepEnds(u) \/ Cancel(u)
  BY <1>a, <1>b, <1>c, <1>2
     DEF CleanupRequest, ListResources, List, SkipPod, SweepFails, SweepEnds,
         Cancel, LogFollows
<1>3. CASE CleanupEnds(u)
  BY <1>a, <1>b, <1>3 DEF CleanupEnds, AuditStops, LogFollows
<1>4. CASE Delete(u)
  <2>1. PICK x \in Resources :
          /\ DeleteResource(u, x)
          /\ taken' = [taken EXCEPT ![u] = Append(@, x)]
          /\ \/ /\ removed' = [removed EXCEPT ![u] = Append(@, x)]
                /\ UNCHANGED cpc
             \/ cpc' = [cpc EXCEPT ![u] = "audit"] /\ UNCHANGED removed
    BY <1>a, <1>4 DEF Delete
  <2>2. cpc[u] \in {"jobs", "pods", "claims"} /\ u \notin swept
    BY <1>c, <2>1 DEF DeleteResource
  <2>3. Len(taken[u]) = Len(removed[u])
    BY <1>b, <2>2 DEF LogFollows
  <2>4. taken'[u] = Append(taken[u], x) /\ UNCHANGED <<audit, swept>>
    BY <1>a, <1>4, <2>1 DEF Delete
  <2>5. CASE removed'[u] = Append(removed[u], x) /\ cpc'[u] = cpc[u]
    BY <1>b, <1>d, <2>2, <2>3, <2>4, <2>5 DEF LogFollows
  <2>6. CASE removed'[u] = removed[u] /\ cpc'[u] = "audit"
    BY <1>b, <1>d, <2>2, <2>3, <2>4, <2>6 DEF LogFollows
  <2> QED BY <1>a, <2>1, <2>5, <2>6
<1>5. CASE Record(u)
  <2>1. /\ Len(audit[u]) < Len(removed[u])
        /\ audit'[u] = Append(audit[u], removed[u][Len(audit[u]) + 1])
        /\ cpc'[u] = "audit"
        /\ UNCHANGED <<removed, taken, swept>>
    BY <1>a, <1>5 DEF Record
  <2> QED BY <1>b, <1>d, <1>5, <2>1 DEF LogFollows, Record
<1> QED
  BY <1>a, <1>1, <1>2, <1>3, <1>4, <1>5, CleanupOwnSteps DEF CleanupOwnStep

(* However a sweep, its process and its audit end, the audit log is the    *)
(* beginning of what the cluster deleted, in order; a cleanup that nobody  *)
(* cancelled, on a store that works, leaves out at most its last deletion, *)
(* and only if its sweep ended in an error.                                *)
THEOREM AuditFollows == Spec => []AuditFollowsSweep
<1>1. Init => LogsFollow
  BY DEF Init, CleanupInit, LogsFollow, LogFollows
<1>2. TypeOK /\ SweepsFollow /\ LogsFollow /\ [Next]_vars => LogsFollow'
  BY LogsFollowStep
<1>3. TypeOK /\ LogsFollow => AuditFollowsSweep
  <2> SUFFICES ASSUME CleanupTypeOK, LogsFollow, NEW u \in Cleanups
               PROVE  /\ Len(audit[u]) <= Len(taken[u])
                      /\ audit[u] = SubSeq(taken[u], 1, Len(audit[u]))
                      /\ (cpc[u] = "done" /\ u \notin cancelled /\ ~MayFault) =>
                           Len(taken[u]) <= Len(audit[u])
                                            + (IF u \in swept THEN 0 ELSE 1)
    BY DEF AuditFollowsSweep, TypeOK
  <2>1. LogFollows(u)
    BY DEF LogsFollow
  <2>2. audit[u] \in Seq(Resources) /\ taken[u] \in Seq(Resources)
        /\ removed[u] \in Seq(Resources)
    BY DEF CleanupTypeOK
  <2>3. Len(audit[u]) <= Len(taken[u])
    BY <2>1, <2>2 DEF LogFollows
  <2>4. \A i \in 1..Len(audit[u]) : audit[u][i] = taken[u][i]
    BY <2>1, <2>2 DEF LogFollows
  <2>5. audit[u] = SubSeq(taken[u], 1, Len(audit[u]))
    BY <2>2, <2>3, <2>4
  <2>6. ASSUME cpc[u] = "done", u \notin cancelled, ~MayFault
        PROVE  Len(taken[u]) <= Len(audit[u]) + (IF u \in swept THEN 0 ELSE 1)
    <3>1. audit[u] = removed[u]
      BY <2>1, <2>6 DEF LogFollows
    <3>2. CASE u \in swept
      BY <2>1, <2>2, <3>1, <3>2 DEF LogFollows
    <3>3. CASE u \notin swept
      BY <2>1, <2>2, <3>1, <3>3 DEF LogFollows
    <3> QED BY <3>2, <3>3
  <2> QED BY <2>3, <2>5, <2>6
<1> QED BY <1>1, <1>2, <1>3, SweepInvariant, PlaneTypeCorrect, PTL DEF Spec

---------------------------------------------------------------------------
(* The success of a run.  First its Execution, which only its own steps    *)
(* write: Succeeded is what the run polled of every Job it had to poll.    *)

LEMMA RunExecutionSteps ==
  ASSUME TypeInv, [Next]_vars, NEW r \in Runs
  PROVE  executions'[r] = executions[r] \/ OwnStep(r)
<1> USE RunIsTask DEF TypeInv, TypeOK
<1>1. CASE RunActs
  <2>1. PICK q \in Runs : OwnStep(q)
    BY <1>1 DEF RunActs, RunNext, OwnStep
  <2>2. UNCHANGED executions \/ ExecutionWritten(q)
    BY <2>1, RunTables DEF OwnStep
  <2>3. q # r => executions'[r] = executions[r]
    BY <2>2 DEF ExecutionWritten, CreateExecution, UpdatePhase, StoreTypeOK
  <2> QED BY <2>1, <2>3
<1>2. CASE [BrokerNext]_brokerVars
  BY <1>2, BrokerLeavesRuns
<1> QED BY <1>1, <1>2, StepKinds

Verified(r) == HasPostRun(r) => seen[r]["postrun"] # "none"
RunsVerify ==
  \A r \in Runs :
    /\ rpc[r] \in {"finalStatus", "finalPhase"} => Verified(r)
    /\ executions[r].phase = "Succeeded" =>
         rpc[r] \in {"done"} /\ Verified(r) /\ FinalPhase(r) = "Succeeded"

LEMMA RunsVerifyStep ==
  ASSUME TypeInv, RunsVerify, [Next]_vars
  PROVE  RunsVerify'
<1> SUFFICES ASSUME NEW r \in Runs
             PROVE  /\ rpc'[r] \in {"finalStatus", "finalPhase"} => Verified(r)'
                    /\ executions'[r].phase = "Succeeded" =>
                         rpc'[r] \in {"done"} /\ Verified(r)'
                         /\ FinalPhase(r)' = "Succeeded"
  BY DEF RunsVerify
<1> USE RunIsTask DEF TypeInv, TypeOK, RunnerTypeOK, Verified, FinalPhase,
                      HasPostRun, ContinueOnError, RunsVerify
<1>a. executions[r] \in ExecutionRow
  BY DEF StoreTypeOK
<1>1. CASE RunUntouched(r) /\ executions'[r] = executions[r]
  BY <1>1 DEF RunUntouched
<1>2. CASE RunStopped(r) /\ executions'[r] = executions[r]
  BY <1>2 DEF RunStopped, RunLive, RunStoreCall, RunWorking
<1>3. CASE OwnStep(r)
  <2>1. rpc[r] # "done"
    BY <1>3
       DEF OwnStep, RunRequest, RunHandler, RunMark, RunMarkFails,
           RunGoroutine, RunnerCreate, RunnerMarkRunning, RunnerStartExecution,
           Prepare, GetPVC, EnsurePVC, Apply, ApplyStep, Poll, PollStep,
           ApplyAnswerLost, WorkFails, Conflict, MeetsError, RunWorking,
           FinalStatus, FinalizeExecution, RunnerFailStatus, RunnerFailPhase,
           RunnerAborts, RunStoreCall
  <2>2. executions[r].phase # "Succeeded"
    BY <2>1
  <2>3. CASE FinalizeExecution(r)
    <3>1. executions'[r].phase = FinalPhase(r)
      BY <1>a, <2>3 DEF FinalizeExecution, UpdatePhase, StoreTypeOK, ExecutionRow
    <3>2. rpc[r] = "finalPhase" /\ rpc'[r] = "done" /\ UNCHANGED seen
      BY <2>3 DEF FinalizeExecution, RGoto
    <3> QED BY <3>1, <3>2
  <2>4. ASSUME \/ RunnerCreate(r) \/ RunnerStartExecution(r) \/ RunnerFailPhase(r)
        PROVE  /\ executions'[r].phase # "Succeeded"
               /\ rpc'[r] \notin {"finalStatus", "finalPhase"}
    <3>1. CASE RunnerCreate(r)
      <4>1. executions'[r] = [executions[r] EXCEPT !.phase = "Pending"]
        BY <3>1 DEF RunnerCreate, CreateExecution, StoreTypeOK
      <4>2. executions'[r].phase = "Pending"
        BY <1>a, <4>1 DEF ExecutionRow
      <4> QED BY <3>1, <4>2 DEF RunnerCreate, RGoto
    <3>2. CASE RunnerStartExecution(r)
      <4>1. executions'[r].phase = "Running"
        BY <1>a, <3>2
           DEF RunnerStartExecution, UpdatePhase, StoreTypeOK, ExecutionRow
      <4> QED BY <3>2, <4>1 DEF RunnerStartExecution, RGoto
    <3>3. CASE RunnerFailPhase(r)
      <4>1. executions'[r].phase = "Failed"
        BY <1>a, <3>3
           DEF RunnerFailPhase, UpdatePhase, StoreTypeOK, ExecutionRow
      <4> QED BY <3>3, <4>1 DEF RunnerFailPhase, RGoto
    <3> QED BY <2>4, <3>1, <3>2, <3>3
  <2>5. ASSUME NEW k \in Kinds, Poll(r, k)
        PROVE  /\ executions'[r].phase # "Succeeded"
               /\ rpc'[r] \in {"finalStatus", "finalPhase"} => Verified(r)'
    <3>1. PICK s \in {"Succeeded", "Failed"} : seen' = [seen EXCEPT ![r][k] = s]
      BY <2>5 DEF Poll
    <3>2. UNCHANGED executions
      BY <2>5 DEF Poll, storeVars
    <3>3. rpc'[r] = IF k = "main" /\ HasPostRun(r) THEN "applyPost" ELSE "finalStatus"
      BY <2>5 DEF Poll, RGoto, AfterPoll
    <3>4. k = "postrun" => seen'[r]["postrun"] = s
      BY <3>1, UpdateAt
    <3>5. k = "main" \/ k = "postrun"
      BY DEF Kinds
    <3> QED BY <2>2, <3>2, <3>3, <3>4, <3>5
  <2>6. CASE FinalStatus(r)
    BY <2>2, <2>6 DEF FinalStatus, RGoto
  <2>7. ASSUME \/ RunRequest(r) \/ RunHandler(r) \/ RunnerMarkRunning(r)
               \/ Prepare(r) \/ GetPVC(r) \/ EnsurePVC(r)
               \/ \E k \in Kinds : Apply(r, k) \/ ApplyAnswerLost(r, k)
               \/ WorkFails(r) \/ RunnerFailStatus(r) \/ RunnerAborts(r)
        PROVE  /\ UNCHANGED executions
               /\ rpc'[r] \notin {"finalStatus", "finalPhase"}
    BY <2>7
       DEF RunRequest, RunHandler, RunMark, RunMarkFails, RunnerMarkRunning,
           Prepare, GetPVC, EnsurePVC, Apply, PollStep, ApplyAnswerLost,
           WorkFails, RunnerFailStatus, RunnerAborts, storeVars, RGoto
  <2> QED
    BY <1>3, <2>2, <2>3, <2>4, <2>5, <2>6, <2>7
       DEF OwnStep, RunGoroutine
<1> QED BY <1>1, <1>2, <1>3, RunOwnSteps, RunExecutionSteps

---------------------------------------------------------------------------
(* Undisturbed runs: no cleanup that selects the component has been asked  *)
(* for yet, and no Job expires before the run that waits for it has seen   *)
(* it.  Then the name a run polls stays with its own Job, what it saw is   *)
(* what became of that Job, and its claim is there.                        *)

Quiet(c) ==
  ~ShortTTL /\ \A u \in Cleanups : Selects(u, c) => cpc[u] = "idle"
Alone == \A c \in Components : Quiet(c)

\* A sweep never has a Job or claim to delete outside its scope.
ListedInScope ==
  \A u \in Cleanups, c \in Components :
    \/ Claim(c) \in listed[u]
    \/ \E k \in Kinds : Job(c, k) \in listed[u]
    => Selects(u, c)

PollsOwn(r) ==
  \A k \in Kinds : rpc[r] = PollStep(k) => named[Target[r]][k] = r
SeenOwn(r) ==
  \A k \in Kinds : seen[r][k] = "Succeeded" => jobs[r][k] = "Complete"
ClaimReady(r) ==
  (NeedsPVC(r) /\ (rpc[r] = "applyMain" \/ jobs[r]["main"] = "Active")) =>
    Target[r] \in pvcs

KeepsItsOwn(r) == PollsOwn(r) /\ SeenOwn(r) /\ ClaimReady(r)
QuietRuns == \A r \in Runs : Quiet(Target[r]) => KeepsItsOwn(r)

LEMMA ListedInScopeStep ==
  ASSUME TypeOK, ListedInScope, [Next]_vars
  PROVE  ListedInScope'
<1> SUFFICES ASSUME NEW u \in Cleanups, NEW c \in Components,
                    \/ Claim(c) \in listed'[u]
                    \/ \E k \in Kinds : Job(c, k) \in listed'[u]
             PROVE  Selects(u, c)
  BY DEF ListedInScope, Selects, Claim, Job
<1> USE DEF TypeOK, CleanupTypeOK
<1>1. CASE listed'[u] \subseteq listed[u]
  BY <1>1 DEF ListedInScope
<1>2. CASE List(u, "listJobs", "jobs", JobsInScope(u))
  BY <1>2 DEF List, JobsInScope, Job, Claim
<1>3. CASE List(u, "jobs", "pods", PodsInScope(u))
  BY <1>3 DEF List, PodsInScope, Pod, Job, Claim
<1>4. CASE List(u, "pods", "claims", ClaimsInScope(u))
  BY <1>4 DEF List, ClaimsInScope, Job, Claim
<1>5. CASE CleanupOwnStep(u) /\ ~ListResources(u)
  BY <1>1, <1>5
     DEF CleanupOwnStep, CleanupRequest, Delete, SkipPod, SweepFails, SweepEnds,
         Record, CleanupEnds, Cancel
<1> QED
  BY <1>1, <1>2, <1>3, <1>4, <1>5, CleanupOwnSteps
     DEF CleanupUntouched, CleanupKilled, ListResources

\* A cleanup that has been asked for stays so.
LEMMA QuietBefore ==
  ASSUME TypeOK, [Next]_vars, NEW c \in Components, Quiet(c)'
  PROVE  Quiet(c)
<1> SUFFICES ASSUME NEW u \in Cleanups, cpc'[u] = "idle" PROVE cpc[u] = "idle"
  BY DEF Quiet, Selects
<1>1. CASE CleanupOwnStep(u)
  BY <1>1
     DEF CleanupOwnStep, CleanupRequest, ListResources, List, Delete, SkipPod,
         SweepFails, SweepEnds, Record, CleanupEnds, Cancel, CGoto, TypeOK,
         CleanupTypeOK, CleanupStep, CleanupLive, CleanupCluster
<1> QED
  BY <1>1, CleanupOwnSteps
     DEF CleanupUntouched, CleanupKilled, TypeOK

\* A cleanup deletes nothing of a component it does not select.
LEMMA DeletesInScope ==
  ASSUME TypeOK, ListedInScope, NEW u \in Cleanups, Delete(u),
         NEW c \in Components, Quiet(c)
  PROVE  /\ c \in pvcs => c \in pvcs'
         /\ \A k \in Kinds : named'[c][k] = named[c][k]
         /\ jobs' = jobs \/ \E d \in Components, k \in Kinds : DeleteJob(d, k)
<1> USE DEF TypeOK, ClusterTypeOK
<1>1. PICK x \in listed[u] : DeleteResource(u, x)
  BY DEF Delete
<1>2. cpc[u] # "idle"
  BY <1>1 DEF DeleteResource
<1>3. ~Selects(u, c)
  BY <1>2 DEF Quiet
<1>4. \A k \in Kinds : x # Job(c, k) /\ x # Claim(c)
  BY <1>3 DEF ListedInScope
<1>5. ASSUME NEW d \in Components, NEW j \in Kinds, x = Job(d, j), DeleteJob(d, j)
      PROVE  \A k \in Kinds : named'[c][k] = named[c][k]
  <2>1. d # c
    BY <1>4, <1>5
  <2>2. named' = [named EXCEPT ![d][j] = NoTask]
    BY <1>5 DEF DeleteJob
  <2>3. \A k \in Kinds : named'[c][k] = IF c = d /\ k = j THEN NoTask ELSE named[c][k]
    BY <2>2, UpdateAt
  <2> QED BY <2>1, <2>3
<1>6. ASSUME NEW d \in Components, NEW j \in Kinds, DeleteJob(d, j)
      PROVE  UNCHANGED pvcs
  BY <1>6 DEF DeleteJob
<1>7. ASSUME NEW d \in pvcs, x = Claim(d) PROVE d # c
  BY <1>4, <1>7 DEF Kinds
<1> QED BY <1>1, <1>5, <1>6, <1>7 DEF DeleteResource

\* Undisturbed, a name is given up by a Job that expires only.
LEMMA NameKept ==
  ASSUME TypeOK, ListedInScope, [Next]_vars, NEW r \in Runs,
         Quiet(Target[r]), NEW k \in Kinds, rpc[r] = PollStep(k),
         named[Target[r]][k] = r
  PROVE  named'[Target[r]][k] = r
<1> USE RunIsTask DEF TypeOK, ClusterTypeOK
<1>1. ASSUME NEW q \in Runs, NEW j \in Kinds, CreateJob(q, j)
      PROVE  named'[Target[r]][k] = r
  <2>1. /\ named[Target[q]][j] = NoTask
        /\ named' = [named EXCEPT ![Target[q]][j] = q]
    BY <1>1 DEF CreateJob, JobNamed
  <2>2. named'[Target[r]][k] = IF Target[q] = Target[r] /\ j = k
                               THEN q ELSE named[Target[r]][k]
    BY <2>1, UpdateAt
  <2> QED BY <2>1, <2>2
<1>2. ASSUME NEW c \in Components, NEW j \in Kinds, Expires(c, j)
      PROVE  named'[Target[r]][k] = r
  <2>1. /\ rpc[named[c][j]] # PollStep(j)
        /\ named' = [named EXCEPT ![c][j] = NoTask]
    BY <1>2 DEF Expires, JobExpires, Quiet
  <2>2. named'[Target[r]][k] = IF c = Target[r] /\ j = k
                               THEN NoTask ELSE named[Target[r]][k]
    BY <2>1, UpdateAt
  <2> QED BY <2>1, <2>2
<1>3. ASSUME NEW u \in Cleanups, Delete(u)
      PROVE  named'[Target[r]][k] = r
  BY <1>3, DeletesInScope
<1>4. \/ UNCHANGED named
      \/ \E q \in Runs, j \in Kinds : CreateJob(q, j)
      \/ \E c \in Components, j \in Kinds : Expires(c, j)
      \/ \E u \in Cleanups : Delete(u)
  BY ClusterSteps
     DEF clusterVars, EnsurePVC, CreatePVC, Apply, ApplyAnswerLost, PodStarts,
         JobEnds, PodCollected
<1> QED BY <1>1, <1>2, <1>3, <1>4

LEMMA PollsOwnStep ==
  ASSUME TypeOK, ListedInScope, [Next]_vars, NEW r \in Runs,
         Quiet(Target[r]), PollsOwn(r)
  PROVE  PollsOwn(r)'
<1> SUFFICES ASSUME NEW k \in Kinds, rpc'[r] = PollStep(k)
             PROVE  named'[Target[r]][k] = r
  BY DEF PollsOwn, PollStep
<1> USE RunIsTask DEF TypeOK, RunnerTypeOK, ClusterTypeOK
<1>1. CASE rpc[r] = PollStep(k)
  BY <1>1, NameKept DEF PollsOwn
<1>2. ASSUME Apply(r, k) PROVE named'[Target[r]][k] = r
  <2>1. named' = [named EXCEPT ![Target[r]][k] = r]
    BY <1>2 DEF Apply, CreateJob
  <2> QED BY <2>1, UpdateAt
<1>3. ASSUME NEW j \in Kinds, Apply(r, j) PROVE j = k
  <2>1. rpc'[r] = PollStep(j)
    BY <1>3 DEF Apply, RGoto
  <2> QED BY <2>1 DEF PollStep, Kinds
<1>4. CASE OwnStep(r) /\ rpc[r] # PollStep(k) /\ ~\E j \in Kinds : Apply(r, j)
  BY <1>4
     DEF OwnStep, RunRequest, RunHandler, RunMark, RunMarkFails,
         RunGoroutine, RunnerCreate, RunnerMarkRunning, RunnerStartExecution,
         Prepare, GetPVC, EnsurePVC, PollStep, Poll, AfterPoll,
         ApplyAnswerLost, WorkFails, FinalStatus, FinalizeExecution,
         RunnerFailStatus, RunnerFailPhase, RunnerAborts, RGoto
<1>5. CASE RunUntouched(r) \/ RunStopped(r)
  BY <1>1, <1>5 DEF RunUntouched, RunStopped, PollStep
<1> QED BY <1>1, <1>2, <1>3, <1>4, <1>5, RunOwnSteps

LEMMA SeenOwnStep ==
  ASSUME TypeOK, JobsFollow, [Next]_vars, NEW r \in Runs,
         PollsOwn(r), SeenOwn(r)
  PROVE  SeenOwn(r)'
<1> SUFFICES ASSUME NEW k \in Kinds, seen'[r][k] = "Succeeded"
             PROVE  jobs'[r][k] = "Complete"
  BY DEF SeenOwn
<1> USE DEF TypeOK, RunnerTypeOK
<1>1. CASE seen[r][k] = "Succeeded"
  BY <1>1, JobStays DEF SeenOwn
<1>2. CASE seen[r][k] # "Succeeded"
  <2>1. seen'[r] # seen[r]
    BY <1>2
  <2>2. PICK j \in Kinds : Poll(r, j)
    BY <2>1, RunOwnSteps
       DEF RunUntouched, RunStopped, OwnStep, RunRequest, RunHandler, RunMark,
           RunMarkFails, RunGoroutine, RunnerCreate, RunnerMarkRunning,
           RunnerStartExecution, Prepare, GetPVC, EnsurePVC, Apply,
           ApplyAnswerLost, WorkFails, FinalStatus, FinalizeExecution,
           RunnerFailStatus, RunnerFailPhase, RunnerAborts
  <2>3. PICK s \in {"Succeeded", "Failed"} :
          /\ seen' = [seen EXCEPT ![r][j] = s]
          /\ s = "Succeeded" => StatusNamed(Target[r], j) = "Complete"
    BY <2>2 DEF Poll
  <2>4. seen'[r][k] = IF j = k THEN s ELSE seen[r][k]
    BY <2>3, UpdateAt
  <2>5. j = k /\ StatusNamed(Target[r], k) = "Complete"
    BY <1>2, <2>3, <2>4
  <2>6. named[Target[r]][k] = r
    BY <2>2, <2>5 DEF Poll, PollsOwn
  <2>7. jobs[r][k] = "Complete"
    BY <2>5, <2>6 DEF StatusNamed
  <2> QED BY <2>7, JobStays
<1> QED BY <1>1, <1>2

LEMMA ClaimReadyStep ==
  ASSUME TypeOK, JobsFollow, ListedInScope, [Next]_vars, NEW r \in Runs,
         Quiet(Target[r]), ClaimReady(r)
  PROVE  ClaimReady(r)'
<1> SUFFICES ASSUME NeedsPVC(r),
                    rpc'[r] = "applyMain" \/ jobs'[r]["main"] = "Active"
             PROVE  Target[r] \in pvcs'
  BY DEF ClaimReady, NeedsPVC
<1> USE RunIsTask DEF TypeOK, RunnerTypeOK, ClusterTypeOK
<1>1. Target[r] \in pvcs => Target[r] \in pvcs'
  <2>1. ASSUME NEW u \in Cleanups, Delete(u)
        PROVE  Target[r] \in pvcs => Target[r] \in pvcs'
    BY <2>1, DeletesInScope
  <2> QED
    BY <2>1, ClusterSteps
       DEF clusterVars, EnsurePVC, CreatePVC, Apply, ApplyAnswerLost,
           CreateJob, PodStarts, JobEnds, PodCollected, Expires, JobExpires
<1>2. CASE rpc[r] = "applyMain" \/ jobs[r]["main"] = "Active"
  BY <1>1, <1>2 DEF ClaimReady
<1>3. CASE rpc[r] # "applyMain" /\ rpc'[r] = "applyMain"
  <2>1. Prepare(r) \/ GetPVC(r) \/ EnsurePVC(r)
    BY <1>3, RunOwnSteps
       DEF RunUntouched, RunStopped, OwnStep, RunRequest, RunHandler, RunMark,
           RunMarkFails, RunGoroutine, RunnerCreate, RunnerMarkRunning,
           RunnerStartExecution, Apply, Poll, PollStep, AfterPoll,
           ApplyAnswerLost, WorkFails, FinalStatus, FinalizeExecution,
           RunnerFailStatus, RunnerFailPhase, RunnerAborts, RGoto
  <2>2. ~Prepare(r)
    BY <1>3 DEF Prepare, RGoto
  <2>3. CASE GetPVC(r)
    BY <1>1, <1>3, <2>3 DEF GetPVC, RGoto
  <2>4. CASE EnsurePVC(r)
    BY <2>4 DEF EnsurePVC, CreatePVC
  <2> QED BY <2>1, <2>2, <2>3, <2>4
<1>4. CASE /\ rpc[r] # "applyMain"
           /\ jobs[r]["main"] # "Active" /\ jobs'[r]["main"] = "Active"
  <2>1. "main" \in Kinds
    BY DEF Kinds
  <2>2. jobs[r]["main"] = "Absent"
    BY <1>4, <2>1, JobStays
  <2>3. PICK q \in Runs, j \in Kinds : Apply(q, j) \/ ApplyAnswerLost(q, j)
    <3>1. ASSUME NEW q \in Runs, NEW j \in Kinds, JobEnds(q, j)
          PROVE  jobs'[r]["main"] # "Active"
      <4>1. PICK s \in {"Complete", "Failed"} : jobs' = [jobs EXCEPT ![q][j] = s]
        BY <3>1 DEF JobEnds
      <4>2. jobs'[r]["main"] = IF q = r /\ j = "main" THEN s ELSE jobs[r]["main"]
        BY <2>1, <4>1, UpdateAt
      <4> QED BY <1>4, <4>2
    <3>2. ASSUME NEW u \in Cleanups, Delete(u)
          PROVE  jobs'[r]["main"] # "Active"
      <4>1. CASE jobs' = jobs
        BY <1>4, <4>1
      <4>2. ASSUME NEW c \in Components, NEW j \in Kinds, DeleteJob(c, j)
            PROVE  jobs'[r]["main"] # "Active"
        <5> DEFINE q == named[c][j]
                   s == IF jobs[q][j] = "Active" THEN "Deleted" ELSE jobs[q][j]
        <5>1. q \in Runs /\ jobs' = [jobs EXCEPT ![q][j] = s]
          BY <4>2 DEF DeleteJob, JobNamed
        <5>2. s # "Active"
          OBVIOUS
        <5> HIDE DEF q, s
        <5>3. jobs'[r]["main"] = IF q = r /\ j = "main" THEN s ELSE jobs[r]["main"]
          BY <2>1, <5>1, UpdateAt
        <5> QED BY <1>4, <5>2, <5>3
      <4> QED BY <3>2, <4>1, <4>2, DeletesInScope
    <3> QED
      BY <1>4, <3>1, <3>2, ClusterSteps
         DEF clusterVars, EnsurePVC, CreatePVC, PodStarts, PodCollected,
             Expires, JobExpires
  <2>4. jobs' = [jobs EXCEPT ![q][j] = "Active"] /\ rpc[q] = ApplyStep(j)
    BY <2>3 DEF Apply, ApplyAnswerLost, CreateJob
  <2>5. jobs'[r]["main"] = IF q = r /\ j = "main" THEN "Active" ELSE jobs[r]["main"]
    BY <2>1, <2>4, UpdateAt
  <2> QED BY <1>4, <2>4, <2>5 DEF ApplyStep
<1> QED BY <1>2, <1>3, <1>4

LEMMA QuietInvariant == Spec => [](ListedInScope /\ QuietRuns)
<1>1. Init => ListedInScope /\ QuietRuns
  BY DEF Init, ClusterInit, RunnerInit, CleanupInit, ListedInScope, QuietRuns,
         KeepsItsOwn, PollsOwn, SeenOwn, ClaimReady, PollStep, Kinds
<1>2. TypeOK /\ JobsFollow /\ ListedInScope /\ QuietRuns /\ [Next]_vars
        => ListedInScope' /\ QuietRuns'
  <2> SUFFICES ASSUME TypeOK, JobsFollow, ListedInScope, QuietRuns, [Next]_vars,
                      NEW r \in Runs, Quiet(Target[r])'
               PROVE  KeepsItsOwn(r)'
    BY ListedInScopeStep DEF QuietRuns
  <2>1. Quiet(Target[r]) /\ KeepsItsOwn(r)
    BY QuietBefore, RunIsTask DEF QuietRuns
  <2> QED
    BY <2>1, PollsOwnStep, SeenOwnStep, ClaimReadyStep DEF KeepsItsOwn
<1> QED BY <1>1, <1>2, SweepInvariant, PlaneTypeCorrect, PTL DEF Spec

LEMMA RunsVerified == Spec => []RunsVerify
<1>1. Init => RunsVerify
  BY RunIsTask DEF Init, StoreInit, RunnerInit, RunsVerify
<1>2. TypeInv /\ RunsVerify /\ [Next]_vars => RunsVerify'
  BY RunsVerifyStep
<1> QED BY <1>1, <1>2, TypeInvariant, PTL DEF Spec

\* What SuccessIsOwn and JobHasClaim say of one run.
OwnSuccess(r) ==
  executions[r].phase = "Succeeded" =>
    /\ jobs[r]["main"] = "Complete"
    /\ (HasPostRun(r) /\ ~ContinueOnError(r)) => jobs[r]["postrun"] = "Complete"
HasItsClaim(r) ==
  (NeedsPVC(r) /\ jobs[r]["main"] = "Active") => Target[r] \in pvcs

(* Until a cleanup of the component is asked for, its runs never record    *)
(* each other's success, although they share their Jobs' names, and none   *)
(* of their active Jobs is without its claim: whatever builds, crashes,    *)
(* failing calls and cleanups of other components do meanwhile.            *)
THEOREM RunsUndisturbed ==
  Spec => [](\A r \in Runs : Quiet(Target[r]) => OwnSuccess(r) /\ HasItsClaim(r))
<1>1. TypeOK /\ RunsVerify /\ QuietRuns =>
        \A r \in Runs : Quiet(Target[r]) => OwnSuccess(r) /\ HasItsClaim(r)
  <2> SUFFICES ASSUME TypeOK, RunsVerify, QuietRuns, NEW r \in Runs,
                      Quiet(Target[r])
               PROVE  OwnSuccess(r) /\ HasItsClaim(r)
    OBVIOUS
  <2>1. SeenOwn(r) /\ ClaimReady(r)
    BY DEF QuietRuns, KeepsItsOwn
  <2>2. ASSUME executions[r].phase = "Succeeded"
        PROVE  /\ seen[r]["main"] = "Succeeded"
               /\ (HasPostRun(r) /\ ~ContinueOnError(r)) =>
                    seen[r]["postrun"] = "Succeeded"
    <3>1. FinalPhase(r) = "Succeeded" /\ Verified(r)
      BY <2>2 DEF RunsVerify
    <3>2. seen[r]["postrun"] \in {"none", "Succeeded", "Failed"}
      BY DEF TypeOK, RunnerTypeOK, Seen, Kinds
    <3> QED BY <3>1, <3>2 DEF FinalPhase, Verified
  <2>3. OwnSuccess(r)
    BY <2>1, <2>2 DEF SeenOwn, OwnSuccess, Kinds
  <2>4. HasItsClaim(r)
    BY <2>1 DEF ClaimReady, HasItsClaim
  <2> QED BY <2>3, <2>4
<1> QED BY <1>1, QuietInvariant, RunsVerified, PlaneTypeCorrect, PTL

(* Hence an Execution is Succeeded only when the run's own main Job has    *)
(* completed, and its own verification Job unless the component lets that  *)
(* one fail, until the first cleanup.                                      *)
THEOREM SuccessOwned == Spec => [](Alone => SuccessIsOwn)
<1>1. (\A r \in Runs : Quiet(Target[r]) => OwnSuccess(r) /\ HasItsClaim(r))
        => (Alone => SuccessIsOwn)
  BY RunIsTask DEF Alone, OwnSuccess, SuccessIsOwn
<1> QED BY <1>1, RunsUndisturbed, PTL

(* Nor do runs leave an active Job without the claim it mounts, until the  *)
(* first cleanup.                                                          *)
THEOREM ClaimKept == Spec => [](Alone => JobHasClaim)
<1>1. (\A r \in Runs : Quiet(Target[r]) => OwnSuccess(r) /\ HasItsClaim(r))
        => (Alone => JobHasClaim)
  BY RunIsTask DEF Alone, HasItsClaim, JobHasClaim
<1> QED BY <1>1, RunsUndisturbed, PTL

---------------------------------------------------------------------------
(* The component's row, which builds and runs overwrite in turn.  A step   *)
(* of a build writes one of RowForms, a step of a run one of these three.  *)

RunRow(phase, digest, error) == [phase |-> phase, digest |-> digest, error |-> error]

WritesRow(r, c) ==
  /\ Target[r] = c
  /\ \/ /\ rpc[r] \in {"mark", "markRunning"}
        /\ rpc'[r] \in {"create", "startExecution"}
        /\ components'[c] = RunRow("Running", rdigest[r], NoTask)
     \/ /\ rpc[r] = "finalStatus" /\ rpc'[r] = "finalPhase"
        /\ components'[c] = RunRow(FinalPhase(r), rdigest[r], FinalError(r))
     \/ /\ rpc[r] = "failStatus" /\ rpc'[r] = "failPhase"
        /\ components'[c] = RunRow("Failed", rdigest[r], r)

LEMMA RowSteps ==
  ASSUME TypeInv, [Next]_vars, NEW c \in Components
  PROVE  \/ components'[c] = components[c]
         \/ [BrokerNext]_brokerVars
         \/ \E r \in Runs : WritesRow(r, c) /\ OwnStep(r) /\ RunActs
<1> USE RunIsTask DEF TypeInv, TypeOK
<1>1. ASSUME NEW r \in Runs, OwnStep(r), RunActs,
             components'[c] # components[c]
      PROVE  WritesRow(r, c)
  <2>1. \/ RunMark(r) \/ RunnerMarkRunning(r) \/ FinalStatus(r)
        \/ RunnerFailStatus(r)
    BY <1>1
       DEF OwnStep, RunRequest, RunHandler, RunMarkFails, RunGoroutine,
           RunnerCreate, RunnerStartExecution, Prepare, GetPVC, EnsurePVC,
           Apply, Poll, ApplyAnswerLost, WorkFails, FinalizeExecution,
           RunnerFailPhase, RunnerAborts, storeVars
  <2>2. ASSUME NEW phase, NEW error,
               UpdateBuildStatus(Target[r], phase, rdigest[r], error)
        PROVE  Target[r] = c /\ components'[c] = RunRow(phase, rdigest[r], error)
    BY <1>1, <2>2 DEF UpdateBuildStatus, StoreTypeOK, RunRow
  <2>3. CASE RunMark(r) \/ RunnerMarkRunning(r)
    BY <2>2, <2>3 DEF RunMark, RunnerMarkRunning, WritesRow, RGoto, RunnerTypeOK
  <2>4. CASE FinalStatus(r)
    BY <2>2, <2>4 DEF FinalStatus, WritesRow, RGoto, RunnerTypeOK
  <2>5. CASE RunnerFailStatus(r)
    BY <2>2, <2>5 DEF RunnerFailStatus, WritesRow, RGoto, RunnerTypeOK
  <2> QED BY <2>1, <2>3, <2>4, <2>5
<1>2. CASE RunActs
  BY <1>1, <1>2 DEF RunActs, RunNext, OwnStep
<1> QED BY <1>2, StepKinds

LEMMA BrokerRows ==
  ASSUME BrokerTypeOK, [BrokerNext]_brokerVars, NEW c \in Components
  PROVE  \/ components'[c] = components[c]
         \/ /\ components[c].phase = "Absent"
            /\ components'[c].phase = "Pending"
            /\ components'[c].error = components[c].error
         \/ /\ components'[c].phase \in {"Deleted", "Building"}
            /\ components'[c].error = NoTask
         \/ \E b \in Builds : /\ Target[b] = c /\ BrokerBuilt(b)
                              /\ components'[c].phase = "Built"
                              /\ components'[c].digest = result[b].digest
                              /\ components'[c].error = NoTask
         \/ \E b \in Builds : /\ Target[b] = c /\ BrokerFailStatus(b)
                              /\ components'[c].phase = "Failed"
                              /\ components'[c].error = b
<1>1. components[c] \in ComponentRow
  BY DEF BrokerTypeOK, StoreTypeOK
<1>2. /\ [components[c] EXCEPT !.phase = "Pending"].phase = "Pending"
      /\ [components[c] EXCEPT !.phase = "Pending"].error = components[c].error
  BY <1>1 DEF ComponentRow
<1>3. \A phase : (NoRow(phase)).phase = phase /\ (NoRow(phase)).error = NoTask
  BY DEF NoRow
<1>4. CASE \E b \in Builds :
             /\ Target[b] = c /\ BrokerBuilt(b)
             /\ components'[c] = [phase |-> "Built",
                                  digest |-> result[b].digest,
                                  error |-> NoTask]
  BY <1>4
<1>5. CASE \E b \in Builds :
             /\ Target[b] = c /\ BrokerFailStatus(b)
             /\ components'[c] = [phase |-> "Failed", digest |-> NoDigest,
                                  error |-> b]
  BY <1>5
<1>6. CASE /\ components[c].phase = "Absent"
           /\ components'[c] = [components[c] EXCEPT !.phase = "Pending"]
  BY <1>2, <1>6
<1>7. CASE components'[c] \in {NoRow("Deleted"), NoRow("Building")}
  BY <1>3, <1>7
<1> QED BY <1>4, <1>5, <1>6, <1>7, RowForms

\* What OutcomeInv says of each build, runs and cleanups leave alone.
LEMMA RunsLeaveBuilds ==
  ASSUME TypeInv, RunActs, NEW b \in Builds
  PROVE  /\ executions'[b] = executions[b] /\ storeError'[b] = storeError[b]
         /\ UNCHANGED buildVars
<1> USE BuildIsTask, RunIsTask DEF TypeInv, TypeOK
<1>1. PICK r \in Runs : OwnStep(r)
  BY DEF RunActs, RunNext, OwnStep
<1>2. UNCHANGED executions \/ ExecutionWritten(r)
  BY <1>1, RunTables DEF OwnStep
<1>3. UNCHANGED storeError \/ storeError' = [storeError EXCEPT ![r] = rpc[r]]
  BY <1>1, RunTables DEF OwnStep
<1>4. executions'[b] = executions[b]
  BY <1>2 DEF ExecutionWritten, CreateExecution, UpdatePhase, StoreTypeOK
<1> QED BY <1>3, <1>4 DEF StoreTypeOK, RunActs

LEMMA PlaneOutcome == Spec => []OutcomeInv
<1>1. Init => OutcomeInv
  BY BuildIsTask
     DEF OutcomeInv, Init, StoreInit, BuildInit, BuildFollows, ExecutionFollows,
         ImageFollows, DirFollows, BeforeCreate, Opened, AtWork, BuildLive,
         BuildStoreCall, BuildWorking
<1>2. TypeInv /\ OutcomeInv /\ [Next]_vars => OutcomeInv'
  <2> SUFFICES ASSUME TypeInv, OutcomeInv, [Next]_vars PROVE OutcomeInv'
    OBVIOUS
  <2>1. CASE [BrokerNext]_brokerVars
    BY <2>1, OwnStepFollows DEF OutcomeInv, TypeInv, TypeOK, BrokerTypeOK
  <2>2. CASE RunActs
    BY <2>2, RunsLeaveBuilds
       DEF OutcomeInv, BuildFollows, ExecutionFollows, ImageFollows,
           DirFollows, buildVars
  <2> QED BY <2>1, <2>2, StepKinds DEF TypeInv, TypeOK
<1> QED BY <1>1, <1>2, TypeInvariant, PTL DEF Spec

\* A run takes its copy of the digest with its request and keeps it.
LEMMA RunCopies ==
  ASSUME RunnerTypeOK, [Next]_vars, NEW r \in Runs, rpc'[r] # "idle"
  PROVE  RunRequest(r) \/ (rpc[r] # "idle" /\ rdigest'[r] = rdigest[r])
<1>1. CASE RunUntouched(r)
  BY <1>1 DEF RunUntouched
<1>2. CASE RunStopped(r)
  BY <1>2 DEF RunStopped, RunLive, RunStoreCall, RunWorking
<1>3. CASE OwnStep(r) /\ ~RunRequest(r)
  BY <1>3
     DEF OwnStep, RunHandler, RunMark, RunMarkFails, RunGoroutine,
         RunnerCreate, RunnerMarkRunning, RunnerStartExecution, Prepare,
         GetPVC, EnsurePVC, Apply, ApplyStep, Poll, PollStep,
         ApplyAnswerLost, WorkFails, Conflict, MeetsError, RunWorking,
         FinalStatus, FinalizeExecution, RunnerFailStatus,
         RunnerFailPhase, RunnerAborts, RunStoreCall
<1> QED BY <1>1, <1>2, <1>3, RunOwnSteps

LEMMA ImageStep ==
  ASSUME TypeInv, OutcomeInv, ImageWhenNeeded, [Next]_vars
  PROVE  ImageWhenNeeded'
<1> USE RunIsTask DEF TypeInv, TypeOK
<1>1. ASSUME NEW r \in Runs, rpc'[r] # "idle"
      PROVE  rdigest'[r] # NoDigest
  <2>1. CASE RunRequest(r)
    BY <2>1 DEF RunRequest, MayRun, ImageWhenNeeded, RunnerTypeOK
  <2> QED BY <1>1, <2>1, RunCopies DEF ImageWhenNeeded
<1>2. ASSUME NEW c \in Components,
             components'[c].phase \in {"Built", "Running", "Succeeded"}
      PROVE  components'[c].digest # NoDigest
  <2>1. CASE components'[c] = components[c]
    BY <1>2, <2>1 DEF ImageWhenNeeded
  <2>2. ASSUME NEW r \in Runs, WritesRow(r, c)
        PROVE  components'[c].digest # NoDigest
    BY <2>2 DEF WritesRow, RunRow, ImageWhenNeeded
  <2>3. CASE [BrokerNext]_brokerVars
    <3>1. \/ components'[c] = components[c]
          \/ components'[c].phase \in {"Pending", "Deleted", "Building", "Failed"}
          \/ \E b \in Builds : bpc[b] = "built"
                               /\ components'[c].digest = result[b].digest
      BY <2>3, BrokerRows DEF BrokerTypeOK, BrokerBuilt
    <3>2. \A b \in Builds : bpc[b] = "built" => result[b].digest # NoDigest
      BY DEF OutcomeInv, BuildFollows, ImageFollows
    <3> QED BY <1>2, <2>1, <3>1, <3>2
  <2> QED BY <2>1, <2>2, <2>3, RowSteps
<1> QED BY <1>1, <1>2 DEF ImageWhenNeeded

(* Built, Running and Succeeded always come with an image, and a run never *)
(* carries a NULL digest, although builds reset the column at any time.    *)
THEOREM ImagesNeeded == Spec => []ImageWhenNeeded
<1>1. Init => ImageWhenNeeded
  BY DEF Init, StoreInit, RunnerInit, NoRow, ImageWhenNeeded
<1>2. TypeInv /\ OutcomeInv /\ ImageWhenNeeded /\ [Next]_vars => ImageWhenNeeded'
  BY ImageStep
<1> QED BY <1>1, <1>2, TypeInvariant, PlaneOutcome, PTL DEF Spec

\* What SucceededImageRan says of one component.
ImageRan(c) ==
  components[c].phase = "Succeeded" =>
    \E r \in Runs : /\ Target[r] = c
                    /\ Image(r) = components[c].digest
                    /\ jobs[r]["main"] = "Complete"

(* The image a Succeeded component shows is one that some run of it took   *)
(* to completion, until a cleanup of it is asked for: a build that         *)
(* overlaps the run changes the row, never the run's copy of the digest.   *)
THEOREM ShownImageRan ==
  Spec => [](\A c \in Components : Quiet(c) => ImageRan(c))
<1> DEFINE Inv == \A c \in Components : Quiet(c) => ImageRan(c)
<1>1. Init => Inv
  BY DEF Init, StoreInit, NoRow, ImageRan
<1>2. TypeInv /\ JobsFollow /\ QuietRuns /\ Inv /\ [Next]_vars => Inv'
  <2> SUFFICES ASSUME TypeInv, JobsFollow, QuietRuns, Inv, [Next]_vars,
                      NEW c \in Components, Quiet(c)',
                      components'[c].phase = "Succeeded"
               PROVE  \E r \in Runs : /\ Target[r] = c
                                      /\ rdigest'[r] = components'[c].digest
                                      /\ jobs'[r]["main"] = "Complete"
    BY DEF ImageRan, Image
  <2> USE RunIsTask DEF TypeInv, TypeOK
  <2>a. Quiet(c) /\ ImageRan(c)
    BY QuietBefore
  <2>1. ASSUME NEW r \in Runs, jobs[r]["main"] = "Complete"
        PROVE  jobs'[r]["main"] = "Complete" /\ rdigest'[r] = rdigest[r]
    <3>1. "main" \in Kinds
      BY DEF Kinds
    <3>2. rpc[r] \in PastApply("main")
      BY <2>1, <3>1 DEF JobsFollow
    <3>3. ASSUME OwnStep(r) PROVE rdigest'[r] = rdigest[r]
      BY <3>2, <3>3
         DEF PastApply, AfterPost, OwnStep, RunRequest, RunHandler, RunMark,
             RunMarkFails, RunGoroutine, RunnerCreate, RunnerMarkRunning,
             RunnerStartExecution, Prepare, GetPVC, EnsurePVC, Apply, Poll,
             ApplyAnswerLost, WorkFails, FinalStatus, FinalizeExecution,
             RunnerFailStatus, RunnerFailPhase, RunnerAborts
    <3>4. rdigest'[r] = rdigest[r]
      BY <3>3, RunOwnSteps DEF RunUntouched, RunStopped
    <3> QED BY <2>1, <3>1, <3>4, JobStays
  <2>2. CASE components'[c] = components[c]
    BY <2>1, <2>2, <2>a DEF ImageRan, Image
  <2>3. CASE [BrokerNext]_brokerVars
    BY <2>2, <2>3, BrokerRows DEF BrokerTypeOK
  <2>4. ASSUME NEW r \in Runs, WritesRow(r, c)
        PROVE  /\ Target[r] = c /\ rdigest[r] = components'[c].digest
               /\ jobs[r]["main"] = "Complete"
    <3>1. Target[r] = c /\ components'[c] = RunRow(FinalPhase(r), rdigest[r], FinalError(r))
      <4>1. \A digest, error : /\ RunRow("Running", digest, error).phase # "Succeeded"
                               /\ RunRow("Failed", digest, error).phase # "Succeeded"
        BY DEF RunRow
      <4> QED BY <2>4, <4>1 DEF WritesRow
    <3>2. seen[r]["main"] = "Succeeded"
      BY <3>1 DEF RunRow, FinalPhase
    <3> QED BY <2>a, <3>1, <3>2 DEF RunRow, QuietRuns, KeepsItsOwn, SeenOwn, Kinds
  <2> QED BY <2>1, <2>2, <2>3, <2>4, RowSteps
<1> QED
  BY <1>1, <1>2, TypeInvariant, SweepInvariant, QuietInvariant, PTL DEF Spec

(* Hence SucceededImageRan, until the first cleanup.                       *)
THEOREM SucceededImage == Spec => [](Alone => SucceededImageRan)
<1>1. (\A c \in Components : Quiet(c) => ImageRan(c)) => (Alone => SucceededImageRan)
  BY DEF Alone, ImageRan, SucceededImageRan
<1> QED BY <1>1, ShownImageRan, PTL

---------------------------------------------------------------------------
(* The image a Job runs.  The chain of OwnImages goes one link further:    *)
(* the run's copy of the digest.                                           *)

RunImagesOwn ==
  \A r \in Runs : rpc[r] # "idle" => OwnImage(images[rdigest[r]], Target[r])

LEMMA ImagesGrow ==
  ASSUME TypeInv, [Next]_vars
  PROVE  \A digest \in Digests : images[digest] \subseteq images'[digest]
BY StepKinds, ImagesStay DEF TypeInv, TypeOK, BrokerTypeOK, RunActs, buildVars

LEMMA RunImagesStep ==
  ASSUME DisjointTags, TypeInv, ImageWhenNeeded, OwnImages, RunImagesOwn,
         [Next]_vars
  PROVE  OwnImages' /\ RunImagesOwn'
<1> USE RunIsTask DEF TypeInv, TypeOK
<1>1. OwnImages'
  <2>1. CASE [BrokerNext]_brokerVars
    BY <2>1, OwnImagesStep DEF BrokerTypeOK
  <2>2. CASE RunActs /\ ~[BrokerNext]_brokerVars
    <3>1. UNCHANGED <<tags, images, result>>
      BY <2>2 DEF RunActs, buildVars
    <3>2. ASSUME NEW c \in Components, components'[c].digest # NoDigest
          PROVE  OwnImage(images[components'[c].digest], c)
      <4>1. CASE components'[c] = components[c]
        BY <3>2, <4>1 DEF OwnImages, RowsOwn
      <4>2. ASSUME NEW r \in Runs, WritesRow(r, c)
            PROVE  OwnImage(images[components'[c].digest], c)
        <5>1. rpc[r] # "idle" /\ Target[r] = c /\ components'[c].digest = rdigest[r]
          BY <4>2 DEF WritesRow, RunRow
        <5> QED BY <5>1 DEF RunImagesOwn
      <4> QED BY <2>2, <4>1, <4>2, RowSteps
    <3> QED BY <3>1, <3>2 DEF OwnImages, TagsOwn, ResultsOwn, RowsOwn
  <2> QED BY <2>1, <2>2, StepKinds
<1>2. ASSUME NEW r \in Runs, rpc'[r] # "idle"
      PROVE  OwnImage(images'[rdigest'[r]], Target[r])
  <2>1. /\ rdigest'[r] \in Digests
        /\ OwnImage(images[rdigest'[r]], Target[r])
    <3>1. CASE RunRequest(r)
      <4>1. /\ rdigest'[r] = components[Target[r]].digest
            /\ components[Target[r]].digest # NoDigest
            /\ components[Target[r]] \in ComponentRow
        BY <3>1 DEF RunRequest, MayRun, ImageWhenNeeded, RunnerTypeOK, StoreTypeOK
      <4> QED BY <4>1 DEF ComponentRow, OwnImages, RowsOwn
    <3>2. CASE rpc[r] # "idle" /\ rdigest'[r] = rdigest[r]
      BY <3>2 DEF ImageWhenNeeded, RunnerTypeOK, RunImagesOwn
    <3> QED BY <1>2, <3>1, <3>2, RunCopies
  <2> QED BY <2>1, ImagesGrow DEF OwnImage
<1> QED BY <1>1, <1>2 DEF RunImagesOwn

LEMMA ImagesOwned == Spec => [](DisjointTags => OwnImages /\ RunImagesOwn)
<1> DEFINE Inv == DisjointTags => OwnImages /\ RunImagesOwn
<1>1. Init => Inv
  BY DEF Init, StoreInit, BuildInit, RunnerInit, NoRow, OwnImages, TagsOwn,
         ResultsOwn, RowsOwn, RunImagesOwn
<1>2. TypeInv /\ ImageWhenNeeded /\ Inv /\ [Next]_vars => Inv'
  BY RunImagesStep DEF DisjointTags
<1> QED BY <1>1, <1>2, TypeInvariant, ImagesNeeded, PTL DEF Spec

(* When no two components share an image repository, every main Job ever   *)
(* created runs an image built from its own component's source, whatever   *)
(* builds, runs, cleanups and crashes came between the build and the Job.  *)
THEOREM JobImages == Spec => []JobRunsOwnImage
<1>1. JobsFollow /\ (DisjointTags => OwnImages /\ RunImagesOwn) => JobRunsOwnImage
  BY DEF JobsFollow, PastApply, AfterPost, Kinds, RunImagesOwn, OwnImage,
         JobRunsOwnImage, Image
<1> QED BY <1>1, ImagesOwned, SweepInvariant, PTL

(* Nor does a component show an image of another one, although runs write  *)
(* back copies of the digest that they took before later builds.           *)
THEOREM PlaneDigestOwnership == Spec => []DigestIsOwnImage
<1>1. (DisjointTags => OwnImages /\ RunImagesOwn) => DigestIsOwnImage
  BY DEF OwnImages, RowsOwn, OwnImage, DigestIsOwnImage
<1> QED BY <1>1, ImagesOwned, PTL

---------------------------------------------------------------------------
(* Work has an owner.  What BuildBrokerProofs shows of builds holds beside *)
(* runs, which never write Building; for runs the argument is the same.    *)

LEMMA BrokerLeavesErrors ==
  ASSUME StoreTypeOK, [BrokerNext]_brokerVars, NEW r \in Runs
  PROVE  storeError'[r] = storeError[r]
<1>1. ASSUME NEW b \in Builds, NEW call, storeError' = [storeError EXCEPT ![b] = call]
      PROVE  storeError'[r] = storeError[r]
  BY <1>1, RunIsTask, BuildIsTask DEF StoreTypeOK
<1> QED
  BY <1>1
     DEF BrokerNext, StoreNext, CreateComponent, DeleteComponent, BuildNext,
         BuildRequest, BuildHandler, BuildMark, BuildMarkFails, CallFails,
         Broker, BrokerCreate, BrokerMarkBuilding, BrokerStartExecution, Clone,
         BuildRefused, DockerBuildFails, DockerBuild, Inspect, BrokerLog,
         BrokerBuilt, BrokerSucceed, BrokerFailStatus, BrokerFailPhase,
         BrokerAborts, BuildCrash, storeVars, brokerVars

\* Only a run's own step records an error of it, and none is forgotten.
LEMMA RunErrorSteps ==
  ASSUME TypeInv, [Next]_vars, NEW r \in Runs
  PROVE  \/ storeError'[r] = storeError[r]
         \/ OwnStep(r) /\ storeError'[r] # "none"
<1> USE RunIsTask DEF TypeInv, TypeOK
<1>1. CASE RunActs
  <2>1. PICK q \in Runs : OwnStep(q)
    BY <1>1 DEF RunActs, RunNext, OwnStep
  <2>2. \/ UNCHANGED storeError
        \/ /\ storeError' = [storeError EXCEPT ![q] = rpc[q]]
           /\ rpc[q] # "none"
    BY <2>1, RunTables DEF OwnStep, RunStoreCall
  <2> QED BY <2>1, <2>2 DEF StoreTypeOK
<1>2. CASE [BrokerNext]_brokerVars
  BY <1>2, BrokerLeavesErrors
<1> QED BY <1>1, <1>2, StepKinds

LEMMA RunOwnerStep ==
  ASSUME TypeInv, [Next]_vars, NEW r \in Runs, RunOwns(r)
  PROVE  \/ RunOwns(r)'
         \/ components'[Target[r]].phase \in {"Succeeded", "Failed"}
<1> USE RunIsTask DEF TypeInv, TypeOK
<1>1. CASE storeError[r] # "none"
  <2>1. storeError'[r] # "none"
    BY <1>1, RunErrorSteps
  <2> QED BY <2>1 DEF RunOwns
<1>2. CASE RunUntouched(r) /\ storeError'[r] = storeError[r]
  BY <1>2 DEF RunUntouched, RunOwns
<1>3. CASE RunStopped(r)
  BY <1>3 DEF RunStopped, RunOwns
<1>4. CASE OwnStep(r) /\ storeError[r] = "none"
  <2>1. rpc[r] \in (RunLive \ {"mark", "finalPhase", "failPhase"}) \cup {"lost"}
    BY <1>4 DEF RunOwns
  <2>2. CASE FinalStatus(r)
    <3>1. components'[Target[r]].phase = FinalPhase(r)
      BY <2>2 DEF FinalStatus, UpdateBuildStatus, StoreTypeOK
    <3>2. FinalPhase(r) \in {"Succeeded", "Failed"}
      BY <2>2, FinalPhaseType DEF FinalStatus, HasOutcome
    <3> QED BY <3>1, <3>2
  <2>3. CASE RunnerFailStatus(r)
    BY <2>3 DEF RunnerFailStatus, UpdateBuildStatus, StoreTypeOK
  <2>4. CASE RunnerAborts(r)
    <3>1. storeError'[r] = rpc[r] /\ rpc[r] # "none"
      BY <2>4 DEF RunnerAborts, CallFails, StoreTypeOK, RunStoreCall
    <3> QED BY <3>1 DEF RunOwns
  <2>5. CASE \/ RunRequest(r) \/ RunHandler(r)
             \/ FinalizeExecution(r) \/ RunnerFailPhase(r)
    BY <2>1, <2>5
       DEF RunLive, RunStoreCall, RunWorking, RunRequest, RunHandler, RunMark,
           RunMarkFails, FinalizeExecution, RunnerFailPhase
  <2>6. CASE \/ RunnerCreate(r) \/ RunnerMarkRunning(r) \/ RunnerStartExecution(r)
             \/ Prepare(r) \/ GetPVC(r) \/ EnsurePVC(r)
             \/ \E k \in Kinds : Apply(r, k) \/ Poll(r, k) \/ ApplyAnswerLost(r, k)
             \/ WorkFails(r)
    <3> DEFINE Steps == RunLive \ {"mark", "finalPhase", "failPhase"}
    <3>a. \A step : RGoto(r, step) => rpc'[r] = step
      BY DEF RGoto, RunnerTypeOK
    <3>b. {"markRunning", "startExecution", "prepare", "getPVC", "createPVC",
           "applyMain", "pollMain", "applyPost", "pollPost",
           "finalStatus", "failStatus"} \subseteq Steps
      BY DEF RunLive, RunStoreCall, RunWorking
    <3> HIDE DEF Steps
    <3>1. rpc'[r] \in Steps
      BY <2>6, <3>a, <3>b
         DEF RunnerCreate, RunnerMarkRunning, RunnerStartExecution, Prepare,
             GetPVC, EnsurePVC, Apply, PollStep, Poll, AfterPoll,
             ApplyAnswerLost, WorkFails, Kinds
    <3> QED BY <3>1 DEF RunOwns, Steps
  <2> QED BY <1>4, <2>2, <2>3, <2>4, <2>5, <2>6 DEF OwnStep, RunGoroutine
<1> QED BY <1>1, <1>2, <1>3, <1>4, RunOwnSteps, RunErrorSteps

(* A component shows Building or Running only while a task of that kind    *)
(* will still write its status, or was stopped by a crash or a store call: *)
(* builds, runs and cleanups that overlap never leave it so by themselves. *)
THEOREM WorkOwned == Spec => []WorkHasOwner
<1>1. Init => WorkHasOwner
  <2> SUFFICES ASSUME Init, NEW c \in Components
               PROVE  components[c].phase = "Absent"
    BY DEF WorkHasOwner
  <2> QED BY DEF Init, StoreInit, NoRow
<1>2. TypeInv /\ WorkHasOwner /\ [Next]_vars => WorkHasOwner'
  <2> SUFFICES ASSUME TypeInv, WorkHasOwner, [Next]_vars, NEW c \in Components
               PROVE  /\ components'[c].phase = "Building" =>
                           \E b \in Builds : Target[b] = c /\ BuildOwns(b)'
                      /\ components'[c].phase = "Running" =>
                           \E r \in Runs : Target[r] = c /\ RunOwns(r)'
    BY DEF WorkHasOwner
  <2> USE BuildIsTask, RunIsTask DEF TypeInv, TypeOK
  <2>1. \A b \in Builds : (BuildOwns(b) <=> Owner(b)) /\ (BuildOwns(b)' <=> Owner(b)')
    BY DEF BuildOwns, Owner
  <2>2. ASSUME components'[c].phase = "Building"
        PROVE  \E b \in Builds : Target[b] = c /\ Owner(b)'
    <3>1. CASE [BrokerNext]_brokerVars
      <4>1. CASE components[c].phase = "Building"
        <5>1. PICK b \in Builds : Target[b] = c /\ Owner(b)
          BY <2>1, <4>1 DEF WorkHasOwner
        <5> QED BY <2>2, <3>1, <5>1, OwnerStep DEF BrokerTypeOK
      <4> QED BY <2>2, <3>1, <4>1, NewBuilding DEF BrokerTypeOK
    <3>2. CASE RunActs
      <4>1. ASSUME NEW r \in Runs, WritesRow(r, c) PROVE FALSE
        <5>1. rpc[r] = "finalStatus" => FinalPhase(r) # "Building"
          BY FinalPhaseType DEF HasOutcome
        <5> QED BY <2>2, <4>1, <5>1 DEF WritesRow, RunRow
      <4>2. CASE components'[c] = components[c]
        <5>1. PICK b \in Builds : Target[b] = c /\ Owner(b)
          BY <2>1, <2>2, <4>2 DEF WorkHasOwner
        <5> QED BY <3>2, <5>1, RunsLeaveBuilds DEF Owner, buildVars
      <4> QED BY <3>1, <4>1, <4>2, RowSteps
    <3> QED BY <3>1, <3>2, StepKinds
  <2>3. ASSUME components'[c].phase = "Running"
        PROVE  \E r \in Runs : Target[r] = c /\ RunOwns(r)'
    <3>1. CASE components'[c] = components[c]
      <4>1. PICK r \in Runs : Target[r] = c /\ RunOwns(r)
        BY <2>3, <3>1 DEF WorkHasOwner
      <4> QED BY <2>3, <4>1, RunOwnerStep
    <3>2. CASE [BrokerNext]_brokerVars
      BY <2>3, <3>1, <3>2, BrokerRows DEF BrokerTypeOK
    <3>3. ASSUME NEW r \in Runs, WritesRow(r, c)
          PROVE  Target[r] = c /\ RunOwns(r)'
      <4>1. rpc[r] = "finalStatus" => FinalPhase(r) # "Running"
        BY FinalPhaseType DEF HasOutcome
      <4>2. Target[r] = c /\ rpc'[r] \in {"create", "startExecution"}
        BY <2>3, <3>3, <4>1 DEF WritesRow, RunRow
      <4> QED BY <4>2 DEF RunOwns, RunLive, RunStoreCall
    <3> QED BY <3>1, <3>2, <3>3, RowSteps
  <2> QED BY <2>1, <2>2, <2>3
<1> QED BY <1>1, <1>2, TypeInvariant, PTL DEF Spec

---------------------------------------------------------------------------
(* The Execution of a run, as OutcomeInv does it for a build: how far it   *)
(* is at each step of the run.                                             *)

RunAtWork == RunWorking \cup {"finalStatus", "finalPhase", "failStatus",
                              "failPhase"}
RunExecution(r) ==
  /\ rpc[r] \in {"idle", "mark", "create"} => executions[r].phase = "Absent"
  /\ rpc[r] \in {"markRunning", "startExecution"} => executions[r].phase = "Pending"
  /\ rpc[r] \in RunAtWork => executions[r].phase = "Running"
  /\ executions[r].phase \in {"Succeeded", "Failed"} => rpc[r] = "done"
  /\ storeError[r] # "none" => rpc[r] = "done"
RunsFollow == \A r \in Runs : RunExecution(r)

\* A step of a run that writes its Execution, and what it writes.
RunWrites(r) ==
  \/ /\ rpc[r] = "create" /\ rpc'[r] = "markRunning"
     /\ executions'[r].phase = "Pending"
     /\ executions'[r].started = executions[r].started
  \/ /\ rpc[r] = "startExecution" /\ rpc'[r] = "prepare"
     /\ executions'[r].phase = "Running" /\ executions'[r].started
  \/ /\ rpc[r] \in {"finalPhase", "failPhase"} /\ rpc'[r] = "done"
     /\ executions'[r].phase = IF rpc[r] = "failPhase" THEN "Failed"
                                                       ELSE FinalPhase(r)
     /\ executions'[r].started /\ executions'[r].completed

\* A step of a run that leaves its Execution alone, and where it goes.
RunMoves(r) ==
  /\ executions'[r] = executions[r]
  /\ \/ rpc[r] = "idle" /\ rpc'[r] = "mark"
     \/ rpc[r] = "mark" /\ rpc'[r] = "create"
     \/ rpc[r] = "markRunning" /\ rpc'[r] = "startExecution"
     \/ rpc[r] \in RunWorking /\ rpc'[r] \in RunWorking \cup {"finalStatus", "failStatus"}
     \/ rpc[r] = "finalStatus" /\ rpc'[r] = "finalPhase"
     \/ rpc[r] = "failStatus" /\ rpc'[r] = "failPhase"

RunAborted(r) ==
  /\ executions'[r] = executions[r]
  /\ rpc[r] \in RunStoreCall \cup {"mark"} /\ rpc'[r] = "done"
  /\ storeError'[r] # "none"

LEMMA OwnStepForms ==
  ASSUME TypeInv, NEW r \in Runs, OwnStep(r)
  PROVE  \/ RunWrites(r) /\ storeError'[r] = storeError[r]
         \/ RunMoves(r) /\ storeError'[r] = storeError[r]
         \/ RunAborted(r)
<1> USE RunIsTask DEF TypeInv, TypeOK, StoreTypeOK, RunnerTypeOK
<1>a. executions[r] \in ExecutionRow
  OBVIOUS
<1>1. CASE RunMarkFails(r) \/ RunnerAborts(r)
  BY <1>1 DEF RunMarkFails, RunnerAborts, CallFails, RGoto, RunAborted,
              RunStoreCall
<1>2. CASE RunnerCreate(r)
  <2>1. executions'[r] = [executions[r] EXCEPT !.phase = "Pending"]
    BY <1>2 DEF RunnerCreate, CreateExecution
  <2>2. /\ executions'[r].phase = "Pending"
        /\ executions'[r].started = executions[r].started
    BY <1>a, <2>1 DEF ExecutionRow
  <2> QED BY <1>2, <2>2 DEF RunnerCreate, RunWrites, RGoto
<1>3. ASSUME NEW phase, NEW completed, UpdatePhase(r, phase, TRUE, completed)
      PROVE  /\ executions'[r].phase = phase /\ executions'[r].started
             /\ executions'[r].completed = completed
  BY <1>a, <1>3 DEF UpdatePhase, ExecutionRow
<1>4. CASE RunnerStartExecution(r)
  BY <1>3, <1>4 DEF RunnerStartExecution, RunWrites, RGoto
<1>5. CASE FinalizeExecution(r)
  BY <1>3, <1>5 DEF FinalizeExecution, RunWrites, RGoto
<1>6. CASE RunnerFailPhase(r)
  BY <1>3, <1>6 DEF RunnerFailPhase, RunWrites, RGoto
<1>7. CASE \/ RunRequest(r) \/ RunMark(r) \/ RunnerMarkRunning(r)
           \/ FinalStatus(r) \/ RunnerFailStatus(r)
  BY <1>7 DEF RunRequest, RunMark, RunnerMarkRunning, FinalStatus,
              RunnerFailStatus, RGoto, RunMoves, storeVars
<1>8. CASE \/ Prepare(r) \/ GetPVC(r) \/ EnsurePVC(r)
           \/ \E k \in Kinds : Apply(r, k) \/ Poll(r, k) \/ ApplyAnswerLost(r, k)
           \/ WorkFails(r)
  <2>1. rpc[r] \in RunWorking
    BY <1>8 DEF Prepare, GetPVC, EnsurePVC, Apply, ApplyStep, Poll, PollStep,
                ApplyAnswerLost, WorkFails, Conflict, MeetsError, RunWorking
  <2>2. rpc'[r] \in RunWorking \cup {"finalStatus", "failStatus"}
    BY <1>8 DEF Prepare, GetPVC, EnsurePVC, Apply, Poll, PollStep, AfterPoll,
                ApplyAnswerLost, WorkFails, RunWorking, RGoto
  <2>3. UNCHANGED storeVars
    BY <1>8 DEF Prepare, GetPVC, EnsurePVC, Apply, Poll, ApplyAnswerLost,
                WorkFails
  <2> QED BY <2>1, <2>2, <2>3 DEF RunMoves, storeVars
<1> QED
  BY <1>1, <1>2, <1>4, <1>5, <1>6, <1>7, <1>8
     DEF OwnStep, RunHandler, RunGoroutine

LEMMA RunsFollowStep ==
  ASSUME TypeInv, RunsFollow, [Next]_vars
  PROVE  RunsFollow'
<1> SUFFICES ASSUME NEW r \in Runs PROVE RunExecution(r)'
  BY DEF RunsFollow
<1> USE DEF RunExecution, RunAtWork, RunWorking
<1>1. RunExecution(r)
  BY DEF RunsFollow
<1>2. CASE /\ RunUntouched(r) /\ executions'[r] = executions[r]
           /\ storeError'[r] = storeError[r]
  BY <1>1, <1>2 DEF RunUntouched
<1>3. CASE /\ RunStopped(r) /\ executions'[r] = executions[r]
           /\ storeError'[r] = storeError[r]
  BY <1>1, <1>3 DEF RunStopped, RunLive, RunStoreCall
<1>4. CASE RunWrites(r) /\ storeError'[r] = storeError[r]
  <2>1. rpc[r] = "finalPhase" => FinalPhase(r) \in {"Succeeded", "Failed"}
    BY FinalPhaseType DEF TypeInv, TypeOK, HasOutcome
  <2> QED BY <1>1, <1>4, <2>1 DEF RunWrites
<1>5. CASE RunMoves(r) /\ storeError'[r] = storeError[r]
  BY <1>1, <1>5 DEF RunMoves
<1>6. CASE RunAborted(r)
  BY <1>1, <1>6 DEF RunAborted, RunStoreCall
<1> QED
  BY <1>2, <1>3, <1>4, <1>5, <1>6, RunOwnSteps, OwnStepForms,
     RunExecutionSteps, RunErrorSteps DEF TypeInv, TypeOK

LEMMA RunsFollowed == Spec => []RunsFollow
<1>1. Init => RunsFollow
  BY RunIsTask DEF Init, StoreInit, RunnerInit, RunsFollow, RunExecution,
                   RunAtWork, RunWorking
<1>2. TypeInv /\ RunsFollow /\ [Next]_vars => RunsFollow'
  BY RunsFollowStep
<1> QED BY <1>1, <1>2, TypeInvariant, PTL DEF Spec

(* The history of every Execution, a build's or a run's, only moves        *)
(* forward, and a start time once recorded is never lost.                  *)
THEOREM PlaneMovesForward == Spec => ExecutionMovesForward
<1> DEFINE Forward ==
      \A t \in Tasks : executions'[t] # executions[t] =>
        LET old == executions[t]  new == executions'[t] IN
        /\ old.phase \notin {"Succeeded", "Failed"}
        /\ new.phase = "Pending" => old.phase = "Absent"
        /\ new.phase = "Running" => old.phase \in {"Pending", "Running"}
        /\ new.phase \in {"Succeeded", "Failed"} =>
             old.phase = "Running" /\ new.completed
        /\ old.started => new.started
<1>1. TypeInv /\ OutcomeInv /\ RunsFollow /\ [Next]_vars => [Forward]_executions
  <2> SUFFICES ASSUME TypeInv, OutcomeInv, RunsFollow, [Next]_vars PROVE Forward
    OBVIOUS
  <2>1. CASE [BrokerNext]_brokerVars
    BY <2>1, WriteForward DEF TypeInv, TypeOK, BrokerTypeOK
  <2>2. CASE RunActs /\ ~[BrokerNext]_brokerVars
    <3> SUFFICES ASSUME NEW r \in Runs, executions'[r] # executions[r]
                 PROVE  LET old == executions[r]  new == executions'[r] IN
                        /\ old.phase \notin {"Succeeded", "Failed"}
                        /\ new.phase = "Pending" => old.phase = "Absent"
                        /\ new.phase = "Running" => old.phase \in {"Pending", "Running"}
                        /\ new.phase \in {"Succeeded", "Failed"} =>
                             old.phase = "Running" /\ new.completed
                        /\ old.started => new.started
      BY <2>2, RunsLeaveBuilds DEF Tasks
    <3>1. RunWrites(r)
      BY RunExecutionSteps, OwnStepForms DEF RunMoves, RunAborted
    <3>2. RunExecution(r)
      BY DEF RunsFollow
    <3>3. rpc[r] = "finalPhase" => FinalPhase(r) \in {"Succeeded", "Failed"}
      BY FinalPhaseType DEF TypeInv, TypeOK, HasOutcome
    <3> QED BY <3>1, <3>2, <3>3 DEF RunWrites, RunExecution, RunAtWork
  <2> QED BY <2>1, <2>2, StepKinds DEF TypeInv, TypeOK
<1>2. ExecutionMovesForward <=> [][Forward]_executions
  BY DEF ExecutionMovesForward
<1> HIDE DEF Forward
<1> QED
  BY <1>1, <1>2, TypeInvariant, PlaneOutcome, RunsFollowed, PTL DEF Spec

---------------------------------------------------------------------------
(* A verdict has a cause.  That the Execution of a task agrees with it is  *)
(* stable, and so is the image the task has got: only the task's own steps *)
(* and a crash touch them.                                                 *)

Verdicts == {"Succeeded", "Failed"}

LEMMA RunAgreesStays ==
  ASSUME TypeInv, RunsFollow, [Next]_vars, NEW r \in Runs,
         NEW verdict \in Verdicts, Agrees(r, verdict)
  PROVE  Agrees(r, verdict)' /\ rdigest'[r] = rdigest[r]
<1>a. r \notin Builds
  BY RunIsTask
<1>b. RunExecution(r)
  BY DEF RunsFollow
<1>1. rpc[r] \in {"finalPhase", "failPhase", "lost", "done"}
  BY <1>a, <1>b DEF Agrees, RunExecution, Verdicts
<1>2. rdigest'[r] = rdigest[r]
  BY <1>1, RunCopies, RunOwnSteps
     DEF RunUntouched, RunStopped, TypeInv, TypeOK, OwnStep, RunRequest,
         RunHandler, RunMark, RunMarkFails, RunGoroutine, RunnerCreate,
         RunnerMarkRunning, RunnerStartExecution, Prepare, GetPVC, EnsurePVC,
         Apply, Poll, ApplyAnswerLost, WorkFails, FinalStatus,
         FinalizeExecution, RunnerFailStatus, RunnerFailPhase, RunnerAborts
<1>3. CASE /\ RunUntouched(r) /\ executions'[r] = executions[r]
           /\ storeError'[r] = storeError[r]
  BY <1>2, <1>3, <1>a DEF RunUntouched, Agrees, FinalPhase
<1>4. CASE RunStopped(r) /\ executions'[r] = executions[r]
  <2>1. executions[r].phase \in {verdict, "Running"}
    BY DEF Agrees
  <2> QED BY <1>2, <1>4, <2>1 DEF RunStopped, Agrees
<1>5. CASE RunWrites(r)
  <2>1. rpc[r] \in {"finalPhase", "failPhase"} => /\ executions[r].phase = "Running"
                                                /\ storeError[r] = "none"
    BY <1>b DEF RunExecution, RunAtWork
  <2>2. /\ rpc[r] = "finalPhase" => FinalPhase(r) = verdict
        /\ rpc[r] = "failPhase" => verdict = "Failed"
    BY <1>a, <2>1 DEF Agrees, Verdicts
  <2>3. executions'[r].phase = verdict
    BY <1>1, <1>5, <2>2 DEF RunWrites
  <2> QED BY <1>2, <2>3 DEF Agrees
<1>6. CASE RunAborted(r)
  <2>1. executions[r].phase \in {verdict, "Running"}
    BY DEF Agrees
  <2> QED BY <1>2, <1>6, <2>1 DEF RunAborted, Agrees
<1>7. ~RunMoves(r)
  BY <1>1 DEF RunMoves, RunWorking
<1> QED
  BY <1>3, <1>4, <1>5, <1>6, <1>7, RunOwnSteps, OwnStepForms,
     RunExecutionSteps, RunErrorSteps DEF TypeInv, TypeOK

LEMMA BuildAgreesStays ==
  ASSUME BrokerTypeOK, OutcomeInv, [BrokerNext]_brokerVars,
         NEW b \in Builds, NEW verdict \in Verdicts, Agrees(b, verdict)
  PROVE  Agrees(b, verdict)' /\ result'[b] = result[b]
<1> USE BuildIsTask DEF BrokerTypeOK, StoreTypeOK, BuildTypeOK
<1>a. b \notin Runs
  BY StoreAssumption
<1>b. ExecutionFollows(b)
  BY DEF OutcomeInv, BuildFollows
<1>1. bpc[b] \in {"succeed", "failPhase", "lost", "done"}
  BY <1>a, <1>b DEF Agrees, ExecutionFollows, Verdicts
<1>2. bpc[b] \in {"succeed", "failPhase"} =>
        /\ executions[b].phase = "Running"
        /\ verdict = IF bpc[b] = "failPhase" THEN "Failed" ELSE "Succeeded"
  BY <1>a, <1>b DEF Agrees, ExecutionFollows, AtWork, Verdicts
<1>3. executions[b].phase \in {verdict, "Running"}
  BY DEF Agrees
<1>4. CASE Untouched(b)
  BY <1>4, <1>a DEF Untouched, Agrees
<1>5. CASE BuildCrash
  <2>1. /\ bpc'[b] = bpc[b] \/ bpc'[b] = "lost"
        /\ UNCHANGED <<executions, storeError, result>>
    BY <1>5 DEF BuildCrash, BuildsLost, storeVars
  <2> QED BY <1>3, <1>a, <2>1 DEF Agrees
<1>6. CASE BrokerFailPhase(b) \/ BrokerSucceed(b)
  <2>1. CASE BrokerFailPhase(b)
    <3>1. verdict = "Failed"
      BY <1>2, <2>1 DEF BrokerFailPhase
    <3>2. executions'[b].phase = "Failed" /\ UNCHANGED result
      BY <2>1 DEF BrokerFailPhase, UpdatePhase
    <3> QED BY <3>1, <3>2 DEF Agrees
  <2>2. CASE BrokerSucceed(b)
    <3>1. verdict = "Succeeded"
      BY <1>2, <2>2 DEF BrokerSucceed
    <3>2. executions'[b].phase = "Succeeded" /\ UNCHANGED result
      BY <2>2 DEF BrokerSucceed, UpdatePhase
    <3> QED BY <3>1, <3>2 DEF Agrees
  <2> QED BY <1>6, <2>1, <2>2
<1>7. CASE BrokerAborts(b)
  <2>1. storeError'[b] # "none" /\ UNCHANGED <<executions, result>>
    BY <1>7 DEF BrokerAborts, CallFails, BuildStoreCall
  <2> QED BY <1>3, <2>1 DEF Agrees
<1> QED
  BY OwnSteps, <1>1, <1>4, <1>5, <1>6, <1>7
     DEF BuildRequest, BuildHandler, BuildMark, BuildMarkFails, Broker,
         BrokerCreate, BrokerMarkBuilding, BrokerStartExecution, Clone,
         BuildRefused, DockerBuildFails, DockerBuild, Inspect, BrokerLog,
         BrokerBuilt, BrokerFailStatus

\* VerdictHasCause, one component and one verdict at a time.
FailedRow(c) ==
  IF components[c].phase = "Failed"
  THEN /\ components[c].error \in Tasks /\ Target[components[c].error] = c
       /\ Agrees(components[c].error, "Failed")
  ELSE components[c].error = NoTask
BuiltRow(c) ==
  components[c].phase = "Built" =>
    \E b \in Builds : /\ Target[b] = c /\ result[b].digest = components[c].digest
                      /\ Agrees(b, "Succeeded")
SucceededRow(c) ==
  components[c].phase = "Succeeded" =>
    \E r \in Runs : /\ Target[r] = c /\ rdigest[r] = components[c].digest
                    /\ Agrees(r, "Succeeded")
VerdictRow(c) == FailedRow(c) /\ BuiltRow(c) /\ SucceededRow(c)

\* What a build, or a run, that writes a verdict leaves behind.
LEMMA BuildSettles ==
  ASSUME BrokerTypeOK, OutcomeInv, NEW b \in Builds,
         BrokerFailStatus(b) \/ BrokerBuilt(b)
  PROVE  /\ BrokerFailStatus(b) => Agrees(b, "Failed")'
         /\ BrokerBuilt(b) => Agrees(b, "Succeeded")' /\ UNCHANGED result
<1>1. executions'[b].phase = "Running" /\ UNCHANGED result
  BY DEF BrokerFailStatus, BrokerBuilt, OutcomeInv, BuildFollows,
         ExecutionFollows, AtWork
<1>2. /\ BrokerFailStatus(b) => bpc'[b] = "failPhase"
      /\ BrokerBuilt(b) => bpc'[b] = "succeed"
  BY DEF BrokerFailStatus, BrokerBuilt, Goto, BrokerTypeOK, BuildTypeOK
<1> QED BY <1>1, <1>2 DEF Agrees

LEMMA RunSettles ==
  ASSUME TypeInv, RunsFollow, NEW r \in Runs, OwnStep(r),
         \/ rpc[r] = "finalStatus" /\ rpc'[r] = "finalPhase"
         \/ rpc[r] = "failStatus" /\ rpc'[r] = "failPhase"
  PROVE  /\ rpc[r] = "failStatus" => Agrees(r, "Failed")'
         /\ \A verdict \in Verdicts :
              rpc[r] = "finalStatus" /\ FinalPhase(r) = verdict =>
                Agrees(r, verdict)'
         /\ rdigest'[r] = rdigest[r]
<1>1. executions'[r].phase = "Running"
  BY OwnStepForms DEF RunWrites, RunMoves, RunAborted, RunsFollow,
                      RunExecution, RunAtWork
<1>2. UNCHANGED <<seen, rdigest>>
  BY DEF OwnStep, RunRequest, RunHandler, RunMark, RunMarkFails, RunGoroutine,
         RunnerCreate, RunnerMarkRunning, RunnerStartExecution, Prepare,
         GetPVC, EnsurePVC, Apply, ApplyStep, Poll, PollStep, ApplyAnswerLost,
         WorkFails, Conflict, MeetsError, RunWorking, FinalStatus,
         FinalizeExecution, RunnerFailStatus, RunnerFailPhase, RunnerAborts
<1>3. FinalPhase(r)' = FinalPhase(r)
  BY <1>2 DEF FinalPhase
<1> QED BY <1>1, <1>2, <1>3 DEF Agrees

LEMMA VerdictStep ==
  ASSUME TypeInv, OutcomeInv, RunsFollow, [Next]_vars,
         NEW c \in Components, VerdictRow(c)
  PROVE  VerdictRow(c)'
<1> USE DEF Verdicts
<1>a. BrokerTypeOK
  BY DEF TypeInv, TypeOK, BrokerTypeOK
<1>b. ASSUME NEW b \in Builds, NEW verdict \in Verdicts, Agrees(b, verdict)
      PROVE  Agrees(b, verdict)' /\ result'[b] = result[b]
  <2>1. CASE [BrokerNext]_brokerVars
    BY <1>a, <1>b, <2>1, BuildAgreesStays
  <2>2. CASE RunActs
    <3>1. /\ executions'[b] = executions[b] /\ storeError'[b] = storeError[b]
          /\ bpc'[b] = bpc[b] /\ result'[b] = result[b]
      BY <2>2, RunsLeaveBuilds DEF buildVars
    <3>2. b \notin Runs
      BY StoreAssumption
    <3> QED BY <1>b, <3>1, <3>2 DEF Agrees
  <2> QED BY <2>1, <2>2, StepKinds DEF TypeInv, TypeOK
<1>1. CASE components'[c] = components[c]
  <2>1. FailedRow(c)'
    BY <1>1, <1>b, RunAgreesStays DEF VerdictRow, FailedRow, Tasks
  <2>2. BuiltRow(c)'
    BY <1>1, <1>b DEF VerdictRow, BuiltRow
  <2>3. SucceededRow(c)'
    BY <1>1, RunAgreesStays DEF VerdictRow, SucceededRow
  <2> QED BY <2>1, <2>2, <2>3 DEF VerdictRow
<1>2. CASE [BrokerNext]_brokerVars
  <2>1. ASSUME NEW b \in Builds, Target[b] = c, BrokerFailStatus(b),
               components'[c].phase = "Failed", components'[c].error = b
        PROVE  VerdictRow(c)'
    BY <1>a, <2>1, BuildSettles, BuildIsTask
       DEF VerdictRow, FailedRow, BuiltRow, SucceededRow
  <2>2. ASSUME NEW b \in Builds, Target[b] = c, BrokerBuilt(b),
               components'[c].phase = "Built",
               components'[c].digest = result[b].digest,
               components'[c].error = NoTask
        PROVE  VerdictRow(c)'
    BY <1>a, <2>2, BuildSettles
       DEF VerdictRow, FailedRow, BuiltRow, SucceededRow
  <2>3. CASE /\ components[c].phase = "Absent"
             /\ components'[c].phase = "Pending"
             /\ components'[c].error = components[c].error
    BY <2>3 DEF VerdictRow, FailedRow, BuiltRow, SucceededRow
  <2>4. CASE /\ components'[c].phase \in {"Deleted", "Building"}
             /\ components'[c].error = NoTask
    BY <2>4 DEF VerdictRow, FailedRow, BuiltRow, SucceededRow
  <2> QED BY <1>1, <1>2, <1>a, <2>1, <2>2, <2>3, <2>4, BrokerRows
<1>3. ASSUME NEW r \in Runs, WritesRow(r, c), OwnStep(r)
      PROVE  VerdictRow(c)'
  <2>1. \A phase, digest, error :
          /\ RunRow(phase, digest, error).phase = phase
          /\ RunRow(phase, digest, error).digest = digest
          /\ RunRow(phase, digest, error).error = error
    BY DEF RunRow
  <2>2. CASE rpc[r] \in {"mark", "markRunning"}
    <3>1. components'[c].phase = "Running" /\ components'[c].error = NoTask
      BY <1>3, <2>1, <2>2 DEF WritesRow
    <3> QED BY <3>1 DEF VerdictRow, FailedRow, BuiltRow, SucceededRow
  <2>3. CASE rpc[r] = "failStatus"
    <3>1. /\ components'[c].phase = "Failed" /\ components'[c].error = r
          /\ Target[r] = c /\ rpc'[r] = "failPhase"
      BY <1>3, <2>1, <2>3 DEF WritesRow
    <3>2. Agrees(r, "Failed")'
      BY <1>3, <2>3, <3>1, RunSettles
    <3> QED BY <3>1, <3>2, RunIsTask DEF VerdictRow, FailedRow, BuiltRow, SucceededRow
  <2>4. CASE rpc[r] = "finalStatus"
    <3>1. /\ components'[c].phase = FinalPhase(r)
          /\ components'[c].digest = rdigest[r]
          /\ components'[c].error = FinalError(r)
          /\ Target[r] = c /\ rpc'[r] = "finalPhase"
      BY <1>3, <2>1, <2>4 DEF WritesRow
    <3>2. FinalPhase(r) \in Verdicts
      BY <2>4, FinalPhaseType DEF TypeInv, TypeOK, HasOutcome
    <3>3. PICK verdict \in Verdicts : FinalPhase(r) = verdict
      BY <3>2
    <3>4. Agrees(r, verdict)' /\ rdigest'[r] = rdigest[r]
      BY <1>3, <2>4, <3>1, <3>3, RunSettles
    <3>5. FailedRow(c)'
      BY <3>1, <3>3, <3>4, RunIsTask DEF FailedRow, FinalError
    <3>6. BuiltRow(c)' /\ SucceededRow(c)'
      BY <3>1, <3>3, <3>4 DEF BuiltRow, SucceededRow
    <3> QED BY <3>5, <3>6 DEF VerdictRow
  <2> QED BY <1>3, <2>2, <2>3, <2>4 DEF WritesRow
<1> QED BY <1>1, <1>2, <1>3, RowSteps

(* Every verdict is that of a task of the component: a Failed component    *)
(* names it, a Built or Succeeded one shows its image, and its Execution   *)
(* agrees, is about to, or was left open by a crash or a store call; no    *)
(* other phase shows an error, whoever wrote the row before.               *)
THEOREM VerdictsExplained == Spec => []VerdictHasCause
<1> DEFINE Inv == \A c \in Components : VerdictRow(c)
<1>1. Init => Inv
  <2> SUFFICES ASSUME Init, NEW c \in Components
               PROVE  components[c].phase = "Absent" /\ components[c].error = NoTask
    BY DEF VerdictRow, FailedRow, BuiltRow, SucceededRow
  <2> QED BY DEF Init, StoreInit, NoRow
<1>2. TypeInv /\ OutcomeInv /\ RunsFollow /\ Inv /\ [Next]_vars => Inv'
  BY VerdictStep
<1>3. Inv => VerdictHasCause
  BY DEF VerdictHasCause, VerdictRow, FailedRow, BuiltRow, SucceededRow, Image
<1> QED
  BY <1>1, <1>2, <1>3, TypeInvariant, PlaneOutcome, RunsFollowed, PTL DEF Spec

---------------------------------------------------------------------------
(* What BuildBrokerProofs shows of builds alone, beside runs and cleanups: *)
(* integrity, what a build leaves behind, which rows show a digest.        *)

\* OnlyEarlyCallsMissTheRow, said of runs.
OnlyEarlyRunCallsMissTheRow ==
  ~MayFault => \A r \in Runs : storeError[r] \in {"none", "mark", "create"}

\* Once its Execution is created, a task is between two writes of it.
LEMMA WorkHasExecution ==
  ASSUME OutcomeInv, RunsFollow
  PROVE  /\ ExecutedPastCreate
         /\ \A r \in Runs : rpc[r] \in RunLive \ {"mark", "create"} => Executed(r)
BY DEF OutcomeInv, BuildFollows, ExecutionFollows, Opened, AtWork, PastCreate,
       BuildStoreCall, BuildWorking, ExecutedPastCreate, RunsFollow,
       RunExecution, RunAtWork, RunLive, RunStoreCall, RunWorking, Executed,
       ExecutionPhase

\* A run opens its Execution beside a row, and keeps the rows there are.
LEMMA RunIntegrity ==
  ASSUME TypeInv, RunsFollow, NoOrphanExecution, RunActs, [Next]_vars,
         ~[BrokerNext]_brokerVars
  PROVE  NoOrphanExecution'
<1> USE RunIsTask, BuildIsTask DEF TypeInv, TypeOK
<1>1. ASSUME NEW c \in Components, Exists(c) PROVE Exists(c)'
  <2>1. ASSUME NEW r \in Runs, WritesRow(r, c)
        PROVE  components'[c].phase \in {"Running", "Succeeded", "Failed"}
    <3>1. rpc[r] = "finalStatus" => FinalPhase(r) \in {"Succeeded", "Failed"}
      BY FinalPhaseType DEF HasOutcome
    <3> QED BY <2>1, <3>1 DEF WritesRow, RunRow
  <2> QED BY <1>1, <2>1, RowSteps DEF Exists, Phase
<1>2. ASSUME NEW t \in Tasks, Executed(t)', ~Executed(t) PROVE Exists(Target[t])
  <2>1. t \in Runs
    BY <1>2, RunsLeaveBuilds DEF Executed, Tasks
  <2>2. OwnStep(t) /\ RunWrites(t)
    BY <1>2, <2>1, RunExecutionSteps, OwnStepForms
       DEF Executed, RunMoves, RunAborted
  <2>3. rpc[t] = "create" /\ rpc'[t] = "markRunning"
    BY <1>2, <2>1, <2>2
       DEF RunsFollow, RunExecution, RunAtWork, RunWrites, Executed, ExecutionPhase
  <2>4. RunnerCreate(t)
    BY <2>2, <2>3
       DEF OwnStep, RunRequest, RunHandler, RunMark, RunMarkFails, RunGoroutine,
           RunnerMarkRunning, RunnerStartExecution, Prepare, GetPVC, EnsurePVC,
           Apply, ApplyStep, Poll, PollStep, ApplyAnswerLost, WorkFails,
           Conflict, MeetsError, RunWorking, FinalStatus, FinalizeExecution,
           RunnerFailStatus, RunnerFailPhase, RunnerAborts, RGoto, RunnerTypeOK
  <2> QED BY <2>4 DEF RunnerCreate, CreateExecution
<1> QED BY <1>1, <1>2, StoreAssumption DEF NoOrphanExecution

(* A call of a run misses no row once its Execution exists.                *)
LEMMA EarlyRunCallStep ==
  ASSUME TypeInv, OutcomeInv, RunsFollow, NoOrphanExecution,
         OnlyEarlyRunCallsMissTheRow, [Next]_vars
  PROVE  OnlyEarlyRunCallsMissTheRow'
<1> SUFFICES ASSUME ~MayFault, NEW r \in Runs,
                    storeError'[r] # storeError[r]
             PROVE  storeError'[r] \in {"none", "mark", "create"}
  BY DEF OnlyEarlyRunCallsMissTheRow
<1> USE RunIsTask DEF TypeInv, TypeOK, StoreTypeOK
<1>1. OwnStep(r)
  BY RunErrorSteps
<1>2. RunMarkFails(r) \/ RunnerAborts(r)
  BY <1>1
     DEF OwnStep, RunRequest, RunHandler, RunMark, RunGoroutine, RunnerCreate,
         RunnerMarkRunning, RunnerStartExecution, Prepare, GetPVC, EnsurePVC,
         Apply, Poll, ApplyAnswerLost, WorkFails, FinalStatus,
         FinalizeExecution, RunnerFailStatus, RunnerFailPhase, storeVars
<1>3. CASE RunMarkFails(r)
  BY <1>3 DEF RunMarkFails, CallFails
<1>4. CASE RunnerAborts(r)
  <2>1. ~Exists(Target[r]) /\ storeError'[r] = rpc[r] /\ rpc[r] \in RunStoreCall
    BY <1>4 DEF RunnerAborts, CallFails
  <2>2. ~Executed(r)
    BY <2>1 DEF NoOrphanExecution
  <2> QED BY <2>1, <2>2, WorkHasExecution DEF RunLive
<1> QED BY <1>2, <1>3, <1>4

(* However deletes, builds, runs, cleanups, failing writes and crashes     *)
(* interleave, an Execution always has its component; and without failing  *)
(* writes only the handler's write and Executions.Create, of a build as of *)
(* a run, can find it gone: every later ErrComponentNotFound is dead code. *)
THEOREM PlaneIntegrity ==
  Spec => [](/\ NoOrphanExecution /\ OnlyEarlyCallsMissTheRow
             /\ OnlyEarlyRunCallsMissTheRow)
<1> DEFINE Inv == /\ NoOrphanExecution /\ OnlyEarlyCallsMissTheRow
                  /\ OnlyEarlyRunCallsMissTheRow
<1>1. Init => Inv
  BY BuildIsTask, RunIsTask
     DEF Init, StoreInit, NoOrphanExecution, Executed, ExecutionPhase,
         OnlyEarlyCallsMissTheRow, OnlyEarlyRunCallsMissTheRow
<1>2. TypeInv /\ OutcomeInv /\ RunsFollow /\ Inv /\ [Next]_vars => Inv'
  <2> SUFFICES ASSUME TypeInv, OutcomeInv, RunsFollow, Inv, [Next]_vars
               PROVE  Inv'
    OBVIOUS
  <2>1. OnlyEarlyRunCallsMissTheRow'
    BY EarlyRunCallStep
  <2>2. CASE [BrokerNext]_brokerVars
    BY <2>1, <2>2, OrphanStep, EarlyCallStep, WorkHasExecution
       DEF TypeInv, TypeOK, BrokerTypeOK
  <2>3. CASE RunActs /\ ~[BrokerNext]_brokerVars
    BY <2>1, <2>3, RunIntegrity, RunsLeaveBuilds DEF OnlyEarlyCallsMissTheRow
  <2> QED BY <2>2, <2>3, StepKinds DEF TypeInv, TypeOK
<1> QED
  BY <1>1, <1>2, TypeInvariant, PlaneOutcome, RunsFollowed, PTL DEF Spec

(* A build's Execution tells its outcome, and its clone directory is gone  *)
(* when it has returned, whatever runs and cleanups do beside it.          *)
THEOREM PlaneBuildOutcomes ==
  Spec => [](ExecutionTellsOutcome /\ CloneDirMatchesBuild)
<1>1. OutcomeInv => ExecutionTellsOutcome /\ CloneDirMatchesBuild
  BY DEF OutcomeInv, BuildFollows, ExecutionFollows, ImageFollows, DirFollows,
         BuildLive, ExecutionTellsOutcome, CloneDirMatchesBuild
<1> QED BY <1>1, PlaneOutcome, PTL

\* The rows without an image: RowsMatch, where runs fail too.
RowsWithoutImage ==
  \A c \in Components :
    (\/ components[c].phase \in {"Absent", "Deleted", "Pending", "Building"}
     \/ components[c].phase = "Failed" /\ components[c].error \in Builds)
    => components[c].digest = NoDigest

(* A build under way, or one that failed, never shows the digest of an     *)
(* earlier build, although a run that took its copy before the build began *)
(* writes that copy back while the build is going on.                      *)
THEOREM PlaneDigestFollowsPhase == Spec => []DigestMatchesPhase
<1>1. Init => RowsWithoutImage
  BY DEF Init, StoreInit, NoRow, RowsWithoutImage
<1>2. TypeInv /\ RowsWithoutImage /\ [Next]_vars => RowsWithoutImage'
  <2> SUFFICES ASSUME TypeInv, RowsWithoutImage, [Next]_vars,
                      NEW c \in Components,
                      \/ components'[c].phase \in
                           {"Absent", "Deleted", "Pending", "Building"}
                      \/ /\ components'[c].phase = "Failed"
                         /\ components'[c].error \in Builds
               PROVE  components'[c].digest = NoDigest
    BY DEF RowsWithoutImage
  <2> USE RunIsTask DEF TypeInv, TypeOK
  <2>1. CASE components'[c] = components[c]
    BY <2>1 DEF RowsWithoutImage
  <2>2. ASSUME NEW r \in Runs, WritesRow(r, c) PROVE FALSE
    <3>1. rpc[r] = "finalStatus" => FinalPhase(r) \in {"Succeeded", "Failed"}
      BY FinalPhaseType DEF HasOutcome
    <3> QED BY <2>2, <3>1, StoreAssumption DEF WritesRow, RunRow, FinalError
  <2>3. CASE [BrokerNext]_brokerVars
    <3>1. components[c] \in ComponentRow
      BY DEF StoreTypeOK
    <3>2. \A b \in Builds :
            components'[c] = [phase |-> "Failed", digest |-> NoDigest, error |-> b]
            => components'[c].digest = NoDigest
      OBVIOUS
    <3>3. CASE /\ components[c].phase = "Absent"
               /\ components'[c] = [components[c] EXCEPT !.phase = "Pending"]
      BY <3>1, <3>3 DEF RowsWithoutImage, ComponentRow
    <3>4. CASE components'[c] \in {NoRow("Deleted"), NoRow("Building")}
      BY <3>4 DEF NoRow
    <3>5. \A b \in Builds :
            components'[c] # [phase |-> "Built", digest |-> result[b].digest,
                              error |-> NoTask]
      OBVIOUS
    <3> QED BY <2>1, <2>3, <3>2, <3>3, <3>4, <3>5, RowForms DEF BrokerTypeOK
  <2> QED BY <2>1, <2>2, <2>3, RowSteps
<1>3. RowsWithoutImage /\ ImageWhenNeeded => DigestMatchesPhase
  BY DEF RowsWithoutImage, ImageWhenNeeded, DigestMatchesPhase
<1> QED BY <1>1, <1>2, <1>3, TypeInvariant, ImagesNeeded, PTL DEF Spec

---------------------------------------------------------------------------
(* What WorkEnds rests on, fairness apart: nobody waits for what cannot    *)
(* come, no task goes on for ever, and what is left when all have ended is *)
(* settled.                                                                *)

\* The steps of the cluster that Jobs and their names know.
LEMMA JobForms ==
  ASSUME [Next]_vars
  PROVE  \/ UNCHANGED <<jobs, named>>
         \/ \E q \in Runs, j \in Kinds : CreateJob(q, j) \/ JobEnds(q, j)
         \/ \E c \in Components, j \in Kinds : DeleteJob(c, j) \/ JobExpires(c, j)
<1>1. ASSUME NEW u \in Cleanups, Delete(u)
      PROVE  \/ UNCHANGED <<jobs, named>>
             \/ \E c \in Components, j \in Kinds : DeleteJob(c, j)
  BY <1>1 DEF Delete, DeleteResource
<1> QED
  BY <1>1, ClusterSteps
     DEF clusterVars, EnsurePVC, CreatePVC, Apply, ApplyAnswerLost, PodStarts,
         PodCollected, Expires

\* An active Job has its name, and who was deleted has none.
NamesFollow ==
  \A r \in Runs, k \in Kinds :
    /\ jobs[r][k] = "Active" => named[Target[r]][k] = r
    /\ jobs[r][k] = "Deleted" => named[Target[r]][k] # r

LEMMA NamesFollowStep ==
  ASSUME TypeOK, JobsFollow, NamesFollow, [Next]_vars
  PROVE  NamesFollow'
<1> SUFFICES ASSUME NEW r \in Runs, NEW k \in Kinds
             PROVE  /\ jobs'[r][k] = "Active" => named'[Target[r]][k] = r
                    /\ jobs'[r][k] = "Deleted" => named'[Target[r]][k] # r
  BY DEF NamesFollow
<1> USE RunIsTask DEF TypeOK, ClusterTypeOK
<1>0. /\ jobs[r][k] = "Active" => named[Target[r]][k] = r
      /\ jobs[r][k] = "Deleted" => named[Target[r]][k] # r
  BY DEF NamesFollow
<1>1. ASSUME NEW q \in Runs, NEW j \in Kinds, CreateJob(q, j)
      PROVE  /\ jobs'[r][k] = "Active" => named'[Target[r]][k] = r
             /\ jobs'[r][k] = "Deleted" => named'[Target[r]][k] # r
  <2>1. named[Target[q]][j] = NoTask
    BY <1>1 DEF CreateJob, JobNamed
  <2>2. jobs'[r][k] = IF q = r /\ j = k THEN "Active" ELSE jobs[r][k]
    BY <1>1, UpdateAt DEF CreateJob
  <2>3. named'[Target[r]][k] = IF Target[q] = Target[r] /\ j = k
                               THEN q ELSE named[Target[r]][k]
    BY <1>1, UpdateAt DEF CreateJob
  <2> QED BY <1>0, <2>1, <2>2, <2>3
<1>2. ASSUME NEW q \in Runs, NEW j \in Kinds, JobEnds(q, j)
      PROVE  /\ jobs'[r][k] = "Active" => named'[Target[r]][k] = r
             /\ jobs'[r][k] = "Deleted" => named'[Target[r]][k] # r
  <2>1. PICK status \in {"Complete", "Failed"} :
          jobs' = [jobs EXCEPT ![q][j] = status]
    BY <1>2 DEF JobEnds
  <2>2. jobs'[r][k] = IF q = r /\ j = k THEN status ELSE jobs[r][k]
    BY <2>1, UpdateAt
  <2> QED BY <1>0, <1>2, <2>2 DEF JobEnds
<1>3. ASSUME NEW c \in Components, NEW j \in Kinds, DeleteJob(c, j)
      PROVE  /\ jobs'[r][k] = "Active" => named'[Target[r]][k] = r
             /\ jobs'[r][k] = "Deleted" => named'[Target[r]][k] # r
  <2> DEFINE q == named[c][j]
             status == IF jobs[q][j] = "Active" THEN "Deleted" ELSE jobs[q][j]
  <2>1. /\ q \in Runs /\ Target[q] = c
        /\ jobs' = [jobs EXCEPT ![q][j] = status]
    BY <1>3 DEF DeleteJob, JobNamed, JobsFollow
  <2>2. jobs'[r][k] = IF q = r /\ j = k THEN status ELSE jobs[r][k]
    <3> HIDE DEF q, status
    <3> QED BY <2>1, UpdateAt
  <2>3. named'[Target[r]][k] =
          IF c = Target[r] /\ j = k THEN NoTask ELSE named[Target[r]][k]
    BY <1>3, UpdateAt DEF DeleteJob
  <2>4. status # "Active"
    OBVIOUS
  <2>5. CASE q = r /\ j = k
    BY <2>1, <2>2, <2>3, <2>4, <2>5
  <2>6. CASE ~(q = r /\ j = k)
    BY <1>0, <2>2, <2>3, <2>6
  <2> QED BY <2>5, <2>6
<1>4. ASSUME NEW c \in Components, NEW j \in Kinds, JobExpires(c, j)
      PROVE  /\ jobs'[r][k] = "Active" => named'[Target[r]][k] = r
             /\ jobs'[r][k] = "Deleted" => named'[Target[r]][k] # r
  <2>1. jobs[named[c][j]][j] # "Active" /\ UNCHANGED jobs
    BY <1>4 DEF JobExpires, StatusNamed
  <2>2. named'[Target[r]][k] =
          IF c = Target[r] /\ j = k THEN NoTask ELSE named[Target[r]][k]
    BY <1>4, UpdateAt DEF JobExpires
  <2> QED BY <1>0, <2>1, <2>2
<1> QED BY <1>0, <1>1, <1>2, <1>3, <1>4, JobForms

LEMMA NamesFollowed == Spec => []NamesFollow
<1>1. Init => NamesFollow
  BY DEF Init, ClusterInit, NamesFollow
<1> QED
  BY <1>1, NamesFollowStep, TypeInvariant, SweepInvariant, PTL
     DEF Spec, TypeInv

\* At most one Job of each kind is active for a component.
OneJobAtATime ==
  \A r1, r2 \in Runs, k \in Kinds :
    /\ Target[r1] = Target[r2]
    /\ jobs[r1][k] = "Active" /\ jobs[r2][k] = "Active"
    => r1 = r2

(* Two runs of a component may be under way at once (NoConcurrentRuns is   *)
(* violated), and cleanups and the TTL free names in between; yet no two   *)
(* of its main Jobs, and no two of its verifications, are ever active at   *)
(* once: the name is the lock that the phase check is not.                 *)
THEOREM JobsExclude == Spec => []OneJobAtATime
<1>1. NamesFollow => OneJobAtATime
  BY DEF NamesFollow, OneJobAtATime
<1> QED BY <1>1, NamesFollowed, PTL

\* The row and the Execution a task has still to write are there, and what it
\* polls for has ended, is gone, or is an active Job, which has a deadline.
NobodyIsStuck ==
  /\ \A b \in Builds : bpc[b] \in PastCreate =>
       Executed(b) /\ Exists(Target[b])
  /\ \A r \in Runs : rpc[r] \in RunLive \ {"mark", "create"} =>
       Executed(r) /\ Exists(Target[r])
  /\ \A r \in Runs, k \in Kinds :
       rpc[r] = PollStep(k) /\ JobNamed(Target[r], k) =>
         StatusNamed(Target[r], k) \in {"Active", "Complete", "Failed"}

(* Whoever deletes rows and Jobs meanwhile, no write of a task that has    *)
(* its Execution can find nothing to write, and the loop of applyAndWait,  *)
(* which has no timeout of its own, never polls an object that will not    *)
(* reach a terminal condition.                                             *)
THEOREM NoTaskIsStuck == Spec => []NobodyIsStuck
<1>1. ASSUME TypeInv, OutcomeInv, RunsFollow, NoOrphanExecution, JobsFollow,
             NamesFollow
      PROVE  NobodyIsStuck
  <2> USE BuildIsTask, RunIsTask DEF TypeInv, TypeOK, ClusterTypeOK
  <2>1. ASSUME NEW t \in Tasks, Executed(t) PROVE Exists(Target[t])
    BY <1>1, <2>1 DEF NoOrphanExecution
  <2>2. ASSUME NEW c \in Components, NEW k \in Kinds, JobNamed(c, k)
        PROVE  StatusNamed(c, k) \in {"Active", "Complete", "Failed"}
    <3>1. PICK r \in Runs : r = named[c][k]
      BY <1>1, <2>2 DEF JobNamed
    <3>2. Target[r] = c /\ jobs[r][k] # "Absent"
      BY <1>1, <2>2, <3>1 DEF JobsFollow
    <3>3. jobs[r][k] # "Deleted"
      BY <1>1, <3>1, <3>2 DEF NamesFollow
    <3>4. jobs[r][k] \in JobStatus
      BY <1>1
    <3> QED BY <3>1, <3>2, <3>3, <3>4 DEF StatusNamed, JobStatus
  <2> QED
    BY <1>1, <2>1, <2>2, WorkHasExecution DEF NobodyIsStuck, ExecutedPastCreate
<1> QED
  BY <1>1, TypeInvariant, PlaneOutcome, RunsFollowed, PlaneIntegrity,
     SweepInvariant, NamesFollowed, PTL

---------------------------------------------------------------------------
\* How many steps a build, or a run, has at most before it.
BuildLeft(step) ==
  CASE step = "idle" -> 12 [] step = "mark" -> 11 [] step = "create" -> 10
    [] step = "markBuilding" -> 9 [] step = "startExecution" -> 8
    [] step = "clone" -> 7 [] step = "build" -> 6 [] step = "inspect" -> 5
    [] step = "log" -> 4 [] step = "built" -> 3 [] step = "failStatus" -> 2
    [] step \in {"succeed", "failPhase"} -> 1 [] OTHER -> 0
RunLeft(step) ==
  CASE step = "idle" -> 14 [] step = "mark" -> 13 [] step = "create" -> 12
    [] step = "markRunning" -> 11 [] step = "startExecution" -> 10
    [] step = "prepare" -> 9 [] step = "getPVC" -> 8 [] step = "createPVC" -> 7
    [] step = "applyMain" -> 6 [] step = "pollMain" -> 5
    [] step = "applyPost" -> 4 [] step = "pollPost" -> 3
    [] step \in {"finalStatus", "failStatus"} -> 2
    [] step \in {"finalPhase", "failPhase"} -> 1 [] OTHER -> 0

LEMMA BuildsLeft ==
  /\ BuildLeft("idle") = 12 /\ BuildLeft("mark") = 11 /\ BuildLeft("create") = 10
  /\ BuildLeft("markBuilding") = 9 /\ BuildLeft("startExecution") = 8
  /\ BuildLeft("clone") = 7 /\ BuildLeft("build") = 6 /\ BuildLeft("inspect") = 5
  /\ BuildLeft("log") = 4 /\ BuildLeft("built") = 3
  /\ BuildLeft("failStatus") = 2 /\ BuildLeft("succeed") = 1
  /\ BuildLeft("failPhase") = 1 /\ BuildLeft("done") = 0 /\ BuildLeft("lost") = 0
BY DEF BuildLeft

LEMMA RunsLeft ==
  /\ RunLeft("idle") = 14 /\ RunLeft("mark") = 13 /\ RunLeft("create") = 12
  /\ RunLeft("markRunning") = 11 /\ RunLeft("startExecution") = 10
  /\ RunLeft("prepare") = 9 /\ RunLeft("getPVC") = 8 /\ RunLeft("createPVC") = 7
  /\ RunLeft("applyMain") = 6 /\ RunLeft("pollMain") = 5
  /\ RunLeft("applyPost") = 4 /\ RunLeft("pollPost") = 3
  /\ RunLeft("finalStatus") = 2 /\ RunLeft("failStatus") = 2
  /\ RunLeft("finalPhase") = 1 /\ RunLeft("failPhase") = 1
  /\ RunLeft("done") = 0 /\ RunLeft("lost") = 0
BY DEF RunLeft

LEMMA BuildDescends ==
  ASSUME BuildTypeOK, NEW b \in Builds,
         BuildRequest(b) \/ BuildHandler(b) \/ Broker(b)
  PROVE  BuildLeft(bpc'[b]) < BuildLeft(bpc[b])
<1>a. \A step : Goto(b, step) => bpc'[b] = step
  BY DEF Goto, BuildTypeOK
<1>b. Return(b) => bpc'[b] = "done"
  BY <1>a DEF Return
<1>1. CASE BuildRequest(b) \/ BuildMark(b) \/ BuildMarkFails(b)
  BY <1>1, <1>a, <1>b, BuildsLeft DEF BuildRequest, BuildMark, BuildMarkFails
<1>2. CASE BrokerCreate(b)
  <2>1. bpc[b] = "create" /\ bpc'[b] = "markBuilding"
    BY <1>2, <1>a DEF BrokerCreate
  <2> QED BY <2>1, BuildsLeft
<1>6. CASE BrokerMarkBuilding(b)
  <2>1. bpc[b] = "markBuilding" /\ bpc'[b] = "startExecution"
    BY <1>6, <1>a DEF BrokerMarkBuilding
  <2> QED BY <2>1, BuildsLeft
<1>7. CASE BrokerStartExecution(b)
  <2>1. bpc[b] = "startExecution" /\ bpc'[b] = "clone"
    BY <1>7, <1>a DEF BrokerStartExecution
  <2> QED BY <2>1, BuildsLeft
<1>3. CASE Clone(b) \/ BuildRefused(b) \/ DockerBuildFails(b)
           \/ DockerBuild(b) \/ Inspect(b)
  BY <1>3, <1>a, BuildsLeft
     DEF Clone, BuildRefused, DockerBuildFails, DockerBuild, Inspect
<1>4. CASE BrokerLog(b) \/ BrokerBuilt(b) \/ BrokerFailStatus(b)
  BY <1>4, <1>a, BuildsLeft DEF BrokerLog, AfterLog, BrokerBuilt, BrokerFailStatus
<1>5. CASE BrokerSucceed(b) \/ BrokerFailPhase(b) \/ BrokerAborts(b)
  <2>1. bpc[b] \in BuildStoreCall /\ bpc'[b] = "done"
    <3>1. CASE BrokerSucceed(b)
      BY <3>1, <1>b DEF BrokerSucceed, BuildStoreCall
    <3>2. CASE BrokerFailPhase(b)
      BY <3>2, <1>b DEF BrokerFailPhase, BuildStoreCall
    <3>3. CASE BrokerAborts(b)
      BY <3>3, <1>b DEF BrokerAborts
    <3> QED BY <1>5, <3>1, <3>2, <3>3
  <2> QED BY <2>1, BuildsLeft DEF BuildStoreCall
<1> QED
  BY <1>1, <1>2, <1>3, <1>4, <1>5, <1>6, <1>7 DEF BuildHandler, Broker

LEMMA RunDescends ==
  ASSUME RunnerTypeOK, NEW r \in Runs, OwnStep(r)
  PROVE  RunLeft(rpc'[r]) < RunLeft(rpc[r])
<1>a. \A step : RGoto(r, step) => rpc'[r] = step
  BY DEF RGoto, RunnerTypeOK
<1>1. CASE RunRequest(r) \/ RunMark(r) \/ RunMarkFails(r)
  BY <1>1, <1>a, RunsLeft DEF RunRequest, RunMark, RunMarkFails
<1>2. CASE RunnerCreate(r)
  <2>1. rpc[r] = "create" /\ rpc'[r] = "markRunning"
    BY <1>2, <1>a DEF RunnerCreate
  <2> QED BY <2>1, RunsLeft
<1>8. CASE RunnerMarkRunning(r)
  <2>1. rpc[r] = "markRunning" /\ rpc'[r] = "startExecution"
    BY <1>8, <1>a DEF RunnerMarkRunning
  <2> QED BY <2>1, RunsLeft
<1>9. CASE RunnerStartExecution(r)
  <2>1. rpc[r] = "startExecution" /\ rpc'[r] = "prepare"
    BY <1>9, <1>a DEF RunnerStartExecution
  <2> QED BY <2>1, RunsLeft
<1>3. CASE Prepare(r) \/ GetPVC(r) \/ EnsurePVC(r)
  BY <1>3, <1>a, RunsLeft DEF Prepare, GetPVC, EnsurePVC
<1>4. ASSUME NEW k \in Kinds, Apply(r, k) \/ Poll(r, k) \/ ApplyAnswerLost(r, k)
      PROVE  RunLeft(rpc'[r]) < RunLeft(rpc[r])
  BY <1>4, <1>a, RunsLeft
     DEF Apply, Poll, ApplyAnswerLost, ApplyStep, PollStep, AfterPoll, Kinds
<1>5. CASE WorkFails(r)
  <2>1. rpc[r] \in RunWorking /\ rpc'[r] = "failStatus"
    BY <1>5, <1>a
       DEF WorkFails, Conflict, MeetsError, ApplyStep, PollStep, Kinds, RunWorking
  <2> QED BY <2>1, RunsLeft DEF RunWorking
<1>6. CASE FinalStatus(r) \/ FinalizeExecution(r)
           \/ RunnerFailStatus(r) \/ RunnerFailPhase(r)
  <2>1. CASE FinalStatus(r)
    <3>1. rpc[r] = "finalStatus" /\ rpc'[r] = "finalPhase"
      BY <2>1, <1>a DEF FinalStatus
    <3> QED BY <3>1, RunsLeft
  <2>2. CASE FinalizeExecution(r)
    <3>1. rpc[r] = "finalPhase" /\ rpc'[r] = "done"
      BY <2>2, <1>a DEF FinalizeExecution
    <3> QED BY <3>1, RunsLeft
  <2>3. CASE RunnerFailStatus(r)
    <3>1. rpc[r] = "failStatus" /\ rpc'[r] = "failPhase"
      BY <2>3, <1>a DEF RunnerFailStatus
    <3> QED BY <3>1, RunsLeft
  <2>4. CASE RunnerFailPhase(r)
    <3>1. rpc[r] = "failPhase" /\ rpc'[r] = "done"
      BY <2>4, <1>a DEF RunnerFailPhase
    <3> QED BY <3>1, RunsLeft
  <2> QED BY <1>6, <2>1, <2>2, <2>3, <2>4
<1>7. CASE RunnerAborts(r)
  BY <1>7, <1>a, RunsLeft DEF RunnerAborts, RunStoreCall
<1> QED
  BY <1>1, <1>2, <1>3, <1>4, <1>5, <1>6, <1>7, <1>8, <1>9
     DEF OwnStep, RunHandler, RunGoroutine

\* A step of a task, and whatever else moves it, brings it nearer its end.
BuildRunsDown(b) ==
  BuildRequest(b) \/ BuildHandler(b) \/ Broker(b) \/ bpc'[b] # bpc[b] =>
    BuildLeft(bpc'[b]) < BuildLeft(bpc[b])
RunRunsDown(r) ==
  RunRequest(r) \/ RunHandler(r) \/ RunGoroutine(r) \/ rpc'[r] # rpc[r] =>
    RunLeft(rpc'[r]) < RunLeft(rpc[r])
WorkRunsDown ==
  [][(\A b \in Builds : BuildRunsDown(b)) /\ (\A r \in Runs : RunRunsDown(r))]_vars

(* No goroutine goes round in circles or is set back by another, by a      *)
(* cleanup or by a crash: a build takes at most twelve calls and a run at  *)
(* most fourteen, not counting the polls that find their Job still active. *)
THEOREM TasksRunDown == Spec => WorkRunsDown
<1> DEFINE Down == (\A b \in Builds : BuildRunsDown(b))
                   /\ (\A r \in Runs : RunRunsDown(r))
<1>1. TypeInv /\ [Next]_vars => Down
  <2> SUFFICES ASSUME TypeInv, [Next]_vars PROVE Down
    OBVIOUS
  <2> USE DEF TypeInv, TypeOK
  <2>1. ASSUME NEW b \in Builds PROVE BuildRunsDown(b)
    <3>1. ASSUME bpc'[b] # bpc[b]
          PROVE  \/ BuildRequest(b) \/ BuildHandler(b) \/ Broker(b)
                 \/ bpc[b] \in BuildLive /\ bpc'[b] = "lost"
      <4>1. CASE [BrokerNext]_brokerVars
        <5>1. BuildCrash => bpc'[b] \in {bpc[b], "lost"}
                            /\ (bpc'[b] = "lost" => bpc[b] \in BuildLive \cup {"lost"})
          BY DEF BuildCrash, BuildsLost, BuildTypeOK
        <5> QED BY <3>1, <4>1, <5>1, OwnSteps DEF Untouched, BrokerTypeOK
      <4>2. CASE RunActs
        BY <3>1, <4>2, RunsLeaveBuilds DEF buildVars
      <4> QED BY <4>1, <4>2, StepKinds
    <3>2. \A step \in BuildLive : 0 < BuildLeft(step)
      BY BuildsLeft DEF BuildLive, BuildStoreCall, BuildWorking
    <3> QED BY <3>1, <3>2, BuildDescends, BuildsLeft DEF BuildRunsDown
  <2>2. ASSUME NEW r \in Runs PROVE RunRunsDown(r)
    <3>1. \A step \in RunLive : 0 < RunLeft(step)
      BY RunsLeft DEF RunLive, RunStoreCall, RunWorking
    <3> QED
      BY <3>1, RunDescends, RunOwnSteps, RunsLeft
         DEF RunRunsDown, OwnStep, RunUntouched, RunStopped
  <2> QED BY <2>1, <2>2
<1>2. WorkRunsDown <=> [][Down]_vars
  BY DEF WorkRunsDown
<1> HIDE DEF Down
<1> QED BY <1>1, <1>2, TypeInvariant, PTL DEF Spec

---------------------------------------------------------------------------
\* A row that was there stays, and one that was deleted stays deleted.
LEMMA RowLasts ==
  ASSUME TypeInv, [Next]_vars, NEW c \in Components
  PROVE  /\ components[c].phase # "Absent" => components'[c].phase # "Absent"
         /\ components[c].phase = "Deleted" => components'[c].phase = "Deleted"
<1> DEFINE Lasts ==
      /\ components[c].phase # "Absent" => components'[c].phase # "Absent"
      /\ components[c].phase = "Deleted" => components'[c].phase = "Deleted"
<1> USE BuildIsTask, RunIsTask DEF TypeInv, TypeOK, StoreTypeOK
<1>1. ASSUME NEW d \in Components, NEW phase, NEW digest, NEW error,
             phase # "Absent", UpdateBuildStatus(d, phase, digest, error)
      PROVE  Lasts
  BY <1>1 DEF UpdateBuildStatus, Exists, Phase
<1>2. CASE [BrokerNext]_brokerVars
  <2>1. ASSUME NEW d \in Components, CreateComponent(d) PROVE Lasts
    <3>1. components'[c].phase \in {components[c].phase, "Pending"}
      BY <2>1 DEF CreateComponent, ComponentRow
    <3>2. components[c].phase = "Deleted" => components'[c] = components[c]
      BY <2>1 DEF CreateComponent
    <3> QED BY <3>1, <3>2
  <2>2. ASSUME NEW d \in Components, DeleteComponent(d) PROVE Lasts
    BY <2>2 DEF DeleteComponent, NoRow
  <2>3. ASSUME NEW b \in Builds,
               \/ BuildMark(b) \/ BrokerMarkBuilding(b)
               \/ BrokerBuilt(b) \/ BrokerFailStatus(b)
        PROVE  Lasts
    BY <1>1, <2>3
       DEF BuildMark, BrokerMarkBuilding, BrokerBuilt, BrokerFailStatus
  <2>4. CASE UNCHANGED components
    BY <2>4
  <2> QED
    BY <1>2, <2>1, <2>2, <2>3, <2>4
       DEF BrokerNext, StoreNext, BuildNext, BuildRequest, BuildHandler,
           BuildMarkFails, Broker, BrokerCreate, BrokerStartExecution, Clone,
           BuildRefused, DockerBuildFails, DockerBuild, Inspect, BrokerLog,
           BrokerSucceed, BrokerFailPhase, BrokerAborts, BuildCrash,
           storeVars, brokerVars
<1>3. ASSUME NEW r \in Runs, OwnStep(r) PROVE Lasts
  <2>1. CASE \/ RunMark(r) \/ RunnerMarkRunning(r) \/ RunnerFailStatus(r)
    BY <1>1, <2>1 DEF RunMark, RunnerMarkRunning, RunnerFailStatus
  <2>2. CASE FinalStatus(r)
    <3>1. FinalPhase(r) # "Absent"
      BY <2>2, FinalPhaseType DEF HasOutcome, FinalStatus
    <3> QED BY <1>1, <2>2, <3>1 DEF FinalStatus
  <2>3. CASE UNCHANGED components
    BY <2>3
  <2> QED
    BY <1>3, <2>1, <2>2, <2>3
       DEF OwnStep, RunRequest, RunHandler, RunMarkFails, RunGoroutine,
           RunnerCreate, RunnerStartExecution, Prepare, GetPVC, EnsurePVC,
           Apply, Poll, ApplyAnswerLost, WorkFails, FinalizeExecution,
           RunnerFailPhase, RunnerAborts, storeVars
<1> QED BY <1>2, <1>3, StepKinds DEF RunActs, RunNext, OwnStep

\* A request finds its component, so the component has been registered.
RequestsKnow ==
  /\ \A b \in Builds : bpc[b] # "idle" => components[Target[b]].phase # "Absent"
  /\ \A r \in Runs : rpc[r] # "idle" => components[Target[r]].phase # "Absent"

LEMMA RequestsKnown == Spec => []RequestsKnow
<1>1. Init => RequestsKnow
  BY DEF Init, BuildInit, RunnerInit, RequestsKnow
<1>2. TypeInv /\ RequestsKnow /\ [Next]_vars => RequestsKnow'
  <2> SUFFICES ASSUME TypeInv, RequestsKnow, [Next]_vars PROVE RequestsKnow'
    OBVIOUS
  <2> USE BuildIsTask, RunIsTask DEF RequestsKnow
  <2>1. ASSUME NEW b \in Builds, bpc'[b] # "idle"
        PROVE  components'[Target[b]].phase # "Absent"
    <3>1. CASE BuildRequest(b)
      BY <3>1 DEF BuildRequest, Exists, Phase, storeVars
    <3>2. CASE bpc[b] # "idle"
      BY <3>2, RowLasts
    <3>3. CASE (BuildHandler(b) \/ Broker(b)) /\ bpc[b] = "idle"
      BY <3>3
         DEF BuildHandler, BuildMark, BuildMarkFails, Broker, BrokerCreate,
             BrokerMarkBuilding, BrokerStartExecution, Clone, BuildRefused,
             DockerBuildFails, DockerBuild, Inspect, BrokerLog, BrokerBuilt,
             BrokerSucceed, BrokerFailStatus, BrokerFailPhase, BrokerAborts,
             BuildStoreCall, BuildWorking
    <3>4. CASE BuildCrash
      BY <2>1, <3>2, <3>4
         DEF BuildCrash, BuildsLost, BuildLive, BuildStoreCall, BuildWorking
    <3>5. CASE [BrokerNext]_brokerVars
      BY <2>1, <3>1, <3>2, <3>3, <3>4, <3>5, OwnSteps
         DEF Untouched, TypeInv, TypeOK, BrokerTypeOK
    <3>6. CASE RunActs
      BY <2>1, <3>2, <3>6, RunsLeaveBuilds DEF buildVars
    <3> QED BY <3>5, <3>6, StepKinds DEF TypeInv, TypeOK
  <2>2. ASSUME NEW r \in Runs, rpc'[r] # "idle"
        PROVE  components'[Target[r]].phase # "Absent"
    <3>1. CASE RunRequest(r)
      BY <3>1 DEF RunRequest, MayRun, storeVars
    <3>2. CASE rpc[r] # "idle"
      BY <3>2, RowLasts
    <3> QED BY <2>2, <3>1, <3>2, RunCopies DEF TypeInv, TypeOK
  <2> QED BY <2>1, <2>2
<1> QED BY <1>1, <1>2, TypeInvariant, PTL DEF Spec

\* While the store works, a call fails only because the row is deleted.
MissedGone ==
  ~MayFault => \A t \in Tasks :
    storeError[t] # "none" => components[Target[t]].phase = "Deleted"

\* A run that has returned leaves its Execution open only after a failed call.
RunsClose ==
  \A r \in Runs :
    rpc[r] = "done" /\ executions[r].phase \in {"Pending", "Running"} =>
      storeError[r] # "none"

LEMMA MissedGoneStep ==
  ASSUME TypeInv, RequestsKnow, MissedGone, [Next]_vars
  PROVE  MissedGone'
<1> SUFFICES ASSUME ~MayFault, NEW t \in Tasks, storeError'[t] # "none"
             PROVE  components'[Target[t]].phase = "Deleted"
  BY DEF MissedGone
<1> USE BuildIsTask, RunIsTask, StoreAssumption DEF TypeInv, TypeOK, StoreTypeOK
<1>1. Target[t] \in Components /\ components[Target[t]] \in ComponentRow
  BY DEF Tasks
<1>2. CASE storeError[t] # "none"
  BY <1>1, <1>2, RowLasts DEF MissedGone
<1>3. ASSUME storeError[t] = "none", NEW u \in Tasks, NEW call,
             CallFails(u, call, ~Exists(Target[u])), UNCHANGED components,
             components[Target[u]].phase # "Absent"
      PROVE  components'[Target[t]].phase = "Deleted"
  <2>1. u = t
    BY <1>3 DEF CallFails
  <2>2. ~Exists(Target[t])
    BY <1>3, <2>1 DEF CallFails
  <2> QED BY <1>1, <1>3, <2>1, <2>2 DEF Exists, ComponentRow, Phase
<1>4. ASSUME NEW b \in Builds, BuildMarkFails(b) \/ BrokerAborts(b),
             storeError[t] = "none"
      PROVE  components'[Target[t]].phase = "Deleted"
  <2>1. bpc[b] # "idle"
    BY <1>4 DEF BuildMarkFails, BrokerAborts, BuildStoreCall
  <2> QED
    BY <1>3, <1>4, <2>1 DEF RequestsKnow, BuildMarkFails, BrokerAborts, Tasks
<1>5. ASSUME NEW r \in Runs, RunMarkFails(r) \/ RunnerAborts(r),
             storeError[t] = "none"
      PROVE  components'[Target[t]].phase = "Deleted"
  <2>1. rpc[r] # "idle"
    BY <1>5 DEF RunMarkFails, RunnerAborts, RunStoreCall
  <2> QED
    BY <1>3, <1>5, <2>1 DEF RequestsKnow, RunMarkFails, RunnerAborts, Tasks
<1>6. CASE [BrokerNext]_brokerVars /\ storeError[t] = "none"
  BY <1>4, <1>6
     DEF BrokerNext, StoreNext, CreateComponent, DeleteComponent, BuildNext,
         BuildRequest, BuildHandler, BuildMark, Broker, BrokerCreate,
         BrokerMarkBuilding, BrokerStartExecution, Clone, BuildRefused,
         DockerBuildFails, DockerBuild, Inspect, BrokerLog, BrokerBuilt,
         BrokerSucceed, BrokerFailStatus, BrokerFailPhase, BuildCrash,
         storeVars, brokerVars
<1>7. ASSUME NEW r \in Runs, OwnStep(r), storeError[t] = "none"
      PROVE  components'[Target[t]].phase = "Deleted"
  BY <1>5, <1>7
     DEF OwnStep, RunRequest, RunHandler, RunMark, RunGoroutine, RunnerCreate,
         RunnerMarkRunning, RunnerStartExecution, Prepare, GetPVC, EnsurePVC,
         Apply, Poll, ApplyAnswerLost, WorkFails, FinalStatus,
         FinalizeExecution, RunnerFailStatus, RunnerFailPhase, storeVars
<1> QED BY <1>2, <1>6, <1>7, StepKinds DEF RunActs, RunNext, OwnStep

LEMMA RunsCloseStep ==
  ASSUME TypeInv, RunsClose, [Next]_vars
  PROVE  RunsClose'
<1> SUFFICES ASSUME NEW r \in Runs, rpc'[r] = "done",
                    executions'[r].phase \in {"Pending", "Running"}
             PROVE  storeError'[r] # "none"
  BY DEF RunsClose
<1>1. CASE /\ RunUntouched(r) /\ executions'[r] = executions[r]
           /\ storeError'[r] = storeError[r]
  BY <1>1 DEF RunUntouched, RunsClose
<1>2. CASE RunWrites(r)
  <2>1. rpc[r] = "finalPhase" => FinalPhase(r) \in {"Succeeded", "Failed"}
    BY FinalPhaseType DEF TypeInv, TypeOK, HasOutcome
  <2> QED BY <1>2, <2>1 DEF RunWrites
<1>3. CASE RunStopped(r) \/ RunMoves(r)
  BY <1>3 DEF RunStopped, RunMoves, RunWorking
<1>4. CASE RunAborted(r)
  BY <1>4 DEF RunAborted
<1> QED
  BY <1>1, <1>2, <1>3, <1>4, RunOwnSteps, OwnStepForms, RunExecutionSteps,
     RunErrorSteps DEF TypeInv, TypeOK

\* No build and no run is under way, and none was stopped by a crash.
Resting ==
  /\ \A b \in Builds : bpc[b] \in {"idle", "done"}
  /\ \A r \in Runs : rpc[r] \in {"idle", "done"}

\* No row and no Execution waits, and every verdict is its task's outcome.
Settled ==
  /\ \A c \in Components :
       LET row == components[c] IN
       /\ row.phase \notin {"Building", "Running"}
       /\ row.phase = "Failed" => executions[row.error].phase = "Failed"
       /\ row.phase = "Built" =>
            \E b \in Builds : /\ Target[b] = c /\ result[b].digest = row.digest
                              /\ executions[b].phase = "Succeeded"
       /\ row.phase = "Succeeded" =>
            \E r \in Runs : /\ Target[r] = c /\ Image(r) = row.digest
                            /\ executions[r].phase = "Succeeded"
  /\ \A t \in Tasks : executions[t].phase \in {"Absent", "Succeeded", "Failed"}

(* Whenever all that was accepted has ended and the store has worked, the  *)
(* plane is settled, however builds, runs, deletes and cleanups of a       *)
(* component overlapped: the last of them to write leaves its row with a   *)
(* verdict that the Execution of the same task has too.                    *)
THEOREM RestIsSettled == Spec => [](~MayFault /\ Resting => Settled)
<1>1. Init => MissedGone /\ RunsClose
  BY RunIsTask DEF Init, StoreInit, RunnerInit, MissedGone, RunsClose
<1>2. TypeInv /\ RequestsKnow /\ MissedGone /\ RunsClose /\ [Next]_vars
        => MissedGone' /\ RunsClose'
  BY MissedGoneStep, RunsCloseStep
<1>3. ASSUME TypeInv, OutcomeInv, RunsFollow, NoOrphanExecution, WorkHasOwner,
             VerdictHasCause, MissedGone, RunsClose
      PROVE  ~MayFault /\ Resting => Settled
  <2> SUFFICES ASSUME ~MayFault, Resting PROVE Settled
    OBVIOUS
  <2> USE BuildIsTask, RunIsTask DEF TypeInv, TypeOK, StoreTypeOK
  <2>1. ASSUME NEW t \in Tasks, storeError[t] # "none"
        PROVE  ~Exists(Target[t]) /\ ~Executed(t)
    BY <1>3, <2>1 DEF MissedGone, NoOrphanExecution, Exists, Phase
  <2>2. ASSUME NEW t \in Tasks
        PROVE  executions[t].phase \in {"Absent", "Succeeded", "Failed"}
    <3>1. executions[t].phase \in {"Absent", "Pending", "Running", "Succeeded", "Failed"}
      BY <1>3 DEF ExecutionRow, ExecutionPhase
    <3>2. executions[t].phase \in {"Pending", "Running"} => storeError[t] # "none"
      BY <1>3 DEF Resting, OutcomeInv, BuildFollows, ExecutionFollows,
                  BeforeCreate, RunsFollow, RunExecution, RunsClose, Tasks
    <3> QED BY <2>1, <3>1, <3>2 DEF Executed, ExecutionPhase
  <2>3. ASSUME NEW t \in Tasks, NEW verdict, Agrees(t, verdict)
        PROVE  executions[t].phase = verdict
    BY <2>2, <2>3 DEF Agrees
  <2>4. ASSUME NEW c \in Components, components[c].phase \in {"Building", "Running"}
        PROVE  FALSE
    <3>1. PICK t \in Tasks : Target[t] = c /\ storeError[t] # "none"
      BY <1>3, <2>4
         DEF WorkHasOwner, BuildOwns, RunOwns, Resting, BuildLive, BuildStoreCall,
             BuildWorking, RunLive, RunStoreCall, RunWorking, Tasks
    <3> QED BY <2>1, <2>4, <3>1 DEF Exists, Phase
  <2>5. ASSUME NEW c \in Components, components[c].phase = "Failed"
        PROVE  executions[components[c].error].phase = "Failed"
    BY <1>3, <2>3, <2>5 DEF VerdictHasCause
  <2>6. ASSUME NEW c \in Components, components[c].phase = "Built"
        PROVE  \E b \in Builds : /\ Target[b] = c
                                 /\ result[b].digest = components[c].digest
                                 /\ executions[b].phase = "Succeeded"
    BY <1>3, <2>3, <2>6 DEF VerdictHasCause
  <2>7. ASSUME NEW c \in Components, components[c].phase = "Succeeded"
        PROVE  \E r \in Runs : /\ Target[r] = c
                               /\ Image(r) = components[c].digest
                               /\ executions[r].phase = "Succeeded"
    BY <1>3, <2>3, <2>7 DEF VerdictHasCause
  <2> QED BY <2>2, <2>4, <2>5, <2>6, <2>7 DEF Settled
<1>4. Spec => [](MissedGone /\ RunsClose)
  BY <1>1, <1>2, TypeInvariant, RequestsKnown, PTL DEF Spec
<1> QED
  BY <1>3, <1>4, TypeInvariant, PlaneOutcome, RunsFollowed, PlaneIntegrity,
     WorkOwned, VerdictsExplained, PTL
============================================================================
