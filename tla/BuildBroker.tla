---------------------------- MODULE BuildBroker ----------------------------
(***************************************************************************)
(* POST /components/{id}/build and the goroutine it starts: Broker.Run     *)
(* (internal/build), which clones the source, builds the image with the    *)
(* docker CLI and records the outcome.  Every build request is a process   *)
(* whose step is the next call it makes; any two builds, of one component  *)
(* or of several, interleave between calls.                                *)
(***************************************************************************)
EXTENDS MetadataStore

CONSTANTS
  TagsOf,   \* the tags a component's builds may produce: its repository
            \* and the commits its ref may resolve to
  MayCrash  \* may the process die (or be shut down) with builds in flight?

ASSUME BuildAssumption ==
  /\ TagsOf \in [Components -> SUBSET Tags]
  /\ MayCrash \in BOOLEAN

VARIABLES
  bpc,        \* the next call of each build's handler or goroutine
  result,     \* the BuildResult each build has put together so far
  cloneDirs,  \* builds whose clone directory is on disk
  tags,       \* Docker daemon: the image each tag points to
  images      \* Docker daemon: the builds that produced each image

buildVars == <<bpc, result, cloneDirs, tags, images>>
brokerVars == <<storeVars, buildVars>>

\* Steps that call the metadata store (each may fail and end the goroutine).
BuildStoreCall == {"create", "markBuilding", "startExecution", "log", "built",
                   "succeed", "failStatus", "failPhase"}
BuildWorking == {"clone", "build", "inspect"}
BuildLive == BuildStoreCall \cup BuildWorking \cup {"mark"}
BuildStep == BuildLive \cup {"idle", "done", "lost"}

BuildInit ==
  /\ bpc = [b \in Builds |-> "idle"]
  /\ result = [b \in Builds |-> [tag |-> NoTag, digest |-> NoDigest]]
  /\ cloneDirs = {}
  /\ tags = [t \in Tags |-> NoDigest]
  /\ images = [d \in Digests |-> {}]

Goto(b, step) == bpc' = [bpc EXCEPT ![b] = step]

\* Mutant: an exit path without the deferred RemoveAll.
ReturnKeepsDir(b) == Goto(b, "done") /\ UNCHANGED cloneDirs

\* The goroutine (or the handler, before it starts one) returns: the
\* deferred os.RemoveAll(cloneDir) runs on every path.
Return(b) == Goto(b, "done") /\ cloneDirs' = cloneDirs \ {b}

---------------------------------------------------------------------------
(* handleBuildComponent *)

\* Components.Get finds the row and os.MkdirTemp succeeds (a 404, or a
\* failed MkdirTemp, changes nothing).
BuildRequest(b) ==
  /\ bpc[b] = "idle"
  /\ Exists(Target[b])
  /\ cloneDirs' = cloneDirs \cup {b}
  /\ Goto(b, "mark")
  /\ UNCHANGED <<storeVars, result, tags, images>>

\* UpdateBuildStatus(Building), then the goroutine starts (202 Accepted).
BuildMark(b) ==
  /\ bpc[b] = "mark"
  /\ UpdateBuildStatus(Target[b], "Building", NoDigest, NoTask)
  /\ Goto(b, "create")
  /\ UNCHANGED <<executions, storeError, result, cloneDirs, tags, images>>

\* The component was deleted since Get, or the write fails: 404 or 500.
BuildMarkFails(b) ==
  /\ bpc[b] = "mark"
  /\ CallFails(b, "mark", ~Exists(Target[b]))
  /\ Return(b)
  /\ UNCHANGED <<components, executions, result, tags, images>>

---------------------------------------------------------------------------
(* Broker.Run *)

BrokerCreate(b) ==
  /\ bpc[b] = "create"
  /\ CreateExecution(b)
  /\ Goto(b, "markBuilding")
  /\ UNCHANGED <<components, storeError, result, cloneDirs, tags, images>>

BrokerMarkBuilding(b) ==
  /\ bpc[b] = "markBuilding"
  /\ UpdateBuildStatus(Target[b], "Building", NoDigest, NoTask)
  /\ Goto(b, "startExecution")
  /\ UNCHANGED <<executions, storeError, result, cloneDirs, tags, images>>

BrokerStartExecution(b) ==
  /\ bpc[b] = "startExecution"
  /\ UpdatePhase(b, "Running", TRUE, FALSE)
  /\ Goto(b, "clone")
  /\ UNCHANGED <<components, storeError, result, cloneDirs, tags, images>>

\* buildCloneSpec and GitCloner.Clone: any of its checks and git commands
\* may fail.  The commit it resolves shows only in the tag, chosen below.
Clone(b) ==
  /\ bpc[b] = "clone"
  /\ \E step \in {"build", "failStatus"} : Goto(b, step)
  /\ UNCHANGED <<storeVars, result, cloneDirs, tags, images>>

\* buildBuildSpec fails, or DockerBuilder.Build returns before `docker
\* build`: no repository, unsupported tag strategy, no docker-env.  The
\* BuildResult is nil, so no log is stored.
BuildRefused(b) ==
  /\ bpc[b] = "build"
  /\ Goto(b, "failStatus")
  /\ UNCHANGED <<storeVars, result, cloneDirs, tags, images>>

\* `docker build -t tag` fails: a BuildResult with the log and nothing else.
DockerBuildFails(b) ==
  /\ bpc[b] = "build"
  /\ Goto(b, "log")
  /\ UNCHANGED <<storeVars, result, cloneDirs, tags, images>>

\* `docker build -t tag` succeeds: the daemon has an image and moves the
\* tag to it, whatever the tag pointed to.  The image may be one the cache
\* already held.
DockerBuild(b) ==
  /\ bpc[b] = "build"
  /\ \E tag \in TagsOf[Target[b]], image \in Digests :
       /\ tags' = [tags EXCEPT ![tag] = image]
       /\ images' = [images EXCEPT ![image] = @ \cup {b}]
       /\ result' = [result EXCEPT ![b] = [tag |-> tag, digest |-> NoDigest]]
  /\ Goto(b, "inspect")
  /\ UNCHANGED <<storeVars, cloneDirs>>

\* Mutant: the reference inspected does not name the repository.
InspectAnyTag(b) == tags[CHOOSE tag \in Tags : tags[tag] # NoDigest]

\* What inspectImageDigest finds: the image its tag points to NOW, a
\* separate docker command after the build.
InspectedDigest(b) == tags[result[b].tag]

\* `docker image inspect`: its failure leaves the digest unset.
Inspect(b) ==
  /\ bpc[b] = "inspect"
  /\ \E digest \in {InspectedDigest(b), NoDigest} :
       result' = [result EXCEPT ![b] = [@ EXCEPT !.digest = digest]]
  /\ Goto(b, "log")
  /\ UNCHANGED <<storeVars, cloneDirs, tags, images>>

\* Mutant: the error of Build is dropped once the log is stored.
AlwaysBuilt(b) == "built"

\* buildErr is nil exactly when a digest was read.
AfterLog(b) == IF result[b].digest = NoDigest THEN "failStatus" ELSE "built"

BrokerLog(b) ==
  /\ bpc[b] = "log"
  /\ UpdateBuildLog(b, result[b].tag)
  /\ Goto(b, AfterLog(b))
  /\ UNCHANGED <<components, storeError, result, cloneDirs, tags, images>>

BrokerBuilt(b) ==
  /\ bpc[b] = "built"
  /\ UpdateBuildStatus(Target[b], "Built", result[b].digest, NoTask)
  /\ Goto(b, "succeed")
  /\ UNCHANGED <<executions, storeError, result, cloneDirs, tags, images>>

\* Mutant: the component's phase written to the Execution.
SucceedAsBuilt(b) ==
  /\ bpc[b] = "succeed"
  /\ UpdatePhase(b, "Built", TRUE, TRUE)
  /\ Return(b)
  /\ UNCHANGED <<components, storeError, result, tags, images>>

BrokerSucceed(b) ==
  /\ bpc[b] = "succeed"
  /\ UpdatePhase(b, "Succeeded", TRUE, TRUE)
  /\ Return(b)
  /\ UNCHANGED <<components, storeError, result, tags, images>>

\* Mutant: fail tells the Execution only.
FailSilently(b) ==
  /\ bpc[b] = "failStatus"
  /\ Goto(b, "failPhase")
  /\ UNCHANGED <<storeVars, result, cloneDirs, tags, images>>

\* Broker.fail: first the component, then the Execution.
BrokerFailStatus(b) ==
  /\ bpc[b] = "failStatus"
  /\ UpdateBuildStatus(Target[b], "Failed", NoDigest, b)
  /\ Goto(b, "failPhase")
  /\ UNCHANGED <<executions, storeError, result, cloneDirs, tags, images>>

\* Mutant: UpdatePhase is passed a nil startedAt.
FailForgetsStart(b) ==
  /\ bpc[b] = "failPhase"
  /\ UpdatePhase(b, "Failed", FALSE, TRUE)
  /\ Return(b)
  /\ UNCHANGED <<components, storeError, result, tags, images>>

BrokerFailPhase(b) ==
  /\ bpc[b] = "failPhase"
  /\ UpdatePhase(b, "Failed", TRUE, TRUE)
  /\ Return(b)
  /\ UNCHANGED <<components, storeError, result, tags, images>>

\* Any repository call of Run or fail returns an error: Run returns at once,
\* whatever it had still to write.
BrokerAborts(b) ==
  /\ bpc[b] \in BuildStoreCall
  /\ CallFails(b, bpc[b], ~Exists(Target[b]))
  /\ Return(b)
  /\ UNCHANGED <<components, executions, result, tags, images>>

Broker(b) ==
  \/ BrokerCreate(b) \/ BrokerMarkBuilding(b) \/ BrokerStartExecution(b)
  \/ Clone(b)
  \/ BuildRefused(b) \/ DockerBuildFails(b) \/ DockerBuild(b) \/ Inspect(b)
  \/ BrokerLog(b)
  \/ BrokerBuilt(b) \/ BrokerSucceed(b)
  \/ BrokerFailStatus(b) \/ BrokerFailPhase(b)
  \/ BrokerAborts(b)

BuildHandler(b) == BuildMark(b) \/ BuildMarkFails(b)

BuildNext == \E b \in Builds : BuildRequest(b) \/ BuildHandler(b) \/ Broker(b)

\* The process dies: goroutines and handlers vanish where they stand, what
\* the store, the disk and the Docker daemon hold stays.  Nothing picks the
\* work up when it starts again.
BuildsLost ==
  bpc' = [b \in Builds |-> IF bpc[b] \in BuildLive THEN "lost" ELSE bpc[b]]

\* Mutant: what was Building starts over when the process does.
BuildCrashResets ==
  /\ MayCrash
  /\ \E b \in Builds : bpc[b] \in BuildLive
  /\ BuildsLost
  /\ components' = [c \in Components |->
       IF components[c].phase = "Building"
       THEN [components[c] EXCEPT !.phase = "Pending"] ELSE components[c]]
  /\ UNCHANGED <<executions, storeError, result, cloneDirs, tags, images>>

BuildCrash ==
  /\ MayCrash
  /\ \E b \in Builds : bpc[b] \in BuildLive
  /\ BuildsLost
  /\ UNCHANGED <<storeVars, result, cloneDirs, tags, images>>

BrokerInit == StoreInit /\ BuildInit

BrokerNext ==
  \/ StoreNext /\ UNCHANGED buildVars
  \/ BuildNext
  \/ BuildCrash

BrokerSpec == BrokerInit /\ [][BrokerNext]_brokerVars

---------------------------------------------------------------------------
BuildTypeOK ==
  /\ bpc \in [Builds -> BuildStep]
  /\ result \in [Builds -> [tag    : Tags \cup {NoTag},
                            digest : Digests \cup {NoDigest}]]
  /\ cloneDirs \subseteq Builds
  /\ tags \in [Tags -> Digests \cup {NoDigest}]
  /\ images \in [Digests -> SUBSET Builds]

\* The types of the store's rows and of the broker's state.
BrokerTypeOK == StoreTypeOK /\ BuildTypeOK

DisjointTags ==
  \A c1, c2 \in Components : c1 # c2 => TagsOf[c1] \cap TagsOf[c2] = {}

(* A component that shows an image shows one that really was built from    *)
(* its own source, although the digest is read back by tag, in a second    *)
(* docker command, after other builds may have moved the tag.  It needs    *)
(* image repositories that no two components share.                        *)
DigestIsOwnImage ==
  DisjointTags =>
    \A c \in Components : components[c].digest # NoDigest =>
      \E b \in images[components[c].digest] : Target[b] = c

(* Which phases carry an image, whatever builds overlap: Built never       *)
(* appears without its digest; a build under way, or one that failed,      *)
(* never shows the digest of an earlier one (a run would deploy it).  A    *)
(* run that fails does keep the digest it ran.                             *)
DigestMatchesPhase ==
  \A c \in Components :
    LET row == components[c] IN
    /\ row.phase = "Built" => row.digest # NoDigest
    /\ \/ row.phase \in {"Pending", "Building"}
       \/ row.phase = "Failed" /\ row.error \in Builds
       => row.digest = NoDigest

(* A component is Building only while some build of it is still going to   *)
(* write, unless the process died or a store call of that build failed:    *)
(* overlapping builds alone never leave it Building for ever.              *)
BuildingHasOwner ==
  \A c \in Components : components[c].phase = "Building" =>
    \E b \in Builds :
      /\ Target[b] = c
      /\ \/ bpc[b] \in BuildLive \ {"mark", "succeed", "failPhase"}
         \/ bpc[b] = "lost" \/ storeError[b] # "none"

(* Failed is explained: the component's error comes from one of its own    *)
(* builds, whose Execution is Failed too, or about to be, or was left      *)
(* Running by a crash or a failed write; and no other phase shows an error.*)
FailedHasCause ==
  \A c \in Components :
    IF components[c].phase = "Failed"
    THEN LET t == components[c].error IN
         /\ t \in Builds /\ Target[t] = c
         /\ \/ executions[t].phase = "Failed"
            \/ /\ executions[t].phase = "Running"
               /\ bpc[t] \in {"failPhase", "lost"} \/ storeError[t] # "none"
    ELSE components[c].error = NoTask

(* The Execution tells the truth about the build: Succeeded means its      *)
(* image was inspected and its tag and log are stored, Failed means no     *)
(* image was; and only a write error or a crash leaves it open once the    *)
(* goroutine has returned.                                                 *)
ExecutionTellsOutcome ==
  \A b \in Builds :
    /\ executions[b].phase = "Succeeded" =>
         /\ result[b].digest # NoDigest
         /\ executions[b].logged /\ executions[b].tag = result[b].tag
    /\ executions[b].phase = "Failed" => result[b].digest = NoDigest
    /\ (executions[b].phase \in {"Pending", "Running"} /\ bpc[b] = "done") =>
         storeError[b] # "none"

(* The clone directory is there while git and docker work in it and, crash *)
(* apart, gone once the build has returned on whichever path.              *)
CloneDirMatchesBuild ==
  \A b \in Builds :
    /\ bpc[b] \in BuildWorking => b \in cloneDirs
    /\ bpc[b] \in {"idle", "done"} => b \notin cloneDirs

(* Once Run has created its Execution no repository call can miss a row:   *)
(* only Executions.Create and the handler's own write can meet a deleted   *)
(* component, so with a store that does not fail the build always ends     *)
(* with an outcome.                                                        *)
OnlyEarlyCallsMissTheRow ==
  ~MayFault => \A b \in Builds : storeError[b] \in {"none", "mark", "create"}

(* Broker.Run's comment: the clone or build error it returns is already    *)
(* persisted as Failed.  Stated of every build that docker or git made     *)
(* fail and whose writes of that failure were not themselves refused.      *)
FailurePersisted ==
  \A b \in Builds :
    (/\ bpc[b] = "done" /\ storeError[b] \in {"none", "log"}
     /\ Executed(b) /\ result[b].digest = NoDigest)
    => executions[b].phase = "Failed"
---------------------------------------------------------------------------
(* The broker implements the builds of ComponentLifecycle.                 *)

\* How far in its lifecycle a build with each program counter is.
BuildStage ==
  [idle |-> "idle", mark |-> "idle", create |-> "accepted",
   markBuilding |-> "open", startExecution |-> "announced",
   clone |-> "working", build |-> "working", inspect |-> "working",
   log |-> "working", built |-> "working", failStatus |-> "working",
   succeed |-> "Built", failPhase |-> "Failed",
   done |-> "over", lost |-> "over"]

PhaseOf == [c \in Components |-> components[c].phase]
OutcomeOf == [b \in Builds |-> executions[b].phase]
StageOf == [b \in Builds |-> BuildStage[bpc[b]]]

BuildLifecycle == INSTANCE ComponentLifecycle WITH
  Runs <- {}, phase <- PhaseOf, outcome <- OutcomeOf, stage <- StageOf

(* Whatever fails, dies or overlaps, whoever reads a component and the     *)
(* table of its Executions sees nothing but the lifecycle: a build         *)
(* announces itself before its Execution exists, the component's verdict   *)
(* precedes the same verdict of the Execution, and each is written at most *)
(* once per build.                                                         *)
BuildsFollowLifecycle == BuildLifecycle!Spec
============================================================================
