------------------------- MODULE BuildBrokerProofs -------------------------
(***************************************************************************)
(* What BuildBroker's runs check on small instances, proved for every set  *)
(* of components, builds, tags and images, with failing stores and crashes *)
(* included: the typing invariant, referential integrity under deletes     *)
(* racing builds, that overlapping builds alone never leave a component    *)
(* Building, that the image a component shows is its own, and what a build *)
(* leaves behind.                                                          *)
(***************************************************************************)
EXTENDS BuildBroker, TLAPS

USE StoreAssumption, BuildAssumption

\* The changes a repository method makes keep the tables well typed.
LEMMA UpdateBuildStatusType ==
  ASSUME StoreTypeOK,
         NEW c \in Components, NEW phase \in Phase,
         NEW digest \in Digests \cup {NoDigest},
         NEW error \in Tasks \cup {NoTask},
         UpdateBuildStatus(c, phase, digest, error)
  PROVE  components' \in [Components -> ComponentRow]
  BY DEF StoreTypeOK, UpdateBuildStatus, ComponentRow

LEMMA UpdatePhaseType ==
  ASSUME StoreTypeOK,
         NEW t \in Tasks, NEW phase \in ExecutionPhase,
         NEW started \in BOOLEAN, NEW completed \in BOOLEAN,
         UpdatePhase(t, phase, started, completed)
  PROVE  executions' \in [Tasks -> ExecutionRow]
<1>1. executions[t] \in ExecutionRow
  BY DEF StoreTypeOK
<1>2. [executions[t] EXCEPT !.phase = phase, !.started = started,
                            !.completed = completed] \in ExecutionRow
  BY <1>1 DEF ExecutionRow
<1> QED BY <1>2 DEF StoreTypeOK, UpdatePhase

LEMMA BuildIsTask == \A b \in Builds : b \in Tasks /\ Target[b] \in Components
  BY DEF Tasks

\* What the inspect step relies on: the build before it has set a tag.
TagKnown ==
  \A b \in Builds : bpc[b] = "inspect" => result[b].tag \in TagsOf[Target[b]]

LEMMA TagKnownStep ==
  ASSUME BrokerTypeOK, TagKnown, [BrokerNext]_brokerVars
  PROVE  TagKnown'
<1> USE DEF BrokerTypeOK, BuildTypeOK, TagKnown
<1>1. CASE UNCHANGED <<bpc, result>>
  BY <1>1
<1>2. ASSUME NEW b \in Builds, NEW step, step # "inspect",
             Goto(b, step), UNCHANGED result
      PROVE  TagKnown'
  BY <1>2 DEF Goto
<1>3. ASSUME NEW b \in Builds, DockerBuild(b) PROVE TagKnown'
  BY <1>3 DEF DockerBuild, Goto
<1>4. ASSUME NEW b \in Builds, Inspect(b) PROVE TagKnown'
  BY <1>4 DEF Inspect, Goto
<1>5. CASE BuildCrash
  BY <1>5 DEF BuildCrash, BuildsLost
<1>6. ASSUME NEW b \in Builds,
             BuildRequest(b) \/ BuildHandler(b) \/ Broker(b)
      PROVE  TagKnown'
  <2>1. CASE DockerBuild(b) \/ Inspect(b)
    BY <2>1, <1>3, <1>4
  <2>2. CASE Clone(b)
    BY <2>2, <1>2 DEF Clone
  <2>3. CASE BrokerLog(b)
    BY <2>3, <1>2 DEF BrokerLog, AfterLog
  <2> QED
    BY <1>2, <1>6, <2>1, <2>2, <2>3
       DEF BuildRequest, BuildHandler, BuildMark, BuildMarkFails, Broker,
           BrokerCreate, BrokerMarkBuilding, BrokerStartExecution,
           BuildRefused, DockerBuildFails, BrokerBuilt, BrokerSucceed,
           BrokerFailStatus, BrokerFailPhase, BrokerAborts, Return
<1> QED
  BY <1>1, <1>5, <1>6
     DEF BrokerNext, BuildNext, StoreNext, buildVars, brokerVars

(* Type correctness of the broker and of the store's rows it writes.       *)
LEMMA BrokerTypeStep ==
  ASSUME BrokerTypeOK, TagKnown, [BrokerNext]_brokerVars
  PROVE  BrokerTypeOK'
<1> USE DEF BrokerTypeOK, StoreTypeOK, BuildTypeOK
<1>0. StoreTypeOK
  OBVIOUS
<1>1. ASSUME NEW c \in Components, CreateComponent(c), UNCHANGED buildVars
      PROVE  BrokerTypeOK'
  <2>1. components[c] \in ComponentRow
    OBVIOUS
  <2>2. [components[c] EXCEPT !.phase = "Pending"] \in ComponentRow
    BY <2>1 DEF ComponentRow, Phase
  <2> QED BY <1>1, <2>2 DEF CreateComponent, buildVars
<1>2. ASSUME NEW c \in Components, DeleteComponent(c), UNCHANGED buildVars
      PROVE  BrokerTypeOK'
  BY <1>2 DEF DeleteComponent, buildVars, ComponentRow, NoRow
<1>3. ASSUME NEW b \in Builds, NEW step \in BuildStep, Goto(b, step)
      PROVE  bpc' \in [Builds -> BuildStep]
  BY <1>3 DEF Goto
<1>4. ASSUME NEW b \in Builds, Return(b)
      PROVE  /\ bpc' \in [Builds -> BuildStep]
             /\ cloneDirs' \subseteq Builds
  BY <1>3, <1>4 DEF Return, BuildStep
<1> USE DEF BuildStep, BuildLive, BuildStoreCall, BuildWorking, StoreCall
<1>5. ASSUME NEW b \in Builds, BuildRequest(b) PROVE BrokerTypeOK'
  BY <1>3, <1>5 DEF BuildRequest, storeVars
<1>6. ASSUME NEW b \in Builds, BuildMark(b) PROVE BrokerTypeOK'
  <2>1. components' \in [Components -> ComponentRow]
    BY <1>0, <1>6, BuildIsTask, UpdateBuildStatusType DEF BuildMark, Phase
  <2> QED BY <1>3, <1>6, <2>1 DEF BuildMark
<1>7. ASSUME NEW b \in Builds, BuildMarkFails(b) PROVE BrokerTypeOK'
  BY <1>4, <1>7 DEF BuildMarkFails, CallFails
<1>8. ASSUME NEW b \in Builds, BrokerCreate(b) PROVE BrokerTypeOK'
  <2>1. executions[b] \in ExecutionRow
    BY BuildIsTask
  <2>2. [executions[b] EXCEPT !.phase = "Pending"] \in ExecutionRow
    BY <2>1 DEF ExecutionRow, ExecutionPhase
  <2> QED BY <1>3, <1>8, <2>2, BuildIsTask DEF BrokerCreate, CreateExecution
<1>9. ASSUME NEW b \in Builds, BrokerMarkBuilding(b) PROVE BrokerTypeOK'
  <2>1. components' \in [Components -> ComponentRow]
    BY <1>0, <1>9, BuildIsTask, UpdateBuildStatusType
       DEF BrokerMarkBuilding, Phase
  <2> QED BY <1>3, <1>9, <2>1 DEF BrokerMarkBuilding
<1>10. ASSUME NEW b \in Builds, BrokerStartExecution(b) PROVE BrokerTypeOK'
  <2>1. executions' \in [Tasks -> ExecutionRow]
    BY <1>0, <1>10, BuildIsTask, UpdatePhaseType
       DEF BrokerStartExecution, ExecutionPhase
  <2> QED BY <1>3, <1>10, <2>1 DEF BrokerStartExecution
<1>11. ASSUME NEW b \in Builds,
              Clone(b) \/ BuildRefused(b) \/ DockerBuildFails(b)
       PROVE  BrokerTypeOK'
  BY <1>3, <1>11 DEF Clone, BuildRefused, DockerBuildFails, storeVars
<1>12. ASSUME NEW b \in Builds, DockerBuild(b) PROVE BrokerTypeOK'
  <2>1. PICK tag \in TagsOf[Target[b]], image \in Digests :
          /\ tags' = [tags EXCEPT ![tag] = image]
          /\ images' = [images EXCEPT ![image] = @ \cup {b}]
          /\ result' = [result EXCEPT ![b] = [tag |-> tag,
                                              digest |-> NoDigest]]
    BY <1>12 DEF DockerBuild
  <2>2. tag \in Tags
    BY BuildIsTask
  <2> QED BY <1>3, <1>12, <2>1, <2>2 DEF DockerBuild, storeVars
<1>13. ASSUME NEW b \in Builds, Inspect(b) PROVE BrokerTypeOK'
  <2>1. PICK digest \in {InspectedDigest(b), NoDigest} :
          result' = [result EXCEPT ![b] = [@ EXCEPT !.digest = digest]]
    BY <1>13 DEF Inspect
  <2>2. digest \in Digests \cup {NoDigest}
    BY <1>13, <2>1, BuildIsTask DEF InspectedDigest, TagKnown, Inspect
  <2> QED BY <1>3, <1>13, <2>1, <2>2 DEF Inspect, storeVars
<1>14. ASSUME NEW b \in Builds, BrokerLog(b) PROVE BrokerTypeOK'
  <2>1. executions' \in [Tasks -> ExecutionRow]
    <3>1. executions[b] \in ExecutionRow /\ result[b].tag \in Tags \cup {NoTag}
      BY BuildIsTask
    <3>2. [executions[b] EXCEPT !.tag = result[b].tag, !.logged = TRUE]
            \in ExecutionRow
      BY <3>1 DEF ExecutionRow
    <3> QED BY <1>14, <3>2, BuildIsTask DEF BrokerLog, UpdateBuildLog
  <2> QED BY <1>3, <1>14, <2>1 DEF BrokerLog, AfterLog
<1>15. ASSUME NEW b \in Builds, BrokerBuilt(b) PROVE BrokerTypeOK'
  <2>1. components' \in [Components -> ComponentRow]
    BY <1>0, <1>15, BuildIsTask, UpdateBuildStatusType DEF BrokerBuilt, Phase
  <2> QED BY <1>3, <1>15, <2>1 DEF BrokerBuilt
<1>16. ASSUME NEW b \in Builds, BrokerFailStatus(b) PROVE BrokerTypeOK'
  <2>1. components' \in [Components -> ComponentRow]
    BY <1>0, <1>16, BuildIsTask, UpdateBuildStatusType
       DEF BrokerFailStatus, Phase
  <2> QED BY <1>3, <1>16, <2>1 DEF BrokerFailStatus
<1>17. ASSUME NEW b \in Builds, BrokerSucceed(b) \/ BrokerFailPhase(b)
       PROVE  BrokerTypeOK'
  <2>1. executions' \in [Tasks -> ExecutionRow]
    BY <1>0, <1>17, BuildIsTask, UpdatePhaseType
       DEF BrokerSucceed, BrokerFailPhase, ExecutionPhase
  <2> QED BY <1>4, <1>17, <2>1 DEF BrokerSucceed, BrokerFailPhase
<1>18. ASSUME NEW b \in Builds, BrokerAborts(b) PROVE BrokerTypeOK'
  BY <1>4, <1>18 DEF BrokerAborts, CallFails
<1>19. CASE BuildCrash
  BY <1>19 DEF BuildCrash, BuildsLost, storeVars
<1>20. CASE UNCHANGED brokerVars
  BY <1>20 DEF brokerVars, storeVars, buildVars
<1> QED
  BY <1>1, <1>2, <1>5, <1>6, <1>7, <1>8, <1>9, <1>10, <1>11, <1>12, <1>13,
     <1>14, <1>15, <1>16, <1>17, <1>18, <1>19, <1>20
     DEF BrokerNext, StoreNext, BuildNext, BuildHandler, Broker

THEOREM BrokerTypeCorrect == BrokerSpec => [](BrokerTypeOK /\ TagKnown)
<1>1. BrokerInit => BrokerTypeOK /\ TagKnown
  BY DEF BrokerInit, StoreInit, BuildInit, BrokerTypeOK, StoreTypeOK,
         BuildTypeOK, ComponentRow, ExecutionRow, NoRow, BuildStep, TagKnown
<1>2. BrokerTypeOK /\ TagKnown /\ [BrokerNext]_brokerVars
        => (BrokerTypeOK /\ TagKnown)'
  BY BrokerTypeStep, TagKnownStep
<1> QED BY <1>1, <1>2, PTL DEF BrokerSpec

---------------------------------------------------------------------------
(* Referential integrity.  The strengthening ties the broker's program     *)
(* counter to the table: past Executions.Create the Execution exists, so   *)
(* ON DELETE RESTRICT protects the component for the rest of the build.    *)

PastCreate == (BuildStoreCall \ {"create"}) \cup BuildWorking
ExecutedPastCreate ==
  \A b \in Builds : bpc[b] \in PastCreate => Executed(b)

Integrity == /\ NoOrphanExecution
             /\ ExecutedPastCreate
             /\ OnlyEarlyCallsMissTheRow

\* What one step may do to the two tables.
LEMMA TableStep ==
  ASSUME BrokerTypeOK, [BrokerNext]_brokerVars
  PROVE  /\ \A t \in Tasks :
              \/ executions'[t] = executions[t]
              \/ Executed(t) /\ Executed(t)'
              \/ /\ t \in Builds /\ BrokerCreate(t)
                 /\ Exists(Target[t]) /\ UNCHANGED components
         /\ \A c \in Components : Exists(c) =>
              \/ Exists(c)'
              \/ DeleteComponent(c)
<1> USE DEF BrokerTypeOK, StoreTypeOK, BuildTypeOK
<1>1. ASSUME NEW b \in Builds, NEW phase \in ExecutionPhase,
             NEW started, NEW completed,
             UpdatePhase(b, phase, started, completed)
      PROVE  \A t \in Tasks : \/ executions'[t] = executions[t]
                              \/ Executed(t) /\ Executed(t)'
  <2>1. executions[b] \in ExecutionRow /\ b \in Tasks
    BY BuildIsTask
  <2>2. executions'[b].phase = phase
    BY <1>1, <2>1 DEF UpdatePhase, ExecutionRow
  <2> QED BY <1>1, <2>1, <2>2 DEF UpdatePhase, Executed
<1>2. ASSUME NEW b \in Builds, NEW tag, UpdateBuildLog(b, tag)
      PROVE  \A t \in Tasks : \/ executions'[t] = executions[t]
                              \/ Executed(t) /\ Executed(t)'
  <2>1. executions[b] \in ExecutionRow /\ b \in Tasks
    BY BuildIsTask
  <2>2. executions'[b].phase = executions[b].phase
    BY <1>2, <2>1 DEF UpdateBuildLog, ExecutionRow
  <2> QED BY <1>2, <2>1, <2>2 DEF UpdateBuildLog, Executed
<1>3. ASSUME NEW d \in Components, NEW phase \in Phase, NEW digest, NEW error,
             UpdateBuildStatus(d, phase, digest, error)
      PROVE  \A c \in Components : Exists(c) => Exists(c)'
  BY <1>3 DEF UpdateBuildStatus, Exists
<1>4. ASSUME NEW d \in Components, CreateComponent(d) \/ DeleteComponent(d)
      PROVE  \A c \in Components : Exists(c) => Exists(c)' \/ DeleteComponent(c)
  <2>1. CASE CreateComponent(d)
    <3>1. components[d] \in ComponentRow /\ ~Exists(d)
      BY <2>1 DEF CreateComponent, Exists, Phase
    <3> QED BY <2>1, <3>1 DEF CreateComponent, Exists
  <2>2. CASE DeleteComponent(d)
    BY <2>2 DEF DeleteComponent, Exists
  <2> QED BY <1>4, <2>1, <2>2
<1>5. ASSUME NEW b \in Builds,
             \/ BrokerStartExecution(b) \/ BrokerSucceed(b) \/ BrokerFailPhase(b)
             \/ BrokerLog(b)
      PROVE  /\ \A t \in Tasks : \/ executions'[t] = executions[t]
                                 \/ Executed(t) /\ Executed(t)'
             /\ UNCHANGED components
  BY <1>1, <1>2, <1>5
     DEF BrokerStartExecution, BrokerSucceed, BrokerFailPhase, BrokerLog,
         ExecutionPhase
<1>6. ASSUME NEW b \in Builds,
             \/ BuildMark(b) \/ BrokerMarkBuilding(b) \/ BrokerBuilt(b)
             \/ BrokerFailStatus(b)
      PROVE  /\ \A c \in Components : Exists(c) => Exists(c)'
             /\ UNCHANGED executions
  BY <1>3, <1>6, BuildIsTask
     DEF BuildMark, BrokerMarkBuilding, BrokerBuilt, BrokerFailStatus, Phase
<1>7. ASSUME NEW b \in Builds, BrokerCreate(b)
      PROVE  /\ \A t \in Tasks : t = b \/ executions'[t] = executions[t]
             /\ Exists(Target[b]) /\ UNCHANGED components
  BY <1>7 DEF BrokerCreate, CreateExecution
<1>8. ASSUME NEW b \in Builds,
             \/ BuildRequest(b) \/ BuildMarkFails(b) \/ Clone(b)
             \/ BuildRefused(b) \/ DockerBuildFails(b) \/ DockerBuild(b)
             \/ Inspect(b) \/ BrokerAborts(b)
      PROVE  UNCHANGED <<components, executions>>
  BY <1>8 DEF BuildRequest, BuildMarkFails, Clone, BuildRefused,
              DockerBuildFails, DockerBuild, Inspect, BrokerAborts, storeVars
<1>9. UNCHANGED components => \A c \in Components : Exists(c) => Exists(c)'
  BY DEF Exists
<1>10. CASE BuildNext
  BY <1>5, <1>6, <1>7, <1>8, <1>9, <1>10 DEF BuildNext, BuildHandler, Broker
<1>11. CASE StoreNext
  BY <1>4, <1>11 DEF StoreNext, CreateComponent, DeleteComponent
<1>12. CASE BuildCrash \/ UNCHANGED brokerVars
  BY <1>9, <1>12 DEF BuildCrash, brokerVars, storeVars
<1> QED BY <1>10, <1>11, <1>12 DEF BrokerNext

\* A step that makes the Execution of b necessary finds it there.
LEMMA PastCreateStep ==
  ASSUME BrokerTypeOK, ExecutedPastCreate, [BrokerNext]_brokerVars,
         NEW b \in Builds, bpc'[b] \in PastCreate
  PROVE  bpc[b] \in PastCreate \/ BrokerCreate(b)
<1> USE DEF BrokerTypeOK, BuildTypeOK, PastCreate, BuildStoreCall, BuildWorking
<1>1. CASE bpc'[b] = bpc[b]
  BY <1>1
<1>2. ASSUME NEW d \in Builds,
             \/ BuildRequest(d) \/ BuildHandler(d)
             \/ BrokerSucceed(d) \/ BrokerFailPhase(d) \/ BrokerAborts(d)
      PROVE  bpc'[b] = bpc[b]
  BY <1>2 DEF BuildRequest, BuildHandler, BuildMark, BuildMarkFails,
              BrokerSucceed, BrokerFailPhase, BrokerAborts, Return, Goto
<1>3. ASSUME NEW d \in Builds,
             \/ BrokerMarkBuilding(d) \/ BrokerStartExecution(d)
             \/ Clone(d) \/ BuildRefused(d) \/ DockerBuildFails(d)
             \/ DockerBuild(d) \/ Inspect(d)
             \/ BrokerLog(d) \/ BrokerBuilt(d) \/ BrokerFailStatus(d)
      PROVE  bpc'[b] = bpc[b] \/ bpc[b] \in PastCreate
  BY <1>3 DEF BrokerMarkBuilding, BrokerStartExecution, Clone, BuildRefused,
              DockerBuildFails, DockerBuild, Inspect, BrokerLog, BrokerBuilt,
              BrokerFailStatus, Goto
<1>4. ASSUME NEW d \in Builds, BrokerCreate(d)
      PROVE  bpc'[b] = bpc[b] \/ BrokerCreate(b)
  BY <1>4 DEF BrokerCreate, Goto
<1>5. CASE BuildCrash
  BY <1>5 DEF BuildCrash, BuildsLost
<1>6. CASE (StoreNext /\ UNCHANGED buildVars) \/ UNCHANGED brokerVars
  BY <1>1, <1>6 DEF buildVars, brokerVars
<1> QED
  BY <1>1, <1>2, <1>3, <1>4, <1>5, <1>6 DEF BrokerNext, BuildNext, Broker

LEMMA OrphanStep ==
  ASSUME BrokerTypeOK, NoOrphanExecution, [BrokerNext]_brokerVars
  PROVE  NoOrphanExecution'
<1> SUFFICES ASSUME NEW t \in Tasks, Executed(t)' PROVE Exists(Target[t])'
  BY DEF NoOrphanExecution
<1>1. Executed(t) \/ (Exists(Target[t]) /\ UNCHANGED components)
  BY TableStep DEF Executed
<1>2. CASE Executed(t)
  <2>1. Target[t] \in Components /\ Exists(Target[t])
    BY <1>2 DEF NoOrphanExecution
  <2>2. ~DeleteComponent(Target[t])
    BY <1>2 DEF DeleteComponent
  <2> QED BY <2>1, <2>2, TableStep
<1>3. CASE Exists(Target[t]) /\ UNCHANGED components
  BY <1>3 DEF Exists
<1> QED BY <1>1, <1>2, <1>3

\* Only the handler's write and Executions.Create can meet a missing row.
LEMMA EarlyCallStep ==
  ASSUME BrokerTypeOK, NoOrphanExecution, ExecutedPastCreate,
         OnlyEarlyCallsMissTheRow, [BrokerNext]_brokerVars
  PROVE  OnlyEarlyCallsMissTheRow'
<1> SUFFICES ASSUME ~MayFault, NEW b \in Builds
             PROVE  storeError'[b] \in {"none", "mark", "create"}
  BY DEF OnlyEarlyCallsMissTheRow
<1>0. storeError[b] \in {"none", "mark", "create"}
  BY DEF OnlyEarlyCallsMissTheRow
<1>1. ASSUME NEW d \in Builds, BuildMarkFails(d)
      PROVE  storeError'[b] \in {"none", "mark", "create"}
  BY <1>0, <1>1 DEF BuildMarkFails, CallFails, BrokerTypeOK, StoreTypeOK
<1>2. ASSUME NEW d \in Builds, BrokerAborts(d)
      PROVE  storeError'[b] \in {"none", "mark", "create"}
  <2>1. ~Exists(Target[d])
    BY <1>2 DEF BrokerAborts, CallFails
  <2>2. ~Executed(d)
    BY <2>1, BuildIsTask DEF NoOrphanExecution
  <2>3. bpc[d] = "create"
    BY <1>2, <2>2
       DEF BrokerAborts, ExecutedPastCreate, PastCreate, BuildStoreCall
  <2> QED BY <1>0, <1>2, <2>3
             DEF BrokerAborts, CallFails, BrokerTypeOK, StoreTypeOK
<1>3. CASE UNCHANGED storeError
  BY <1>0, <1>3
<1> QED
  BY <1>1, <1>2, <1>3
     DEF BrokerNext, StoreNext, CreateComponent, DeleteComponent,
         BuildNext, BuildRequest, BuildHandler, BuildMark, Broker,
         BrokerCreate, BrokerMarkBuilding, BrokerStartExecution, Clone,
         BuildRefused, DockerBuildFails, DockerBuild, Inspect, BrokerLog,
         BrokerBuilt, BrokerSucceed, BrokerFailStatus, BrokerFailPhase,
         BuildCrash, storeVars, brokerVars

LEMMA IntegrityStep ==
  ASSUME BrokerTypeOK, Integrity, [BrokerNext]_brokerVars
  PROVE  Integrity'
<1> USE DEF Integrity
<1>1. NoOrphanExecution'
  BY OrphanStep
<1>2. ExecutedPastCreate'
  <2> SUFFICES ASSUME NEW b \in Builds, bpc'[b] \in PastCreate
               PROVE  Executed(b)'
    BY DEF ExecutedPastCreate
  <2>1. CASE BrokerCreate(b)
    <3>1. executions[b] \in ExecutionRow /\ b \in Tasks
      BY BuildIsTask DEF BrokerTypeOK, StoreTypeOK
    <3>2. executions'[b].phase = "Pending"
      BY <2>1, <3>1
         DEF BrokerCreate, CreateExecution, ExecutionRow, BrokerTypeOK, StoreTypeOK
    <3> QED BY <3>2 DEF Executed, ExecutionPhase
  <2>2. CASE bpc[b] \in PastCreate /\ ~BrokerCreate(b)
    <3>1. Executed(b)
      BY <2>2 DEF ExecutedPastCreate
    <3> QED BY <2>2, <3>1, BuildIsTask, TableStep DEF Executed
  <2> QED BY <2>1, <2>2, PastCreateStep
<1>3. OnlyEarlyCallsMissTheRow'
  BY EarlyCallStep
<1> QED BY <1>1, <1>2, <1>3

(* However deletes, builds, failing writes and crashes interleave, an      *)
(* Execution always has its component; and without failing writes only the *)
(* two calls before the Execution exists can find the component gone.      *)
THEOREM ReferentialIntegrity ==
  BrokerSpec => [](NoOrphanExecution /\ OnlyEarlyCallsMissTheRow)
<1>1. BrokerInit => Integrity
  BY BuildIsTask
     DEF BrokerInit, StoreInit, BuildInit, Integrity, NoOrphanExecution,
         Executed, ExecutionPhase, ExecutedPastCreate, PastCreate,
         BuildStoreCall, BuildWorking, OnlyEarlyCallsMissTheRow
<1>2. BrokerTypeOK /\ Integrity /\ [BrokerNext]_brokerVars => Integrity'
  BY IntegrityStep
<1>3. Integrity => NoOrphanExecution /\ OnlyEarlyCallsMissTheRow
  BY DEF Integrity
<1> QED BY <1>1, <1>2, <1>3, BrokerTypeCorrect, PTL DEF BrokerSpec

---------------------------------------------------------------------------
(* Building has an owner.  The property is inductive as it stands: a build *)
(* gives its claim up only with the write that ends the phase, with the    *)
(* error that stops it, or in a crash, and the last two leave their mark.  *)

Owner(b) == \/ bpc[b] \in BuildLive \ {"mark", "succeed", "failPhase"}
            \/ bpc[b] = "lost" \/ storeError[b] # "none"

LEMMA OwnerStep ==
  ASSUME BrokerTypeOK, [BrokerNext]_brokerVars, NEW b \in Builds, Owner(b)
  PROVE  \/ Owner(b)'
         \/ components'[Target[b]].phase \in {"Built", "Failed"}
<1> USE DEF BrokerTypeOK, StoreTypeOK, BuildTypeOK, Owner, BuildLive,
            BuildStoreCall, BuildWorking
<1>1. CASE bpc'[b] = bpc[b] /\ storeError'[b] = storeError[b]
  BY <1>1
<1>2. storeError'[b] # storeError[b] => storeError'[b] # "none"
  <2>1. ASSUME NEW d \in Builds, BuildMarkFails(d)
        PROVE  storeError'[b] # storeError[b] => storeError'[b] = "mark"
    BY <2>1, BuildIsTask DEF BuildMarkFails, CallFails
  <2>2. ASSUME NEW d \in Builds, BrokerAborts(d)
        PROVE  storeError'[b] # storeError[b] => storeError'[b] \in BuildStoreCall
    <3>1. storeError' = [storeError EXCEPT ![d] = bpc[d]]
      BY <2>2 DEF BrokerAborts, CallFails
    <3>2. bpc[d] \in BuildStoreCall
      BY <2>2 DEF BrokerAborts
    <3> QED BY <3>1, <3>2, BuildIsTask
  <2>3. \/ UNCHANGED storeError
        \/ \E d \in Builds : BuildMarkFails(d) \/ BrokerAborts(d)
    BY DEF BrokerNext, StoreNext, CreateComponent, DeleteComponent,
           BuildNext, BuildRequest, BuildHandler, BuildMark, Broker,
           BrokerCreate, BrokerMarkBuilding, BrokerStartExecution, Clone,
           BuildRefused, DockerBuildFails, DockerBuild, Inspect, BrokerLog,
           BrokerBuilt, BrokerSucceed, BrokerFailStatus, BrokerFailPhase,
           BuildCrash, storeVars, brokerVars
  <2> QED BY <2>1, <2>2, <2>3
<1>3. CASE storeError[b] # "none"
  BY <1>2, <1>3
<1>4. CASE storeError[b] = "none" /\ bpc'[b] # bpc[b]
  <2>1. CASE BrokerBuilt(b) \/ BrokerFailStatus(b)
    BY <2>1, BuildIsTask
       DEF BrokerBuilt, BrokerFailStatus, UpdateBuildStatus
  <2>2. ASSUME NEW d \in Builds,
               BuildRequest(d) \/ BuildHandler(d) \/ Broker(d), d # b
        PROVE  bpc'[b] = bpc[b]
    BY <2>2
       DEF BuildRequest, BuildHandler, BuildMark, BuildMarkFails, Broker,
           BrokerCreate, BrokerMarkBuilding, BrokerStartExecution, Clone,
           BuildRefused, DockerBuildFails, DockerBuild, Inspect, BrokerLog,
           BrokerBuilt, BrokerSucceed, BrokerFailStatus, BrokerFailPhase,
           BrokerAborts, Return, Goto
  <2>3. CASE \/ BuildRequest(b) \/ BuildHandler(b)
             \/ BrokerSucceed(b) \/ BrokerFailPhase(b)
    BY <1>4, <2>3
       DEF BuildRequest, BuildHandler, BuildMark, BuildMarkFails,
           BrokerSucceed, BrokerFailPhase
  <2>4. CASE \/ BrokerCreate(b) \/ BrokerMarkBuilding(b)
             \/ BrokerStartExecution(b) \/ Clone(b)
             \/ BuildRefused(b) \/ DockerBuildFails(b) \/ DockerBuild(b)
             \/ Inspect(b) \/ BrokerLog(b)
    <3>1. CASE \/ BrokerCreate(b) \/ BrokerMarkBuilding(b)
               \/ BrokerStartExecution(b) \/ Clone(b)
      BY <3>1
         DEF BrokerCreate, BrokerMarkBuilding, BrokerStartExecution, Clone, Goto
    <3>2. CASE \/ BuildRefused(b) \/ DockerBuildFails(b) \/ DockerBuild(b)
               \/ Inspect(b) \/ BrokerLog(b)
      BY <3>2
         DEF BuildRefused, DockerBuildFails, DockerBuild, Inspect, BrokerLog,
             AfterLog, Goto
    <3> QED BY <2>4, <3>1, <3>2
  <2>5. CASE BrokerAborts(b)
    <3>1. storeError' = [storeError EXCEPT ![b] = bpc[b]]
      BY <2>5 DEF BrokerAborts, CallFails
    <3>2. bpc[b] \in BuildStoreCall
      BY <2>5 DEF BrokerAborts
    <3>3. storeError'[b] # "none"
      BY <3>1, <3>2, BuildIsTask
    <3> QED BY <3>3
  <2>6. CASE BuildCrash
    <3>1. bpc'[b] = IF bpc[b] \in BuildLive THEN "lost" ELSE bpc[b]
      BY <2>6 DEF BuildCrash, BuildsLost
    <3> QED BY <1>4, <3>1
  <2>7. CASE (StoreNext /\ UNCHANGED buildVars) \/ UNCHANGED brokerVars
    BY <1>4, <2>7 DEF buildVars, brokerVars
  <2> QED
    BY <1>4, <2>1, <2>2, <2>3, <2>4, <2>5, <2>6, <2>7
       DEF BrokerNext, BuildNext, Broker
<1> QED BY <1>1, <1>2, <1>3, <1>4

\* A component becomes Building by the hand of a build that then owns it.
LEMMA NewBuilding ==
  ASSUME BrokerTypeOK, [BrokerNext]_brokerVars, NEW c \in Components,
         components'[c].phase = "Building", components[c].phase # "Building"
  PROVE  \E b \in Builds : Target[b] = c /\ Owner(b)'
<1> USE DEF BrokerTypeOK, StoreTypeOK, BuildTypeOK
<1>1. ASSUME NEW b \in Builds, BuildMark(b) \/ BrokerMarkBuilding(b)
      PROVE  Target[b] = c /\ Owner(b)'
  BY <1>1 DEF BuildMark, BrokerMarkBuilding, UpdateBuildStatus, Goto, Owner,
              BuildLive, BuildStoreCall
<1>2. ASSUME NEW b \in Builds, BrokerBuilt(b) \/ BrokerFailStatus(b)
      PROVE  FALSE
  BY <1>2 DEF BrokerBuilt, BrokerFailStatus, UpdateBuildStatus
<1>3. ASSUME NEW d \in Components, CreateComponent(d) \/ DeleteComponent(d)
      PROVE  FALSE
  <2>1. CASE CreateComponent(d)
    <3>1. components' = [components EXCEPT ![d].phase = "Pending"]
      BY <2>1 DEF CreateComponent
    <3>2. components'[d].phase = "Pending"
      BY <3>1 DEF ComponentRow
    <3>3. d # c => components'[c] = components[c]
      BY <3>1
    <3> QED BY <3>2, <3>3
  <2>2. CASE DeleteComponent(d)
    <3>1. components' = [components EXCEPT ![d] = NoRow("Deleted")]
      BY <2>2 DEF DeleteComponent
    <3>2. components'[d].phase = "Deleted"
      BY <3>1 DEF NoRow
    <3>3. d # c => components'[c] = components[c]
      BY <3>1
    <3> QED BY <3>2, <3>3
  <2> QED BY <1>3, <2>1, <2>2
<1>4. UNCHANGED components => FALSE
  OBVIOUS
<1> QED
  BY <1>1, <1>2, <1>3, <1>4
     DEF BrokerNext, StoreNext, BuildNext, BuildRequest, BuildHandler,
         BuildMarkFails, Broker, BrokerCreate, BrokerStartExecution, Clone,
         BuildRefused, DockerBuildFails, DockerBuild, Inspect, BrokerLog,
         BrokerSucceed, BrokerFailPhase, BrokerAborts, BuildCrash,
         storeVars, brokerVars

(* Overlapping builds never leave a component Building for ever: while it  *)
(* is Building some build of it will still write its status, unless that   *)
(* build was stopped by a crash or by a failed store call.                 *)
THEOREM BuildingAlwaysOwned == BrokerSpec => []BuildingHasOwner
<1>1. BrokerInit => BuildingHasOwner
  BY DEF BrokerInit, StoreInit, NoRow, BuildingHasOwner
<1>2. BrokerTypeOK /\ BuildingHasOwner /\ [BrokerNext]_brokerVars
        => BuildingHasOwner'
  <2> SUFFICES ASSUME BrokerTypeOK, BuildingHasOwner, [BrokerNext]_brokerVars,
                      NEW c \in Components, components'[c].phase = "Building"
               PROVE  \E b \in Builds : Target[b] = c /\ Owner(b)'
    BY DEF BuildingHasOwner, Owner
  <2>1. CASE components[c].phase = "Building"
    <3>1. PICK b \in Builds : Target[b] = c /\ Owner(b)
      BY <2>1 DEF BuildingHasOwner, Owner
    <3> QED BY <3>1, OwnerStep
  <2>2. CASE components[c].phase # "Building"
    BY <2>2, NewBuilding
  <2> QED BY <2>1, <2>2
<1> QED BY <1>1, <1>2, BrokerTypeCorrect, PTL DEF BrokerSpec

---------------------------------------------------------------------------
(* The image a component shows is its own.  The chain from docker build to *)
(* the row has three links: where a tag points, what a build read back     *)
(* from its tag, and what it wrote; each only ever holds an image built    *)
(* from the component's source, and images are never unbuilt.              *)

OwnImage(builds, c) == \E b \in builds : Target[b] = c

TagsOwn ==
  \A tag \in Tags, c \in Components :
    (tags[tag] # NoDigest /\ tag \in TagsOf[c]) => OwnImage(images[tags[tag]], c)
ResultsOwn ==
  \A b \in Builds : result[b].digest # NoDigest =>
    OwnImage(images[result[b].digest], Target[b])
RowsOwn ==
  \A c \in Components : components[c].digest # NoDigest =>
    OwnImage(images[components[c].digest], c)
OwnImages == TagsOwn /\ ResultsOwn /\ RowsOwn

\* Only docker build and docker inspect touch the daemon or a BuildResult.
LEMMA DaemonStep ==
  ASSUME [BrokerNext]_brokerVars
  PROVE  \/ UNCHANGED <<result, tags, images>>
         \/ \E b \in Builds : DockerBuild(b) \/ Inspect(b)
BY DEF BrokerNext, StoreNext, BuildNext, BuildRequest, BuildHandler, BuildMark,
       BuildMarkFails, Broker, BrokerCreate, BrokerMarkBuilding,
       BrokerStartExecution, Clone, BuildRefused, DockerBuildFails, BrokerLog,
       BrokerBuilt, BrokerSucceed, BrokerFailStatus, BrokerFailPhase,
       BrokerAborts, BuildCrash, buildVars, brokerVars

LEMMA ImagesStay ==
  ASSUME BrokerTypeOK, [BrokerNext]_brokerVars
  PROVE  \A digest \in Digests : images[digest] \subseteq images'[digest]
BY DaemonStep DEF DockerBuild, Inspect, BrokerTypeOK, BuildTypeOK

\* A row's digest is the old one, NULL, or the digest a build of that
\* component has just read.
LEMMA RowStep ==
  ASSUME BrokerTypeOK, [BrokerNext]_brokerVars, NEW c \in Components
  PROVE  \/ components'[c].digest \in {components[c].digest, NoDigest}
         \/ \E b \in Builds : /\ Target[b] = c
                              /\ components'[c].digest = result[b].digest
<1> USE DEF BrokerTypeOK, StoreTypeOK
<1>1. ASSUME NEW b \in Builds,
             BuildMark(b) \/ BrokerMarkBuilding(b) \/ BrokerFailStatus(b)
      PROVE  components'[c].digest \in {components[c].digest, NoDigest}
  BY <1>1, BuildIsTask
     DEF BuildMark, BrokerMarkBuilding, BrokerFailStatus, UpdateBuildStatus
<1>2. ASSUME NEW b \in Builds, BrokerBuilt(b)
      PROVE  \/ components'[c].digest = components[c].digest
             \/ /\ Target[b] = c
                /\ components'[c].digest = result[b].digest
  BY <1>2, BuildIsTask DEF BrokerBuilt, UpdateBuildStatus
<1>3. ASSUME NEW d \in Components, CreateComponent(d)
      PROVE  components'[c].digest = components[c].digest
  <2>1. components' = [components EXCEPT ![d].phase = "Pending"]
    BY <1>3 DEF CreateComponent
  <2>2. CASE d = c
    <3>1. components[c] \in ComponentRow
      OBVIOUS
    <3>2. components'[c] = [components[c] EXCEPT !.phase = "Pending"]
      BY <2>1, <2>2
    <3> QED BY <3>1, <3>2 DEF ComponentRow
  <2>3. CASE d # c
    BY <2>1, <2>3
  <2> QED BY <2>2, <2>3
<1>4. ASSUME NEW d \in Components, DeleteComponent(d)
      PROVE  components'[c].digest \in {components[c].digest, NoDigest}
  BY <1>4 DEF DeleteComponent, NoRow
<1>5. \/ UNCHANGED components
      \/ \E d \in Components : CreateComponent(d) \/ DeleteComponent(d)
      \/ \E b \in Builds : \/ BuildMark(b) \/ BrokerMarkBuilding(b)
                           \/ BrokerFailStatus(b) \/ BrokerBuilt(b)
  BY DEF BrokerNext, StoreNext, BuildNext, BuildRequest, BuildHandler,
         BuildMarkFails, Broker, BrokerCreate, BrokerStartExecution, Clone,
         BuildRefused, DockerBuildFails, DockerBuild, Inspect, BrokerLog,
         BrokerSucceed, BrokerFailPhase, BrokerAborts, BuildCrash,
         storeVars, brokerVars
<1> QED BY <1>1, <1>2, <1>3, <1>4, <1>5

LEMMA OwnImagesStep ==
  ASSUME DisjointTags, BrokerTypeOK, TagKnown, OwnImages,
         [BrokerNext]_brokerVars
  PROVE  OwnImages'
<1> USE DEF BrokerTypeOK, BuildTypeOK
<1>1. TagsOwn'
  <2> SUFFICES ASSUME NEW tag \in Tags, NEW c \in Components,
                      tags'[tag] # NoDigest, tag \in TagsOf[c]
               PROVE  OwnImage(images'[tags'[tag]], c)
    BY DEF TagsOwn, OwnImage
  <2>1. CASE tags'[tag] = tags[tag]
    BY <2>1, ImagesStay DEF OwnImages, TagsOwn, OwnImage
  <2>2. CASE tags'[tag] # tags[tag]
    <3>1. PICK b \in Builds : DockerBuild(b)
      BY <2>2, DaemonStep DEF Inspect
    <3>2. PICK t \in TagsOf[Target[b]], image \in Digests :
            /\ tags' = [tags EXCEPT ![t] = image]
            /\ images' = [images EXCEPT ![image] = @ \cup {b}]
      BY <3>1 DEF DockerBuild
    <3>3. t = tag /\ tags'[tag] = image
      BY <2>2, <3>2
    <3>4. Target[b] = c
      BY <3>3, BuildIsTask DEF DisjointTags
    <3>5. b \in images'[image]
      BY <3>2
    <3> QED BY <3>3, <3>4, <3>5 DEF OwnImage
  <2> QED BY <2>1, <2>2
<1>2. ResultsOwn'
  <2> SUFFICES ASSUME NEW b \in Builds, result'[b].digest # NoDigest
               PROVE  OwnImage(images'[result'[b].digest], Target[b])
    BY DEF ResultsOwn, OwnImage
  <2>1. CASE result'[b] = result[b]
    BY <2>1, ImagesStay DEF OwnImages, ResultsOwn, OwnImage
  <2>2. CASE result'[b] # result[b]
    <3>1. PICK d \in Builds : DockerBuild(d) \/ Inspect(d)
      BY <2>2, DaemonStep
    <3>2. d = b
      BY <2>2, <3>1 DEF DockerBuild, Inspect
    <3>3. ~DockerBuild(b)
      BY DEF DockerBuild
    <3>4. Inspect(b)
      BY <3>1, <3>2, <3>3
    <3>5. result'[b].digest = tags[result[b].tag]
      BY <3>4 DEF Inspect, InspectedDigest
    <3>6. result[b].tag \in TagsOf[Target[b]]
      BY <3>4 DEF Inspect, TagKnown
    <3>7. /\ result[b].tag \in Tags
          /\ tags[result[b].tag] \in Digests
          /\ OwnImage(images[tags[result[b].tag]], Target[b])
      BY <3>5, <3>6, BuildIsTask DEF OwnImages, TagsOwn
    <3>8. UNCHANGED images
      BY <3>4 DEF Inspect
    <3> QED BY <3>5, <3>7, <3>8
  <2> QED BY <2>1, <2>2
<1>3. RowsOwn'
  <2> SUFFICES ASSUME NEW c \in Components, components'[c].digest # NoDigest
               PROVE  OwnImage(images'[components'[c].digest], c)
    BY DEF RowsOwn, OwnImage
  <2>1. \E digest \in Digests :
          /\ digest = components'[c].digest
          /\ OwnImage(images[digest], c)
    <3>1. CASE components'[c].digest = components[c].digest
      <4>1. components[c] \in ComponentRow
        BY DEF StoreTypeOK
      <4> QED BY <3>1, <4>1 DEF ComponentRow, OwnImages, RowsOwn
    <3>2. ASSUME NEW b \in Builds, Target[b] = c,
                 components'[c].digest = result[b].digest
          PROVE  /\ result[b].digest \in Digests
                 /\ OwnImage(images[result[b].digest], c)
      BY <3>2 DEF OwnImages, ResultsOwn
    <3> QED BY <3>1, <3>2, RowStep
  <2> QED BY <2>1, ImagesStay DEF OwnImage
<1> QED BY <1>1, <1>2, <1>3 DEF OwnImages

(* When no two components share an image repository, a component never     *)
(* shows an image built from another one's source, although every digest   *)
(* is read back by tag after other builds may have moved that tag.         *)
THEOREM DigestOwnership == BrokerSpec => []DigestIsOwnImage
<1>1. BrokerInit => OwnImages
  BY DEF BrokerInit, StoreInit, BuildInit, NoRow, OwnImages, TagsOwn,
         ResultsOwn, RowsOwn
<1>2. DisjointTags /\ BrokerTypeOK /\ TagKnown /\ OwnImages
        /\ [BrokerNext]_brokerVars => OwnImages'
  BY OwnImagesStep
<1>3. (DisjointTags => OwnImages) => DigestIsOwnImage
  BY DEF OwnImages, RowsOwn, OwnImage, DigestIsOwnImage
<1>4. DisjointTags' <=> DisjointTags
  BY DEF DisjointTags
<1>5. (DisjointTags => OwnImages) /\ BrokerTypeOK /\ TagKnown
        /\ [BrokerNext]_brokerVars => (DisjointTags => OwnImages)'
  BY <1>2, <1>4
<1>6. BrokerInit => (DisjointTags => OwnImages)
  BY <1>1
<1> QED BY <1>3, <1>5, <1>6, BrokerTypeCorrect, PTL DEF BrokerSpec
---------------------------------------------------------------------------
(* What a build leaves behind: its Execution tells its outcome and only    *)
(* moves forward, its clone directory is gone when it returns, a Failed    *)
(* component has a cause, and a phase comes with its image or without one. *)
(* The first three are about one build at a time: a build's program        *)
(* counter, result, Execution and directory are changed by its own steps   *)
(* and by a crash only.  The rest follows for the shared row.              *)

BeforeCreate == {"idle", "mark", "create"}
Opened == {"markBuilding", "startExecution"}
AtWork == BuildWorking \cup {"log", "built", "succeed", "failStatus",
                             "failPhase"}

\* How far the Execution of b is at each step of b.
ExecutionFollows(b) ==
  /\ bpc[b] \in BeforeCreate => executions[b].phase = "Absent"
  /\ bpc[b] \in Opened => executions[b].phase = "Pending"
  /\ bpc[b] \in AtWork => executions[b].phase = "Running"
  /\ executions[b].phase \in {"Succeeded", "Failed"} => bpc[b] = "done"
  /\ storeError[b] # "none" => bpc[b] = "done"
  /\ (executions[b].phase \in {"Pending", "Running"} /\ bpc[b] = "done") =>
       storeError[b] # "none"

\* Whether b has an image to show at each step of b.
ImageFollows(b) ==
  /\ \/ bpc[b] \in BeforeCreate \cup Opened \cup BuildWorking
     \/ bpc[b] \in {"failStatus", "failPhase"}
     \/ executions[b].phase = "Failed"
     => result[b].digest = NoDigest
  /\ bpc[b] \in {"built", "succeed"} \/ executions[b].phase = "Succeeded" =>
       /\ result[b].digest # NoDigest
       /\ executions[b].logged /\ executions[b].tag = result[b].tag

DirFollows(b) ==
  /\ bpc[b] \in BuildLive => b \in cloneDirs
  /\ bpc[b] \in {"idle", "done"} => b \notin cloneDirs

BuildFollows(b) == ExecutionFollows(b) /\ ImageFollows(b) /\ DirFollows(b)
OutcomeInv == \A b \in Builds : BuildFollows(b)

---------------------------------------------------------------------------
\* What is a build's own.
Untouched(b) ==
  /\ bpc'[b] = bpc[b] /\ result'[b] = result[b]
  /\ executions'[b] = executions[b] /\ storeError'[b] = storeError[b]
  /\ b \in cloneDirs' <=> b \in cloneDirs

LEMMA OwnSteps ==
  ASSUME BrokerTypeOK, [BrokerNext]_brokerVars, NEW b \in Builds
  PROVE  \/ Untouched(b)
         \/ BuildRequest(b) \/ BuildHandler(b) \/ Broker(b)
         \/ BuildCrash
<1> USE BuildIsTask DEF BrokerTypeOK, StoreTypeOK, BuildTypeOK, Untouched
<1>1. ASSUME NEW d \in Builds, d # b,
             \/ BuildRequest(d) \/ BuildMark(d) \/ Clone(d) \/ BuildRefused(d)
             \/ DockerBuildFails(d) \/ DockerBuild(d) \/ Inspect(d)
             \/ BrokerMarkBuilding(d) \/ BrokerBuilt(d) \/ BrokerFailStatus(d)
      PROVE  Untouched(b)
  BY <1>1 DEF BuildRequest, BuildMark, Clone, BuildRefused, DockerBuildFails,
              DockerBuild, Inspect, BrokerMarkBuilding, BrokerBuilt,
              BrokerFailStatus, Goto, storeVars
<1>2. ASSUME NEW d \in Builds, d # b,
             \/ BrokerCreate(d) \/ BrokerStartExecution(d) \/ BrokerLog(d)
      PROVE  Untouched(b)
  BY <1>2 DEF BrokerCreate, BrokerStartExecution, BrokerLog, CreateExecution,
              UpdatePhase, UpdateBuildLog, Goto
<1>3. ASSUME NEW d \in Builds, d # b,
             \/ BuildMarkFails(d) \/ BrokerSucceed(d) \/ BrokerFailPhase(d)
             \/ BrokerAborts(d)
      PROVE  Untouched(b)
  BY <1>3 DEF BuildMarkFails, BrokerSucceed, BrokerFailPhase, BrokerAborts,
              UpdatePhase, CallFails, Return, Goto
<1>4. CASE (StoreNext /\ UNCHANGED buildVars) \/ UNCHANGED brokerVars
  BY <1>4 DEF StoreNext, CreateComponent, DeleteComponent, buildVars,
              brokerVars, storeVars
<1> QED
  BY <1>1, <1>2, <1>3, <1>4 DEF BrokerNext, BuildNext, BuildHandler, Broker

LEMMA OwnStepFollows ==
  ASSUME BrokerTypeOK, [BrokerNext]_brokerVars, NEW b \in Builds,
         BuildFollows(b)
  PROVE  BuildFollows(b)'
<1> USE BuildIsTask
    DEF BrokerTypeOK, StoreTypeOK, BuildTypeOK, BuildFollows, ExecutionFollows,
        ImageFollows, DirFollows, BeforeCreate, Opened, AtWork, BuildLive,
        BuildStoreCall, BuildWorking
<1>a. executions[b] \in ExecutionRow
  OBVIOUS
<1>b. result[b] \in [tag : Tags \cup {NoTag}, digest : Digests \cup {NoDigest}]
  OBVIOUS
<1>1. CASE Untouched(b)
  BY <1>1 DEF Untouched
<1>2. CASE BuildRequest(b)
  BY <1>2 DEF BuildRequest, Goto, storeVars
<1>3. CASE BuildMark(b) \/ BrokerMarkBuilding(b)
  BY <1>3 DEF BuildMark, BrokerMarkBuilding, Goto
<1>4. CASE BuildMarkFails(b)
  BY <1>4 DEF BuildMarkFails, Return, Goto, CallFails
<1>5. CASE BrokerCreate(b)
  <2>1. executions'[b] = [executions[b] EXCEPT !.phase = "Pending"]
    BY <1>5 DEF BrokerCreate, CreateExecution
  <2>2. executions'[b].phase = "Pending"
    BY <1>a, <2>1 DEF ExecutionRow
  <2> QED BY <1>5, <2>2 DEF BrokerCreate, Goto
<1>6. CASE BrokerStartExecution(b)
  <2>1. executions'[b].phase = "Running"
    BY <1>a, <1>6 DEF BrokerStartExecution, UpdatePhase, ExecutionRow
  <2> QED BY <1>6, <2>1 DEF BrokerStartExecution, Goto
<1>7. CASE Clone(b) \/ BuildRefused(b) \/ DockerBuildFails(b)
  BY <1>7 DEF Clone, BuildRefused, DockerBuildFails, Goto, storeVars
<1>8. CASE DockerBuild(b)
  <2>1. result'[b].digest = NoDigest
    BY <1>8 DEF DockerBuild
  <2> QED BY <1>8, <2>1 DEF DockerBuild, Goto, storeVars
<1>9. CASE Inspect(b)
  BY <1>9 DEF Inspect, Goto, storeVars
<1>10. CASE BrokerLog(b)
  <2>1. executions'[b] = [executions[b] EXCEPT !.tag = result[b].tag,
                                               !.logged = TRUE]
    BY <1>10 DEF BrokerLog, UpdateBuildLog
  <2>2. /\ executions'[b].phase = executions[b].phase
        /\ executions'[b].logged /\ executions'[b].tag = result[b].tag
    BY <1>a, <2>1 DEF ExecutionRow
  <2> QED BY <1>10, <2>2 DEF BrokerLog, AfterLog, Goto
<1>11. CASE BrokerBuilt(b) \/ BrokerFailStatus(b)
  BY <1>11 DEF BrokerBuilt, BrokerFailStatus, Goto
<1>12. CASE BrokerSucceed(b)
  <2>1. executions'[b] = [executions[b] EXCEPT !.phase = "Succeeded",
                            !.started = TRUE, !.completed = TRUE]
    BY <1>12 DEF BrokerSucceed, UpdatePhase
  <2>2. /\ executions'[b].phase = "Succeeded"
        /\ executions'[b].logged = executions[b].logged
        /\ executions'[b].tag = executions[b].tag
    BY <1>a, <2>1 DEF ExecutionRow
  <2> QED BY <1>12, <2>2 DEF BrokerSucceed, Return, Goto
<1>13. CASE BrokerFailPhase(b)
  <2>1. executions'[b].phase = "Failed"
    BY <1>a, <1>13 DEF BrokerFailPhase, UpdatePhase, ExecutionRow
  <2> QED BY <1>13, <2>1 DEF BrokerFailPhase, Return, Goto
<1>14. CASE BrokerAborts(b)
  BY <1>14 DEF BrokerAborts, CallFails, Return, Goto
<1>15. CASE BuildCrash
  BY <1>15 DEF BuildCrash, BuildsLost, storeVars
<1> QED
  BY OwnSteps, <1>1, <1>2, <1>3, <1>4, <1>5, <1>6, <1>7, <1>8, <1>9, <1>10,
     <1>11, <1>12, <1>13, <1>14, <1>15 DEF BuildHandler, Broker

(* The inductive invariant: at every step of a build, its Execution, its   *)
(* result and its clone directory are as far as its program counter says.  *)
THEOREM BuildsFollow == BrokerSpec => []OutcomeInv
<1>1. BrokerInit => OutcomeInv
  BY BuildIsTask
     DEF OutcomeInv, BrokerInit, StoreInit, BuildInit, BuildFollows, ExecutionFollows,
         ImageFollows, DirFollows, BeforeCreate, Opened, AtWork, BuildLive,
         BuildStoreCall, BuildWorking
<1>2. BrokerTypeOK /\ OutcomeInv /\ [BrokerNext]_brokerVars => OutcomeInv'
  BY OwnStepFollows DEF OutcomeInv
<1> QED BY <1>1, <1>2, BrokerTypeCorrect, PTL DEF BrokerSpec

(* The Execution tells the truth about the build: Succeeded means that its *)
(* image was inspected and its tag and log stored, Failed that none was,   *)
(* and only a write error or a crash leaves it open.                       *)
THEOREM OutcomeTold == BrokerSpec => []ExecutionTellsOutcome
<1>1. OutcomeInv => ExecutionTellsOutcome
  BY DEF OutcomeInv, BuildFollows, ExecutionFollows, ImageFollows, ExecutionTellsOutcome
<1> QED BY <1>1, BuildsFollow, PTL

(* What Broker.Run's comment promises of a failed build is broken in one   *)
(* way only, the one the run BuildFailureLost shows: the write of the log, *)
(* before that of the failure, is refused and ends the goroutine.          *)
THEOREM OnlyTheLogLosesFailures ==
  BrokerSpec => [](FailurePersisted \/ \E b \in Builds : storeError[b] = "log")
<1>1. OutcomeInv => FailurePersisted \/ \E b \in Builds : storeError[b] = "log"
  BY DEF OutcomeInv, BuildFollows, ExecutionFollows, ImageFollows,
         FailurePersisted, Executed, ExecutionPhase
<1> QED BY <1>1, BuildsFollow, PTL

(* The clone directory is there while git and docker work in it and gone   *)
(* when the build has returned, by whichever of its paths.                 *)
THEOREM CloneDirGone == BrokerSpec => []CloneDirMatchesBuild
<1>1. OutcomeInv => CloneDirMatchesBuild
  BY DEF OutcomeInv, BuildFollows, DirFollows, CloneDirMatchesBuild, BuildLive
<1> QED BY <1>1, BuildsFollow, PTL
---------------------------------------------------------------------------
(* An Execution is written by its own build only, and each write is the    *)
(* next one of its history.                                                *)
LEMMA WriteForward ==
  ASSUME BrokerTypeOK, OutcomeInv, [BrokerNext]_brokerVars, NEW t \in Tasks,
         executions'[t] # executions[t]
  PROVE  /\ executions[t].phase \notin {"Succeeded", "Failed"}
         /\ executions'[t].phase = "Pending" => executions[t].phase = "Absent"
         /\ executions'[t].phase = "Running" =>
              executions[t].phase \in {"Pending", "Running"}
         /\ executions'[t].phase \in {"Succeeded", "Failed"} =>
              executions[t].phase = "Running" /\ executions'[t].completed
         /\ executions[t].started => executions'[t].started
<1> USE DEF BrokerTypeOK, StoreTypeOK, BuildTypeOK
<1>1. t \in Builds
  BY DEF BrokerNext, StoreNext, CreateComponent, DeleteComponent, BuildNext,
         BuildRequest, BuildHandler, BuildMark, BuildMarkFails, Broker,
         BrokerCreate, BrokerMarkBuilding, BrokerStartExecution, Clone,
         BuildRefused, DockerBuildFails, DockerBuild, Inspect, BrokerLog,
         BrokerBuilt, BrokerSucceed, BrokerFailStatus, BrokerFailPhase,
         BrokerAborts, BuildCrash, CreateExecution, UpdatePhase,
         UpdateBuildLog, storeVars, brokerVars
<1>2. BuildFollows(t)
  BY <1>1 DEF OutcomeInv
<1>3. executions[t] \in ExecutionRow
  OBVIOUS
<1>4. \/ BrokerCreate(t) \/ BrokerStartExecution(t) \/ BrokerLog(t)
      \/ BrokerSucceed(t) \/ BrokerFailPhase(t)
  BY <1>1, OwnSteps
     DEF Untouched, BuildRequest, BuildHandler, BuildMark, BuildMarkFails,
         Broker, BrokerMarkBuilding, Clone, BuildRefused, DockerBuildFails,
         DockerBuild, Inspect, BrokerBuilt, BrokerFailStatus, BrokerAborts,
         BuildCrash, storeVars
<1> USE DEF BuildFollows, ExecutionFollows, BeforeCreate, Opened, AtWork
<1>5. CASE BrokerCreate(t)
  BY <1>2, <1>3, <1>5 DEF BrokerCreate, CreateExecution, ExecutionRow
<1>6. CASE BrokerStartExecution(t)
  BY <1>2, <1>3, <1>6 DEF BrokerStartExecution, UpdatePhase, ExecutionRow
<1>7. CASE BrokerLog(t)
  BY <1>2, <1>3, <1>7 DEF BrokerLog, UpdateBuildLog, ExecutionRow
<1>8. CASE BrokerSucceed(t) \/ BrokerFailPhase(t)
  <2>1. PICK phase \in {"Succeeded", "Failed"} :
          executions'[t] = [executions[t] EXCEPT !.phase = phase,
                              !.started = TRUE, !.completed = TRUE]
    BY <1>8 DEF BrokerSucceed, BrokerFailPhase, UpdatePhase
  <2>2. /\ executions'[t].phase = phase
        /\ executions'[t].started /\ executions'[t].completed
    BY <1>3, <2>1 DEF ExecutionRow
  <2>3. executions[t].phase = "Running"
    BY <1>1, <1>2, <1>8 DEF BrokerSucceed, BrokerFailPhase
  <2> QED BY <2>2, <2>3
<1> QED BY <1>4, <1>5, <1>6, <1>7, <1>8

(* An Execution's history only moves forward, and a start time once        *)
(* recorded is never lost, although every write sets both timestamps.      *)
THEOREM HistoryMovesForward == BrokerSpec => ExecutionMovesForward
<1> DEFINE Forward ==
      \A t \in Tasks : executions'[t] # executions[t] =>
        LET old == executions[t]  new == executions'[t] IN
        /\ old.phase \notin {"Succeeded", "Failed"}
        /\ new.phase = "Pending" => old.phase = "Absent"
        /\ new.phase = "Running" => old.phase \in {"Pending", "Running"}
        /\ new.phase \in {"Succeeded", "Failed"} =>
             old.phase = "Running" /\ new.completed
        /\ old.started => new.started
<1>1. BrokerTypeOK /\ OutcomeInv /\ [BrokerNext]_brokerVars
        => [Forward]_executions
  BY WriteForward
<1>2. ExecutionMovesForward <=> [][Forward]_executions
  BY DEF ExecutionMovesForward
<1> HIDE DEF Forward
<1> QED BY <1>1, <1>2, BuildsFollow, BrokerTypeCorrect, PTL DEF BrokerSpec

---------------------------------------------------------------------------
(* The shared row.  A step leaves it alone, or writes one of six rows.     *)

LEMMA RowForms ==
  ASSUME BrokerTypeOK, [BrokerNext]_brokerVars, NEW c \in Components
  PROVE  \/ components'[c] = components[c]
         \/ /\ components[c].phase = "Absent"
            /\ components'[c] = [components[c] EXCEPT !.phase = "Pending"]
         \/ components'[c] = NoRow("Deleted")
         \/ components'[c] = NoRow("Building")
         \/ \E b \in Builds :
              /\ Target[b] = c /\ BrokerBuilt(b)
              /\ components'[c] = [phase |-> "Built",
                                   digest |-> result[b].digest,
                                   error |-> NoTask]
         \/ \E b \in Builds :
              /\ Target[b] = c /\ BrokerFailStatus(b)
              /\ components'[c] = [phase |-> "Failed", digest |-> NoDigest,
                                   error |-> b]
<1> USE BuildIsTask DEF BrokerTypeOK, StoreTypeOK
<1>1. ASSUME NEW b \in Builds, BuildMark(b) \/ BrokerMarkBuilding(b)
      PROVE  components'[c] \in {components[c], NoRow("Building")}
  BY <1>1 DEF BuildMark, BrokerMarkBuilding, UpdateBuildStatus, NoRow
<1>2. ASSUME NEW b \in Builds, BrokerBuilt(b)
      PROVE  \/ components'[c] = components[c]
             \/ /\ Target[b] = c
                /\ components'[c] = [phase |-> "Built",
                                     digest |-> result[b].digest,
                                     error |-> NoTask]
  BY <1>2 DEF BrokerBuilt, UpdateBuildStatus
<1>3. ASSUME NEW b \in Builds, BrokerFailStatus(b)
      PROVE  \/ components'[c] = components[c]
             \/ /\ Target[b] = c
                /\ components'[c] = [phase |-> "Failed", digest |-> NoDigest,
                                     error |-> b]
  BY <1>3 DEF BrokerFailStatus, UpdateBuildStatus
<1>4. ASSUME NEW d \in Components, CreateComponent(d)
      PROVE  \/ components'[c] = components[c]
             \/ /\ components[c].phase = "Absent"
                /\ components'[c] = [components[c] EXCEPT !.phase = "Pending"]
  BY <1>4 DEF CreateComponent
<1>5. ASSUME NEW d \in Components, DeleteComponent(d)
      PROVE  components'[c] \in {components[c], NoRow("Deleted")}
  BY <1>5 DEF DeleteComponent
<1>6. \/ UNCHANGED components
      \/ \E d \in Components : CreateComponent(d) \/ DeleteComponent(d)
      \/ \E b \in Builds : \/ BuildMark(b) \/ BrokerMarkBuilding(b)
                           \/ BrokerFailStatus(b) \/ BrokerBuilt(b)
  BY DEF BrokerNext, StoreNext, BuildNext, BuildRequest, BuildHandler,
         BuildMarkFails, Broker, BrokerCreate, BrokerStartExecution, Clone,
         BuildRefused, DockerBuildFails, DockerBuild, Inspect, BrokerLog,
         BrokerSucceed, BrokerFailPhase, BrokerAborts, BuildCrash,
         storeVars, brokerVars
<1> QED BY <1>1, <1>2, <1>3, <1>4, <1>5, <1>6

\* The phases a row has before its first build, while one is under way and
\* after one that failed carry no image; Built does.
RowsMatch ==
  \A c \in Components :
    /\ components[c].phase \in {"Absent", "Deleted", "Pending", "Building",
                               "Failed"} => components[c].digest = NoDigest
    /\ components[c].phase = "Built" => components[c].digest # NoDigest

(* Whatever builds overlap, Built never appears without its image, and no  *)
(* other phase of a build with one.                                        *)
THEOREM DigestFollowsPhase == BrokerSpec => []DigestMatchesPhase
<1>1. BrokerInit => RowsMatch
  <2> SUFFICES ASSUME BrokerInit, NEW c \in Components
               PROVE  /\ components[c].digest = NoDigest
                      /\ components[c].phase = "Absent"
    BY DEF RowsMatch
  <2>1. components[c] = NoRow("Absent")
    BY DEF BrokerInit, StoreInit
  <2> QED BY <2>1 DEF NoRow
<1>2. BrokerTypeOK /\ OutcomeInv /\ RowsMatch /\ [BrokerNext]_brokerVars
        => RowsMatch'
  <2> SUFFICES ASSUME BrokerTypeOK, OutcomeInv, RowsMatch,
                      [BrokerNext]_brokerVars, NEW c \in Components
               PROVE  /\ components'[c].phase \in
                           {"Absent", "Deleted", "Pending", "Building", "Failed"}
                           => components'[c].digest = NoDigest
                      /\ components'[c].phase = "Built" =>
                           components'[c].digest # NoDigest
    BY DEF RowsMatch
  <2>1. components[c] \in ComponentRow
    BY DEF BrokerTypeOK, StoreTypeOK
  <2>2. \A b \in Builds : bpc[b] = "built" => result[b].digest # NoDigest
    BY DEF OutcomeInv, BuildFollows, ImageFollows
  <2>3. CASE components'[c] = components[c]
    BY <2>3 DEF RowsMatch
  <2>4. CASE /\ components[c].phase = "Absent"
             /\ components'[c] = [components[c] EXCEPT !.phase = "Pending"]
    BY <2>1, <2>4 DEF RowsMatch, ComponentRow
  <2>5. CASE \E phase \in {"Deleted", "Building"} :
               components'[c] = NoRow(phase)
    BY <2>5 DEF NoRow
  <2>6. ASSUME NEW b \in Builds, bpc[b] = "built",
               components'[c] = [phase |-> "Built", digest |-> result[b].digest,
                                 error |-> NoTask]
        PROVE  /\ components'[c].phase = "Built"
               /\ components'[c].digest # NoDigest
    BY <2>2, <2>6
  <2>7. CASE \E b \in Builds :
               components'[c] = [phase |-> "Failed", digest |-> NoDigest,
                                 error |-> b]
    BY <2>7
  <2>8. \/ components'[c] = components[c]
        \/ /\ components[c].phase = "Absent"
           /\ components'[c] = [components[c] EXCEPT !.phase = "Pending"]
        \/ \E phase \in {"Deleted", "Building"} : components'[c] = NoRow(phase)
        \/ \E b \in Builds :
             /\ bpc[b] = "built"
             /\ components'[c] = [phase |-> "Built", digest |-> result[b].digest,
                                  error |-> NoTask]
        \/ \E b \in Builds :
             components'[c] = [phase |-> "Failed", digest |-> NoDigest,
                               error |-> b]
    BY RowForms DEF BrokerBuilt
  <2> QED BY <2>3, <2>4, <2>5, <2>6, <2>7, <2>8
<1>3. RowsMatch => DigestMatchesPhase
  BY DEF RowsMatch, DigestMatchesPhase
<1> QED BY <1>1, <1>2, <1>3, BuildsFollow, BrokerTypeCorrect, PTL DEF BrokerSpec

\* The Execution of b is Failed, or is going to be, or was left open.
Told(b) ==
  \/ executions[b].phase = "Failed"
  \/ /\ executions[b].phase = "Running"
     /\ bpc[b] \in {"failPhase", "lost"} \/ storeError[b] # "none"

LEMMA ToldStays ==
  ASSUME BrokerTypeOK, OutcomeInv, [BrokerNext]_brokerVars,
         NEW b \in Builds, Told(b)
  PROVE  Told(b)'
<1> USE BuildIsTask
    DEF BrokerTypeOK, StoreTypeOK, BuildTypeOK, Told, OutcomeInv,
        BuildFollows, ExecutionFollows
<1>1. bpc[b] \in {"failPhase", "lost", "done"}
  OBVIOUS
<1>2. CASE Untouched(b)
  BY <1>2 DEF Untouched
<1>3. CASE BuildCrash
  BY <1>1, <1>3 DEF BuildCrash, BuildsLost, storeVars
<1>4. CASE BrokerFailPhase(b)
  <2>1. executions[b] \in ExecutionRow
    OBVIOUS
  <2> QED BY <1>4, <2>1 DEF BrokerFailPhase, UpdatePhase, ExecutionRow
<1>5. CASE BrokerAborts(b)
  <2>1. storeError'[b] = "failPhase" /\ UNCHANGED executions
    BY <1>1, <1>5 DEF BrokerAborts, CallFails, BuildStoreCall
  <2>2. executions[b].phase = "Running"
    BY <1>1, <1>5 DEF BrokerAborts, BuildStoreCall, AtWork
  <2> QED BY <2>1, <2>2
<1> QED
  BY OwnSteps, <1>1, <1>2, <1>3, <1>4, <1>5
     DEF BuildRequest, BuildHandler, BuildMark, BuildMarkFails, Broker,
         BrokerCreate, BrokerMarkBuilding, BrokerStartExecution, Clone,
         BuildRefused, DockerBuildFails, DockerBuild, Inspect, BrokerLog,
         BrokerBuilt, BrokerSucceed, BrokerFailStatus

(* A Failed component names a build of its own whose Execution is Failed,  *)
(* is about to be, or was left open by a crash or a failed write; and no   *)
(* other phase shows an error.                                             *)
THEOREM FailureExplained == BrokerSpec => []FailedHasCause
<1> DEFINE Explained(c) ==
      IF components[c].phase = "Failed"
      THEN /\ components[c].error \in Builds
           /\ Target[components[c].error] = c
           /\ Told(components[c].error)
      ELSE components[c].error = NoTask
<1>1. FailedHasCause <=> \A c \in Components : Explained(c)
  BY DEF FailedHasCause, Told
<1>2. BrokerInit => FailedHasCause
  <2> SUFFICES ASSUME BrokerInit, NEW c \in Components
               PROVE  /\ components[c].phase = "Absent"
                      /\ components[c].error = NoTask
    BY DEF FailedHasCause
  <2>1. components[c] = NoRow("Absent")
    BY DEF BrokerInit, StoreInit
  <2> QED BY <2>1 DEF NoRow
<1>3. BrokerTypeOK /\ OutcomeInv /\ FailedHasCause /\ [BrokerNext]_brokerVars
        => FailedHasCause'
  <2> SUFFICES ASSUME BrokerTypeOK, OutcomeInv, FailedHasCause,
                      [BrokerNext]_brokerVars, NEW c \in Components
               PROVE  Explained(c)'
    BY DEF FailedHasCause, Told
  <2>1. components[c] \in ComponentRow /\ Explained(c)
    BY <1>1 DEF BrokerTypeOK, StoreTypeOK
  <2>2. CASE components'[c] = components[c]
    BY <2>1, <2>2, ToldStays
  <2>3. ASSUME NEW b \in Builds, Target[b] = c, BrokerFailStatus(b),
               components'[c] = [phase |-> "Failed", digest |-> NoDigest,
                                 error |-> b]
        PROVE  Explained(c)'
    <3>1. executions'[b].phase = "Running" /\ bpc'[b] = "failPhase"
      BY <2>3 DEF BrokerFailStatus, Goto, OutcomeInv, BuildFollows,
                  ExecutionFollows, AtWork, BrokerTypeOK, BuildTypeOK
    <3> QED BY <2>3, <3>1 DEF Told
  <2>4. CASE /\ components[c].phase = "Absent"
             /\ components'[c] = [components[c] EXCEPT !.phase = "Pending"]
    <3>1. components'[c].phase = "Pending" /\ components'[c].error = NoTask
      BY <2>1, <2>4 DEF ComponentRow
    <3> QED BY <3>1
  <2>5. CASE \E phase \in {"Deleted", "Building"} :
               components'[c] = NoRow(phase)
    <3>1. components'[c].phase # "Failed" /\ components'[c].error = NoTask
      BY <2>5 DEF NoRow
    <3> QED BY <3>1
  <2>6. CASE \E b \in Builds :
               components'[c] = [phase |-> "Built",
                                 digest |-> result[b].digest,
                                 error |-> NoTask]
    <3>1. components'[c].phase # "Failed" /\ components'[c].error = NoTask
      BY <2>6
    <3> QED BY <3>1
  <2> QED BY RowForms, <2>2, <2>3, <2>4, <2>5, <2>6
<1> QED BY <1>2, <1>3, BuildsFollow, BrokerTypeCorrect, PTL DEF BrokerSpec
============================================================================
