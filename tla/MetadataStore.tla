--------------------------- MODULE MetadataStore ---------------------------
(***************************************************************************)
(* The SQLite metadata store (internal/store): the rows of the tables      *)
(* components and executions, and the repository methods that change them. *)
(* Every asynchronous request (a build or a run) has an identity, which is *)
(* also the id of the Execution it creates and the error message it may    *)
(* leave on its component.  The request's component is fixed: the path     *)
(* parameter {id}.  Repository methods are single SQL statements on one    *)
(* connection, hence atomic; what is not atomic is a sequence of them.     *)
(***************************************************************************)
CONSTANTS
  Components,  \* ids of the components a client may ever create
  Builds,      \* POST /components/{id}/build requests
  Runs,        \* POST /components/{id}/run requests
  Target,      \* the component each request names
  Digests,     \* Docker image IDs
  NoDigest,    \* NULL in components.build_image_digest
  Tags,        \* full image tags, repository:commit
  NoTag,       \* NULL in executions.image_tag
  NoTask,      \* NULL in components.error_message
  MayFault     \* may a store write fail (SQLITE_BUSY, I/O, closed request)?

Tasks == Builds \cup Runs

ASSUME StoreAssumption ==
  /\ Builds \cap Runs = {}
  /\ Target \in [Tasks -> Components]
  /\ NoDigest \notin Digests
  /\ NoTag \notin Tags
  /\ NoTask \notin Tasks
  /\ MayFault \in BOOLEAN

VARIABLES
  components,  \* rows of the table components, by id
  executions,  \* rows of the table executions, by task
  storeError   \* the repository call whose error ended the task, or "none"

storeVars == <<components, executions, storeError>>

Phase == {"Pending", "Building", "Built", "Running", "Succeeded", "Failed",
          "CleanedUp"}
ExecutionPhase == {"Pending", "Running", "Succeeded", "Failed"}

\* "Absent": not yet inserted.  "Deleted": ids are fresh UUIDs, never reused.
ComponentRow == [phase  : Phase \cup {"Absent", "Deleted"},
                 digest : Digests \cup {NoDigest},
                 error  : Tasks \cup {NoTask}]

\* started/completed: is the timestamp column non-NULL?
\* logged: has UpdateBuildLog stored the build's output?
ExecutionRow == [phase     : ExecutionPhase \cup {"Absent"},
                 started   : BOOLEAN,
                 completed : BOOLEAN,
                 tag       : Tags \cup {NoTag},
                 logged    : BOOLEAN]

NoRow(phase) == [phase |-> phase, digest |-> NoDigest, error |-> NoTask]

StoreInit ==
  /\ components = [c \in Components |-> NoRow("Absent")]
  /\ executions = [t \in Tasks |-> [phase |-> "Absent", started |-> FALSE,
                                    completed |-> FALSE, tag |-> NoTag,
                                    logged |-> FALSE]]
  /\ storeError = [t \in Tasks |-> "none"]

Exists(c) == components[c].phase \in Phase
Executed(t) == executions[t].phase \in ExecutionPhase

---------------------------------------------------------------------------
(* The repository methods, as the change a successful call makes.          *)

\* Mutants: a COALESCE on the digest, or on the error, of the new values.
KeepDigest(c, phase, digest, error) ==
  /\ Exists(c)
  /\ components' = [components EXCEPT
       ![c] = [phase |-> phase, error |-> error,
               digest |-> IF digest = NoDigest THEN @.digest ELSE digest]]
KeepError(c, phase, digest, error) ==
  /\ Exists(c)
  /\ components' = [components EXCEPT
       ![c] = [phase |-> phase, digest |-> digest,
               error |-> IF error = NoTask THEN @.error ELSE error]]

\* sqliteComponentRepository.UpdateBuildStatus: the three columns at once,
\* whatever they held; no row, no update (ErrComponentNotFound).
UpdateBuildStatus(c, phase, digest, error) ==
  /\ Exists(c)
  /\ components' = [components EXCEPT
       ![c] = [phase |-> phase, digest |-> digest, error |-> error]]

\* sqliteExecutionRepository.Create: component_id REFERENCES components.
CreateExecution(t) ==
  /\ Exists(Target[t])
  /\ executions' = [executions EXCEPT ![t].phase = "Pending"]

\* sqliteExecutionRepository.UpdatePhase: both timestamps are overwritten,
\* a nil one with NULL.
UpdatePhase(t, phase, started, completed) ==
  /\ Executed(t)
  /\ executions' = [executions EXCEPT
       ![t] = [@ EXCEPT !.phase = phase, !.started = started,
                        !.completed = completed]]

\* sqliteExecutionRepository.UpdateBuildLog.
UpdateBuildLog(t, tag) ==
  /\ Executed(t)
  /\ executions' = [executions EXCEPT ![t] = [@ EXCEPT !.tag = tag,
                                                       !.logged = TRUE]]

\* A repository call of task t fails: the row it needs is missing, or the
\* statement itself fails.  Nothing is written.
CallFails(t, call, rowMissing) ==
  /\ rowMissing \/ MayFault
  /\ storeError' = [storeError EXCEPT ![t] = call]

---------------------------------------------------------------------------
(* The two API handlers that are a single statement on the store.          *)

\* POST /components: a row in phase Pending.
CreateComponent(c) ==
  /\ components[c].phase = "Absent"
  /\ components' = [components EXCEPT ![c].phase = "Pending"]
  /\ UNCHANGED <<executions, storeError>>

\* Mutant: no foreign key (or PRAGMA foreign_keys off).
DeleteUnrestricted(c) ==
  /\ Exists(c)
  /\ components' = [components EXCEPT ![c] = NoRow("Deleted")]
  /\ UNCHANGED <<executions, storeError>>

\* DELETE /components/{id}: ON DELETE RESTRICT keeps a component that has
\* executions.
DeleteComponent(c) ==
  /\ Exists(c)
  /\ \A t \in Tasks : Target[t] = c => ~Executed(t)
  /\ components' = [components EXCEPT ![c] = NoRow("Deleted")]
  /\ UNCHANGED <<executions, storeError>>

StoreNext == \E c \in Components : CreateComponent(c) \/ DeleteComponent(c)

---------------------------------------------------------------------------
\* The repository calls a task may end with.
StoreCall ==
  {"mark", "create", "startExecution", "failStatus", "failPhase"}
  \cup {"markBuilding", "log", "built", "succeed"}
  \cup {"markRunning", "finalStatus", "finalPhase"}

StoreTypeOK ==
  /\ components \in [Components -> ComponentRow]
  /\ executions \in [Tasks -> ExecutionRow]
  /\ storeError \in [Tasks -> StoreCall \cup {"none"}]

(* Referential integrity under deletes racing builds and runs: an Execution*)
(* always has its component, so once Executions.Create has succeeded no    *)
(* later UpdateBuildStatus of that task can miss its row (the              *)
(* ErrComponentNotFound branches of Broker.Run and Runner.Run are dead).   *)
NoOrphanExecution == \A t \in Tasks : Executed(t) => Exists(Target[t])

(* An Execution's history only moves forward: Pending, Running, then one   *)
(* outcome that no later step changes; the start timestamp, once recorded, *)
(* is never lost and the outcome always comes with a completion time.      *)
ExecutionMovesForward ==
  [][\A t \in Tasks : executions'[t] # executions[t] =>
       LET old == executions[t]  new == executions'[t] IN
       /\ old.phase \notin {"Succeeded", "Failed"}
       /\ new.phase = "Pending" => old.phase = "Absent"
       /\ new.phase = "Running" => old.phase \in {"Pending", "Running"}
       /\ new.phase \in {"Succeeded", "Failed"} =>
            old.phase = "Running" /\ new.completed
       /\ old.started => new.started
    ]_executions
============================================================================
