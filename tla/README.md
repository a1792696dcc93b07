# A verification of KubeForge's control plane

TLA+ modules, TLC runs and TLAPS proofs about KubeForge, the server that
clones a component's source, builds an image of it with the local Docker
daemon, runs the image as a Kubernetes Job on Minikube, and cleans up.
Paths below are relative to the repository (`src/` holds it).

## 1. The system

### Components, their state and their operations

| component | code | state it keeps | operations |
|---|---|---|---|
| Metadata store | `internal/store` | SQLite tables `components` (phase, image digest, error) and `executions` (phase, timestamps, tag, log) | Create, Get, List, Delete, UpdateBuildStatus, Update (never called); Create, UpdatePhase, UpdateBuildLog |
| Cleanup audit log | `internal/store/sqlite_cleanup_audit_repository.go` | table `cleanup_audit_log` | Record |
| HTTP API | `internal/api/server.go` | none of its own | component CRUD, `/build`, `/run`, `/cleanup`, `/status`, `/logs`, global `/cleanup` |
| Build broker | `internal/build` | one goroutine per build; clone directories; images and tags of the Docker daemon | `Broker.Run`: Execution, clone, docker build, inspect, record |
| Runner | `internal/controller/runner.go`, `job_builder.go` | one goroutine per run; Jobs and a claim in the cluster | `Runner.Run`: claim, main Job, verification Job, record |
| Cleanup | `internal/controller/cleanup.go`, `cmd/kubeforge/cleanup.go` | the results of a sweep in progress | list and delete labelled Jobs, Pods, claims; audit |
| Log streaming | `internal/controller/status.go` | a cursor (`SinceTime`) per reader | snapshot or polling tail of a Pod's log; Pod status |
| Server process | `cmd/kubeforge/main.go` | none | start, serve, shut down |
| Job manifests | `internal/controller/job_builder.go` | none (pure) | Job, verification Job and claim from the component's spec |
| Validation | `internal/store/component_validation.go` | none (pure) | checks of the JSON blocks at creation |
| Credentials, docker-env, cluster provider | `internal/build/credentials.go`, `docker_env.go`, `internal/k8s` | none | strings and clients around the calls above |
| Web console | `web/static/js` | the list, its busy rows and error messages; the form; the log viewer's connection | timer refresh, actions, form checks and payload, EventSource |

### How they interact

`POST /components/{id}/build` and `/run` read the row, write the new phase,
start a goroutine and answer 202. Nothing serialises two requests for one
component: there is no lock and no transaction around several statements. What
the goroutines share is

- the component's row, which each overwrites whole (`UpdateBuildStatus` sets
  phase, digest and error whatever they held),
- the Docker daemon's tags (the digest is read back by tag, in a second command),
- the *names* of the component's Jobs and claim, the same for every run,
- the labels a cleanup selects by.

A component's JSON blocks are checked once, when it is created, by structs that
read some of their fields; the broker, the cloner, the runner and the manifests
decode the same raw JSON again, each into a struct of its own. The browser polls
the list, posts actions, and reads a log as server-sent events.

The Execution row belongs to one goroutine; a foreign key ties it to its
component. `store.Open` sets one connection, so single statements are atomic
and totally ordered.

### What is hard here

- **Interleaving**: builds and runs of one component overlap between any two
  calls; checks and writes are separate statements.
- **Partial failure**: every store or API call may fail and the functions
  return at once, with whatever they had still to write unwritten.
- **Crash**: goroutines vanish at shutdown, nothing resumes them.
- **Names**: Jobs are created, polled and deleted by name while the TTL
  controller, cleanups and other runs create and delete objects of that name.
- **Cancellation**: a cleanup's audit shares the context of its sweep.
- **Cursors and time**: the log is read in calls whose `SinceTime` loses its
  fraction of a second.
- **Liveness**: a component must not stay `Building` or `Running`.
- **Several readers of one document**: what validation lets through, a later
  decoder or the API server may refuse, in a build or in the middle of a run;
  `hooks` is not validated at all.
- **Lost answers**: the cluster may grant a call whose answer never comes.
- **Overlapping answers**: the console's lists are fetched by a timer, a button
  and every action, and are rendered in the order they arrive.
- **Chunks**: the log is handed over in pieces of any size, each framed as an event.

`PROJECT.json` lists each at its line, with the properties that would catch it.

### What makes each part correct

- store: an Execution always has its component; its history moves forward only.
- broker: the digest a component shows is of its own image; `Built` never
  without digest; `Failed` has a cause; `Building` has an owner; directories go.
- runner: a recorded success is the success of the run's own Jobs; a Job runs an
  image of its component; it starts after its claim.
- cleanup: a reported success removed every Job it found; the audit log never
  departs from what the cluster deleted, and lacks nothing of it but what a lost
  answer, a cancelled context or a failing store keeps from it.
- logs: no line lost, none resent for ever, complete at the Pod's end, ends; the
  page shows every character once and never runs two lines together.
- registration: one answer names everything that is wrong, and the form can show
  it; of all that a document can have wrong only an item of `hooks.postRun` is
  found out with the main Job already there; that Job mounts the claim exactly
  when there is one.
- console: a row is busy exactly while its action is unanswered, shows the error
  of the last action only, and the table comes to show what there is.
- all together: whatever interleaves, the phases of components, which clients
  poll, and of Executions are a history of the lifecycle (section 2,
  `ComponentLifecycle`).

The phase `CleanedUp` (`component.go:28`, the `CHECK` of migration 0003, the CRD,
`openapi.yaml`, ADRs 0003 and 0020, a badge of the console) is anticipated
everywhere and written by no code: a cleanup leaves the phase as it is.

## 2. The modules

| module | models | its variables |
|---|---|---|
| `MetadataStore` | the two tables, the repository methods as changes, creation and deletion of components | `components`, `executions`, `storeError` |
| `BuildBroker` | `handleBuildComponent`, `Broker.Run`, `GitCloner`, `DockerBuilder`; crash | `bpc`, `result`, `cloneDirs`, `tags`, `images` |
| `Cluster` (external) | Jobs, Pods and claims as `internal/controller` relies on them | `jobs`, `named`, `pods`, `pvcs` |
| `Runner` | `handleRunComponent`, `Runner.Run`, what the manifests decide | `rpc`, `rdigest`, `seen`, `latestRun` |
| `Cleanup` | the three ways to ask for a cleanup, the sweep, the audit, cancellation | `cpc`, `listed`, `removed`, `swept`, `cancelled`, `audit`; history: `found`, `taken` |
| `KubeForge` | all of the above together, in one process that may die | |
| `LogStream` | `handleLogs`, `StreamPodLogs`, `fetchLogs` against a container that writes | clock, Pod, reader |
| `ComponentLifecycle` | the abstract specification: the phases of components, as clients poll them, and of Executions, which no endpoint exposes: only a reader of the table sees them | `phase`, `outcome`, `stage` |
| `ComponentDocument` | the document of `POST /components` and `Component.Validate` | (functions) |
| `JobManifest` | what build and run decode of it: clone, image, cluster, claim, Jobs; which of these manifests the API server accepts (external) | (functions) |
| `Admission` | one component from its document, through the API or the form, to its builds, runs and cleanups | `doc`, `stage`, `reported`, `failed`, `claim`, `job`, ... |
| `Console` | `componente-lista.js` against any server that follows `ComponentLifecycle` | `post`, `get`, `rows`, `errors`, `last` |
| `LogView` | `sseWriter`, `EventSource` (external) and `componente-logs.js` | `log`, `sent`, `step`, `at`, `stop`, `upto`, `browser`, `source`, `clicks` |
| `MCBuildBroker`, `MCKubeForge`, `MCLogStream`, `MCAdmission`, `MCConsole`, `MCLogView` | the instances the runs use | |
| `BuildBrokerProofs`, `PlaneProofs`, `ClusterProofs`, `LifecycleProofs`, `AdmissionProofs`, `ConsoleProofs`, `LogStreamProofs`, `LogViewProofs` | the theorems | |

`BuildBroker` and `Cluster` extend `MetadataStore`; `Runner` extends `Cluster`;
`Cleanup` extends `Runner`; `KubeForge` extends `BuildBroker` and `Cleanup`.
`Admission` extends `JobManifest`, which extends `ComponentDocument`; `Console`
extends `ComponentLifecycle`.

**The abstract specification.** `ComponentLifecycle` knows no store errors, git,
Docker, cluster, crash or cleanup: a task (a build or a run) is accepted, opens
its Execution, announces itself, begins, settles its component on a verdict,
closes its Execution with the same verdict; tasks interleave, the last writer of
a phase wins, any set of them may stop for good at any time. `BuildBroker` and
`KubeForge` are shown to implement it (`BuildsFollowLifecycle`,
`WorkFollowsLifecycle`, by `INSTANCE ComponentLifecycle WITH` a mapping of each
program counter to a stage, `BuildStage` and `RunStage`), by model checking and
by proof. In the other direction `Console` is checked against it: what the
console's run shows holds of any server that implements the lifecycle, so it
composes with the refinement. `Console` therefore has no copy of the server.

**How state and actions correspond to the code.** A request has an identity
(`Builds`, `Runs`, `Cleanups`); its program counter (`bpc`, `rpc`, `cpc`) names
the *next call it makes*, one action per call: a step is what happens from one
store, Docker or Kubernetes call to the next, which is all that another
goroutine can see. The Execution's id and the error message it leaves are the
request itself. `storeError[t]` remembers which repository call ended a task:
the code returns that error and logs it. A Job object is `<<run, kind>>` (its
UID), `named[c][k]` says which object has the name now, so that "whose Job is
this" can be asked although the code addresses Jobs by name only.

Some choices a reader may want to check:

- `UpdatePhase` overwrites both timestamps, as the SQL does; callers pass them
  again. `DeleteComponent` is refused by the foreign key while Executions exist.
- `TagsOf[c]` is the set of tags builds of `c` may produce: its repository with
  whichever commits its ref resolves to. `DockerBuild` may yield an image that
  exists already (the layer cache), so `images` maps an image to *all* the builds
  that produced it.
- A poll that finds the Job active changes nothing, so it is not an action; the
  terminal cases are.
- `ApplyAnswerLost`: `Jobs.Create` reports an error although the server created it.
- `WorkFails` stands for every error of the run before its outcome: an invalid
  block, no cluster, AlreadyExists, NotFound, any API error.
- `Expires` keeps a Job from being collected between its end and the next poll
  of the run that waits for it unless `ShortTTL`: the default TTL is 3600 s, the
  poll interval 2 s.
- `SweepFails` may end a sweep at any call; `NotFound` is tolerated for Pods only.
  A `Delete` may be granted and its answer lost, also because the context was
  cancelled meanwhile: the resource is gone, the code takes it for an error and
  does not add it to the results. `removed` and `audit` are sequences, in the
  order of the loops; `taken` is a history variable that no action reads: what the
  cluster deleted at each cleanup's calls, whether or not the code came to know.
- A document is modelled by the classes of values that the checks and the later
  decoders tell apart: `form` (not sent, refused by the validator's struct, an
  object) and `wellTyped` (the fields only a later decoder reads). `requests`
  distinguishes members that are not strings, which the validator lets through
  and `parseJobResources` does not decode.
- Fields that are copied into a manifest unchecked decide whether the API server
  accepts it on `Create`. That is one more class of a block (`accepted`), a
  quantity or the items of a hook (`"refused"`), or, for the namespace, whether it
  exists (`namespaceExists`, which does not change while the component lives).
  `preRun` items go into the main Job, `postRun` items into the verification Job,
  so they are refused at different times.
- A body that does not decode as a document (`handleCreateComponent`'s other 400)
  is answered before anything is checked and changes nothing, so `Admission` begins
  with one that does.
- `Correct` is the user: it gives each field the answer names a documented value
  and touches nothing else, so `OneRoundTrip` says that the answer was complete.
- In `Admission` git, Docker and the cluster work and requests come one at a time:
  what fails, fails because of the document: a function of the build or the run
  returns an error, or the API server refuses what was made of it. Their failures
  and races are in `KubeForge`.
- In `Console` a `GET` has an identity, so that its answer can be served before
  and rendered after another's; the server's list and the page's rows are
  separate. A click uses a request once. Deleting a component has no button.
- In `LogView` a character is atomic, `"data: "` is one unit of the wire, and the
  parser of `EventSource` is written from the HTML standard. Server and browser go
  unit by unit, so a connection may end inside an event, whose text the browser
  then drops. A visible character travels as its position in the log: "once and
  in order" can be told of characters that look the same, and nothing the code
  does depends on which character it is.
- In `LogStream`, `Fetch` is the instant the API server reads the log: after the
  time the code took for its cursor, before the copy ends.

## 3. The runs

`tlc -config X.cfg M`, one question each. Deadlock is not checked: every run
has finitely many requests, and the system rests when they have ended.

| run | instance | shows |
|---|---|---|
| `BuildFaults` | 1 component, 2 builds, 2 tags and images, any store call may fail, crash at any step | `BrokerTypeOK`, `BuildingHasOwner`, `FailedHasCause`, `ExecutionTellsOutcome`, `CloneDirMatchesBuild`, `NoOrphanExecution`, `ExecutionMovesForward`, `BuildsFollowLifecycle` |
| `RunRace` | 1 build, 2 runs, claim and strict verification | `SuccessIsOwn`, `JobHasClaim` |
| `Overlap` | 2 builds and a run of one component, a build of another, 2 images, deletes | `WorkHasOwner`, `ImageWhenNeeded`, `SucceededImageRan`, `JobRunsOwnImage`, `DigestIsOwnImage`, `DigestMatchesPhase`, `OnlyEarlyCallsMissTheRow` |
| `SystemFaults` | a build, a run with a claim, a global cleanup with cancellation, faults, crash | `TypeOK`, `VerdictHasCause`, `ExecutionMovesForward`, `WorkFollowsLifecycle` |
| `WorkLiveness` | a build, a run with a claim and a lenient verification, a global cleanup with cancellation and lost answers, short TTL, under fairness | `WorkEnds`, `SweepIsComplete`, `AuditFollowsSweep` |
| `LogFollow` | 3 lines, 4 ticks of half a second, tail of 1 or none, follow or not, under fairness | `LogTypeOK`, `NoGap`, `EndIsComplete`, `ResentIsRecent`, `ReaderEnds` |
| `Registration` | every document that differs in at most two fields from the documented example, or from what the form sends for it | `AdmissionTypeOK`, `OneRoundTrip`, `FormErrorsShown`, `OnlyPostRunLeavesJob`, `MountMatchesClaim` |
| `ConsoleList` | a component with a run and a cleanup posted here, another client's component, 2 lists under way, under fairness | `ConsoleTypeOK`, `BusyMatchesPosts`, `ErrorIsOfLastAction`, `TableSettles` |
| `LogFraming` | every log of up to 6 characters and line breaks, every way to cut it, every place where the connection may end, one reconnection | `TextIsIntact`, `LinesStayApart` |
| `ConcurrentRuns` | 1 build, 2 runs | finding: `NoConcurrentRuns` is violated |
| `CleanupCancelled` | a build, a run, a cleanup that may be cancelled | finding: `AnySweepAudited` is violated |
| `BuildFailureLost` | 1 build, faults | finding: `FailurePersisted` is violated |

**Bounds and why they are enough.** The code has no bound on requests; the
properties relate at most two requests of a component (an overwriting and an
overwritten one), plus, for ownership of images, a third of another component.
Two of each kind is the least with which every overwrite order occurs. Two images
let a later build differ from an earlier one, two tags a ref move. One claim and
two kinds of Job are all a component has. Requests are not reused; a client that
repeats one is another element of the set. In `LogFollow` two ticks make a
second, so a call may begin and end within one, across its edge, or in the next,
and three lines are the least with a first, a middle one that could be lost, and
a last. In `Registration` a check or a decoder looks at one block at a time and
a manifest at two, so two fields that differ, of any two blocks, reach every
combination they can tell apart; a storage that is a claim, a directory or
nothing comes with every size. `ConsoleList` takes two actions on one row and two
lists that overtake each other, the least with which a list is older than the
state it meets; deletes, and a component the page has never seen, belong to
other clients. In `LogFraming` a chunk boundary needs a character before it, one
after it and line breaks on either side: six places hold them all twice over, and
`MaxReconnects` = 1 shows the log twice. `Gets`, `MaxText`, `MaxReconnects`,
`MaxLines` and `MaxTime` are the only bounds that are not sets of requests.
Symmetry is used on builds, runs and images in safety runs only, where
nothing distinguishes them.

**Fairness.** `FairSpec` gives weak fairness to each build's handler and
goroutine, each run's, and the end of each active Job. Goroutines are scheduled
by Go; the Kubernetes client has a 5 s timeout (`internal/k8s/minikube.go`), so
its calls return; every Job has `activeDeadlineSeconds` (1800 by default,
`parseJobLifecycle`), so it ends. That git and docker terminate is an
*assumption*: the code runs them under `context.Background()` without a timeout.
Nothing is fair that only may happen: a Job's completion (it may fail at its
deadline), an API error (`RunProgress` leaves out failure where the code could
go on, so that liveness does not come from errors), a Pod's start, a cleanup.
`WorkLiveness` has `ShortTTL`, so a Job may vanish before the run polls it and a
cleanup may delete it: the run still ends (with NotFound).
`ConsoleFairSpec`: the server answers what it is sent, not every list fails
(`Serve` is strongly fair), the browser runs its handlers, and the 5 s timer
ticks, which a visible tab's does; `Deliver` is strongly fair only because it
waits for one of the bounded `Gets` to be idle, where the page has no such bound.
`LogFairSpec` is fair to the reader only: the Pod may write or stay for ever, and
`ReaderEnds` speaks of a Pod that has ended.

**Mutants.** For every property of a passing run the module holds an operator
(`Mutant: ...`) that changes the model as a plausible bug of the code would
(the clause of a guard dropped, an error swallowed, AlreadyExists taken for
success, the cursor taken after the copy); `PROJECT.json` says which definition
it replaces. Each makes its property fail under the run's own bounds.

## 4. What the runs found

1. **Two runs at once** (`ConcurrentRuns`). `handleRunComponent` checks the phase
   and writes `Running` in two statements; the second does not look at the phase.
   Two requests that both read `Built` are both accepted. The comment and ADR
   0015 rely on the phase check alone. Nothing worse follows while only runs are
   involved (`RunRace`): the second Job's `Create` meets AlreadyExists and that
   run fails, but it marks the component `Failed` while the first still runs.
2. **Audit lost on cancellation** (`CleanupCancelled`). When the sweep stops
   because its context is done, `PersistCleanupAudit` uses the same context and
   records nothing of what was removed.
3. **Failure not persisted** (`BuildFailureLost`). If storing the log of a failed
   build fails, `Broker.Run` returns before it writes `Failed`.

**Stated, not kept, and without a run of their own.** Six more properties say
what a source promises and the code does not do. They are definitions of the
modules; adding one as an INVARIANT to the configuration named shows the
behaviour within seconds.

| property | configuration | what happens | what the source says |
|---|---|---|---|
| `FormCoversBuild` | `Registration` | The form has no input for `build.imageRepository`, without which `docker_builder.go:74` refuses every build, and no endpoint edits a component: what the form registers cannot be built. | ADR 0019:18: "O formulário cobre o schema real"; `EPICOS_E_HISTORIAS.md:235` |
| `FormQuantitiesParse` | `Registration` | `QUANTITY_PATTERN` (and the `pattern` attributes of `novo.html`) accept `1K`; `resource.ParseQuantity` knows `k` and `Ki` only, so the run fails in `BuildJob`. | `validation.js:8`: "mesmo formato aceito por resource.ParseQuantity no backend" |
| `ResourcesReachRunWellFormed` | `Registration` | `validateResources` reads `requests` as raw JSON: `{"cpu": 1}` is registered and built, and the run fails where `job_builder.go:209` decodes strings. | `EPICOS_E_HISTORIAS.md:77`: validated on creation so that no malformed component reaches build or execution |
| `BusyRowsAreKept` | `ConsoleList`, its requests on `c2` | A list served before a component was created arrives after a newer one and after the click on its row: the row is dropped, and the next list brings a fresh one with live buttons while the POST is in flight. | ADR 0020:90: the next `refreshList()` skips any row that is still busy |
| `TextIsIntact` | `LogFraming` with `MayWriteCR = TRUE` | `Write` splits at `\n` only; `EventSource` also ends a line at `\r`, so what follows a carriage return (a progress bar) lacks its `data: ` and is dropped. | ADR 0021:25: the framing is exactly what `EventSource` interprets; `server.go:493` |
| `ResourcesAreLatest` | `RunRace` | A run that fails with AlreadyExists is the newest Execution, and the Job labelled for the component is an older run's. | `cleanup.go:44`: the label already selects exactly the most recent execution's resources |

Some further behaviours are in the model without a finding, because no source
says otherwise precisely enough. An item of `hooks.postRun` without an image, or
with a name that is not a valid one, passes `Validate` and `BuildPostRunJob`
(`job_builder.go:464`): the main Job runs to its end, `Jobs.Create` refuses the
verification Job, and the run fails, even where every item says
`continueOnError`; the main Job stays and the next run meets AlreadyExists until
the TTL or a cleanup removes it (`OnlyPostRunLeavesJob` says that nothing else in
a document does this). A cleanup that deletes a run's Job between two
polls lets another run create one of that name, whose outcome the first run
takes for its own (`SuccessIsOwn` fails once `RunRace` is given a cleanup). And
a `ttlSecondsAfterFinished` below the poll interval makes a successful run fail.
In `LogStream` a second call may go back before the tail the first sent; if it
then fails half way, the client has seen lines with a gap (`NoGap` excludes it).

## 5. What is proved

All proofs are of the specifications the runs check, for every value of the
constants (5713 obligations). `PlaneProofs` extends `BuildBrokerProofs`;
`ClusterProofs` and `LifecycleProofs` extend `PlaneProofs`.

`BuildBrokerProofs` proves of `BrokerSpec`, for every set of components, builds,
tags and images, with failing stores and crashes as the constants allow:

| theorem | property | argument |
|---|---|---|
| `BrokerTypeCorrect` | `BrokerTypeOK` | Typing alone is not inductive: an inspect reads `tags[result.tag]`, so the tag must be one. `TagKnown` (a build at `inspect` has a tag of its own component) makes it so. |
| `ReferentialIntegrity` | `NoOrphanExecution`, `OnlyEarlyCallsMissTheRow` | A delete needs that no Execution exists; the steps after `create` know that theirs does. Hence their component exists, and a repository call of theirs cannot miss a row. |
| `BuildingAlwaysOwned` | `BuildingHasOwner` | Whoever writes `Building` becomes an owner; an owner leaves ownership only by writing another phase, or with an error or a crash that is remembered. Needs integrity: the write that ends ownership cannot miss. |
| `DigestOwnership` | `DigestIsOwnImage` | With disjoint tags, a tag points to an image that some build of the tag's component produced, whoever moved it last; so does a digest read through it and the digest stored from it. |
| `BuildsFollow` | (the invariant of the others) | `OutcomeInv` says for each build how far its Execution, its result and its clone directory are at each value of `bpc`. Only the build's own steps and a crash touch them (`OwnSteps`), so it is preserved build by build. |
| `OutcomeTold`, `CloneDirGone` | `ExecutionTellsOutcome`, `CloneDirMatchesBuild` | Both read off `OutcomeInv` where the build is done. |
| `HistoryMovesForward` | `ExecutionMovesForward` | A write is one of five steps of its own build, and `OutcomeInv` gives the phase it starts from (`WriteForward`). |
| `OnlyTheLogLosesFailures` | (`FailurePersisted`, violated in `BuildFailureLost`) | It holds unless some build's `log` call failed: the finding's way is the only one. From `OutcomeInv`. |
| `DigestFollowsPhase` | `DigestMatchesPhase` | Six rows can be written (`RowForms`); the only one with a digest is `Built`'s, written at `built`, where the result has an image. |
| `FailureExplained` | `FailedHasCause` | The row was written by a build at `failStatus`; that its Execution is Failed, about to be or abandoned is stable from there (`ToldStays`). |

`PlaneProofs` and `ClusterProofs` prove of `KubeForge`'s `Spec`, for any builds,
runs and cleanups over any components. To the store and the broker a step of the
cluster, a cleanup or a crash is one of `BrokerSpec` (`StepKinds`), so the lemmas
about the broker's steps serve again and only the steps of runs are new.

| theorem | property | argument |
|---|---|---|
| `PlaneTypeCorrect` | `TypeOK` | A run writes `FinalPhase`, which is a phase only if it has polled one: `OutcomeKnown`. |
| `SweepsComplete` | `SweepIsComplete` | A run creates each of its Jobs at most once (`JobsFollow`), so a Job that lost its name never has it again; until then the name is in what the sweep has still to delete (`SweepsFollow`). |
| `AuditFollows` | `AuditFollowsSweep` | Of the log alone nothing follows: it is compared with what the cluster deleted through the results, which the code holds in between. `LogFollows` says, cleanup by cleanup, that the log is a beginning of the results and the results of the deletions; that results and deletions are the same until an answer is lost, which ends the sweep, so at most one is missing ever after and none once the sweep met no error. Only `Delete`, `Record` and the sweep's end touch these (`LogsFollowStep`). |
| `RunsUndisturbed` | (`SuccessIsOwn` and `JobHasClaim`, run by run) | While the run's component is `Quiet`: the name a run polls is its own Job's until it has polled the end (`PollsOwn`), so what it saw is what became of that Job (`SeenOwn`), and a Succeeded Execution saw what it had to see (`RunsVerify`). A cleanup elsewhere lists only what it selects (`ListedInScope`), so it takes no name of a quiet component. |
| `ShownImageRan` | (`SucceededImageRan`, component by component) | From `SeenOwn`: only a run writes `Succeeded`, with its own copy of the digest, and keeps that copy (`JobsFollow`). |
| `SuccessOwned`, `ClaimKept`, `SucceededImage` | `SuccessIsOwn`, `JobHasClaim`, `SucceededImageRan` | The three properties while every component is quiet (`Alone`). |
| `ImagesNeeded` | `ImageWhenNeeded` | Who writes `Built` has an image (`OutcomeInv`, which holds of the plane too); a run copies the digest of a `Built` row. |
| `JobImages`, `PlaneDigestOwnership` | `JobRunsOwnImage`, `DigestIsOwnImage` | With disjoint tags: the chain of `DigestOwnership` has two links more, the run's copy and the row the run writes back (`ImagesOwned`). |
| `WorkOwned` | `WorkHasOwner` | As `BuildingHasOwner`; neither kind of task writes the other's phase of work. |
| `PlaneMovesForward` | `ExecutionMovesForward` | How far a run's Execution is at each of its steps (`RunsFollow`). |
| `VerdictsExplained` | `VerdictHasCause` | A row with a verdict was written by a task at `failStatus`, `built` or `finalStatus` (`BuildSettles`, `RunSettles`); from there on the task can only close its Execution with that verdict or leave it open, and changes neither its result nor its copy of the digest (`BuildAgreesStays`, `RunAgreesStays`): what a run is about to write is fixed before it tells the component. |
| `PlaneIntegrity` | `NoOrphanExecution`, `OnlyEarlyCallsMissTheRow` | `OrphanStep` and `EarlyCallStep` of the broker, with the same of runs (`RunIntegrity`, `EarlyRunCallStep`): a run opens its Execution beside a row and never removes one. |
| `PlaneDigestFollowsPhase` | `DigestMatchesPhase` | A run writes a digest only with Running, Succeeded or its own Failed (`RowsWithoutImage`, `WritesRow`). |
| `PlaneBuildOutcomes` | `ExecutionTellsOutcome`, `CloneDirMatchesBuild` | `OutcomeInv` holds of the plane: only a build's own steps touch what it speaks of. |
| `JobsExclude` | `OneJobAtATime` here | A Job keeps its name while it is active (`NamesFollow`): Create needs the name free, DeleteJob stops the Job, the TTL takes ended Jobs only. So runs that overlap (finding 1) never have two main Jobs at work. |
| `NoTaskIsStuck` | `NobodyIsStuck` here | Past `create` a task has its Execution (`WorkHasExecution`), hence its row; a polled name is that of a Job which is active or has ended (`NamesFollow`), or of none, which ends the run too. |
| `TasksRunDown` | `WorkRunsDown` here | Every step of a task lowers `BuildLeft` or `RunLeft`, and nothing else moves a task except a crash, which ends it. |
| `RestIsSettled` | `Settled` here | While the store works, a call fails only on a deleted row (`MissedGone`), so when all tasks have returned every Execution is closed (`OutcomeInv`, `RunsClose`); `WorkHasOwner` and `VerdictHasCause` then leave no row at work and no verdict without its outcome. |

The last three are what `WorkEnds` rests on apart from fairness: no task is stuck,
each has finitely many steps, and when all have ended the rows are settled. What
remains to TLC is that the scheduler and the cluster do let them go on.

`Quiet(c)` says that no cleanup that selects `c` has been asked for yet and that
Jobs do not expire before they are polled (no `ShortTTL`); `Alone` says it of every
component. It is a condition of five theorems because the code needs it: the
behaviours at the end of section 4 violate the properties without it. It is a
condition on the state, not on the constants: the theorems speak of every
behaviour up to its first cleanup, and per component beyond it. The other theorems
hold with cleanups and any TTL.

`LifecycleProofs` proves the two refinements:

| theorem | property | argument |
|---|---|---|
| `BrokerImplementsLifecycle` | `BuildsFollowLifecycle` | The mapping reads the phases off the rows and the stage off `bpc`. Each of the eight writes of a build is the lifecycle step of its stage (`BuildStepsShown`), a store error or a crash is `Stop`, a component comes and goes by `Create` and `Delete` (`TableShown`), all else stutters. Typing is needed for each step. |
| `PlaneImplementsLifecycle` | `WorkFollowsLifecycle` | A build's step is the plane's (`BuildActLifts`), the eight writes of a run are the steps of its stage (`RunStepsShown`: the verdict it settles on is the one it closes with, because nothing it has polled changes in between), a crash is one `Stop` of all that live; the cluster and cleanups stutter. |

`AdmissionProofs` proves of `Admission`'s `Spec`, for any set of documents:

| theorem | property | argument |
|---|---|---|
| `AdmissionTypeCorrect` | `AdmissionTypeOK` | Inductive together with the other parts of `AdmissionInv`. |
| `OneRoundTripSuffices` | `OneRoundTrip` | `CorrectedIsValid`: block by block, the correction of what a check reports passes the check. `CreationInv` carries "a corrected document is valid" from the correction to the next answer. |
| `FormShowsErrors` | `FormErrorsShown` | `FormReports`: the conditions under which the form sends a document imply every check whose field has no input. |
| `DocumentFaults` | `OnlyPostRunLeavesJob`, `MountMatchesClaim` | `PostRunFollows`: a document whose main Job was built and accepted makes a verification Job without an error, which the API server takes unless an item of it is refused; `ClaimAgreement`: the two readings of the storage block agree. `RunInv` says that a run in progress has met no fault yet, of the code or of the API server, `ClaimInv` that claim and Job are those of this document. |

`ConsoleProofs` proves of `ConsoleSpec`, so of any server that follows the
lifecycle:

| theorem | property | argument |
|---|---|---|
| `ConsoleTypeCorrect` | `ConsoleTypeOK` | A list under way has every component that is still listed (`ListsKnow`), so a row is always given a phase of the API. |
| `BusyTellsTruth`, `ErrorsStayTrue` | `BusyMatchesPosts`, `ErrorIsOfLastAction` | `RowsAgree` relates a row, the message kept for it and the posts of its component, including that a live button means no post is in flight, which is what keeps them one at a time. |

`LogStreamProofs` proves of `LogSpec`, for every tail, granularity and log:

| theorem | property | argument |
|---|---|---|
| `LogTypeCorrect` | `LogTypeOK` | Inductive with the other parts of `LogInv`. |
| `NothingSkipped`, `FollowerGetsAll` | `NoGap`, `EndIsComplete` | Times grow along the log and the cursor was taken before the call it follows: what was sent has every line older than the cursor (`UpTo`), so the next call, from the cursor cut to its second (`Truncation`), leaves nothing out. |
| `LittleIsResent` | `ResentIsRecent` | The cut loses less than a second. |

`LogViewProofs` proves of `LogViewSpec`, for logs of any length, any number of
reconnections, any cut into chunks and any place where a connection ends:

| theorem | property | argument |
|---|---|---|
| `TextArrivesIntact` | `TextIsIntact` | `Arrived` is all the browser holds of this connection: shown, read of the event, and still in the line buffer. `LogViewInv` says that it shows exactly what the server has written so far (`ShowsExactly`), and that the parser is where the writer is (`ParserFollows`); each of the writer's five steps extends both sides by the same position or by a line break. Between two events `Arrived` is what is shown. |
| `LinesNeverRunTogether` | `LinesStayApart` | The same invariant carries `KeepsBreaks`: after the line break of a text line the buffer ends with a break, and so does every event shown (`AppendLogLine`); `TrimRight` takes away line breaks only. |

Both are proved of logs without carriage returns (`NoReturn`); with them the code
does not keep `TextIsIntact` (section 4). `TrimRight` is a `CHOOSE`; that there is
something to choose is an induction, done with the well-foundedness of `Nat`
(`LeastNatural`) because the library's induction theorems take an operator.

Beyond what each specification states, the proofs assume only the assumptions
named in the modules that declare the constants (`StoreAssumption`,
`BuildAssumption`, `RunnerAssumption`, `CleanupAssumption`, `AdmissionAssumption`,
`ConsoleAssumption`, `LogAssumption`, `LogViewAssumption`; TLC evaluates them on every
run). No theorem assumes a bound.

Model-checked only: the three liveness properties (`WorkEnds`, `ReaderEnds`,
`TableSettles`), which are out of this prover's reach with fairness and ENABLED;
of `WorkEnds` the part that needs neither is proved (above). Every other property
of a passing run is a theorem of the specification the run checks.

## 6. What is not modelled, and why

- More than one namespace: all of a component's objects live in one, and a
  cleanup of another namespace is independent of it.
- A Pod's own retries (`backoffLimit`): the Job's outcome is what the code reads.
- `/status`, list and get handlers as such: single reads (the list is served in
  `Console`).
- The fields a manifest copies (command, environment, Secrets, labels, the names
  and images of hooks' items): data; of them `JobManifest` has whether the API
  server accepts the manifest, every error of the three builders, and the storage
  the Job mounts.
- Git credentials and URLs (`credentials.go`), docker-env (`docker_env.go`): string
  handling without state, whose failures are `Clone` and `BuildRefused`.
- The cluster provider beyond the clusters it knows: reading a kubeconfig; its
  errors are part of `WorkFails`, `SweepFails` and `ReadFails`.
- The OpenAPI pages, flags, environment and logging of the server process.
- The console's layout: sidebar, auto-scroll, the header of the log page, and
  what the form page does while its POST is in flight (the button stays enabled,
  a second click registers a second component, which no source excludes).
- `Update` of components: no code calls it.
- A character of several bytes cut by a chunk boundary: shown as replacement
  characters; the model's characters are atomic.

## 7. The plan

Done, in the order of importance: store and broker; cluster, runner and cleanup;
their composition; log streaming; the lifecycle and its refinements; documents,
manifests and registration; the console; the log's framing; the proofs of every
safety property and of both refinements. What is left:

1. A run's second life: the Pods that `backoffLimit` and a node failure restart,
   should the code come to read more of a Job than its conditions.
