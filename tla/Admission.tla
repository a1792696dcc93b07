----------------------------- MODULE Admission -----------------------------
(***************************************************************************)
(* One component from its document to its end: POST /components with its   *)
(* field errors, the user correcting them, then builds, runs and cleanups, *)
(* as far as the document decides them.  git, docker and the cluster work  *)
(* here (their failures are in BuildBroker and Runner) and requests come   *)
(* one at a time (their races are there too), so what fails, fails because *)
(* of the document: a function of the build or the run returns an error,   *)
(* or the cluster refuses what was made of it.                             *)
(*                                                                         *)
(* A document is written by a client of the API, or assembled by the       *)
(* console's form after the browser's and the form's own checks.  A body   *)
(* that is no such document does not decode, and is answered 400 without a *)
(* field before anything is checked.                                       *)
(***************************************************************************)
EXTENDS JobManifest

CONSTANT Documents  \* the documents clients start from

ASSUME AdmissionAssumption == Documents \subseteq Document

VARIABLES
  origin,    \* "api" or "form"
  doc,       \* the document as it is sent, then as it is stored
  stage,     \* what the component is doing
  reported,  \* the fields the last answer refused
  corrected, \* has the user corrected a refused document?
  failed,    \* the step that the last build or run failed in
  claim,     \* does the claim <id>-data exist?
  job        \* what the main Job in the cluster mounts, or "none"

vars == <<origin, doc, stage, reported, corrected, failed, claim, job>>

Resting == {"Pending", "Built", "Succeeded", "Failed"}
Building == {"clone", "docker"}
Running == {"target", "claim", "main", "verify"}
Stage == {"draft", "refused"} \cup Resting \cup Building \cup Running
Mounts == {"nothing", "directory", "claim"}

---------------------------------------------------------------------------
(* The form (novo.html, componente-form.js) *)

\* Mutant: the "at least one request" check is dropped.
ResourcesUnchecked(r) ==
  /\ r.form = "object" /\ r.wellTyped
  /\ r.requests \in {"empty", "parses", "refused", "unparsable"}
  /\ r.storage # "unknown"
  /\ r.storage = "pvc" => r.size # "unset"

\* The pattern of a quantity lets "1K" through, so the form may send what
\* ParseQuantity refuses, as well as a request above its limit.
FormResources(r) ==
  /\ r.form = "object" /\ r.wellTyped
  /\ r.requests \in {"parses", "refused", "unparsable"}
  /\ r.storage # "unknown"
  /\ r.storage = "pvc" => r.size # "unset"

\* checkValidity, runCustomValidation and assemblePayload.  type="url" wants
\* a scheme but no host; a number may exceed the 32 bits of backoffLimit or
\* of ttlSecondsAfterFinished but not be negative; a namespace and the names
\* of env are free text; there is no input for the image or for hooks.
FormSends(d) ==
  /\ d.source.form = "object" /\ d.source.wellTyped
  /\ d.source.repoUrl # "blank" /\ d.source.ref = "supported"
  /\ FormResources(d.resources)
  /\ d.runtime.form = "object" /\ d.runtime.workloadKind = "known"
  /\ d.targetContext.form = "object" /\ d.targetContext.wellTyped
  /\ d.targetContext.cluster \in {"minikube", "eks"}
  /\ \/ d.build.form = "absent"
     \/ /\ d.build.form = "object" /\ d.build.wellTyped
        /\ d.build.strategy # "unknown"
        /\ ~d.build.imageRepository /\ d.build.imageTagStrategy = "unset"
  /\ d.lifecycle.form # "mistyped" /\ d.lifecycle.cleanupPolicy # "unknown"
  /\ d.lifecycle.accepted
  /\ d.hooks.form = "absent"

\* The inputs with a data-field, where showServerErrors can put an error.
FormFields ==
  {"nome", "source.repoUrl", "source.ref.type", "source.ref.value",
   "build.strategy", "resources.storage.type", "runtime.workloadKind",
   "targetContext.cluster", "lifecycle.cleanupPolicy"}

---------------------------------------------------------------------------
Init ==
  /\ doc \in Documents
  /\ origin \in {"api"} \cup {o \in {"form"} : FormSends(doc)}
  /\ stage = "draft"
  /\ reported = {}
  /\ corrected = FALSE
  /\ failed = "none"
  /\ claim = FALSE
  /\ job = "none"

Component == <<claim, job>>
Draft == <<origin, doc, reported, corrected>>

\* Mutant: what decodes is stored, and checked when it is used.
StoreUnchecked ==
  /\ stage = "draft"
  /\ reported' = {}
  /\ stage' = "Pending"
  /\ UNCHANGED <<origin, doc, corrected, failed, Component>>

\* handleCreateComponent: 400 with every field, or 201.
Create ==
  /\ stage = "draft"
  /\ reported' = Validate(doc)
  /\ stage' = IF reported' = {} THEN "Pending" ELSE "refused"
  /\ UNCHANGED <<origin, doc, corrected, failed, Component>>

\* The user follows the answer and sends the document again.
CorrectAsTold ==
  /\ stage = "refused"
  /\ doc' = Correct(doc, reported)
  /\ corrected' = TRUE
  /\ stage' = "draft"
  /\ reported' = {}
  /\ UNCHANGED <<origin, failed, Component>>

Fail(step) == stage' = "Failed" /\ failed' = step
Continue(next) == stage' = next /\ UNCHANGED failed

\* POST /build, in any phase.
BuildRequest ==
  /\ stage \in Resting
  /\ stage' = "clone"
  /\ failed' = "none"
  /\ UNCHANGED <<Draft, Component>>

Clone ==
  /\ stage = "clone"
  /\ IF Clonable(doc) THEN Continue("docker") ELSE Fail("clone")
  /\ UNCHANGED <<Draft, Component>>

DockerBuild ==
  /\ stage = "docker"
  /\ IF ImageNamed(doc) THEN Continue("Built") ELSE Fail("docker")
  /\ UNCHANGED <<Draft, Component>>

\* POST /run, once the previous run's Job is gone.
RunRequest ==
  /\ stage = "Built"
  /\ job = "none"
  /\ Continue("target")
  /\ UNCHANGED <<Draft, Component>>

ResolveTarget ==
  /\ stage = "target"
  /\ IF ClusterKnown(doc) THEN Continue("claim") ELSE Fail("target")
  /\ UNCHANGED <<Draft, Component>>

\* ensurePVC creates the claim only if there is none.
ClaimRefused == BuildStoragePVC(doc) = "claim" /\ ~claim /\ ~ClaimAccepted(doc)

\* BuildStoragePVC, then ensurePVC.
EnsureClaim ==
  /\ stage = "claim"
  /\ IF BuildStoragePVC(doc) = "error" \/ ClaimRefused
     THEN Fail("claim") /\ UNCHANGED claim
     ELSE /\ Continue("main")
          /\ claim' = (claim \/ BuildStoragePVC(doc) = "claim")
  /\ UNCHANGED <<Draft, job>>

\* BuildJob, then applyAndWait.
ApplyMain ==
  /\ stage = "main"
  /\ IF BuildJob(doc) = "error" \/ ~MainJobAccepted(doc)
     THEN Fail("main") /\ UNCHANGED job
     ELSE Continue("verify") /\ job' = BuildJob(doc)
  /\ UNCHANGED <<Draft, claim>>

\* BuildPostRunJob, then applyAndWait if there is a Job, and the phase the
\* Jobs ended in.  The main Job stays, whatever comes of it.
Verify ==
  /\ stage = "verify"
  /\ IF \/ BuildPostRunJob(doc) = "error"
        \/ /\ BuildPostRunJob(doc) # "nothing"
           /\ ~PostRunJobAccepted(doc)
     THEN Fail("verify")
     ELSE Continue("Succeeded") \/ Fail("containers")
  /\ UNCHANGED <<Draft, Component>>

\* The TTL removes the Job, a cleanup the claim as well.
Expire ==
  /\ stage \in Resting
  /\ job # "none"
  /\ job' = "none"
  /\ UNCHANGED <<Draft, stage, failed, claim>>

Cleanup ==
  /\ stage \in Resting
  /\ job' = "none"
  /\ claim' = FALSE
  /\ UNCHANGED <<Draft, stage, failed>>

Next ==
  \/ Create \/ CorrectAsTold
  \/ BuildRequest \/ Clone \/ DockerBuild
  \/ RunRequest \/ ResolveTarget \/ EnsureClaim \/ ApplyMain \/ Verify
  \/ Expire \/ Cleanup

Spec == Init /\ [][Next]_vars

---------------------------------------------------------------------------
(* Properties *)

\* Every variable keeps its type, and what is stored passed the checks.
AdmissionTypeOK ==
  /\ origin \in {"api", "form"}
  /\ doc \in Document
  /\ stage \in Stage
  /\ failed \in {"none", "containers"} \cup Building \cup Running
  /\ corrected \in BOOLEAN /\ claim \in BOOLEAN
  /\ job \in Mounts \cup {"none"}
  /\ stage = "refused" <=> reported # {}
  /\ stage \notin {"draft", "refused"} => Validate(doc) = {}

\* Validate reports every violation at once: a document corrected exactly
\* where the answer said so is not refused a second time.
OneRoundTrip == corrected => stage # "refused"

\* The form's own checks cover what its page has no place to show: every
\* error the server returns for a document of the form belongs to an input.
FormErrorsShown ==
  origin = "form" /\ stage = "refused" => reported \subseteq FormFields

\* hooks.postRun is read last, and its items are checked by nobody before the
\* cluster sees them.  They are all a document can have wrong that a run finds
\* out only when its main Job exists, where the Job stays behind and blocks
\* the next run with AlreadyExists; any other fault leaves no Job.
OnlyPostRunLeavesJob ==
  failed \in Running /\ job # "none" =>
    failed = "verify" /\ doc.hooks.postRun = "refused"

\* BuildStoragePVC and BuildJob read the storage separately: the Job mounts
\* the claim exactly when there is one.
MountMatchesClaim == job # "none" => (job = "claim" <=> claim)

\* E2.S3: resources are validated on creation "para evitar Componentes
\* malformados chegando ao build/execucao".  This and the next two the
\* code does not keep (README, section 4).
ResourcesReachRunWellFormed == stage = "claim" => ResourcesDecode(doc)

\* ADR 0019: the form covers the real schema, so what it registers is not
\* refused for want of a build field.
FormCoversBuild == origin = "form" => failed # "docker"

\* validation.js: the form's quantities have the format ParseQuantity takes.
FormQuantitiesParse ==
  origin = "form" /\ stage = "Pending" =>
    "unparsable" \notin {doc.resources.requests, doc.resources.limits}
============================================================================
