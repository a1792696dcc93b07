-------------------------- MODULE AdmissionProofs --------------------------
(***************************************************************************)
(* Theorems about Admission, for every set of documents.  The three facts  *)
(* about the functions come first: a correction satisfies every check; a   *)
(* verification Job that the code or the cluster refuses after the main    *)
(* Job is refused for its containers; and the claim is the one the main    *)
(* Job mounts.                                                             *)
(***************************************************************************)
EXTENDS Admission, TLAPS

(* Each block on its own: a correction of what its check reports passes.   *)

LEMMA SourceCorrected ==
  ASSUME NEW d \in Document, NEW F, ValidateSource(d.source) \subseteq F
  PROVE  ValidateSource(Correct(d, F).source) = {}
<1> DEFINE s == d.source
<1>1. s \in Source
  BY DEF Document
<1>2. CASE "source" \in F
  BY <1>2 DEF Correct, ValidateSource, When, Example
<1>3. CASE "source" \notin F
  <2>1. s.form = "object"
    BY <1>3 DEF ValidateSource
  <2>2. Correct(d, F).source =
          [s EXCEPT !.repoUrl = IF "source.repoUrl" \in F THEN "absolute" ELSE s.repoUrl,
                    !.ref = IF "source.ref" \in F THEN "supported"
                            ELSE IF "source.ref.type" \in F THEN "supported"
                            ELSE s.ref]
    BY <1>1, <1>3 DEF Correct, Source
  <2>3. /\ s.repoUrl # "absolute" => "source.repoUrl" \in F
        /\ s.ref = "missing" => "source.ref" \in F
        /\ s.ref = "unknown" => "source.ref.type" \in F
    BY <2>1 DEF ValidateSource, When
  <2>4. /\ Correct(d, F).source.form = "object"
        /\ Correct(d, F).source.repoUrl = "absolute"
        /\ Correct(d, F).source.ref \notin {"missing", "unknown"}
    BY <1>1, <2>1, <2>2, <2>3 DEF Source
  <2> QED
    BY <2>4 DEF ValidateSource, When
<1> QED
  BY <1>2, <1>3

LEMMA ResourcesCorrected ==
  ASSUME NEW d \in Document, NEW F, ValidateResources(d.resources) \subseteq F
  PROVE  ValidateResources(Correct(d, F).resources) = {}
<1> DEFINE r == d.resources
<1>1. r \in Resources
  BY DEF Document
<1>2. CASE "resources" \in F
  BY <1>2 DEF Correct, ValidateResources, When, Example
<1>3. CASE "resources" \notin F
  <2>1. r.form = "object"
    BY <1>3 DEF ValidateResources
  <2>2. Correct(d, F).resources =
          [r EXCEPT !.requests = IF "resources.requests" \in F THEN "parses"
                                 ELSE r.requests,
                    !.storage = IF "resources.storage.type" \in F THEN "ephemeral"
                                ELSE r.storage]
    BY <1>1, <1>3 DEF Correct, Resources
  <2>3. /\ r.requests \in {"missing", "notObject", "empty"}
             => "resources.requests" \in F
        /\ r.storage = "unknown" => "resources.storage.type" \in F
    BY <2>1 DEF ValidateResources, When
  <2>4. /\ Correct(d, F).resources.form = "object"
        /\ Correct(d, F).resources.requests \notin {"missing", "notObject", "empty"}
        /\ Correct(d, F).resources.storage # "unknown"
    BY <1>1, <2>1, <2>2, <2>3 DEF Resources
  <2> QED
    BY <2>4 DEF ValidateResources, When
<1> QED
  BY <1>2, <1>3

LEMMA RuntimeCorrected ==
  ASSUME NEW d \in Document, NEW F, ValidateRuntime(d.runtime) \subseteq F
  PROVE  ValidateRuntime(Correct(d, F).runtime) = {}
<1>1. d.runtime \in Runtime
  BY DEF Document
<1> QED
  BY <1>1 DEF Correct, ValidateRuntime, When, Example, Runtime

LEMMA TargetContextCorrected ==
  ASSUME NEW d \in Document, NEW F,
         ValidateTargetContext(d.targetContext) \subseteq F
  PROVE  ValidateTargetContext(Correct(d, F).targetContext) = {}
<1>1. d.targetContext \in TargetContext
  BY DEF Document
<1> QED
  BY <1>1 DEF Correct, ValidateTargetContext, When, Example, TargetContext

LEMMA BuildCorrected ==
  ASSUME NEW d \in Document, NEW F, ValidateBuild(d.build) \subseteq F
  PROVE  ValidateBuild(Correct(d, F).build) = {}
<1>1. d.build \in Build
  BY DEF Document
<1> QED
  BY <1>1 DEF Correct, ValidateBuild, When, Example, Build

LEMMA LifecycleCorrected ==
  ASSUME NEW d \in Document, NEW F, ValidateLifecycle(d.lifecycle) \subseteq F
  PROVE  ValidateLifecycle(Correct(d, F).lifecycle) = {}
<1>1. d.lifecycle \in Lifecycle
  BY DEF Document
<1> QED
  BY <1>1 DEF Correct, ValidateLifecycle, When, Example, Lifecycle

(* Component.Validate reports everything that is wrong at once: a document *)
(* corrected exactly in the fields of the answer passes every check.       *)
THEOREM CorrectedIsValid ==
  ASSUME NEW d \in Document
  PROVE  Validate(Correct(d, Validate(d))) = {}
<1> DEFINE F == Validate(d)
<1>1. /\ When(d.nome = "blank", "nome") \subseteq F
      /\ ValidateSource(d.source) \subseteq F
      /\ ValidateResources(d.resources) \subseteq F
      /\ ValidateRuntime(d.runtime) \subseteq F
      /\ ValidateTargetContext(d.targetContext) \subseteq F
      /\ ValidateBuild(d.build) \subseteq F
      /\ ValidateLifecycle(d.lifecycle) \subseteq F
  BY DEF Validate
<1> HIDE DEF F
<1>2. When(Correct(d, F).nome = "blank", "nome") = {}
  BY <1>1 DEF Correct, When, Example
<1>3. Validate(Correct(d, F)) = {}
  BY <1>1, <1>2, SourceCorrected, ResourcesCorrected, RuntimeCorrected,
     TargetContextCorrected, BuildCorrected, LifecycleCorrected, Zenon
  DEF Validate
<1> QED
  BY <1>3 DEF F

---------------------------------------------------------------------------
(* The manifests *)

LEMMA PlanValues ==
  ASSUME NEW r
  PROVE  StoragePlan(r) \in Mounts \cup {"error"}
BY DEF StoragePlan, Mounts

LEMMA JobValues ==
  ASSUME NEW d
  PROVE  BuildJob(d) \in Mounts \cup {"error"}
BY PlanValues DEF BuildJob

(* Whatever BuildPostRunJob refuses, BuildJob has refused before it, and   *)
(* whatever the cluster refuses in the verification Job, but its           *)
(* containers, it has refused in the main Job: once that exists, only the  *)
(* items of hooks.postRun can stop the run.                                *)
THEOREM PostRunFollows ==
  ASSUME NEW d \in Document, BuildJob(d) # "error", MainJobAccepted(d)
  PROVE  /\ BuildPostRunJob(d) # "error"
         /\ ~PostRunJobAccepted(d) => d.hooks.postRun = "refused"
<1>1. d.hooks.form # "mistyped" /\ Decodes(d.lifecycle)
  BY DEF BuildJob
<1>2. BuildPostRunJob(d) \in {"nothing", d.hooks.postRun}
  BY <1>1 DEF BuildPostRunJob
<1>3. d.hooks.postRun # "error"
  BY DEF Document, Hooks, Items
<1>4. ~PostRunJobAccepted(d) => BuildPostRunJob(d) = "refused"
  BY DEF MainJobAccepted, PostRunJobAccepted
<1> QED
  BY <1>2, <1>3, <1>4

(* BuildStoragePVC and BuildJob interpret the same block separately, and   *)
(* agree: a main Job mounts the claim if and only if one was built for it. *)
THEOREM ClaimAgreement ==
  ASSUME NEW d \in Document, BuildJob(d) # "error"
  PROVE  /\ BuildStoragePVC(d) # "error"
         /\ BuildJob(d) = "claim" <=> BuildStoragePVC(d) = "claim"
<1>1. BuildJob(d) = StoragePlan(d.resources) /\ ResourcesDecode(d)
  BY DEF BuildJob
<1> QED
  BY <1>1 DEF BuildStoragePVC

---------------------------------------------------------------------------
(* Creation *)

LEMMA CorrectTyped ==
  ASSUME NEW d \in Document, NEW F
  PROVE  Correct(d, F) \in Document
<1> DEFINE e == Correct(d, F)
<1>1. e.nome \in {"blank", "given"}
  BY DEF Correct, Document, Example
<1>2. e.source \in Source
  BY DEF Correct, Document, Example, Source, Form
<1>3. e.resources \in Resources
  <2>1. CASE "resources" \in F
    <3>1. e.resources = Example.resources
      BY <2>1 DEF Correct
    <3> QED BY <3>1 DEF Example, Resources, Form, Quantity
  <2>2. CASE "resources" \notin F
    <3> DEFINE requests == IF "resources.requests" \in F THEN "parses"
                                                         ELSE d.resources.requests
               storage == IF "resources.storage.type" \in F THEN "ephemeral"
                                                            ELSE d.resources.storage
    <3>1. e.resources = [d.resources EXCEPT !.requests = requests,
                                            !.storage = storage]
      BY <2>2 DEF Correct
    <3>2. d.resources \in Resources
      BY DEF Document
    <3> HIDE DEF e
    <3> QED BY <3>1, <3>2 DEF Resources
  <2> QED BY <2>1, <2>2
<1>4. e.runtime \in Runtime
  BY DEF Correct, Document, Example, Runtime, Form
<1>5. e.targetContext \in TargetContext
  BY DEF Correct, Document, Example, TargetContext, Form
<1>6. e.build \in Build
  BY DEF Correct, Document, Example, Build, Form
<1>7. e.lifecycle \in Lifecycle
  BY DEF Correct, Document, Example, Lifecycle, Form
<1>8. e.hooks \in Hooks
  BY DEF Correct, Document
<1>9. e = [nome |-> e.nome, source |-> e.source, resources |-> e.resources,
           runtime |-> e.runtime, targetContext |-> e.targetContext,
           build |-> e.build, lifecycle |-> e.lifecycle, hooks |-> e.hooks]
  BY DEF Correct
<1> HIDE DEF e
<1>10. e \in Document
  BY <1>1, <1>2, <1>3, <1>4, <1>5, <1>6, <1>7, <1>8, <1>9 DEF Document
<1> QED
  BY <1>10 DEF e

(* The fields the form has no input for are those its own checks cover.    *)
LEMMA FormReports ==
  ASSUME NEW d \in Document, FormSends(d)
  PROVE  Validate(d) \subseteq FormFields
<1>1. ValidateSource(d.source) \subseteq FormFields
  BY DEF FormSends, ValidateSource, When, FormFields
<1>2. ValidateResources(d.resources) \subseteq FormFields
  BY DEF FormSends, FormResources, ValidateResources, When, FormFields
<1>3. ValidateRuntime(d.runtime) \subseteq FormFields
  BY DEF FormSends, ValidateRuntime, When, FormFields
<1>4. ValidateTargetContext(d.targetContext) \subseteq FormFields
  BY DEF FormSends, ValidateTargetContext, When, FormFields
<1>5. ValidateBuild(d.build) \subseteq FormFields
  BY DEF FormSends, ValidateBuild, When, FormFields
<1>6. ValidateLifecycle(d.lifecycle) \subseteq FormFields
  BY DEF FormSends, ValidateLifecycle, When, FormFields
<1>7. When(d.nome = "blank", "nome") \subseteq FormFields
  BY DEF When, FormFields
<1> QED
  BY <1>1, <1>2, <1>3, <1>4, <1>5, <1>6, <1>7 DEF Validate

---------------------------------------------------------------------------
(* The invariant, in three parts that need one another: what is stored is  *)
(* valid, what a run has behind it, and what exists in the cluster.        *)

CreationInv ==
  /\ corrected /\ stage = "draft" => Validate(doc) = {}
  /\ corrected => stage # "refused"
  /\ stage = "refused" => reported = Validate(doc)
  /\ origin = "form" /\ ~corrected => FormSends(doc)

Underway == Building \cup Running \cup {"Built"}

RunInv ==
  /\ stage \in Underway => failed = "none"
  /\ failed \in Running /\ job # "none" =>
       failed = "verify" /\ doc.hooks.postRun = "refused"
  /\ stage \in {"target", "claim", "main"} => job = "none"
  /\ stage = "verify" => BuildJob(doc) # "error" /\ MainJobAccepted(doc)

ClaimInv ==
  /\ stage \in {"draft", "refused"} => ~claim /\ job = "none"
  /\ claim => BuildStoragePVC(doc) = "claim"
  /\ stage = "main" /\ BuildStoragePVC(doc) = "claim" => claim
  /\ job # "none" => job = BuildJob(doc) /\ job # "error"
  /\ job = "claim" => claim

AdmissionInv == AdmissionTypeOK /\ CreationInv /\ RunInv /\ ClaimInv

LEMMA AdmissionInit == Init => AdmissionInv
<1> SUFFICES ASSUME Init PROVE AdmissionInv
  OBVIOUS
<1>1. AdmissionTypeOK
  BY AdmissionAssumption DEF Init, AdmissionTypeOK, Stage
<1>2. CreationInv
  BY DEF Init, CreationInv
<1>3. RunInv
  BY DEF Init, RunInv, Underway, Building, Running, Resting
<1>4. ClaimInv
  BY DEF Init, ClaimInv
<1> QED
  BY <1>1, <1>2, <1>3, <1>4 DEF AdmissionInv

(* The steps of a registered component leave its document alone.           *)
LEMMA RegisteredStep ==
  ASSUME AdmissionInv, UNCHANGED Draft, stage \notin {"draft", "refused"},
         stage' \in Stage \ {"draft", "refused"},
         failed' \in {"none", "containers"} \cup Building \cup Running,
         claim' \in BOOLEAN, job' \in Mounts \cup {"none"}
  PROVE  AdmissionTypeOK' /\ CreationInv'
<1>1. AdmissionTypeOK'
  BY DEF AdmissionInv, AdmissionTypeOK, Draft, Stage
<1>2. CreationInv'
  BY DEF AdmissionInv, CreationInv, Draft
<1> QED
  BY <1>1, <1>2

LEMMA AdmissionStep == AdmissionInv /\ [Next]_vars => AdmissionInv'
<1> SUFFICES ASSUME AdmissionInv, [Next]_vars PROVE AdmissionInv'
  OBVIOUS
<1> USE DEF Stage, Resting, Building, Running, Mounts, Underway
<1>1. CASE Create
  <2>1. AdmissionTypeOK'
    BY <1>1 DEF Create, AdmissionInv, AdmissionTypeOK, Component
  <2>2. CreationInv'
    BY <1>1 DEF Create, AdmissionInv, CreationInv, Component
  <2>3. RunInv' /\ ClaimInv'
    BY <1>1 DEF Create, AdmissionInv, AdmissionTypeOK, RunInv, ClaimInv, Component
  <2> QED
    BY <2>1, <2>2, <2>3 DEF AdmissionInv
<1>2. CASE CorrectAsTold
  <2>1. doc \in Document /\ reported = Validate(doc)
    BY <1>2 DEF CorrectAsTold, AdmissionInv, AdmissionTypeOK, CreationInv
  <2>2. doc' \in Document /\ Validate(doc') = {}
    BY <1>2, <2>1, CorrectedIsValid, CorrectTyped DEF CorrectAsTold
  <2>3. AdmissionTypeOK' /\ CreationInv'
    BY <1>2, <2>2 DEF CorrectAsTold, AdmissionInv, AdmissionTypeOK, CreationInv, Component
  <2>4. RunInv' /\ ClaimInv'
    BY <1>2 DEF CorrectAsTold, AdmissionInv, AdmissionTypeOK, RunInv, ClaimInv, Component
  <2> QED
    BY <2>3, <2>4 DEF AdmissionInv
<1>3. CASE BuildRequest \/ Clone \/ DockerBuild \/ RunRequest \/ ResolveTarget
  <2>1. /\ UNCHANGED Draft /\ UNCHANGED Component
        /\ stage \notin {"draft", "refused"}
        /\ stage' \in Stage \ {"draft", "refused"}
        /\ failed' \in {"none", "containers"} \cup Building \cup Running
    BY <1>3 DEF BuildRequest, Clone, DockerBuild, RunRequest, ResolveTarget,
       Continue, Fail, AdmissionInv, AdmissionTypeOK
  <2>2. AdmissionTypeOK' /\ CreationInv'
    BY <2>1, RegisteredStep DEF Component, AdmissionInv, AdmissionTypeOK
  <2>3. RunInv'
    BY <1>3 DEF BuildRequest, Clone, DockerBuild, RunRequest, ResolveTarget,
       Continue, Fail, Draft, Component, AdmissionInv, RunInv
  <2>4. ClaimInv'
    BY <1>3 DEF BuildRequest, Clone, DockerBuild, RunRequest, ResolveTarget,
       Continue, Fail, Draft, Component, AdmissionInv, ClaimInv
  <2> QED
    BY <2>2, <2>3, <2>4 DEF AdmissionInv
<1>4. CASE EnsureClaim
  <2>1. AdmissionTypeOK' /\ CreationInv'
    BY <1>4, RegisteredStep DEF EnsureClaim, Continue, Fail, AdmissionInv,
       AdmissionTypeOK, Draft
  <2>2. RunInv' /\ ClaimInv'
    BY <1>4 DEF EnsureClaim, Continue, Fail, AdmissionInv, AdmissionTypeOK,
       RunInv, ClaimInv, Draft
  <2> QED
    BY <2>1, <2>2 DEF AdmissionInv
<1>5. CASE ApplyMain
  <2>1. BuildJob(doc) \in Mounts \cup {"error"}
    BY JobValues
  <2>2. AdmissionTypeOK' /\ CreationInv'
    BY <1>5, <2>1, RegisteredStep DEF ApplyMain, Continue, Fail, AdmissionInv,
       AdmissionTypeOK, Draft
  <2>3. RunInv'
    BY <1>5 DEF ApplyMain, Continue, Fail, AdmissionInv, AdmissionTypeOK, RunInv, Draft
  <2>4. ClaimInv'
    BY <1>5, ClaimAgreement DEF ApplyMain, Continue, Fail, AdmissionInv,
       AdmissionTypeOK, ClaimInv, Draft
  <2> QED
    BY <2>2, <2>3, <2>4 DEF AdmissionInv
<1>6. CASE Verify
  <2>1. /\ BuildPostRunJob(doc) # "error"
        /\ ~PostRunJobAccepted(doc) => doc.hooks.postRun = "refused"
    BY <1>6, PostRunFollows DEF Verify, AdmissionInv, AdmissionTypeOK, RunInv
  <2>2. AdmissionTypeOK' /\ CreationInv'
    BY <1>6, RegisteredStep DEF Verify, Continue, Fail, AdmissionInv,
       AdmissionTypeOK, Draft, Component
  <2>3. RunInv' /\ ClaimInv'
    BY <1>6, <2>1 DEF Verify, Continue, Fail, AdmissionInv, RunInv, ClaimInv,
       Draft, Component
  <2> QED
    BY <2>2, <2>3 DEF AdmissionInv
<1>7. CASE Expire \/ Cleanup
  <2>1. AdmissionTypeOK' /\ CreationInv'
    BY <1>7, RegisteredStep DEF Expire, Cleanup, AdmissionInv, AdmissionTypeOK, Draft
  <2>2. RunInv' /\ ClaimInv'
    BY <1>7 DEF Expire, Cleanup, AdmissionInv, RunInv, ClaimInv, Draft
  <2> QED
    BY <2>1, <2>2 DEF AdmissionInv
<1>8. CASE UNCHANGED vars
  BY <1>8 DEF vars, AdmissionInv, AdmissionTypeOK, CreationInv, RunInv, ClaimInv
<1> QED
  BY <1>1, <1>2, <1>3, <1>4, <1>5, <1>6, <1>7, <1>8 DEF Next

LEMMA AdmissionInvariant == Spec => []AdmissionInv
BY AdmissionInit, AdmissionStep, PTL DEF Spec

(* Every stored document passed the checks, and every state is well typed. *)
THEOREM AdmissionTypeCorrect == Spec => []AdmissionTypeOK
<1>1. AdmissionInv => AdmissionTypeOK
  BY DEF AdmissionInv
<1> QED
  BY <1>1, AdmissionInvariant, PTL

(* No document is refused twice by a user who follows the answer.          *)
THEOREM OneRoundTripSuffices == Spec => []OneRoundTrip
<1>1. AdmissionInv => OneRoundTrip
  BY DEF AdmissionInv, CreationInv, OneRoundTrip
<1> QED
  BY <1>1, AdmissionInvariant, PTL

(* The form can show every error the server returns for what it sends.     *)
THEOREM FormShowsErrors == Spec => []FormErrorsShown
<1>1. AdmissionInv => FormErrorsShown
  BY FormReports DEF AdmissionInv, AdmissionTypeOK, CreationInv, FormErrorsShown
<1> QED
  BY <1>1, AdmissionInvariant, PTL

(* A run that the document stops leaves a Job behind only if the items of  *)
(* hooks.postRun stopped it, and a Job mounts exactly the claim that was   *)
(* ensured for it.                                                         *)
THEOREM DocumentFaults == Spec => [](OnlyPostRunLeavesJob /\ MountMatchesClaim)
<1>1. ASSUME AdmissionInv PROVE OnlyPostRunLeavesJob
  BY <1>1 DEF AdmissionInv, RunInv, OnlyPostRunLeavesJob
<1>2. ASSUME AdmissionInv PROVE MountMatchesClaim
  BY <1>2, ClaimAgreement DEF AdmissionInv, AdmissionTypeOK, ClaimInv, MountMatchesClaim
<1> QED
  BY <1>1, <1>2, AdmissionInvariant, PTL
============================================================================
