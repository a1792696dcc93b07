---------------------------- MODULE JobManifest ----------------------------
(***************************************************************************)
(* What the build and the run make of a component's blocks: the decoding   *)
(* in internal/build (broker, cloner, image tag) and the manifests of      *)
(* internal/controller/job_builder.go.  A manifest is modelled by the      *)
(* storage it mounts, that of the verification Job by the class of its     *)
(* containers; "error" is the error the function returns.                  *)
(***************************************************************************)
EXTENDS ComponentDocument

\* Only documents that passed Validate come here: the form is "object", or
\* "absent" for an optional block, which decodes to an empty one.
Decodes(block) == block.form = "object" => block.wellTyped

---------------------------------------------------------------------------
(* The build *)

\* buildCloneSpec, then Clone's switch on the type of the ref.
Clonable(doc) ==
  /\ Decodes(doc.source)
  /\ doc.source.ref = "supported"

\* buildBuildSpec, then the arguments DockerBuilder.Build needs; an absent
\* block is an empty one.
ImageNamed(doc) ==
  /\ doc.build.form = "object"
  /\ doc.build.wellTyped
  /\ doc.build.imageRepository
  /\ doc.build.imageTagStrategy \in {"unset", "commit-sha"}

---------------------------------------------------------------------------
(* The run *)

\* parseTargetContext, then GetClientset: minikube is the only provider.
ClusterKnown(doc) ==
  /\ Decodes(doc.targetContext)
  /\ doc.targetContext.cluster = "minikube"

\* parseJobResources: requests is a map of strings here.
ResourcesDecode(doc) ==
  /\ Decodes(doc.resources)
  /\ doc.resources.requests \notin {"notObject", "numbers"}

\* buildStoragePlan and buildStoragePVC: a claim must have a size, a
\* directory may have a limit.
StoragePlan(res) ==
  IF res.storage = "unset" THEN "nothing"
  ELSE IF res.storage = "pvc"
       THEN IF res.size \in {"parses", "refused"} THEN "claim" ELSE "error"
       ELSE IF res.size = "unparsable" THEN "error" ELSE "directory"

\* Mutant: whatever storage has a size gets a claim.
ClaimWheneverSized(doc) ==
  IF ~ResourcesDecode(doc) \/ StoragePlan(doc.resources) = "error" THEN "error"
  ELSE IF doc.resources.storage # "unset" /\ doc.resources.size = "parses"
       THEN "claim" ELSE "nothing"

BuildStoragePVC(doc) ==
  IF ~ResourcesDecode(doc) THEN "error"
  ELSE IF StoragePlan(doc.resources) = "directory" THEN "nothing"
  ELSE StoragePlan(doc.resources)

\* Mutant: hooks and lifecycle are left to the verification Job.
BuildJobFromRuntime(doc) ==
  IF /\ Decodes(doc.runtime)
     /\ ResourcesDecode(doc)
     /\ "unparsable" \notin {doc.resources.requests, doc.resources.limits}
  THEN StoragePlan(doc.resources)
  ELSE "error"

\* hooks (for preRun) and lifecycle are decoded here as well.
BuildJob(doc) ==
  IF /\ Decodes(doc.runtime)
     /\ ResourcesDecode(doc)
     /\ "unparsable" \notin {doc.resources.requests, doc.resources.limits}
     /\ doc.hooks.form # "mistyped"
     /\ Decodes(doc.lifecycle)
  THEN StoragePlan(doc.resources)
  ELSE "error"

\* No items, no Job; its deadline and TTL come from lifecycle too, and its
\* containers are the items, copied as they are.
BuildPostRunJob(doc) ==
  IF doc.hooks.form = "mistyped" THEN "error"
  ELSE IF doc.hooks.form = "absent" \/ doc.hooks.postRun = "none" THEN "nothing"
  ELSE IF Decodes(doc.lifecycle) THEN doc.hooks.postRun ELSE "error"

---------------------------------------------------------------------------
(* What the cluster's API server makes of these manifests on Create.       *)

Accepted(block) == block.form = "object" => block.accepted

ClaimAccepted(doc) ==
  /\ doc.targetContext.namespaceExists
  /\ doc.resources.size # "refused"

MainJobAccepted(doc) ==
  /\ doc.targetContext.namespaceExists
  /\ Accepted(doc.runtime) /\ Accepted(doc.lifecycle)
  /\ "refused" \notin {doc.resources.requests, doc.resources.limits}
  /\ BuildJob(doc) = "directory" => doc.resources.size # "refused"
  /\ doc.hooks.form = "object" => doc.hooks.preRun # "refused"

PostRunJobAccepted(doc) ==
  /\ doc.targetContext.namespaceExists
  /\ Accepted(doc.lifecycle)
  /\ BuildPostRunJob(doc) # "refused"
============================================================================
