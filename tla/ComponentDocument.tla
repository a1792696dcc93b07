------------------------- MODULE ComponentDocument -------------------------
(***************************************************************************)
(* The document a component is created from (POST /components) and the     *)
(* checks of internal/store on it.  A block is raw JSON that each consumer *)
(* decodes into a struct of its own, so a field is modelled by the class   *)
(* its value falls in for the checks and for the consumers:                *)
(*   form       not sent, of the wrong type for the validator's struct (the *)
(*              block itself or one of the fields it reads), or an object  *)
(*              (a JSON null is an object with every field unset)          *)
(*   wellTyped  the fields only a later consumer decodes have its types    *)
(*   accepted   the cluster's API server takes the manifest the fields are *)
(*              copied into: no negative limit, a restartPolicy a Job may  *)
(*              have, containers with an image and a valid, unique name    *)
(***************************************************************************)
EXTENDS Naturals

Form == {"absent", "mistyped", "object"}

Source == [form: Form, wellTyped: BOOLEAN,
           repoUrl: {"blank", "incomplete", "absolute"},
           ref: {"missing", "untyped", "supported", "unknown"}]

\* requests: "numbers" are members that are not JSON strings, "unparsable"
\* ones are strings resource.ParseQuantity refuses; "refused" ones it parses,
\* but the API server takes no object with them (negative, above its limit).
\* size is sizeLimit or pvc.size, whichever the storage type uses; a pvc's
\* class is "refused" for its accessModes and storageClassName as well.
Quantity == {"unset", "parses", "refused", "unparsable"}
Resources == [form: Form, wellTyped: BOOLEAN,
              requests: {"missing", "notObject", "empty",
                         "numbers", "unparsable", "refused", "parses"},
              limits: Quantity,
              storage: {"unset", "ephemeral", "pvc", "unknown"},
              size: Quantity]

Runtime == [form: Form, wellTyped: BOOLEAN,
            workloadKind: {"blank", "known", "unknown"}, accepted: BOOLEAN]

TargetContext == [form: Form, wellTyped: BOOLEAN,
                  cluster: {"blank", "minikube", "eks", "unknown"},
                  namespaceExists: BOOLEAN]

Build == [form: Form, wellTyped: BOOLEAN,
          strategy: {"unset", "known", "unknown"},
          imageRepository: BOOLEAN,
          imageTagStrategy: {"unset", "commit-sha", "unknown"}]

Lifecycle == [form: Form, wellTyped: BOOLEAN,
              cleanupPolicy: {"unset", "known", "unknown"}, accepted: BOOLEAN]

\* Never looked at on creation.
Items == {"none", "accepted", "refused"}
Hooks == [form: Form, preRun: Items, postRun: Items]

Document == [nome: {"blank", "given"},
             source: Source, resources: Resources, runtime: Runtime,
             targetContext: TargetContext,
             build: Build, lifecycle: Lifecycle, hooks: Hooks]

---------------------------------------------------------------------------
(* Component.Validate: every violation at once, as the set of the fields   *)
(* the answer names.                                                       *)

When(violated, field) == IF violated THEN {field} ELSE {}

\* Mutant: the first violation ends the check, as a fail-fast one would.
ValidateSourceFailFast(s) ==
  IF s.form # "object" THEN {"source"}
  ELSE IF s.repoUrl # "absolute" THEN {"source.repoUrl"}
  ELSE When(s.ref = "missing", "source.ref")
       \cup When(s.ref = "unknown", "source.ref.type")

\* A ref without a type is let through.
ValidateSource(s) ==
  IF s.form # "object" THEN {"source"}
  ELSE When(s.repoUrl # "absolute", "source.repoUrl")
       \cup When(s.ref = "missing", "source.ref")
       \cup When(s.ref = "unknown", "source.ref.type")

ValidateResources(r) ==
  IF r.form # "object" THEN {"resources"}
  ELSE When(r.requests \in {"missing", "notObject", "empty"},
            "resources.requests")
       \cup When(r.storage = "unknown", "resources.storage.type")

ValidateRuntime(r) ==
  IF r.form # "object" THEN {"runtime"}
  ELSE When(r.workloadKind # "known", "runtime.workloadKind")

ValidateTargetContext(t) ==
  IF t.form # "object" THEN {"targetContext"}
  ELSE When(t.cluster \notin {"minikube", "eks"}, "targetContext.cluster")

ValidateBuild(b) ==
  When(b.form = "mistyped", "build")
  \cup When(b.form = "object" /\ b.strategy = "unknown", "build.strategy")

ValidateLifecycle(l) ==
  When(l.form = "mistyped", "lifecycle")
  \cup When(l.form = "object" /\ l.cleanupPolicy = "unknown",
            "lifecycle.cleanupPolicy")

Validate(doc) ==
  When(doc.nome = "blank", "nome")
  \cup ValidateSource(doc.source) \cup ValidateResources(doc.resources)
  \cup ValidateRuntime(doc.runtime)
  \cup ValidateTargetContext(doc.targetContext)
  \cup ValidateBuild(doc.build) \cup ValidateLifecycle(doc.lifecycle)

---------------------------------------------------------------------------
(* What the user does with that answer: give every field it names a value  *)
(* the documentation allows, and touch nothing else.  A block it refuses   *)
(* as a whole is replaced by that of the example in the documentation.     *)

Example ==
  [nome |-> "given",
   source |-> [form |-> "object", wellTyped |-> TRUE,
               repoUrl |-> "absolute", ref |-> "supported"],
   resources |-> [form |-> "object", wellTyped |-> TRUE,
                  requests |-> "parses", limits |-> "parses",
                  storage |-> "pvc", size |-> "parses"],
   runtime |-> [form |-> "object", wellTyped |-> TRUE,
                workloadKind |-> "known", accepted |-> TRUE],
   targetContext |-> [form |-> "object", wellTyped |-> TRUE,
                      cluster |-> "minikube", namespaceExists |-> TRUE],
   build |-> [form |-> "object", wellTyped |-> TRUE, strategy |-> "known",
              imageRepository |-> TRUE, imageTagStrategy |-> "commit-sha"],
   lifecycle |-> [form |-> "object", wellTyped |-> TRUE,
                  cleanupPolicy |-> "known", accepted |-> TRUE],
   hooks |-> [form |-> "object", preRun |-> "accepted",
              postRun |-> "accepted"]]

Correct(doc, fields) ==
  LET Fix(field, new, old) == IF field \in fields THEN new ELSE old
  IN [nome |-> Fix("nome", Example.nome, doc.nome),
      source |-> Fix("source", Example.source,
        [doc.source EXCEPT
          !.repoUrl = Fix("source.repoUrl", "absolute", @),
          !.ref = Fix("source.ref", "supported",
                      Fix("source.ref.type", "supported", @))]),
      resources |-> Fix("resources", Example.resources,
        [doc.resources EXCEPT
          !.requests = Fix("resources.requests", "parses", @),
          !.storage = Fix("resources.storage.type", "ephemeral", @)]),
      runtime |-> Fix("runtime", Example.runtime,
        [doc.runtime EXCEPT
          !.workloadKind = Fix("runtime.workloadKind", "known", @)]),
      targetContext |-> Fix("targetContext", Example.targetContext,
        [doc.targetContext EXCEPT
          !.cluster = Fix("targetContext.cluster", "minikube", @)]),
      build |-> Fix("build", Example.build,
        [doc.build EXCEPT
          !.strategy = Fix("build.strategy", "known", @)]),
      lifecycle |-> Fix("lifecycle", Example.lifecycle,
        [doc.lifecycle EXCEPT
          !.cleanupPolicy = Fix("lifecycle.cleanupPolicy", "known", @)]),
      hooks |-> doc.hooks]
============================================================================
