---------------------------- MODULE MCAdmission ----------------------------
(* The documentation's example with any field of up to two of its blocks   *)
(* changed, and the documents of the form with up to two such changes.     *)
EXTENDS Admission

\* The blocks that differ from b in one field, or are not objects at all.
Forms(b, forms) == {[b EXCEPT !.form = f] : f \in forms}
Untyped(b) == {[b EXCEPT !.wellTyped = FALSE]}

Sources(b) == Forms(b, Form) \cup Untyped(b)
  \cup {s \in Source : s.form = "object" /\ s.wellTyped}

\* One field changed, or the storage as a whole.
ResourcesOf(b) == Forms(b, Form) \cup Untyped(b)
  \cup {r \in Resources : /\ r.form = "object" /\ r.wellTyped
                          /\ <<r.requests, r.limits>> = <<b.requests, b.limits>>
                             \/ <<r.storage, r.size, r.limits>> =
                                  <<b.storage, b.size, b.limits>>
                             \/ r = [b EXCEPT !.limits = r.limits]}

Blocks(b) ==
  [nome |-> {"blank", "given"},
   source |-> Sources(b.source),
   resources |-> ResourcesOf(b.resources),
   runtime |-> Forms(b.runtime, Form) \cup Untyped(b.runtime)
     \cup {[b.runtime EXCEPT !.workloadKind = k] : k \in {"blank", "unknown"}}
     \cup {[b.runtime EXCEPT !.accepted = FALSE]},
   targetContext |-> Forms(b.targetContext, Form) \cup Untyped(b.targetContext)
     \cup {[b.targetContext EXCEPT !.cluster = k] :
             k \in {"blank", "eks", "unknown"}}
     \cup {[b.targetContext EXCEPT !.namespaceExists = FALSE]},
   build |-> Forms(b.build, Form) \cup Untyped(b.build)
     \cup {x \in Build : x.form = "object" /\ x.wellTyped},
   lifecycle |-> Forms(b.lifecycle, Form) \cup Untyped(b.lifecycle)
     \cup {[b.lifecycle EXCEPT !.cleanupPolicy = k] : k \in {"unset", "unknown"}}
     \cup {[b.lifecycle EXCEPT !.accepted = FALSE]},
   hooks |-> {h \in Hooks :
                h.form # "object" => h.preRun = "none" /\ h.postRun = "none"}]

Near(b) ==
  UNION {{[b EXCEPT ![f] = x, ![g] = y] : x \in Blocks(b)[f], y \in Blocks(b)[g]} :
           f, g \in DOMAIN b}

\* What the form sends when it is filled in like the example.
FormExample ==
  [Example EXCEPT !.build.imageRepository = FALSE,
                  !.build.imageTagStrategy = "unset",
                  !.hooks.form = "absent", !.hooks.preRun = "none",
                  !.hooks.postRun = "none"]

ExampleAndNear == Near(Example) \cup Near(FormExample)
============================================================================
