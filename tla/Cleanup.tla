------------------------------ MODULE Cleanup ------------------------------
(***************************************************************************)
(* POST /cleanup, POST /components/{id}/cleanup and `kubeforge cleanup     *)
(* --all` (internal/controller/cleanup.go): list and delete the labelled   *)
(* Jobs, then Pods, then claims, and record what was removed.  Each        *)
(* cleanup is a process that interleaves with the runs and with other      *)
(* cleanups between any two API calls.                                     *)
(***************************************************************************)
EXTENDS Runner, Naturals, Sequences

CONSTANTS
  Cleanups,   \* the cleanups requested, over HTTP or by the CLI
  Scope,      \* the component each cleanup names, or Global
  Global,     \* every component: POST /cleanup and the CLI
  MayCancel   \* may the client go away, or the CLI's 30 s pass, meanwhile?

ASSUME CleanupAssumption ==
  /\ Scope \in [Cleanups -> Components \cup {Global}]
  /\ Global \notin Components
  /\ MayCancel \in BOOLEAN

VARIABLES
  cpc,        \* the next step of each cleanup
  listed,     \* what the last List returned and is still to be deleted
  removed,    \* the CleanupResults collected so far, in order
  swept,      \* cleanups that met no error in the cluster
  cancelled,  \* cleanups whose context is done
  audit,      \* what each cleanup has written to cleanup_audit_log, in order
  found,      \* history: the Job objects in scope when the cleanup began
  taken       \* history: what the cluster has deleted at each cleanup's call

cleanupVars == <<cpc, listed, removed, swept, cancelled, audit, found, taken>>

Job(c, k) == <<"Job", c, k>>          \* by name
Pod(r, k) == <<"Pod", r, k>>
Claim(c) == <<"PVC", c, "data">>
Resources == {Job(c, k) : c \in Components, k \in Kinds}
             \cup {Pod(r, k) : r \in Runs, k \in Kinds}
             \cup {Claim(c) : c \in Components}

CleanupCluster == {"jobs", "pods", "claims"}
CleanupLive == CleanupCluster \cup {"listJobs", "audit"}
CleanupStep == CleanupLive \cup {"idle", "done", "lost"}

CleanupInit ==
  /\ cpc = [u \in Cleanups |-> "idle"]
  /\ listed = [u \in Cleanups |-> {}]
  /\ removed = [u \in Cleanups |-> <<>>]
  /\ swept = {}
  /\ cancelled = {}
  /\ audit = [u \in Cleanups |-> <<>>]
  /\ found = [u \in Cleanups |-> {}]
  /\ taken = [u \in Cleanups |-> <<>>]

CleanupTypeOK ==
  /\ cpc \in [Cleanups -> CleanupStep]
  /\ listed \in [Cleanups -> SUBSET Resources]
  /\ removed \in [Cleanups -> Seq(Resources)]
  /\ swept \subseteq Cleanups
  /\ cancelled \subseteq Cleanups
  /\ audit \in [Cleanups -> Seq(Resources)]
  /\ found \in [Cleanups -> SUBSET (Runs \X Kinds)]
  /\ taken \in [Cleanups -> Seq(Resources)]

CGoto(u, step) == cpc' = [cpc EXCEPT ![u] = step]

\* The label selector.
Selects(u, c) == Scope[u] \in {c, Global}

\* Mutant: only finished Jobs are listed.
FinishedJobsInScope(u) ==
  {x \in Resources : \E c \in Components, k \in Kinds :
     x = Job(c, k) /\ Selects(u, c) /\ JobNamed(c, k)
     /\ StatusNamed(c, k) # "Active"}

\* The labelled resources the cluster holds now.
JobsInScope(u) ==
  {x \in Resources : \E c \in Components, k \in Kinds :
     x = Job(c, k) /\ Selects(u, c) /\ JobNamed(c, k)}
PodsInScope(u) ==
  {Pod(p[1], p[2]) : p \in {q \in pods : Selects(u, Target[q[1]])}}
ClaimsInScope(u) == {Claim(c) : c \in {d \in pvcs : Selects(u, d)}}

---------------------------------------------------------------------------
\* handleCleanup, or handleCleanupComponent with Components.Get (404 when
\* the component does not exist).
CleanupRequest(u) ==
  /\ cpc[u] = "idle"
  /\ Scope[u] # Global => Exists(Scope[u])
  /\ found' = [found EXCEPT ![u] =
       {j \in Runs \X Kinds : /\ Selects(u, Target[j[1]])
                              /\ named[Target[j[1]]][j[2]] = j[1]}]
  /\ CGoto(u, "listJobs")
  /\ UNCHANGED <<storeVars, clusterVars, runnerVars,
                 listed, removed, swept, cancelled, audit, taken>>

\* One List call; the step it leads to deletes what it returned.
List(u, from, to, items) ==
  /\ cpc[u] = from
  /\ u \notin cancelled
  /\ listed[u] = {}
  /\ listed' = [listed EXCEPT ![u] = items]
  /\ CGoto(u, to)
  /\ UNCHANGED <<storeVars, clusterVars, runnerVars,
                 removed, swept, cancelled, audit, found, taken>>

ListResources(u) ==
  \/ List(u, "listJobs", "jobs", JobsInScope(u))
  \/ List(u, "jobs", "pods", PodsInScope(u))
  \/ List(u, "pods", "claims", ClaimsInScope(u))

\* What the cluster does when it grants a Delete.
DeleteResource(u, x) ==
  \/ /\ cpc[u] = "jobs"
     /\ \E c \in Components, k \in Kinds : x = Job(c, k) /\ DeleteJob(c, k)
  \/ /\ cpc[u] = "pods"
     /\ \E p \in pods : x = Pod(p[1], p[2]) /\ pods' = pods \ {p}
     /\ UNCHANGED <<jobs, named, pvcs>>
  \/ /\ cpc[u] = "claims"
     /\ \E c \in pvcs : x = Claim(c) /\ pvcs' = pvcs \ {c}
     /\ UNCHANGED <<jobs, named, pods>>

\* One Delete call that the cluster grants.  Its answer may get lost, also
\* because the context is done meanwhile: that is an error like any other.
Delete(u) ==
  /\ \E x \in listed[u] :
       /\ DeleteResource(u, x)
       /\ taken' = [taken EXCEPT ![u] = Append(@, x)]
       /\ \/ /\ u \notin cancelled
             /\ listed' = [listed EXCEPT ![u] = @ \ {x}]
             /\ removed' = [removed EXCEPT ![u] = Append(@, x)]
             /\ UNCHANGED cpc
          \/ /\ listed' = [listed EXCEPT ![u] = {}]
             /\ CGoto(u, "audit")
             /\ UNCHANGED removed
  /\ UNCHANGED <<storeVars, runnerVars, swept, cancelled, audit, found>>

\* NotFound is tolerated for a Pod, and for a Pod only.
SkipPod(u) ==
  /\ cpc[u] = "pods"
  /\ u \notin cancelled
  /\ \E x \in listed[u] \ PodsInScope(u) :
       listed' = [listed EXCEPT ![u] = @ \ {x}]
  /\ UNCHANGED <<storeVars, clusterVars, runnerVars,
                 cpc, removed, swept, cancelled, audit, found, taken>>

\* Mutant: the error is returned alone.
SweepForgets(u) ==
  /\ cpc[u] \in CleanupCluster \cup {"listJobs"}
  /\ cpc[u] = "claims" => listed[u] # {}
  /\ listed' = [listed EXCEPT ![u] = {}]
  /\ removed' = [removed EXCEPT ![u] = <<>>]
  /\ CGoto(u, "audit")
  /\ UNCHANGED <<storeVars, clusterVars, runnerVars,
                 swept, cancelled, audit, found, taken>>

\* Any other error (NotFound of a Job or claim, the API, a done context)
\* ends the sweep; the results so far go to the audit.
SweepFails(u) ==
  /\ cpc[u] \in CleanupCluster \cup {"listJobs"}
  /\ cpc[u] = "claims" => listed[u] # {}
  /\ listed' = [listed EXCEPT ![u] = {}]
  /\ CGoto(u, "audit")
  /\ UNCHANGED <<storeVars, clusterVars, runnerVars,
                 removed, swept, cancelled, audit, found, taken>>

SweepEnds(u) ==
  /\ cpc[u] = "claims" /\ listed[u] = {}
  /\ swept' = swept \cup {u}
  /\ CGoto(u, "audit")
  /\ UNCHANGED <<storeVars, clusterVars, runnerVars,
                 listed, removed, cancelled, audit, found, taken>>

---------------------------------------------------------------------------
(* PersistCleanupAudit, with the same context as the sweep *)

Record(u) ==
  /\ cpc[u] = "audit"
  /\ u \notin cancelled
  /\ Len(audit[u]) < Len(removed[u])
  /\ audit' = [audit EXCEPT ![u] = Append(@, removed[u][Len(@) + 1])]
  /\ UNCHANGED <<storeVars, clusterVars, runnerVars,
                 cpc, listed, removed, swept, cancelled, found, taken>>

\* The first Record that fails ends the audit (its error is only logged).
AuditStops(u) == audit[u] = removed[u] \/ u \in cancelled \/ MayFault

\* Mutant: a cleanup that ends marks its components CleanedUp.
CleanupEndsCleanedUp(u) ==
  /\ cpc[u] = "audit"
  /\ AuditStops(u)
  /\ CGoto(u, "done")
  /\ components' = [c \in Components |->
       IF Selects(u, c) /\ Exists(c)
       THEN [components[c] EXCEPT !.phase = "CleanedUp"] ELSE components[c]]
  /\ UNCHANGED <<executions, storeError, clusterVars, runnerVars,
                 listed, removed, swept, cancelled, audit, found, taken>>

CleanupEnds(u) ==
  /\ cpc[u] = "audit"
  /\ AuditStops(u)
  /\ CGoto(u, "done")
  /\ UNCHANGED <<storeVars, clusterVars, runnerVars,
                 listed, removed, swept, cancelled, audit, found, taken>>

\* The client disconnects (r.Context()), or the CLI's 30 s timeout fires.
Cancel(u) ==
  /\ MayCancel
  /\ cpc[u] \in CleanupLive
  /\ u \notin cancelled
  /\ cancelled' = cancelled \cup {u}
  /\ UNCHANGED <<storeVars, clusterVars, runnerVars,
                 cpc, listed, removed, swept, audit, found, taken>>

CleanupNext == \E u \in Cleanups :
  \/ CleanupRequest(u) \/ ListResources(u) \/ Delete(u) \/ SkipPod(u)
  \/ SweepFails(u) \/ SweepEnds(u) \/ Record(u) \/ CleanupEnds(u)
  \/ Cancel(u)
============================================================================
