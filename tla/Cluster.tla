------------------------------ MODULE Cluster ------------------------------
(***************************************************************************)
(* What the Runner and the cleanup use of the Kubernetes API: Jobs, their  *)
(* Pods and PersistentVolumeClaims of one namespace.  Kubernetes is not    *)
(* part of the repository; this is its behaviour as internal/controller    *)
(* relies on it.  A Job object is identified by the run that created it    *)
(* and its kind (its UID); the API addresses it by NAME, which is the same *)
(* for every run of a component.                                           *)
(***************************************************************************)
EXTENDS MetadataStore

VARIABLES
  jobs,   \* every Job object ever created and what became of it
  named,  \* the run whose Job now holds each name, or NoTask
  pods,   \* the Job objects that have a Pod
  pvcs    \* the components whose claim <id>-data exists

clusterVars == <<jobs, named, pods, pvcs>>

Kinds == {"main", "postrun"}   \* Job names <id> and <id>-postrun
JobStatus == {"Absent", "Active", "Complete", "Failed", "Deleted"}

ClusterInit ==
  /\ jobs = [r \in Runs |-> [k \in Kinds |-> "Absent"]]
  /\ named = [c \in Components |-> [k \in Kinds |-> NoTask]]
  /\ pods = {}
  /\ pvcs = {}

ClusterTypeOK ==
  /\ jobs \in [Runs -> [Kinds -> JobStatus]]
  /\ named \in [Components -> [Kinds -> Runs \cup {NoTask}]]
  /\ pods \subseteq Runs \X Kinds
  /\ pvcs \subseteq Components

JobNamed(c, k) == named[c][k] # NoTask
StatusNamed(c, k) == jobs[named[c][k]][k]

---------------------------------------------------------------------------
(* API calls *)

\* Jobs.Create: AlreadyExists when the name is taken.
CreateJob(r, k) ==
  /\ ~JobNamed(Target[r], k)
  /\ named' = [named EXCEPT ![Target[r]][k] = r]
  /\ jobs' = [jobs EXCEPT ![r][k] = "Active"]
  /\ UNCHANGED <<pods, pvcs>>

\* Jobs.Delete with Background propagation: the object goes at once, its
\* Pod later.  What a finished Job reported is kept here as history.
DeleteJob(c, k) ==
  /\ JobNamed(c, k)
  /\ named' = [named EXCEPT ![c][k] = NoTask]
  /\ jobs' = [jobs EXCEPT ![named[c][k]][k] = IF @ = "Active" THEN "Deleted"
                                                              ELSE @]
  /\ UNCHANGED <<pods, pvcs>>

CreatePVC(c) ==
  /\ c \notin pvcs
  /\ pvcs' = pvcs \cup {c}
  /\ UNCHANGED <<jobs, named, pods>>

---------------------------------------------------------------------------
(* The cluster's own controllers *)

\* The Job controller creates (or replaces) the Pod of an active Job.
PodStarts(r, k) ==
  /\ jobs[r][k] = "Active"
  /\ <<r, k>> \notin pods
  /\ pods' = pods \cup {<<r, k>>}
  /\ UNCHANGED <<jobs, named, pvcs>>

\* The containers end, or activeDeadlineSeconds (1800 unless the component
\* says otherwise) passes: every active Job ends.
JobEnds(r, k) ==
  /\ jobs[r][k] = "Active"
  /\ \/ <<r, k>> \in pods /\ jobs' = [jobs EXCEPT ![r][k] = "Complete"]
     \/ jobs' = [jobs EXCEPT ![r][k] = "Failed"]
  /\ UNCHANGED <<named, pods, pvcs>>

\* ttlSecondsAfterFinished after it ended, the Job object is deleted.
JobExpires(c, k) ==
  /\ JobNamed(c, k)
  /\ StatusNamed(c, k) # "Active"
  /\ named' = [named EXCEPT ![c][k] = NoTask]
  /\ UNCHANGED <<jobs, pods, pvcs>>

\* The garbage collector removes a Pod whose Job is gone.
PodCollected(r, k) ==
  /\ <<r, k>> \in pods
  /\ named[Target[r]][k] # r
  /\ pods' = pods \ {<<r, k>>}
  /\ UNCHANGED <<jobs, named, pvcs>>
============================================================================
