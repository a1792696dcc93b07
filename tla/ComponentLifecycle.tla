------------------------- MODULE ComponentLifecycle -------------------------
(***************************************************************************)
(* What the control plane promises those who only read: the phase of each  *)
(* component, which clients see in GET /components, and beside it the      *)
(* phase of each Execution, which no endpoint shows: it is read in the     *)
(* table.  Every build or run is a task that announces its work, opens     *)
(* an Execution, announces it again, settles the component on one verdict  *)
(* and closes the Execution with the same one; tasks of one component      *)
(* interleave freely, the last writer wins, and a task may stop anywhere.  *)
(* Git, docker, the cluster, store errors and crashes are hidden: they are *)
(* the reasons why a task stops, or settles on Failed.                     *)
(***************************************************************************)
CONSTANTS
  Components,
  Builds,
  Runs,
  Target       \* the component of each task

Tasks == Builds \cup Runs

VARIABLES
  phase,       \* status.phase of each component
  outcome,     \* the phase of each task's Execution
  stage        \* how far each task has got

lifecycleVars == <<phase, outcome, stage>>

\* The phase that says a task is at work, and the one it hopes to leave.
Work(t) == IF t \in Builds THEN "Building" ELSE "Running"
Good(t) == IF t \in Builds THEN "Built" ELSE "Succeeded"

Present(c) == phase[c] \notin {"Absent", "Deleted"}

Init ==
  /\ phase = [c \in Components |-> "Absent"]
  /\ outcome = [t \in Tasks |-> "Absent"]
  /\ stage = [t \in Tasks |-> "idle"]

Advance(t, from, to) ==
  /\ stage[t] = from
  /\ stage' = [stage EXCEPT ![t] = to]

Show(t, p) ==
  /\ Present(Target[t])
  /\ phase' = [phase EXCEPT ![Target[t]] = p]

Create(c) ==
  /\ phase[c] = "Absent"
  /\ phase' = [phase EXCEPT ![c] = "Pending"]
  /\ UNCHANGED <<outcome, stage>>

\* Only a component without history can go.
Delete(c) ==
  /\ Present(c)
  /\ \A t \in Tasks : Target[t] = c => outcome[t] = "Absent"
  /\ phase' = [phase EXCEPT ![c] = "Deleted"]
  /\ UNCHANGED <<outcome, stage>>

\* 202 Accepted: the component already shows the work.
Accept(t) ==
  /\ Advance(t, "idle", "accepted")
  /\ Show(t, Work(t))
  /\ UNCHANGED outcome

Open(t) ==
  /\ Advance(t, "accepted", "open")
  /\ Present(Target[t])
  /\ outcome' = [outcome EXCEPT ![t] = "Pending"]
  /\ UNCHANGED phase

Announce(t) ==
  /\ Advance(t, "open", "announced")
  /\ Show(t, Work(t))
  /\ UNCHANGED outcome

Begin(t) ==
  /\ Advance(t, "announced", "working")
  /\ outcome' = [outcome EXCEPT ![t] = "Running"]
  /\ UNCHANGED phase

\* The verdict first shows on the component, then on the Execution.
Settle(t, verdict) ==
  /\ Advance(t, "working", verdict)
  /\ Show(t, verdict)
  /\ UNCHANGED outcome

Close(t, verdict) ==
  /\ Advance(t, verdict, "over")
  /\ outcome' = [outcome EXCEPT
       ![t] = IF verdict = "Failed" THEN "Failed" ELSE "Succeeded"]
  /\ UNCHANGED phase

\* Tasks stop for good: one that is refused or aborts, all of them at once
\* when the process dies.
Stop(S) ==
  /\ stage' = [t \in Tasks |-> IF t \in S THEN "over" ELSE stage[t]]
  /\ UNCHANGED <<phase, outcome>>

Step(t) ==
  \/ Accept(t) \/ Open(t) \/ Announce(t) \/ Begin(t)
  \/ \E verdict \in {Good(t), "Failed"} : Settle(t, verdict) \/ Close(t, verdict)

Next ==
  \/ \E c \in Components : Create(c) \/ Delete(c)
  \/ \E t \in Tasks : Step(t)
  \/ \E S \in SUBSET Tasks : Stop(S)

Spec == Init /\ [][Next]_lifecycleVars
============================================================================
