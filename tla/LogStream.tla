------------------------------ MODULE LogStream ------------------------------
(***************************************************************************)
(* GET /components/{id}/logs: StreamPodLogs (internal/controller) reads    *)
(* the log of a component's Pod in short calls, with the time of the last  *)
(* call as its cursor, while the container writes and the Pod ends or is   *)
(* deleted.  Time is counted in ticks, Second of them to a second, on one  *)
(* clock for the server and the cluster.                                   *)
(***************************************************************************)
EXTENDS Integers, Sequences

CONSTANTS
  TailLines,  \* the values of ?tailLines a client sends, NoTail among them
  NoTail,     \* the parameter left out
  NoTime,     \* no cursor yet: the first call
  Second,     \* ticks per second, the granularity of SinceTime
  MaxLines,   \* bound: lines the container writes
  MaxTime     \* bound: ticks that pass

ASSUME LogAssumption ==
  /\ TailLines \subseteq Nat \cup {NoTail} /\ NoTail \notin Nat
  /\ NoTime \notin Nat
  /\ Second \in Nat \ {0} /\ MaxLines \in Nat /\ MaxTime \in Nat

VARIABLES
  now,        \* the clock
  phase,      \* the Pod's phase, "Absent" before it exists, "Gone" after
  lines,      \* the container's log: when each line was written
  pc,         \* the reader's next step, or how it ended
  follow,     \* ?follow=true
  tail,       \* ?tailLines
  since,      \* when the previous call began (SinceTime of the next)
  fetchedAt,  \* when the call in progress began
  polled,     \* the Pod's phase at the last Pods.Get
  batch,      \* the lines the call in progress will copy
  delivered   \* the lines the client has been sent

podVars == <<now, phase, lines>>
requestVars == <<follow, tail>>
readerVars == <<pc, follow, tail, since, fetchedAt, polled, batch, delivered>>
logVars == <<podVars, readerVars>>

PodPhase == {"Absent", "Pending", "Running", "Succeeded", "Failed", "Gone"}
Terminal == {"Succeeded", "Failed"}
Reading == {"locate", "stamp", "fetch", "copy", "wait", "getPod"}
Ended == {"complete", "cancelled", "error"}
LineNumbers == 1..Len(lines)

LogInit ==
  /\ now = 0 /\ phase = "Absent" /\ lines = <<>>
  /\ pc = "idle" /\ follow = FALSE /\ tail = NoTail
  /\ since = NoTime /\ fetchedAt = 0 /\ polled = "Absent"
  /\ batch = {} /\ delivered = {}

---------------------------------------------------------------------------
(* The Pod: its container writes lines while it runs.                      *)

Tick == now < MaxTime /\ now' = now + 1 /\ UNCHANGED <<phase, lines>>

Write ==
  /\ phase = "Running" /\ Len(lines) < MaxLines
  /\ lines' = Append(lines, now)
  /\ UNCHANGED <<now, phase>>

PodMoves ==
  /\ \/ phase = "Absent" /\ phase' = "Pending"
     \/ phase = "Pending" /\ phase' \in {"Running", "Failed"}
     \/ phase = "Running" /\ phase' \in Terminal
     \/ phase \notin {"Absent", "Gone"} /\ phase' = "Gone"
  /\ UNCHANGED <<now, lines>>

PodNext == (Tick \/ Write \/ PodMoves) /\ UNCHANGED readerVars

---------------------------------------------------------------------------
(* The reader *)

\* handleLogs, after parseTailLines (400 changes nothing).
LogRequest ==
  /\ pc = "idle"
  /\ follow' \in BOOLEAN /\ tail' \in TailLines
  /\ pc' = "locate"
  /\ UNCHANGED <<podVars, since, fetchedAt, polled, batch, delivered>>

\* locateComponentJob and latestJobPod, ErrPodNotFound when there is none.
Locate ==
  /\ pc = "locate"
  /\ pc' = IF phase \in {"Absent", "Gone"} THEN "error" ELSE "stamp"
  /\ UNCHANGED <<podVars, requestVars, since, fetchedAt, polled, batch,
                 delivered>>

\* fetchLogs takes the time before it calls the API.
Stamp ==
  /\ pc = "stamp"
  /\ fetchedAt' = now
  /\ pc' = "fetch"
  /\ UNCHANGED <<podVars, requestVars, since, polled, batch, delivered>>

\* What the API returns: the last tailLines lines on the first call, then
\* the lines since the cursor, which travels with its fraction of a second
\* cut off.
Truncated(t) == t - (t % Second)
Wanted ==
  IF since # NoTime
  THEN {i \in LineNumbers : lines[i] >= Truncated(since)}
  ELSE {i \in LineNumbers : tail = NoTail \/ i > Len(lines) - tail}

\* GetLogs(...).Stream: the log as it is now, if the container has started.
Fetch ==
  /\ pc = "fetch"
  /\ phase \in {"Running"} \cup Terminal
  /\ batch' = Wanted
  /\ pc' = "copy"
  /\ UNCHANGED <<podVars, requestVars, since, fetchedAt, polled, delivered>>

\* Mutants of the cursor: taken when the copy is over; never advanced; a
\* second taken off.
CursorAfterCopy == now
CursorStuck == IF since = NoTime THEN fetchedAt ELSE since
CursorASecondAgo == fetchedAt - Second

\* The next call's SinceTime.
Cursor == fetchedAt

\* Mutant: the phase is asked for after the copy instead of before the call.
CompleteNow == ~follow \/ phase \in Terminal

\* The snapshot was all that was asked for, or the Pod had already ended
\* when Pods.Get was called, before this copy.
Complete == ~follow \/ polled \in Terminal

\* io.Copy ends: the whole batch is written and flushed to the client.
Copied ==
  /\ pc = "copy"
  /\ delivered' = delivered \cup batch
  /\ since' = Cursor
  /\ batch' = {}
  /\ pc' = IF Complete THEN "complete" ELSE "wait"
  /\ UNCHANGED <<podVars, requestVars, fetchedAt, polled>>

\* The call, or the copy half way through, fails: the error is answered or,
\* once something was written, only logged.
ReadFails ==
  /\ pc \in {"locate", "fetch", "copy", "getPod"}
  /\ \E n \in 0..Len(lines) :
       delivered' = delivered \cup {i \in batch : i <= n}
  /\ batch' = {}
  /\ pc' = "error"
  /\ UNCHANGED <<podVars, requestVars, since, fetchedAt, polled>>

\* The ticker fires, or the request's context is done.
Wait ==
  /\ pc = "wait"
  /\ pc' \in {"getPod", "cancelled"}
  /\ UNCHANGED <<podVars, requestVars, since, fetchedAt, polled, batch,
                 delivered>>

\* Mutant: the Pod located at first is not asked for again.
GetPodOnce ==
  /\ pc = "getPod"
  /\ pc' = "stamp"
  /\ UNCHANGED <<podVars, requestVars, since, fetchedAt, polled, batch,
                 delivered>>

\* Pods.Get before each further call.
GetPod ==
  /\ pc = "getPod"
  /\ phase # "Gone"
  /\ polled' = phase
  /\ pc' = "stamp"
  /\ UNCHANGED <<podVars, requestVars, since, fetchedAt, batch, delivered>>

Reader ==
  Locate \/ Stamp \/ Fetch \/ Copied \/ ReadFails \/ Wait \/ GetPod

LogNext == PodNext \/ LogRequest \/ Reader

LogSpec == LogInit /\ [][LogNext]_logVars

\* The handler's goroutine is scheduled and its API calls return (the
\* clientset has a timeout of 5 s).
LogFairSpec == LogSpec /\ WF_logVars(Reader)

---------------------------------------------------------------------------
LogTypeOK ==
  /\ now \in Nat /\ phase \in PodPhase /\ lines \in Seq(Nat)
  /\ pc \in Reading \cup Ended \cup {"idle"}
  /\ follow \in BOOLEAN /\ tail \in Nat \cup {NoTail}
  /\ since \in Nat \cup {NoTime} /\ fetchedAt \in Nat
  /\ polled \in PodPhase
  /\ batch \subseteq LineNumbers /\ delivered \subseteq LineNumbers

(* The cursor never skips a line: between the first line the client was    *)
(* sent and the last there is none missing, however long a call takes and  *)
(* whatever is written while it does.  (After a tail, the second call may  *)
(* go back before the tail; if it fails half way those lines have a gap.)  *)
NoGap ==
  (tail = NoTail \/ pc # "error") =>
    \A i, k \in delivered : \A j \in LineNumbers :
      (i < j /\ j < k) => j \in delivered

(* A follower that ended because the Pod did has been sent everything from *)
(* its first line on, the lines written just before the end included, and  *)
(* from the very first one unless it asked for a tail.                     *)
EndIsComplete ==
  (pc = "complete" /\ follow /\ tail = NoTail) => delivered = LineNumbers

(* What the comment on fetchLogs accepts, and no more: of what was sent    *)
(* already, the next call sends again only lines written less than a       *)
(* second before the last call began, so no line is sent for ever.         *)
ResentIsRecent ==
  (pc \in {"wait", "getPod", "stamp"} /\ since # NoTime) =>
    \A i \in delivered \cap Wanted : lines[i] > fetchedAt - Second

(* Once its Pod has ended or is gone, a reader ends too.                   *)
ReaderEnds ==
  (pc \in Reading /\ phase \in Terminal \cup {"Gone"}) ~> pc \in Ended
============================================================================
