------------------------------ MODULE Console ------------------------------
(***************************************************************************)
(* The web console's list (componente-lista.js) against a server that is   *)
(* only known to follow ComponentLifecycle.  The list is fetched by the    *)
(* 5 s timer, by a button and after every action, so several answers may   *)
(* be under way and are rendered in the order they arrive; a row whose     *)
(* action has not been answered is busy and must survive them.             *)
(***************************************************************************)
EXTENDS ComponentLifecycle, FiniteSets

CONSTANTS
  Cleanups,   \* POST .../cleanup requests: they change no phase
  Gets,       \* bound: GET /components requests under way at once
  Existing,   \* the components that exist when the page opens
  NoRequest

Requests == Tasks \cup Cleanups

ASSUME ConsoleAssumption ==
  /\ Target \in [Requests -> Components]
  /\ Existing \subseteq Components
  /\ NoRequest \notin Requests

VARIABLES
  post,    \* each POST of this page: idle, sent, answered, delivered
  get,     \* each GET: idle, sent, or served with a list
  rows,    \* the <tr> of each component in the table, or NoRow
  errors,  \* rowErrorMessages: the request whose message is kept
  last     \* (history) the last action the user took on each component

consoleVars == <<post, get, rows, errors, last>>
vars == <<lifecycleVars, consoleVars>>

ListedPhase ==
  {"Pending", "Building", "Built", "Running", "Succeeded", "Failed"}

\* Buttons are live unless the row waits for its answer and a new list; the
\* Run button also needs the phase Built.
Row == [phase: ListedPhase, live: BOOLEAN,
        busy: Requests \cup {NoRequest}, error: Requests \cup {NoRequest}]
NoRow == [phase |-> "Absent"]
Shown(c) == rows[c] # NoRow
Busy(c) == Shown(c) /\ rows[c].busy # NoRequest

List == [Components -> ListedPhase \cup {"Absent"}]
Idle == [at |-> "idle"]
Sent == [at |-> "sent"]
Served(list) == [at |-> "served", list |-> list]

InFlight == {"sent", "accepted", "refused"}
PostsOf(c) == {r \in Requests : Target[r] = c /\ post[r] \in InFlight}

ConsoleInit ==
  /\ phase \in {p \in [Components -> {"Absent", "Pending", "Built"}] :
                  \A c \in Components : p[c] # "Absent" <=> c \in Existing}
  /\ outcome = [t \in Tasks |-> "Absent"]
  /\ stage = [t \in Tasks |-> "idle"]
  /\ post = [r \in Requests |-> "idle"]
  /\ get = [g \in Gets |-> Idle]
  /\ rows = [c \in Components |-> NoRow]
  /\ errors = [c \in Components |-> NoRequest]
  /\ last = [c \in Components |-> NoRequest]

---------------------------------------------------------------------------
(* The server, as far as the lifecycle tells *)

\* Tasks of other clients are never posted here.
ServerStep ==
  /\ \/ \E c \in Components : Create(c) \/ Delete(c)
     \/ \E t \in Tasks : post[t] # "sent" /\ (Step(t) \/ Stop({t}))
  /\ UNCHANGED consoleVars

\* The server has taken the request; the answer may still get lost.
Accepted(r) ==
  /\ post[r] = "sent"
  /\ IF r \in Tasks THEN Accept(r) ELSE UNCHANGED lifecycleVars
  /\ \E answer \in {"accepted", "refused"} : post' = [post EXCEPT ![r] = answer]
  /\ UNCHANGED <<get, rows, errors, last>>

\* 404, 409, 500, or the request never got there.
Refused(r) ==
  /\ post[r] = "sent"
  /\ IF r \in Tasks THEN Stop({r}) ELSE UNCHANGED lifecycleVars
  /\ post' = [post EXCEPT ![r] = "refused"]
  /\ UNCHANGED <<get, rows, errors, last>>

Serve(g) ==
  /\ get[g] = Sent
  /\ get' = [get EXCEPT ![g] = Served(
       [c \in Components |-> IF Present(c) THEN phase[c] ELSE "Absent"])]
  /\ UNCHANGED <<lifecycleVars, post, rows, errors, last>>

---------------------------------------------------------------------------
(* The page *)

\* refreshList, first half: the timer or the button.
Refresh(g) ==
  /\ get[g] = Idle
  /\ get' = [get EXCEPT ![g] = Sent]
  /\ UNCHANGED <<lifecycleVars, post, rows, errors, last>>

\* showListError: the rows stay as they are.
ListFails(g) ==
  /\ get[g] = Sent
  /\ get' = [get EXCEPT ![g] = Idle]
  /\ UNCHANGED <<lifecycleVars, post, rows, errors, last>>

\* buildRow: enabled, with the message that is still kept for it.
NewRow(c, p) ==
  [phase |-> p, live |-> TRUE, busy |-> NoRequest, error |-> errors[c]]

\* Mutant: busy rows are rebuilt like any other.
RebuildAll(list) ==
  [c \in Components |-> IF list[c] = "Absent" THEN NoRow ELSE NewRow(c, list[c])]

\* renderList: a busy row is kept if the list has its component, every
\* other row is built anew.
Rendered(list) ==
  [c \in Components |->
     IF list[c] = "Absent" THEN NoRow
     ELSE IF Busy(c) THEN rows[c]
     ELSE NewRow(c, list[c])]

\* refreshList, second half.
Render(g) ==
  /\ get[g].at = "served"
  /\ rows' = Rendered(get[g].list)
  /\ get' = [get EXCEPT ![g] = Idle]
  /\ UNCHANGED <<lifecycleVars, post, errors, last>>

\* Mutant: setRowBusy does not clear the message.
BusyWithOldError(r) ==
  /\ rows' = [rows EXCEPT ![Target[r]].busy = r, ![Target[r]].live = FALSE]
  /\ UNCHANGED errors

\* setRowBusy.
SetRowBusy(r) ==
  /\ rows' = [rows EXCEPT ![Target[r]].busy = r, ![Target[r]].live = FALSE,
                          ![Target[r]].error = NoRequest]
  /\ errors' = [errors EXCEPT ![Target[r]] = NoRequest]

\* A click on an enabled button: runAction up to the fetch.  Each request
\* is used once, so their number bounds the clicks.
Click(r) ==
  /\ post[r] = "idle"
  /\ r \in Tasks => stage[r] = "idle"
  /\ Shown(Target[r]) /\ rows[Target[r]].live
  /\ r \in Runs => rows[Target[r]].phase = "Built"
  /\ SetRowBusy(r)
  /\ post' = [post EXCEPT ![r] = "sent"]
  /\ last' = [last EXCEPT ![Target[r]] = r]
  /\ UNCHANGED <<lifecycleVars, get>>

\* Mutants: the body's phase is shown even when it has none; the handler
\* forgets clearRowBusy.
AnsweredUndefined(r) ==
  [rows[Target[r]] EXCEPT
     !.busy = NoRequest,
     !.error = IF post[r] = "refused" THEN r ELSE NoRequest,
     !.phase = IF post[r] = "refused" THEN @
               ELSE IF r \in Tasks THEN Work(r) ELSE "undefined"]
AnsweredStillBusy(r) ==
  [rows[Target[r]] EXCEPT
     !.error = IF post[r] = "refused" THEN r ELSE NoRequest]

\* What the answer does to the <tr> the click was on: the message, the phase
\* of the 202, and clearRowBusy.
Answered(r) ==
  [rows[Target[r]] EXCEPT
     !.busy = NoRequest,
     !.error = IF post[r] = "refused" THEN r ELSE NoRequest,
     !.phase = IF post[r] = "accepted" /\ r \in Tasks THEN Work(r) ELSE @]

\* The answer of an action: if its row has left the table meanwhile only the
\* kept message changes.  Then refreshList.
Deliver(r, g) ==
  /\ post[r] \in {"accepted", "refused"}
  /\ get[g] = Idle
  /\ post' = [post EXCEPT ![r] = IF @ = "refused" THEN "failed" ELSE "done"]
  /\ errors' = [errors EXCEPT
       ![Target[r]] = IF post[r] = "refused" THEN r ELSE NoRequest]
  /\ rows' = IF Shown(Target[r]) /\ rows[Target[r]].busy = r
             THEN [rows EXCEPT ![Target[r]] = Answered(r)]
             ELSE rows
  /\ get' = [get EXCEPT ![g] = Sent]
  /\ UNCHANGED <<lifecycleVars, last>>

ConsoleNext ==
  \/ ServerStep
  \/ \E r \in Requests : Accepted(r) \/ Refused(r) \/ Click(r)
  \/ \E g \in Gets : Refresh(g) \/ Serve(g) \/ ListFails(g) \/ Render(g)
  \/ \E r \in Requests, g \in Gets : Deliver(r, g)

ConsoleSpec == ConsoleInit /\ [][ConsoleNext]_vars

\* The server answers what it is sent and not every list fails; the browser
\* handles every answer; the timer ticks (the tab is visible).  Deliver is
\* strong only because it waits for one of the bounded Gets to be idle.
ConsoleFairSpec ==
  /\ ConsoleSpec
  /\ \A r \in Requests :
       /\ WF_vars(Accepted(r) \/ Refused(r))
       /\ SF_vars(\E g \in Gets : Deliver(r, g))
  /\ \A g \in Gets :
       /\ WF_vars(Refresh(g))
       /\ SF_vars(Serve(g))
       /\ WF_vars(Render(g))

---------------------------------------------------------------------------
(* Properties.  Listed components are those no list can lack: they existed *)
(* when the page opened and have not been deleted.                         *)

Listed == {c \in Existing : Present(c)}

ConsoleTypeOK ==
  /\ post \in [Requests -> {"idle", "done", "failed"} \cup InFlight]
  /\ get \in [Gets -> {Idle, Sent} \cup [at: {"served"}, list: List]]
  /\ rows \in [Components -> Row \cup {NoRow}]
  /\ errors \in [Components -> Requests \cup {NoRequest}]
  /\ last \in [Components -> Requests \cup {NoRequest}]

\* The busy mark tells the truth whatever lists arrive meanwhile: a row is
\* busy with the one POST of its component that is still to be answered.
BusyMatchesPosts ==
  \A c \in Listed : PostsOf(c) = IF Busy(c) THEN {rows[c].busy} ELSE {}

\* rowErrorMessages survives renderList and never outlives its action: a row
\* shows an error exactly when the last action on it failed, and that one's.
ErrorIsOfLastAction ==
  \A c \in Listed : Shown(c) =>
    rows[c].error =
      IF last[c] # NoRequest /\ post[last[c]] = "failed" THEN last[c]
                                                          ELSE NoRequest

\* However lists overtake each other and rows are kept or dropped, the table
\* comes to show every component in its phase, with its buttons enabled.
TableSettles ==
  <>[](\A c \in Components :
         IF Present(c)
         THEN /\ Shown(c) /\ rows[c].phase = phase[c]
              /\ rows[c].live /\ ~Busy(c)
         ELSE ~Shown(c))

\* ADR 0020: the next refreshList skips any row that is still busy, so an
\* action in flight can always be seen on its row.  The code does not keep
\* this (README, section 4).
BusyRowsAreKept ==
  \A c \in Components : Present(c) /\ PostsOf(c) # {} => Busy(c)
============================================================================
