--------------------------- MODULE ConsoleProofs ---------------------------
(***************************************************************************)
(* The console's list, proved of ConsoleSpec for every set of components,  *)
(* tasks, cleanups and list requests: whatever answers overlap, a row is   *)
(* busy with the one POST of its component that is not answered, and shows *)
(* the error of its last action.                                           *)
(***************************************************************************)
EXTENDS Console, TLAPS

PhasesTyped ==
  /\ phase \in [Components -> ListedPhase \cup {"Absent", "Deleted"}]
  /\ \A c \in Existing : phase[c] # "Absent"

\* A list under way has every component that is still listed.
ListsKnow ==
  \A g \in Gets : get[g].at = "served" =>
    \A c \in Listed : get[g].list[c] # "Absent"

\* A row, the message kept for it and the POSTs of its component.
RowAgrees(c) ==
  /\ Shown(c) => rows[c].error = errors[c]
  /\ Shown(c) /\ rows[c].live => ~Busy(c)
  /\ Busy(c) => last[c] = rows[c].busy
  /\ \A r \in Requests :
       Target[r] = c /\ post[r] \in InFlight <=> Busy(c) /\ rows[c].busy = r
  /\ last[c] # NoRequest => Target[last[c]] = c
  /\ errors[c] = IF last[c] # NoRequest /\ post[last[c]] = "failed"
                 THEN last[c] ELSE NoRequest

RowsAgree == \A c \in Listed : RowAgrees(c)

---------------------------------------------------------------------------
\* A component that is gone does not come back, and those of the page's
\* opening were there.
LEMMA ListedShrinks ==
  ASSUME PhasesTyped, [ConsoleNext]_vars
  PROVE  PhasesTyped' /\ Listed' \subseteq Listed
<1> USE ConsoleAssumption DEF PhasesTyped, ListedPhase
<1>1. \A t \in Tasks : Target[t] \in Components
  BY DEF Requests
<1>2. ASSUME NEW t \in Tasks, NEW p \in ListedPhase, Show(t, p)
      PROVE  PhasesTyped' /\ Listed' \subseteq Listed
  BY <1>1, <1>2 DEF Show, Listed, Present
<1>3. CASE UNCHANGED phase
  BY <1>3 DEF Listed, Present
<1>4. ASSUME NEW t \in Tasks, Step(t)
      PROVE  PhasesTyped' /\ Listed' \subseteq Listed
  <2>1. UNCHANGED phase \/ \E p \in ListedPhase : Show(t, p)
    BY <1>4 DEF Step, Accept, Open, Announce, Begin, Settle, Close, Work, Good
  <2> QED BY <1>2, <1>3, <2>1
<1>5. ASSUME NEW c \in Components, Create(c) \/ Delete(c)
      PROVE  PhasesTyped' /\ Listed' \subseteq Listed
  BY <1>5 DEF Create, Delete, Listed, Present
<1>6. \/ UNCHANGED phase
      \/ \E c \in Components : Create(c) \/ Delete(c)
      \/ \E t \in Tasks : Step(t)
  BY DEF ConsoleNext, ServerStep, Accepted, Refused, Click, Refresh, Serve,
         ListFails, Render, Deliver, Step, Stop, lifecycleVars, vars
<1> QED BY <1>3, <1>4, <1>5, <1>6

\* What a click and an answer do to a row.
LEMMA ClickedRow ==
  ASSUME ConsoleTypeOK, NEW r \in Requests, Click(r)
  PROVE  /\ \A c \in Components \ {Target[r]} : rows'[c] = rows[c]
         /\ rows'[Target[r]] \in Row
         /\ rows'[Target[r]].busy = r /\ ~rows'[Target[r]].live
         /\ rows'[Target[r]].error = NoRequest
<1> DEFINE c == Target[r]
<1> USE ConsoleAssumption DEF ConsoleTypeOK
<1>1. c \in Components /\ rows[c] \in Row
  BY DEF Click, Shown
<1>2. rows'[c] = [rows[c] EXCEPT !.busy = r, !.live = FALSE,
                                 !.error = NoRequest]
  BY <1>1 DEF Click, SetRowBusy
<1>3. \A d \in Components \ {c} : rows'[d] = rows[d]
  BY <1>1 DEF Click, SetRowBusy
<1> QED BY <1>1, <1>2, <1>3 DEF Row

LEMMA AnsweredRow ==
  ASSUME ConsoleTypeOK, NEW r \in Requests, Shown(Target[r])
  PROVE  /\ Answered(r) \in Row
         /\ Answered(r).busy = NoRequest
         /\ Answered(r).error = IF post[r] = "refused" THEN r ELSE NoRequest
<1>1. rows[Target[r]] \in Row
  BY ConsoleAssumption DEF ConsoleTypeOK, Shown
<1>2. PICK p \in ListedPhase, e \in Requests \cup {NoRequest} :
        /\ e = IF post[r] = "refused" THEN r ELSE NoRequest
        /\ Answered(r) = [rows[Target[r]] EXCEPT !.busy = NoRequest,
                                                 !.error = e, !.phase = p]
  BY <1>1 DEF Answered, Row, Work, ListedPhase
<1> QED BY <1>1, <1>2 DEF Row

LEMMA RowsStayTyped ==
  ASSUME ConsoleTypeOK, [ConsoleNext]_vars
  PROVE  rows' \in [Components -> Row \cup {NoRow}]
<1> USE DEF ConsoleTypeOK
<1>1. ASSUME NEW r \in Requests, Click(r)
      PROVE  rows' \in [Components -> Row \cup {NoRow}]
  <2>1. /\ DOMAIN rows' = Components
        /\ rows' = [c \in Components |-> rows'[c]]
    BY <1>1 DEF Click, SetRowBusy
  <2> QED BY <2>1, <1>1, ClickedRow
<1>2. ASSUME NEW r \in Requests, NEW g \in Gets, Deliver(r, g)
      PROVE  rows' \in [Components -> Row \cup {NoRow}]
  BY <1>2, AnsweredRow DEF Deliver
<1>3. ASSUME NEW g \in Gets, Render(g)
      PROVE  rows' \in [Components -> Row \cup {NoRow}]
  <2>1. get[g].list \in List
    BY <1>3 DEF Render, Idle, Sent
  <2>2. \A c \in Components, p \in ListedPhase : NewRow(c, p) \in Row
    BY DEF NewRow, Row
  <2>3. \A c \in Components : get[g].list[c] \in ListedPhase \cup {"Absent"}
    BY <2>1 DEF List
  <2> QED BY <1>3, <2>2, <2>3 DEF Render, Rendered
<1>4. \/ UNCHANGED rows
      \/ \E r \in Requests : Click(r) \/ \E g \in Gets : Deliver(r, g)
      \/ \E g \in Gets : Render(g)
  BY DEF ConsoleNext, ServerStep, Accepted, Refused, Refresh, Serve,
         ListFails, consoleVars, vars
<1> QED BY <1>1, <1>2, <1>3, <1>4

LEMMA ListsStayTyped ==
  ASSUME ConsoleTypeOK, PhasesTyped, [ConsoleNext]_vars
  PROVE  get' \in [Gets -> {Idle, Sent} \cup [at: {"served"}, list: List]]
<1> DEFINE Lists == {Idle, Sent} \cup [at: {"served"}, list: List]
<1>1. ASSUME NEW g \in Gets, Serve(g)
      PROVE  get' \in [Gets -> Lists]
  <2> DEFINE list == [c \in Components |->
                        IF Present(c) THEN phase[c] ELSE "Absent"]
  <2>1. list \in List
    BY DEF PhasesTyped, Present, List
  <2>2. Served(list) \in Lists
    BY <2>1 DEF Served
  <2>3. get' = [get EXCEPT ![g] = Served(list)]
    BY <1>1 DEF Serve
  <2> QED BY <2>2, <2>3 DEF ConsoleTypeOK
<1>2. \/ UNCHANGED get
      \/ \E g \in Gets : Serve(g)
      \/ \E g \in Gets : get' \in {[get EXCEPT ![g] = Idle],
                                   [get EXCEPT ![g] = Sent]}
  BY DEF ConsoleNext, ServerStep, Accepted, Refused, Click, Refresh,
         ListFails, Render, Deliver, consoleVars, vars
<1> QED BY <1>1, <1>2 DEF ConsoleTypeOK

LEMMA ConsoleStaysTyped ==
  ASSUME ConsoleTypeOK, PhasesTyped, [ConsoleNext]_vars
  PROVE  ConsoleTypeOK'
<1> USE ConsoleAssumption DEF ConsoleTypeOK, InFlight
<1>1. post' \in [Requests -> {"idle", "done", "failed"} \cup InFlight]
  <2>1. ASSUME NEW r \in Requests, NEW g \in Gets, Deliver(r, g)
        PROVE  post' \in [Requests -> {"idle", "done", "failed"} \cup InFlight]
    BY <2>1 DEF Deliver
  <2>2. ASSUME NEW r \in Requests, Accepted(r) \/ Refused(r) \/ Click(r)
        PROVE  post' \in [Requests -> {"idle", "done", "failed"} \cup InFlight]
    BY <2>2 DEF Accepted, Refused, Click
  <2>3. \/ UNCHANGED post
        \/ \E r \in Requests : Accepted(r) \/ Refused(r) \/ Click(r)
        \/ \E r \in Requests, g \in Gets : Deliver(r, g)
    BY DEF ConsoleNext, ServerStep, Refresh, Serve, ListFails, Render,
           consoleVars, vars
  <2> QED BY <2>1, <2>2, <2>3
<1>2. ASSUME NEW r \in Requests, Click(r)
      PROVE  /\ errors' \in [Components -> Requests \cup {NoRequest}]
             /\ last' \in [Components -> Requests \cup {NoRequest}]
  BY <1>2 DEF Click, SetRowBusy
<1>3. ASSUME NEW r \in Requests, NEW g \in Gets, Deliver(r, g)
      PROVE  /\ errors' \in [Components -> Requests \cup {NoRequest}]
             /\ last' \in [Components -> Requests \cup {NoRequest}]
  <2>1. errors' \in {[errors EXCEPT ![Target[r]] = r],
                     [errors EXCEPT ![Target[r]] = NoRequest]}
    BY <1>3 DEF Deliver
  <2> QED BY <1>3, <2>1 DEF Deliver
<1>4. \/ UNCHANGED <<errors, last>>
      \/ \E r \in Requests : Click(r) \/ \E g \in Gets : Deliver(r, g)
  BY DEF ConsoleNext, ServerStep, Accepted, Refused, Refresh, Serve,
         ListFails, Render, consoleVars, vars
<1>5. /\ errors' \in [Components -> Requests \cup {NoRequest}]
      /\ last' \in [Components -> Requests \cup {NoRequest}]
  BY <1>2, <1>3, <1>4
<1> QED BY <1>1, <1>5, RowsStayTyped, ListsStayTyped

LEMMA ListsStayFull ==
  ASSUME ConsoleTypeOK, PhasesTyped, ListsKnow, [ConsoleNext]_vars
  PROVE  ListsKnow'
<1>1. Listed' \subseteq Listed
  BY ListedShrinks
<1> USE DEF ConsoleTypeOK
<1>2. ASSUME NEW g \in Gets, Serve(g)
      PROVE  ListsKnow'
  <2>1. /\ get'[g].list = [c \in Components |->
                            IF Present(c) THEN phase[c] ELSE "Absent"]
        /\ \A h \in Gets \ {g} : get'[h] = get[h]
        /\ UNCHANGED phase
    BY <1>2 DEF Serve, Served, lifecycleVars
  <2>2. \A c \in Listed' : get'[g].list[c] # "Absent"
    BY <2>1, ConsoleAssumption DEF Listed, Present
  <2>3. ASSUME NEW h \in Gets, get'[h].at = "served", NEW c \in Listed'
        PROVE  get'[h].list[c] # "Absent"
    <3>1. CASE h = g
      BY <2>2, <2>3, <3>1
    <3>2. CASE h # g
      <4>1. get'[h] = get[h] /\ c \in Listed
        BY <1>1, <2>1, <2>3, <3>2
      <4> HIDE DEF ConsoleTypeOK
      <4> QED BY <2>3, <4>1 DEF ListsKnow
    <3> QED BY <3>1, <3>2
  <2> QED BY <2>3 DEF ListsKnow
<1>3. CASE UNCHANGED get
  BY <1>1, <1>3 DEF ListsKnow
<1>4. ASSUME NEW g \in Gets, NEW new \in {Idle, Sent},
             get' = [get EXCEPT ![g] = new]
      PROVE  ListsKnow'
  BY <1>1, <1>4 DEF ListsKnow, Idle, Sent
<1>5. \/ UNCHANGED get
      \/ \E g \in Gets : Serve(g)
      \/ \E g \in Gets, new \in {Idle, Sent} : get' = [get EXCEPT ![g] = new]
  BY DEF ConsoleNext, ServerStep, Accepted, Refused, Click, Refresh,
         ListFails, Render, Deliver, consoleVars, vars
<1> QED BY <1>2, <1>3, <1>4, <1>5

---------------------------------------------------------------------------
\* The rows, one step at a time.  C is a component that stays listed.

LEMMA ClickAgrees ==
  ASSUME ConsoleTypeOK, NEW c \in Components, RowAgrees(c),
         NEW r \in Requests, Click(r)
  PROVE  RowAgrees(c)'
<1> USE ConsoleAssumption DEF ConsoleTypeOK, RowAgrees, Busy, Shown, InFlight
<1>1. /\ post[r] = "idle"
      /\ post' = [post EXCEPT ![r] = "sent"]
      /\ last' = [last EXCEPT ![Target[r]] = r]
      /\ errors' = [errors EXCEPT ![Target[r]] = NoRequest]
  BY DEF Click, SetRowBusy
<1>2. /\ \A d \in Components \ {Target[r]} : rows'[d] = rows[d]
      /\ rows'[Target[r]] # NoRow
      /\ rows'[Target[r]].busy = r /\ ~rows'[Target[r]].live
      /\ rows'[Target[r]].error = NoRequest
  BY ClickedRow DEF Row, NoRow, ListedPhase
<1>3. CASE c # Target[r]
  BY <1>1, <1>2, <1>3
<1>4. CASE c = Target[r]
  <2>1. ~Busy(c)
    BY <1>4 DEF Click
  <2>2. \A q \in Requests : Target[q] = c => post[q] \notin InFlight
    BY <2>1
  <2> QED BY <1>1, <1>2, <1>4, <2>2
<1> QED BY <1>3, <1>4

LEMMA DeliverAgrees ==
  ASSUME ConsoleTypeOK, NEW c \in Components, RowAgrees(c),
         NEW r \in Requests, NEW g \in Gets, Deliver(r, g)
  PROVE  RowAgrees(c)'
<1> USE ConsoleAssumption DEF ConsoleTypeOK, RowAgrees, Busy, Shown, InFlight
<1>1. /\ post[r] \in {"accepted", "refused"}
      /\ post' = [post EXCEPT
                     ![r] = IF post[r] = "refused" THEN "failed" ELSE "done"]
      /\ errors' = [errors EXCEPT
            ![Target[r]] = IF post[r] = "refused" THEN r ELSE NoRequest]
      /\ UNCHANGED last
  BY DEF Deliver
<1>2. CASE c # Target[r]
  <2>1. rows'[c] = rows[c]
    BY <1>2 DEF Deliver
  <2> QED BY <1>1, <1>2, <2>1
<1>3. CASE c = Target[r]
  <2>1. Busy(c) /\ rows[c].busy = r /\ last[c] = r
    BY <1>1, <1>3
  <2>2. rows'[c] = Answered(r)
    BY <1>3, <2>1 DEF Deliver
  <2>3. /\ rows'[c] # NoRow /\ rows'[c].busy = NoRequest
        /\ rows'[c].error = IF post[r] = "refused" THEN r ELSE NoRequest
    BY <1>3, <2>1, <2>2, AnsweredRow DEF Row, NoRow, ListedPhase
  <2>4. \A q \in Requests : Target[q] = c /\ post[q] \in InFlight => q = r
    BY <2>1
  <2> QED BY <1>1, <1>3, <2>1, <2>3, <2>4
<1> QED BY <1>2, <1>3

LEMMA RenderAgrees ==
  ASSUME ConsoleTypeOK, ListsKnow, NEW c \in Listed, RowAgrees(c),
         NEW g \in Gets, Render(g)
  PROVE  RowAgrees(c)'
<1> USE ConsoleAssumption
    DEF ConsoleTypeOK, RowAgrees, Busy, Shown, InFlight, Listed
<1>1. /\ get[g].list[c] # "Absent"
      /\ UNCHANGED <<post, errors, last>>
  BY DEF Render, ListsKnow
<1>2. rows'[c] = IF Busy(c) THEN rows[c] ELSE NewRow(c, get[g].list[c])
  BY <1>1 DEF Render, Rendered
<1>3. CASE Busy(c)
  BY <1>1, <1>2, <1>3
<1>4. CASE ~Busy(c)
  <2>1. rows'[c].busy = NoRequest /\ rows'[c].error = errors[c]
    BY <1>2, <1>4 DEF NewRow
  <2> QED BY <1>1, <1>4, <2>1
<1> QED BY <1>3, <1>4

LEMMA RowsStayAgreed ==
  ASSUME ConsoleTypeOK, PhasesTyped, ListsKnow, RowsAgree, [ConsoleNext]_vars
  PROVE  RowsAgree'
<1>1. Listed' \subseteq Listed
  BY ListedShrinks
<1> SUFFICES ASSUME NEW c \in Listed, RowAgrees(c)
             PROVE  RowAgrees(c)'
  BY <1>1 DEF RowsAgree
<1>2. c \in Components
  BY ConsoleAssumption DEF Listed
<1>3. CASE UNCHANGED <<post, rows, errors, last>>
  BY <1>3 DEF RowAgrees, Busy, Shown
<1>4. ASSUME NEW r \in Requests, Accepted(r) \/ Refused(r)
      PROVE  RowAgrees(c)'
  <2>1. /\ post[r] = "sent"
        /\ \E answer \in {"accepted", "refused"} :
             post' = [post EXCEPT ![r] = answer]
        /\ UNCHANGED <<rows, errors, last>>
    BY <1>4 DEF Accepted, Refused
  <2>2. \A q \in Requests : /\ post[q] \in InFlight <=> post'[q] \in InFlight
                            /\ post[q] = "failed" <=> post'[q] = "failed"
    BY <2>1 DEF InFlight, ConsoleTypeOK
  <2>3. last[c] \in Requests \cup {NoRequest}
    BY <1>2 DEF ConsoleTypeOK
  <2> QED BY <2>1, <2>2, <2>3 DEF RowAgrees, Busy, Shown
<1>5. \/ UNCHANGED <<post, rows, errors, last>>
      \/ \E r \in Requests : \/ Accepted(r) \/ Refused(r) \/ Click(r)
                             \/ \E g \in Gets : Deliver(r, g)
      \/ \E g \in Gets : Render(g)
  BY DEF ConsoleNext, ServerStep, Refresh, Serve, ListFails, consoleVars, vars
<1> QED BY <1>2, <1>3, <1>4, <1>5, ClickAgrees, DeliverAgrees, RenderAgrees

---------------------------------------------------------------------------
ConsoleInv == ConsoleTypeOK /\ PhasesTyped /\ ListsKnow /\ RowsAgree

LEMMA ConsoleInvariant == ConsoleSpec => []ConsoleInv
<1>1. ConsoleInit => ConsoleInv
  <2> SUFFICES ASSUME ConsoleInit PROVE ConsoleInv
    OBVIOUS
  <2> USE ConsoleAssumption DEF ConsoleInit
  <2>1. ConsoleTypeOK
    BY DEF ConsoleTypeOK
  <2>2. PhasesTyped
    BY DEF PhasesTyped, ListedPhase
  <2>3. ListsKnow
    BY DEF ListsKnow, Idle
  <2>4. RowsAgree
    BY DEF RowsAgree, RowAgrees, Busy, Shown, InFlight, Listed
  <2> QED BY <2>1, <2>2, <2>3, <2>4 DEF ConsoleInv
<1>2. ConsoleInv /\ [ConsoleNext]_vars => ConsoleInv'
  BY ConsoleStaysTyped, ListedShrinks, ListsStayFull, RowsStayAgreed
     DEF ConsoleInv
<1> QED BY <1>1, <1>2, PTL DEF ConsoleSpec

(* Every variable of the page stays well typed: a row always shows a phase *)
(* of the API, whatever lists and answers arrive in whichever order.       *)
THEOREM ConsoleTypeCorrect == ConsoleSpec => []ConsoleTypeOK
<1>1. ConsoleInv => ConsoleTypeOK
  BY DEF ConsoleInv
<1> QED BY <1>1, ConsoleInvariant, PTL

(* A row is busy with the one POST of its component that is still to be    *)
(* answered, however many lists are rendered meanwhile.                    *)
THEOREM BusyTellsTruth == ConsoleSpec => []BusyMatchesPosts
<1>1. ConsoleInv => BusyMatchesPosts
  <2> SUFFICES ASSUME ConsoleInv, NEW c \in Listed
               PROVE  PostsOf(c) = IF Busy(c) THEN {rows[c].busy} ELSE {}
    BY DEF BusyMatchesPosts
  <2>1. RowAgrees(c) /\ c \in Components
    BY ConsoleAssumption DEF ConsoleInv, RowsAgree, Listed
  <2>2. Busy(c) => rows[c].busy \in Requests
    BY <2>1 DEF ConsoleInv, ConsoleTypeOK, Busy, Shown, Row
  <2>3. \A r : r \in PostsOf(c) <=> Busy(c) /\ rows[c].busy = r
    BY <2>1, <2>2 DEF RowAgrees, PostsOf
  <2> QED BY <2>3
<1> QED BY <1>1, ConsoleInvariant, PTL

(* A row shows an error exactly when the last action on its component      *)
(* failed, and that action's: no re-render loses or revives one.           *)
THEOREM ErrorsStayTrue == ConsoleSpec => []ErrorIsOfLastAction
<1>1. ConsoleInv => ErrorIsOfLastAction
  BY DEF ConsoleInv, RowsAgree, RowAgrees, ErrorIsOfLastAction
<1> QED BY <1>1, ConsoleInvariant, PTL
============================================================================
