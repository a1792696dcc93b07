------------------------------ MODULE LogView ------------------------------
(***************************************************************************)
(* The way of a log's text from the copy loop of StreamPodLogs to the      *)
(* viewer of logs.html: io.Copy hands it over in chunks of any size, each  *)
(* becomes one server-sent event (sseWriter), the browser's EventSource    *)
(* parses the events as they arrive, and componente-logs.js appends them   *)
(* to the page.  The connection may end at any unit of the wire; the user  *)
(* may open it again.                                                      *)
(*                                                                         *)
(* A visible character travels as its position in the log, so that "once   *)
(* and in order" can be told of characters that look the same.             *)
(***************************************************************************)
EXTENDS Integers, Sequences, SequencesExt

CONSTANTS
  Visible,       \* what the log has where it has a visible character
  LF, CR,        \* "\n" and "\r"
  DataPrefix,    \* "data: ", a unit of the wire
  MayWriteCR,    \* does the container write "\r" (a progress bar does)?
  MaxText,       \* bound: length of the log
  MaxReconnects  \* bound: clicks on "Reconectar"

ASSUME LogViewAssumption ==
  /\ LF # CR /\ {Visible, DataPrefix} \cap {LF, CR} = {}
  /\ {LF, CR, DataPrefix} \cap Nat = {}
  /\ MayWriteCR \in BOOLEAN /\ MaxText \in Nat /\ MaxReconnects \in Nat

VARIABLES
  log,      \* what the container writes, in full
  sent,     \* how much of it this connection has carried in whole events
  step,     \* what sseWriter writes next; "copy" between two chunks
  at,       \* the next position of the chunk
  stop,     \* where the chunk ends without its last line breaks
  upto,     \* where it ends
  browser,  \* EventSource's line and data buffers, whether a CR came last,
            \* and the text shown since the user last (re)connected
  source,   \* the EventSource: "open" or "closed"
  clicks    \* how often the user has reconnected

writerVars == <<step, at, stop, upto>>
logViewVars == <<log, sent, writerVars, browser, source, clicks>>

Alphabet == {Visible, LF} \cup {x \in {CR} : MayWriteCR}
Viewer == browser.shown

---------------------------------------------------------------------------
(* EventSource, as the HTML standard defines it: a line ends at LF, CR or  *)
(* CRLF; a blank line dispatches the data lines read so far, joined by LF; *)
(* a line of an unknown field is ignored.                                  *)

\* Mutant: the event's text is appended as it is.
AppendRaw(text) == text

\* appendLogLine: text + "\n".
AppendLogLine(text) == text \o <<LF>>

Dispatch(b) ==
  IF b.data = <<>> THEN b
  ELSE [b EXCEPT !.data = <<>>,
                 !.shown = @ \o AppendLogLine(Front(b.data))]

EndOfLine(b) ==
  IF b.line = <<>> THEN Dispatch(b)
  ELSE [b EXCEPT !.line = <<>>,
                 !.data = IF Head(b.line) = DataPrefix
                          THEN @ \o Tail(b.line) \o <<LF>> ELSE @]

Receive(b, c) ==
  IF c = LF /\ b.cr THEN [b EXCEPT !.cr = FALSE]
  ELSE IF c \in {LF, CR} THEN [EndOfLine(b) EXCEPT !.cr = (c = CR)]
  ELSE [b EXCEPT !.line = Append(@, c), !.cr = FALSE]

\* A new EventSource, below what the page shows.
Connected(shown) == [line |-> <<>>, data |-> <<>>, cr |-> FALSE, shown |-> shown]

---------------------------------------------------------------------------
LogViewInit ==
  /\ log \in BoundedSeq(Alphabet, MaxText)
  /\ sent = 0 /\ step = "copy" /\ at = 1 /\ stop = 0 /\ upto = 0
  /\ browser = Connected(<<>>)
  /\ source = "open"
  /\ clicks = 0

(* sseWriter.Write: a "data: " line for every line of the chunk without    *)
(* its last line breaks, then a blank line.                                *)

\* bytes.TrimRight(p, "\n"), p the text from position first to last.
TrimRight(first, last) ==
  CHOOSE n \in (first - 1)..last :
    /\ n >= first => log[n] # LF
    /\ \A i \in (n + 1)..last : log[i] = LF

\* The copy loop's next Write.
Copy ==
  /\ source = "open" /\ step = "copy"
  /\ \E n \in (sent + 1)..Len(log) :
       upto' = n /\ stop' = TrimRight(sent + 1, n)
  /\ at' = sent + 1
  /\ step' = "prefix"
  /\ UNCHANGED <<log, sent, browser, source, clicks>>

Emit(c) ==
  /\ browser' = Receive(browser, c)
  /\ UNCHANGED <<log, stop, upto, source, clicks>>

WritePrefix ==
  /\ step = "prefix"
  /\ Emit(DataPrefix)
  /\ step' = "text"
  /\ UNCHANGED <<sent, at>>

LineIsOver == at <= stop => log[at] = LF

WriteCharacter ==
  /\ step = "text" /\ ~LineIsOver
  /\ Emit(IF log[at] = Visible THEN at ELSE log[at])
  /\ at' = at + 1
  /\ UNCHANGED <<sent, step>>

EndLine ==
  /\ step = "text" /\ LineIsOver
  /\ Emit(LF)
  /\ IF at > stop THEN step' = "blank" /\ UNCHANGED at
     ELSE step' = "prefix" /\ at' = at + 1
  /\ UNCHANGED sent

EndEvent ==
  /\ step = "blank"
  /\ Emit(LF)
  /\ sent' = upto
  /\ step' = "copy"
  /\ UNCHANGED at

---------------------------------------------------------------------------
\* Mutant: the EventSource is left to reconnect by itself.
OnErrorReplays == sent' = 0 /\ UNCHANGED source

\* onerror closes the EventSource, which would reconnect by itself and be
\* sent the whole snapshot again.
OnError == source' = "closed" /\ UNCHANGED sent

\* The server ends the response (the Pod is terminal) or the connection is
\* lost, an event cut short with it.
ConnectionEnds ==
  /\ source = "open"
  /\ OnError
  /\ browser' = Connected(Viewer)
  /\ step' = "copy"
  /\ UNCHANGED <<log, at, stop, upto, clicks>>

\* "Reconectar": the request has no cursor, the log is sent from the start
\* below what the page shows.
Reconnect ==
  /\ source = "closed" /\ clicks < MaxReconnects
  /\ source' = "open"
  /\ sent' = 0
  /\ clicks' = clicks + 1
  /\ browser' = Connected(<<>>)
  /\ UNCHANGED <<log, writerVars>>

LogViewNext ==
  \/ Copy \/ WritePrefix \/ WriteCharacter \/ EndLine \/ EndEvent
  \/ ConnectionEnds \/ Reconnect

LogViewSpec == LogViewInit /\ [][LogViewNext]_logViewVars

---------------------------------------------------------------------------
(* Properties, of a text T and the first n positions of the log *)

\* T shows the visible characters among them, each once and in order, and
\* line breaks.
ShowsExactly(T, n) ==
  /\ \A k \in DOMAIN T : T[k] # LF => T[k] \in 1..n /\ log[T[k]] = Visible
  /\ \A i \in 1..n : log[i] = Visible => \E k \in DOMAIN T : T[k] = i
  /\ \A j, k \in DOMAIN T :
       j < k /\ T[j] # LF /\ T[k] # LF => T[j] < T[k]

\* T has a line break after what precedes a line break of the log, and before
\* what follows it.
KeepsBreaks(T, n) ==
  \A i \in 1..n : log[i] = LF =>
    \A k \in DOMAIN T : T[k] # LF /\ T[k] < i =>
      \E b \in DOMAIN T :
        /\ k < b /\ T[b] = LF
        /\ \A m \in DOMAIN T : T[m] # LF /\ i < T[m] => b < m

\* However the copy is cut into chunks, and wherever the connection ends, the
\* page shows every character of the events that arrived once and in order,
\* until the user asks for all of it again.
TextIsIntact == ShowsExactly(Viewer, sent)

\* Two lines of the log are never shown as one (a chunk that ends within a
\* line does break it in two).
LinesStayApart == KeepsBreaks(Viewer, sent)
============================================================================
