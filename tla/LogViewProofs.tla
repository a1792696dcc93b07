---------------------------- MODULE LogViewProofs ----------------------------
(***************************************************************************)
(* The framing of the log, proved of LogViewSpec for logs of any length    *)
(* without "\r", chunks of any size and any number of reconnections.  The  *)
(* argument: what the browser holds, shown or not, is at every unit of the *)
(* wire the faithful text of the part of the chunk the server has written; *)
(* an event's data ends with the line break that appendLogLine puts back.  *)
(***************************************************************************)
EXTENDS LogView, SequenceTheorems, WellFoundedInduction, TLAPS

Units == Nat \cup {LF}

\* The open line without its field name.
OpenLine == IF browser.line = <<>> THEN <<>> ELSE Tail(browser.line)

\* All the browser has received: shown, dispatched next, or still a line.
Arrived == Viewer \o (browser.data \o OpenLine)

\* The container writes no "\r": EventSource would end a line there.
NoReturn == \A i \in DOMAIN log : log[i] # CR

\* How far in the log the server has come.
Written == IF step = "copy" THEN sent ELSE at - 1

\* What the parser holds when no "\r" has come.
Buffers(line, data, shown) ==
  [line |-> line, data |-> data, cr |-> FALSE, shown |-> shown]

\* The buffers of the parser at each step of the writer.
ParserFollows ==
  /\ browser.data # <<>> => browser.data[Len(browser.data)] = LF
  /\ step # "text" => browser.line = <<>>
  /\ step = "text" => browser.line # <<>> /\ Head(browser.line) = DataPrefix
  /\ step = "copy" => browser.data = <<>>
  /\ step = "blank" => browser.data # <<>>

\* The bounds of the chunk: it lies in the log, after what has been sent, and
\* ends in line breaks from stop on.
ChunkFollows ==
  step # "copy" =>
    /\ sent < at /\ at <= stop + 1 /\ stop <= upto /\ upto <= Len(log)
    /\ step = "blank" => at = stop + 1
    /\ \A i \in (stop + 1)..upto : log[i] = LF

LogViewTypeOK ==
  /\ log \in Seq({Visible, LF})
  /\ sent \in 0..Len(log)
  /\ step \in {"copy", "prefix", "text", "blank"}
  /\ at \in Nat /\ stop \in Nat /\ upto \in Nat
  /\ browser = Buffers(browser.line, browser.data, Viewer)
  /\ browser.line \in Seq(Units \cup {DataPrefix})
  /\ OpenLine \in Seq(Nat)
  /\ browser.data \in Seq(Units)
  /\ Viewer \in Seq(Units)
  /\ source \in {"open", "closed"} /\ (source = "closed" => step = "copy")
  /\ clicks \in Nat

LogViewInv ==
  /\ LogViewTypeOK /\ ChunkFollows /\ ParserFollows
  /\ ShowsExactly(Arrived, Written)
  /\ KeepsBreaks(Arrived, Written)
  /\ TextIsIntact /\ LinesStayApart

---------------------------------------------------------------------------
LEMMA Distinct ==
  /\ LF # CR /\ Visible # LF /\ Visible # CR
  /\ DataPrefix # LF /\ DataPrefix # CR
  /\ LF \notin Nat /\ CR \notin Nat /\ DataPrefix \notin Nat
<1>1. /\ LF \in {LF, CR, DataPrefix} /\ CR \in {LF, CR, DataPrefix}
      /\ DataPrefix \in {LF, CR, DataPrefix}
  OBVIOUS
<1>2. /\ LF \in {LF, CR} /\ CR \in {LF, CR}
      /\ Visible \in {Visible, DataPrefix} /\ DataPrefix \in {Visible, DataPrefix}
  OBVIOUS
<1> QED BY <1>1, <1>2, LogViewAssumption

(* What a character or a line break of the log does to a faithful text. *)

LEMMA CharacterShown ==
  ASSUME NEW T \in Seq(Units), NEW n \in Nat, log[n + 1] = Visible,
         ShowsExactly(T, n), KeepsBreaks(T, n)
  PROVE  /\ ShowsExactly(Append(T, n + 1), n + 1)
         /\ KeepsBreaks(Append(T, n + 1), n + 1)
<1> DEFINE U == Append(T, n + 1)
<1>1. /\ DOMAIN U = 1..(Len(T) + 1) /\ DOMAIN T = 1..Len(T)
      /\ U[Len(T) + 1] = n + 1 /\ \A k \in DOMAIN T : U[k] = T[k]
      /\ Len(T) \in Nat
  OBVIOUS
<1>2. \A k \in DOMAIN T : T[k] # LF => T[k] \in 1..n
  BY DEF ShowsExactly
<1> HIDE DEF U
<1>3. ShowsExactly(U, n + 1)
  <2>1. \A k \in DOMAIN U : U[k] # LF => U[k] \in 1..(n + 1) /\ log[U[k]] = Visible
    BY <1>1 DEF ShowsExactly
  <2>2. \A i \in 1..(n + 1) : log[i] = Visible => \E k \in DOMAIN U : U[k] = i
    <3> TAKE i \in 1..(n + 1)
    <3> HAVE log[i] = Visible
    <3>1. CASE i = n + 1
      BY <1>1, <3>1
    <3>2. CASE i \in 1..n
      BY <1>1, <3>2 DEF ShowsExactly
    <3> QED BY <3>1, <3>2
  <2>3. \A j, k \in DOMAIN U : j < k /\ U[j] # LF /\ U[k] # LF => U[j] < U[k]
    <3> TAKE j, k \in DOMAIN U
    <3> HAVE j < k /\ U[j] # LF /\ U[k] # LF
    <3>1. CASE k = Len(T) + 1
      BY <1>1, <1>2, <3>1
    <3>2. CASE k \in DOMAIN T
      BY <1>1, <3>2 DEF ShowsExactly
    <3>3. k = Len(T) + 1 \/ k \in DOMAIN T
      BY <1>1
    <3> QED BY <3>1, <3>2, <3>3
  <2> QED BY <2>1, <2>2, <2>3 DEF ShowsExactly
<1>4. KeepsBreaks(U, n + 1)
  <2> SUFFICES ASSUME NEW i \in 1..(n + 1), log[i] = LF,
                      NEW k \in DOMAIN U, U[k] # LF, U[k] < i
               PROVE  \E b \in DOMAIN U :
                        /\ k < b /\ U[b] = LF
                        /\ \A m \in DOMAIN U : U[m] # LF /\ i < U[m] => b < m
    BY DEF KeepsBreaks
  <2>1. i \in 1..n /\ k \in DOMAIN T
    BY <1>1, Distinct
  <2>2. PICK b \in DOMAIN T :
          /\ k < b /\ T[b] = LF
          /\ \A m \in DOMAIN T : T[m] # LF /\ i < T[m] => b < m
    BY <1>1, <2>1 DEF KeepsBreaks
  <2> QED BY <1>1, <2>2
<1> QED BY <1>3, <1>4 DEF U

\* A line break more, the log's own at n + 1 or the last of an event.
LEMMA BreakShown ==
  ASSUME NEW T \in Seq(Units), NEW n \in Nat, NEW N \in {n, n + 1},
         N = n + 1 => log[N] = LF,
         ShowsExactly(T, n), KeepsBreaks(T, n)
  PROVE  /\ ShowsExactly(Append(T, LF), N)
         /\ KeepsBreaks(Append(T, LF), N)
<1> DEFINE U == Append(T, LF)
<1>1. /\ DOMAIN U = 1..(Len(T) + 1) /\ DOMAIN T = 1..Len(T)
      /\ U[Len(T) + 1] = LF /\ \A k \in DOMAIN T : U[k] = T[k]
      /\ Len(T) \in Nat
  BY DEF Units
<1>2. \A k \in DOMAIN T : T[k] # LF => T[k] \in 1..n
  BY DEF ShowsExactly
<1> HIDE DEF U
<1>3. ShowsExactly(U, N)
  <2>1. \A k \in DOMAIN U : U[k] # LF => U[k] \in 1..N /\ log[U[k]] = Visible
    BY <1>1 DEF ShowsExactly
  <2>2. \A i \in 1..N : log[i] = Visible => \E k \in DOMAIN U : U[k] = i
    <3> TAKE i \in 1..N
    <3> HAVE log[i] = Visible
    <3>1. i \in 1..n
      BY Distinct
    <3> QED BY <1>1, <3>1 DEF ShowsExactly
  <2>3. \A j, k \in DOMAIN U : j < k /\ U[j] # LF /\ U[k] # LF => U[j] < U[k]
    BY <1>1 DEF ShowsExactly
  <2> QED BY <2>1, <2>2, <2>3 DEF ShowsExactly
<1>4. KeepsBreaks(U, N)
  <2> SUFFICES ASSUME NEW i \in 1..N, log[i] = LF,
                      NEW k \in DOMAIN U, U[k] # LF, U[k] < i
               PROVE  \E b \in DOMAIN U :
                        /\ k < b /\ U[b] = LF
                        /\ \A m \in DOMAIN U : U[m] # LF /\ i < U[m] => b < m
    BY DEF KeepsBreaks
  <2>1. k \in DOMAIN T
    BY <1>1
  <2>2. CASE i \in 1..n
    <3>1. PICK b \in DOMAIN T :
            /\ k < b /\ T[b] = LF
            /\ \A m \in DOMAIN T : T[m] # LF /\ i < T[m] => b < m
      BY <1>1, <2>1, <2>2 DEF KeepsBreaks
    <3> QED BY <1>1, <3>1
  <2>3. CASE i = n + 1
    <3>1. \A m \in DOMAIN U : U[m] # LF => ~(i < U[m])
      BY <1>1, <1>2, <2>3
    <3> QED BY <1>1, <2>1, <3>1
  <2> QED BY <2>2, <2>3
<1> QED BY <1>3, <1>4 DEF U

\* The line breaks that TrimRight drops, behind a text that ends in one.
LEMMA BreaksDropped ==
  ASSUME NEW T \in Seq(Units), T # <<>>, T[Len(T)] = LF,
         NEW n \in Nat, NEW N \in Nat, n <= N,
         \A i \in (n + 1)..N : log[i] = LF,
         ShowsExactly(T, n), KeepsBreaks(T, n)
  PROVE  ShowsExactly(T, N) /\ KeepsBreaks(T, N)
<1>1. DOMAIN T = 1..Len(T) /\ Len(T) \in Nat \ {0}
  OBVIOUS
<1>2. \A k \in DOMAIN T : T[k] # LF => T[k] \in 1..n
  BY DEF ShowsExactly
<1>3. \A i \in 1..N : i \in 1..n \/ (log[i] = LF /\ n < i)
  OBVIOUS
<1>4. ShowsExactly(T, N)
  BY <1>2, <1>3, Distinct DEF ShowsExactly
<1>5. KeepsBreaks(T, N)
  <2> SUFFICES ASSUME NEW i \in 1..N, log[i] = LF,
                      NEW k \in DOMAIN T, T[k] # LF, T[k] < i
               PROVE  \E b \in DOMAIN T :
                        /\ k < b /\ T[b] = LF
                        /\ \A m \in DOMAIN T : T[m] # LF /\ i < T[m] => b < m
    BY DEF KeepsBreaks
  <2>1. CASE i \in 1..n
    BY <2>1 DEF KeepsBreaks
  <2>2. CASE n < i
    <3>1. \A m \in DOMAIN T : T[m] # LF => ~(i < T[m])
      BY <1>2, <2>2
    <3>2. k < Len(T)
      BY <1>1
    <3> QED BY <1>1, <3>1, <3>2
  <2> QED BY <1>3, <2>1, <2>2
<1> QED BY <1>4, <1>5

---------------------------------------------------------------------------
(* What the parser does with one unit, told of all the browser has. *)

LEMMA LineStarts ==
  /\ <<DataPrefix>> # <<>> /\ Head(<<DataPrefix>>) = DataPrefix
  /\ Tail(<<DataPrefix>>) = <<>>
  /\ <<DataPrefix>> \in Seq(Units \cup {DataPrefix})
  OBVIOUS

LEMMA LineGrows ==
  ASSUME NEW S, NEW l \in Seq(S), l # <<>>, NEW x \in S
  PROVE  /\ Append(l, x) \in Seq(S) /\ Append(l, x) # <<>>
         /\ Head(Append(l, x)) = Head(l)
         /\ Tail(Append(l, x)) = Append(Tail(l), x)
  BY AppendProperties, HeadTailAppend

LEMMA TextGrows ==
  ASSUME NEW s \in Seq(Units), NEW d \in Seq(Units), NEW t \in Seq(Nat),
         NEW x \in Nat
  PROVE  s \o (d \o Append(t, x)) = Append(s \o (d \o t), x)
<1>1. t \in Seq(Units) /\ x \in Units
  BY SeqMonotonic DEF Units
<1>2. /\ Append(t, x) = t \o <<x>>
      /\ d \o t \in Seq(Units) /\ <<x>> \in Seq(Units)
  <2>1. <<x>> \in Seq(Units)
    BY <1>1
  <2> QED BY <1>1, <2>1, AppendIsConcat, ConcatProperties
<1>5. d \o (t \o <<x>>) = (d \o t) \o <<x>>
  BY <1>1, <1>2, ConcatAssociative
<1>3. /\ s \o ((d \o t) \o <<x>>) = (s \o (d \o t)) \o <<x>>
      /\ s \o (d \o t) \in Seq(Units)
  <2> DEFINE u == d \o t
  <2>1. u \in Seq(Units) /\ <<x>> \in Seq(Units)
    BY <1>2
  <2> HIDE DEF u
  <2>2. s \o (u \o <<x>>) = (s \o u) \o <<x>>
    BY <2>1, ConcatAssociative
  <2>3. s \o u \in Seq(Units)
    BY <2>1, ConcatProperties
  <2> QED BY <2>2, <2>3 DEF u
<1>4. Append(s \o (d \o t), x) = (s \o (d \o t)) \o <<x>>
  BY <1>1, <1>3, AppendIsConcat
<1> QED BY <1>2, <1>3, <1>4, <1>5

LEMMA LineCloses ==
  ASSUME NEW s \in Seq(Units), NEW d \in Seq(Units), NEW t \in Seq(Nat)
  PROVE  s \o ((d \o t \o <<LF>>) \o <<>>) = Append(s \o (d \o t), LF)
  BY DEF Units

LEMMA FrontRestored ==
  ASSUME NEW d \in Seq(Units), d # <<>>, d[Len(d)] = LF
  PROVE  Front(d) \o <<LF>> = d
<1>1. Len(d) \in Nat \ {0} /\ <<LF>> \in Seq(Units) /\ \A i \in 1..Len(d) : d[i] \in Units
  BY DEF Units
<1>2. /\ Front(d) \in Seq(Units) /\ Len(Front(d)) = Len(d) - 1
      /\ \A i \in 1..(Len(d) - 1) : Front(d)[i] = d[i]
  <2>1. 1 \in Int /\ Len(d) - 1 \in Int /\ \A i \in 1..(Len(d) - 1) : d[i] \in Units
    BY <1>1
  <2>2. /\ SubSeq(d, 1, Len(d) - 1) \in Seq(Units)
        /\ Len(SubSeq(d, 1, Len(d) - 1)) =
             IF 1 <= Len(d) - 1 THEN (Len(d) - 1) - 1 + 1 ELSE 0
        /\ \A i \in 1..((Len(d) - 1) - 1 + 1) :
             SubSeq(d, 1, Len(d) - 1)[i] = d[1 + i - 1]
    BY <2>1, SubSeqProperties
  <2>3. ASSUME NEW i \in 1..(Len(d) - 1)
        PROVE  SubSeq(d, 1, Len(d) - 1)[i] = d[i]
    <3>1. 1 + i - 1 = i /\ i \in 1..((Len(d) - 1) - 1 + 1)
      BY <1>1
    <3> QED BY <2>2, <3>1
  <2>4. \A n \in Nat \ {0} : (IF 1 <= n - 1 THEN (n - 1) - 1 + 1 ELSE 0) = n - 1
    OBVIOUS
  <2> QED BY <1>1, <2>2, <2>3, <2>4 DEF Front
<1>3. /\ Front(d) \o <<LF>> \in Seq(Units) /\ Len(Front(d) \o <<LF>>) = Len(d)
      /\ \A i \in 1..Len(d) : (Front(d) \o <<LF>>)[i] = d[i]
  BY <1>1, <1>2
<1> QED BY <1>3, SeqEqual

LEMMA DataShown ==
  ASSUME NEW s \in Seq(Units), NEW d \in Seq(Units),
         d # <<>>, d[Len(d)] = LF
  PROVE  (s \o AppendLogLine(Front(d))) \o (<<>> \o <<>>) = s \o (d \o <<>>)
<1>1. s \o d \in Seq(Units) /\ d \o <<>> = d /\ <<>> \o <<>> = <<>>
  BY ConcatEmptySeq, ConcatProperties, EmptySeq
<1>2. (s \o d) \o <<>> = s \o d
  BY <1>1, ConcatEmptySeq
<1> QED BY <1>1, <1>2, FrontRestored DEF AppendLogLine

LessThan == {ss \in Nat \X Nat : ss[1] < ss[2]}

LEMMA LessThanWellFounded == IsWellFoundedOn(LessThan, Nat)
<1>1. LessThan = OpToRel(<, Nat)
  BY DEF OpToRel, LessThan
<1> QED BY <1>1, NatLessThanWellFounded

LEMMA LeastNatural ==
  ASSUME NEW S \in SUBSET Nat, S # {}
  PROVE  \E n \in S : \A k \in S : n <= k
<1>1. PICK n \in S : \A k \in S : ~ (<<k, n>> \in LessThan)
  BY LessThanWellFounded, WFMin
<1>2. \A k \in S : n <= k
  <2> TAKE k \in S
  <2>1. k < n => <<k, n>> \in LessThan
    BY DEF LessThan
  <2>2. ~(k < n)
    BY <1>1, <2>1
  <2> QED BY <2>2
<1> QED BY <1>2

\* bytes.TrimRight cuts line breaks only, and all of them.
LEMMA Trimmed ==
  ASSUME NEW first \in Nat \ {0}, NEW last \in Nat, first <= last + 1
  PROVE  /\ TrimRight(first, last) \in (first - 1)..last
         /\ TrimRight(first, last) >= first => log[TrimRight(first, last)] # LF
         /\ \A i \in (TrimRight(first, last) + 1)..last : log[i] = LF
<1> DEFINE Ends == {n \in Nat : /\ n \in (first - 1)..last
                                /\ \A i \in (n + 1)..last : log[i] = LF}
<1>1. Ends \in SUBSET Nat /\ last \in Ends
  OBVIOUS
<1>2. PICK n \in Ends : \A k \in Ends : n <= k
  BY <1>1, LeastNatural
<1>3. ASSUME n >= first PROVE log[n] # LF
  <2> SUFFICES ASSUME log[n] = LF PROVE FALSE
    OBVIOUS
  <2>1. n - 1 \in Nat /\ n - 1 \in (first - 1)..last
    BY <1>3
  <2>2. \A i \in n..last : i = n \/ i \in (n + 1)..last
    OBVIOUS
  <2>3. \A i \in ((n - 1) + 1)..last : log[i] = LF
    BY <2>2
  <2> QED BY <1>2, <2>1, <2>3
<1>4. \E m \in (first - 1)..last : /\ m >= first => log[m] # LF
                                   /\ \A i \in (m + 1)..last : log[i] = LF
  BY <1>3
<1> QED BY <1>4 DEF TrimRight

---------------------------------------------------------------------------
(* Receive, case by case. *)

LEMMA BufferParts ==
  ASSUME NEW b, NEW l, NEW d, NEW s, b = Buffers(l, d, s)
  PROVE  b.line = l /\ b.data = d /\ b.shown = s
  BY DEF Buffers

LEMMA TextReceived ==
  ASSUME NEW l, NEW d, NEW s, NEW c, c \notin {LF, CR}
  PROVE  Receive(Buffers(l, d, s), c) = Buffers(Append(l, c), d, s)
  BY DEF Receive, Buffers

LEMMA LineReceived ==
  ASSUME NEW l, NEW d, NEW s, l # <<>>, Head(l) = DataPrefix
  PROVE  Receive(Buffers(l, d, s), LF) = Buffers(<<>>, d \o Tail(l) \o <<LF>>, s)
  BY Distinct DEF Receive, EndOfLine, Buffers

LEMMA BlankReceived ==
  ASSUME NEW d, NEW s, d # <<>>
  PROVE  Receive(Buffers(<<>>, d, s), LF) =
           Buffers(<<>>, <<>>, s \o AppendLogLine(Front(d)))
  BY Distinct DEF Receive, EndOfLine, Dispatch, Buffers

---------------------------------------------------------------------------
(* The invariant, step by step. *)

LEMMA InvKept ==
  ASSUME LogViewTypeOK', ChunkFollows', ParserFollows', log' = log,
         ShowsExactly(Arrived', Written'), KeepsBreaks(Arrived', Written'),
         \/ TextIsIntact /\ LinesStayApart /\ Viewer' = Viewer /\ sent' = sent
         \/ Viewer' = Arrived' /\ sent' = Written'
  PROVE  LogViewInv'
<1>1. TextIsIntact' /\ LinesStayApart'
  BY DEF TextIsIntact, LinesStayApart, ShowsExactly, KeepsBreaks
<1>2. ShowsExactly(Arrived, Written)' /\ KeepsBreaks(Arrived, Written)'
  BY DEF ShowsExactly, KeepsBreaks
<1> QED BY <1>1, <1>2 DEF LogViewInv

LEMMA CopyStep ==
  ASSUME LogViewInv, Copy
  PROVE  LogViewInv'
<1>1. PICK n \in (sent + 1)..Len(log) : upto' = n /\ stop' = TrimRight(sent + 1, n)
  BY DEF Copy
<1>2. /\ sent \in Nat /\ Len(log) \in Nat /\ n \in Nat /\ log \in Seq({Visible, LF})
      /\ step = "copy"
  BY <1>1 DEF LogViewInv, LogViewTypeOK, Copy
<1>3. /\ stop' \in sent..n
      /\ stop' >= sent + 1 => log[stop'] # LF
      /\ \A i \in (stop' + 1)..n : log[i] = LF
  <2> DEFINE t == TrimRight(sent + 1, n)
  <2>1. /\ t \in ((sent + 1) - 1)..n
        /\ t >= sent + 1 => log[t] # LF
        /\ \A i \in (t + 1)..n : log[i] = LF
    <3>1. sent + 1 \in Nat \ {0} /\ sent + 1 <= n + 1
      BY <1>1, <1>2
    <3> QED BY <1>2, <3>1, Trimmed
  <2>2. stop' = t /\ (sent + 1) - 1 = sent
    BY <1>1, <1>2
  <2> HIDE DEF t
  <2> QED BY <2>1, <2>2
<1>4. UNCHANGED <<log, sent, browser>> /\ at' = sent + 1 /\ step' = "prefix"
  BY DEF Copy
<1>5. UNCHANGED <<Viewer, OpenLine, Arrived, Written>>
  BY <1>2, <1>4 DEF Viewer, OpenLine, Arrived, Written
<1>6. LogViewTypeOK'
  BY <1>1, <1>2, <1>3, <1>4, <1>5 DEF LogViewInv, LogViewTypeOK, Copy
<1>7. ChunkFollows'
  BY <1>1, <1>2, <1>3, <1>4 DEF ChunkFollows
<1>8. ParserFollows'
  BY <1>2, <1>4 DEF LogViewInv, ParserFollows
<1> QED BY <1>4, <1>5, <1>6, <1>7, <1>8, InvKept DEF LogViewInv

LEMMA PrefixStep ==
  ASSUME LogViewInv, WritePrefix
  PROVE  LogViewInv'
<1> USE DEF LogViewInv, WritePrefix, Emit
<1>1. /\ browser = Buffers(<<>>, browser.data, Viewer)
      /\ browser' = Buffers(<<DataPrefix>>, browser.data, Viewer)
  <2>1. Append(<<>>, DataPrefix) = <<DataPrefix>>
    OBVIOUS
  <2>2. Receive(Buffers(<<>>, browser.data, Viewer), DataPrefix) =
          Buffers(Append(<<>>, DataPrefix), browser.data, Viewer)
    BY TextReceived, Distinct
  <2>3. browser = Buffers(<<>>, browser.data, Viewer)
    BY DEF LogViewTypeOK, ParserFollows
  <2> QED BY <2>1, <2>2, <2>3
<1>2. /\ browser'.line = <<DataPrefix>> /\ browser'.data = browser.data
      /\ Viewer' = Viewer
  BY <1>1, BufferParts DEF Viewer
<1>6. OpenLine = <<>> /\ OpenLine' = <<>>
  BY <1>2, LineStarts DEF OpenLine, ParserFollows
<1>3. Arrived' = Arrived /\ Written' = Written
  BY <1>2, <1>6 DEF Arrived, Written
<1>4. LogViewTypeOK'
  BY <1>1, <1>2, <1>6, LineStarts, EmptySeq DEF LogViewTypeOK
<1>5. ChunkFollows' /\ ParserFollows'
  BY <1>2, LineStarts DEF ChunkFollows, ParserFollows
<1> QED BY <1>2, <1>3, <1>4, <1>5, InvKept

LEMMA CharacterStep ==
  ASSUME LogViewInv, WriteCharacter
  PROVE  LogViewInv'
<1>0. /\ LogViewTypeOK /\ ChunkFollows /\ ParserFollows
      /\ ShowsExactly(Arrived, Written) /\ KeepsBreaks(Arrived, Written)
      /\ TextIsIntact /\ LinesStayApart
      /\ step = "text" /\ ~LineIsOver
      /\ browser' = Receive(browser, IF log[at] = Visible THEN at ELSE log[at])
      /\ at' = at + 1
      /\ UNCHANGED <<log, stop, upto, source, clicks, sent, step>>
  BY DEF LogViewInv, WriteCharacter, Emit
<1>1. at \in Nat /\ at > 0 /\ at <= Len(log) /\ log[at] = Visible /\ at <= stop
  <2>1. at \in Nat /\ stop \in Nat /\ upto \in Nat /\ at <= stop /\ log[at] # LF
    BY <1>0 DEF LineIsOver, LogViewTypeOK
  <2>2. sent < at /\ at <= Len(log) /\ sent \in Nat /\ Len(log) \in Nat
    BY <1>0, <2>1 DEF ChunkFollows, LogViewTypeOK
  <2>3. at \in 1..Len(log)
    BY <2>1, <2>2
  <2> QED BY <1>0, <2>1, <2>2, <2>3 DEF LogViewTypeOK
<1>2. browser' = Buffers(Append(browser.line, at), browser.data, Viewer)
  BY <1>0, <1>1, TextReceived, Distinct DEF LogViewTypeOK
<1>3. /\ browser'.line = Append(browser.line, at) /\ browser'.data = browser.data
      /\ Viewer' = Viewer
  BY <1>2, Zenon DEF Buffers, Viewer
<1>4. /\ browser.line # <<>> /\ browser.line \in Seq(Units \cup {DataPrefix})
      /\ Head(browser.line) = DataPrefix /\ OpenLine = Tail(browser.line)
      /\ OpenLine \in Seq(Nat)
  BY <1>0 DEF ParserFollows, OpenLine, LogViewTypeOK
<1>5. /\ browser'.line # <<>> /\ browser'.line \in Seq(Units \cup {DataPrefix})
      /\ Head(browser'.line) = DataPrefix
      /\ Tail(browser'.line) = Append(Tail(browser.line), at)
  <2>1. at \in Units \cup {DataPrefix}
    BY <1>1 DEF Units
  <2>2. \A l \in Seq(Units \cup {DataPrefix}) : l # <<>> =>
          /\ Append(l, at) \in Seq(Units \cup {DataPrefix})
          /\ Append(l, at) # <<>> /\ Head(Append(l, at)) = Head(l)
          /\ Tail(Append(l, at)) = Append(Tail(l), at)
    BY <2>1, LineGrows
  <2> QED BY <1>3, <1>4, <2>2
<1>6. OpenLine' = Append(OpenLine, at) /\ OpenLine' \in Seq(Nat)
  <2>1. OpenLine' = Tail(browser'.line)
    BY <1>5 DEF OpenLine
  <2>2. Append(OpenLine, at) \in Seq(Nat)
    BY <1>1, <1>4, AppendProperties
  <2> QED BY <1>4, <1>5, <2>1, <2>2
<1>7. Arrived' = Append(Arrived, at) /\ Arrived \in Seq(Units)
  <2>1. Viewer \in Seq(Units) /\ browser.data \in Seq(Units) /\ OpenLine \in Seq(Units)
    <3>1. OpenLine \in Seq(Units)
      BY <1>4, SeqMonotonic DEF Units
    <3> QED BY <1>0, <3>1 DEF LogViewTypeOK
  <2>2. Arrived \in Seq(Units)
    BY <2>1, ConcatProperties DEF Arrived
  <2>3. Viewer \o (browser.data \o Append(OpenLine, at))
          = Append(Viewer \o (browser.data \o OpenLine), at)
    BY <1>1, <1>4, <2>1, TextGrows
  <2> QED BY <1>3, <1>6, <2>2, <2>3 DEF Arrived
<1>8. Written = at - 1 /\ Written' = at
  BY <1>0, <1>1 DEF Written
<1>9. LogViewTypeOK'
  <2>1. browser' = Buffers(browser'.line, browser'.data, Viewer')
    BY <1>2, <1>3
  <2>2. at' \in Nat
    BY <1>0, <1>1
  <2> QED BY <1>0, <1>3, <1>5, <1>6, <2>1, <2>2 DEF LogViewTypeOK
<1>10. ChunkFollows' /\ ParserFollows'
  <2>1. ChunkFollows'
    BY <1>0, <1>1 DEF ChunkFollows, LogViewTypeOK
  <2>2. ParserFollows'
    BY <1>0, <1>3, <1>5 DEF ParserFollows
  <2> QED BY <2>1, <2>2
<1>11. ShowsExactly(Append(Arrived, at), at) /\ KeepsBreaks(Append(Arrived, at), at)
  <2>1. at - 1 \in Nat /\ (at - 1) + 1 = at
    BY <1>1
  <2> QED BY <1>0, <1>1, <1>7, <1>8, <2>1, CharacterShown
<1> QED BY <1>0, <1>3, <1>7, <1>8, <1>9, <1>10, <1>11, InvKept

LEMMA EndLineStep ==
  ASSUME LogViewInv, EndLine
  PROVE  LogViewInv'
<1> DEFINE data == browser.data \o Tail(browser.line) \o <<LF>>
<1>0. /\ LogViewTypeOK /\ ChunkFollows /\ ParserFollows
      /\ ShowsExactly(Arrived, Written) /\ KeepsBreaks(Arrived, Written)
      /\ TextIsIntact /\ LinesStayApart
      /\ step = "text" /\ LineIsOver
      /\ browser' = Receive(browser, LF)
      /\ \/ at > stop /\ step' = "blank" /\ at' = at
         \/ ~(at > stop) /\ step' = "prefix" /\ at' = at + 1
      /\ UNCHANGED <<log, stop, upto, source, clicks, sent>>
  BY DEF LogViewInv, EndLine, Emit
<1>1. /\ browser.line # <<>> /\ Head(browser.line) = DataPrefix
      /\ OpenLine = Tail(browser.line) /\ OpenLine \in Seq(Nat)
      /\ browser.data \in Seq(Units) /\ Viewer \in Seq(Units)
      /\ at \in Nat /\ stop \in Nat /\ upto \in Nat /\ sent \in Nat
  BY <1>0 DEF ParserFollows, OpenLine, LogViewTypeOK
<1>2. browser' = Buffers(<<>>, data, Viewer)
  <2>1. browser = Buffers(browser.line, browser.data, Viewer)
    BY <1>0 DEF LogViewTypeOK
  <2>2. Receive(Buffers(browser.line, browser.data, Viewer), LF)
          = Buffers(<<>>, data, Viewer)
    BY <1>1, LineReceived
  <2> QED BY <1>0, <2>1, <2>2
<1>3. browser'.line = <<>> /\ browser'.data = data /\ Viewer' = Viewer
  BY <1>2, Zenon DEF Buffers, Viewer
<1>4. data \in Seq(Units) /\ data # <<>> /\ data[Len(data)] = LF
  <2>1. OpenLine \in Seq(Units) /\ LF \in Units
    BY <1>1, SeqMonotonic DEF Units
  <2>2. browser.data \o OpenLine \in Seq(Units)
    BY <1>1, <2>1, ConcatProperties
  <2>3. data = Append(browser.data \o OpenLine, LF)
    BY <1>1, <2>1, <2>2, AppendIsConcat
  <2>4. \A u \in Seq(Units) :
          /\ Append(u, LF) \in Seq(Units) /\ Append(u, LF) # <<>>
          /\ Append(u, LF)[Len(Append(u, LF))] = LF
    BY <2>1, AppendProperties
  <2> HIDE DEF data
  <2> QED BY <2>2, <2>3, <2>4
<1>5. OpenLine' = <<>>
  BY <1>3 DEF OpenLine
<1>6. Arrived' = Append(Arrived, LF) /\ Arrived \in Seq(Units)
  <2>1. OpenLine \in Seq(Units)
    BY <1>1, SeqMonotonic DEF Units
  <2>2. Arrived \in Seq(Units)
    BY <1>1, <2>1, ConcatProperties DEF Arrived
  <2>3. Viewer \o (data \o <<>>) = Append(Viewer \o (browser.data \o OpenLine), LF)
    BY <1>1, LineCloses
  <2> HIDE DEF data
  <2> QED BY <1>3, <1>5, <2>2, <2>3 DEF Arrived
<1> HIDE DEF data
<1>7. LogViewTypeOK'
  <2>1. browser' = Buffers(browser'.line, browser'.data, Viewer')
    BY <1>2, <1>3
  <2>2. at' \in Nat /\ step' \in {"blank", "prefix"}
    BY <1>0, <1>1
  <2>3. browser'.line \in Seq(Units \cup {DataPrefix}) /\ OpenLine' \in Seq(Nat)
    BY <1>3, <1>5, EmptySeq
  <2>4. source' # "closed"
    BY <1>0 DEF LogViewTypeOK
  <2> QED BY <1>0, <1>3, <1>4, <2>1, <2>2, <2>3, <2>4 DEF LogViewTypeOK
<1>8. ParserFollows'
  BY <1>0, <1>3, <1>4 DEF ParserFollows
<1>9. sent < at /\ at <= stop + 1 /\ at - 1 \in Nat
  BY <1>0, <1>1 DEF ChunkFollows
<1>10. ChunkFollows'
  BY <1>0, <1>1, <1>9 DEF ChunkFollows
<1>11. Written = at - 1
  BY <1>0 DEF Written
<1>12. ShowsExactly(Arrived', Written') /\ KeepsBreaks(Arrived', Written')
  <2>1. Written' = at' - 1
    BY <1>0 DEF Written
  <2>2. Written' \in {at - 1, (at - 1) + 1}
    BY <1>0, <1>9, <1>1, <2>1
  <2>3. Written' = (at - 1) + 1 => log[Written'] = LF
    BY <1>0, <1>1, <2>1 DEF LineIsOver
  <2> QED BY <1>0, <1>6, <1>9, <1>11, <2>2, <2>3, BreakShown
<1> QED BY <1>0, <1>3, <1>7, <1>8, <1>10, <1>12, InvKept

LEMMA EndEventStep ==
  ASSUME LogViewInv, EndEvent
  PROVE  LogViewInv'
<1> DEFINE shown == Viewer \o AppendLogLine(Front(browser.data))
<1>0. /\ LogViewTypeOK /\ ChunkFollows /\ ParserFollows
      /\ ShowsExactly(Arrived, Written) /\ KeepsBreaks(Arrived, Written)
      /\ step = "blank" /\ step' = "copy" /\ sent' = upto
      /\ browser' = Receive(browser, LF)
      /\ UNCHANGED <<log, stop, upto, source, clicks, at>>
  BY DEF LogViewInv, EndEvent, Emit
<1>1. /\ browser.line = <<>> /\ OpenLine = <<>>
      /\ browser.data # <<>> /\ browser.data[Len(browser.data)] = LF
      /\ browser.data \in Seq(Units) /\ Viewer \in Seq(Units)
      /\ at \in Nat /\ stop \in Nat /\ upto \in Nat /\ sent \in Nat
      /\ Len(log) \in Nat
  BY <1>0 DEF ParserFollows, OpenLine, LogViewTypeOK
<1>2. browser' = Buffers(<<>>, <<>>, shown)
  <2>1. browser = Buffers(<<>>, browser.data, Viewer)
    BY <1>0, <1>1 DEF LogViewTypeOK
  <2>2. Receive(Buffers(<<>>, browser.data, Viewer), LF)
          = Buffers(<<>>, <<>>, shown)
    BY <1>1, BlankReceived
  <2> QED BY <1>0, <2>1, <2>2
<1>3. browser'.line = <<>> /\ browser'.data = <<>> /\ Viewer' = shown
  BY <1>2, Zenon DEF Buffers, Viewer
<1>4. OpenLine' = <<>>
  BY <1>3 DEF OpenLine
<1>5. shown \o (<<>> \o <<>>) = Viewer \o (browser.data \o <<>>)
  BY <1>1, DataShown
<1>6. Arrived' = Arrived
  <2> HIDE DEF shown
  <2> QED BY <1>1, <1>3, <1>4, <1>5 DEF Arrived
<1>7. /\ Arrived = Viewer \o browser.data /\ Arrived \in Seq(Units)
      /\ Arrived # <<>> /\ Arrived[Len(Arrived)] = LF
  <2>1. browser.data \o <<>> = browser.data
    BY <1>1, ConcatEmptySeq
  <2>2. Arrived = Viewer \o browser.data
    BY <1>1, <2>1 DEF Arrived
  <2>3. Len(browser.data) \in Nat \ {0} /\ Len(Viewer) \in Nat
    BY <1>1, EmptySeq, LenProperties
  <2>4. /\ Viewer \o browser.data \in Seq(Units)
        /\ Len(Viewer \o browser.data) = Len(Viewer) + Len(browser.data)
        /\ \A i \in 1..(Len(Viewer) + Len(browser.data)) :
             (Viewer \o browser.data)[i] =
               IF i <= Len(Viewer) THEN Viewer[i] ELSE browser.data[i - Len(Viewer)]
    BY <1>1, ConcatProperties
  <2>5. \A v \in Nat, d \in Nat \ {0} :
          v + d \in 1..(v + d) /\ ~(v + d <= v) /\ (v + d) - v = d /\ v + d # 0
    OBVIOUS
  <2>6. (Viewer \o browser.data)[Len(Viewer) + Len(browser.data)] = LF
    BY <1>1, <2>3, <2>4, <2>5
  <2>7. Viewer \o browser.data # <<>>
    BY <2>3, <2>4, <2>5, EmptySeq
  <2> QED BY <2>2, <2>4, <2>6, <2>7
<1>8. /\ Written = stop /\ Written' = upto /\ stop <= upto
      /\ upto <= Len(log) /\ \A i \in (stop + 1)..upto : log[i] = LF
  BY <1>0, <1>1 DEF Written, ChunkFollows
<1>9. ShowsExactly(Arrived', Written') /\ KeepsBreaks(Arrived', Written')
  BY <1>0, <1>1, <1>6, <1>7, <1>8, BreaksDropped
<1>10. Viewer' = Arrived' /\ shown \in Seq(Units)
  <2>1. Front(browser.data) \o <<LF>> = browser.data
    BY <1>1, FrontRestored
  <2> QED BY <1>3, <1>6, <1>7, <2>1 DEF AppendLogLine
<1> HIDE DEF shown
<1>11. LogViewTypeOK'
  <2>1. browser' = Buffers(browser'.line, browser'.data, Viewer')
    BY <1>2, <1>3
  <2>2. /\ browser'.line \in Seq(Units \cup {DataPrefix}) /\ OpenLine' \in Seq(Nat)
        /\ browser'.data \in Seq(Units)
    BY <1>3, <1>4, EmptySeq
  <2>3. sent' \in 0..Len(log)
    BY <1>0, <1>1, <1>8
  <2> QED BY <1>0, <1>3, <1>10, <2>1, <2>2, <2>3 DEF LogViewTypeOK
<1>12. ParserFollows' /\ ChunkFollows'
  BY <1>0, <1>3 DEF ParserFollows, ChunkFollows
<1> QED BY <1>0, <1>8, <1>9, <1>10, <1>11, <1>12, InvKept

LEMMA NothingYet ==
  /\ Connected(<<>>) = Buffers(<<>>, <<>>, <<>>)
  /\ ShowsExactly(<<>>, 0) /\ KeepsBreaks(<<>>, 0)
  BY DEF Connected, Buffers, ShowsExactly, KeepsBreaks

\* A new connection: nothing of it has arrived.
LEMMA ConnectStep ==
  ASSUME LogViewInv, ConnectionEnds \/ Reconnect
  PROVE  LogViewInv'
<1>0. LogViewTypeOK /\ TextIsIntact /\ LinesStayApart /\ log' = log /\ step' = "copy"
  BY DEF LogViewInv, LogViewTypeOK, ConnectionEnds, Reconnect, writerVars
<1>1. PICK text : /\ browser' = Connected(text)
                  /\ \/ text = Viewer /\ sent' = sent
                     \/ text = <<>> /\ sent' = 0
  BY DEF ConnectionEnds, OnError, Reconnect
<1>2. /\ browser' = Buffers(<<>>, <<>>, text)
      /\ browser'.line = <<>> /\ browser'.data = <<>> /\ Viewer' = text
  BY <1>1 DEF Connected, Buffers, Viewer
<1>3. text \in Seq(Units) /\ sent' \in 0..Len(log)
  <2>1. Viewer \in Seq(Units) /\ sent \in 0..Len(log) /\ Len(log) \in Nat
    BY <1>0, LenProperties DEF LogViewTypeOK
  <2>2. <<>> \in Seq(Units) /\ 0 \in 0..Len(log)
    BY <2>1, EmptySeq
  <2> QED BY <1>1, <2>1, <2>2
<1>4. OpenLine' = <<>>
  BY <1>2 DEF OpenLine
<1>5. Arrived' = text
  <2>1. <<>> \o <<>> = <<>> /\ text \o <<>> = text
    BY <1>3, ConcatEmptySeq, EmptySeq
  <2> QED BY <1>2, <1>4, <2>1 DEF Arrived
<1>6. Written' = sent'
  BY <1>0 DEF Written
<1>7. ShowsExactly(text, sent') /\ KeepsBreaks(text, sent')
  BY <1>0, <1>1, NothingYet DEF TextIsIntact, LinesStayApart
<1>8. LogViewTypeOK'
  <2>1. /\ browser' = Buffers(browser'.line, browser'.data, Viewer')
        /\ browser'.line \in Seq(Units \cup {DataPrefix}) /\ OpenLine' \in Seq(Nat)
        /\ browser'.data \in Seq(Units)
    BY <1>2, <1>4, EmptySeq
  <2>a. /\ UNCHANGED <<at, stop, upto>> /\ source' \in {"open", "closed"}
        /\ clicks' = clicks \/ clicks' = clicks + 1
    BY DEF ConnectionEnds, OnError, Reconnect, writerVars
  <2>2. /\ at' \in Nat /\ stop' \in Nat /\ upto' \in Nat /\ clicks' \in Nat
        /\ source' \in {"open", "closed"}
    BY <1>0, <2>a DEF LogViewTypeOK
  <2> QED BY <1>0, <1>2, <1>3, <2>1, <2>2 DEF LogViewTypeOK
<1>9. ChunkFollows' /\ ParserFollows'
  BY <1>0, <1>2 DEF ChunkFollows, ParserFollows
<1> QED BY <1>0, <1>2, <1>5, <1>6, <1>7, <1>8, <1>9, InvKept

LEMMA StartsFaithful ==
  ASSUME NoReturn, LogViewInit
  PROVE  LogViewInv
<1>1. log \in Seq({Visible, LF})
  <2>1. Alphabet \subseteq {Visible, LF, CR}
    BY DEF Alphabet
  <2>2. PICK n \in 0..MaxText : log \in [1..n -> Alphabet]
    BY DEF LogViewInit, BoundedSeq, SeqOf
  <2>3. n \in Nat
    BY LogViewAssumption
  <2>4. log \in [1..n -> {Visible, LF}]
    BY <2>1, <2>2 DEF NoReturn
  <2> QED BY <2>3, <2>4
<1>2. /\ browser = Buffers(<<>>, <<>>, <<>>)
      /\ browser.line = <<>> /\ browser.data = <<>> /\ Viewer = <<>>
  BY NothingYet DEF LogViewInit, Buffers, Viewer
<1>3. OpenLine = <<>> /\ Arrived = <<>>
  <2>1. <<>> \o (<<>> \o <<>>) = <<>>
    OBVIOUS
  <2> QED BY <1>2, <2>1 DEF OpenLine, Arrived
<1>4. sent = 0 /\ step = "copy" /\ Written = 0
  BY DEF LogViewInit, Written
<1>5. LogViewTypeOK
  <2>1. 0 \in 0..Len(log)
    BY <1>1, LenProperties
  <2>2. /\ browser.line \in Seq(Units \cup {DataPrefix}) /\ OpenLine \in Seq(Nat)
        /\ browser.data \in Seq(Units) /\ Viewer \in Seq(Units)
    BY <1>2, <1>3, EmptySeq
  <2>3. browser = Buffers(browser.line, browser.data, Viewer)
    BY <1>2
  <2> QED BY <1>1, <2>1, <2>2, <2>3 DEF LogViewInit, LogViewTypeOK
<1>6. ChunkFollows /\ ParserFollows
  BY <1>2, <1>4 DEF ChunkFollows, ParserFollows
<1> QED BY <1>2, <1>3, <1>4, <1>5, <1>6, NothingYet
        DEF LogViewInv, TextIsIntact, LinesStayApart

LEMMA StaysFaithful ==
  ASSUME LogViewInv, [LogViewNext]_logViewVars
  PROVE  LogViewInv'
<1>1. CASE UNCHANGED logViewVars
  <2>1. UNCHANGED <<Viewer, OpenLine, Arrived, Written>>
    BY <1>1 DEF logViewVars, writerVars, Viewer, OpenLine, Arrived, Written
  <2>2. LogViewTypeOK' /\ ChunkFollows' /\ ParserFollows'
    BY <1>1, <2>1 DEF LogViewInv, logViewVars, writerVars, LogViewTypeOK,
         ChunkFollows, ParserFollows
  <2> QED BY <1>1, <2>1, <2>2, InvKept DEF LogViewInv, logViewVars
<1> QED BY <1>1, CopyStep, PrefixStep, CharacterStep, EndLineStep, EndEventStep,
           ConnectStep DEF LogViewNext

LEMMA LogViewInvariant == LogViewSpec => [](NoReturn => LogViewInv)
<1>1. LogViewInit => (NoReturn => LogViewInv)
  BY StartsFaithful
<1>2. [LogViewNext]_logViewVars => log' = log
  BY DEF LogViewNext, logViewVars, Copy, WritePrefix, WriteCharacter, EndLine,
         EndEvent, Emit, ConnectionEnds, Reconnect
<1>3. (NoReturn => LogViewInv) /\ [LogViewNext]_logViewVars
        => (NoReturn => LogViewInv)'
  <2>1. log' = log /\ NoReturn' => NoReturn
    BY DEF NoReturn
  <2> QED BY <1>2, <2>1, StaysFaithful
<1> QED BY <1>1, <1>3, PTL DEF LogViewSpec

---------------------------------------------------------------------------
\* However io.Copy cuts a log without "\r" and wherever the connection ends,
\* the page shows every character of the events that arrived once and in order
\* (sseWriter.Write, EventSource, appendLogLine).
THEOREM TextArrivesIntact == LogViewSpec => [](NoReturn => TextIsIntact)
<1>1. LogViewInv => TextIsIntact
  BY DEF LogViewInv
<1> QED BY <1>1, LogViewInvariant, PTL

\* A line break of such a log is one on the page, although TrimRight takes the
\* last ones of each chunk away.
THEOREM LinesNeverRunTogether == LogViewSpec => [](NoReturn => LinesStayApart)
<1>1. LogViewInv => LinesStayApart
  BY DEF LogViewInv
<1> QED BY <1>1, LogViewInvariant, PTL
============================================================================
