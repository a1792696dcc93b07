-------------------------- MODULE LogStreamProofs --------------------------
(***************************************************************************)
(* The cursor of StreamPodLogs, proved of LogSpec for every tail, every    *)
(* granularity of SinceTime and logs and times of any length.  What makes  *)
(* it work: times grow along the log and the cursor is taken before the    *)
(* call it follows, so a line that call missed is not older than it.       *)
(***************************************************************************)
EXTENDS LogStream, TLAPS

Clock ==
  /\ \A i \in LineNumbers : lines[i] <= now
  /\ \A i, j \in LineNumbers : i <= j => lines[i] <= lines[j]
  /\ fetchedAt <= now
  /\ since # NoTime => since <= fetchedAt

Steps ==
  /\ pc # "copy" => batch = {}
  /\ pc \in {"idle", "locate"} => since = NoTime
  /\ pc \in {"wait", "getPod"} => since # NoTime
  /\ since = NoTime => polled = "Absent" /\ (pc # "error" => delivered = {})
  /\ pc \in {"wait", "getPod", "stamp"} /\ since # NoTime => since = fetchedAt
  /\ polled \in Terminal => phase \in Terminal \cup {"Gone"}

\* S has no gap; S begins with the first line; S has every line from its
\* first on that is older than t.
Unbroken(S) ==
  \A i, k \in S : \A j \in LineNumbers : i < j /\ j < k => j \in S
FromStart(S) == \A k \in S : \A j \in LineNumbers : j < k => j \in S
UpTo(S, t) ==
  /\ \A i \in S : \A j \in LineNumbers : i <= j /\ lines[j] < t => j \in S
  /\ tail = NoTail => \A j \in LineNumbers : lines[j] < t => j \in S

\* What the client has been sent, and will have been after the copy.
SentLines ==
  /\ pc # "error" => Unbroken(delivered)
  /\ tail = NoTail => FromStart(delivered)
  /\ since # NoTime /\ pc # "error" => UpTo(delivered, since)
  /\ pc = "complete" /\ follow /\ tail = NoTail =>
       polled \in Terminal /\ delivered = LineNumbers

CopiedLines ==
  pc = "copy" =>
    /\ Unbroken(delivered \cup batch)
    /\ UpTo(delivered \cup batch, fetchedAt)
    /\ tail = NoTail =>
         /\ \A n \in Nat : FromStart(delivered \cup {i \in batch : i <= n})
         /\ polled \in Terminal => delivered \cup batch = LineNumbers

LogInv == LogTypeOK /\ Clock /\ Steps /\ SentLines /\ CopiedLines

---------------------------------------------------------------------------
LEMMA Truncation ==
  ASSUME NEW t \in Nat
  PROVE  /\ Truncated(t) \in Int
         /\ Truncated(t) <= t /\ Truncated(t) > t - Second
<1>1. t % Second \in 0..(Second - 1)
  BY LogAssumption
<1> QED BY <1>1, LogAssumption DEF Truncated

LEMMA LinesTyped ==
  ASSUME LogTypeOK
  PROVE  /\ Len(lines) \in Nat /\ LineNumbers \subseteq Nat
         /\ \A i \in LineNumbers : lines[i] \in Nat
         /\ since # NoTime => since \in Nat
BY DEF LogTypeOK, LineNumbers

\* A step of the reader that does not read.
LEMMA PassingStep ==
  ASSUME LogInv, Locate \/ Stamp \/ Wait \/ GetPod
  PROVE  LogInv'
<1> USE DEF LogInv, Terminal
<1>1. /\ pc # "error" /\ pc # "copy" /\ pc' # "copy" /\ pc' # "complete"
      /\ UNCHANGED <<now, phase, lines, follow, tail, since, batch, delivered>>
  BY DEF Locate, Stamp, Wait, GetPod, podVars, requestVars
<1>2. LogTypeOK'
  BY <1>1 DEF Locate, Stamp, Wait, GetPod, LogTypeOK, Reading, Ended,
              LineNumbers, PodPhase
<1>3. Clock'
  BY <1>1, LinesTyped
     DEF Locate, Stamp, Wait, GetPod, Clock, LineNumbers, LogTypeOK
<1>4. Steps'
  BY <1>1 DEF Locate, Stamp, Wait, GetPod, Steps
<1>5. SentLines'
  BY <1>1 DEF SentLines, Unbroken, FromStart, UpTo, LineNumbers
<1>6. CopiedLines'
  BY <1>1 DEF CopiedLines
<1> QED BY <1>2, <1>3, <1>4, <1>5, <1>6

LEMMA RequestStep ==
  ASSUME LogInv, LogRequest
  PROVE  LogInv'
<1> USE DEF LogInv
<1>1. /\ pc = "idle" /\ pc' = "locate" /\ delivered = {} /\ since = NoTime
      /\ UNCHANGED <<now, phase, lines, since, fetchedAt, polled, batch,
                     delivered>>
  BY DEF LogRequest, podVars, Steps
<1>2. LogTypeOK'
  BY <1>1, LogAssumption
     DEF LogRequest, LogTypeOK, Reading, LineNumbers, PodPhase
<1>3. Clock' /\ Steps'
  BY <1>1 DEF Clock, Steps, LineNumbers
<1>4. SentLines' /\ CopiedLines'
  BY <1>1 DEF SentLines, CopiedLines, Unbroken, FromStart, UpTo
<1> QED BY <1>2, <1>3, <1>4

LEMMA FetchStep ==
  ASSUME LogInv, Fetch
  PROVE  LogInv'
<1> USE LogAssumption DEF LogInv
<1>1. /\ pc = "fetch" /\ pc' = "copy" /\ batch' = Wanted
      /\ UNCHANGED <<now, phase, lines, follow, tail, since, fetchedAt, polled,
                     delivered>>
  BY DEF Fetch, podVars, requestVars
<1>2. Wanted \subseteq LineNumbers
  BY DEF Wanted
<1>3. LogTypeOK' /\ Clock' /\ Steps' /\ SentLines'
  <2>1. LogTypeOK'
    BY <1>1, <1>2 DEF LogTypeOK, Reading, LineNumbers
  <2>2. Clock' /\ Steps'
    BY <1>1 DEF Clock, Steps, LineNumbers
  <2>3. SentLines'
    BY <1>1 DEF SentLines, Unbroken, FromStart, UpTo, LineNumbers
  <2> QED BY <2>1, <2>2, <2>3
<1> DEFINE S == delivered \cup Wanted
<1>4. CASE since = NoTime
  <2>1. delivered = {} /\ polled = "Absent"
    BY <1>1, <1>4 DEF Steps
  <2>2. tail = NoTail => Wanted = LineNumbers
    BY <1>4 DEF Wanted
  <2>3. tail # NoTail => Wanted = {i \in LineNumbers : i > Len(lines) - tail}
    BY <1>4 DEF Wanted
  <2>4. tail # NoTail => tail \in Nat
    BY DEF LogTypeOK
  <2>5. \A i \in Wanted : \A j \in LineNumbers : i <= j => j \in Wanted
    BY <2>2, <2>3, <2>4, LinesTyped
  <2>6. Unbroken(S)
    BY <2>1, <2>5, <1>2, LinesTyped DEF Unbroken
  <2>7. UpTo(S, fetchedAt)
    BY <2>1, <2>2, <2>5 DEF UpTo
  <2>8. tail = NoTail =>
          \A n \in Nat : FromStart(delivered \cup {i \in Wanted : i <= n})
    BY <2>1, <2>2, LinesTyped DEF FromStart
  <2>9. CopiedLines'
    BY <1>1, <2>1, <2>6, <2>7, <2>8
       DEF CopiedLines, Unbroken, UpTo, FromStart, LineNumbers, Terminal
  <2> QED BY <1>3, <2>9
<1>5. CASE since # NoTime
  <2> DEFINE t == Truncated(since)
  <2>1. since \in Nat /\ t \in Int /\ t <= since
    BY <1>5, LinesTyped, Truncation
  <2>2. \A j \in LineNumbers : j \in Wanted <=> lines[j] >= t
    BY <1>5 DEF Wanted
  <2>3. \A i \in delivered : \A j \in LineNumbers :
          i <= j => j \in S
    BY <1>1, <1>5, <2>1, <2>2, LinesTyped DEF SentLines, UpTo
  <2>4. \A i \in Wanted : \A j \in LineNumbers : i <= j => j \in Wanted
    BY <1>2, <2>1, <2>2, LinesTyped DEF Clock
  <2>5. \A i \in S : \A j \in LineNumbers : i <= j => j \in S
    BY <2>3, <2>4
  <2>6. tail = NoTail => \A j \in LineNumbers : j \in S
    BY <1>1, <1>5, <2>1, <2>2, LinesTyped DEF SentLines, UpTo
  <2>7. S \subseteq LineNumbers
    BY <1>2 DEF LogTypeOK
  <2>8. Unbroken(S)
    BY <2>5, <2>7, LinesTyped DEF Unbroken
  <2>9. UpTo(S, fetchedAt)
    BY <2>5, <2>6 DEF UpTo
  <2>10. ASSUME tail = NoTail, NEW n \in Nat,
                NEW k \in delivered \cup {i \in Wanted : i <= n},
                NEW j \in LineNumbers, j < k
         PROVE  j \in delivered \cup {i \in Wanted : i <= n}
    <3>1. j \in Nat /\ k \in Nat
      BY <2>7, <2>10, LinesTyped
    <3>2. CASE k \in delivered
      BY <2>10, <3>2 DEF SentLines, FromStart
    <3>3. CASE k \notin delivered
      BY <2>6, <2>10, <3>1, <3>3
    <3> QED BY <3>2, <3>3
  <2>11. CopiedLines'
    BY <1>1, <2>6, <2>7, <2>8, <2>9, <2>10
       DEF CopiedLines, Unbroken, UpTo, FromStart, LineNumbers
  <2> QED BY <1>3, <2>11
<1> QED BY <1>4, <1>5

LEMMA CopyStep ==
  ASSUME LogInv, Copied
  PROVE  LogInv'
<1> USE LogAssumption DEF LogInv
<1>1. /\ pc = "copy" /\ delivered' = delivered \cup batch
      /\ since' = fetchedAt /\ batch' = {}
      /\ pc' = IF Complete THEN "complete" ELSE "wait"
      /\ UNCHANGED <<now, phase, lines, follow, tail, fetchedAt, polled>>
  BY DEF Copied, Cursor, podVars, requestVars
<1>2. delivered \cup batch \subseteq LineNumbers /\ fetchedAt \in Nat
  BY DEF LogTypeOK
<1>3. LogTypeOK'
  BY <1>1, <1>2 DEF LogTypeOK, Reading, Ended, LineNumbers
<1>4. Clock' /\ Steps'
  BY <1>1, <1>2 DEF Clock, Steps, LineNumbers
<1>5. /\ Unbroken(delivered \cup batch)
      /\ UpTo(delivered \cup batch, fetchedAt)
  BY <1>1 DEF CopiedLines
<1>6. tail = NoTail => FromStart(delivered \cup batch)
  <2>1. delivered \cup {i \in batch : i <= Len(lines)} = delivered \cup batch
    BY <1>2, LinesTyped DEF LineNumbers
  <2>2. Len(lines) \in Nat
    BY LinesTyped
  <2>3. tail = NoTail =>
          FromStart(delivered \cup {i \in batch : i <= Len(lines)})
    BY <1>1, <2>2 DEF CopiedLines
  <2> QED BY <2>1, <2>3
<1>7. pc' = "complete" /\ follow /\ tail = NoTail =>
        polled \in Terminal /\ delivered \cup batch = LineNumbers
  BY <1>1 DEF CopiedLines, Complete
<1>8. SentLines'
  BY <1>1, <1>5, <1>6, <1>7
     DEF SentLines, Unbroken, UpTo, FromStart, LineNumbers
<1>9. CopiedLines'
  BY <1>1 DEF CopiedLines
<1> QED BY <1>3, <1>4, <1>8, <1>9

LEMMA FailStep ==
  ASSUME LogInv, ReadFails
  PROVE  LogInv'
<1> USE DEF LogInv
<1>1. PICK n \in 0..Len(lines) :
        delivered' = delivered \cup {i \in batch : i <= n}
  BY DEF ReadFails
<1>2. /\ pc \in {"locate", "fetch", "copy", "getPod"} /\ pc' = "error"
      /\ batch' = {}
      /\ UNCHANGED <<now, phase, lines, follow, tail, since, fetchedAt, polled>>
  BY DEF ReadFails, podVars, requestVars
<1>3. LogTypeOK'
  BY <1>1, <1>2 DEF LogTypeOK, Ended, LineNumbers
<1>4. Clock' /\ Steps'
  BY <1>2 DEF Clock, Steps, LineNumbers
<1>5. tail = NoTail => FromStart(delivered')
  <2>1. CASE pc = "copy"
    BY <1>1, <2>1, LinesTyped DEF CopiedLines
  <2>2. CASE pc # "copy"
    BY <1>1, <2>2 DEF Steps, SentLines
  <2> QED BY <2>1, <2>2
<1>6. SentLines' /\ CopiedLines'
  BY <1>2, <1>5 DEF SentLines, CopiedLines, FromStart, LineNumbers
<1> QED BY <1>3, <1>4, <1>6

\* The container appends: the new line is behind all others and not older
\* than the cursor.
LEMMA WriteStep ==
  ASSUME LogInv, Write, UNCHANGED readerVars
  PROVE  LogInv'
<1> USE LogAssumption DEF LogInv
<1> DEFINE N == Len(lines) + 1
<1>1. /\ phase = "Running" /\ lines' = Append(lines, now)
      /\ UNCHANGED <<now, phase, pc, follow, tail, since, fetchedAt, polled,
                     batch, delivered>>
  BY DEF Write, readerVars
<1>2. /\ Len(lines) \in Nat /\ now \in Nat
      /\ lines \in Seq(Nat) /\ fetchedAt \in Nat
      /\ delivered \subseteq LineNumbers /\ batch \subseteq LineNumbers
  BY LinesTyped DEF LogTypeOK
<1>3. /\ lines' \in Seq(Nat) /\ Len(lines') = N
      /\ lines'[N] = now /\ \A i \in LineNumbers : lines'[i] = lines[i]
  BY <1>1, <1>2 DEF LineNumbers
<1>4. LineNumbers' = LineNumbers \cup {N} /\ \A i \in LineNumbers : i < N
  BY <1>2, <1>3 DEF LineNumbers
<1>5. LogTypeOK'
  BY <1>1, <1>2, <1>3, <1>4 DEF LogTypeOK
<1>6. Clock'
  <2>1. \A i \in LineNumbers' : lines'[i] \in Nat /\ lines'[i] <= now
    BY <1>2, <1>3, <1>4, LinesTyped DEF Clock
  <2>2. \A i, j \in LineNumbers' : i <= j => lines'[i] <= lines'[j]
    <3> SUFFICES ASSUME NEW i \in LineNumbers', NEW j \in LineNumbers', i <= j
                 PROVE  lines'[i] <= lines'[j]
      OBVIOUS
    <3>1. CASE j = N
      BY <1>3, <2>1, <3>1
    <3>2. CASE j # N
      <4>1. i \in LineNumbers /\ j \in LineNumbers
        BY <1>2, <1>4, <3>2, LinesTyped
      <4>2. lines[i] <= lines[j]
        BY <4>1 DEF Clock
      <4> QED BY <1>3, <4>1, <4>2
    <3> QED BY <3>1, <3>2
  <2> QED BY <1>1, <2>1, <2>2 DEF Clock
<1>7. Steps'
  BY <1>1 DEF Steps
<1>8. ~(lines'[N] < fetchedAt) /\ (since # NoTime => ~(lines'[N] < since))
  BY <1>2, <1>3, LinesTyped DEF Clock
<1>9. polled \notin Terminal
  BY <1>1 DEF Steps, Terminal
<1>10. SentLines'
  <2>1. Unbroken(delivered) => Unbroken(delivered)'
    BY <1>1, <1>2, <1>4, LinesTyped DEF Unbroken
  <2>2. FromStart(delivered) => FromStart(delivered)'
    BY <1>1, <1>2, <1>4, LinesTyped DEF FromStart
  <2>3. since # NoTime /\ UpTo(delivered, since) => UpTo(delivered, since)'
    BY <1>1, <1>2, <1>3, <1>4, <1>8 DEF UpTo
  <2> QED BY <1>1, <1>9, <2>1, <2>2, <2>3 DEF SentLines
<1>11. CopiedLines'
  <2> SUFFICES ASSUME pc = "copy"
               PROVE  CopiedLines'
    BY <1>1 DEF CopiedLines
  <2>1. Unbroken(delivered \cup batch)'
    BY <1>1, <1>2, <1>4, LinesTyped DEF Unbroken, CopiedLines
  <2>2. UpTo(delivered \cup batch, fetchedAt)'
    BY <1>1, <1>2, <1>3, <1>4, <1>8 DEF UpTo, CopiedLines
  <2>3. ASSUME tail = NoTail, NEW n \in Nat
        PROVE  FromStart(delivered \cup {i \in batch : i <= n})'
    <3>1. FromStart(delivered \cup {i \in batch : i <= n})
      BY <2>3 DEF CopiedLines
    <3> QED BY <1>1, <1>2, <1>4, <3>1, LinesTyped DEF FromStart
  <2> QED BY <1>1, <1>9, <2>1, <2>2, <2>3 DEF CopiedLines
<1> QED BY <1>5, <1>6, <1>7, <1>10, <1>11

LEMMA PodStep ==
  ASSUME LogInv, Tick \/ PodMoves \/ UNCHANGED podVars, UNCHANGED readerVars
  PROVE  LogInv'
<1> USE DEF LogInv, podVars
<1>1. UNCHANGED <<lines, pc, follow, tail, since, fetchedAt, polled, batch,
                  delivered>>
  BY DEF Tick, PodMoves, readerVars
<1>2. now \in Nat /\ now' \in {now, now + 1}
  BY DEF Tick, PodMoves, LogTypeOK
<1>3. LogTypeOK'
  BY <1>1, <1>2 DEF Tick, PodMoves, LogTypeOK, LineNumbers, PodPhase, Terminal
<1>4. Clock'
  <2>1. fetchedAt \in Nat /\ \A i \in LineNumbers : lines[i] \in Nat
    BY LinesTyped DEF LogTypeOK
  <2> QED BY <1>1, <1>2, <2>1 DEF Clock, LineNumbers
<1>5. phase \in Terminal \cup {"Gone"} => phase' \in Terminal \cup {"Gone"}
  BY DEF Tick, PodMoves, Terminal
<1>6. Steps'
  BY <1>1, <1>5 DEF Steps
<1>7. SentLines' /\ CopiedLines'
  BY <1>1 DEF SentLines, CopiedLines, Unbroken, FromStart, UpTo, LineNumbers
<1> QED BY <1>3, <1>4, <1>6, <1>7

LEMMA LogInvariant == LogSpec => []LogInv
<1>1. LogInit => LogInv
  <2> SUFFICES ASSUME LogInit PROVE LogInv
    OBVIOUS
  <2> USE LogAssumption DEF LogInit
  <2>1. Len(lines) = 0 /\ LineNumbers = {} /\ lines \in Seq(Nat)
    BY DEF LineNumbers
  <2>2. LogTypeOK
    BY <2>1 DEF LogTypeOK, PodPhase
  <2>3. Clock /\ Steps
    BY <2>1 DEF Clock, Steps, Terminal
  <2>4. SentLines /\ CopiedLines
    BY DEF SentLines, CopiedLines, Unbroken, FromStart, UpTo
  <2> QED BY <2>2, <2>3, <2>4 DEF LogInv
<1>2. LogInv /\ [LogNext]_logVars => LogInv'
  BY PassingStep, RequestStep, FetchStep, CopyStep, FailStep, WriteStep,
     PodStep DEF LogNext, PodNext, Reader, logVars
<1> QED BY <1>1, <1>2, PTL DEF LogSpec

---------------------------------------------------------------------------
(* Every variable stays well typed; in particular the client is only ever  *)
(* sent lines of the log.                                                  *)
THEOREM LogTypeCorrect == LogSpec => []LogTypeOK
<1>1. LogInv => LogTypeOK
  BY DEF LogInv
<1> QED BY <1>1, LogInvariant, PTL

(* The cursor never skips a line, however long each call takes and         *)
(* whatever is written meanwhile.                                          *)
THEOREM NothingSkipped == LogSpec => []NoGap
<1>1. LogInv => NoGap
  <2>1. LogInv /\ tail = NoTail => NoGap
    BY DEF LogInv, SentLines, FromStart, NoGap
  <2>2. LogInv /\ pc # "error" => NoGap
    BY DEF LogInv, SentLines, Unbroken, NoGap
  <2> QED BY <2>1, <2>2 DEF NoGap
<1> QED BY <1>1, LogInvariant, PTL

(* A follower that ended because the Pod did was sent the whole log, what  *)
(* was written just before the end included.                               *)
THEOREM FollowerGetsAll == LogSpec => []EndIsComplete
<1>1. LogInv => EndIsComplete
  BY DEF LogInv, SentLines, EndIsComplete
<1> QED BY <1>1, LogInvariant, PTL

(* What a call sends again is less than a second older than its cursor,    *)
(* whatever the clock's granularity.                                       *)
THEOREM LittleIsResent == LogSpec => []ResentIsRecent
<1>1. LogInv => ResentIsRecent
  <2> SUFFICES ASSUME LogInv, pc \in {"wait", "getPod", "stamp"},
                      since # NoTime, NEW i \in delivered \cap Wanted
               PROVE  lines[i] > fetchedAt - Second
    BY DEF ResentIsRecent
  <2>1. since = fetchedAt /\ since \in Nat
    BY LinesTyped DEF LogInv, Steps
  <2>2. i \in LineNumbers /\ lines[i] >= Truncated(since)
    BY DEF Wanted
  <2>3. lines[i] \in Nat
    BY <2>2, LinesTyped DEF LogInv
  <2> QED BY <2>1, <2>2, <2>3, Truncation, LogAssumption
<1> QED BY <1>1, LogInvariant, PTL
============================================================================
