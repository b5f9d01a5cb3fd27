----------------------------- MODULE ByteProofs -----------------------------
(***************************************************************************)
(* Machine-checked proofs about the components that move bytes, for every  *)
(* way of cutting their streams into reads and writes: LimitReader, which  *)
(* counts them, LogAdaptor, which makes lines of them, and FrameCodec,     *)
(* which makes frames of them.                                             *)
(***************************************************************************)
EXTENDS LimitReader, LogAdaptor, FrameCodec, TLAPS, WellFoundedInduction

-----------------------------------------------------------------------------
(* Numbers and sequences.                                                  *)

\* A set of natural numbers has a least element.
LEMMA LeastNumber ==
    ASSUME NEW T, T \subseteq Nat, T # {}
    PROVE  \E x \in T : \A y \in T : x <= y
  <1> DEFINE R == {ss \in Nat \X Nat : ss[1] < ss[2]}
  <1>1. IsWellFoundedOn(R, Nat)
    BY NatLessThanWellFounded DEF OpToRel
  <1> HIDE DEF R
  <1>2. PICK x \in T : \A y \in T : ~(<<y, x>> \in R)
    BY <1>1, WFMin
  <1>3. ASSUME NEW y \in T PROVE x <= y
    <2>1. ~(y < x)
      BY <1>2, <1>3 DEF R
    <2> QED BY <2>1
  <1> QED BY <1>3

\* Induction up to m, over the set of numbers that have the property.
LEMMA SetInduction ==
    ASSUME NEW m \in Nat, NEW S, 0 \in S,
           \A i \in 0..(m - 1) : i \in S => i + 1 \in S
    PROVE  \A i \in 0..m : i \in S
  <1> DEFINE T == {i \in 0..m : i \notin S}
  <1>1. T \subseteq Nat
    OBVIOUS
  <1>2. CASE T # {}
    <2>1. PICK x \in T : \A y \in T : x <= y
      BY <1>1, <1>2, LeastNumber
    <2>2. x # 0 /\ x \in 0..m /\ x \notin S
      BY <2>1
    <2>3. x - 1 \in 0..(m - 1) /\ ~(x <= x - 1) /\ x - 1 \in 0..m
      BY <2>2
    <2>4. x - 1 \in S
      BY <2>1, <2>3
    <2>5. (x - 1) + 1 \in S
      BY <2>3, <2>4
    <2> QED BY <2>2, <2>5
  <1> QED BY <1>2

\* An element of a sequence over S is in S.
LEMMA ElementFacts ==
    ASSUME NEW S, NEW s \in Seq(S), NEW i \in 1..Len(s)
    PROVE  s[i] \in S
  OBVIOUS

\* Two sequences with the same elements are equal.
LEMMA SameSeq ==
    ASSUME NEW S, NEW s \in Seq(S), NEW t \in Seq(S), Len(s) = Len(t),
           \A i \in 1..Len(t) : s[i] = t[i]
    PROVE  t = s
  OBVIOUS

\* The elements of a part of a sequence, the empty part included.
LEMMA PartFacts ==
    ASSUME NEW S, NEW s \in Seq(S), NEW a \in Nat, NEW b \in Nat,
           1 <= a, a <= b + 1, b <= Len(s)
    PROVE  /\ SubSeq(s, a, b) \in Seq(S) /\ Len(SubSeq(s, a, b)) = b - a + 1
           /\ \A i \in 1..(b - a + 1) : SubSeq(s, a, b)[i] = s[a + i - 1]
  <1>1. CASE a = b + 1
    BY <1>1
  <1>2. CASE a <= b
    BY <1>2
  <1> QED BY <1>1, <1>2

\* ... of the n elements behind the first a.
LEMMA NextFacts ==
    ASSUME NEW S, NEW s \in Seq(S), NEW a \in Nat, NEW n \in Nat, a + n <= Len(s)
    PROVE  /\ SubSeq(s, a + 1, a + n) \in Seq(S) /\ Len(SubSeq(s, a + 1, a + n)) = n
           /\ \A i \in 1..n : SubSeq(s, a + 1, a + n)[i] = s[a + i]
  <1> DEFINE b == a + 1
             c == a + n
  <1>1. /\ b \in Nat /\ c \in Nat /\ 1 <= b /\ b <= c + 1 /\ c <= Len(s)
        /\ c - b + 1 = n /\ \A i \in 1..n : b + i - 1 = a + i
    OBVIOUS
  <1> HIDE DEF b, c
  <1>2. /\ SubSeq(s, b, c) \in Seq(S) /\ Len(SubSeq(s, b, c)) = c - b + 1
        /\ \A i \in 1..(c - b + 1) : SubSeq(s, b, c)[i] = s[b + i - 1]
    BY <1>1, PartFacts
  <1>3. /\ SubSeq(s, b, c) \in Seq(S) /\ Len(SubSeq(s, b, c)) = n
        /\ \A i \in 1..n : SubSeq(s, b, c)[i] = s[a + i]
    BY <1>1, <1>2
  <1> QED BY <1>3 DEF b, c

\* ... of two sequences one behind the other.
LEMMA BehindFacts ==
    ASSUME NEW S, NEW s \in Seq(S), NEW t \in Seq(S)
    PROVE  /\ s \o t \in Seq(S) /\ Len(s \o t) = Len(s) + Len(t)
           /\ \A i \in 1..Len(s) : (s \o t)[i] = s[i]
           /\ \A i \in 1..Len(t) : (s \o t)[Len(s) + i] = t[i]
  OBVIOUS

\* ... and of a sequence with an element behind it.
LEMMA AppendFacts ==
    ASSUME NEW S, NEW s \in Seq(S), NEW e \in S
    PROVE  /\ Append(s, e) \in Seq(S) /\ Len(Append(s, e)) = Len(s) + 1
           /\ \A i \in 1..Len(s) : Append(s, e)[i] = s[i]
           /\ Append(s, e)[Len(s) + 1] = e
  OBVIOUS

-----------------------------------------------------------------------------
(* LimitReader: the copy of a request body.                                *)

\* What the reader has handed out and what the body still holds are the body.
Conserved == left + copied = size

\* remain counts down from limit + 1; for the largest int64 that sum wraps
\* around and nothing is ever read.
Counted ==
    Limited =>
        IF limit < MaxInt
        THEN remain = limit + 1 - copied /\ remain >= 0
        ELSE remain <= 0 /\ copied = 0

\* How the copy ended says where it stood.
Ended ==
    /\ state = "copied" => left = 0
    /\ state = "tooLarge" => Limited /\ remain <= 0

LimitInv == LimTypeOK /\ Conserved /\ Counted /\ Ended

\* Initially nothing is copied; remain is limit + 1 as an int64.
LEMMA LimitInit == LimInit => LimitInv
  <1> SUFFICES ASSUME LimInit PROVE LimitInv
    OBVIOUS
  <1> USE LimitConstants DEF LimInit
  <1>1. limit \in -(MaxInt + 1)..MaxInt /\ size \in 0..MaxInt /\ MaxInt \in Nat
    OBVIOUS
  <1>2. remain = IF limit < MaxInt THEN limit + 1 ELSE -(MaxInt + 1)
    BY <1>1 DEF Wrap
  <1>3. remain \in -(MaxInt + 1)..MaxInt
    BY <1>1, <1>2
  <1>4. LimTypeOK
    <2>1. left \in 0..MaxInt /\ copied \in 0..MaxInt
      BY <1>1
    <2>2. /\ limit \in Limits /\ size \in Sizes /\ max = limit
          /\ state \in {"copying", "copied", "tooLarge", "failed"}
          /\ closed \in BOOLEAN
      OBVIOUS
    <2> QED BY <1>3, <2>1, <2>2 DEF LimTypeOK
  <1>5. Conserved /\ Counted /\ Ended
    BY <1>1, <1>2 DEF Conserved, Counted, Ended, Limited
  <1> QED BY <1>4, <1>5 DEF LimitInv

\* One Read moves bytes from the body to the buffer and off the count.
LEMMA LimReadStep ==
    ASSUME LimitInv, NEW asked \in BufSizes, NEW n \in 0..asked, NEW eof \in BOOLEAN,
           Read(asked, n, eof)
    PROVE  LimitInv'
  <1> USE LimitConstants DEF LimitInv, LimTypeOK, Limited, Read
  <1>1. /\ n \in Nat /\ n <= left
        /\ Limited => n <= remain
    BY DEF Minimum
  <1>2. /\ left' \in 0..MaxInt /\ copied' \in 0..MaxInt
        /\ left' + copied' = size
    BY <1>1 DEF Conserved
  <1>3. Counted' /\ remain' \in -(MaxInt + 1)..MaxInt
    BY <1>1 DEF Counted
  <1>4. Ended'
    BY <1>1 DEF Ended
  <1> QED BY <1>2, <1>3, <1>4 DEF Conserved

\* Every step of the copy keeps the invariant.
LEMMA LimitStep == LimitInv /\ [LimNext]_limVars => LimitInv'
  <1> SUFFICES ASSUME LimitInv, [LimNext]_limVars PROVE LimitInv'
    OBVIOUS
  <1> USE DEF LimitInv, LimTypeOK, Conserved, Counted, Ended, Limited
  <1>1. CASE ReadExceeded
    BY <1>1 DEF ReadExceeded
  <1>2. ASSUME NEW asked \in BufSizes, NEW n \in 0..asked, NEW eof \in BOOLEAN,
               Read(asked, n, eof)
        PROVE  LimitInv'
    BY <1>2, LimReadStep
  <1>3. CASE ReadFails
    BY <1>3 DEF ReadFails
  <1>4. CASE CloseBody
    BY <1>4 DEF CloseBody
  <1>5. CASE LimDone \/ UNCHANGED limVars
    BY <1>5 DEF LimDone, limVars
  <1> QED BY <1>1, <1>2, <1>3, <1>4, <1>5 DEF LimNext

\* The invariant gives the limit: remain <= 0 means that limit + 1 bytes
\* have been read, and the end of the body that all of them have.
LEMMA LimitInvHolds == LimitInv => LimitHolds
  BY LimitConstants
  DEF LimitInv, LimitHolds, BufferBounded, NoTruncation, LimTypeOK, Conserved,
      Counted, Ended, Limited

\* ReadRequest and ReadContent buffer at most one byte beyond the limit, refuse
\* no body within it, and never take a body they cut short for a whole one.
THEOREM LimitIsKept == LimSpec => []LimitHolds
  BY LimitInit, LimitStep, LimitInvHolds, PTL DEF LimSpec

\* A limit of the largest int64: NewLimitReader's limit + 1 wraps around, and
\* every body, the empty one too, is refused unread unless its connection fails.
RefusesAll == (Limited /\ limit = MaxInt) => copied = 0 /\ state # "copied"

\* Reading with a limit of the largest int64 never succeeds.
THEOREM LargestLimitRefusesAll == LimSpec => []RefusesAll
  <1>1. LimInit => RefusesAll
    BY DEF LimInit, RefusesAll
  <1>2. LimitInv /\ LimitInv' /\ RefusesAll /\ [LimNext]_limVars => RefusesAll'
    <2> SUFFICES ASSUME LimitInv, LimitInv', RefusesAll, [LimNext]_limVars PROVE RefusesAll'
      OBVIOUS
    <2> USE LimitConstants DEF LimitInv, LimTypeOK, RefusesAll, Counted, Limited
    <2>1. CASE ReadExceeded \/ ReadFails \/ CloseBody
      BY <2>1 DEF ReadExceeded, ReadFails, CloseBody
    <2>2. ASSUME NEW asked, NEW n, NEW eof, Read(asked, n, eof) PROVE RefusesAll'
      BY <2>2 DEF Read
    <2>3. CASE LimDone \/ UNCHANGED limVars
      BY <2>3 DEF LimDone, limVars
    <2> QED BY <2>1, <2>2, <2>3 DEF LimNext
  <1> QED BY <1>1, <1>2, LimitInit, LimitStep, PTL DEF LimSpec

-----------------------------------------------------------------------------
(* LogAdaptor: the lines of what the server logs.                          *)

\* A message or a line, byte for byte in a sequence.
Covers(s, p) ==
    /\ p.from >= 1 /\ EndOf(p) <= Len(s) + 1
    /\ \A k \in 1..Len(p.text) : s[p.from + k - 1] = p.text[k]

\* One writer at a time is served, and what was taken of its message is the end of
\* what was taken; when closing ended a Write that is cut.
SendOK ==
    /\ \A w \in Writers : wpc[w] # "idle" => msg[w] \in Messages
    /\ \A v, w \in Writers : wpc[v] = "send" /\ wpc[w] = "send" => v = w
    /\ \A w \in Writers : wpc[w] = "send" => sent < Len(msg[w])
    /\ (\A w \in Writers : wpc[w] # "send") => sent = 0
    /\ pipe = "open" \/ sent > 0 => cut = << >>

RestOK ==
    LET at == MessageAt(Len(accepted))
    IN  /\ sent = 0 => /\ Len(taken) = at + Len(cut) - 1
                       /\ \A k \in 1..Len(cut) : taken[at + k - 1] = cut[k]
        /\ sent > 0 => Len(taken) = at + sent - 1
        /\ \A w \in Writers : wpc[w] = "send" =>
              \A k \in 1..sent : taken[at + k - 1] = msg[w][k]

AcceptedOK ==
    \A i \in 1..Len(accepted) : /\ Covers(taken, accepted[i])
                                /\ accepted[i].from = MessageAt(i - 1)

LinesOK ==
    \A i \in 1..Len(lines) :
        /\ Covers(taken, lines[i]) /\ lines[i].from = LineAt(i - 1)
        /\ \/ EndOf(lines[i]) <= Len(taken) /\ taken[EndOf(lines[i])] = NL
           \/ /\ i = Len(lines) /\ EndOf(lines[i]) = Len(taken) + 1
              /\ lines[i].text # << >> /\ scan \in {"eof", "exited"}

\* The buffer is what was taken and not logged, until the scanner gives up.
BufOK ==
    /\ Len(buf) <= Len(taken)
    /\ \A k \in 1..Len(buf) : buf[k] = taken[Len(taken) - Len(buf) + k]
    /\ ~gaveUp => \/ LineAt(Len(lines)) = Len(taken) - Len(buf) + 1
                  \/ /\ buf = << >> /\ LineAt(Len(lines)) = Len(taken) + 2
                     /\ scan \in {"eof", "exited"}
    /\ gaveUp => scan \in {"tooLong", "exited"}
    /\ scan \in {"tooLong", "exited"} => buf = << >>

\* Who may have closed the pipe, and when.
PipeOK ==
    /\ scan = "tooLong" => gaveUp
    /\ scan \in {"eof", "exited"} => pipe # "open"
    /\ pipe # "open" => closer # "no" \/ gaveUp \/ scan = "exited"
    /\ scan = "exited" => closer # "no" \/ gaveUp
    /\ failed => pipe # "open"
    /\ closer = "returned" => scan = "exited"

LogInv == LogTypeOK /\ SendOK /\ RestOK /\ AcceptedOK /\ LinesOK /\ BufOK /\ PipeOK

\* Nothing was written.
LEMMA LogInitially == LogInit => LogInv
  <1> SUFFICES ASSUME LogInit PROVE LogInv
    OBVIOUS
  <1> USE LogConstants DEF LogInit
  <1>1. LogTypeOK
    <2>1. /\ wpc \in [Writers -> {"idle", "lock", "send"}]
          /\ msg \in [Writers -> Messages \union {<< >>}]
      OBVIOUS
    <2>2. MaxToken \in Nat /\ MaxWrites \in Nat
      OBVIOUS
    <2>3. sent \in Nat /\ calls \in 0..MaxWrites
      BY <2>2
    <2>4. buf \in Seq(Bytes) /\ Len(buf) = 0 /\ taken \in Seq(Bytes) /\ cut \in Seq(Bytes)
      OBVIOUS
    <2>5. Len(buf) <= MaxToken
      BY <2>2, <2>4
    <2>6. /\ accepted \in Seq([from : Nat, text : Messages])
          /\ lines \in Seq([from : Nat, text : Seq(Bytes \ {NL})])
      OBVIOUS
    <2>7. /\ pipe \in {"open", "writer", "reader"} /\ closer \in {"no", "wait", "returned"}
          /\ scan \in {"scan", "eof", "tooLong", "exited"}
          /\ failed \in BOOLEAN /\ gaveUp \in BOOLEAN
      OBVIOUS
    <2> QED BY <2>1, <2>3, <2>4, <2>5, <2>6, <2>7 DEF LogTypeOK
  <1>2. SendOK /\ PipeOK
    BY DEF SendOK, PipeOK
  <1>3. RestOK
    BY DEF RestOK, MessageAt
  <1>4. AcceptedOK /\ LinesOK
    BY DEF AcceptedOK, LinesOK
  <1>5. BufOK
    BY DEF BufOK, LineAt
  <1> QED BY <1>1, <1>2, <1>3, <1>4, <1>5 DEF LogInv

\* The newline the scanner looks for is the first in its buffer.
LEMMA FirstNLFacts ==
    ASSUME LogTypeOK
    PROVE  \/ FirstNL = 0 /\ \A i \in 1..Len(buf) : buf[i] # NL
           \/ /\ FirstNL \in 1..Len(buf) /\ buf[FirstNL] = NL
              /\ \A i \in 1..(FirstNL - 1) : buf[i] # NL
  <1> DEFINE I == {i \in 1..Len(buf) : buf[i] = NL}
  <1>0. Len(buf) \in Nat
    BY DEF LogTypeOK
  <1>1. FirstNL = IF I # {} THEN Min(I) ELSE 0
    BY DEF FirstNL, SelectInSeq
  <1>2. CASE I = {}
    BY <1>1, <1>2
  <1>3. CASE I # {}
    <2>1. I \subseteq Nat
      OBVIOUS
    <2>2. \E x \in I : \A y \in I : x <= y
      BY <1>3, <2>1, LeastNumber
    <2>3. Min(I) \in I /\ \A y \in I : Min(I) <= y
      <3> HIDE DEF I
      <3> QED BY <2>2 DEF Min
    <2>4. FirstNL = Min(I)
      BY <1>1, <1>3
    <2>5. FirstNL \in I /\ \A y \in I : FirstNL <= y
      BY <2>3, <2>4
    <2>6. FirstNL \in 1..Len(buf) /\ buf[FirstNL] = NL
      BY <2>5
    <2>7. ASSUME NEW i \in 1..(FirstNL - 1) PROVE buf[i] # NL
      <3>1. i \in 1..Len(buf) /\ ~(FirstNL <= i)
        BY <1>0, <2>6
      <3> QED BY <2>5, <3>1
    <2> QED BY <2>6, <2>7
  <1> QED BY <1>2, <1>3

\* What was taken, logged and accepted stays.
LEMMA LogKept ==
    ASSUME LogInv, UNCHANGED <<taken, accepted, lines, buf, gaveUp, scan>>
    PROVE  AcceptedOK' /\ LinesOK' /\ BufOK'
  <1>1. AcceptedOK'
    BY DEF LogInv, AcceptedOK, Covers, EndOf, MessageAt
  <1>2. LinesOK'
    BY DEF LogInv, LinesOK, Covers, EndOf, LineAt
  <1>3. BufOK'
    BY DEF LogInv, BufOK, LineAt, EndOf
  <1> QED BY <1>1, <1>2, <1>3

\* Numbers of bytes.
LEMMA LogNumbers ==
    ASSUME LogTypeOK
    PROVE  /\ Len(taken) \in Nat /\ Len(buf) \in Nat /\ Len(cut) \in Nat /\ sent \in Nat
           /\ Len(accepted) \in Nat /\ Len(lines) \in Nat /\ MaxToken \in Nat
           /\ MessageAt(Len(accepted)) \in Nat /\ LineAt(Len(lines)) \in Nat
           /\ \A i \in 1..Len(lines) : /\ lines[i].from \in Nat /\ Len(lines[i].text) \in Nat
                                       /\ lines[i].text \in Seq(Bytes \ {NL})
           /\ \A i \in 1..Len(accepted) : /\ accepted[i].from \in Nat
                                          /\ Len(accepted[i].text) \in Nat
                                          /\ accepted[i].text \in Messages
           /\ \A m \in Messages : m \in Seq(Bytes) /\ Len(m) \in Nat /\ Len(m) > 0
  <1> USE LogConstants
  <1>1. /\ Len(taken) \in Nat /\ Len(buf) \in Nat /\ Len(cut) \in Nat /\ sent \in Nat
        /\ Len(accepted) \in Nat /\ Len(lines) \in Nat /\ MaxToken \in Nat
    BY DEF LogTypeOK
  <1>2. ASSUME NEW m \in Messages PROVE m \in Seq(Bytes) /\ Len(m) \in Nat /\ Len(m) > 0
    <2>1. m \in Seq(Bytes) /\ m # << >>
      BY <1>2
    <2> QED BY ONLY <2>1
  <1>3. ASSUME NEW i \in 1..Len(lines)
        PROVE  /\ lines[i].from \in Nat /\ Len(lines[i].text) \in Nat
               /\ lines[i].text \in Seq(Bytes \ {NL})
    <2>1. lines \in Seq([from : Nat, text : Seq(Bytes \ {NL})])
      BY DEF LogTypeOK
    <2>2. lines[i] \in [from : Nat, text : Seq(Bytes \ {NL})]
      BY <2>1, ElementFacts
    <2> QED BY ONLY <2>2
  <1>4. ASSUME NEW i \in 1..Len(accepted)
        PROVE  /\ accepted[i].from \in Nat /\ Len(accepted[i].text) \in Nat
               /\ accepted[i].text \in Messages
    <2>1. accepted \in Seq([from : Nat, text : Messages])
      BY DEF LogTypeOK
    <2>2. accepted[i] \in [from : Nat, text : Messages]
      BY <2>1, ElementFacts
    <2>3. accepted[i].from \in Nat /\ accepted[i].text \in Messages
      BY ONLY <2>2
    <2> QED BY <1>2, <2>3
  <1>5. MessageAt(Len(accepted)) \in Nat
    BY <1>1, <1>4 DEF MessageAt, EndOf
  <1>6. LineAt(Len(lines)) \in Nat
    BY <1>1, <1>3 DEF LineAt, EndOf
  <1> QED BY <1>1, <1>2, <1>3, <1>4, <1>5, <1>6

\* A goroutine calls Write, has its turn, or finds the pipe closed.
LEMMA LogWriters ==
    ASSUME LogInv, NEW w \in Writers,
           (\E m \in Messages : WriteCall(w, m)) \/ WriteTurn(w) \/ WriteAborted(w)
    PROVE  LogInv'
  <1> USE DEF LogInv
  <1>0. UNCHANGED <<taken, accepted, lines, buf, gaveUp, scan, pipe, closer>>
    BY DEF WriteCall, WriteTurn, WriteAborted
  <1>1. AcceptedOK' /\ LinesOK' /\ BufOK'
    BY <1>0, LogKept
  <1>2. MessageAt(Len(accepted))' = MessageAt(Len(accepted))
    BY <1>0 DEF MessageAt, EndOf
  <1>n. /\ Len(taken) \in Nat /\ Len(cut) \in Nat /\ sent \in Nat
        /\ MessageAt(Len(accepted)) \in Nat
        /\ \A m \in Messages : m \in Seq(Bytes) /\ Len(m) \in Nat /\ Len(m) > 0
    BY LogNumbers
  <1>3. CASE \E m \in Messages : WriteCall(w, m)
    <2>1. PICK m \in Messages : WriteCall(w, m)
      BY <1>3
    <2>2. /\ wpc[w] = "idle" /\ msg' = [msg EXCEPT ![w] = m] /\ UNCHANGED <<sent, cut>>
          /\ \/ pipe = "open" /\ wpc' = [wpc EXCEPT ![w] = "lock"] /\ failed' = failed
             \/ pipe # "open" /\ wpc' = wpc /\ failed' = TRUE
          /\ calls < MaxWrites /\ calls' = calls + 1
      BY <2>1 DEF WriteCall
    <2>3. LogTypeOK'
      <3>1. calls' \in 0..MaxWrites
        BY <2>2, LogConstants DEF LogTypeOK
      <3>2. msg' \in [Writers -> Messages \union {<< >>}]
        BY <2>2 DEF LogTypeOK
      <3>3. wpc' \in [Writers -> {"idle", "lock", "send"}]
        BY <2>2 DEF LogTypeOK
      <3> QED BY <1>0, <2>2, <3>1, <3>2, <3>3 DEF LogTypeOK
    <2>4. \A v \in Writers : /\ wpc'[v] = "send" <=> wpc[v] = "send"
                             /\ wpc[v] = "send" => msg'[v] = msg[v]
                             /\ wpc'[v] # "idle" => msg'[v] \in Messages
      BY <2>2 DEF LogTypeOK, SendOK
    <2>5. SendOK'
      BY <1>0, <2>2, <2>4 DEF SendOK
    <2>6. RestOK'
      BY <1>0, <1>2, <2>2, <2>4 DEF RestOK
    <2>7. PipeOK'
      BY <1>0, <2>2 DEF PipeOK
    <2> QED BY <1>1, <2>3, <2>5, <2>6, <2>7
  <1>4. CASE WriteTurn(w)
    <2>1. /\ wpc[w] = "lock" /\ \A v \in Writers : wpc[v] # "send"
          /\ wpc' = [wpc EXCEPT ![w] = "send"] /\ sent' = 0
          /\ UNCHANGED <<msg, calls, cut, failed>>
      BY <1>4 DEF WriteTurn
    <2>2. sent = 0 /\ msg[w] \in Messages
      BY <2>1 DEF SendOK
    <2>3. LogTypeOK'
      BY <1>0, <2>1 DEF LogTypeOK
    <2>4. \A v \in Writers : wpc'[v] = IF v = w THEN "send" ELSE wpc[v]
      BY <2>1 DEF LogTypeOK
    <2>5. SendOK'
      BY <1>0, <1>n, <2>1, <2>2, <2>4 DEF SendOK
    <2>6. RestOK'
      BY <1>0, <1>2, <1>n, <2>1, <2>2 DEF RestOK
    <2>7. PipeOK'
      BY <1>0, <2>1 DEF PipeOK
    <2> QED BY <1>1, <2>3, <2>5, <2>6, <2>7
  <1>5. CASE WriteAborted(w)
    <2>1. /\ wpc[w] = "send" /\ pipe # "open" /\ wpc' = [wpc EXCEPT ![w] = "idle"]
          /\ failed' = TRUE /\ cut' = cut \o SubSeq(msg[w], 1, sent) /\ sent' = 0
          /\ UNCHANGED <<msg, calls>>
      BY <1>5 DEF WriteAborted
    <2>2. msg[w] \in Seq(Bytes) /\ sent < Len(msg[w]) /\ Len(msg[w]) \in Nat
      BY <1>n, <2>1 DEF SendOK
    <2>3. /\ SubSeq(msg[w], 1, sent) \in Seq(Bytes) /\ Len(SubSeq(msg[w], 1, sent)) = sent
          /\ \A k \in 1..sent : SubSeq(msg[w], 1, sent)[k] = msg[w][k]
      <3>1. /\ SubSeq(msg[w], 1, sent) \in Seq(Bytes)
            /\ Len(SubSeq(msg[w], 1, sent)) = sent - 1 + 1
            /\ \A k \in 1..(sent - 1 + 1) : SubSeq(msg[w], 1, sent)[k] = msg[w][1 + k - 1]
        BY <1>n, <2>2, PartFacts
      <3> QED BY <1>n, <3>1
    <2>4. cut \in Seq(Bytes)
      BY DEF LogTypeOK
    <2>5. /\ cut' \in Seq(Bytes) /\ Len(cut') = Len(cut) + sent
          /\ \A k \in 1..Len(cut) : cut'[k] = cut[k]
          /\ \A k \in 1..sent : cut'[Len(cut) + k] = msg[w][k]
      BY <2>1, <2>3, <2>4, BehindFacts
    <2>6. \A v \in Writers : wpc'[v] = IF v = w THEN "idle" ELSE wpc[v]
      BY <2>1 DEF LogTypeOK
    <2>7. LogTypeOK'
      BY <1>0, <2>1, <2>5 DEF LogTypeOK
    <2>8. SendOK'
      BY <1>0, <1>n, <2>1, <2>6 DEF SendOK
    <2>9. RestOK'
      <3>1. CASE sent = 0
        BY <1>0, <1>2, <1>n, <2>1, <2>5, <3>1 DEF RestOK
      <3>2. CASE sent > 0
        <4>1. cut = << >> /\ Len(cut) = 0
          BY <3>2 DEF SendOK
        <4> QED BY <1>0, <1>2, <1>n, <2>1, <2>5, <3>2, <4>1 DEF RestOK
      <3> QED BY <1>n, <3>1, <3>2
    <2>10. PipeOK'
      BY <1>0, <2>1 DEF PipeOK
    <2> QED BY <1>1, <2>7, <2>8, <2>9, <2>10
  <1> QED BY <1>3, <1>4, <1>5
\* What is found in a sequence is found in a longer one.
LEMMA StillCovers ==
    ASSUME NEW S, NEW s \in Seq(S), NEW t \in Seq(S), Len(s) <= Len(t),
           \A i \in 1..Len(s) : t[i] = s[i],
           NEW p, p.from \in Nat, Len(p.text) \in Nat, Covers(s, p)
    PROVE  Covers(t, p)
  <1>1. Len(s) \in Nat /\ Len(t) \in Nat /\ Len(s) <= Len(t)
    OBVIOUS
  <1>2. p.from >= 1 /\ p.from + Len(p.text) <= Len(s) + 1
    BY DEF Covers, EndOf
  <1>3. ASSUME NEW k \in 1..Len(p.text) PROVE t[p.from + k - 1] = p.text[k]
    <2>1. s[p.from + k - 1] = p.text[k]
      BY DEF Covers
    <2>2. p.from + k - 1 \in 1..Len(s)
      BY <1>1, <1>2
    <2> QED BY <2>1, <2>2
  <1>4. p.from + Len(p.text) <= Len(t) + 1
    BY ONLY <1>1, <1>2, p.from \in Nat, Len(p.text) \in Nat
  <1> QED BY ONLY <1>2, <1>3, <1>4 DEF Covers, EndOf

\* The scanner reads: what it takes goes to the end of its buffer, and a message
\* whose last byte it took is accepted.
LEMMA LogReads ==
    ASSUME LogInv, NEW w \in Writers, NEW n \in 1..MaxToken, ReadPipe(w, n)
    PROVE  LogInv'
  <1> USE DEF LogInv
  <1> DEFINE part == SubSeq(msg[w], sent + 1, sent + n)
             at   == MessageAt(Len(accepted))
  <1>1. /\ scan = "scan" /\ pipe = "open" /\ wpc[w] = "send"
        /\ n <= MaxToken - Len(buf) /\ n <= Len(msg[w]) - sent
        /\ buf' = buf \o part /\ taken' = taken \o part
        /\ UNCHANGED <<msg, pipe, scan, closer, calls, cut, failed, lines, gaveUp>>
    BY DEF ReadPipe
  <1>n. /\ Len(taken) \in Nat /\ Len(buf) \in Nat /\ sent \in Nat /\ MaxToken \in Nat
        /\ Len(accepted) \in Nat /\ at \in Nat /\ n \in Nat /\ n > 0
        /\ Len(lines) \in Nat
        /\ \A m \in Messages : m \in Seq(Bytes) /\ Len(m) \in Nat /\ Len(m) > 0
    BY LogNumbers
  <1>2. /\ msg[w] \in Messages /\ msg[w] \in Seq(Bytes) /\ Len(msg[w]) \in Nat
        /\ sent < Len(msg[w])
    BY <1>1, <1>n DEF SendOK
  <1>3. /\ part \in Seq(Bytes) /\ Len(part) = n
        /\ \A k \in 1..n : part[k] = msg[w][sent + k]
    <2>1. /\ msg[w] \in Seq(Bytes) /\ sent \in Nat /\ n \in Nat
          /\ sent + n <= Len(msg[w])
      BY <1>1, <1>n, <1>2
    <2> QED BY ONLY <2>1, NextFacts
  <1>4. cut = << >> /\ Len(cut) = 0 /\ Len(taken) = at + sent - 1
    <2>1. cut = << >>
      BY <1>1 DEF SendOK
    <2>2. Len(cut) = 0
      BY <2>1
    <2> QED BY <1>n, <2>1, <2>2 DEF RestOK
  <1> HIDE DEF part
  <1>5. taken \in Seq(Bytes) /\ buf \in Seq(Bytes) /\ Len(buf) <= MaxToken
    BY DEF LogTypeOK
  <1>6. /\ taken' \in Seq(Bytes) /\ Len(taken') = Len(taken) + n
        /\ \A i \in 1..Len(taken) : taken'[i] = taken[i]
        /\ \A i \in 1..n : taken'[Len(taken) + i] = msg[w][sent + i]
    <2>0. taken \in Seq(Bytes) /\ part \in Seq(Bytes)
      BY <1>3, <1>5
    <2>1. /\ taken \o part \in Seq(Bytes) /\ Len(taken \o part) = Len(taken) + Len(part)
          /\ \A i \in 1..Len(taken) : (taken \o part)[i] = taken[i]
          /\ \A i \in 1..Len(part) : (taken \o part)[Len(taken) + i] = part[i]
      BY ONLY <2>0, BehindFacts
    <2> QED BY <1>1, <1>3, <2>1
  <1>7. /\ buf' \in Seq(Bytes) /\ Len(buf') = Len(buf) + n
        /\ \A i \in 1..Len(buf) : buf'[i] = buf[i]
        /\ \A i \in 1..n : buf'[Len(buf) + i] = msg[w][sent + i]
    <2>0. buf \in Seq(Bytes) /\ part \in Seq(Bytes)
      BY <1>3, <1>5
    <2>1. /\ buf \o part \in Seq(Bytes) /\ Len(buf \o part) = Len(buf) + Len(part)
          /\ \A i \in 1..Len(buf) : (buf \o part)[i] = buf[i]
          /\ \A i \in 1..Len(part) : (buf \o part)[Len(buf) + i] = part[i]
      BY ONLY <2>0, BehindFacts
    <2> QED BY <1>1, <1>3, <2>1
  <1>9. at >= 1
    <2>1. CASE Len(accepted) = 0
      BY <2>1 DEF MessageAt
    <2>2. CASE Len(accepted) # 0
      <3>1. Len(accepted) \in 1..Len(accepted)
        BY <1>n, <2>2
      <3>2. Covers(taken, accepted[Len(accepted)])
        BY <3>1 DEF AcceptedOK
      <3>3. /\ accepted[Len(accepted)].from \in Nat
            /\ Len(accepted[Len(accepted)].text) \in Nat
        BY <3>1, LogNumbers
      <3> QED BY <2>2, <3>2, <3>3 DEF MessageAt, Covers, EndOf
    <2> QED BY <2>1, <2>2
  <1>8. ASSUME NEW k \in 1..(sent + n) PROVE taken'[at + k - 1] = msg[w][k]
    <2>1. CASE k <= sent
      <3>1. k \in 1..sent
        BY <1>n, <2>1
      <3>2. taken[at + k - 1] = msg[w][k]
        BY <1>1, <3>1 DEF RestOK
      <3>3. at + k - 1 \in 1..Len(taken)
        BY <1>n, <1>4, <1>9, <3>1
      <3> QED BY <1>6, <3>2, <3>3
    <2>2. CASE k > sent
      <3>1. k - sent \in 1..n /\ sent + (k - sent) = k /\ Len(taken) + (k - sent) = at + k - 1
        BY <1>n, <1>4, <2>2
      <3>2. taken'[Len(taken) + (k - sent)] = msg[w][sent + (k - sent)]
        BY <1>6, <3>1
      <3> QED BY <3>1, <3>2
    <2> QED BY <1>n, <2>1, <2>2
  <1>10. \A i \in 1..Len(accepted) : Covers(taken', accepted[i])
    <2> SUFFICES ASSUME NEW i \in 1..Len(accepted) PROVE Covers(taken', accepted[i])
      OBVIOUS
    <2>1. accepted[i].from \in Nat /\ Len(accepted[i].text) \in Nat
      BY LogNumbers
    <2>2. Covers(taken, accepted[i])
      BY DEF AcceptedOK
    <2>3. Len(taken) <= Len(taken')
      BY <1>n, <1>6
    <2> QED BY <1>5, <1>6, <2>1, <2>2, <2>3, StillCovers
  <1>11. LinesOK'
    <2> SUFFICES ASSUME NEW i \in 1..Len(lines)
                 PROVE  /\ Covers(taken', lines[i]) /\ lines[i].from = LineAt(i - 1)'
                        /\ EndOf(lines[i]) <= Len(taken') /\ taken'[EndOf(lines[i])] = NL
      BY <1>1 DEF LinesOK, EndOf
    <2>1. lines[i].from \in Nat /\ Len(lines[i].text) \in Nat
      BY LogNumbers
    <2>2. /\ Covers(taken, lines[i]) /\ lines[i].from = LineAt(i - 1)
          /\ EndOf(lines[i]) <= Len(taken) /\ taken[EndOf(lines[i])] = NL
      BY <1>1 DEF LinesOK
    <2>3. Covers(taken', lines[i])
      <3>1. Len(taken) <= Len(taken')
        BY <1>n, <1>6
      <3> QED BY <1>5, <1>6, <2>1, <2>2, <3>1, StillCovers
    <2>4. LineAt(i - 1)' = LineAt(i - 1)
      BY <1>1 DEF LineAt, EndOf
    <2>5. EndOf(lines[i]) \in 1..Len(taken)
      BY <1>n, <2>1, <2>2 DEF EndOf, Covers
    <2> QED BY <1>n, <1>6, <2>2, <2>3, <2>4, <2>5
  <1>12. BufOK'
    <2>1. ~gaveUp
      BY <1>1 DEF BufOK
    <2>2. LineAt(Len(lines))' = LineAt(Len(lines))
      BY <1>1 DEF LineAt, EndOf
    <2>3. LineAt(Len(lines)) = Len(taken) - Len(buf) + 1 /\ Len(buf) <= Len(taken)
      BY <1>1, <2>1 DEF BufOK
    <2>4. Len(taken') - Len(buf') = Len(taken) - Len(buf) /\ Len(buf') <= Len(taken')
      BY <1>n, <1>6, <1>7, <2>3
    <2>5. ASSUME NEW k \in 1..Len(buf') PROVE buf'[k] = taken'[Len(taken') - Len(buf') + k]
      <3>1. CASE k <= Len(buf)
        <4>1. k \in 1..Len(buf) /\ Len(taken) - Len(buf) + k \in 1..Len(taken)
          BY <1>n, <1>7, <2>3, <3>1
        <4>2. buf[k] = taken[Len(taken) - Len(buf) + k]
          BY <4>1 DEF BufOK
        <4> QED BY <1>6, <1>7, <2>4, <4>1, <4>2
      <3>2. CASE k > Len(buf)
        <4>1. /\ k - Len(buf) \in 1..n /\ Len(buf) + (k - Len(buf)) = k
              /\ Len(taken) + (k - Len(buf)) = Len(taken) - Len(buf) + k
          BY <1>n, <1>7, <3>2
        <4>2. /\ buf'[Len(buf) + (k - Len(buf))] = msg[w][sent + (k - Len(buf))]
              /\ taken'[Len(taken) + (k - Len(buf))] = msg[w][sent + (k - Len(buf))]
          BY <1>6, <1>7, <4>1
        <4> QED BY <2>4, <4>1, <4>2
      <3> QED BY <1>n, <1>7, <3>1, <3>2
    <2> QED BY <1>1, <2>1, <2>2, <2>3, <2>4, <2>5 DEF BufOK
  <1>13. PipeOK'
    BY <1>1 DEF PipeOK
  <1>14. Len(buf') <= MaxToken
    BY <1>1, <1>n, <1>7
  <1>15. CASE sent + n < Len(msg[w])
    <2>1. sent' = sent + n /\ UNCHANGED <<wpc, accepted>>
      BY <1>15, <1>n, <1>2 DEF ReadPipe
    <2>2. LogTypeOK'
      BY <1>1, <1>n, <1>6, <1>7, <1>14, <2>1 DEF LogTypeOK
    <2>3. at' = at
      BY <2>1 DEF MessageAt, EndOf
    <2>4. \A v \in Writers : wpc[v] = "send" => v = w
      BY <1>1 DEF SendOK
    <2>5. SendOK'
      BY <1>1, <1>4, <1>15, <1>n, <2>1, <2>4 DEF SendOK
    <2>6. RestOK'
      <3>1. sent' > 0 /\ Len(taken') = at' + sent' - 1
        BY <1>n, <1>4, <1>6, <2>1, <2>3
      <3>2. \A v \in Writers : wpc'[v] = "send" =>
               \A k \in 1..sent' : taken'[at' + k - 1] = msg'[v][k]
        BY <1>1, <1>8, <2>1, <2>3, <2>4
      <3> QED BY <3>1, <3>2 DEF RestOK
    <2>7. AcceptedOK'
      BY <1>10, <2>1 DEF AcceptedOK, MessageAt, EndOf
    <2> QED BY <1>11, <1>12, <1>13, <2>2, <2>5, <2>6, <2>7
  <1>16. CASE sent + n = Len(msg[w])
    <2> DEFINE new == [from |-> Len(taken) - sent + 1, text |-> msg[w]]
    <2>1. /\ sent' = 0 /\ wpc' = [wpc EXCEPT ![w] = "idle"]
          /\ accepted' = Append(accepted, new)
      <3>1. ~(sent + n < Len(msg[w]))
        BY <1>16, <1>n, <1>2
      <3> QED BY <3>1 DEF ReadPipe
    <2>2. new.from = at /\ new.text = msg[w] /\ new \in [from : Nat, text : Messages]
      <3>1. Len(taken) - sent + 1 = at
        BY <1>n, <1>4
      <3> QED BY <1>n, <1>2, <3>1
    <2> HIDE DEF new
    <2>3. accepted \in Seq([from : Nat, text : Messages])
      BY DEF LogTypeOK
    <2>4. /\ accepted' \in Seq([from : Nat, text : Messages])
          /\ Len(accepted') = Len(accepted) + 1
          /\ \A i \in 1..Len(accepted) : accepted'[i] = accepted[i]
          /\ accepted'[Len(accepted) + 1] = new
      BY <2>1, <2>2, <2>3, AppendFacts
    <2>5. LogTypeOK'
      BY <1>1, <1>n, <1>6, <1>7, <1>14, <2>1, <2>4 DEF LogTypeOK
    <2>6. \A v \in Writers : wpc'[v] # "send" /\ (wpc'[v] # "idle" => wpc[v] # "idle")
      BY <1>1, <2>1 DEF SendOK, LogTypeOK
    <2>7. SendOK'
      BY <1>1, <1>4, <2>1, <2>6 DEF SendOK
    <2>8. EndOf(new) = at + Len(msg[w])
      BY <2>2 DEF EndOf
    <2>9. MessageAt(Len(accepted))' = at + Len(msg[w])
      BY <1>n, <2>4, <2>8 DEF MessageAt, EndOf
    <2>10. RestOK'
      <3>0. Len(cut') = 0
        BY <1>1, <1>4
      <3>1. Len(taken') = MessageAt(Len(accepted))' + Len(cut') - 1
        <4>1. at + sent - 1 + n = at + Len(msg[w]) + 0 - 1
          BY <1>n, <1>2, <1>16
        <4> QED BY <1>4, <1>6, <2>9, <3>0, <4>1
      <3>2. \A k \in 1..Len(cut') : FALSE
        BY <3>0
      <3> QED BY <2>1, <2>6, <3>1, <3>2 DEF RestOK
    <2>11. Covers(taken', new)
      <3>1. EndOf(new) <= Len(taken') + 1
        <4>1. /\ EndOf(new) = at + Len(msg[w]) /\ Len(taken') = at + sent - 1 + n
              /\ sent + n = Len(msg[w])
          BY <1>4, <1>6, <1>16, <2>8
        <4>2. at \in Nat /\ sent \in Nat /\ n \in Nat /\ Len(msg[w]) \in Nat
          BY <1>n, <1>2
        <4> HIDE DEF at
        <4> QED BY ONLY <4>1, <4>2
      <3>2. \A k \in 1..Len(new.text) : taken'[new.from + k - 1] = new.text[k]
        BY <1>8, <1>16, <2>2
      <3> QED BY <1>9, <2>2, <3>1, <3>2 DEF Covers
    <2>12. AcceptedOK'
      <3> SUFFICES ASSUME NEW i \in 1..Len(accepted')
                   PROVE  /\ Covers(taken', accepted'[i])
                          /\ accepted'[i].from = MessageAt(i - 1)'
        BY DEF AcceptedOK
      <3>1. CASE i = Len(accepted) + 1
        <4>1. MessageAt(i - 1)' = at
          <5>1. i - 1 = Len(accepted)
            BY <1>n, <3>1
          <5>2. Len(accepted) # 0 => Len(accepted) \in 1..Len(accepted)
            BY <1>n
          <5> QED BY <5>1, <5>2, <2>4 DEF MessageAt, EndOf
        <4> QED BY <2>2, <2>4, <2>11, <3>1, <4>1
      <3>2. CASE i # Len(accepted) + 1
        <4>1. i \in 1..Len(accepted) /\ (i - 1 # 0 => i - 1 \in 1..Len(accepted))
          BY <1>n, <2>4, <3>2
        <4>2. MessageAt(i - 1)' = MessageAt(i - 1)
          BY <2>4, <4>1 DEF MessageAt, EndOf
        <4>3. accepted[i].from = MessageAt(i - 1)
          BY <4>1 DEF AcceptedOK
        <4> QED BY <1>10, <2>4, <4>1, <4>2, <4>3
      <3> QED BY <3>1, <3>2
    <2> QED BY <1>11, <1>12, <1>13, <2>5, <2>7, <2>10, <2>12
  <1> QED BY <1>1, <1>2, <1>n, <1>15, <1>16 DEF ReadPipe
\* The bytes that the scanner makes a line of are the next bytes taken.
LEMMA LogALine ==
    ASSUME LogInv, NEW n \in 0..Len(buf), \A i \in 1..n : buf[i] # NL,
           NEW rest, NEW next, Log(n, rest, next), ~gaveUp,
           LineAt(Len(lines)) = Len(taken) - Len(buf) + 1,
           scan \in {"scan", "eof"},
           \/ n < Len(buf) /\ buf[n + 1] = NL /\ next = scan
           \/ n = Len(buf) /\ n > 0 /\ scan = "eof" /\ next = "eof"
    PROVE  /\ LinesOK' /\ lines' \in Seq([from : Nat, text : Seq(Bytes \ {NL})])
           /\ LineAt(Len(lines))' = Len(taken) - Len(buf) + n + 2
  <1> USE DEF LogInv
  <1> DEFINE at  == LineAt(Len(lines))
             txt == SubSeq(buf, 1, n)
             new == [from |-> Len(taken) - Len(buf) + 1, text |-> SubSeq(buf, 1, n)]
  <1>1. lines' = Append(lines, new) /\ UNCHANGED taken /\ scan' = next
    BY DEF Log
  <1>n. /\ Len(taken) \in Nat /\ Len(buf) \in Nat /\ Len(lines) \in Nat /\ at \in Nat
        /\ n \in Nat /\ n <= Len(buf)
    BY LogNumbers
  <1>2. /\ Len(buf) <= Len(taken)
        /\ \A k \in 1..Len(buf) : buf[k] = taken[Len(taken) - Len(buf) + k]
    BY DEF BufOK
  <1>3. buf \in Seq(Bytes) /\ lines \in Seq([from : Nat, text : Seq(Bytes \ {NL})])
    BY DEF LogTypeOK
  <1>4. /\ txt \in Seq(Bytes) /\ Len(txt) = n /\ \A i \in 1..n : txt[i] = buf[i]
    <2>1. /\ SubSeq(buf, 1, n) \in Seq(Bytes) /\ Len(SubSeq(buf, 1, n)) = n - 1 + 1
          /\ \A i \in 1..(n - 1 + 1) : SubSeq(buf, 1, n)[i] = buf[1 + i - 1]
      <3>1. n \in Nat /\ 1 <= 1 /\ 1 <= n + 1 /\ n <= Len(buf) /\ 1 \in Nat
        BY <1>n
      <3> QED BY ONLY <1>3, <3>1, PartFacts
    <2> QED BY <1>n, <2>1
  <1> HIDE DEF txt
  <1>5. txt \in Seq(Bytes \ {NL})
    <2>1. \A i \in 1..Len(txt) : txt[i] # NL
      BY <1>4
    <2> QED BY ONLY <1>4, <2>1
  <1>6. new \in [from : Nat, text : Seq(Bytes \ {NL})]
    <2>1. Len(taken) - Len(buf) + 1 \in Nat
      BY <1>n, <1>2
    <2> QED BY <1>5, <2>1 DEF txt
  <1>7. new.from = at /\ new.text = txt /\ EndOf(new) = at + n
    BY <1>4 DEF txt, EndOf
  <1> HIDE DEF new
  <1>8. /\ lines' \in Seq([from : Nat, text : Seq(Bytes \ {NL})])
        /\ Len(lines') = Len(lines) + 1
        /\ \A i \in 1..Len(lines) : lines'[i] = lines[i]
        /\ lines'[Len(lines) + 1] = new
    BY <1>1, <1>3, <1>6, AppendFacts
  <1>9. LineAt(Len(lines))' = at + n + 1
    <2>1. Len(lines') # 0 /\ lines'[Len(lines')] = new
      BY <1>n, <1>8
    <2>2. LineAt(Len(lines))' = EndOf(lines'[Len(lines')]) + 1
      BY <2>1 DEF LineAt, EndOf
    <2> QED BY <1>7, <2>1, <2>2
  <1>10. at = Len(taken) - Len(buf) + 1 /\ at >= 1
    BY <1>n, <1>2
  <1>11. Covers(taken, new)
    <2>1. at + n <= Len(taken) + 1
      BY <1>n, <1>10
    <2>2. ASSUME NEW k \in 1..n PROVE taken[at + k - 1] = txt[k]
      <3>1. k \in 1..Len(buf) /\ at + k - 1 = Len(taken) - Len(buf) + k
        BY <1>n, <1>10
      <3> QED BY <1>2, <1>4, <3>1
    <2> QED BY <1>4, <1>7, <1>10, <2>1, <2>2 DEF Covers
  <1>12. \/ EndOf(new) <= Len(taken) /\ taken[EndOf(new)] = NL
         \/ /\ EndOf(new) = Len(taken) + 1 /\ new.text # << >>
            /\ scan' \in {"eof", "exited"}
    <2>1. CASE n < Len(buf) /\ buf[n + 1] = NL
      <3>1. n + 1 \in 1..Len(buf) /\ at + n = Len(taken) - Len(buf) + (n + 1)
            /\ at + n <= Len(taken)
        BY <1>n, <1>10, <2>1
      <3> QED BY <1>2, <1>7, <2>1, <3>1
    <2>2. CASE n = Len(buf) /\ n > 0 /\ next = "eof"
      <3>1. at + n = Len(taken) + 1
        BY <1>n, <1>10, <2>2
      <3>2. txt # << >>
        BY <1>4, <2>2
      <3> QED BY <1>1, <1>7, <2>2, <3>1, <3>2
    <2> QED BY <2>1, <2>2
  <1>13. LinesOK'
    <2> SUFFICES ASSUME NEW i \in 1..Len(lines')
                 PROVE  /\ Covers(taken, lines'[i]) /\ lines'[i].from = LineAt(i - 1)'
                        /\ \/ EndOf(lines'[i]) <= Len(taken) /\ taken[EndOf(lines'[i])] = NL
                           \/ /\ i = Len(lines') /\ EndOf(lines'[i]) = Len(taken) + 1
                              /\ lines'[i].text # << >> /\ scan' \in {"eof", "exited"}
      BY <1>1 DEF LinesOK, EndOf
    <2>1. CASE i = Len(lines) + 1
      <3>1. LineAt(i - 1)' = at
        <4>1. i - 1 = Len(lines) /\ (Len(lines) # 0 => Len(lines) \in 1..Len(lines))
          BY <1>n, <2>1
        <4> QED BY <1>8, <4>1 DEF LineAt, EndOf
      <3> QED BY <1>7, <1>8, <1>11, <1>12, <2>1, <3>1
    <2>2. CASE i # Len(lines) + 1
      <3>1. i \in 1..Len(lines) /\ (i - 1 # 0 => i - 1 \in 1..Len(lines))
        BY <1>n, <1>8, <2>2
      <3>2. LineAt(i - 1)' = LineAt(i - 1)
        BY <1>8, <3>1 DEF LineAt, EndOf
      <3>3. /\ Covers(taken, lines[i]) /\ lines[i].from = LineAt(i - 1)
            /\ \/ EndOf(lines[i]) <= Len(taken) /\ taken[EndOf(lines[i])] = NL
               \/ i = Len(lines) /\ EndOf(lines[i]) = Len(taken) + 1
        BY <3>1 DEF LinesOK
      <3>4. ~(i = Len(lines) /\ EndOf(lines[i]) = Len(taken) + 1)
        BY <1>n, <1>10 DEF LineAt
      <3> QED BY <1>8, <3>1, <3>2, <3>3, <3>4
    <2> QED BY <2>1, <2>2
  <1> QED BY <1>n, <1>8, <1>9, <1>10, <1>13
\* Scan returns a line that is complete, or what is left at the end.
LEMMA LogLines ==
    ASSUME LogInv, LogLine \/ LogLast
    PROVE  LogInv'
  <1> USE DEF LogInv
  <1>n. Len(taken) \in Nat /\ Len(buf) \in Nat /\ MaxToken \in Nat
    BY LogNumbers
  <1>0. buf \in Seq(Bytes) /\ Len(buf) <= MaxToken
    BY DEF LogTypeOK
  <1>1. /\ Len(buf) <= Len(taken)
        /\ \A k \in 1..Len(buf) : buf[k] = taken[Len(taken) - Len(buf) + k]
    BY DEF BufOK
  <1>2. ASSUME NEW n \in 0..Len(buf), NEW rest, NEW next, Log(n, rest, next),
               rest \in Seq(Bytes), Len(rest) <= Len(buf), scan \in {"scan", "eof"},
               next = scan, LinesOK',
               lines' \in Seq([from : Nat, text : Seq(Bytes \ {NL})]), BufOK'
        PROVE  LogInv'
    <2>1. /\ buf' = rest /\ scan' = scan
          /\ UNCHANGED <<wpc, msg, sent, pipe, closer, calls, taken, accepted, cut, failed,
                         gaveUp>>
      BY <1>2 DEF Log
    <2>2. LogTypeOK'
      <3>1. Len(buf') <= MaxToken
        BY <1>n, <1>0, <1>2, <2>1
      <3> QED BY <1>2, <2>1, <3>1 DEF LogTypeOK
    <2>3. SendOK' /\ PipeOK'
      BY <2>1 DEF SendOK, PipeOK
    <2>4. AcceptedOK'
      BY <2>1 DEF AcceptedOK, Covers, EndOf, MessageAt
    <2>5. RestOK'
      <3>1. MessageAt(Len(accepted))' = MessageAt(Len(accepted))
        BY <2>1 DEF MessageAt, EndOf
      <3> QED BY <2>1, <3>1 DEF RestOK
    <2> QED BY <1>2, <2>2, <2>3, <2>4, <2>5
  <1>3. CASE LogLine
    <2> DEFINE n == FirstNL - 1
    <2>1. scan \in {"scan", "eof"} /\ FirstNL > 0 /\ Log(FirstNL - 1, AfterNL, scan)
      BY <1>3 DEF LogLine, HasLine
    <2>2. /\ FirstNL \in 1..Len(buf) /\ buf[FirstNL] = NL
          /\ \A i \in 1..(FirstNL - 1) : buf[i] # NL
      BY <2>1, FirstNLFacts
    <2>3. /\ n \in 0..Len(buf) /\ n \in Nat /\ FirstNL = n + 1 /\ n < Len(buf)
      BY <1>n, <2>2
    <2> HIDE DEF n
    <2>4. /\ Log(n, AfterNL, scan) /\ buf[n + 1] = NL /\ \A i \in 1..n : buf[i] # NL
      BY <2>1, <2>2, <2>3 DEF n
    <2>5. ~gaveUp /\ buf # << >>
      BY <1>n, <2>1, <2>3 DEF BufOK
    <2>6. LineAt(Len(lines)) = Len(taken) - Len(buf) + 1
      BY <2>5 DEF BufOK
    <2>7. /\ LinesOK' /\ lines' \in Seq([from : Nat, text : Seq(Bytes \ {NL})])
          /\ LineAt(Len(lines))' = Len(taken) - Len(buf) + n + 2
      BY <2>1, <2>3, <2>4, <2>5, <2>6, LogALine
    <2>8. /\ AfterNL \in Seq(Bytes) /\ Len(AfterNL) = Len(buf) - n - 1
          /\ \A k \in 1..Len(AfterNL) : AfterNL[k] = buf[n + 1 + k]
      <3> DEFINE a == n + 1
                 m == Len(buf) - a
      <3>1. a \in Nat /\ m \in Nat /\ a + m = Len(buf) /\ m = Len(buf) - n - 1
        BY <1>n, <2>3
      <3>2. AfterNL = SubSeq(buf, a + 1, a + m)
        BY <2>3, <3>1 DEF AfterNL
      <3> HIDE DEF a, m
      <3>3. /\ SubSeq(buf, a + 1, a + m) \in Seq(Bytes) /\ Len(SubSeq(buf, a + 1, a + m)) = m
            /\ \A i \in 1..m : SubSeq(buf, a + 1, a + m)[i] = buf[a + i]
        <4>1. a + m <= Len(buf)
          BY <1>n, <3>1
        <4> QED BY <1>0, <3>1, <4>1, NextFacts
      <3> QED BY <3>1, <3>2, <3>3 DEF a
    <2>9. buf' = AfterNL /\ scan' = scan /\ UNCHANGED <<taken, gaveUp>>
      BY <2>4 DEF Log
    <2>10. BufOK'
      <3>1. Len(buf') = Len(buf) - n - 1 /\ Len(buf') <= Len(taken')
        BY <1>n, <1>1, <2>3, <2>8, <2>9
      <3>2. ASSUME NEW k \in 1..Len(buf') PROVE buf'[k] = taken'[Len(taken') - Len(buf') + k]
        <4>1. /\ n + 1 + k \in 1..Len(buf)
              /\ Len(taken) - Len(buf) + (n + 1 + k) = Len(taken) - (Len(buf) - n - 1) + k
          BY <1>n, <2>3, <3>1
        <4> QED BY <1>1, <2>8, <2>9, <3>1, <4>1
      <3>3. LineAt(Len(lines))' = Len(taken') - Len(buf') + 1
        BY <1>n, <2>3, <2>7, <2>9, <3>1
      <3> QED BY <2>1, <2>5, <2>9, <3>1, <3>2, <3>3 DEF BufOK
    <2>11. Len(AfterNL) <= Len(buf)
      BY <1>n, <2>3, <2>8
    <2> QED BY <1>2, <2>1, <2>3, <2>4, <2>7, <2>8, <2>10, <2>11
  <1>4. CASE LogLast
    <2>1. scan = "eof" /\ FirstNL = 0 /\ buf # << >> /\ Log(Len(buf), << >>, scan)
      BY <1>4 DEF LogLast
    <2>2. Len(buf) > 0 /\ Len(buf) \in 0..Len(buf)
      BY <1>0, <1>n, <2>1
    <2>3. \A i \in 1..Len(buf) : buf[i] # NL
      BY <2>1, FirstNLFacts
    <2>4. ~gaveUp
      BY <2>1 DEF BufOK
    <2>5. LineAt(Len(lines)) = Len(taken) - Len(buf) + 1
      BY <2>1, <2>4 DEF BufOK
    <2>6. /\ LinesOK' /\ lines' \in Seq([from : Nat, text : Seq(Bytes \ {NL})])
          /\ LineAt(Len(lines))' = Len(taken) - Len(buf) + Len(buf) + 2
      BY <2>1, <2>2, <2>3, <2>4, <2>5, LogALine
    <2>7. buf' = << >> /\ scan' = scan /\ UNCHANGED <<taken, gaveUp>>
      BY <2>1 DEF Log
    <2>8. Len(buf') = 0 /\ << >> \in Seq(Bytes) /\ Len(<< >>) = 0
      BY <2>7
    <2>9. LineAt(Len(lines))' = Len(taken) + 2
      BY <1>n, <2>6
    <2>10. BufOK'
      BY <1>n, <2>1, <2>4, <2>7, <2>8, <2>9 DEF BufOK
    <2>11. << >> \in Seq(Bytes) /\ Len(<< >>) <= Len(buf)
      BY <1>n, <2>8
    <2>12. scan \in {"scan", "eof"}
      BY <2>1
    <2> HIDE DEF LogInv
    <2> QED BY <1>2, <2>1, <2>2, <2>6, <2>10, <2>11, <2>12
  <1> QED BY <1>3, <1>4

\* The scanner stops, closes its end of the pipe and ends; Close is called and
\* returns.
LEMMA LogEnds ==
    ASSUME LogInv, ReadEOF \/ TooLong \/ Exit \/ CloseCall \/ CloseWait
    PROVE  LogInv'
  <1> USE DEF LogInv
  <1>0. UNCHANGED <<wpc, msg, sent, calls, taken, accepted, cut, failed, lines>>
    BY DEF ReadEOF, TooLong, Exit, CloseCall, CloseWait, CloseStep
  <1>1. /\ MessageAt(Len(accepted))' = MessageAt(Len(accepted))
        /\ LineAt(Len(lines))' = LineAt(Len(lines))
    BY <1>0 DEF MessageAt, LineAt, EndOf
  <1>2. AcceptedOK'
    BY <1>0 DEF AcceptedOK, Covers, EndOf, MessageAt
  <1>3. RestOK'
    BY <1>0, <1>1 DEF RestOK
  <1>4. pipe' \in {"open", "writer", "reader"} /\ (pipe # "open" => pipe' # "open")
    BY DEF ReadEOF, TooLong, Exit, CloseCall, CloseWait, CloseStep, ClosedBy, LogTypeOK
  <1>5. SendOK'
    BY <1>0, <1>4 DEF SendOK
  <1>n. Len(taken) \in Nat /\ Len(buf) \in Nat /\ MaxToken \in Nat
    BY LogNumbers
  <1>6. buf' \in {buf, << >>} /\ Len(buf') <= MaxToken
    <2>1. Len(<< >>) = 0 /\ Len(buf) <= MaxToken
      BY DEF LogTypeOK
    <2>2. buf' \in {buf, << >>}
      BY DEF ReadEOF, TooLong, Exit, CloseCall, CloseWait, CloseStep
    <2> QED BY <1>n, <2>1, <2>2
  <1>7. LogTypeOK'
    <2>1. /\ scan' \in {"scan", "eof", "tooLong", "exited"} /\ gaveUp' \in BOOLEAN
          /\ closer' \in {"no", "wait", "returned"}
      BY DEF ReadEOF, TooLong, Exit, CloseCall, CloseWait, CloseStep, LogTypeOK
    <2>2. buf' \in Seq(Bytes)
      <3>1. buf \in Seq(Bytes) /\ << >> \in Seq(Bytes)
        BY DEF LogTypeOK
      <3> QED BY <1>6, <3>1
    <2> QED BY <1>0, <1>4, <1>6, <2>1, <2>2 DEF LogTypeOK
  <1>8. scan \in {"eof", "exited"} => scan' \in {"eof", "exited"}
    BY DEF ReadEOF, TooLong, Exit, CloseCall, CloseWait, CloseStep
  <1>9. LinesOK'
    BY <1>0, <1>8 DEF LinesOK, Covers, EndOf, LineAt
  <1>10. BufOK'
    <2>1. CASE TooLong
      <3>1. buf' = << >> /\ gaveUp' /\ scan' = "tooLong" /\ Len(buf') = 0
        BY <2>1 DEF TooLong
      <3> QED BY <1>0, <1>n, <3>1 DEF BufOK
    <2>2. CASE ReadEOF
      <3>1. scan = "scan" /\ scan' = "eof" /\ UNCHANGED <<buf, gaveUp>>
        BY <2>2 DEF ReadEOF
      <3> QED BY <1>0, <1>1, <3>1 DEF BufOK
    <2>3. CASE Exit
      <3>1. /\ scan = "tooLong" \/ (scan = "eof" /\ buf = << >>)
            /\ scan' = "exited" /\ UNCHANGED <<buf, gaveUp>>
        BY <2>3 DEF Exit
      <3> QED BY <1>0, <1>1, <3>1 DEF BufOK
    <2>4. CASE CloseCall \/ CloseWait
      <3>1. UNCHANGED <<buf, gaveUp, scan>>
        BY <2>4 DEF CloseCall, CloseWait, CloseStep
      <3> QED BY <1>0, <1>1, <3>1 DEF BufOK
    <2> QED BY <2>1, <2>2, <2>3, <2>4
  <1>11. PipeOK'
    <2>1. CASE ReadEOF
      BY <2>1 DEF ReadEOF, PipeOK, LogTypeOK
    <2>2. CASE TooLong
      BY <2>2 DEF TooLong, PipeOK, LogTypeOK
    <2>3. CASE Exit
      BY <2>3 DEF Exit, ClosedBy, PipeOK, LogTypeOK
    <2>4. CASE CloseCall
      BY <2>4 DEF CloseCall, CloseStep, ClosedBy, PipeOK, LogTypeOK
    <2>5. CASE CloseWait
      BY <2>5 DEF CloseWait, CloseStep, PipeOK, LogTypeOK
    <2> QED BY <2>1, <2>2, <2>3, <2>4, <2>5
  <1> QED BY <1>2, <1>3, <1>5, <1>7, <1>9, <1>10, <1>11

\* Every step keeps the invariant.
LEMMA LogStep == LogInv /\ [LogNext]_logVars => LogInv'
  <1> SUFFICES ASSUME LogInv, [LogNext]_logVars PROVE LogInv'
    OBVIOUS
  <1>1. CASE LogDone \/ UNCHANGED logVars
    <2>1. UNCHANGED <<wpc, msg, sent, pipe, scan, buf, closer, calls, taken, accepted,
                      cut, failed, lines, gaveUp>>
      BY <1>1 DEF LogDone, logVars
    <2>2. AcceptedOK' /\ LinesOK' /\ BufOK'
      BY <2>1, LogKept
    <2>3. MessageAt(Len(accepted))' = MessageAt(Len(accepted))
      BY <2>1 DEF MessageAt, EndOf
    <2>4. LogTypeOK' /\ SendOK' /\ PipeOK'
      BY <2>1 DEF LogInv, LogTypeOK, SendOK, PipeOK
    <2>5. RestOK'
      BY <2>1, <2>3 DEF LogInv, RestOK
    <2> QED BY <2>2, <2>4, <2>5 DEF LogInv
  <1>2. ASSUME NEW w \in Writers, NEW n \in 1..MaxToken, ReadPipe(w, n) PROVE LogInv'
    BY <1>2, LogReads
  <1>3. ASSUME NEW w \in Writers,
               (\E m \in Messages : WriteCall(w, m)) \/ WriteTurn(w) \/ WriteAborted(w)
        PROVE  LogInv'
    BY <1>3, LogWriters
  <1> QED BY <1>1, <1>2, <1>3, LogLines, LogEnds DEF LogNext, ScanStep, WriteStep
\* A part of a sequence that has the elements of another is equal to it.
LEMMA CoveredPart ==
    ASSUME NEW S, NEW s \in Seq(S), NEW t \in Seq(S), NEW a \in Nat, NEW b \in Nat,
           1 <= a, b <= Len(s), b = a + Len(t) - 1,
           \A k \in 1..Len(t) : s[a + k - 1] = t[k]
    PROVE  SubSeq(s, a, b) = t
  <1>1. Len(t) \in Nat /\ a <= b + 1 /\ b - a + 1 = Len(t)
    OBVIOUS
  <1>2. /\ SubSeq(s, a, b) \in Seq(S) /\ Len(SubSeq(s, a, b)) = b - a + 1
        /\ \A i \in 1..(b - a + 1) : SubSeq(s, a, b)[i] = s[a + i - 1]
    BY <1>1, PartFacts
  <1>3. Len(t) = Len(SubSeq(s, a, b)) /\ \A i \in 1..Len(t) : SubSeq(s, a, b)[i] = t[i]
    BY <1>1, <1>2
  <1> HIDE <1>1
  <1>4. SubSeq(s, a, b) \in Seq(S) /\ t \in Seq(S)
    BY <1>2
  <1> QED BY ONLY <1>3, <1>4, SameSeq

\* What covers a part is found there.
LEMMA LogFound ==
    ASSUME LogTypeOK, NEW p, p.from \in Nat, p.text \in Seq(Bytes), Covers(taken, p)
    PROVE  Found(p)
  <1> DEFINE b == p.from + Len(p.text) - 1
  <1>1. Len(p.text) \in Nat /\ Len(taken) \in Nat /\ taken \in Seq(Bytes)
    BY DEF LogTypeOK
  <1>2. 1 <= p.from /\ b <= Len(taken) /\ b \in Nat
    BY <1>1 DEF Covers, EndOf
  <1>3. \A k \in 1..Len(p.text) : taken[p.from + k - 1] = p.text[k]
    BY DEF Covers
  <1>4. b = p.from + Len(p.text) - 1
    OBVIOUS
  <1> HIDE DEF b
  <1>5. SubSeq(taken, p.from, b) = p.text
    BY <1>1, <1>2, <1>3, <1>4, CoveredPart
  <1> QED BY <1>5 DEF Found, EndOf, b

\* The scanner's input is the accepted messages in turn, then part of one more.
LEMMA LogMessages == LogInv => MessagesInTurn
  <1> SUFFICES ASSUME LogInv PROVE MessagesInTurn
    OBVIOUS
  <1> USE DEF LogInv
  <1> DEFINE at   == MessageAt(Len(accepted))
             rest == SubSeq(taken, at, Len(taken))
             being == {w \in Writers : wpc[w] = "send" /\ sent > 0}
  <1>n. /\ Len(taken) \in Nat /\ Len(cut) \in Nat /\ sent \in Nat /\ at \in Nat
        /\ Len(accepted) \in Nat
        /\ \A m \in Messages : m \in Seq(Bytes) /\ Len(m) \in Nat /\ Len(m) > 0
    BY LogNumbers
  <1>t. taken \in Seq(Bytes) /\ cut \in Seq(Bytes)
    BY DEF LogTypeOK
  <1>1. ASSUME NEW i \in 1..Len(accepted)
        PROVE  /\ Found(accepted[i]) /\ accepted[i].from = MessageAt(i - 1)
               /\ EndOf(accepted[i]) >= 1
    <2>1. /\ accepted[i].from \in Nat /\ Len(accepted[i].text) \in Nat
          /\ accepted[i].text \in Messages
      BY LogNumbers
    <2>2. accepted[i].text \in Seq(Bytes)
      BY <1>n, <2>1
    <2>3. Covers(taken, accepted[i]) /\ accepted[i].from = MessageAt(i - 1)
      BY DEF AcceptedOK
    <2>4. Found(accepted[i])
      BY <2>1, <2>2, <2>3, LogFound
    <2> QED BY <2>1, <2>3, <2>4 DEF Covers, EndOf
  <1>2. at >= 1
    BY <1>n, <1>1 DEF MessageAt
  <1>3. ASSUME being = {} PROVE rest = cut
    <2>1. sent = 0
      BY <1>3, <1>n DEF SendOK
    <2>2. /\ Len(taken) = at + Len(cut) - 1
          /\ \A k \in 1..Len(cut) : taken[at + k - 1] = cut[k]
      BY <2>1 DEF RestOK
    <2>3. Len(taken) <= Len(taken)
      BY <1>n
    <2> HIDE DEF at
    <2> QED BY <1>n, <1>t, <1>2, <2>2, <2>3, CoveredPart
  <1>4. ASSUME NEW w \in being PROVE rest = SubSeq(msg[w], 1, sent)
    <2>1. w \in Writers /\ wpc[w] = "send" /\ sent > 0
      BY <1>4
    <2>2. msg[w] \in Seq(Bytes) /\ sent < Len(msg[w]) /\ Len(msg[w]) \in Nat
      BY <1>n, <2>1 DEF SendOK
    <2> DEFINE part == SubSeq(msg[w], 1, sent)
    <2>3. /\ SubSeq(msg[w], 1, sent) \in Seq(Bytes)
          /\ Len(SubSeq(msg[w], 1, sent)) = sent - 1 + 1
          /\ \A k \in 1..(sent - 1 + 1) : SubSeq(msg[w], 1, sent)[k] = msg[w][1 + k - 1]
      BY <1>n, <2>2, PartFacts
    <2>4. part \in Seq(Bytes) /\ Len(part) = sent /\ \A k \in 1..sent : part[k] = msg[w][k]
      BY <1>n, <2>3
    <2> HIDE DEF part
    <2>5. /\ Len(taken) = at + Len(part) - 1
          /\ \A k \in 1..Len(part) : taken[at + k - 1] = part[k]
      BY <2>1, <2>4 DEF RestOK
    <2>6. Len(taken) <= Len(taken)
      BY <1>n
    <2> HIDE DEF at
    <2>7. rest = part
      BY <1>n, <1>t, <1>2, <2>4, <2>5, <2>6, CoveredPart
    <2> QED BY <2>7 DEF part
  <1>5. DOMAIN accepted = 1..Len(accepted)
    BY DEF LogTypeOK
  <1> QED BY <1>1, <1>3, <1>4, <1>5 DEF MessagesInTurn

\* The lines that were logged are what lies between the newlines.
LEMMA LogOrder == LogInv => LinesInOrder
  <1> SUFFICES ASSUME LogInv PROVE LinesInOrder
    OBVIOUS
  <1> USE DEF LogInv
  <1>1. ASSUME NEW i \in 1..Len(lines)
        PROVE  /\ Found(lines[i]) /\ lines[i].from = LineAt(i - 1)
               /\ \/ EndOf(lines[i]) <= Len(taken) /\ taken[EndOf(lines[i])] = NL
                  \/ /\ i = Len(lines) /\ EndOf(lines[i]) = Len(taken) + 1
                     /\ lines[i].text # << >> /\ scan \in {"eof", "exited"}
    <2>1. lines[i].from \in Nat /\ lines[i].text \in Seq(Bytes \ {NL})
      BY LogNumbers
    <2>2. lines[i].text \in Seq(Bytes)
      BY ONLY <2>1
    <2>3. Covers(taken, lines[i])
      BY DEF LinesOK
    <2>4. Found(lines[i])
      BY <2>1, <2>2, <2>3, LogFound
    <2> QED BY <2>4 DEF LinesOK
  <1>2. DOMAIN lines = 1..Len(lines)
    BY DEF LogTypeOK
  <1> QED BY <1>1, <1>2 DEF LinesInOrder

\* However the writers interleave and the reads cut what they write: no byte is
\* lost, repeated or moved to another line, and a Write fails only once the
\* adaptor is closed or has given up.
THEOREM LogLosesNothing == LogSpec => []NothingLost
  <1>1. LogInv => NothingLost
    <2>1. LogInv => WriteFailsOnlyIf
      BY DEF LogInv, PipeOK, WriteFailsOnlyIf
    <2> QED BY <2>1, LogMessages, LogOrder DEF LogInv, NothingLost
  <1> QED BY <1>1, LogInitially, LogStep, PTL DEF LogSpec

\* When Close has returned everything that was taken has been logged, unless a
\* line was too long for the scanner.
THEOREM LogCloseFlushes == LogSpec => []CloseFlushes
  <1>1. LogInv => CloseFlushes
    <2> SUFFICES ASSUME LogInv, closer = "returned", ~gaveUp
                 PROVE  LineAt(Len(lines)) > Len(taken)
      BY DEF CloseFlushes
    <2>1. Len(taken) \in Nat
      BY LogNumbers DEF LogInv
    <2>2. scan = "exited"
      BY DEF LogInv, PipeOK
    <2>3. buf = << >> /\ Len(buf) = 0
      BY <2>2 DEF LogInv, BufOK
    <2>4. LineAt(Len(lines)) = Len(taken) - Len(buf) + 1 \/ LineAt(Len(lines)) = Len(taken) + 2
      BY DEF LogInv, BufOK
    <2> QED BY <2>1, <2>3, <2>4
  <1> QED BY <1>1, LogInitially, LogStep, PTL DEF LogSpec

-----------------------------------------------------------------------------
(* FrameCodec: lengths as bytes.                                           *)

\* Numbers have one quotient and one remainder.
LEMMA DivUnique ==
    ASSUME NEW n \in Nat, NEW m \in Nat, m > 0, NEW q \in Nat, NEW r \in Nat,
           n = q * m + r, r < m
    PROVE  n \div m = q
  OBVIOUS

\* Quotient and remainder.
LEMMA DivMod ==
    ASSUME NEW n \in Nat, NEW m \in Nat, m > 0
    PROVE  /\ n \div m \in Nat /\ n % m \in 0..(m - 1)
           /\ n = (n \div m) * m + (n % m)
  OBVIOUS

\* To divide by a product is to divide twice.
LEMMA DivDiv ==
    ASSUME NEW n \in Nat, NEW p \in Nat, p > 0, NEW b \in Nat, b > 0
    PROVE  n \div (b * p) = (n \div p) \div b
  <1> DEFINE q == n \div p
             r == n % p
             q2 == q \div b
             r2 == q % b
  <1>1. q \in Nat /\ r \in 0..(p - 1) /\ n = q * p + r
    BY DivMod
  <1>2. q2 \in Nat /\ r2 \in 0..(b - 1) /\ q = q2 * b + r2
    BY <1>1, DivMod
  <1> HIDE DEF q, r, q2, r2
  <1>3. n = q2 * (b * p) + (r2 * p + r)
    BY <1>1, <1>2
  <1>4. r2 * p + r \in Nat /\ r2 * p + r < b * p
    BY <1>1, <1>2
  <1>5. b * p \in Nat /\ b * p > 0
    OBVIOUS
  <1>6. n \div (b * p) = q2
    BY <1>2, <1>3, <1>4, <1>5, DivUnique
  <1> QED BY <1>6 DEF q, q2

\* Something satisfies the equation that Pow is defined by: it is found up to m
\* by induction on m.
LEMMA PowExists ==
    \E f : f = [k \in 0..LenBytes |-> IF k = 0 THEN 1 ELSE Base * f[k - 1]]
  <1> DEFINE P(f, m) == f = [k \in 0..m |-> IF k = 0 THEN 1 ELSE Base * f[k - 1]]
             S == {m \in 0..LenBytes : \E f : P(f, m)}
  <1>1. 0 \in S
    <2>1. P([k \in 0..0 |-> 1], 0)
      OBVIOUS
    <2>2. 0 \in 0..LenBytes
      BY CodecConstants
    <2> QED BY <2>1, <2>2
  <1>2. ASSUME NEW n \in 0..(LenBytes - 1), n \in S PROVE n + 1 \in S
    <2>1. PICK f : P(f, n)
      BY <1>2
    <2> DEFINE g == [k \in 0..(n + 1) |-> IF k = n + 1 THEN Base * f[n] ELSE f[k]]
    <2>2. ASSUME NEW k \in 0..(n + 1)
          PROVE  g[k] = IF k = 0 THEN 1 ELSE Base * g[k - 1]
      <3>1. CASE k = n + 1
        <4>1. k - 1 \in 0..(n + 1) /\ k - 1 # n + 1 /\ k # 0 /\ k - 1 = n
          BY <3>1
        <4> QED BY <3>1, <4>1
      <3>2. CASE k # n + 1
        <4>1. k \in 0..n
          BY <3>2
        <4>2. f[k] = IF k = 0 THEN 1 ELSE Base * f[k - 1]
          BY <2>1, <4>1
        <4>3. k # 0 => k - 1 \in 0..(n + 1) /\ k - 1 # n + 1
          BY <4>1
        <4> QED BY <3>2, <4>2, <4>3
      <3> QED BY <3>1, <3>2
    <2>3. g = [k \in 0..(n + 1) |-> g[k]]
      OBVIOUS
    <2> HIDE DEF g
    <2>4. P(g, n + 1)
      BY <2>2, <2>3
    <2>5. n + 1 \in 0..LenBytes
      BY CodecConstants
    <2> QED BY <2>4, <2>5
  <1>3. LenBytes \in S
    <2> HIDE DEF S
    <2>1. \A n \in 0..LenBytes : n \in S
      BY <1>1, <1>2, SetInduction, CodecConstants
    <2> QED BY <2>1, CodecConstants
  <1> QED BY <1>3

\* Pow satisfies its equation, and its values are positive.
LEMMA PowFacts ==
    \A k \in 0..LenBytes : /\ Pow[k] = IF k = 0 THEN 1 ELSE Base * Pow[k - 1]
                           /\ Pow[k] \in Nat /\ Pow[k] > 0
  <1> DEFINE S == {k \in 0..LenBytes : Pow[k] \in Nat /\ Pow[k] > 0}
  <1>0. Base \in Nat /\ Base > 1 /\ LenBytes \in Nat
    BY CodecConstants
  <1>1. Pow = [k \in 0..LenBytes |-> IF k = 0 THEN 1 ELSE Base * Pow[k - 1]]
    BY PowExists DEF Pow
  <1>2. \A k \in 0..LenBytes : Pow[k] = IF k = 0 THEN 1 ELSE Base * Pow[k - 1]
    BY <1>1
  <1>3. 0 \in S
    BY <1>0, <1>2
  <1>4. ASSUME NEW n \in 0..(LenBytes - 1), n \in S PROVE n + 1 \in S
    <2>1. n + 1 \in 0..LenBytes /\ n + 1 # 0 /\ (n + 1) - 1 = n
      BY <1>0
    <2>2. Pow[n + 1] = Base * Pow[n]
      BY <1>2, <2>1
    <2>3. Pow[n] \in Nat /\ Pow[n] > 0
      BY <1>4
    <2>4. Base * Pow[n] \in Nat /\ Base * Pow[n] > 0
      BY <1>0, <2>3
    <2> QED BY <2>1, <2>2, <2>4
  <1> HIDE DEF S
  <1>5. \A k \in 0..LenBytes : k \in S
    BY <1>0, <1>3, <1>4, SetInduction
  <1> QED BY <1>2, <1>5 DEF S

\* The same for the value of a length's first bytes.
LEMMA ValueExists ==
    ASSUME NEW b
    PROVE  \E f : f = [i \in 0..LenBytes |-> IF i = 0 THEN 0 ELSE f[i - 1] * Base + b[i]]
  <1> DEFINE P(f, m) == f = [i \in 0..m |-> IF i = 0 THEN 0 ELSE f[i - 1] * Base + b[i]]
             S == {m \in 0..LenBytes : \E f : P(f, m)}
  <1>1. 0 \in S
    <2>1. P([k \in 0..0 |-> 0], 0)
      OBVIOUS
    <2>2. 0 \in 0..LenBytes
      BY CodecConstants
    <2> QED BY <2>1, <2>2
  <1>2. ASSUME NEW n \in 0..(LenBytes - 1), n \in S PROVE n + 1 \in S
    <2>1. PICK f : P(f, n)
      BY <1>2
    <2> DEFINE g == [k \in 0..(n + 1) |-> IF k = n + 1 THEN f[n] * Base + b[n + 1] ELSE f[k]]
    <2>2. ASSUME NEW k \in 0..(n + 1)
          PROVE  g[k] = IF k = 0 THEN 0 ELSE g[k - 1] * Base + b[k]
      <3>1. CASE k = n + 1
        <4>1. k - 1 \in 0..(n + 1) /\ k - 1 # n + 1 /\ k # 0 /\ k - 1 = n
          BY <3>1
        <4> QED BY <3>1, <4>1
      <3>2. CASE k # n + 1
        <4>1. k \in 0..n
          BY <3>2
        <4>2. f[k] = IF k = 0 THEN 0 ELSE f[k - 1] * Base + b[k]
          BY <2>1, <4>1
        <4>3. k # 0 => k - 1 \in 0..(n + 1) /\ k - 1 # n + 1
          BY <4>1
        <4> QED BY <3>2, <4>2, <4>3
      <3> QED BY <3>1, <3>2
    <2>3. g = [k \in 0..(n + 1) |-> g[k]]
      OBVIOUS
    <2> HIDE DEF g
    <2>4. P(g, n + 1)
      BY <2>2, <2>3
    <2>5. n + 1 \in 0..LenBytes
      BY CodecConstants
    <2> QED BY <2>4, <2>5
  <1>3. LenBytes \in S
    <2> HIDE DEF S
    <2>1. \A n \in 0..LenBytes : n \in S
      BY <1>1, <1>2, SetInduction, CodecConstants
    <2> QED BY <2>1, CodecConstants
  <1> QED BY <1>3

\* Uint32 is the last of the values that the bytes give one after the other.
LEMMA ValueFacts ==
    ASSUME NEW b
    PROVE  \E v : /\ Uint32(b) = v[LenBytes]
                  /\ \A i \in 0..LenBytes :
                        v[i] = IF i = 0 THEN 0 ELSE v[i - 1] * Base + b[i]
  <1> DEFINE v == CHOOSE f :
                    f = [i \in 0..LenBytes |-> IF i = 0 THEN 0 ELSE f[i - 1] * Base + b[i]]
  <1>1. v = [i \in 0..LenBytes |-> IF i = 0 THEN 0 ELSE v[i - 1] * Base + b[i]]
    BY ValueExists
  <1>2. Uint32(b) = v[LenBytes]
    BY DEF Uint32
  <1> HIDE DEF v
  <1> QED BY <1>1, <1>2

\* Any LenBytes bytes are a length.
LEMMA UintType ==
    ASSUME NEW b, \A i \in 1..LenBytes : b[i] \in Byte
    PROVE  Uint32(b) \in Nat
  <1>0. Base \in Nat /\ Base > 1 /\ LenBytes \in Nat
    BY CodecConstants
  <1>1. PICK v : /\ Uint32(b) = v[LenBytes]
                 /\ \A i \in 0..LenBytes :
                       v[i] = IF i = 0 THEN 0 ELSE v[i - 1] * Base + b[i]
    BY ValueFacts
  <1> DEFINE S == {i \in 0..LenBytes : v[i] \in Nat}
  <1>2. 0 \in S
    BY <1>0, <1>1
  <1>3. ASSUME NEW i \in 0..(LenBytes - 1), i \in S PROVE i + 1 \in S
    <2>1. i + 1 \in 0..LenBytes /\ i + 1 # 0 /\ (i + 1) - 1 = i /\ i + 1 \in 1..LenBytes
      BY <1>0
    <2>2. v[i + 1] = v[i] * Base + b[i + 1]
      BY <1>1, <2>1
    <2>3. v[i] \in Nat /\ b[i + 1] \in Nat
      BY <1>0, <1>3, <2>1 DEF Byte
    <2>4. v[i] * Base + b[i + 1] \in Nat
      BY <1>0, <2>3
    <2> QED BY <2>1, <2>2, <2>4
  <1> HIDE DEF S
  <1>4. LenBytes \in S
    BY <1>0, <1>2, <1>3, SetInduction
  <1> QED BY <1>1, <1>4 DEF S

\* uint32(n) is LenBytes bytes.
LEMMA PutFacts ==
    ASSUME NEW n \in Nat
    PROVE  /\ PutUint32(n) \in Seq(Byte) /\ Len(PutUint32(n)) = LenBytes
           /\ \A i \in 1..LenBytes : PutUint32(n)[i] = (n \div Pow[LenBytes - i]) % Base
  <1>0. Base \in Nat /\ Base > 1 /\ LenBytes \in Nat
    BY CodecConstants
  <1>1. ASSUME NEW i \in 1..LenBytes PROVE (n \div Pow[LenBytes - i]) % Base \in Byte
    <2>1. LenBytes - i \in 0..LenBytes
      BY <1>0
    <2>2. Pow[LenBytes - i] \in Nat /\ Pow[LenBytes - i] > 0
      BY <2>1, PowFacts
    <2>3. n \div Pow[LenBytes - i] \in Nat
      BY <2>2, DivMod
    <2> QED BY <1>0, <2>3, DivMod DEF Byte
  <1> DEFINE P == [i \in 1..LenBytes |-> (n \div Pow[LenBytes - i]) % Base]
  <1>2. P \in [1..LenBytes -> Byte]
    BY <1>1
  <1>3. \A i \in 1..LenBytes : P[i] = (n \div Pow[LenBytes - i]) % Base
    OBVIOUS
  <1>4. PutUint32(n) = P
    BY DEF PutUint32
  <1> HIDE DEF P
  <1>5. P \in Seq(Byte) /\ Len(P) = LenBytes
    BY <1>0, <1>2
  <1> QED BY <1>3, <1>4, <1>5

\* The remainder for a product, from the remainders for its factors.
LEMMA ModProduct ==
    ASSUME NEW m \in Nat, NEW p \in Nat, p > 0, NEW b \in Nat, b > 0
    PROVE  m % (b * p) = ((m \div b) % p) * b + (m % b)
  <1> DEFINE q == m \div b
             r == m % b
             s == q \div p
             t == q % p
  <1>1. q \in Nat /\ r \in 0..(b - 1) /\ m = q * b + r
    BY DivMod
  <1>2. s \in Nat /\ t \in 0..(p - 1) /\ q = s * p + t
    BY <1>1, DivMod
  <1> HIDE DEF q, r, s, t
  <1>3. m = s * (b * p) + (t * b + r)
    BY <1>1, <1>2
  <1>4. t * b + r \in Nat /\ t * b + r < b * p
    BY <1>1, <1>2
  <1>5. b * p \in Nat /\ b * p > 0
    OBVIOUS
  <1>6. m \div (b * p) = s
    BY <1>2, <1>3, <1>4, <1>5, DivUnique
  <1>7. m = (m \div (b * p)) * (b * p) + (m % (b * p)) /\ m % (b * p) \in Nat
    BY <1>5, DivMod
  <1>8. m % (b * p) = t * b + r
    <2> DEFINE u == s * (b * p)
               v == m % (b * p)
               w == t * b + r
    <2>1. u \in Nat /\ v \in Nat /\ w \in Nat /\ m = u + w /\ m = u + v
      BY <1>2, <1>3, <1>4, <1>5, <1>6, <1>7
    <2> HIDE DEF u, v, w
    <2>2. v = w
      BY <2>1
    <2> QED BY <2>2 DEF v, w
  <1> QED BY <1>8 DEF q, r, t

\* What is read back from the bytes of a length is its rest modulo Modulus: after
\* i bytes the value is that of the last i bytes of n without the LenBytes - i that
\* follow.
LEMMA UintRest ==
    ASSUME NEW n \in Nat, NEW b, \A i \in 1..LenBytes : b[i] = PutUint32(n)[i]
    PROVE  Uint32(b) = n % Modulus
  <1>0. Base \in Nat /\ Base > 1 /\ LenBytes \in Nat
    BY CodecConstants
  <1>1. PICK v : /\ Uint32(b) = v[LenBytes]
                 /\ \A i \in 0..LenBytes :
                       v[i] = IF i = 0 THEN 0 ELSE v[i - 1] * Base + b[i]
    BY ValueFacts
  <1> DEFINE S == {i \in 0..LenBytes : v[i] = (n \div Pow[LenBytes - i]) % Pow[i]}
  <1>2. 0 \in S
    <2>1. 0 \in 0..LenBytes /\ LenBytes - 0 = LenBytes /\ LenBytes \in 0..LenBytes
      BY <1>0
    <2>2. Pow[LenBytes] \in Nat /\ Pow[LenBytes] > 0 /\ Pow[0] = 1
      BY <2>1, PowFacts
    <2>3. n \div Pow[LenBytes] \in Nat
      BY <2>2, DivMod
    <2>4. (n \div Pow[LenBytes]) % 1 = 0
      BY <2>3
    <2> QED BY <1>1, <2>1, <2>2, <2>4
  <1>3. ASSUME NEW i \in 0..(LenBytes - 1), i \in S PROVE i + 1 \in S
    <2> DEFINE k == LenBytes - (i + 1)
    <2>1. /\ i + 1 \in 0..LenBytes /\ i + 1 # 0 /\ (i + 1) - 1 = i /\ i + 1 \in 1..LenBytes
          /\ k \in 0..LenBytes /\ LenBytes - i = k + 1 /\ k + 1 \in 0..LenBytes
          /\ k + 1 # 0 /\ (k + 1) - 1 = k /\ i \in 0..LenBytes
      BY <1>0
    <2>2. v[i + 1] = v[i] * Base + b[i + 1] /\ b[i + 1] = PutUint32(n)[i + 1]
      BY <1>1, <2>1
    <2>3. PutUint32(n)[i + 1] = (n \div Pow[LenBytes - (i + 1)]) % Base
      BY <2>1, PutFacts
    <2>4. v[i] = (n \div Pow[k + 1]) % Pow[i]
      BY <1>3, <2>1
    <2>5. /\ Pow[k + 1] = Base * Pow[k] /\ Pow[k] \in Nat /\ Pow[k] > 0
          /\ Pow[i + 1] = Base * Pow[i] /\ Pow[i] \in Nat /\ Pow[i] > 0
      BY <2>1, PowFacts
    <2> HIDE DEF k
    <2>6. n \div (Base * Pow[k]) = (n \div Pow[k]) \div Base
      <3>1. n \in Nat /\ Pow[k] \in Nat /\ Pow[k] > 0 /\ Base \in Nat /\ Base > 0
        BY <1>0, <2>5
      <3> QED BY ONLY <3>1, DivDiv
    <2>7. n \div Pow[k] \in Nat
      BY <2>5, DivMod
    <2>8. (n \div Pow[k]) % (Base * Pow[i])
             = (((n \div Pow[k]) \div Base) % Pow[i]) * Base + ((n \div Pow[k]) % Base)
      <3>1. /\ n \div Pow[k] \in Nat /\ Pow[i] \in Nat /\ Pow[i] > 0
            /\ Base \in Nat /\ Base > 0
        BY <1>0, <2>5, <2>7
      <3> QED BY ONLY <3>1, ModProduct
    <2>9. v[i + 1] = (n \div Pow[k]) % Pow[i + 1]
      BY <2>2, <2>3, <2>4, <2>5, <2>6, <2>8 DEF k
    <2> QED BY <2>1, <2>9 DEF k
  <1>4. LenBytes \in S
    <2> HIDE DEF S
    <2>1. \A i \in 0..LenBytes : i \in S
      BY <1>0, <1>2, <1>3, SetInduction
    <2> QED BY <1>0, <2>1
  <1>5. v[LenBytes] = (n \div Pow[0]) % Pow[LenBytes]
    <2>1. LenBytes - LenBytes = 0
      BY <1>0
    <2> QED BY <1>4, <2>1
  <1>6. Pow[0] = 1
    <2>1. 0 \in 0..LenBytes
      BY <1>0
    <2> QED BY <2>1, PowFacts
  <1>7. n \div 1 = n
    OBVIOUS
  <1> QED BY <1>1, <1>5, <1>6, <1>7 DEF Modulus

\* A length that fits its bytes is read back from them.
LEMMA UintPut ==
    ASSUME NEW n \in Nat, n < Modulus, NEW b,
           \A i \in 1..LenBytes : b[i] = PutUint32(n)[i]
    PROVE  Uint32(b) = n
  <1>1. LenBytes \in 0..LenBytes
    BY CodecConstants
  <1>2. Modulus \in Nat /\ Modulus > 0
    BY <1>1, PowFacts DEF Modulus
  <1>3. n % Modulus = n
    BY <1>2
  <1> QED BY <1>3, UintRest

\* WriteFrame's uint32(len(payload)) and ReadFrame's length are the same number up
\* to 2^32 - 1; beyond, the header of a frame says only the rest of its length
\* (stream.go:34), for every number of bytes of a length and of values of a byte.
THEOREM LengthsWrap == \A n \in Nat : Uint32(PutUint32(n)) = n % Modulus
  BY UintRest

-----------------------------------------------------------------------------
(* FrameCodec: the frames that are read.                                   *)

\* Where the i-th frame begins, behind the one before it.
FrameAt(i) ==
    IF i = 1 THEN 0 ELSE starts[i - 1] + HeaderSize + Len(written[i - 1].payload)

CodecTypes ==
    /\ wire \in Seq(Byte) /\ pos \in Nat /\ half \in Seq(Byte) /\ got \in Seq(Byte)
    /\ conn \in {"open", "ended", "broken"} /\ maxPayloadSize \in PayloadLimits
    /\ want \in [part : {"header", "payload"}, n : Nat]
    /\ want.part = "header" => want.n = HeaderSize
    /\ flag \in Byte
    /\ result \in {"none", "EOF", "ErrUnexpectedEOF", "tooBig"}
    /\ written \in Seq([flag : Byte, payload : Seq(Byte)])
    /\ frames \in Seq([flag : Byte, payload : Seq(Byte)])
    /\ starts \in Seq(Nat) /\ Len(starts) = Len(written)

\* The frames lie one behind the other.
StartsOK ==
    /\ \A i \in 1..Len(starts) : starts[i] = FrameAt(i)
    /\ \A i, j \in 1..Len(starts) : i <= j => starts[i] <= starts[j]

\* The stream holds the frame that begins at s, as far as it goes.
OnWire(s, f) ==
    /\ s + 1 <= Len(wire) => wire[s + 1] = f.flag
    /\ \A k \in 1..LenBytes :
          s + 1 + k <= Len(wire) => wire[s + 1 + k] = PutUint32(Len(f.payload))[k]
    /\ \A k \in 1..Len(f.payload) :
          s + HeaderSize + k <= Len(wire) => wire[s + HeaderSize + k] = f.payload[k]

\* The stream ends where the last frame ends, or before the payload that is not
\* yet written; a stream that broke ends somewhere before that.
WireOK ==
    /\ \A i \in 1..Len(starts) : OnWire(starts[i], written[i])
    /\ Len(wire) <= FrameAt(Len(starts) + 1)
    /\ conn # "broken" => Len(wire) + Len(half) = FrameAt(Len(starts) + 1)
    /\ half # << >> => Len(starts) > 0 /\ half = written[Len(starts)].payload

\* What ReadFull has is the last that was read.
GotOK ==
    /\ pos <= Len(wire) /\ Len(got) <= pos /\ Len(got) <= want.n
    /\ \A k \in 1..Len(got) : got[k] = wire[pos - Len(got) + k]

\* While every length was right the reader is at the frame behind those that it
\* returned, or at its payload.
FrameHere(i) ==
    /\ i <= Len(starts) /\ pos - Len(got) = starts[i] + HeaderSize
    /\ want.n = Len(written[i].payload) /\ flag = written[i].flag

ReadOK ==
    LET k == Len(frames)
    IN  /\ \A i \in 1..k : FitUpTo(i) => i <= Len(starts) /\ frames[i] = written[i]
        /\ want.part = "header" /\ FitUpTo(k) => pos - Len(got) = FrameAt(k + 1)
        /\ want.part = "payload" /\ FitUpTo(k + 1) => FrameHere(k + 1)
        /\ want.part = "payload" /\ maxPayloadSize > 0 => want.n <= maxPayloadSize

\* How each error was found.
ResultOK ==
    LET k == Len(frames)
    IN  /\ result = "EOF" => /\ conn = "ended" /\ want.part = "header"
                             /\ got = << >> /\ pos = Len(wire)
        /\ result = "ErrUnexpectedEOF" =>
              /\ conn # "open" /\ pos = Len(wire) /\ Len(got) < want.n
              /\ want.part = "payload" \/ got # << >> \/ conn # "ended"
        /\ result = "tooBig" /\ FitUpTo(k + 1) =>
              k + 1 <= Len(starts) /\ Len(written[k + 1].payload) > maxPayloadSize

CodecInv == CodecTypes /\ StartsOK /\ WireOK /\ GotOK /\ ReadOK /\ ResultOK
\* Nothing was written or read.
LEMMA CodecInitially == CodecInit => CodecInv
  <1> SUFFICES ASSUME CodecInit PROVE CodecInv
    OBVIOUS
  <1> USE DEF CodecInit
  <1>0. Base \in Nat /\ Base > 1 /\ LenBytes \in Nat /\ HeaderSize \in Nat
    BY CodecConstants DEF HeaderSize
  <1>1. CodecTypes
    <2>1. flag \in Byte
      BY <1>0 DEF Byte
    <2>2. /\ want \in [part : {"header", "payload"}, n : Nat] /\ want.n = HeaderSize
          /\ want.part = "header"
      BY <1>0 DEF Header
    <2>3. /\ wire \in Seq(Byte) /\ half \in Seq(Byte) /\ got \in Seq(Byte)
          /\ written \in Seq([flag : Byte, payload : Seq(Byte)])
          /\ frames \in Seq([flag : Byte, payload : Seq(Byte)])
          /\ starts \in Seq(Nat) /\ Len(starts) = Len(written)
      OBVIOUS
    <2> QED BY <2>1, <2>2, <2>3 DEF CodecTypes
  <1>2. Len(starts) = 0 /\ Len(frames) = 0 /\ Len(got) = 0 /\ Len(wire) = 0 /\ Len(half) = 0
    OBVIOUS
  <1>3. StartsOK
    BY <1>2 DEF StartsOK
  <1>4. FrameAt(1) = 0
    BY DEF FrameAt
  <1>5. WireOK
    BY <1>2, <1>4 DEF WireOK
  <1>6. GotOK
    BY <1>0, <1>2 DEF GotOK, Header
  <1>7. ReadOK
    BY <1>2, <1>4 DEF ReadOK, Header
  <1>8. ResultOK
    BY DEF ResultOK
  <1> QED BY <1>1, <1>3, <1>5, <1>6, <1>7, <1>8 DEF CodecInv

\* Numbers of bytes and of frames.
LEMMA CodecNumbers ==
    ASSUME CodecTypes
    PROVE  /\ Base \in Nat /\ Base > 1 /\ LenBytes \in Nat /\ LenBytes > 0
           /\ HeaderSize \in Nat /\ HeaderSize = 1 + LenBytes
           /\ Len(wire) \in Nat /\ pos \in Nat /\ Len(half) \in Nat /\ Len(got) \in Nat
           /\ want.n \in Nat /\ maxPayloadSize \in Nat
           /\ want.part \in {"header", "payload"}
           /\ Len(starts) \in Nat /\ Len(written) = Len(starts) /\ Len(frames) \in Nat
           /\ \A i \in 1..Len(starts) :
                 /\ starts[i] \in Nat /\ written[i] \in [flag : Byte, payload : Seq(Byte)]
                 /\ written[i].flag \in Byte /\ written[i].payload \in Seq(Byte)
                 /\ Len(written[i].payload) \in Nat
           /\ \A i \in 1..(Len(starts) + 1) : FrameAt(i) \in Nat
  <1> USE CodecConstants DEF CodecTypes
  <1>1. Base \in Nat /\ Base > 1 /\ LenBytes \in Nat /\ LenBytes > 0
    OBVIOUS
  <1>2. HeaderSize \in Nat /\ HeaderSize = 1 + LenBytes
    BY <1>1 DEF HeaderSize
  <1>3. /\ Len(wire) \in Nat /\ pos \in Nat /\ Len(half) \in Nat /\ Len(got) \in Nat
        /\ want.n \in Nat /\ maxPayloadSize \in Nat /\ want.part \in {"header", "payload"}
    OBVIOUS
  <1>4. Len(starts) \in Nat /\ Len(written) = Len(starts) /\ Len(frames) \in Nat
    OBVIOUS
  <1>5. ASSUME NEW i \in 1..Len(starts)
        PROVE  /\ starts[i] \in Nat /\ written[i] \in [flag : Byte, payload : Seq(Byte)]
               /\ written[i].flag \in Byte /\ written[i].payload \in Seq(Byte)
               /\ Len(written[i].payload) \in Nat
    <2>1. starts[i] \in Nat
      BY ElementFacts
    <2>2. written \in Seq([flag : Byte, payload : Seq(Byte)]) /\ i \in 1..Len(written)
      BY <1>4
    <2>3. written[i] \in [flag : Byte, payload : Seq(Byte)]
      BY ONLY <2>2, ElementFacts
    <2>4. written[i].flag \in Byte /\ written[i].payload \in Seq(Byte)
      BY ONLY <2>3
    <2>5. Len(written[i].payload) \in Nat
      BY ONLY <2>4
    <2> QED BY <2>1, <2>3, <2>4, <2>5
  <1>6. ASSUME NEW i \in 1..(Len(starts) + 1) PROVE FrameAt(i) \in Nat
    <2>1. CASE i = 1
      BY <2>1 DEF FrameAt
    <2>2. CASE i # 1
      <3>1. i - 1 \in 1..Len(starts)
        BY <1>4, <2>2
      <3>2. starts[i - 1] \in Nat /\ Len(written[i - 1].payload) \in Nat
        BY <1>5, <3>1
      <3>3. FrameAt(i) = starts[i - 1] + HeaderSize + Len(written[i - 1].payload)
        BY <2>2 DEF FrameAt
      <3> QED BY ONLY <1>2, <3>2, <3>3
    <2> QED BY <2>1, <2>2
  <1> QED BY <1>1, <1>2, <1>3, <1>4, <1>5, <1>6

\* Whether lengths are right, and where a frame begins, depends on what was
\* written.
LEMMA WrittenKept ==
    ASSUME UNCHANGED <<written, starts>>
    PROVE  /\ \A i : FrameAt(i)' = FrameAt(i) /\ FitUpTo(i)' = FitUpTo(i)
           /\ StartsOK => StartsOK'
  <1>1. \A i : FrameAt(i)' = FrameAt(i) /\ FitUpTo(i)' = FitUpTo(i)
    BY DEF FrameAt, FitUpTo
  <1>2. StartsOK => StartsOK'
    BY <1>1 DEF StartsOK
  <1> QED BY <1>1, <1>2

\* The reader's steps leave the stream alone.
LEMMA StreamKept ==
    ASSUME CodecInv, UNCHANGED <<written, starts, wire, half, conn>>
    PROVE  StartsOK' /\ WireOK'
  <1>1. StartsOK' /\ \A i : FrameAt(i)' = FrameAt(i)
    BY WrittenKept DEF CodecInv
  <1>2. WireOK'
    BY <1>1 DEF CodecInv, WireOK, OnWire
  <1> QED BY <1>1, <1>2

\* WriteFrame writes a header: the new frame begins where the stream ends.
LEMMA CodecWritesHeader ==
    ASSUME CodecInv, NEW f \in Byte, NEW p \in Payloads, WriteHeader(f, p)
    PROVE  CodecInv'
  <1> USE DEF CodecInv
  <1>k. PICK N, L, K : N = Len(starts) /\ L = Len(wire) /\ K = Len(frames)
    OBVIOUS
  <1> USE <1>k
  <1> DEFINE put == PutUint32(Len(p))
             new == Frame(f, p)
  <1>1. /\ conn = "open" /\ half = << >> /\ wire' = wire \o <<f>> \o put /\ half' = p
        /\ written' = Append(written, new) /\ starts' = Append(starts, L)
        /\ UNCHANGED <<conn, maxPayloadSize, pos, want, got, flag, result, frames>>
    BY DEF WriteHeader, readVars
  <1>n. /\ Base \in Nat /\ Base > 1 /\ LenBytes \in Nat /\ LenBytes > 0
        /\ HeaderSize \in Nat /\ HeaderSize = 1 + LenBytes
        /\ L \in Nat /\ pos \in Nat /\ Len(half) \in Nat /\ Len(got) \in Nat
        /\ want.n \in Nat
        /\ N \in Nat /\ Len(written) = N /\ Len(frames) \in Nat
        /\ \A i \in 1..N : /\ starts[i] \in Nat /\ Len(written[i].payload) \in Nat
        /\ \A i \in 1..(N + 1) : FrameAt(i) \in Nat
    BY CodecNumbers
  <1>2. p \in Seq(Byte) /\ Len(p) \in Nat
    <2>1. p \in Seq(Byte)
      BY CodecConstants
    <2> QED BY ONLY <2>1
  <1>3. /\ put \in Seq(Byte) /\ Len(put) = LenBytes
    BY <1>2, PutFacts
  <1>4. /\ new \in [flag : Byte, payload : Seq(Byte)] /\ new.flag = f /\ new.payload = p
    BY <1>2 DEF Frame
  <1> HIDE DEF put, new
  <1>5. /\ wire' \in Seq(Byte) /\ Len(wire') = L + HeaderSize
        /\ \A i \in 1..L : wire'[i] = wire[i]
        /\ wire'[L + 1] = f
        /\ \A i \in 1..LenBytes : wire'[L + 1 + i] = put[i]
    <2> DEFINE w1 == wire \o <<f>>
    <2>1. wire \in Seq(Byte) /\ <<f>> \in Seq(Byte) /\ Len(<<f>>) = 1 /\ <<f>>[1] = f
      BY DEF CodecTypes
    <2>2. /\ w1 \in Seq(Byte) /\ Len(w1) = L + Len(<<f>>)
          /\ \A i \in 1..L : w1[i] = wire[i]
          /\ \A i \in 1..Len(<<f>>) : w1[L + i] = <<f>>[i]
      BY ONLY <1>k, <2>1, BehindFacts
    <2>3. Len(w1) = L + 1 /\ w1[L + 1] = f
      BY <2>1, <2>2
    <2>4. wire' = w1 \o put
      BY <1>1
    <2> HIDE DEF w1
    <2>5. /\ w1 \o put \in Seq(Byte) /\ Len(w1 \o put) = Len(w1) + Len(put)
          /\ \A i \in 1..Len(w1) : (w1 \o put)[i] = w1[i]
          /\ \A i \in 1..Len(put) : (w1 \o put)[Len(w1) + i] = put[i]
      <3>1. w1 \in Seq(Byte) /\ put \in Seq(Byte)
        BY <1>3, <2>2
      <3> QED BY ONLY <3>1, BehindFacts
    <2>6. 1..L \subseteq 1..Len(w1) /\ L + 1 \in 1..Len(w1)
      BY <1>n, <2>3
    <2>7. Len(wire') = L + HeaderSize
      <3>1. Len(wire') = (L + 1) + LenBytes
        BY <1>3, <2>3, <2>4, <2>5
      <3> QED BY <1>n, <3>1
    <2> QED BY <1>3, <2>2, <2>3, <2>4, <2>5, <2>6, <2>7
  <1>6. /\ starts' \in Seq(Nat) /\ Len(starts') = N + 1
        /\ \A i \in 1..N : starts'[i] = starts[i]
        /\ starts'[N + 1] = L
    <2>1. starts \in Seq(Nat)
      BY DEF CodecTypes
    <2> QED BY <1>1, <1>n, <2>1, AppendFacts
  <1>7. /\ written' \in Seq([flag : Byte, payload : Seq(Byte)]) /\ Len(written') = N + 1
        /\ \A i \in 1..N : written'[i] = written[i]
        /\ written'[N + 1] = new
    <2>1. written \in Seq([flag : Byte, payload : Seq(Byte)])
      BY DEF CodecTypes
    <2>2. /\ written' \in Seq([flag : Byte, payload : Seq(Byte)])
          /\ Len(written') = Len(written) + 1
          /\ \A i \in 1..Len(written) : written'[i] = written[i]
          /\ written'[Len(written) + 1] = new
      BY <1>1, <1>4, <2>1, AppendFacts
    <2> QED BY <1>n, <2>2
  <1>8. CodecTypes'
    BY <1>1, <1>2, <1>5, <1>6, <1>7 DEF CodecTypes
  <1>9. L = FrameAt(N + 1)
    <2>1. Len(half) = 0 /\ conn # "broken"
      BY <1>1
    <2> QED BY <1>n, <2>1 DEF WireOK
  <1>10. ASSUME NEW i \in 1..(N + 1) PROVE FrameAt(i)' = FrameAt(i)
    <2>1. i # 1 => i - 1 \in 1..N
      BY <1>n
    <2> QED BY <1>6, <1>7, <2>1 DEF FrameAt
  <1>11. FrameAt(N + 2)' = L + HeaderSize + Len(p)
    <2>1. N + 2 # 1 /\ (N + 2) - 1 = N + 1
      BY <1>n
    <2> QED BY <1>4, <1>6, <1>7, <2>1 DEF FrameAt
  <1>12. \A i \in 1..N : starts[i] <= L
    <2> SUFFICES ASSUME NEW i \in 1..N PROVE starts[i] <= L
      OBVIOUS
    <2>1. N \in 1..N /\ N + 1 # 1 /\ (N + 1) - 1 = N /\ i <= N
      BY <1>n
    <2>2. L = starts[N] + HeaderSize + Len(written[N].payload)
      BY <1>9, <2>1 DEF FrameAt
    <2>3. starts[i] <= starts[N]
      BY <2>1 DEF StartsOK
    <2>4. starts[i] \in Nat /\ starts[N] \in Nat /\ Len(written[N].payload) \in Nat
      BY <1>n, <2>1
    <2> QED BY <1>n, <2>2, <2>3, <2>4
  <1>13. StartsOK'
    <2>1. ASSUME NEW i \in 1..(N + 1) PROVE starts'[i] = FrameAt(i)'
      <3>1. CASE i = N + 1
        BY <1>6, <1>9, <1>10, <3>1
      <3>2. CASE i # N + 1
        <4>1. i \in 1..N
          BY <1>n, <3>2
        <4> QED BY <1>6, <1>10, <4>1 DEF StartsOK
      <3> QED BY <3>1, <3>2
    <2>2. ASSUME NEW i \in 1..(N + 1), NEW j \in 1..(N + 1), i <= j
          PROVE  starts'[i] <= starts'[j]
      <3>1. CASE j = N + 1 /\ i = N + 1
        BY <1>n, <1>6, <3>1
      <3>2. CASE j = N + 1 /\ i # N + 1
        <4>1. i \in 1..N
          BY <1>n, <3>2
        <4> QED BY <1>6, <1>12, <3>2, <4>1
      <3>3. CASE j # N + 1
        <4>1. i \in 1..N /\ j \in 1..N
          BY <1>n, <2>2, <3>3
        <4> QED BY <1>6, <2>2, <4>1 DEF StartsOK
      <3> QED BY <3>1, <3>2, <3>3
    <2> QED BY <1>6, <2>1, <2>2 DEF StartsOK
  <1>14. WireOK'
    <2>1. ASSUME NEW i \in 1..(N + 1) PROVE OnWire(starts[i], written[i])'
      <3>1. CASE i = N + 1
        <4>1. starts'[i] = L /\ written'[i].flag = f /\ written'[i].payload = p
          BY <1>4, <1>6, <1>7, <3>1
        <4>2. \A k \in 1..Len(p) : ~(L + HeaderSize + k <= Len(wire'))
          BY <1>n, <1>2, <1>5
        <4> QED BY <1>5, <4>1, <4>2 DEF OnWire, put
      <3>2. CASE i # N + 1
        <4>1. i \in 1..N
          BY <1>n, <3>2
        <4>2. /\ starts'[i] = starts[i] /\ written'[i] = written[i]
              /\ starts[i] \in Nat /\ Len(written[i].payload) \in Nat
          BY <1>n, <1>6, <1>7, <4>1
        <4>3. OnWire(starts[i], written[i])
          BY <4>1 DEF WireOK
        <4>4. starts[i] + HeaderSize + Len(written[i].payload) <= L
          <5>1. CASE i = N
            <6>1. L = starts[N] + HeaderSize + Len(written[N].payload)
              BY <1>9, <1>n, <4>1, <5>1 DEF FrameAt
            <6> QED BY <1>n, <4>2, <5>1, <6>1
          <5>2. CASE i # N
            <6>1. i + 1 \in 1..N /\ i + 1 # 1 /\ (i + 1) - 1 = i
              BY <1>n, <4>1, <5>2
            <6>2. starts[i + 1] = starts[i] + HeaderSize + Len(written[i].payload)
              BY <6>1 DEF StartsOK, FrameAt
            <6> QED BY <1>12, <6>1, <6>2
          <5> QED BY <5>1, <5>2
        <4>5. /\ starts[i] + 1 \in 1..L
              /\ \A k \in 1..LenBytes : starts[i] + 1 + k \in 1..L
              /\ \A k \in 1..Len(written[i].payload) : starts[i] + HeaderSize + k \in 1..L
          <5> DEFINE a == starts[i]
                     q == Len(written[i].payload)
          <5>1. a \in Nat /\ q \in Nat /\ a + HeaderSize + q <= L
            BY <4>2, <4>4
          <5> HIDE DEF a, q
          <5>2. /\ a + 1 \in 1..L /\ \A k \in 1..LenBytes : a + 1 + k \in 1..L
                /\ \A k \in 1..q : a + HeaderSize + k \in 1..L
            BY <1>n, <5>1
          <5> QED BY <5>2 DEF a, q
        <4>6. \A j \in 1..L : j <= L /\ wire'[j] = wire[j]
          BY <1>n, <1>5
        <4> QED BY <4>2, <4>3, <4>5, <4>6 DEF OnWire
      <3> QED BY <3>1, <3>2
    <2>2. Len(starts') + 1 = N + 2 /\ Len(starts') > 0
      BY <1>n, <1>6
    <2>3. Len(wire') + Len(half') = FrameAt(N + 2)' /\ Len(wire') <= FrameAt(N + 2)'
      <3>1. Len(half') = Len(p)
        BY <1>1
      <3> QED BY <1>n, <1>2, <1>5, <1>11, <3>1
    <2>4. half' = written'[Len(starts')].payload
      BY <1>1, <1>4, <1>6, <1>7
    <2> QED BY <1>6, <2>1, <2>2, <2>3, <2>4 DEF WireOK
  <1>15. GotOK'
    <2>1. \A k \in 1..Len(got) : pos - Len(got) + k \in 1..L
      BY <1>n DEF GotOK
    <2>2. pos <= L + HeaderSize
      BY <1>n DEF GotOK
    <2> QED BY <1>1, <1>5, <2>1, <2>2 DEF GotOK
  <1>16. \A i \in Nat : FitUpTo(i)' => FitUpTo(i)
    <2>1. DOMAIN written = 1..N /\ DOMAIN written' = 1..(N + 1)
      BY <1>n, <1>7 DEF CodecTypes
    <2>2. 1..N \subseteq 1..(N + 1)
      BY <1>n
    <2> QED BY <1>7, <2>1, <2>2 DEF FitUpTo
  <1>17. ReadOK'
    <2>0. K \in Nat /\ K + 1 \in Nat /\ Len(frames') = K
      BY <1>1, <1>n
    <2>1. ASSUME NEW i \in 1..K, FitUpTo(i)'
          PROVE  i <= N /\ i <= N + 1 /\ frames'[i] = written'[i]
      <3>1. i \in Nat /\ FitUpTo(i)
        BY <1>16, <2>1
      <3>2. i <= N /\ frames[i] = written[i]
        BY <3>1 DEF ReadOK
      <3>3. i \in 1..N /\ i <= N + 1
        BY <1>n, <3>2
      <3> QED BY <1>1, <1>7, <3>2, <3>3
    <2>2. ASSUME want.part = "header", FitUpTo(K)' PROVE pos - Len(got) = FrameAt(K + 1)'
      <3>1. FitUpTo(K)
        BY <1>16, <2>0, <2>2
      <3>2. pos - Len(got) = FrameAt(K + 1)
        BY <2>2, <3>1 DEF ReadOK
      <3>3. K # 0 => K <= N
        <4>1. K # 0 => K \in 1..K
          BY <2>0
        <4> QED BY <2>1, <2>2, <4>1
      <3>4. K + 1 \in 1..(N + 1)
        BY <1>n, <2>0, <3>3
      <3> QED BY <1>10, <3>2, <3>4
    <2>3. ASSUME want.part = "payload", FitUpTo(K + 1)' PROVE FrameHere(K + 1)'
      <3>1. FrameHere(K + 1)
        BY <1>16, <2>0, <2>3 DEF ReadOK
      <3>2. K + 1 \in 1..N /\ K + 1 <= N + 1
        BY <1>n, <2>0, <3>1 DEF FrameHere
      <3> QED BY <1>1, <1>6, <1>7, <3>1, <3>2 DEF FrameHere
    <2> QED BY <1>1, <1>6, <2>0, <2>1, <2>2, <2>3 DEF ReadOK
  <1>18. ResultOK'
    <2>0. K \in Nat /\ K + 1 \in Nat
      BY <1>n
    <2>1. result # "EOF" /\ result # "ErrUnexpectedEOF"
      BY <1>1 DEF ResultOK
    <2>2. ASSUME result = "tooBig", FitUpTo(K + 1)'
          PROVE  K + 1 <= N + 1 /\ Len(written'[K + 1].payload) > maxPayloadSize
      <3>0. FitUpTo(K + 1)
        BY <1>16, <2>0, <2>2
      <3>1. K + 1 <= N /\ Len(written[K + 1].payload) > maxPayloadSize
        BY <2>2, <3>0 DEF ResultOK
      <3>2. K + 1 \in 1..N /\ K + 1 <= N + 1
        BY <1>n, <2>0, <3>1
      <3> QED BY <1>7, <3>1, <3>2
    <2> QED BY <1>1, <1>6, <2>1, <2>2 DEF ResultOK
  <1> QED BY <1>8, <1>13, <1>14, <1>15, <1>17, <1>18
\* ... and then the payload, to the end of the frame.
LEMMA CodecWritesPayload ==
    ASSUME CodecInv, WritePayload
    PROVE  CodecInv'
  <1> USE DEF CodecInv
  <1>k. PICK N, L : N = Len(starts) /\ L = Len(wire)
    OBVIOUS
  <1> USE <1>k
  <1>1. /\ conn = "open" /\ half # << >> /\ wire' = wire \o half /\ half' = << >>
        /\ UNCHANGED <<written, starts, conn, maxPayloadSize, pos, want, got, flag, result,
                       frames>>
    BY DEF WritePayload, readVars
  <1>n. /\ LenBytes \in Nat /\ HeaderSize \in Nat /\ HeaderSize = 1 + LenBytes
        /\ L \in Nat /\ pos \in Nat /\ Len(half) \in Nat /\ Len(got) \in Nat /\ N \in Nat
        /\ \A i \in 1..N : /\ starts[i] \in Nat /\ Len(written[i].payload) \in Nat
    BY CodecNumbers
  <1>2. /\ wire' \in Seq(Byte) /\ Len(wire') = L + Len(half)
        /\ \A i \in 1..L : wire'[i] = wire[i]
        /\ \A i \in 1..Len(half) : wire'[L + i] = half[i]
    <2>1. wire \in Seq(Byte) /\ half \in Seq(Byte)
      BY DEF CodecTypes
    <2> QED BY <1>1, <2>1, BehindFacts
  <1>3. /\ \A i : FrameAt(i)' = FrameAt(i) /\ FitUpTo(i)' = FitUpTo(i)
        /\ StartsOK'
    BY <1>1, WrittenKept
  <1>4. << >> \in Seq(Byte) /\ Len(<< >>) = 0
    OBVIOUS
  <1>5. CodecTypes'
    BY <1>1, <1>2, <1>4 DEF CodecTypes
  <1>6. N > 0 /\ half = written[N].payload /\ L + Len(half) = FrameAt(N + 1)
    BY <1>1 DEF WireOK
  <1>7. /\ N \in 1..N /\ starts[N] \in Nat /\ L = starts[N] + HeaderSize
    <2>1. N \in 1..N /\ N + 1 # 1 /\ (N + 1) - 1 = N
      BY <1>n, <1>6
    <2>2. starts[N] \in Nat /\ FrameAt(N + 1) = starts[N] + HeaderSize + Len(half)
      BY <1>n, <1>6, <2>1 DEF FrameAt
    <2> QED BY <1>n, <1>6, <2>1, <2>2
  <1>8. WireOK'
    <2>1. ASSUME NEW i \in 1..N PROVE OnWire(starts[i], written[i])'
      <3> DEFINE a == starts[i]
                 q == Len(written[i].payload)
      <3>1. a \in Nat /\ q \in Nat /\ OnWire(starts[i], written[i])
        BY <1>n DEF WireOK
      <3>2. a <= starts[N]
        BY <1>n, <1>7 DEF StartsOK
      <3>3. a + 1 \in 1..L /\ \A k \in 1..LenBytes : a + 1 + k \in 1..L
        <4> HIDE DEF a
        <4> QED BY <1>n, <1>7, <3>1, <3>2
      <3>4. ASSUME NEW k \in 1..q
            PROVE  wire'[a + HeaderSize + k] = written[i].payload[k]
        <4>1. CASE i = N
          <5>1. a + HeaderSize = L /\ k \in 1..Len(half)
            BY <1>6, <1>7, <4>1
          <5> QED BY <1>2, <1>6, <4>1, <5>1
        <4>2. CASE i # N
          <5>1. i + 1 \in 1..N /\ i + 1 # 1 /\ (i + 1) - 1 = i /\ i + 1 <= N
            BY <1>n, <4>2
          <5>2. starts[i + 1] = a + HeaderSize + q /\ starts[i + 1] <= starts[N]
            BY <1>7, <5>1 DEF StartsOK, FrameAt
          <5>3. a + HeaderSize + k \in 1..L /\ a + HeaderSize + k <= L
            <6> HIDE DEF a, q
            <6> QED BY <1>n, <1>7, <3>1, <5>2
          <5>4. wire[a + HeaderSize + k] = written[i].payload[k]
            BY <3>1, <5>3 DEF OnWire
          <5> QED BY <1>2, <5>3, <5>4
        <4> QED BY <4>1, <4>2
      <3>5. \A j \in 1..L : j <= L
        BY <1>n
      <3> QED BY <1>1, <1>2, <3>1, <3>3, <3>4, <3>5 DEF OnWire
    <2>2. Len(wire') + Len(half') = FrameAt(N + 1) /\ Len(wire') <= FrameAt(N + 1)
      BY <1>n, <1>1, <1>2, <1>4, <1>6
    <2> QED BY <1>1, <1>3, <2>1, <2>2 DEF WireOK
  <1>9. GotOK'
    <2>1. /\ \A k \in 1..Len(got) : pos - Len(got) + k \in 1..L
          /\ pos <= L + Len(half)
      BY <1>n DEF GotOK
    <2> QED BY <1>1, <1>2, <2>1 DEF GotOK
  <1>10. ReadOK'
    BY <1>1, <1>3 DEF ReadOK, FrameHere
  <1>11. ResultOK'
    BY <1>1, <1>3 DEF ResultOK
  <1> QED BY <1>3, <1>5, <1>8, <1>9, <1>10, <1>11

\* The stream ends or breaks.
LEMMA CodecStops ==
    ASSUME CodecInv, End \/ \E k \in 0..Len(wire) : Break(k)
    PROVE  CodecInv'
  <1> USE DEF CodecInv
  <1>n. Len(wire) \in Nat /\ pos \in Nat /\ Len(got) \in Nat
    BY CodecNumbers
  <1>1. /\ conn = "open"
        /\ UNCHANGED <<half, written, starts, maxPayloadSize, pos, want, got, flag, result,
                       frames>>
    BY DEF End, Break, writeVars, readVars
  <1>2. /\ \A i : FrameAt(i)' = FrameAt(i) /\ FitUpTo(i)' = FitUpTo(i)
        /\ StartsOK'
    BY <1>1, WrittenKept
  <1>3. CASE End
    <2>1. conn' = "ended" /\ UNCHANGED wire
      BY <1>3 DEF End
    <2>2. CodecTypes'
      BY <1>1, <2>1 DEF CodecTypes
    <2>3. WireOK'
      BY <1>1, <1>2, <2>1 DEF WireOK, OnWire
    <2>4. GotOK'
      BY <1>1, <2>1 DEF GotOK
    <2>5. ReadOK'
      BY <1>1, <1>2 DEF ReadOK, FrameHere
    <2>6. ResultOK'
      BY <1>1, <1>2, <2>1 DEF ResultOK
    <2> QED BY <1>2, <2>2, <2>3, <2>4, <2>5, <2>6
  <1>4. ASSUME NEW k \in 0..Len(wire), Break(k) PROVE CodecInv'
    <2>1. conn' = "broken" /\ pos <= k /\ wire' = SubSeq(wire, 1, k)
      BY <1>4 DEF Break
    <2>2. /\ wire' \in Seq(Byte) /\ Len(wire') = k /\ k \in Nat /\ k <= Len(wire)
          /\ \A i \in 1..k : wire'[i] = wire[i]
      <3>1. wire \in Seq(Byte)
        BY DEF CodecTypes
      <3>2. k \in Nat /\ 1 \in Nat /\ 1 <= 1 /\ 1 <= k + 1 /\ k <= Len(wire)
        BY <1>n
      <3>3. /\ SubSeq(wire, 1, k) \in Seq(Byte) /\ Len(SubSeq(wire, 1, k)) = k - 1 + 1
            /\ \A i \in 1..(k - 1 + 1) : SubSeq(wire, 1, k)[i] = wire[1 + i - 1]
        BY ONLY <3>1, <3>2, PartFacts
      <3> QED BY <2>1, <3>2, <3>3
    <2>3. CodecTypes'
      BY <1>1, <2>1, <2>2 DEF CodecTypes
    <2>4. WireOK'
      <3>1. ASSUME NEW i \in 1..Len(starts) PROVE OnWire(starts[i], written[i])'
        <4> DEFINE a == starts[i]
                   q == Len(written[i].payload)
        <4>1. /\ a \in Nat /\ q \in Nat /\ OnWire(starts[i], written[i])
              /\ LenBytes \in Nat /\ HeaderSize \in Nat
          BY CodecNumbers DEF WireOK
        <4>2. /\ a + 1 <= k => a + 1 \in 1..k /\ a + 1 <= Len(wire)
              /\ \A j \in 1..LenBytes :
                    a + 1 + j <= k => a + 1 + j \in 1..k /\ a + 1 + j <= Len(wire)
              /\ \A j \in 1..q :
                    a + HeaderSize + j <= k =>
                       a + HeaderSize + j \in 1..k /\ a + HeaderSize + j <= Len(wire)
          <5> HIDE DEF a, q
          <5> QED BY <1>n, <2>2, <4>1
        <4> QED BY <1>1, <2>2, <4>1, <4>2 DEF OnWire
      <3>2. Len(wire') <= FrameAt(Len(starts) + 1)
        <4>1. Len(starts) + 1 \in 1..(Len(starts) + 1)
          BY CodecNumbers
        <4>2. FrameAt(Len(starts) + 1) \in Nat
          BY <4>1, CodecNumbers
        <4> QED BY <1>n, <2>2, <4>2 DEF WireOK
      <3> QED BY <1>1, <1>2, <2>1, <3>1, <3>2 DEF WireOK
    <2>5. GotOK'
      <3>1. \A j \in 1..Len(got) : pos - Len(got) + j \in 1..k
        BY <1>n, <2>1, <2>2 DEF GotOK
      <3> QED BY <1>1, <2>1, <2>2, <3>1 DEF GotOK
    <2>6. ReadOK'
      BY <1>1, <1>2 DEF ReadOK, FrameHere
    <2>7. ResultOK'
      BY <1>1, <1>2, <2>1 DEF ResultOK
    <2> QED BY <1>2, <2>3, <2>4, <2>5, <2>6, <2>7
  <1> QED BY <1>3, <1>4

\* A Read delivers some bytes.
LEMMA CodecReads ==
    ASSUME CodecInv, NEW n \in 1..(Len(wire) - pos), ReadSome(n)
    PROVE  CodecInv'
  <1> USE DEF CodecInv
  <1> DEFINE part == SubSeq(wire, pos + 1, pos + n)
  <1>1. /\ result = "none" /\ n <= want.n - Len(got)
        /\ got' = got \o part /\ pos' = pos + n
        /\ UNCHANGED <<wire, conn, maxPayloadSize, half, written, starts, want, flag,
                       result, frames>>
    BY DEF ReadSome, writeVars
  <1>n. /\ Len(wire) \in Nat /\ pos \in Nat /\ Len(got) \in Nat /\ want.n \in Nat /\ n \in Nat
        /\ pos + n <= Len(wire)
    <2>1. Len(wire) \in Nat /\ pos \in Nat /\ Len(got) \in Nat /\ want.n \in Nat
      BY CodecNumbers
    <2> QED BY <2>1
  <1>2. StartsOK' /\ WireOK' /\ \A i : FrameAt(i)' = FrameAt(i) /\ FitUpTo(i)' = FitUpTo(i)
    BY <1>1, StreamKept, WrittenKept
  <1>3. wire \in Seq(Byte) /\ got \in Seq(Byte)
    BY DEF CodecTypes
  <1>4. /\ part \in Seq(Byte) /\ Len(part) = n
        /\ \A i \in 1..n : part[i] = wire[pos + i]
    BY ONLY <1>3, <1>n, NextFacts
  <1> HIDE DEF part
  <1>5. /\ got' \in Seq(Byte) /\ Len(got') = Len(got) + n
        /\ \A i \in 1..Len(got) : got'[i] = got[i]
        /\ \A i \in 1..n : got'[Len(got) + i] = wire[pos + i]
    <2>1. /\ got \o part \in Seq(Byte) /\ Len(got \o part) = Len(got) + Len(part)
          /\ \A i \in 1..Len(got) : (got \o part)[i] = got[i]
          /\ \A i \in 1..Len(part) : (got \o part)[Len(got) + i] = part[i]
      <3>1. got \in Seq(Byte) /\ part \in Seq(Byte)
        BY <1>3, <1>4
      <3> QED BY ONLY <3>1, BehindFacts
    <2> QED BY <1>1, <1>4, <2>1
  <1>6. CodecTypes'
    BY <1>1, <1>n, <1>5 DEF CodecTypes
  <1>7. Len(got) <= pos /\ pos' - Len(got') = pos - Len(got)
    BY <1>1, <1>n, <1>5 DEF GotOK
  <1>8. GotOK'
    <2>1. pos' <= Len(wire') /\ Len(got') <= pos' /\ Len(got') <= want'.n
      BY <1>1, <1>n, <1>5, <1>7
    <2>2. ASSUME NEW k \in 1..Len(got') PROVE got'[k] = wire'[pos' - Len(got') + k]
      <3>1. CASE k <= Len(got)
        <4>1. k \in 1..Len(got)
          BY <1>n, <3>1
        <4> QED BY <1>1, <1>5, <1>7, <4>1 DEF GotOK
      <3>2. CASE k > Len(got)
        <4>1. /\ k - Len(got) \in 1..n /\ Len(got) + (k - Len(got)) = k
              /\ pos + (k - Len(got)) = pos - Len(got) + k
          BY <1>n, <1>5, <3>2
        <4>2. got'[Len(got) + (k - Len(got))] = wire[pos + (k - Len(got))]
          BY <1>5, <4>1
        <4> QED BY <1>1, <1>7, <4>1, <4>2
      <3> QED BY <1>n, <1>5, <3>1, <3>2
    <2> QED BY <2>1, <2>2 DEF GotOK
  <1>9. ReadOK'
    BY <1>1, <1>2, <1>7 DEF ReadOK, FrameHere
  <1>10. ResultOK'
    BY <1>1 DEF ResultOK
  <1> QED BY <1>2, <1>6, <1>8, <1>9, <1>10

\* ReadFull finds that nothing more will come.
LEMMA CodecReadEnds ==
    ASSUME CodecInv, ReadEnds
    PROVE  CodecInv'
  <1> USE DEF CodecInv
  <1>1. /\ result = "none" /\ Len(got) < want.n /\ pos = Len(wire) /\ conn # "open"
        /\ result' = IF AtEOF THEN "EOF" ELSE "ErrUnexpectedEOF"
        /\ UNCHANGED <<wire, conn, maxPayloadSize, half, written, starts, pos, want, got,
                       flag, frames>>
    BY DEF ReadEnds, ReadEndsWith, NoMoreBytes, Return, writeVars
  <1>2. StartsOK' /\ WireOK' /\ \A i : FrameAt(i)' = FrameAt(i) /\ FitUpTo(i)' = FitUpTo(i)
    BY <1>1, StreamKept, WrittenKept
  <1>3. CodecTypes'
    BY <1>1 DEF CodecTypes
  <1>4. GotOK'
    BY <1>1 DEF GotOK
  <1>5. ReadOK'
    BY <1>1, <1>2 DEF ReadOK, FrameHere
  <1>6. ResultOK'
    BY <1>1, CodecNumbers DEF ResultOK, AtEOF
  <1> QED BY <1>2, <1>3, <1>4, <1>5, <1>6
\* While lengths are right there is a frame after every frame that was returned,
\* and the frames behind the first k are as long as they say.
LEMMA FitFacts ==
    ASSUME CodecInv, NEW k \in Nat, FitUpTo(k + 1)
    PROVE  /\ FitUpTo(k) /\ (k = Len(frames) => k <= Len(starts))
           /\ k + 1 <= Len(starts) => Len(written[k + 1].payload) < Modulus
  <1> USE DEF CodecInv
  <1>n. Len(starts) \in Nat /\ Len(written) = Len(starts) /\ Len(frames) \in Nat
    BY CodecNumbers
  <1>1. 1..k \subseteq 1..(k + 1) /\ k + 1 \in 1..(k + 1) /\ (k # 0 => k \in 1..k)
    OBVIOUS
  <1>2. FitUpTo(k)
    BY <1>1 DEF FitUpTo
  <1>3. k = Len(frames) => k <= Len(starts)
    BY <1>n, <1>1, <1>2 DEF ReadOK
  <1>4. DOMAIN written = 1..Len(starts)
    BY <1>n DEF CodecTypes
  <1>5. ASSUME k + 1 <= Len(starts) PROVE Len(written[k + 1].payload) < Modulus
    <2>1. k + 1 \in DOMAIN written
      BY <1>n, <1>4, <1>5
    <2> QED BY <1>1, <2>1 DEF FitUpTo
  <1> QED BY <1>2, <1>3, <1>5

\* What any complete header holds.
LEMMA HeaderFacts ==
    ASSUME CodecInv, want.part = "header", Len(got) = want.n
    PROVE  /\ Len(got) = HeaderSize /\ got[1] \in Byte
           /\ \A i \in 1..LenBytes : Tail(got)[i] = got[1 + i]
           /\ Uint32(Tail(got)) \in Nat
  <1> USE DEF CodecInv
  <1>n. LenBytes \in Nat /\ HeaderSize = 1 + LenBytes /\ Len(got) = HeaderSize
    BY CodecNumbers DEF CodecTypes
  <1>1. got \in Seq(Byte) /\ got # << >>
    BY <1>n DEF CodecTypes
  <1>2. /\ Tail(got) \in Seq(Byte) /\ Len(Tail(got)) = LenBytes
        /\ \A i \in 1..LenBytes : Tail(got)[i] = got[i + 1]
    BY ONLY <1>n, <1>1
  <1>3. got[1] \in Byte
    BY ONLY <1>n, <1>1
  <1>4. \A i \in 1..LenBytes : Tail(got)[i] \in Byte
    BY ONLY <1>2
  <1>5. Uint32(Tail(got)) \in Nat
    BY <1>4, UintType
  <1>6. \A i \in 1..LenBytes : i + 1 = 1 + i
    BY <1>n
  <1> QED BY <1>n, <1>2, <1>3, <1>5, <1>6

\* While lengths are right a complete header is the next frame's, and it says how
\* long its payload is.
LEMMA HeaderRead ==
    ASSUME CodecInv, want.part = "header", Len(got) = want.n,
           NEW k \in Nat, k = Len(frames), FitUpTo(k + 1)
    PROVE  /\ k + 1 \in 1..Len(starts) /\ pos = starts[k + 1] + HeaderSize
           /\ got[1] = written[k + 1].flag
           /\ Uint32(Tail(got)) = Len(written[k + 1].payload)
  <1> USE DEF CodecInv
  <1>n. /\ LenBytes \in Nat /\ HeaderSize = 1 + LenBytes /\ HeaderSize \in Nat
        /\ Len(wire) \in Nat /\ pos \in Nat /\ Len(got) \in Nat /\ Len(starts) \in Nat
        /\ \A i \in 1..(Len(starts) + 1) : FrameAt(i) \in Nat
    BY CodecNumbers
  <1>1. Len(got) = HeaderSize /\ \A i \in 1..LenBytes : Tail(got)[i] = got[1 + i]
    BY HeaderFacts
  <1>2. /\ FitUpTo(k) /\ k <= Len(starts)
        /\ k + 1 <= Len(starts) => Len(written[k + 1].payload) < Modulus
    BY FitFacts
  <1>3. pos - HeaderSize = FrameAt(k + 1)
    BY <1>1, <1>2 DEF ReadOK
  <1>4. k + 1 \in 1..Len(starts)
    <2>1. CASE k = Len(starts)
      <3>1. Len(wire) <= FrameAt(k + 1) /\ pos <= Len(wire)
        BY <2>1 DEF WireOK, GotOK
      <3>2. FrameAt(k + 1) \in Nat
        BY <1>n, <2>1
      <3> QED BY <1>n, <1>3, <3>1, <3>2
    <2> QED BY <1>n, <1>2, <2>1
  <1>5. starts[k + 1] = FrameAt(k + 1) /\ OnWire(starts[k + 1], written[k + 1])
    BY <1>4 DEF StartsOK, WireOK
  <1> DEFINE a == starts[k + 1]
             q == Len(written[k + 1].payload)
  <1>6. a \in Nat /\ q \in Nat
    BY <1>4, CodecNumbers
  <1>7. /\ OnWire(a, written[k + 1]) /\ q = Len(written[k + 1].payload)
        /\ a = pos - HeaderSize
    BY <1>3, <1>5
  <1>8. q < Modulus
    BY <1>n, <1>2, <1>4
  <1> HIDE DEF a, q
  <1>9. pos = a + HeaderSize /\ pos <= Len(wire)
    BY <1>n, <1>6, <1>7 DEF GotOK
  <1>10. ASSUME NEW i \in 1..HeaderSize PROVE got[i] = wire[a + i] /\ a + i <= Len(wire)
    <2>1. got[i] = wire[pos - HeaderSize + i]
      BY <1>1 DEF GotOK
    <2>2. pos - HeaderSize + i = a + i /\ a + i <= Len(wire)
      BY <1>n, <1>6, <1>9
    <2> QED BY <2>1, <2>2
  <1>11. got[1] = written[k + 1].flag
    <2>1. 1 \in 1..HeaderSize
      BY <1>n
    <2> QED BY <1>7, <1>10, <2>1 DEF OnWire
  <1>12. ASSUME NEW i \in 1..LenBytes PROVE Tail(got)[i] = PutUint32(q)[i]
    <2>1. 1 + i \in 1..HeaderSize /\ a + (1 + i) = a + 1 + i
      BY <1>n, <1>6
    <2>2. got[1 + i] = wire[a + 1 + i] /\ a + 1 + i <= Len(wire)
      BY <1>10, <2>1
    <2>3. wire[a + 1 + i] = PutUint32(q)[i]
      BY <1>7, <2>2 DEF OnWire
    <2> QED BY <1>1, <2>2, <2>3
  <1>13. Uint32(Tail(got)) = q
    BY <1>6, <1>8, <1>12, UintPut
  <1> QED BY <1>4, <1>9, <1>11, <1>13 DEF a, q

\* A frame is returned: the reader is at the frame behind it.
LEMMA CodecReturns ==
    ASSUME CodecInv, NEW f \in Byte, NEW p \in Seq(Byte), ReturnFrame(f, p),
           UNCHANGED <<wire, conn, maxPayloadSize, half, written, starts>>,
           result = "none", NEW k \in Nat, k = Len(frames),
           FitUpTo(k + 1) => /\ k + 1 \in 1..Len(starts)
                             /\ f = written[k + 1].flag /\ p = written[k + 1].payload
                             /\ pos = starts[k + 1] + HeaderSize + Len(p)
    PROVE  CodecInv'
  <1> USE DEF CodecInv
  <1>1. /\ frames' = Append(frames, Frame(f, p)) /\ want' = Header /\ got' = << >>
        /\ UNCHANGED <<pos, flag, result>>
    BY DEF ReturnFrame
  <1>n. /\ HeaderSize \in Nat /\ pos \in Nat /\ Len(wire) \in Nat /\ Len(starts) \in Nat
        /\ Len(written) = Len(starts)
    BY CodecNumbers
  <1>2. StartsOK' /\ WireOK' /\ \A i : FrameAt(i)' = FrameAt(i) /\ FitUpTo(i)' = FitUpTo(i)
    BY StreamKept, WrittenKept
  <1>3. Frame(f, p) \in [flag : Byte, payload : Seq(Byte)]
    BY DEF Frame
  <1>4. /\ frames' \in Seq([flag : Byte, payload : Seq(Byte)]) /\ Len(frames') = k + 1
        /\ \A i \in 1..k : frames'[i] = frames[i]
        /\ frames'[k + 1] = Frame(f, p)
    <2>1. frames \in Seq([flag : Byte, payload : Seq(Byte)])
      BY DEF CodecTypes
    <2> QED BY <1>1, <1>3, <2>1, AppendFacts
  <1>5. /\ want' \in [part : {"header", "payload"}, n : Nat] /\ want'.part = "header"
        /\ want'.n = HeaderSize /\ got' \in Seq(Byte) /\ Len(got') = 0
    BY <1>1, <1>n DEF Header
  <1>6. CodecTypes'
    BY <1>1, <1>4, <1>5 DEF CodecTypes
  <1>7. GotOK'
    BY <1>1, <1>n, <1>5 DEF GotOK
  <1>8. ReadOK'
    <2>1. ASSUME NEW i \in 1..(k + 1), FitUpTo(i)
          PROVE  i <= Len(starts) /\ frames'[i] = written[i]
      <3>1. CASE i = k + 1
        <4>1. /\ k + 1 \in 1..Len(starts)
              /\ f = written[k + 1].flag /\ p = written[k + 1].payload
          BY <2>1, <3>1
        <4>2. written[k + 1] \in [flag : Byte, payload : Seq(Byte)]
          BY <4>1, CodecNumbers
        <4>3. written[k + 1] = Frame(written[k + 1].flag, written[k + 1].payload)
          BY ONLY <4>2 DEF Frame
        <4> QED BY <1>n, <1>4, <3>1, <4>1, <4>3
      <3>2. CASE i # k + 1
        <4>1. i \in 1..k
          BY <3>2
        <4> QED BY <1>4, <2>1, <4>1 DEF ReadOK
      <3> QED BY <3>1, <3>2
    <2>2. ASSUME FitUpTo(k + 1) PROVE pos' - Len(got') = FrameAt(k + 2)
      <3>1. k + 2 # 1 /\ (k + 2) - 1 = k + 1
        OBVIOUS
      <3>2. /\ FrameAt(k + 2) = starts[k + 1] + HeaderSize + Len(written[k + 1].payload)
        BY <3>1 DEF FrameAt
      <3>3. pos - 0 = pos
        BY <1>n
      <3> QED BY <1>1, <1>5, <2>2, <3>2, <3>3
    <2>3. (k + 1) + 1 = k + 2
      OBVIOUS
    <2> QED BY <1>2, <1>4, <1>5, <2>1, <2>2, <2>3 DEF ReadOK
  <1>9. ResultOK'
    BY <1>1 DEF ResultOK
  <1> QED BY <1>2, <1>6, <1>7, <1>8, <1>9

\* ReadFrame has a header.
LEMMA CodecReadsHeader ==
    ASSUME CodecInv, ReadHeader
    PROVE  CodecInv'
  <1> USE DEF CodecInv
  <1>k. PICK k : k = Len(frames)
    OBVIOUS
  <1> DEFINE n == Uint32(Tail(got))
             refused == maxPayloadSize > 0 /\ n > maxPayloadSize
  <1>1. /\ result = "none" /\ want.part = "header" /\ Len(got) = want.n
        /\ UNCHANGED <<wire, conn, maxPayloadSize, half, written, starts>>
        /\ \/ refused /\ Return("tooBig")
           \/ ~refused /\ n = 0 /\ ReturnFrame(got[1], << >>)
           \/ /\ ~refused /\ n # 0 /\ flag' = got[1] /\ got' = << >>
              /\ want' = [part |-> "payload", n |-> n]
              /\ UNCHANGED <<pos, result, frames>>
    BY DEF ReadHeader, ReadHeaderWith, writeVars
  <1>2. got[1] \in Byte /\ n \in Nat
    BY <1>1, HeaderFacts
  <1>n. /\ k \in Nat /\ HeaderSize \in Nat /\ pos \in Nat /\ maxPayloadSize \in Nat
        /\ Len(starts) \in Nat /\ Len(wire) \in Nat
    BY <1>k, CodecNumbers
  <1>3. ASSUME FitUpTo(k + 1)
        PROVE  /\ k + 1 \in 1..Len(starts) /\ pos = starts[k + 1] + HeaderSize
               /\ got[1] = written[k + 1].flag /\ n = Len(written[k + 1].payload)
               /\ k + 1 <= Len(starts) /\ starts[k + 1] \in Nat
               /\ written[k + 1].payload \in Seq(Byte)
    <2>1. /\ k + 1 \in 1..Len(starts) /\ pos = starts[k + 1] + HeaderSize
          /\ got[1] = written[k + 1].flag /\ n = Len(written[k + 1].payload)
      BY <1>1, <1>3, <1>k, <1>n, HeaderRead
    <2> QED BY <1>n, <2>1, CodecNumbers
  <1> HIDE DEF n
  <1>4. StartsOK' /\ WireOK' /\ \A i : FrameAt(i)' = FrameAt(i) /\ FitUpTo(i)' = FitUpTo(i)
    BY <1>1, StreamKept, WrittenKept
  <1>5. CASE refused /\ Return("tooBig")
    <2>1. result' = "tooBig" /\ UNCHANGED <<pos, want, got, flag, frames>>
      BY <1>5 DEF Return
    <2>2. CodecTypes'
      BY <1>1, <2>1 DEF CodecTypes
    <2>3. GotOK'
      BY <1>1, <2>1 DEF GotOK
    <2>4. ReadOK'
      BY <1>1, <1>4, <2>1 DEF ReadOK, FrameHere
    <2>5. ResultOK'
      BY <1>1, <1>3, <1>4, <1>5, <1>k, <2>1 DEF ResultOK
    <2> QED BY <1>4, <2>2, <2>3, <2>4, <2>5
  <1>6. CASE n = 0 /\ ReturnFrame(got[1], << >>)
    <2>1. << >> \in Seq(Byte) /\ Len(<< >>) = 0
      OBVIOUS
    <2>2. ASSUME FitUpTo(k + 1)
          PROVE  /\ k + 1 \in 1..Len(starts) /\ got[1] = written[k + 1].flag
                 /\ << >> = written[k + 1].payload
                 /\ pos = starts[k + 1] + HeaderSize + Len(<< >>)
      <3>1. written[k + 1].payload \in Seq(Byte) /\ Len(written[k + 1].payload) = 0
        BY <1>3, <1>6, <2>2
      <3>2. << >> = written[k + 1].payload
        BY ONLY <3>1
      <3>3. pos = starts[k + 1] + HeaderSize + 0
        BY <1>n, <1>3, <2>2
      <3> QED BY <1>3, <2>1, <2>2, <3>2, <3>3
    <2> HIDE DEF CodecInv
    <2> QED BY <1>1, <1>2, <1>6, <1>k, <1>n, <2>1, <2>2, CodecReturns
  <1>7. CASE /\ ~refused /\ n # 0 /\ flag' = got[1] /\ got' = << >>
             /\ want' = [part |-> "payload", n |-> n]
             /\ UNCHANGED <<pos, result, frames>>
    <2>1. /\ want' \in [part : {"header", "payload"}, n : Nat] /\ want'.part = "payload"
          /\ want'.n = n /\ got' \in Seq(Byte) /\ Len(got') = 0
      BY <1>2, <1>7
    <2>2. CodecTypes'
      BY <1>1, <1>2, <1>7, <2>1 DEF CodecTypes
    <2>3. GotOK'
      <3>1. pos <= Len(wire)
        BY DEF GotOK
      <3> QED BY <1>1, <1>2, <1>7, <1>n, <2>1, <3>1 DEF GotOK
    <2>4. ASSUME FitUpTo(k + 1) PROVE FrameHere(k + 1)'
      <3>1. pos - 0 = pos
        BY <1>n
      <3> QED BY <1>1, <1>3, <1>7, <2>1, <2>4, <3>1 DEF FrameHere
    <2>5. maxPayloadSize > 0 => n <= maxPayloadSize
      BY <1>2, <1>7, <1>n
    <2>6. ReadOK'
      <3>1. Len(frames') = k /\ frames' = frames
        BY <1>7, <1>k
      <3> QED BY <1>1, <1>4, <1>k, <2>1, <2>4, <2>5, <3>1 DEF ReadOK
    <2>7. ResultOK'
      BY <1>1, <1>7 DEF ResultOK
    <2> QED BY <1>4, <2>2, <2>3, <2>6, <2>7
  <1> QED BY <1>1, <1>5, <1>6, <1>7

\* ReadFrame has the payload too.
LEMMA CodecReadsPayload ==
    ASSUME CodecInv, ReadPayload
    PROVE  CodecInv'
  <1> USE DEF CodecInv
  <1>k. PICK k : k = Len(frames)
    OBVIOUS
  <1>1. /\ result = "none" /\ want.part = "payload" /\ Len(got) = want.n
        /\ ReturnFrame(flag, got)
        /\ UNCHANGED <<wire, conn, maxPayloadSize, half, written, starts>>
    BY DEF ReadPayload, writeVars
  <1>n. /\ k \in Nat /\ HeaderSize \in Nat /\ pos \in Nat /\ Len(got) \in Nat
        /\ Len(starts) \in Nat /\ Len(wire) \in Nat
    BY <1>k, CodecNumbers
  <1>2. flag \in Byte /\ got \in Seq(Byte)
    BY DEF CodecTypes
  <1>3. ASSUME FitUpTo(k + 1)
        PROVE  /\ k + 1 \in 1..Len(starts) /\ flag = written[k + 1].flag
               /\ got = written[k + 1].payload
               /\ pos = starts[k + 1] + HeaderSize + Len(got)
    <2> DEFINE a == starts[k + 1]
               q == written[k + 1].payload
    <2>1. FrameHere(k + 1)
      BY <1>1, <1>3, <1>k DEF ReadOK
    <2>2. k + 1 \in 1..Len(starts)
      BY <1>n, <2>1 DEF FrameHere
    <2>3. /\ a \in Nat /\ q \in Seq(Byte) /\ Len(q) \in Nat /\ OnWire(a, written[k + 1])
      BY <2>2, CodecNumbers DEF WireOK
    <2>4. pos - Len(got) = a + HeaderSize /\ Len(got) = Len(q) /\ flag = written[k + 1].flag
      BY <1>1, <2>1 DEF FrameHere
    <2>5. q = written[k + 1].payload
      OBVIOUS
    <2> HIDE DEF a, q
    <2>6. pos = a + HeaderSize + Len(got) /\ pos <= Len(wire)
      BY <1>n, <2>3, <2>4 DEF GotOK
    <2>7. ASSUME NEW i \in 1..Len(q) PROVE got[i] = q[i]
      <3>1. a + HeaderSize + i <= Len(wire)
        BY <1>n, <2>3, <2>4, <2>6
      <3>2. wire[a + HeaderSize + i] = q[i]
        BY <2>3, <2>5, <3>1 DEF OnWire
      <3>3. got[i] = wire[pos - Len(got) + i]
        BY <2>4 DEF GotOK
      <3> QED BY <2>4, <3>2, <3>3
    <2>8. q = got
      BY ONLY <1>2, <2>3, <2>4, <2>7, SameSeq
    <2> QED BY <2>2, <2>4, <2>6, <2>8 DEF a, q
  <1> HIDE DEF CodecInv
  <1> QED BY <1>1, <1>2, <1>3, <1>k, <1>n, CodecReturns

\* Every step keeps the invariant.
LEMMA CodecStep == CodecInv /\ [CodecNext]_codecVars => CodecInv'
  <1> SUFFICES ASSUME CodecInv, [CodecNext]_codecVars PROVE CodecInv'
    OBVIOUS
  <1>1. CASE CodecDone \/ UNCHANGED codecVars
    <2>1. UNCHANGED <<wire, pos, half, conn, maxPayloadSize, want, got, flag, result,
                      written, starts, frames>>
      BY <1>1 DEF CodecDone, codecVars
    <2>2. StartsOK' /\ WireOK' /\ \A i : FrameAt(i)' = FrameAt(i) /\ FitUpTo(i)' = FitUpTo(i)
      BY <2>1, StreamKept, WrittenKept
    <2>3. CodecTypes' /\ GotOK'
      BY <2>1 DEF CodecInv, CodecTypes, GotOK
    <2>4. ReadOK'
      BY <2>1, <2>2 DEF CodecInv, ReadOK, FrameHere
    <2>5. ResultOK'
      BY <2>1, <2>2 DEF CodecInv, ResultOK
    <2> QED BY <2>2, <2>3, <2>4, <2>5 DEF CodecInv
  <1>2. ASSUME NEW f \in Byte, NEW p \in Payloads, WriteHeader(f, p) PROVE CodecInv'
    BY <1>2, CodecWritesHeader
  <1>3. ASSUME NEW n \in 1..(Len(wire) - pos), ReadSome(n) PROVE CodecInv'
    BY <1>3, CodecReads
  <1> QED BY <1>1, <1>2, <1>3, CodecWritesPayload, CodecStops, CodecReadEnds,
             CodecReadsHeader, CodecReadsPayload DEF CodecNext, ReadStep
\* The invariant gives the frames ...
LEMMA CodecRoundTrip == CodecInv => RoundTrip
  <1> SUFFICES ASSUME CodecInv PROVE RoundTrip
    OBVIOUS
  <1> USE DEF CodecInv
  <1>1. DOMAIN frames = 1..Len(frames) /\ DOMAIN written = 1..Len(starts) /\ Len(starts) \in Nat
    BY DEF CodecTypes
  <1>2. ASSUME NEW i \in 1..Len(frames), FitUpTo(i)
        PROVE  i \in 1..Len(starts) /\ frames[i] = written[i]
    <2>1. i <= Len(starts) /\ frames[i] = written[i]
      BY <1>2 DEF ReadOK
    <2> QED BY <1>1, <2>1
  <1> QED BY <1>1, <1>2 DEF RoundTrip

\* ... and where a stream that ended cleanly left the reader.  When the payload of
\* the last frame is there too, the reader that has all bytes has all frames and
\* none of the next.
LEMMA CodecEnd ==
    ASSUME CodecInv, AllFit, conn = "ended", pos = Len(wire), NEW k, k = Len(frames),
           want.part = "header" \/ (Len(got) < want.n /\ half = << >>),
           want.part = "header" => Len(got) < HeaderSize
    PROVE  /\ k = Len(starts) /\ want.part = "header" /\ Len(got) = 0
  <1> USE DEF CodecInv
  <1>n. /\ LenBytes \in Nat /\ HeaderSize \in Nat /\ HeaderSize = 1 + LenBytes
        /\ Len(wire) \in Nat /\ Len(half) \in Nat /\ Len(got) \in Nat
        /\ Len(starts) \in Nat /\ Len(written) = Len(starts) /\ k \in Nat /\ want.n \in Nat
        /\ want.part \in {"header", "payload"}
        /\ \A i \in 1..Len(starts) : starts[i] \in Nat /\ Len(written[i].payload) \in Nat
    BY CodecNumbers
  <1>k. PICK N : N = Len(starts)
    OBVIOUS
  <1>1. \A i \in Nat : FitUpTo(i)
    <2>1. DOMAIN written = 1..Len(written)
      BY DEF CodecTypes
    <2> QED BY <2>1 DEF AllFit, FitUpTo
  <1>2. Len(wire) + Len(half) = FrameAt(N + 1)
    BY <1>k DEF WireOK
  <1>3. k <= N
    <2>1. k # 0 => k \in 1..k
      BY <1>n
    <2> QED BY <1>n, <1>k, <1>1, <2>1 DEF ReadOK
  <1>4. N # 0 => /\ N \in 1..N /\ FrameAt(N + 1) = starts[N] + HeaderSize + Len(written[N].payload)
                 /\ Len(wire) >= starts[N] + HeaderSize
                 /\ \A i \in 1..N : starts[i] <= starts[N]
    <2> SUFFICES ASSUME N # 0
                 PROVE  /\ N \in 1..N
                        /\ FrameAt(N + 1) = starts[N] + HeaderSize + Len(written[N].payload)
                        /\ Len(wire) >= starts[N] + HeaderSize
                        /\ \A i \in 1..N : starts[i] <= starts[N]
      OBVIOUS
    <2>1. N \in 1..N /\ N + 1 # 1 /\ (N + 1) - 1 = N /\ \A i \in 1..N : i <= N
      BY <1>n, <1>k
    <2>2. FrameAt(N + 1) = starts[N] + HeaderSize + Len(written[N].payload)
      BY <2>1 DEF FrameAt
    <2>3. Len(half) = 0 \/ Len(half) = Len(written[N].payload)
      <3>1. half = << >> => Len(half) = 0
        OBVIOUS
      <3> QED BY <1>k, <3>1 DEF WireOK
    <2>4. starts[N] \in Nat /\ Len(written[N].payload) \in Nat
      BY <1>n, <1>k, <2>1
    <2>5. Len(wire) >= starts[N] + HeaderSize
      <3> DEFINE a == starts[N]
                 q == Len(written[N].payload)
      <3>1. /\ a \in Nat /\ q \in Nat /\ Len(wire) + Len(half) = a + HeaderSize + q
            /\ Len(half) = 0 \/ Len(half) = q
        BY <1>2, <2>2, <2>3, <2>4
      <3> HIDE DEF a, q
      <3>2. Len(wire) >= a + HeaderSize
        BY <1>n, <3>1
      <3> QED BY <3>2 DEF a
    <2> QED BY <1>k, <2>1, <2>2, <2>5 DEF StartsOK
  <1>5. ASSUME want.part = "header" PROVE k = N /\ Len(got) = 0
    <2>1. Len(wire) - Len(got) = FrameAt(k + 1) /\ Len(got) < HeaderSize
      BY <1>n, <1>1, <1>5 DEF ReadOK
    <2>2. CASE k = N
      <3>1. FrameAt(N + 1) \in Nat
        BY <1>n, <1>2
      <3> QED BY <1>n, <1>2, <2>1, <2>2
    <2>3. CASE k # N
      <3>1. k + 1 \in 1..N /\ N # 0
        BY <1>n, <1>k, <1>3, <2>3
      <3>2. FrameAt(k + 1) = starts[k + 1]
        BY <1>k, <3>1 DEF StartsOK
      <3>3. /\ starts[k + 1] <= starts[N] /\ Len(wire) >= starts[N] + HeaderSize
            /\ starts[k + 1] \in Nat /\ starts[N] \in Nat
        BY <1>n, <1>k, <1>4, <3>1
      <3> QED BY <1>n, <2>1, <3>2, <3>3
    <2> QED BY <2>2, <2>3
  <1>6. ASSUME want.part = "payload" PROVE FALSE
    <2>1. FrameHere(k + 1) /\ half = << >> /\ Len(got) < want.n
      BY <1>n, <1>1, <1>6 DEF ReadOK
    <2>2. /\ k + 1 \in 1..N /\ N # 0 /\ Len(wire) - Len(got) = starts[k + 1] + HeaderSize
          /\ Len(got) < Len(written[k + 1].payload)
      BY <1>n, <1>k, <2>1 DEF FrameHere
    <2>3. Len(half) = 0
      BY <2>1
    <2> DEFINE a == starts[k + 1]
               b == starts[N]
               p == Len(written[k + 1].payload)
               q == Len(written[N].payload)
    <2>4. /\ a \in Nat /\ b \in Nat /\ p \in Nat /\ q \in Nat
          /\ Len(wire) = b + HeaderSize + q /\ Len(wire) - Len(got) = a + HeaderSize
          /\ Len(got) < p
      <3>1. Len(wire) = FrameAt(N + 1)
        BY <1>n, <1>2, <2>3
      <3> QED BY <1>n, <1>k, <1>4, <2>2, <3>1
    <2>5. CASE k + 1 = N
      <3>1. a = b /\ p = q
        BY <2>5
      <3> HIDE DEF a, b, p, q
      <3> QED BY <1>n, <2>4, <3>1
    <2>6. CASE k + 1 # N
      <3>1. k + 2 \in 1..N /\ k + 2 # 1 /\ (k + 2) - 1 = k + 1
        BY <1>n, <1>k, <2>2, <2>6
      <3>2. starts[k + 2] = a + HeaderSize + p /\ starts[k + 2] <= b
        BY <1>k, <1>4, <2>2, <3>1 DEF StartsOK, FrameAt
      <3>3. a + HeaderSize + p <= b
        BY <3>2
      <3> HIDE DEF a, b, p, q
      <3> QED BY <1>n, <2>4, <3>3
    <2> QED BY <2>5, <2>6
  <1> QED BY <1>n, <1>k, <1>5, <1>6

\* Each error says where the reader was.
LEMMA CodecErrors == CodecInv => ErrorsExact
  <1> SUFFICES ASSUME CodecInv PROVE ErrorsExact
    OBVIOUS
  <1> USE DEF CodecInv
  <1>n. /\ HeaderSize \in Nat /\ Len(wire) \in Nat /\ pos \in Nat /\ Len(got) \in Nat
        /\ HeaderSize > 0 /\ Len(starts) \in Nat /\ Len(written) = Len(starts)
        /\ Len(frames) \in Nat /\ want.part \in {"header", "payload"} /\ want.n \in Nat
    <2>1. /\ HeaderSize \in Nat /\ LenBytes \in Nat /\ HeaderSize = 1 + LenBytes
          /\ Len(wire) \in Nat /\ pos \in Nat /\ Len(got) \in Nat
          /\ Len(starts) \in Nat /\ Len(written) = Len(starts)
          /\ Len(frames) \in Nat /\ want.part \in {"header", "payload"} /\ want.n \in Nat
      BY CodecNumbers
    <2> QED BY <2>1
  <1>d. DOMAIN frames = 1..Len(frames) /\ DOMAIN written = 1..Len(written)
    BY DEF CodecTypes
  <1>0. AllFit => \A i \in Nat : FitUpTo(i)
    BY <1>d DEF AllFit, FitUpTo
  <1>1. CodecTypeOK
    <2>1. pos \in 0..Len(wire) /\ Len(got) <= want.n
      BY <1>n DEF GotOK
    <2>2. ASSUME NEW f \in Range(written) \union Range(frames)
          PROVE  f.flag \in Byte /\ f.payload \in Seq(Byte)
      <3>1. f \in [flag : Byte, payload : Seq(Byte)]
        <4>1. CASE f \in Range(written)
          <5>1. PICK i \in 1..Len(written) : f = written[i]
            BY <1>d, <4>1 DEF Range
          <5>2. written \in Seq([flag : Byte, payload : Seq(Byte)])
            BY DEF CodecTypes
          <5> QED BY ONLY <5>1, <5>2, ElementFacts
        <4>2. CASE f \in Range(frames)
          <5>1. PICK i \in 1..Len(frames) : f = frames[i]
            BY <1>d, <4>2 DEF Range
          <5>2. frames \in Seq([flag : Byte, payload : Seq(Byte)])
            BY DEF CodecTypes
          <5> QED BY ONLY <5>1, <5>2, ElementFacts
        <4> QED BY <4>1, <4>2
      <3> QED BY ONLY <3>1
    <2> QED BY <1>n, <2>1, <2>2 DEF CodecTypeOK, CodecTypes
  <1>2. EndIsClassified
    <2> SUFFICES ASSUME AllFit
                 PROVE  /\ result = "EOF" => conn = "ended" /\ frames = written
                        /\ result = "ErrUnexpectedEOF" => conn = "broken" \/ half # << >>
      BY DEF EndIsClassified
    <2>1. ASSUME result = "EOF" PROVE conn = "ended" /\ frames = written
      <3>1. conn = "ended" /\ want.part = "header" /\ got = << >> /\ pos = Len(wire)
        BY <2>1 DEF ResultOK
      <3>2. Len(got) = 0
        BY <3>1
      <3>3. Len(got) < HeaderSize
        BY <1>n, <3>2
      <3>4. Len(frames) = Len(starts)
        BY <3>1, <3>3, CodecEnd
      <3>5. \A i \in 1..Len(frames) : written[i] = frames[i]
        <4>1. \A i \in 1..Len(frames) : FitUpTo(i) /\ i \in DOMAIN frames
          BY <1>0, <1>d
        <4> QED BY <4>1, CodecRoundTrip DEF RoundTrip
      <3>6. /\ written \in Seq([flag : Byte, payload : Seq(Byte)])
            /\ frames \in Seq([flag : Byte, payload : Seq(Byte)])
            /\ Len(written) = Len(frames)
        BY <1>n, <3>4 DEF CodecTypes
      <3>7. frames = written
        BY ONLY <3>5, <3>6, SameSeq
      <3> QED BY <3>1, <3>7
    <2>2. ASSUME result = "ErrUnexpectedEOF", conn # "broken", half = << >> PROVE FALSE
      <3>1. /\ conn = "ended" /\ pos = Len(wire) /\ Len(got) < want.n
            /\ want.part = "payload" \/ got # << >>
        BY <2>2 DEF ResultOK, CodecTypes
      <3>2. want.part = "header" => Len(got) < HeaderSize
        BY <3>1 DEF CodecTypes
      <3>3. want.part = "header" /\ Len(got) = 0
        BY <2>2, <3>1, <3>2, CodecEnd
      <3>4. got = << >>
        BY <3>3 DEF CodecTypes
      <3> QED BY <3>1, <3>3, <3>4
    <2> QED BY <2>1, <2>2
  <1>3. LimitKept
    <2>1. maxPayloadSize > 0 /\ want.part = "payload" => want.n <= maxPayloadSize
      BY DEF ReadOK
    <2>2. ASSUME result = "tooBig", AllFit
          PROVE  Len(written[Len(frames) + 1].payload) > maxPayloadSize
      <3>1. FitUpTo(Len(frames) + 1)
        BY <1>0, <1>n, <2>2
      <3> QED BY <2>2, <3>1 DEF ResultOK
    <2> QED BY <2>1, <2>2 DEF LimitKept
  <1> QED BY <1>1, <1>2, <1>3 DEF ErrorsExact

\* However a stream cuts its bytes and wherever it breaks, ReadFrame returns the
\* frames that WriteFrame was given, in order and byte for byte, up to the first
\* payload that its length field cannot hold; for bytes and lengths of any size.
THEOREM CodecRoundTrips == CodecSpec => []RoundTrip
  BY CodecInitially, CodecStep, CodecRoundTrip, PTL DEF CodecSpec

\* ReadFrame's errors mean what they say: io.EOF that every frame was returned,
\* io.ErrUnexpectedEOF that the stream broke or ended inside a frame, and a payload
\* that is refused is larger than the limit.
THEOREM CodecErrorsAreExact == CodecSpec => []ErrorsExact
  BY CodecInitially, CodecStep, CodecErrors, PTL DEF CodecSpec
=============================================================================
