----------------------------- MODULE LogAdaptor -----------------------------
(***************************************************************************)
(* HttpLogAdaptor (log.go): an http.Server's ErrorLog writes into a pipe,  *)
(* and one goroutine scans the pipe for lines and logs each of them.       *)
(*                                                                         *)
(* Several goroutines of the server write, the adaptor may be closed at    *)
(* any time, and the scanner gives up on a line that fills its buffer.     *)
(* The pipe (io.Pipe) and the scanner (bufio.Scanner) are library code,    *)
(* modelled by what log.go relies on: writers take turns, a Write returns  *)
(* when the reader took all of its bytes or the pipe is closed, and closing*)
(* either end wakes whoever waits at the other.                            *)
(***************************************************************************)
EXTENDS Integers, Sequences, SequencesExt

CONSTANTS
    Writers,      \* goroutines that log to the server's ErrorLog
    Messages,     \* what they write: sequences of bytes
    NL,           \* the newline byte
    MaxToken,     \* size of the scanner's buffer (bufio.MaxScanTokenSize)
    MaxWrites     \* bound: calls of Write

Bytes == UNION {Range(m) : m \in Messages}

\* log.Logger ends every message with a newline; there may be more inside.
ASSUME LogConstants ==
    /\ MaxToken \in Nat \ {0} /\ MaxWrites \in Nat
    /\ \A m \in Messages : m \in Seq(Bytes) /\ m # << >> /\ m[Len(m)] = NL

VARIABLES
    wpc,          \* per writer: "idle", "lock" (waiting for its turn), "send"
    msg,          \* per writer: what it writes
    sent,         \* bytes of the Write being served that the reader took
    pipe,         \* "open", or closed by "writer" or by "reader"
    scan,         \* the goroutine: "scan", "eof", "tooLong", "exited"
    buf,          \* the scanner's buffer
    closer,       \* the caller of Close: "no", "wait", "returned"
    calls,        \* calls of Write so far
    taken,        \* history: the bytes the scanner has read
    accepted,     \* history: messages whose Write returned nil, and where in
                  \*   taken they begin
    cut,          \* history: what was taken of the Write that closing ended
    failed,       \* history: some Write returned an error
    lines,        \* history: what log.Info was called with, likewise
    gaveUp        \* history: log.Error was called

logVars == <<wpc, msg, sent, pipe, scan, buf, closer, calls, taken, accepted, cut,
             failed, lines, gaveUp>>

LogInit ==
    /\ wpc = [w \in Writers |-> "idle"]
    /\ msg = [w \in Writers |-> << >>]
    /\ sent = 0
    /\ pipe = "open"
    /\ scan = "scan" /\ buf = << >>
    /\ closer = "no"
    /\ calls = 0
    /\ taken = << >> /\ accepted = << >> /\ cut = << >> /\ failed = FALSE
    /\ lines = << >> /\ gaveUp = FALSE

-----------------------------------------------------------------------------
(* Write, in the goroutines of the server.                                 *)

\* A Write on a closed pipe fails at once; any other waits for its turn.
WriteCall(w, m) ==
    /\ wpc[w] = "idle" /\ calls < MaxWrites
    /\ calls' = calls + 1
    /\ msg' = [msg EXCEPT ![w] = m]
    /\ IF pipe = "open" THEN wpc' = [wpc EXCEPT ![w] = "lock"] /\ UNCHANGED failed
                        ELSE failed' = TRUE /\ UNCHANGED wpc
    /\ UNCHANGED <<sent, pipe, scan, buf, closer, taken, accepted, cut, lines, gaveUp>>

WriteTurn(w) ==
    /\ wpc[w] = "lock" /\ \A v \in Writers : wpc[v] # "send"
    /\ wpc' = [wpc EXCEPT ![w] = "send"]
    /\ sent' = 0
    /\ UNCHANGED <<msg, pipe, scan, buf, closer, calls, taken, accepted, cut, failed,
                   lines, gaveUp>>

\* The pipe is closed while the Write waits for the reader: it returns an error
\* and the number of bytes that were taken.
WriteAborted(w) ==
    /\ wpc[w] = "send" /\ pipe # "open"
    /\ wpc' = [wpc EXCEPT ![w] = "idle"]
    /\ failed' = TRUE
    /\ cut' = cut \o SubSeq(msg[w], 1, sent)
    /\ sent' = 0
    /\ UNCHANGED <<msg, pipe, scan, buf, closer, calls, taken, accepted, lines, gaveUp>>

-----------------------------------------------------------------------------
(* The goroutine of NewHttpLogAdaptor.                                     *)

FirstNL == SelectInSeq(buf, LAMBDA b : b = NL)      \* 0 when there is none

\* Scan returns the first n bytes of the buffer as a line and keeps rest.
Log(n, rest, next) ==
    /\ lines' = Append(lines, [from |-> Len(taken) - Len(buf) + 1,
                               text |-> SubSeq(buf, 1, n)])
    /\ buf' = rest /\ scan' = next
    /\ UNCHANGED <<wpc, msg, sent, pipe, closer, calls, taken, accepted, cut, failed,
                   gaveUp>>

HasLine == scan \in {"scan", "eof"} /\ FirstNL > 0
AfterNL == SubSeq(buf, FirstNL + 1, Len(buf))

\* Mutants: the newline is kept; a new scanner is made for every line; the
\* goroutine logs one line and ends.
LogLineWithNL     == HasLine /\ Log(FirstNL, AfterNL, scan)
LogLineNewScanner == HasLine /\ Log(FirstNL - 1, << >>, scan)
LogLineOnce       == HasLine /\ Log(FirstNL - 1, << >>, "eof")

\* A complete line in the buffer is logged before anything more is read.
\* bufio.ScanLines also drops one CR before the newline: no message here has one.
LogLine == HasLine /\ Log(FirstNL - 1, AfterNL, scan)

\* Otherwise the scanner reads: n bytes of the Write that is being served, no
\* more than its buffer has room for.  The last of them lets the Write return.
ReadPipe(w, n) ==
    /\ scan = "scan" /\ FirstNL = 0
    /\ pipe = "open" /\ wpc[w] = "send"
    /\ n <= MaxToken - Len(buf) /\ n <= Len(msg[w]) - sent
    /\ buf' = buf \o SubSeq(msg[w], sent + 1, sent + n)
    /\ taken' = taken \o SubSeq(msg[w], sent + 1, sent + n)
    /\ \/ /\ sent + n < Len(msg[w])
          /\ sent' = sent + n
          /\ UNCHANGED <<wpc, accepted>>
       \/ /\ sent + n = Len(msg[w])
          /\ sent' = 0
          /\ wpc' = [wpc EXCEPT ![w] = "idle"]
          /\ accepted' = Append(accepted, [from |-> Len(taken) - sent + 1,
                                           text |-> msg[w]])
    /\ UNCHANGED <<msg, pipe, scan, closer, calls, cut, failed, lines, gaveUp>>

\* ... or finds the pipe closed by the writer's end.
ReadEOF ==
    /\ scan = "scan" /\ FirstNL = 0 /\ Len(buf) < MaxToken
    /\ pipe # "open"
    /\ scan' = "eof"
    /\ UNCHANGED <<wpc, msg, sent, pipe, buf, closer, calls, taken, accepted, cut,
                   failed, lines, gaveUp>>

\* A buffer full of bytes without a newline is a line that is too long: the
\* scanner stops and drops it, and the error is logged.
TooLong ==
    /\ scan = "scan" /\ FirstNL = 0 /\ Len(buf) = MaxToken
    /\ scan' = "tooLong"
    /\ buf' = << >>
    /\ gaveUp' = TRUE
    /\ UNCHANGED <<wpc, msg, sent, pipe, closer, calls, taken, accepted, cut, failed,
                   lines>>

\* At the end of the input an unfinished line is logged too.
LogLast == scan = "eof" /\ FirstNL = 0 /\ buf # << >> /\ Log(Len(buf), << >>, scan)

\* What closing one end makes of the pipe: the first to close it wins.
ClosedBy(end) == IF pipe = "open" THEN end ELSE pipe

\* Mutant: the reading end is not closed.
ExitLeavesPipe ==
    /\ scan = "tooLong" \/ (scan = "eof" /\ buf = << >>)
    /\ scan' = "exited"
    /\ UNCHANGED <<wpc, msg, sent, pipe, buf, closer, calls, taken, accepted, cut,
                   failed, lines, gaveUp>>

\* reader.Close, then wg.Done.
Exit ==
    /\ scan = "tooLong" \/ (scan = "eof" /\ buf = << >>)
    /\ scan' = "exited"
    /\ pipe' = ClosedBy("reader")
    /\ UNCHANGED <<wpc, msg, sent, buf, closer, calls, taken, accepted, cut, failed,
                   lines, gaveUp>>

-----------------------------------------------------------------------------
(* Close.                                                                  *)

CloseStep(from, to, p) ==
    /\ closer = from /\ closer' = to /\ pipe' = p
    /\ UNCHANGED <<wpc, msg, sent, scan, buf, calls, taken, accepted, cut, failed,
                   lines, gaveUp>>

\* Mutants: the writing end is not closed; wg.Wait is left out.
CloseCallNoClose == CloseStep("no", "wait", pipe)
CloseWaitNot     == CloseStep("wait", "returned", pipe)

\* writer.Close, then wg.Wait.
CloseCall == CloseStep("no", "wait", ClosedBy("writer"))

CloseWait == scan = "exited" /\ CloseStep("wait", "returned", pipe)

\* Every call of Write was made and has returned.
LogDone ==
    /\ calls = MaxWrites
    /\ \A w \in Writers : wpc[w] = "idle"
    /\ UNCHANGED logVars

WriteStep(w) == WriteTurn(w) \/ WriteAborted(w)

ScanStep ==
    \/ LogLine \/ ReadEOF \/ TooLong \/ LogLast \/ Exit
    \/ \E w \in Writers, n \in 1..MaxToken : ReadPipe(w, n)

LogNext ==
    \/ \E w \in Writers, m \in Messages : WriteCall(w, m)
    \/ \E w \in Writers : WriteStep(w)
    \/ ScanStep
    \/ CloseCall \/ CloseWait
    \/ LogDone

LogSpec == LogInit /\ [][LogNext]_logVars

\* The scanner goroutine and the caller of Close are scheduled and log.Info
\* returns; the pipe's mutex serves every waiting writer.  Nobody need write
\* or close.
LogFairSpec ==
    /\ LogSpec
    /\ WF_logVars(ScanStep) /\ WF_logVars(CloseWait)
    /\ \A w \in Writers : SF_logVars(WriteTurn(w)) /\ WF_logVars(WriteAborted(w))

-----------------------------------------------------------------------------
(* Properties.                                                             *)

LogTypeOK ==
    /\ wpc \in [Writers -> {"idle", "lock", "send"}]
    /\ msg \in [Writers -> Messages \union {<< >>}]
    /\ sent \in Nat /\ calls \in 0..MaxWrites
    /\ pipe \in {"open", "writer", "reader"}
    /\ scan \in {"scan", "eof", "tooLong", "exited"}
    /\ buf \in Seq(Bytes) /\ Len(buf) <= MaxToken
    /\ closer \in {"no", "wait", "returned"}
    /\ taken \in Seq(Bytes) /\ cut \in Seq(Bytes)
    /\ accepted \in Seq([from : Nat, text : Messages])
    /\ lines \in Seq([from : Nat, text : Seq(Bytes \ {NL})])
    /\ failed \in BOOLEAN /\ gaveUp \in BOOLEAN

\* A message or a line is found in what was taken, from where it says it is to
\* before EndOf.
EndOf(p) == p.from + Len(p.text)
Found(p) == SubSeq(taken, p.from, EndOf(p) - 1) = p.text

\* Where the message behind the i-th begins, and the line behind the i-th: there
\* a newline lies between.
MessageAt(i) == IF i = 0 THEN 1 ELSE EndOf(accepted[i])
LineAt(i)    == IF i = 0 THEN 1 ELSE EndOf(lines[i]) + 1

\* What the scanner reads is the accepted messages, one behind the other, then
\* what it took of the Write being served, or of the one that closing ended.
MessagesInTurn ==
    /\ \A i \in DOMAIN accepted :
          Found(accepted[i]) /\ accepted[i].from = MessageAt(i - 1)
    /\ LET rest  == SubSeq(taken, MessageAt(Len(accepted)), Len(taken))
           being == {w \in Writers : wpc[w] = "send" /\ sent > 0}
       IN  IF being = {} THEN rest = cut
           ELSE \A w \in being : rest = SubSeq(msg[w], 1, sent)

\* Lines are logged in the order of the writes, and no line mixes two messages
\* or loses a byte, however the writes of several goroutines overlap and
\* wherever the reads cut them (log.go:54): a line is what lies between two
\* newlines.  Only what is read last may lack its own.
LinesInOrder ==
    \A i \in DOMAIN lines :
        /\ Found(lines[i]) /\ lines[i].from = LineAt(i - 1)
        /\ \/ EndOf(lines[i]) <= Len(taken) /\ taken[EndOf(lines[i])] = NL
           \/ /\ i = Len(lines) /\ EndOf(lines[i]) = Len(taken) + 1
              /\ lines[i].text # << >> /\ scan \in {"eof", "exited"}

\* When Close has returned every line that Write accepted has been logged, and
\* so has the part of a Write that Close cut short; the one exception is a line
\* that filled the scanner's buffer, which is reported (log.go:57).
CloseFlushes ==
    closer = "returned" => LineAt(Len(lines)) > Len(taken) \/ gaveUp

\* Write fails for two reasons only: the adaptor was closed, or an earlier line
\* was too long for the scanner, after which every message is lost.
WriteFailsOnlyIf == failed => closer # "no" \/ gaveUp

\* No byte that was written is lost or misplaced while the adaptor works.
NothingLost == LogTypeOK /\ MessagesInTurn /\ LinesInOrder /\ WriteFailsOnlyIf

\* A server goroutine never hangs in its error log, also when the scanner has
\* given up or the adaptor is closed under it.
WritesReturn == \A w \in Writers : wpc[w] # "idle" ~> wpc[w] = "idle"

\* Close returns, whatever the writers do.
CloseReturns == closer = "wait" ~> closer = "returned"

\* Nobody is left waiting at either end of the pipe.
NobodyStuck == WritesReturn /\ CloseReturns
=============================================================================
