---------------------------- MODULE StreamReader ----------------------------
(***************************************************************************)
(* The client side of a structured stream (streaming.go, streamReader)     *)
(* reading the response of a server that behaves like FrameLog.            *)
(*                                                                         *)
(* Recv reads frames in a loop and arms a timer around every ReadFrame.    *)
(* The timer's callback runs in a goroutine of its own and cancels the     *)
(* request's context, which the caller's own context and Close cancel too; *)
(* a read on a cancelled request fails, but may first return what had      *)
(* already arrived.                                                        *)
(***************************************************************************)
EXTENDS Integers, Sequences

CONSTANTS
    Msgs,          \* application messages
    ZeroLength,    \* messages with an empty encoding
    Undecodable,   \* bodies unmarshal fails on
    TooBig,        \* bodies longer than the client's MaxFramePayload
    MaxFrames,     \* bound: frames of one response
    MaxRecvs       \* bound: Recv calls of the application

NoMsg == "noMsg"
Replies == {"reply", "garbledReply"}
Bodies == Msgs \union Replies \union {NoMsg}

ASSUME ReaderBounds == MaxFrames \in Nat /\ MaxRecvs \in Nat
ASSUME ReaderBodies ==
    /\ ZeroLength \union TooBig \subseteq Msgs
    /\ Undecodable \subseteq Msgs \union Replies
    /\ ZeroLength \intersect (TooBig \union Undecodable) = {}
    /\ NoMsg \notin Msgs
    /\ "garbledReply" \in Undecodable

VARIABLES
    frames, up,    \* the response body as the server wrote it (FrameLog)
    over,          \* the server ended the response
    carriers,      \* history: the frames that carry a message, by their number
    timeoutOn,     \* streamReader.heartbeatTimeout > 0
    at,            \* where Recv is; "idle" outside it
    pos,           \* frames read so far
    rd,            \* what the last ReadFrame returned
    timer,         \* the timer of the current read
    late,          \* expired timer's callback about to cancel: its read's number
    ctx,           \* "live", or who cancelled the request's context first
    victim,        \* history: the read whose timer cancelled the context
    reads,         \* number of ReadFrame calls
    done, hasPending,
    delivered,     \* history: messages Recv returned with a nil error
    outcome,       \* history: the first result that was not nil
    recvs          \* Recv calls made

serverVars == <<frames, up, over, carriers>>
clockVars  == <<timer, late, ctx, victim>>
vars == <<serverVars, timeoutOn, at, pos, rd, clockVars, reads, done,
          hasPending, delivered, outcome, recvs>>

Server == INSTANCE FrameLog

Terminal == {"final", "error"}
ReadErrors == {"EOF", "unexpectedEOF", "tooBig"}

-----------------------------------------------------------------------------
\* DoStream: zero is the default of a minute, a negative timeout disables the
\* timer.
Timeouts == {-1, 0, 5}
HeartbeatTimeout(t) == IF t = 0 THEN 60 ELSE t

Init ==
    /\ Server!Init
    /\ over = FALSE /\ carriers = << >>
    /\ \E t \in Timeouts : timeoutOn = (HeartbeatTimeout(t) > 0)
    /\ at = "idle"
    /\ pos = 0
    /\ rd = "none"
    /\ timer = "off" /\ late = 0 /\ ctx = "live" /\ victim = 0
    /\ reads = 0
    /\ done = FALSE /\ hasPending = FALSE
    /\ delivered = << >>
    /\ outcome = "none"
    /\ recvs = 0

-----------------------------------------------------------------------------
(* The server and the network.                                             *)

\* What a server of this protocol version writes.
ServerFrames ==
    {[flag |-> "data", body |-> m] : m \in Msgs}
      \union {[flag |-> "final", body |-> m] : m \in Msgs \union {NoMsg}}
      \union {[flag |-> "error", body |-> r] : r \in Replies}
      \union {[flag |-> "heartbeat", body |-> NoMsg]}

\* A frame that carries a message to the application: every data frame, and a
\* final frame whose payload is not empty.
CarriesMsg(f) ==
    \/ f.flag = "data"
    \/ f.flag = "final" /\ f.body \in Msgs /\ f.body \notin ZeroLength

ServerEmit ==
    /\ ~over /\ Len(frames) < MaxFrames
    /\ \E f \in ServerFrames :
          /\ Server!Emit(f)
          /\ carriers' = IF CarriesMsg(f) THEN Append(carriers, Len(frames) + 1)
                                          ELSE carriers
    /\ UNCHANGED <<over, timeoutOn, at, pos, rd, clockVars, reads, done,
                   hasPending, delivered, outcome, recvs>>

\* A server of a later protocol version sends a flag this client lacks.
ForeignEmit ==
    /\ ~over /\ up /\ Len(frames) < MaxFrames /\ ~Server!Terminated
    /\ frames' = Append(frames, [flag |-> "unknown", body |-> NoMsg])
    /\ UNCHANGED <<up, over, carriers, timeoutOn, at, pos, rd, clockVars, reads, done,
                   hasPending, delivered, outcome, recvs>>

ServerEnd ==
    /\ up /\ ~over
    /\ over' = TRUE
    /\ UNCHANGED <<frames, up, carriers, timeoutOn, at, pos, rd, clockVars, reads, done,
                   hasPending, delivered, outcome, recvs>>

\* The connection is lost, at a frame boundary or inside a frame.
ServerBreak ==
    /\ ~over /\ Server!Break
    /\ UNCHANGED <<over, carriers, timeoutOn, at, pos, rd, clockVars, reads, done,
                   hasPending, delivered, outcome, recvs>>

-----------------------------------------------------------------------------
(* Recv.                                                                   *)

\* The first result that is not nil decides how the application saw the
\* stream end.
Report(res) == outcome' = IF outcome = "none" THEN res ELSE outcome

\* Recv is called.  A finished stream answers io.EOF without reading.
RecvCall ==
    /\ at = "idle" /\ recvs < MaxRecvs
    /\ recvs' = recvs + 1
    /\ \/ /\ done \/ hasPending
          /\ hasPending' = FALSE
          /\ done' = TRUE
          /\ Report("EOF")
          /\ UNCHANGED at
       \/ /\ ~done /\ ~hasPending
          /\ at' = "arm"
          /\ UNCHANGED <<done, hasPending, outcome>>
    /\ UNCHANGED <<serverVars, timeoutOn, pos, rd, clockVars, reads, delivered>>

\* Mutant: one timer for the whole stream, not one per read.
ArmTimerOnce ==
    /\ at = "arm"
    /\ at' = "read"
    /\ reads' = reads + 1
    /\ timer' = IF timeoutOn /\ reads = 0 THEN "armed" ELSE "off"
    /\ UNCHANGED <<serverVars, timeoutOn, pos, rd, late, ctx, victim, done,
                   hasPending, delivered, outcome, recvs>>

\* The top of the loop: time.AfterFunc, then ReadFrame.
ArmTimer ==
    /\ at = "arm"
    /\ at' = "read"
    /\ reads' = reads + 1
    /\ timer' = IF timeoutOn THEN "armed" ELSE "off"
    /\ UNCHANGED <<serverVars, timeoutOn, pos, rd, late, ctx, victim, done,
                   hasPending, delivered, outcome, recvs>>

\* What ReadFrame can return.  Any failure but a clean end of the body before
\* the first header byte is io.ErrUnexpectedEOF.
ReadResult(res) ==
    \/ /\ pos < Len(frames)
       /\ IF frames[pos + 1].body \in TooBig
          THEN res = "tooBig" ELSE res = "frame"
    \/ pos = Len(frames) /\ over /\ res = "EOF"
    \/ pos = Len(frames) /\ ~up /\ res = "unexpectedEOF"
    \/ ctx # "live" /\ res = "unexpectedEOF"

ReadFrame ==
    /\ at = "read"
    /\ \E res \in ReadErrors \union {"frame"} :
          /\ ReadResult(res)
          /\ rd' = res
          /\ pos' = IF res = "frame" THEN pos + 1 ELSE pos
    /\ at' = "got"
    /\ UNCHANGED <<serverVars, timeoutOn, clockVars, reads, done, hasPending,
                   delivered, outcome, recvs>>

\* The timer is stopped and the result looked at.
Return(res) == at' = "idle" /\ Report(res)
Deliver(m)  == at' = "idle" /\ delivered' = Append(delivered, m)

\* Mutants: a response that just ends is a clean end; every failed read is a
\* timeout; a failed read does not finish the reader.
GotErrorPlainEOF ==
    /\ at = "got" /\ rd # "frame"
    /\ timer' = "off"
    /\ done' = TRUE
    /\ Return(rd)
    /\ UNCHANGED <<serverVars, timeoutOn, pos, rd, late, ctx, victim, reads,
                   hasPending, delivered, recvs>>

GotErrorAlwaysTimeout ==
    /\ at = "got" /\ rd # "frame"
    /\ timer' = "off"
    /\ done' = TRUE
    /\ Return(IF timeoutOn THEN "heartbeatTimeout" ELSE rd)
    /\ UNCHANGED <<serverVars, timeoutOn, pos, rd, late, ctx, victim, reads,
                   hasPending, delivered, recvs>>

GotErrorNotDone ==
    /\ at = "got" /\ rd # "frame"
    /\ timer' = "off"
    /\ UNCHANGED done
    /\ Return(IF rd = "EOF" THEN "unexpectedEOF" ELSE rd)
    /\ UNCHANGED <<serverVars, timeoutOn, pos, rd, late, ctx, victim, reads,
                   hasPending, delivered, recvs>>

GotError ==
    /\ at = "got" /\ rd # "frame"
    /\ timer' = "off"
    /\ done' = TRUE
    /\ Return(IF rd = "EOF" THEN "unexpectedEOF"
              ELSE IF timeoutOn /\ ctx # "live" THEN "heartbeatTimeout" ELSE rd)
    /\ UNCHANGED <<serverVars, timeoutOn, pos, rd, late, ctx, victim, reads,
                   hasPending, delivered, recvs>>

\* The frame just read has flag f.
Got(f) == at = "got" /\ rd = "frame" /\ frames[pos].flag = f

\* Mutant: Recv returns when it reads a heartbeat.
GotHeartbeatSurfaced ==
    /\ Got("heartbeat")
    /\ timer' = "off"
    /\ Deliver(NoMsg)
    /\ UNCHANGED <<serverVars, timeoutOn, pos, rd, late, ctx, victim, reads,
                   done, hasPending, outcome, recvs>>

GotHeartbeat ==
    /\ Got("heartbeat")
    /\ timer' = "off"
    /\ at' = "arm"
    /\ UNCHANGED <<serverVars, timeoutOn, pos, rd, late, ctx, victim, reads,
                   done, hasPending, delivered, outcome, recvs>>

GotData ==
    /\ Got("data")
    /\ timer' = "off"
    /\ LET m == frames[pos].body IN
          \/ m \in Undecodable /\ done' = TRUE /\ Return("decodeErr")
                /\ UNCHANGED delivered
          \/ m \notin Undecodable /\ Deliver(m) /\ UNCHANGED <<done, outcome>>
    /\ UNCHANGED <<serverVars, timeoutOn, pos, rd, late, ctx, victim, reads,
                   hasPending, recvs>>

\* Mutants: an empty final payload is delivered too; no final payload is.
GotFinalAlwaysDelivers ==
    /\ Got("final")
    /\ timer' = "off"
    /\ hasPending' = TRUE /\ Deliver(frames[pos].body)
    /\ UNCHANGED <<serverVars, timeoutOn, pos, rd, late, ctx, victim, reads,
                   done, outcome, recvs>>

GotFinalDropsPayload ==
    /\ Got("final")
    /\ timer' = "off"
    /\ done' = TRUE /\ Return("EOF")
    /\ UNCHANGED <<serverVars, timeoutOn, pos, rd, late, ctx, victim, reads,
                   hasPending, delivered, recvs>>

\* A final frame with a payload is delivered first; the next Recv reports EOF.
GotFinal ==
    /\ Got("final")
    /\ timer' = "off"
    /\ LET m == frames[pos].body IN
          \/ /\ m = NoMsg \/ m \in ZeroLength
             /\ done' = TRUE /\ Return("EOF")
             /\ UNCHANGED <<hasPending, delivered>>
          \/ /\ m # NoMsg /\ m \in Undecodable
             /\ done' = TRUE /\ Return("decodeErr")
             /\ UNCHANGED <<hasPending, delivered>>
          \/ /\ m # NoMsg /\ m \notin ZeroLength /\ m \notin Undecodable
             /\ hasPending' = TRUE /\ Deliver(m)
             /\ UNCHANGED <<done, outcome>>
    /\ UNCHANGED <<serverVars, timeoutOn, pos, rd, late, ctx, victim, reads,
                   recvs>>

\* Mutant: an error frame just ends the stream.
GotErrorFrameAsEnd ==
    /\ Got("error")
    /\ timer' = "off"
    /\ done' = TRUE
    /\ Return("EOF")
    /\ UNCHANGED <<serverVars, timeoutOn, pos, rd, late, ctx, victim, reads,
                   hasPending, delivered, recvs>>

GotErrorFrame ==
    /\ Got("error")
    /\ timer' = "off"
    /\ done' = TRUE
    /\ Return(IF frames[pos].body \in Undecodable THEN "decodeErr"
                                                  ELSE "clientError")
    /\ UNCHANGED <<serverVars, timeoutOn, pos, rd, late, ctx, victim, reads,
                   hasPending, delivered, recvs>>

GotUnknown ==
    /\ Got("unknown")
    /\ timer' = "off"
    /\ done' = TRUE
    /\ Return("unknownFlag")
    /\ UNCHANGED <<serverVars, timeoutOn, pos, rd, late, ctx, victim, reads,
                   hasPending, delivered, recvs>>

\* The application gives up: Close cancels the request.
Close ==
    /\ at = "idle" /\ recvs < MaxRecvs
    /\ recvs' = recvs + 1
    /\ ctx' = IF ctx = "live" THEN "close" ELSE ctx
    /\ done' = TRUE
    /\ Report("closed")
    /\ UNCHANGED <<serverVars, timeoutOn, at, pos, rd, timer, late, victim,
                   reads, hasPending, delivered>>

-----------------------------------------------------------------------------
(* The timer and the contexts.                                             *)

\* The deadline passes before timer.Stop: the callback's goroutine starts.
TimerExpires ==
    /\ timer = "armed"
    /\ timer' = "off"
    /\ late' = IF late = 0 THEN reads ELSE late
    /\ UNCHANGED <<serverVars, timeoutOn, at, pos, rd, ctx, victim, reads, done,
                   hasPending, delivered, outcome, recvs>>

\* ... and cancels the request, however long after.
TimerCancels ==
    /\ late # 0
    /\ late' = 0
    /\ ctx' = IF ctx = "live" THEN "timer" ELSE ctx
    /\ victim' = IF ctx = "live" THEN late ELSE victim
    /\ UNCHANGED <<serverVars, timeoutOn, at, pos, rd, timer, reads, done,
                   hasPending, delivered, outcome, recvs>>

\* The caller cancels the context it passed to DoStream.
CallerCancels ==
    /\ ctx = "live"
    /\ ctx' = "caller"
    /\ UNCHANGED <<serverVars, timeoutOn, at, pos, rd, timer, late, victim,
                   reads, done, hasPending, delivered, outcome, recvs>>

\* The application stops calling Recv.
Finished == at = "idle" /\ recvs = MaxRecvs /\ UNCHANGED vars

RecvStep ==
    \/ ArmTimer \/ ReadFrame \/ GotError \/ GotHeartbeat \/ GotData
    \/ GotFinal \/ GotErrorFrame \/ GotUnknown

Next ==
    \/ ServerEmit \/ ForeignEmit \/ ServerEnd \/ ServerBreak
    \/ RecvCall \/ Close \/ RecvStep
    \/ TimerExpires \/ TimerCancels \/ CallerCancels
    \/ Finished

Spec == Init /\ [][Next]_vars

\* Time passes, timer goroutines and the reading goroutine are scheduled.
\* Nothing is assumed of the server, the network or the caller.
FairSpec == Spec /\ WF_vars(RecvStep) /\ WF_vars(TimerExpires) /\ WF_vars(TimerCancels)

-----------------------------------------------------------------------------
(* Properties.                                                             *)

Outcomes == {"none", "EOF", "unexpectedEOF", "heartbeatTimeout", "clientError",
             "decodeErr", "tooBig", "unknownFlag", "closed"}

TypeOK ==
    /\ frames \in Seq([flag : Server!Flags \union {"unknown"}, body : Bodies])
    /\ up \in BOOLEAN /\ over \in BOOLEAN /\ timeoutOn \in BOOLEAN
    /\ done \in BOOLEAN /\ hasPending \in BOOLEAN
    /\ carriers \in Seq(1..Len(frames))
    /\ at \in {"idle", "arm", "read", "got"}
    /\ pos \in 0..Len(frames) /\ recvs \in 0..MaxRecvs /\ reads \in Nat
    /\ rd \in ReadErrors \union {"none", "frame"}
    /\ timer \in {"off", "armed"} /\ late \in 0..reads /\ victim \in 0..reads
    /\ ctx \in {"live", "timer", "caller", "close"}
    /\ delivered \in Seq(Msgs)
    /\ outcome \in Outcomes

\* The messages of the frames that carry one, in their order.
sent == [i \in 1..Len(carriers) |-> frames[carriers[i]].body]

CarriersExact ==
    /\ {carriers[i] : i \in 1..Len(carriers)} =
          {n \in 1..Len(frames) : CarriesMsg(frames[n])}
    /\ \A i, j \in 1..Len(carriers) : i < j => carriers[i] < carriers[j]

\* Heartbeats, timeouts and failures never cost or double a message: what the
\* application received is what the frames read so far carried, in order, but
\* for the one frame that is being handled or that Recv failed on.
DeliveredInOrder ==
    /\ CarriersExact
    /\ Len(delivered) <= Len(sent)
    /\ \A i \in 1..Len(delivered) : delivered[i] = sent[i] /\ carriers[i] <= pos
    /\ \A i \in (Len(delivered) + 1)..Len(sent) :
          \/ carriers[i] > pos
          \/ /\ i = Len(delivered) + 1 /\ carriers[i] = pos
             /\ at = "got" \/ outcome = "decodeErr"

\* io.EOF as the first failure of Recv means the server closed the stream and
\* every message it sent was received; a lost connection, an error frame, a
\* timeout or a response that just ends never looks like that.
EOFMeansComplete ==
    outcome = "EOF" =>
        /\ frames # << >> /\ frames[Len(frames)].flag = "final"
        /\ pos = Len(frames)
        /\ delivered = sent

\* A service error reaches the caller as such: the reader reports ClientError
\* exactly when it has read a decodable error frame, and blames an unknown flag
\* only on a frame that has one.  What becomes of such a frame is left out: the
\* code ends the stream (streaming.go:335) where docs/streaming.md:74 has the
\* receiver skip it.
ErrorFrameReported ==
    /\ outcome = "clientError" =>
          pos > 0 /\ frames[pos] = [flag |-> "error", body |-> "reply"]
    /\ (at = "idle" /\ pos > 0 /\ frames[pos].flag = "error") =>
          outcome \in {"clientError", "decodeErr", "closed"}
    /\ outcome = "unknownFlag" => pos > 0 /\ frames[pos].flag = "unknown"

\* A heartbeat timeout is only reported with the timer enabled and the request
\* cancelled by the timer or by the caller, never because of the server alone.
TimeoutIsCancelled ==
    outcome = "heartbeatTimeout" => timeoutOn /\ ctx \in {"timer", "caller"}

\* Recv reports the end, an error of the service, an unknown flag and a timeout
\* only where there was one, and no error of the service as anything else.
ResultsExact ==
    TypeOK /\ EOFMeansComplete /\ ErrorFrameReported /\ TimeoutIsCancelled

\* With the timeout enabled every wait of a Recv ends, however the server
\* stalls: Recv returns, or a heartbeat comes and it waits again
\* (streaming.go:276).  A server that heartbeats for ever may keep it for ever.
RecvReturns ==
    \A n \in 0..MaxFrames :
        (timeoutOn /\ at # "idle" /\ pos = n) ~>
            (at = "idle" \/ (pos > n /\ frames[pos].flag = "heartbeat"))

\* docs/streaming.md:92: ErrHeartbeatTimeout means that no frame arrived within
\* the timeout, which every frame resets: the request was cancelled by a timer,
\* the one of the read that failed.  In fact the caller's own cancellation is
\* reported the same way, and so is the late callback of an earlier read's timer.
TimeoutMeansNoFrame ==
    outcome = "heartbeatTimeout" => ctx = "timer" /\ victim = reads

-----------------------------------------------------------------------------
(* The frames, read by this reader, implement the message channel.         *)

Ended == IF \E i \in 1..Len(frames) : frames[i].flag = "final" THEN "cleanly"
         ELSE IF \E i \in 1..Len(frames) : frames[i].flag = "error"
              THEN "withError" ELSE "no"

Status == IF outcome = "none" THEN "receiving"
          ELSE IF outcome = "EOF" THEN "complete" ELSE "failed"

Channel == INSTANCE StreamChannel WITH ended <- Ended, status <- Status

ImplementsChannel == Channel!Spec
=============================================================================
