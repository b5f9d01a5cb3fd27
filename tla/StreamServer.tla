---------------------------- MODULE StreamServer ----------------------------
(***************************************************************************)
(* The server side of a structured stream (streaming.go): HandleStream,    *)
(* the streamWriter it hands to the user's handler, and the heartbeat      *)
(* goroutine that shares the writer with it.                               *)
(*                                                                         *)
(* Two goroutines run here.  The request goroutine is at "pc": it starts   *)
(* the stream, runs the user's handler (which may call Send and Close in   *)
(* any order, return, or panic) and finishes HandleStream.  The heartbeat  *)
(* goroutine is at "hb".  A frame reaches the ResponseWriter in one or two *)
(* Write calls (stream.Writer.WriteFrame), so the body is a sequence of    *)
(* header and payload parts and an interleaving of the two goroutines is   *)
(* visible in it.                                                          *)
(***************************************************************************)
EXTENDS Integers, Sequences

CONSTANTS
    Msgs,            \* application messages the handler can send
    Unmarshalable,   \* messages (and replies) marshal fails on
    ZeroLength,      \* messages whose protobuf encoding has no bytes
    MaxCalls,        \* bound: Send and Close calls of one handler
    MaxBeats         \* bound: ticks of the heartbeat ticker

NoMsg == "noMsg"                           \* the nil message
Replies == {"ownReply", "internalReply"}   \* payloads of error frames
Bodies == Msgs \union Replies \union {NoMsg}

ASSUME BoundsAssumption == MaxCalls \in Nat /\ MaxBeats \in Nat
ASSUME MsgsAssumption == NoMsg \notin Msgs /\ Replies \intersect Msgs = {}
ASSUME EncodingAssumption ==
    /\ Unmarshalable \subseteq Msgs \union Replies
    /\ ZeroLength \subseteq Msgs

VARIABLES
    pc,        \* where the request goroutine is
    hb,        \* where the heartbeat goroutine is
    mu,        \* streamWriter.mu: who holds it
    closed,    \* streamWriter.closed
    stop,      \* the channel streamWriter.stop is closed
    stopped,   \* the channel streamWriter.stopped is closed
    stopOnce,  \* streamWriter.stopOnce has run to its end
    enc,       \* the marshal function the Accept header selected
    cur,       \* the frame the request goroutine is writing, or about to
    wire,      \* what the ResponseWriter has accepted, part by part
    whole,     \* history: the frames that are complete, where each ends on the
               \*   wire and the call that wrote it (0 for a heartbeat)
    conn,      \* "up" until a Write fails
    log,       \* history: the calls that wrote a frame, and their results
    calls,     \* Send and Close calls made so far
    beats      \* ticks delivered so far

vars == <<pc, hb, mu, closed, stop, stopped, stopOnce, enc, cur, wire, whole,
          conn, log, calls, beats>>

\* The fields of streamWriter that coordinate the two goroutines.
syncVars == <<mu, closed, stop, stopped, stopOnce>>
wireVars == <<wire, whole>>

Flags == {"data", "final", "error", "heartbeat"}
TerminalFlags == {"final", "error"}

\* A header part carries the flag and the length of the body, a payload part
\* the bytes of the body.  Both name the body itself: the header's length and
\* the payload's bytes are functions of it.
Header(f)  == [part |-> "header",  flag |-> f.flag, body |-> f.body]
Payload(f) == [part |-> "payload", flag |-> f.flag, body |-> f.body]

Parts == [part : {"header", "payload"}, flag : Flags, body : Bodies]

Results == {"ok", "closed", "marshalErr", "writeErr"}
LogEntries == [flag : {"data", "final", "error"}, body : Bodies, res : Results]

Heartbeat == [flag |-> "heartbeat", body |-> NoMsg]
NoFrame   == [flag |-> "data", body |-> NoMsg]

PCs == {"start", "handler", "join", "lock", "held", "header", "payload",
        "returned", "panicked"}
HBs == {"off", "select", "lock", "held", "exited"}

-----------------------------------------------------------------------------
(* The length of an encoding: proto.Marshal writes nothing for a message   *)
(* whose fields all have their zero value, protojson never writes less     *)
(* than "{}".                                                              *)
EncodedEmpty(body) == body = NoMsg \/ (enc = "proto" /\ body \in ZeroLength)

\* A part completes its frame when it is a payload or a header without one.
Completes(p) == p.part = "payload" \/ EncodedEmpty(p.body)

\* One Write the ResponseWriter accepts, on behalf of a call.
Put(p, call) ==
    /\ wire' = Append(wire, p)
    /\ whole' = IF Completes(p)
                THEN Append(whole, [at |-> Len(wire) + 1, call |-> call])
                ELSE whole

\* conf is << >> for a nil *StreamConfig, <<n>> for HeartbeatInterval = n.
Confs == {<< >>, <<-1>>, <<0>>, <<1>>}
HeartbeatInterval(conf) ==
    IF conf # << >> /\ conf[1] # 0 THEN conf[1] ELSE 30

\* buildErrorReply: an error that is a duh.Error brings its own Reply, any
\* other becomes a Reply with code 500.  "nil" is a nil error.
HandlerResults == {"nil", "duhError", "plainError"}
BuildErrorReply(err) == IF err = "duhError" THEN "ownReply" ELSE "internalReply"

-----------------------------------------------------------------------------
Init ==
    /\ pc = "start"
    /\ hb = "off"
    /\ mu = "free"
    /\ closed = FALSE
    /\ stop = FALSE
    /\ stopped = FALSE
    /\ stopOnce = FALSE
    /\ enc = "json"
    /\ cur = NoFrame
    /\ wire = << >>
    /\ whole = << >>
    /\ conn = "up"
    /\ log = << >>
    /\ calls = 0
    /\ beats = 0

-----------------------------------------------------------------------------
(* HandleStream, before the handler.                                       *)

\* No http.Flusher, or an Accept header that is not a stream type: an
\* ordinary reply is written and no stream exists.
Refuse(flusher, accept) ==
    /\ pc = "start"
    /\ ~flusher \/ accept \notin {"json", "proto"}
    /\ pc' = "returned"
    /\ UNCHANGED <<hb, syncVars, enc, cur, wireVars, conn, log, calls, beats>>

\* Mutant: the Accept header is not validated.
StartStreamAnyAccept(flusher, accept, conf) ==
    /\ pc = "start" /\ flusher
    /\ pc' = "handler"
    /\ enc' = accept
    /\ hb' = "select"
    /\ UNCHANGED <<mu, closed, stop, stopped, stopOnce, cur, wireVars, conn, log,
                   calls, beats>>

\* The streamWriter is built and, unless the interval is negative, the
\* heartbeat goroutine started; without it stopped is closed at once.
StartStream(flusher, accept, conf) ==
    /\ pc = "start"
    /\ flusher /\ accept \in {"json", "proto"}
    /\ pc' = "handler"
    /\ enc' = accept
    /\ hb' = IF HeartbeatInterval(conf) > 0 THEN "select" ELSE "off"
    /\ stopped' = ~(HeartbeatInterval(conf) > 0)
    /\ UNCHANGED <<mu, closed, stop, stopOnce, cur, wireVars, conn, log, calls,
                   beats>>

-----------------------------------------------------------------------------
(* The user's handler: what it chooses to do next.                         *)

CallSend(m) ==
    /\ pc = "handler" /\ calls < MaxCalls
    /\ calls' = calls + 1
    /\ cur' = [flag |-> "data", body |-> m]
    /\ pc' = "lock"
    /\ UNCHANGED <<hb, syncVars, enc, wireVars, conn, log, beats>>

\* Close stops the heartbeat before it takes the lock.
CallClose(m) ==
    /\ pc = "handler" /\ calls < MaxCalls
    /\ calls' = calls + 1
    /\ cur' = [flag |-> "final", body |-> m]
    /\ pc' = "join"
    /\ UNCHANGED <<hb, syncVars, enc, wireVars, conn, log, beats>>

\* Mutant: a handler that returns nil leaves without stopHeartbeat.
HandlerReturnLeaks(err) ==
    /\ pc = "handler"
    /\ cur' = [flag |-> "error",
               body |-> IF err = "nil" THEN NoMsg ELSE BuildErrorReply(err)]
    /\ pc' = IF err = "nil" THEN "returned" ELSE "join"
    /\ UNCHANGED <<hb, syncVars, enc, wireVars, conn, log, calls, beats>>

\* The handler returns; HandleStream goes on to stopHeartbeat.
HandlerReturn(err) ==
    /\ pc = "handler"
    /\ cur' = [flag |-> "error",
               body |-> IF err = "nil" THEN NoMsg ELSE BuildErrorReply(err)]
    /\ pc' = "join"
    /\ UNCHANGED <<hb, syncVars, enc, wireVars, conn, log, calls, beats>>

\* A panic unwinds through HandleStream, which defers nothing at this point;
\* net/http recovers it and drops the connection.
HandlerPanic ==
    /\ pc = "handler"
    /\ pc' = "panicked"
    /\ conn' = "down"
    /\ UNCHANGED <<hb, syncVars, enc, cur, wireVars, log, calls, beats>>

-----------------------------------------------------------------------------
(* stopHeartbeat, called by Close and by HandleStream after the handler.   *)

\* Mutants: the error frame is forgotten; it is written to a closed stream too.
AfterJoinNoErrorFrame == IF cur.flag = "error" THEN "returned" ELSE "lock"
AfterJoinIgnoresClosed ==
    IF cur.flag = "error" /\ cur.body = NoMsg THEN "returned" ELSE "lock"

\* Where the caller of stopHeartbeat continues: Close locks mu; HandleStream
\* returns when the handler's error is nil or the stream is closed, and locks
\* mu for the error frame otherwise.
AfterJoin ==
    IF cur.flag = "error" /\ (cur.body = NoMsg \/ closed)
    THEN "returned" ELSE "lock"

StopSignal ==
    /\ pc = "join" /\ ~stopOnce /\ ~stop
    /\ stop' = TRUE
    /\ UNCHANGED <<pc, hb, mu, closed, stopped, stopOnce, enc, cur, wireVars, conn,
                   log, calls, beats>>

\* Mutant: the goroutine is told to stop and not waited for.
StopWaitNoJoin ==
    /\ pc = "join" /\ ~stopOnce /\ stop
    /\ stopOnce' = TRUE
    /\ pc' = AfterJoin
    /\ UNCHANGED <<hb, mu, closed, stop, stopped, enc, cur, wireVars, conn, log,
                   calls, beats>>

StopWait ==
    /\ pc = "join" /\ ~stopOnce /\ stop /\ stopped
    /\ stopOnce' = TRUE
    /\ pc' = AfterJoin
    /\ UNCHANGED <<hb, mu, closed, stop, stopped, enc, cur, wireVars, conn, log,
                   calls, beats>>

StopAgain ==
    /\ pc = "join" /\ stopOnce
    /\ pc' = AfterJoin
    /\ UNCHANGED <<hb, syncVars, enc, cur, wireVars, conn, log, calls, beats>>

-----------------------------------------------------------------------------
(* Send, Close and the error path from mu.Lock to mu.Unlock.               *)

\* Unlock and return: Send and Close to the handler, the error path out of
\* HandleStream.
Finish(res) ==
    /\ mu' = "free"
    /\ pc' = IF cur.flag = "error" THEN "returned" ELSE "handler"
    /\ log' = Append(log, [flag |-> cur.flag, body |-> cur.body, res |-> res])

Lock ==
    /\ pc = "lock" /\ mu = "free"
    /\ mu' = "handler"
    /\ pc' = "held"
    /\ UNCHANGED <<hb, closed, stop, stopped, stopOnce, enc, cur, wireVars, conn,
                   log, calls, beats>>

\* Mutant: Close marks the stream closed only once the message is marshalled.
PrepareClosesLate ==
    /\ pc = "held"
    /\ \/ cur.flag # "error" /\ closed /\ Finish("closed") /\ UNCHANGED closed
       \/ /\ cur.flag = "error" \/ ~closed
          /\ \/ cur.body \in Unmarshalable /\ Finish("marshalErr") /\ UNCHANGED closed
             \/ /\ cur.body \notin Unmarshalable
                /\ closed' = (closed \/ cur.flag = "final")
                /\ pc' = "header"
                /\ UNCHANGED <<mu, log>>
    /\ UNCHANGED <<hb, stop, stopped, stopOnce, enc, cur, wireVars, conn, calls,
                   beats>>

\* Under the lock, before the first byte.  Send and Close fail on a closed
\* stream; Close marks the stream closed before it marshals; a marshal error
\* ends the call with nothing written.
Prepare ==
    /\ pc = "held"
    /\ \/ /\ cur.flag # "error" /\ closed
          /\ Finish("closed")
          /\ UNCHANGED closed
       \/ /\ cur.flag = "error" \/ ~closed
          /\ closed' = (closed \/ cur.flag = "final")
          /\ \/ cur.body \in Unmarshalable /\ Finish("marshalErr")
             \/ /\ cur.body \notin Unmarshalable
                /\ pc' = "header"
                /\ UNCHANGED <<mu, log>>
    /\ UNCHANGED <<hb, stop, stopped, stopOnce, enc, cur, wireVars, conn, calls,
                   beats>>

\* WriteFrame: the header, and the payload in a Write of its own unless it is
\* empty.  A failed Write ends the call; a complete frame is flushed.
WriteHeader ==
    /\ pc = "header"
    /\ \/ conn = "down" /\ Finish("writeErr") /\ UNCHANGED wireVars
       \/ /\ conn = "up"
          /\ Put(Header(cur), Len(log) + 1)
          /\ \/ EncodedEmpty(cur.body) /\ Finish("ok")
             \/ /\ ~EncodedEmpty(cur.body)
                /\ pc' = "payload"
                /\ UNCHANGED <<mu, log>>
    /\ UNCHANGED <<hb, closed, stop, stopped, stopOnce, enc, cur, conn, calls,
                   beats>>

\* Mutant: the error of the second Write is lost.
WritePayloadIgnoresErr ==
    /\ pc = "payload"
    /\ Finish("ok")
    /\ \/ conn = "down" /\ UNCHANGED wireVars
       \/ conn = "up" /\ Put(Payload(cur), Len(log) + 1)
    /\ UNCHANGED <<hb, closed, stop, stopped, stopOnce, enc, cur, conn, calls,
                   beats>>

WritePayload ==
    /\ pc = "payload"
    /\ \/ conn = "down" /\ Finish("writeErr") /\ UNCHANGED wireVars
       \/ conn = "up" /\ Finish("ok") /\ Put(Payload(cur), Len(log) + 1)
    /\ UNCHANGED <<hb, closed, stop, stopped, stopOnce, enc, cur, conn, calls,
                   beats>>

-----------------------------------------------------------------------------
(* The heartbeat goroutine.                                                *)

\* Mutant: the goroutine exits without closing stopped.
HbStopForgets ==
    /\ hb = "select" /\ stop
    /\ hb' = "exited"
    /\ UNCHANGED <<pc, syncVars, enc, cur, wireVars, conn, log, calls, beats>>

HbStop ==
    /\ hb = "select" /\ stop
    /\ hb' = "exited"
    /\ stopped' = TRUE
    /\ UNCHANGED <<pc, mu, closed, stop, stopOnce, enc, cur, wireVars, conn, log,
                   calls, beats>>

\* The ticker's case of the select; it may be chosen although stop is closed.
HbTick ==
    /\ hb = "select" /\ beats < MaxBeats
    /\ beats' = beats + 1
    /\ hb' = "lock"
    /\ UNCHANGED <<pc, syncVars, enc, cur, wireVars, conn, log, calls>>

\* Mutant: the heartbeat is written without the mutex.
HbLockNoMutex ==
    /\ hb = "lock"
    /\ hb' = "held"
    /\ UNCHANGED <<pc, syncVars, enc, cur, wireVars, conn, log, calls, beats>>

HbLock ==
    /\ hb = "lock" /\ mu = "free"
    /\ mu' = "heartbeat"
    /\ hb' = "held"
    /\ UNCHANGED <<pc, closed, stop, stopped, stopOnce, enc, cur, wireVars, conn,
                   log, calls, beats>>

\* A closed stream ends the goroutine; otherwise one heartbeat is written, a
\* write error ignored, and the lock released.
HbBeat ==
    /\ hb = "held"
    /\ mu' = "free"
    /\ hb' = IF closed THEN "exited" ELSE "select"
    /\ stopped' = (stopped \/ closed)
    /\ IF ~closed /\ conn = "up" THEN Put(Header(Heartbeat), 0)
                                 ELSE UNCHANGED wireVars
    /\ UNCHANGED <<pc, closed, stop, stopOnce, enc, cur, conn, log, calls, beats>>

-----------------------------------------------------------------------------
\* The ResponseWriter starts to fail; net/http keeps the first write error and
\* returns it for every later Write.
ConnFail ==
    /\ conn = "up" /\ pc \notin {"start", "returned", "panicked"}
    /\ conn' = "down"
    /\ UNCHANGED <<pc, hb, syncVars, enc, cur, wireVars, log, calls, beats>>

\* The request is over.
Over == pc \in {"returned", "panicked"} /\ UNCHANGED vars

HandlerChoice ==
    \/ \E m \in Msgs : CallSend(m)
    \/ \E m \in Msgs \union {NoMsg} : CallClose(m)
    \/ \E err \in HandlerResults : HandlerReturn(err)
    \/ HandlerPanic

Library ==
    \/ \E flusher \in BOOLEAN, accept \in {"json", "proto", "other"} :
          \/ Refuse(flusher, accept)
          \/ \E conf \in Confs : StartStream(flusher, accept, conf)
    \/ StopSignal \/ StopWait \/ StopAgain
    \/ Lock \/ Prepare \/ WriteHeader \/ WritePayload

HeartbeatStep == HbStop \/ HbTick \/ HbLock \/ HbBeat

Next == Library \/ HandlerChoice \/ HeartbeatStep \/ ConnFail \/ Over

\* The Go scheduler runs every runnable goroutine; a Mutex hands itself to a
\* waiter that has waited long enough, and a select with several ready cases
\* picks one at random, so neither a lock nor the stop case is missed for
\* ever.  Nothing is assumed of the handler and the ticker, nor that a Write to
\* a connection that is up returns: a client that stops reading blocks it, and
\* the server has no deadline for it.  On a failed connection Write returns.
Fairness ==
    /\ WF_vars(StopSignal \/ StopWait \/ StopAgain)
    /\ SF_vars(Lock)
    /\ WF_vars(Prepare)
    /\ WF_vars(conn = "down" /\ (WriteHeader \/ WritePayload))
    /\ SF_vars(HbLock)
    /\ WF_vars((closed \/ conn = "down") /\ HbBeat)
    /\ SF_vars(HbStop)

Spec == Init /\ [][Next]_vars
FairSpec == Spec /\ Fairness

-----------------------------------------------------------------------------
(* Properties.                                                             *)

TypeOK ==
    /\ pc \in PCs
    /\ hb \in HBs
    /\ mu \in {"free", "handler", "heartbeat"}
    /\ closed \in BOOLEAN
    /\ stop \in BOOLEAN
    /\ stopped \in BOOLEAN
    /\ stopOnce \in BOOLEAN
    /\ enc \in {"json", "proto"}
    /\ cur \in [flag : {"data", "final", "error"}, body : Bodies]
    /\ wire \in Seq(Parts)
    /\ whole \in Seq([at : Nat, call : Nat])
    /\ conn \in {"up", "down"}
    /\ log \in Seq(LogEntries)
    /\ calls \in 0..MaxCalls
    /\ beats \in 0..MaxBeats

\* The part that follows a header that announces a payload is that payload,
\* and a payload follows nothing else: no frame, heartbeats included, is
\* written into the middle of another (docs/streaming.md:88).
FramesContiguous ==
    \A i \in 1..Len(wire) :
        /\ (wire[i].part = "header" /\ ~EncodedEmpty(wire[i].body)
               /\ i < Len(wire)) =>
              wire[i + 1] = [wire[i] EXCEPT !.part = "payload"]
        /\ wire[i].part = "payload" =>
              /\ i > 1
              /\ wire[i - 1] = [wire[i] EXCEPT !.part = "header"]

\* Once the header of a final or an error frame is out, the only thing that
\* may follow is that frame's own payload (docs/streaming.md:54).
SilentAfterTerminal ==
    \A i, j \in 1..Len(wire) :
        (i < j /\ wire[i].flag \in TerminalFlags) =>
            wire[j] = [wire[i] EXCEPT !.part = "payload"]

\* When HandleStream has returned the heartbeat goroutine is gone, on every
\* path out of it: closed, failed, refused, disconnected (streaming.go:202).
HeartbeatJoined == pc = "returned" => hb \in {"off", "exited"}

\* What "whole" records is what a client decodes: the frames whose last part is
\* out, each once and in the order of the wire.
WholeExact ==
    /\ {whole[k].at : k \in 1..Len(whole)} =
          {i \in 1..Len(wire) : Completes(wire[i])}
    /\ \A k, l \in 1..Len(whole) : k < l => whole[k].at < whole[l].at

\* A whole frame is a heartbeat or what a call that returned nil was given.
FrameHasCall ==
    \A k \in 1..Len(whole) :
        LET p == wire[whole[k].at]
            c == whole[k].call
        IN  IF p.flag = "heartbeat" THEN c = 0
            ELSE /\ c \in 1..Len(log)
                 /\ log[c] = [flag |-> p.flag, body |-> p.body, res |-> "ok"]

\* A call that returned nil has its frame on the wire.
CallHasFrame ==
    \A c \in 1..Len(log) :
        log[c].res = "ok" => \E k \in 1..Len(whole) : whole[k].call = c

\* The frames of two calls are in the order of the calls.
FramesInCallOrder ==
    \A k, l \in 1..Len(whole) :
        (k < l /\ whole[k].call # 0 /\ whole[l].call # 0) =>
            whole[k].call < whole[l].call

\* The decodable data, final and error frames are exactly the calls that
\* returned nil, in call order: no message is lost, doubled, reordered, or
\* on the wire although its call reported an error.
FramesMatchCalls == FrameHasCall /\ CallHasFrame /\ FramesInCallOrder

\* A frame of one kind is whole; a call of one kind met a message, or the
\* error path a reply, it could not marshal.
Written(flag) == \E i \in 1..Len(wire) : wire[i].flag = flag /\ Completes(wire[i])
Unmarshalled(flag) ==
    \E i \in 1..Len(log) : log[i].flag = flag /\ log[i].res = "marshalErr"

\* A stream that HandleStream leaves without a final or an error frame, over a
\* connection that never failed, has one of three causes: the handler returned
\* nil without Close, Close met a message it could not marshal, or the error
\* reply could not be marshalled.
UnterminatedOnlyIf ==
    (pc = "returned" /\ conn = "up" /\ stopOnce
       /\ ~Written("final") /\ ~Written("error")) =>
        \/ ~closed /\ cur = [flag |-> "error", body |-> NoMsg]
        \/ Unmarshalled("final") \/ Unmarshalled("error")

\* What a client of an undamaged connection decodes is what the handler was
\* told: the frames of the calls that returned nil, and an end.
WireMatchesCalls == WholeExact /\ FramesMatchCalls /\ UnterminatedOnlyIf

\* At most one Close succeeds, no Send succeeds after it, and an error frame
\* is never written to a stream the handler closed.
NothingAcceptedAfterClose ==
    \A i, j \in 1..Len(log) :
        (i < j /\ log[i].flag = "final" /\ log[i].res # "closed") =>
            log[j].flag # "error" /\ log[j].res = "closed"

\* Nothing is written to the ResponseWriter after HandleStream has returned.
NoWriteAfterReturn == [][pc = "returned" => wire' = wire]_vars

\* A Write to a connection that is up has not returned; mu is held
\* (stream/stream.go:36, 40).
Stalled == conn = "up" /\ (pc \in {"header", "payload"} \/ (hb = "held" /\ ~closed))

\* Every call comes back to the handler, and HandleStream returns, unless a Write
\* never does: the mutex, the heartbeat and the wait for its goroutine keep no
\* call, and a connection that fails lets all of them go (streaming.go:181).
CallsReturn ==
    pc \in {"join", "lock", "held", "header", "payload"} ~>
        (pc \in {"handler", "returned"} \/ []Stalled)

\* What the comments at streaming.go:62 and streaming.go:202 claim: the
\* heartbeat goroutine never outlives the request.  A panicking handler skips
\* stopHeartbeat, which is not deferred.
NeverOutlivesRequest ==
    pc \in {"returned", "panicked"} => hb \in {"off", "exited"}

-----------------------------------------------------------------------------
(* The inductive invariant behind the safety properties above.             *)

\* Who holds the mutex follows from where the goroutines are.
LockInv ==
    /\ mu = "handler" <=> pc \in {"held", "header", "payload"}
    /\ mu = "heartbeat" <=> hb = "held"

\* The join protocol: the stream is closed, and a final or an error frame
\* prepared, only after the heartbeat goroutine is gone for good.
JoinInv ==
    /\ stopped => hb \in {"off", "exited"}
    /\ stopOnce => stopped
    /\ closed => stopOnce
    /\ (pc \in {"lock", "held", "header", "payload"}
          /\ cur.flag \in TerminalFlags) => stopOnce
    /\ pc = "returned" => hb \in {"off", "exited"}
    /\ pc = "start" => /\ hb = "off" /\ wire = << >> /\ log = << >>
                       /\ ~closed /\ ~stopOnce

\* A final or an error frame has been begun.
TerminalBegun == \E i \in 1..Len(wire) : wire[i].flag \in TerminalFlags

\* When a terminal frame can be on the wire, and what surrounds a header whose
\* payload is still to come.
TerminalInv ==
    /\ TerminalBegun =>
          closed \/ (cur.flag = "error" /\ pc \in {"payload", "returned"})
    /\ pc = "header" => ~TerminalBegun
    /\ pc = "payload" =>
          /\ wire # << >>
          /\ wire[Len(wire)] = Header(cur)
          /\ ~EncodedEmpty(cur.body)
          /\ \A i \in 1..(Len(wire) - 1) : wire[i].flag \notin TerminalFlags
    /\ (pc \in {"lock", "held", "header", "payload"} /\ cur.flag = "error") =>
          ~closed
    /\ (pc \in {"header", "payload"} /\ cur.flag = "final") => closed
    /\ (pc \in {"header", "payload"} /\ cur.flag = "data") => ~closed

\* A header still waiting for its payload is the last part, and either its
\* writer is about to write it or the connection is gone.
LastPartInv ==
    (wire # << >> /\ wire[Len(wire)].part = "header"
       /\ ~EncodedEmpty(wire[Len(wire)].body)) => pc = "payload" \/ conn = "down"

WireInv ==
    TerminalInv /\ LastPartInv /\ FramesContiguous /\ SilentAfterTerminal

\* Some Close got past the closed check.
CloseLogged ==
    \E i \in 1..Len(log) : log[i].flag = "final" /\ log[i].res # "closed"

LogInv ==
    /\ CloseLogged => closed
    /\ pc \in {"header", "payload"} => ~CloseLogged

\* How a stream that is closed, or a HandleStream that has returned, got there.
EndInv ==
    /\ (closed /\ conn = "up" /\ pc \notin {"header", "payload"}) =>
          Written("final") \/ Unmarshalled("final")
    /\ (pc = "returned" /\ conn = "up" /\ stopOnce) =>
          /\ cur.flag = "error"
          /\ \/ closed \/ cur.body = NoMsg
             \/ Written("error") \/ Unmarshalled("error")

WholeInv == WholeExact /\ FramesMatchCalls

IndInv ==
    /\ TypeOK
    /\ LockInv
    /\ JoinInv
    /\ WireInv
    /\ LogInv
    /\ NothingAcceptedAfterClose
    /\ WholeInv
    /\ EndInv

-----------------------------------------------------------------------------
(* HandleStream implements the log of whole frames.                        *)

Frames == [k \in 1..Len(whole) |->
              [flag |-> wire[whole[k].at].flag, body |-> wire[whole[k].at].body]]

Log == INSTANCE FrameLog WITH frames <- Frames, up <- conn = "up"

ImplementsFrameLog == Log!Spec
=============================================================================
