------------------------- MODULE StreamServerProofs -------------------------
(***************************************************************************)
(* Machine-checked proofs about StreamServer, for every set of messages    *)
(* and every number of calls and heartbeats.                               *)
(***************************************************************************)
EXTENDS StreamServer, TLAPS

USE DEF TerminalFlags, Flags, PCs, HBs, syncVars, wireVars

\* Appending to a sequence: length, old elements, new element.
LEMMA AppendFacts ==
    ASSUME NEW S, NEW s \in Seq(S), NEW e \in S
    PROVE  /\ Append(s, e) \in Seq(S)
           /\ Len(Append(s, e)) = Len(s) + 1
           /\ Len(s) \in Nat
           /\ \A i \in 1..Len(s) : Append(s, e)[i] = s[i]
           /\ Append(s, e)[Len(s) + 1] = e
           /\ Append(s, e) # << >>
  OBVIOUS

\* An element of a sequence.
LEMMA ElementFacts ==
    ASSUME NEW S, NEW s \in Seq(S), NEW i \in 1..Len(s)
    PROVE  s[i] \in S
  OBVIOUS

\* Every step keeps the variables in their types.
LEMMA TypeStep == TypeOK /\ [Next]_vars => TypeOK'
  <1> SUFFICES ASSUME TypeOK, [Next]_vars PROVE TypeOK'
    OBVIOUS
  <1> USE BoundsAssumption DEF TypeOK
  <1>1. ASSUME NEW flusher \in BOOLEAN, NEW accept \in {"json", "proto", "other"},
               Refuse(flusher, accept)
        PROVE  TypeOK'
    BY <1>1 DEF Refuse
  <1>2. ASSUME NEW flusher \in BOOLEAN, NEW accept \in {"json", "proto", "other"},
               NEW conf \in Confs, StartStream(flusher, accept, conf)
        PROVE  TypeOK'
    BY <1>2 DEF StartStream
  <1>3. ASSUME NEW m \in Msgs, CallSend(m) PROVE TypeOK'
    BY <1>3 DEF CallSend, Bodies
  <1>4. ASSUME NEW m \in Msgs \union {NoMsg}, CallClose(m) PROVE TypeOK'
    BY <1>4 DEF CallClose, Bodies
  <1>5. ASSUME NEW err \in HandlerResults, HandlerReturn(err) PROVE TypeOK'
    BY <1>5 DEF HandlerReturn, Bodies, Replies, BuildErrorReply
  <1>6. CASE HandlerPanic
    BY <1>6 DEF HandlerPanic
  <1>7. CASE StopSignal \/ StopWait \/ StopAgain \/ Lock
    BY <1>7 DEF StopSignal, StopWait, StopAgain, AfterJoin, Lock
  <1>8. ASSUME NEW res \in Results, Finish(res)
        PROVE  pc' \in PCs /\ mu' = "free" /\ log' \in Seq(LogEntries)
    <2>1. [flag |-> cur.flag, body |-> cur.body, res |-> res] \in LogEntries
      BY DEF LogEntries
    <2> QED BY <1>8, <2>1, AppendFacts DEF Finish
  <1>9. CASE Prepare
    <2>1. /\ UNCHANGED <<hb, stop, stopped, stopOnce, enc, cur, wire, whole, conn, calls, beats>>
          /\ closed' = closed \/ closed' = (closed \/ cur.flag = "final")
          /\ \/ Finish("closed") \/ Finish("marshalErr")
             \/ pc' = "header" /\ mu' = mu /\ log' = log
      BY <1>9 DEF Prepare
    <2>2. pc' \in PCs /\ mu' \in {"free", "handler", "heartbeat"} /\ log' \in Seq(LogEntries)
      BY <1>8, <2>1 DEF Results
    <2>3. closed' \in BOOLEAN
      BY <2>1
    <2> QED BY <2>1, <2>2, <2>3
  <1>10. Header(cur) \in Parts /\ Payload(cur) \in Parts
    BY DEF Header, Payload, Parts
  <1>put. ASSUME NEW p \in Parts, NEW call \in Nat, Put(p, call)
         PROVE  wire' \in Seq(Parts) /\ whole' \in Seq([at : Nat, call : Nat])
    <2>1. wire' \in Seq(Parts) /\ Len(wire) + 1 \in Nat
      BY <1>put, AppendFacts DEF Put
    <2>2. [at |-> Len(wire) + 1, call |-> call] \in [at : Nat, call : Nat]
      BY <2>1
    <2> QED BY <1>put, <2>1, <2>2, AppendFacts DEF Put
  <1>len. Len(log) + 1 \in Nat
    BY AppendFacts
  <1>11. CASE WriteHeader
    <2>1. wire' \in Seq(Parts) /\ whole' \in Seq([at : Nat, call : Nat])
      BY <1>10, <1>11, <1>put, <1>len DEF WriteHeader
    <2> QED BY <1>8, <1>11, <2>1 DEF WriteHeader, Results
  <1>12. CASE WritePayload
    <2>1. wire' \in Seq(Parts) /\ whole' \in Seq([at : Nat, call : Nat])
      BY <1>10, <1>12, <1>put, <1>len DEF WritePayload
    <2> QED BY <1>8, <1>12, <2>1 DEF WritePayload, Results
  <1>13. CASE HbStop
    BY <1>13 DEF HbStop
  <1>14. CASE HbTick
    <2>1. beats' \in 0..MaxBeats
      BY <1>14 DEF HbTick
    <2> QED BY <1>14, <2>1 DEF HbTick
  <1>15. CASE HbLock
    BY <1>15 DEF HbLock
  <1>16. CASE HbBeat
    <2>1. Header(Heartbeat) \in Parts
      BY DEF Header, Heartbeat, Parts, Bodies
    <2>2. wire' \in Seq(Parts) /\ whole' \in Seq([at : Nat, call : Nat])
      BY <1>16, <1>put, <2>1 DEF HbBeat
    <2> QED BY <1>16, <2>2 DEF HbBeat
  <1>17. CASE ConnFail
    BY <1>17 DEF ConnFail
  <1>18. CASE Over \/ UNCHANGED vars
    BY <1>18 DEF Over, vars
  <1> QED
    BY <1>1, <1>2, <1>3, <1>4, <1>5, <1>6, <1>7, <1>9, <1>11, <1>12, <1>13,
       <1>14, <1>15, <1>16, <1>17, <1>18
    DEF Next, Library, HandlerChoice, HeartbeatStep

-----------------------------------------------------------------------------
(* Mutual exclusion and the join protocol.                                 *)

\* The mutex is held exactly by the goroutine whose program counter says so.
LEMMA LockStep == TypeOK /\ LockInv /\ JoinInv /\ [Next]_vars => LockInv'
  <1> SUFFICES ASSUME TypeOK, LockInv, JoinInv, [Next]_vars PROVE LockInv'
    OBVIOUS
  <1> USE DEF TypeOK, LockInv
  <1>1. CASE Library
    <2>1. ASSUME NEW flusher, NEW accept, Refuse(flusher, accept) PROVE LockInv'
      BY <2>1 DEF Refuse
    <2>2. ASSUME NEW flusher, NEW accept, NEW conf,
                 StartStream(flusher, accept, conf)
          PROVE  LockInv'
      BY <2>2 DEF StartStream, JoinInv
    <2>3. CASE StopSignal \/ StopWait \/ StopAgain \/ Lock
      BY <2>3 DEF StopSignal, StopWait, StopAgain, AfterJoin, Lock
    <2>4. CASE Prepare
      BY <2>4 DEF Prepare, Finish
    <2>5. CASE WriteHeader \/ WritePayload
      BY <2>5 DEF WriteHeader, WritePayload, Finish
    <2> QED BY <1>1, <2>1, <2>2, <2>3, <2>4, <2>5 DEF Library
  <1>2. CASE HandlerChoice
    <2>1. pc = "handler" /\ pc' \notin {"held", "header", "payload"}
          /\ UNCHANGED <<hb, mu>>
      BY <1>2 DEF HandlerChoice, CallSend, CallClose, HandlerReturn, HandlerPanic
    <2> QED BY <2>1
  <1>3. CASE HeartbeatStep
    BY <1>3 DEF HeartbeatStep, HbStop, HbTick, HbLock, HbBeat
  <1>4. CASE ConnFail \/ Over \/ UNCHANGED vars
    BY <1>4 DEF ConnFail, Over, vars
  <1> QED BY <1>1, <1>2, <1>3, <1>4 DEF Next

\* The stream is closed, and a terminal frame prepared, only once the
\* heartbeat goroutine is gone, and it never comes back.
LEMMA JoinStep == TypeOK /\ LockInv /\ JoinInv /\ [Next]_vars => JoinInv'
  <1> SUFFICES ASSUME TypeOK, LockInv, JoinInv, [Next]_vars PROVE JoinInv'
    OBVIOUS
  <1> USE DEF TypeOK, JoinInv
  <1>1. CASE Library
    <2>1. ASSUME NEW flusher, NEW accept, Refuse(flusher, accept) PROVE JoinInv'
      BY <2>1 DEF Refuse
    <2>2. ASSUME NEW flusher, NEW accept, NEW conf,
                 StartStream(flusher, accept, conf)
          PROVE  JoinInv'
      <3>1. CASE HeartbeatInterval(conf) > 0
        BY <2>2, <3>1 DEF StartStream
      <3>2. CASE ~(HeartbeatInterval(conf) > 0)
        BY <2>2, <3>2 DEF StartStream
      <3> QED BY <3>1, <3>2
    <2>3. CASE StopSignal \/ StopWait \/ StopAgain
      BY <2>3 DEF StopSignal, StopWait, StopAgain, AfterJoin
    <2>4. CASE Lock
      BY <2>4 DEF Lock
    <2>5. CASE Prepare
      BY <2>5 DEF Prepare, Finish
    <2>6. CASE WriteHeader \/ WritePayload
      BY <2>6 DEF WriteHeader, WritePayload, Finish
    <2> QED BY <1>1, <2>1, <2>2, <2>3, <2>4, <2>5, <2>6 DEF Library
  <1>2. CASE HandlerChoice
    BY <1>2 DEF HandlerChoice, CallSend, CallClose, HandlerReturn, HandlerPanic
  <1>3. CASE HeartbeatStep
    BY <1>3 DEF HeartbeatStep, HbStop, HbTick, HbLock, HbBeat
  <1>4. CASE ConnFail \/ Over \/ UNCHANGED vars
    BY <1>4 DEF ConnFail, Over, vars
  <1> QED BY <1>1, <1>2, <1>3, <1>4 DEF Next

-----------------------------------------------------------------------------
(* What is on the wire.                                                    *)

\* A step that writes nothing, and does not change the encoding of a stream
\* that has begun, leaves the frames on the wire as whole as they were.
LEMMA QuietWire ==
    ASSUME TypeOK, FramesContiguous, SilentAfterTerminal, wire' = wire,
           enc' = enc \/ wire = << >>
    PROVE  FramesContiguous' /\ SilentAfterTerminal'
  <1>1. CASE enc' = enc
    BY <1>1 DEF FramesContiguous, SilentAfterTerminal, EncodedEmpty
  <1>2. CASE wire = << >>
    BY <1>2 DEF FramesContiguous, SilentAfterTerminal
  <1> QED BY <1>1, <1>2

\* Appending one part keeps the frames contiguous when a header follows a
\* finished frame and a payload its own header.
LEMMA AppendContiguous ==
    ASSUME TypeOK, FramesContiguous, enc' = enc,
           NEW p \in Parts, wire' = Append(wire, p),
           \/ /\ p.part = "payload" /\ wire # << >>
              /\ wire[Len(wire)] = [p EXCEPT !.part = "header"]
           \/ /\ p.part = "header"
              /\ wire # << >> => \/ wire[Len(wire)].part = "payload"
                                 \/ EncodedEmpty(wire[Len(wire)].body)
    PROVE  FramesContiguous'
  <1>1. /\ Len(wire') = Len(wire) + 1 /\ Len(wire) \in Nat
        /\ \A i \in 1..Len(wire) : wire'[i] = wire[i]
        /\ wire'[Len(wire) + 1] = p
    BY AppendFacts DEF TypeOK
  <1>2. wire # << >> => Len(wire) > 0
    BY DEF TypeOK
  <1>3. \A i \in 1..Len(wire) : wire[i] \in Parts
    BY DEF TypeOK
  <1> SUFFICES ASSUME NEW i \in 1..Len(wire')
               PROVE  /\ (wire'[i].part = "header" /\ ~EncodedEmpty(wire[i].body)'
                            /\ i < Len(wire')) =>
                           wire'[i + 1] = [wire'[i] EXCEPT !.part = "payload"]
                      /\ wire'[i].part = "payload" =>
                           i > 1 /\ wire'[i - 1] = [wire'[i] EXCEPT !.part = "header"]
    BY DEF FramesContiguous
  <1>4. CASE i < Len(wire)
    BY <1>1, <1>3, <1>4 DEF FramesContiguous, EncodedEmpty
  <1>5. CASE i = Len(wire)
    <2>1. wire'[i] = wire[i] /\ wire'[i + 1] = p /\ i > 0
      BY <1>1, <1>5
    <2>2. (wire[i].part = "header" /\ ~EncodedEmpty(wire[i].body)) =>
              p = [wire[i] EXCEPT !.part = "payload"]
      <3>1. p = [part |-> p.part, flag |-> p.flag, body |-> p.body]
        BY DEF Parts
      <3> QED BY <3>1, <1>5, <2>1, <1>3 DEF Parts
    <2>3. wire[i].part = "payload" =>
              i > 1 /\ wire'[i - 1] = [wire[i] EXCEPT !.part = "header"]
      <3> SUFFICES ASSUME wire[i].part = "payload"
                   PROVE  i > 1 /\ wire'[i - 1] = [wire[i] EXCEPT !.part = "header"]
        OBVIOUS
      <3>1. i \in 1..Len(wire)
        BY <1>1, <1>5, <2>1
      <3>2. i > 1 /\ wire[i - 1] = [wire[i] EXCEPT !.part = "header"]
        BY <3>1 DEF FramesContiguous
      <3>3. i - 1 \in 1..Len(wire)
        BY <1>1, <3>1, <3>2
      <3> QED BY <1>1, <3>2, <3>3
    <2> QED BY <2>1, <2>2, <2>3 DEF EncodedEmpty
  <1>6. CASE i = Len(wire) + 1
    BY <1>1, <1>2, <1>3, <1>6 DEF Parts
  <1>7. i < Len(wire) \/ i = Len(wire) \/ i = Len(wire) + 1
    BY <1>1
  <1> QED BY <1>4, <1>5, <1>6, <1>7

\* Appending one part keeps the stream silent after a terminal frame when no
\* terminal frame has begun, or the part is the payload of the last header.
LEMMA AppendSilent ==
    ASSUME TypeOK, SilentAfterTerminal,
           NEW p \in Parts, wire' = Append(wire, p),
           \/ ~TerminalBegun
           \/ /\ wire # << >> /\ p = [wire[Len(wire)] EXCEPT !.part = "payload"]
              /\ \A i \in 1..(Len(wire) - 1) : wire[i].flag \notin TerminalFlags
    PROVE  SilentAfterTerminal'
  <1>1. /\ Len(wire') = Len(wire) + 1 /\ Len(wire) \in Nat
        /\ \A i \in 1..Len(wire) : wire'[i] = wire[i]
        /\ wire'[Len(wire) + 1] = p
    BY AppendFacts DEF TypeOK
  <1> SUFFICES ASSUME NEW i \in 1..Len(wire'), NEW j \in 1..Len(wire'),
                      i < j, wire'[i].flag \in TerminalFlags
               PROVE  wire'[j] = [wire'[i] EXCEPT !.part = "payload"]
    BY DEF SilentAfterTerminal
  <1>2. CASE j <= Len(wire)
    BY <1>1, <1>2 DEF SilentAfterTerminal
  <1>3. CASE j = Len(wire) + 1
    BY <1>1, <1>3 DEF TerminalBegun
  <1> QED BY <1>1, <1>2, <1>3

\* No step tears a frame apart or writes past a terminal frame.
LEMMA WireStep ==
    TypeOK /\ LockInv /\ JoinInv /\ WireInv /\ [Next]_vars => WireInv'
  <1> SUFFICES ASSUME TypeOK, LockInv, JoinInv, WireInv, [Next]_vars
               PROVE  WireInv'
    OBVIOUS
  <1>1. TerminalInv /\ LastPartInv /\ FramesContiguous /\ SilentAfterTerminal
    BY DEF WireInv
  <1>2. ASSUME wire' = wire, enc' = enc \/ wire = << >>,
               TerminalInv', LastPartInv'
        PROVE  WireInv'
    BY <1>1, <1>2, QuietWire DEF WireInv
  <1>3. wire' = wire => (TerminalBegun' <=> TerminalBegun)
    BY DEF TerminalBegun
  <1>4. ASSUME NEW flusher, NEW accept, Refuse(flusher, accept) PROVE WireInv'
    <2>1. TerminalInv' /\ LastPartInv'
      BY <1>1, <1>3, <1>4
      DEF Refuse, TerminalInv, LastPartInv, JoinInv, TerminalBegun
    <2> QED BY <1>2, <1>4, <2>1 DEF Refuse
  <1>5. ASSUME NEW flusher, NEW accept, NEW conf,
               StartStream(flusher, accept, conf)
        PROVE  WireInv'
    <2>1. wire = << >> /\ wire' = << >> /\ pc' = "handler"
      BY <1>5 DEF StartStream, JoinInv
    <2>2. ~TerminalBegun'
      BY <2>1 DEF TerminalBegun
    <2>3. TerminalInv' /\ LastPartInv'
      BY <2>1, <2>2 DEF TerminalInv, LastPartInv
    <2> QED BY <1>2, <2>1, <2>3
  <1>6. CASE HandlerChoice
    <2>1. /\ pc = "handler" /\ pc' \in {"lock", "join", "panicked"}
          /\ pc' = "lock" => cur'.flag # "error"
          /\ UNCHANGED <<wire, enc, closed>>
      BY <1>6 DEF HandlerChoice, CallSend, CallClose, HandlerReturn, HandlerPanic
    <2>2. TerminalInv'
      BY <1>1, <1>3, <2>1 DEF TerminalInv
    <2>3. LastPartInv'
      BY <1>1, <1>6, <2>1
      DEF LastPartInv, EncodedEmpty, HandlerChoice, CallSend, CallClose,
          HandlerReturn, HandlerPanic
    <2> QED BY <1>2, <2>1, <2>2, <2>3
  <1>7. CASE StopSignal \/ StopWait \/ StopAgain
    <2>1. /\ pc = "join" /\ pc' \in {"join", "returned", "lock"}
          /\ (pc' = "lock" /\ cur.flag = "error") => ~closed
          /\ UNCHANGED <<wire, enc, closed, cur, conn>>
      BY <1>7 DEF StopSignal, StopWait, StopAgain, AfterJoin
    <2>2. TerminalInv' /\ LastPartInv'
      BY <1>1, <1>3, <2>1 DEF TerminalInv, LastPartInv, EncodedEmpty
    <2> QED BY <1>2, <2>1, <2>2
  <1>8. CASE Lock \/ HbStop \/ HbTick \/ HbLock \/ ConnFail \/ Over \/ UNCHANGED vars
    <2>1. /\ pc' = pc \/ (pc = "lock" /\ pc' = "held")
          /\ UNCHANGED <<wire, enc, closed, cur>>
          /\ conn' = conn \/ conn' = "down"
      BY <1>8 DEF Lock, HbStop, HbTick, HbLock, ConnFail, Over, vars
    <2>2. TerminalInv' /\ LastPartInv'
      BY <1>1, <1>3, <2>1 DEF TerminalInv, LastPartInv, EncodedEmpty
    <2> QED BY <1>2, <2>1, <2>2
  <1>9. CASE Prepare
    <2>1. /\ pc = "held" /\ pc' \in {"returned", "handler", "header"}
          /\ UNCHANGED <<wire, enc, cur, conn>>
      BY <1>9 DEF Prepare, Finish
    <2>2. TerminalInv'
      BY <1>1, <1>3, <1>9, <2>1 DEF Prepare, Finish, TerminalInv, TypeOK
    <2>3. LastPartInv'
      BY <1>1, <2>1 DEF LastPartInv, EncodedEmpty
    <2> QED BY <1>2, <2>1, <2>2, <2>3
  <1>10. CASE WriteHeader
    <2>1. /\ pc = "header" /\ ~TerminalBegun
          /\ UNCHANGED <<enc, closed, cur, conn>>
      BY <1>1, <1>10 DEF WriteHeader, TerminalInv
    <2>2. CASE conn = "down"
      <3>1. wire' = wire /\ pc' \in {"returned", "handler"}
        BY <1>10, <2>2 DEF WriteHeader, Finish
      <3>2. TerminalInv' /\ LastPartInv'
        BY <1>3, <2>1, <2>2, <3>1 DEF TerminalInv, LastPartInv
      <3> QED BY <1>2, <2>1, <3>1, <3>2
    <2>3. CASE conn = "up"
      <3>1. /\ wire' = Append(wire, Header(cur))
            /\ \/ EncodedEmpty(cur.body)
                  /\ pc' = IF cur.flag = "error" THEN "returned" ELSE "handler"
               \/ ~EncodedEmpty(cur.body) /\ pc' = "payload"
        BY <1>10, <2>3 DEF WriteHeader, Finish, Put
      <3>2. Header(cur) \in Parts
        BY DEF TypeOK, Header, Parts
      <3>3. /\ Len(wire') = Len(wire) + 1 /\ Len(wire) \in Nat
            /\ \A i \in 1..Len(wire) : wire'[i] = wire[i]
            /\ wire'[Len(wire')] = Header(cur)
            /\ wire' # << >>
        <4>1. wire \in Seq(Parts)
          BY DEF TypeOK
        <4> QED BY <3>1, <3>2, <4>1, AppendFacts
      <3>4. wire # << >> => wire[Len(wire)] \in Parts
        BY DEF TypeOK
      <3>5. FramesContiguous'
        <4>1. wire # << >> => \/ wire[Len(wire)].part = "payload"
                              \/ EncodedEmpty(wire[Len(wire)].body)
          BY <1>1, <2>1, <2>3, <3>4 DEF LastPartInv, Parts
        <4>2. Header(cur).part = "header"
          BY DEF Header
        <4> QED BY <1>1, <2>1, <3>1, <3>2, <4>1, <4>2, AppendContiguous
      <3>6. SilentAfterTerminal'
        BY <1>1, <2>1, <3>1, <3>2, AppendSilent
      <3>7. TerminalBegun' => cur.flag \in TerminalFlags
        BY <2>1, <3>3 DEF TerminalBegun, Header
      <3>8. TerminalInv'
        <4>1. \A i \in 1..(Len(wire') - 1) : wire'[i].flag \notin TerminalFlags
          BY <2>1, <3>3 DEF TerminalBegun
        <4>2. Header(cur)' = Header(cur) /\ EncodedEmpty(cur.body)' = EncodedEmpty(cur.body)
          BY <2>1 DEF Header, EncodedEmpty
        <4> QED BY <1>1, <2>1, <3>1, <3>3, <3>7, <4>1, <4>2 DEF TerminalInv
      <3>9. LastPartInv'
        BY <2>1, <3>1, <3>3 DEF LastPartInv, Header, EncodedEmpty
      <3> QED BY <3>5, <3>6, <3>8, <3>9 DEF WireInv
    <2> QED BY <2>2, <2>3 DEF TypeOK
  <1>11. CASE WritePayload
    <2>1. /\ pc = "payload"
          /\ pc' = IF cur.flag = "error" THEN "returned" ELSE "handler"
          /\ UNCHANGED <<enc, closed, cur, conn>>
      BY <1>11 DEF WritePayload, Finish
    <2>2. /\ wire # << >> /\ wire[Len(wire)] = Header(cur)
          /\ \A i \in 1..(Len(wire) - 1) : wire[i].flag \notin TerminalFlags
          /\ cur.flag = "final" => closed
      BY <1>1, <2>1 DEF TerminalInv
    <2>3. CASE conn = "down"
      <3>1. wire' = wire
        BY <1>11, <2>3 DEF WritePayload
      <3>2. TerminalInv' /\ LastPartInv'
        BY <1>1, <1>3, <2>1, <2>3, <3>1 DEF TerminalInv, LastPartInv
      <3> QED BY <1>2, <2>1, <3>1, <3>2
    <2>4. CASE conn = "up"
      <3>1. wire' = Append(wire, Payload(cur))
        BY <1>11, <2>4 DEF WritePayload, Put
      <3>2. Payload(cur) \in Parts
        BY DEF TypeOK, Payload, Parts
      <3>3. /\ Len(wire') = Len(wire) + 1 /\ Len(wire) \in Nat
            /\ \A i \in 1..Len(wire) : wire'[i] = wire[i]
            /\ wire'[Len(wire')] = Payload(cur)
        BY <3>1, <3>2, AppendFacts DEF TypeOK
      <3>4. /\ Payload(cur) = [Header(cur) EXCEPT !.part = "payload"]
            /\ Header(cur) = [Payload(cur) EXCEPT !.part = "header"]
            /\ Payload(cur).part = "payload"
        BY DEF Header, Payload
      <3>5. FramesContiguous'
        BY <1>1, <2>1, <2>2, <3>1, <3>2, <3>4, AppendContiguous
      <3>6. SilentAfterTerminal'
        BY <1>1, <2>2, <3>1, <3>2, <3>4, AppendSilent
      <3>7. TerminalBegun' => cur.flag \in TerminalFlags
        BY <2>2, <3>3 DEF TerminalBegun, Header, Payload
      <3>8. TerminalInv'
        BY <2>1, <2>2, <3>7 DEF TerminalInv
      <3>9. LastPartInv'
        BY <3>3, <3>4 DEF LastPartInv
      <3> QED BY <3>5, <3>6, <3>8, <3>9 DEF WireInv
    <2> QED BY <2>3, <2>4 DEF TypeOK
  <1>12. CASE HbBeat
    <2>1. /\ hb = "held" /\ ~closed
          /\ pc \notin {"held", "header", "payload", "returned", "start"}
          /\ UNCHANGED <<pc, enc, closed, cur, conn>>
      BY <1>12 DEF HbBeat, LockInv, JoinInv, TypeOK
    <2>2. ~TerminalBegun
      BY <1>1, <2>1 DEF TerminalInv
    <2>3. CASE conn = "down"
      <3>1. wire' = wire
        BY <1>12, <2>3 DEF HbBeat
      <3>2. TerminalInv' /\ LastPartInv'
        BY <1>1, <1>3, <2>1, <2>3, <3>1 DEF TerminalInv, LastPartInv
      <3> QED BY <1>2, <2>1, <3>1, <3>2
    <2>4. CASE conn = "up"
      <3>1. wire' = Append(wire, Header(Heartbeat))
        BY <1>12, <2>1, <2>4 DEF HbBeat, Put
      <3>2. /\ Header(Heartbeat) \in Parts
            /\ Header(Heartbeat).part = "header"
            /\ Header(Heartbeat).flag = "heartbeat"
            /\ Header(Heartbeat).body = NoMsg
        BY DEF Header, Heartbeat, Parts, Bodies
      <3>3. /\ Len(wire') = Len(wire) + 1 /\ Len(wire) \in Nat
            /\ \A i \in 1..Len(wire) : wire'[i] = wire[i]
            /\ wire'[Len(wire')] = Header(Heartbeat)
        BY <3>1, <3>2, AppendFacts DEF TypeOK
      <3>4. wire # << >> => wire[Len(wire)] \in Parts
        BY DEF TypeOK
      <3>5. FramesContiguous'
        <4>1. wire # << >> => \/ wire[Len(wire)].part = "payload"
                              \/ EncodedEmpty(wire[Len(wire)].body)
          BY <1>1, <2>1, <2>4, <3>4 DEF LastPartInv, Parts
        <4> QED BY <1>1, <2>1, <3>1, <3>2, <4>1, AppendContiguous
      <3>6. SilentAfterTerminal'
        BY <1>1, <2>2, <3>1, <3>2, AppendSilent
      <3>7. ~TerminalBegun'
        BY <2>2, <3>2, <3>3 DEF TerminalBegun
      <3>8. TerminalInv'
        BY <1>1, <2>1, <3>7 DEF TerminalInv
      <3>9. LastPartInv'
        BY <3>2, <3>3 DEF LastPartInv, EncodedEmpty
      <3> QED BY <3>5, <3>6, <3>8, <3>9 DEF WireInv
    <2> QED BY <2>3, <2>4 DEF TypeOK
  <1> QED
    BY <1>4, <1>5, <1>6, <1>7, <1>8, <1>9, <1>10, <1>11, <1>12
    DEF Next, Library, HeartbeatStep

-----------------------------------------------------------------------------
(* What the calls report.                                                  *)

\* One more log entry keeps the order of results when no Close got past its
\* check, or the entry is a refused call.
LEMMA AppendLog ==
    ASSUME TypeOK, NothingAcceptedAfterClose, NEW e \in LogEntries,
           log' = Append(log, e),
           ~CloseLogged \/ (e.flag # "error" /\ e.res = "closed")
    PROVE  /\ NothingAcceptedAfterClose'
           /\ CloseLogged' <=>
                 CloseLogged \/ (e.flag = "final" /\ e.res # "closed")
  <1>1. /\ Len(log') = Len(log) + 1 /\ Len(log) \in Nat
        /\ \A i \in 1..Len(log) : log'[i] = log[i]
        /\ log'[Len(log) + 1] = e
    BY AppendFacts DEF TypeOK
  <1>2. NothingAcceptedAfterClose'
    <2> SUFFICES ASSUME NEW i \in 1..Len(log'), NEW j \in 1..Len(log'), i < j,
                        log'[i].flag = "final", log'[i].res # "closed"
                 PROVE  log'[j].flag # "error" /\ log'[j].res = "closed"
      BY DEF NothingAcceptedAfterClose
    <2>1. CASE j <= Len(log)
      BY <1>1, <2>1 DEF NothingAcceptedAfterClose
    <2>2. CASE j = Len(log) + 1
      BY <1>1, <2>2 DEF CloseLogged
    <2> QED BY <1>1, <2>1, <2>2
  <1>3. CloseLogged' <=> CloseLogged \/ (e.flag = "final" /\ e.res # "closed")
    BY <1>1 DEF CloseLogged
  <1> QED BY <1>2, <1>3

\* No step lets a call succeed after a Close.
LEMMA LogStep ==
    TypeOK /\ TerminalInv /\ LogInv /\ NothingAcceptedAfterClose /\ [Next]_vars
        => LogInv' /\ NothingAcceptedAfterClose'
  <1> SUFFICES ASSUME TypeOK, TerminalInv, LogInv, NothingAcceptedAfterClose,
                      [Next]_vars
               PROVE  LogInv' /\ NothingAcceptedAfterClose'
    OBVIOUS
  <1>1. ASSUME log' = log, closed' = closed,
               pc' \in {"header", "payload"} => pc \in {"header", "payload"}
        PROVE  LogInv' /\ NothingAcceptedAfterClose'
    BY <1>1 DEF LogInv, NothingAcceptedAfterClose, CloseLogged
  <1>2. ASSUME NEW res \in Results, Finish(res),
               \/ closed /\ cur.flag # "error" /\ res = "closed"
               \/ ~CloseLogged,
               closed => closed', cur.flag = "final" => closed'
        PROVE  LogInv' /\ NothingAcceptedAfterClose'
    <2> DEFINE e == [flag |-> cur.flag, body |-> cur.body, res |-> res]
    <2>1. e \in LogEntries
      BY DEF LogEntries, TypeOK
    <2>2. log' = Append(log, e) /\ pc' \in {"returned", "handler"}
      BY <1>2 DEF Finish
    <2>3. ~CloseLogged \/ (e.flag # "error" /\ e.res = "closed")
      BY <1>2
    <2>4. /\ NothingAcceptedAfterClose'
          /\ CloseLogged' => CloseLogged \/ e.flag = "final"
      BY <2>1, <2>2, <2>3, AppendLog
    <2> QED BY <1>2, <2>2, <2>4 DEF LogInv
  <1>3. CASE Prepare
    <2>1. CASE cur.flag # "error" /\ closed
      BY <1>2, <1>3, <2>1 DEF Prepare, Results
    <2>2. CASE ~(cur.flag # "error" /\ closed)
      <3>1. ~closed /\ ~CloseLogged
        BY <1>3, <2>2 DEF Prepare, TerminalInv, LogInv
      <3>2. CASE cur.body \in Unmarshalable
        BY <1>2, <1>3, <2>2, <3>1, <3>2 DEF Prepare, Results, TypeOK
      <3>3. CASE cur.body \notin Unmarshalable
        <4>1. log' = log
          BY <1>3, <2>2, <3>3 DEF Prepare
        <4> QED BY <3>1, <4>1
                DEF LogInv, NothingAcceptedAfterClose, CloseLogged
      <3> QED BY <3>2, <3>3
    <2> QED BY <2>1, <2>2
  <1>4. CASE WriteHeader \/ WritePayload
    <2>1. /\ pc \in {"header", "payload"} /\ ~CloseLogged /\ closed' = closed
          /\ cur.flag = "final" => closed
      BY <1>4 DEF WriteHeader, WritePayload, LogInv, TerminalInv
    <2>2. CASE log' = log
      BY <1>1, <2>1, <2>2
    <2>3. CASE \E res \in Results : Finish(res)
      BY <1>2, <2>1, <2>3
    <2> QED BY <1>4, <2>2, <2>3 DEF WriteHeader, WritePayload, Results
  <1>5. CASE HandlerChoice
    <2>1. /\ log' = log /\ closed' = closed
          /\ pc' \notin {"header", "payload"}
      BY <1>5 DEF HandlerChoice, CallSend, CallClose, HandlerReturn, HandlerPanic
    <2> QED BY <1>1, <2>1
  <1>6. CASE Library /\ ~Prepare /\ ~WriteHeader /\ ~WritePayload
    <2>1. /\ log' = log /\ closed' = closed
          /\ pc' \notin {"header", "payload"}
      BY <1>6 DEF Library, Refuse, StartStream, StopSignal, StopWait, StopAgain,
                  AfterJoin, Lock
    <2> QED BY <1>1, <2>1
  <1>7. CASE HeartbeatStep \/ ConnFail \/ Over \/ UNCHANGED vars
    <2>1. UNCHANGED <<log, closed, pc>>
      BY <1>7 DEF HeartbeatStep, HbStop, HbTick, HbLock, HbBeat, ConnFail, Over,
                  vars
    <2> QED BY <1>1, <2>1
  <1> QED BY <1>3, <1>4, <1>5, <1>6, <1>7 DEF Next

-----------------------------------------------------------------------------
(* The frames a client can decode.                                         *)

\* The whole frames lie on the wire.
LEMMA WholeFacts ==
    ASSUME TypeOK, WholeExact
    PROVE  /\ wire \in Seq(Parts) /\ Len(wire) \in Nat
           /\ whole \in Seq([at : Nat, call : Nat]) /\ Len(whole) \in Nat
           /\ log \in Seq(LogEntries) /\ Len(log) \in Nat
           /\ \A k \in 1..Len(whole) :
                 /\ whole[k].at \in 1..Len(wire) /\ whole[k].call \in Nat
                 /\ wire[whole[k].at] \in Parts
                 /\ Completes(wire[whole[k].at])
  <1>1. /\ wire \in Seq(Parts) /\ whole \in Seq([at : Nat, call : Nat])
        /\ log \in Seq(LogEntries)
    BY DEF TypeOK
  <1>2. Len(wire) \in Nat /\ Len(whole) \in Nat /\ Len(log) \in Nat
    BY <1>1
  <1>3. ASSUME NEW k \in 1..Len(whole)
        PROVE  /\ whole[k].at \in 1..Len(wire) /\ whole[k].call \in Nat
               /\ wire[whole[k].at] \in Parts
               /\ Completes(wire[whole[k].at])
    <2>1. whole[k] \in [at : Nat, call : Nat]
      BY <1>1, ElementFacts
    <2>2. whole[k].at \in {i \in 1..Len(wire) : Completes(wire[i])}
      BY DEF WholeExact
    <2> QED BY <1>1, <2>1, <2>2
  <1> QED BY <1>1, <1>2, <1>3

\* A call that writes nothing and does not succeed changes no frame.
LEMMA QuietWhole ==
    ASSUME TypeOK, WholeInv, UNCHANGED wireVars, enc' = enc \/ wire = << >>,
           \/ log' = log
           \/ \E e \in LogEntries : e.res # "ok" /\ log' = Append(log, e)
    PROVE  WholeInv'
  <1> USE DEF WholeInv
  <1>1. WholeExact'
    <2>1. \A i \in 1..Len(wire) : Completes(wire[i])' <=> Completes(wire[i])
      BY DEF Completes, EncodedEmpty
    <2>2. {i \in 1..Len(wire') : Completes(wire[i])'} =
             {i \in 1..Len(wire) : Completes(wire[i])}
      BY <2>1
    <2> QED BY <2>2 DEF WholeExact
  <1>2. CASE log' = log
    BY <1>1, <1>2 DEF FramesMatchCalls,
       FrameHasCall, CallHasFrame, FramesInCallOrder
  <1>3. ASSUME NEW e \in LogEntries, e.res # "ok", log' = Append(log, e)
        PROVE  FramesMatchCalls'
    <2>1. /\ Len(log') = Len(log) + 1 /\ Len(log) \in Nat
          /\ \A i \in 1..Len(log) : log'[i] = log[i]
          /\ log'[Len(log) + 1] = e
      BY <1>3, WholeFacts, AppendFacts
    <2> QED BY <1>3, <2>1 DEF FramesMatchCalls,
            FrameHasCall, CallHasFrame, FramesInCallOrder
  <1> QED BY <1>1, <1>2, <1>3

\* A Write keeps the frames and the calls in step: a part that completes
\* nothing with no result, a heartbeat, or the last part of a call's frame with
\* the call's success.
LEMMA PutWhole ==
    ASSUME TypeOK, WholeInv, enc' = enc, NEW p \in Parts, NEW call \in Nat,
           Put(p, call),
           \/ ~Completes(p) /\ log' = log
           \/ Completes(p) /\ p.flag = "heartbeat" /\ call = 0 /\ log' = log
           \/ /\ Completes(p) /\ p.flag # "heartbeat" /\ call = Len(log) + 1
              /\ log' = Append(log, [flag |-> p.flag, body |-> p.body, res |-> "ok"])
    PROVE  WholeInv'
  <1> USE DEF WholeInv
  <1>1. /\ Len(wire') = Len(wire) + 1 /\ Len(wire) \in Nat
        /\ \A i \in 1..Len(wire) : wire'[i] = wire[i]
        /\ wire'[Len(wire) + 1] = p
    BY WholeFacts, AppendFacts DEF Put
  <1>2. \A i \in 1..Len(wire') :
           Completes(wire[i])' <=> IF i = Len(wire) + 1 THEN Completes(p)
                                                       ELSE Completes(wire[i])
    BY <1>1 DEF Completes, EncodedEmpty
  <1>3. \A k \in 1..Len(whole) : /\ whole[k].at \in 1..Len(wire)
                                 /\ wire'[whole[k].at] = wire[whole[k].at]
    BY <1>1, WholeFacts
  <1>4. CASE ~Completes(p)
    <2>1. whole' = whole /\ log' = log
      BY <1>4 DEF Put
    <2>2. {i \in 1..Len(wire') : Completes(wire[i])'} =
             {i \in 1..Len(wire) : Completes(wire[i])}
      BY <1>1, <1>2, <1>4
    <2>3. WholeExact'
      BY <2>1, <2>2 DEF WholeExact
    <2>4. FramesMatchCalls'
      BY <1>3, <2>1 DEF FramesMatchCalls,
         FrameHasCall, CallHasFrame, FramesInCallOrder
    <2> QED BY <2>3, <2>4
  <1>5. CASE Completes(p)
    <2> DEFINE w == [at |-> Len(wire) + 1, call |-> call]
    <2>1. whole' = Append(whole, w) /\ w \in [at : Nat, call : Nat]
      BY <1>1, <1>5 DEF Put
    <2>2. /\ Len(whole') = Len(whole) + 1 /\ Len(whole) \in Nat
          /\ \A k \in 1..Len(whole) : whole'[k] = whole[k]
          /\ whole'[Len(whole) + 1] = w
      BY <2>1, WholeFacts, AppendFacts
    <2>3. w.at = Len(wire) + 1 /\ w.call = call
      OBVIOUS
    <2> HIDE DEF w
    <2>4. WholeExact'
      <3>1. {whole'[k].at : k \in 1..Len(whole')} =
               {whole[k].at : k \in 1..Len(whole)} \union {Len(wire) + 1}
        BY <2>2, <2>3
      <3>2. {i \in 1..Len(wire') : Completes(wire[i])'} =
               {i \in 1..Len(wire) : Completes(wire[i])} \union {Len(wire) + 1}
        BY <1>1, <1>2, <1>5
      <3>3. \A k, l \in 1..Len(whole') : k < l => whole'[k].at < whole'[l].at
        <4> SUFFICES ASSUME NEW k \in 1..Len(whole'), NEW l \in 1..Len(whole'), k < l
                     PROVE  whole'[k].at < whole'[l].at
          OBVIOUS
        <4>1. k \in 1..Len(whole) /\ whole'[k] = whole[k]
          BY <2>2
        <4>2. CASE l = Len(whole) + 1
          BY <1>1, <1>3, <2>2, <2>3, <4>1, <4>2
        <4>3. CASE l # Len(whole) + 1
          BY <2>2, <4>1, <4>3 DEF WholeExact
        <4> QED BY <4>2, <4>3
      <3> QED BY <3>1, <3>2, <3>3 DEF WholeExact
    <2>5. /\ Len(log) \in Nat
          /\ \A c \in 1..Len(log) : c \in 1..Len(log') /\ log'[c] = log[c]
      <3>1. Len(log) \in Nat /\ log \in Seq(LogEntries)
        BY WholeFacts
      <3>2. CASE log' = log
        BY <3>1, <3>2
      <3>3. CASE log' # log
        <4>1. log' = Append(log, [flag |-> p.flag, body |-> p.body, res |-> "ok"])
          BY <1>5, <3>3
        <4> QED BY <3>1, <4>1
      <3> QED BY <3>2, <3>3
    <2>6. \A k \in 1..Len(whole) :
             LET q == wire'[whole'[k].at]
                 c == whole'[k].call
             IN  IF q.flag = "heartbeat" THEN c = 0
                 ELSE /\ c \in 1..Len(log) /\ c \in 1..Len(log')
                      /\ log'[c] = [flag |-> q.flag, body |-> q.body, res |-> "ok"]
      <3> SUFFICES ASSUME NEW k \in 1..Len(whole)
                   PROVE  LET q == wire'[whole'[k].at]
                              c == whole'[k].call
                          IN  IF q.flag = "heartbeat" THEN c = 0
                              ELSE /\ c \in 1..Len(log) /\ c \in 1..Len(log')
                                   /\ log'[c] = [flag |-> q.flag, body |-> q.body,
                                                 res |-> "ok"]
        OBVIOUS
      <3>1. whole'[k] = whole[k] /\ wire'[whole'[k].at] = wire[whole[k].at]
        BY <1>3, <2>2
      <3>2. LET q == wire[whole[k].at]
                c == whole[k].call
            IN  IF q.flag = "heartbeat" THEN c = 0
                ELSE /\ c \in 1..Len(log)
                     /\ log[c] = [flag |-> q.flag, body |-> q.body, res |-> "ok"]
        BY DEF FramesMatchCalls, FrameHasCall
      <3> QED BY <2>5, <3>1, <3>2
    <2>7. CASE p.flag = "heartbeat"
      <3>1. call = 0 /\ log' = log
        BY <1>5, <2>7
      <3>2. wire'[whole'[Len(whole) + 1].at] = p /\ whole'[Len(whole) + 1].call = 0
        BY <1>1, <2>2, <2>3, <3>1
      <3>3. FrameHasCall'
        BY <2>2, <2>6, <2>7, <3>2 DEF FrameHasCall
      <3>4. CallHasFrame'
        BY <2>2, <3>1 DEF FramesMatchCalls, CallHasFrame
      <3>5. FramesInCallOrder'
        BY <2>2, <3>2 DEF FramesMatchCalls, FramesInCallOrder
      <3> QED BY <2>4, <3>3, <3>4, <3>5 DEF FramesMatchCalls
    <2>8. CASE p.flag # "heartbeat"
      <3>1. /\ call = Len(log) + 1
            /\ log' = Append(log, [flag |-> p.flag, body |-> p.body, res |-> "ok"])
        BY <1>5, <2>8
      <3>2. /\ Len(log') = Len(log) + 1
            /\ log'[Len(log) + 1] = [flag |-> p.flag, body |-> p.body, res |-> "ok"]
        BY <3>1, WholeFacts
      <3>3. /\ wire'[whole'[Len(whole) + 1].at] = p
            /\ whole'[Len(whole) + 1].call = Len(log) + 1
        BY <1>1, <2>2, <2>3, <3>1
      <3>4. FrameHasCall'
        BY <2>2, <2>5, <2>6, <2>8, <3>2, <3>3 DEF FrameHasCall
      <3>5. CallHasFrame'
        BY <2>2, <2>5, <3>2, <3>3 DEF FramesMatchCalls, CallHasFrame
      <3>6. \A k \in 1..Len(whole) : whole'[k].call # 0 => whole'[k].call \in 1..Len(log)
        BY <2>6
      <3>7. FramesInCallOrder'
        <4> SUFFICES ASSUME NEW k \in 1..Len(whole'), NEW l \in 1..Len(whole'), k < l,
                            whole'[k].call # 0, whole'[l].call # 0
                     PROVE  whole'[k].call < whole'[l].call
          BY DEF FramesInCallOrder
        <4>1. k \in 1..Len(whole) /\ (l \in 1..Len(whole) \/ l = Len(whole) + 1)
          BY <2>2
        <4>2. CASE l \in 1..Len(whole)
          BY <2>2, <4>1, <4>2 DEF FramesMatchCalls, FramesInCallOrder
        <4>3. CASE l = Len(whole) + 1
          BY <3>3, <3>6, <4>1, <4>3
        <4> QED BY <4>1, <4>2, <4>3
      <3> QED BY <2>4, <3>4, <3>5, <3>7 DEF FramesMatchCalls
    <2> QED BY <2>7, <2>8
  <1> QED BY <1>4, <1>5

\* Every step keeps the frames and the calls in step.
LEMMA WholeStep ==
    TypeOK /\ LockInv /\ JoinInv /\ TerminalInv /\ WholeInv /\ [Next]_vars => WholeInv'
  <1> SUFFICES ASSUME TypeOK, LockInv, JoinInv, TerminalInv, WholeInv, [Next]_vars
               PROVE  WholeInv'
    OBVIOUS
  <1>1. /\ Header(cur) \in Parts /\ Payload(cur) \in Parts
        /\ Header(cur).part = "header" /\ Payload(cur).part = "payload"
        /\ Header(cur).flag = cur.flag /\ Header(cur).body = cur.body
        /\ Payload(cur).flag = cur.flag /\ Payload(cur).body = cur.body
        /\ cur.flag # "heartbeat"
    BY DEF TypeOK, Header, Payload, Parts
  <1>2. Len(log) + 1 \in Nat
    BY WholeFacts DEF WholeInv
  <1>3. ASSUME NEW res \in Results \ {"ok"}, Finish(res)
        PROVE  \E e \in LogEntries : e.res # "ok" /\ log' = Append(log, e)
    <2>1. [flag |-> cur.flag, body |-> cur.body, res |-> res] \in LogEntries
      BY DEF TypeOK, LogEntries
    <2> QED BY <1>3, <2>1 DEF Finish
  <1>4. CASE Prepare
    <2>1. UNCHANGED wireVars /\ enc' = enc
      BY <1>4 DEF Prepare
    <2>2. log' = log \/ \E res \in Results \ {"ok"} : Finish(res)
      BY <1>4 DEF Prepare, Results
    <2> QED BY <1>3, <2>1, <2>2, QuietWhole
  <1>5. CASE (WriteHeader \/ WritePayload) /\ conn = "down"
    <2>1. UNCHANGED wireVars /\ enc' = enc /\ Finish("writeErr")
      BY <1>5 DEF WriteHeader, WritePayload
    <2>2. "writeErr" \in Results \ {"ok"}
      BY DEF Results
    <2> QED BY <1>3, <2>1, <2>2, QuietWhole
  <1>6. CASE WriteHeader /\ conn = "up"
    <2>1. enc' = enc /\ Put(Header(cur), Len(log) + 1)
      BY <1>6 DEF WriteHeader
    <2>2. Completes(Header(cur)) <=> EncodedEmpty(cur.body)
      BY <1>1 DEF Completes
    <2>3. CASE EncodedEmpty(cur.body)
      <3>1. log' = Append(log, [flag |-> Header(cur).flag, body |-> Header(cur).body,
                                res |-> "ok"])
        BY <1>1, <1>6, <2>3 DEF WriteHeader, Finish
      <3> QED BY <1>1, <1>2, <2>1, <2>2, <2>3, <3>1, PutWhole
    <2>4. CASE ~EncodedEmpty(cur.body)
      <3>1. log' = log
        BY <1>6, <2>4 DEF WriteHeader
      <3> QED BY <1>1, <1>2, <2>1, <2>2, <2>4, <3>1, PutWhole
    <2> QED BY <2>3, <2>4
  <1>7. CASE WritePayload /\ conn = "up"
    <2>1. enc' = enc /\ Put(Payload(cur), Len(log) + 1)
      BY <1>7 DEF WritePayload
    <2>2. Completes(Payload(cur))
      BY <1>1 DEF Completes
    <2>3. log' = Append(log, [flag |-> Payload(cur).flag, body |-> Payload(cur).body,
                              res |-> "ok"])
      BY <1>1, <1>7 DEF WritePayload, Finish
    <2> QED BY <1>1, <1>2, <2>1, <2>2, <2>3, PutWhole
  <1>8. CASE HbBeat
    <2>1. log' = log /\ enc' = enc
      BY <1>8 DEF HbBeat
    <2>2. CASE UNCHANGED wireVars
      BY <2>1, <2>2, QuietWhole
    <2>3. CASE Put(Header(Heartbeat), 0)
      <3>1. /\ Header(Heartbeat) \in Parts
            /\ Header(Heartbeat).flag = "heartbeat"
            /\ Header(Heartbeat).body = NoMsg
        BY DEF Header, Heartbeat, Parts, Bodies
      <3>2. Completes(Header(Heartbeat))
        BY <3>1 DEF Completes, EncodedEmpty
      <3>3. 0 \in Nat
        OBVIOUS
      <3> QED BY <2>1, <2>3, <3>1, <3>2, <3>3, PutWhole
    <2> QED BY <1>8, <2>2, <2>3 DEF HbBeat
  <1>9. ASSUME NEW flusher, NEW accept, NEW conf,
               StartStream(flusher, accept, conf)
        PROVE  WholeInv'
    <2>1. wire = << >> /\ UNCHANGED wireVars /\ log' = log
      BY <1>9 DEF StartStream, JoinInv
    <2> QED BY <2>1, QuietWhole
  <1>10. CASE \/ \E flusher, accept : Refuse(flusher, accept)
              \/ HandlerChoice \/ StopSignal \/ StopWait \/ StopAgain \/ Lock
              \/ HbStop \/ HbTick \/ HbLock \/ ConnFail \/ Over \/ UNCHANGED vars
    <2>1. UNCHANGED wireVars /\ log' = log /\ enc' = enc
      BY <1>10 DEF Refuse, HandlerChoice, CallSend, CallClose, HandlerReturn,
         HandlerPanic, StopSignal, StopWait, StopAgain, Lock, HbStop, HbTick,
         HbLock, ConnFail, Over, vars
    <2> QED BY <2>1, QuietWhole
  <1>11. conn = "up" \/ conn = "down"
    BY DEF TypeOK
  <1> QED
    BY <1>4, <1>5, <1>6, <1>7, <1>8, <1>9, <1>10, <1>11
    DEF Next, Library, HeartbeatStep

-----------------------------------------------------------------------------
(* How a stream ends.                                                      *)

\* What was written or reported stays so.
LEMMA EndKept ==
    ASSUME TypeOK, TypeOK', enc' = enc,
           wire' = wire \/ \E p \in Parts : wire' = Append(wire, p),
           log' = log \/ \E e \in LogEntries : log' = Append(log, e),
           NEW flag
    PROVE  /\ Written(flag) => Written(flag)'
           /\ Unmarshalled(flag) => Unmarshalled(flag)'
  <1>1. /\ wire \in Seq(Parts) /\ log \in Seq(LogEntries)
        /\ Len(wire) \in Nat /\ Len(log) \in Nat
    BY DEF TypeOK
  <1>2. \A i \in 1..Len(wire) : i \in 1..Len(wire') /\ wire'[i] = wire[i]
    BY <1>1, AppendFacts
  <1>3. \A i \in 1..Len(log) : i \in 1..Len(log') /\ log'[i] = log[i]
    BY <1>1, AppendFacts
  <1>4. Written(flag) => Written(flag)'
    BY <1>2 DEF Written, Completes, EncodedEmpty
  <1>5. Unmarshalled(flag) => Unmarshalled(flag)'
    BY <1>3 DEF Unmarshalled
  <1> QED BY <1>4, <1>5

\* No step loses the reason why a stream ended.
LEMMA EndStep ==
    TypeOK /\ TypeOK' /\ LockInv /\ JoinInv /\ TerminalInv /\ EndInv /\ [Next]_vars
        => EndInv'
  <1> SUFFICES ASSUME TypeOK, TypeOK', LockInv, JoinInv, TerminalInv, EndInv, [Next]_vars
               PROVE  EndInv'
    OBVIOUS
  <1>1. /\ Header(cur) \in Parts /\ Payload(cur) \in Parts
        /\ Header(cur).flag = cur.flag /\ Header(cur).body = cur.body
        /\ Payload(cur).flag = cur.flag /\ Payload(cur).part = "payload"
    BY DEF TypeOK, Header, Payload, Parts
  <1>2. ASSUME NEW res \in Results, Finish(res)
        PROVE  \E e \in LogEntries :
                  log' = Append(log, e) /\ e.flag = cur.flag /\ e.res = res
    <2>1. [flag |-> cur.flag, body |-> cur.body, res |-> res] \in LogEntries
      BY DEF TypeOK, LogEntries
    <2> QED BY <1>2, <2>1 DEF Finish
  <1>3. ASSUME NEW flag, cur.flag = flag, Finish("marshalErr")
        PROVE  Unmarshalled(flag)'
    <2>1. PICK e \in LogEntries : log' = Append(log, e) /\ e.flag = cur.flag
                                  /\ e.res = "marshalErr"
      BY <1>2, <1>3 DEF Results
    <2>2. /\ Len(log') = Len(log) + 1 /\ Len(log) \in Nat
          /\ log'[Len(log) + 1] = e
      BY <2>1, AppendFacts DEF TypeOK
    <2>3. Len(log) + 1 \in 1..Len(log')
      BY <2>2
    <2> QED BY <1>3, <2>1, <2>2, <2>3 DEF Unmarshalled
  <1>4. ASSUME NEW flag, NEW p \in Parts, p.flag = flag, wire' = Append(wire, p),
               enc' = enc, Completes(p)
        PROVE  Written(flag)'
    <2>1. /\ Len(wire') = Len(wire) + 1 /\ Len(wire) \in Nat
          /\ wire'[Len(wire) + 1] = p
      BY <1>4, AppendFacts DEF TypeOK
    <2>2. Len(wire) + 1 \in 1..Len(wire')
      BY <2>1
    <2>3. \A i \in Nat : i = Len(wire) + 1 => Completes(wire[i])'
      BY <1>4, <2>1 DEF Completes, EncodedEmpty
    <2> QED BY <1>4, <2>1, <2>2, <2>3 DEF Written
  <1>5. ASSUME NEW flusher, NEW accept,
               \/ Refuse(flusher, accept)
               \/ \E conf : StartStream(flusher, accept, conf)
        PROVE  EndInv'
    <2>1. ~closed' /\ ~stopOnce'
      BY <1>5 DEF Refuse, StartStream, JoinInv
    <2> QED BY <2>1 DEF EndInv
  <1>6. CASE HandlerChoice
    <2>1. /\ UNCHANGED <<wire, log, enc, closed>> /\ (conn' = "up" => conn = "up")
          /\ pc = "handler" /\ pc' \in {"lock", "join", "panicked"}
      BY <1>6 DEF HandlerChoice, CallSend, CallClose, HandlerReturn, HandlerPanic
    <2>2. /\ Written("final") => Written("final")'
          /\ Unmarshalled("final") => Unmarshalled("final")'
      BY <2>1, EndKept
    <2> QED BY <2>1, <2>2 DEF EndInv
  <1>7. CASE StopSignal \/ StopWait \/ StopAgain
    <2>1. /\ UNCHANGED <<wire, log, enc, closed, cur, conn>>
          /\ pc = "join" /\ pc' \in {"join", "returned", "lock"}
          /\ pc' = "returned" => cur.flag = "error" /\ (cur.body = NoMsg \/ closed)
      BY <1>7 DEF StopSignal, StopWait, StopAgain, AfterJoin
    <2>2. /\ Written("final") => Written("final")'
          /\ Unmarshalled("final") => Unmarshalled("final")'
      BY <2>1, EndKept
    <2> QED BY <2>1, <2>2 DEF EndInv
  <1>8. CASE \/ Lock \/ HbStop \/ HbTick \/ HbLock \/ HbBeat \/ ConnFail \/ Over
             \/ UNCHANGED vars
    <2>1. /\ UNCHANGED <<log, enc, closed, cur, stopOnce>>
          /\ conn' = "up" => conn = "up"
          /\ pc' = pc \/ (pc = "lock" /\ pc' = "held")
      BY <1>8 DEF Lock, HbStop, HbTick, HbLock, HbBeat, ConnFail, Over, vars
    <2>2. wire' = wire \/ wire' = Append(wire, Header(Heartbeat))
      BY <1>8 DEF Lock, HbStop, HbTick, HbLock, HbBeat, ConnFail, Over, vars, Put
    <2>3. Header(Heartbeat) \in Parts
      BY DEF Header, Heartbeat, Parts, Bodies
    <2>4. \A flag \in {"final", "error"} :
             /\ Written(flag) => Written(flag)'
             /\ Unmarshalled(flag) => Unmarshalled(flag)'
      BY <2>1, <2>2, <2>3, EndKept
    <2> QED BY <2>1, <2>4 DEF EndInv
  <1>9. CASE Prepare
    <2>1. /\ UNCHANGED <<wire, enc, cur, conn>> /\ pc = "held"
          /\ pc' \in {"returned", "handler", "header"}
          /\ pc' # "header" =>
                \/ Finish("closed") /\ cur.flag # "error" /\ closed' = closed
                \/ Finish("marshalErr") /\ closed' = (closed \/ cur.flag = "final")
      BY <1>9 DEF Prepare, Finish
    <2>2. CASE pc' = "header"
      BY <2>2 DEF EndInv
    <2>3. CASE pc' # "header"
      <3>1. \E e \in LogEntries : log' = Append(log, e)
        BY <1>2, <2>1, <2>3 DEF Results
      <3>2. /\ Written("final") => Written("final")'
            /\ Unmarshalled("final") => Unmarshalled("final")'
        BY <2>1, <3>1, EndKept
      <3>3. CASE Finish("closed") /\ cur.flag # "error" /\ closed' = closed
        <4>1. pc' = "handler"
          BY <3>3 DEF Finish
        <4> QED BY <2>1, <3>2, <3>3, <4>1 DEF EndInv
      <3>4. CASE Finish("marshalErr") /\ closed' = (closed \/ cur.flag = "final")
        <4>1. pc' = "returned" => cur.flag = "error"
          BY <3>4 DEF Finish
        <4>2. \A flag \in {"final", "error"} : cur.flag = flag => Unmarshalled(flag)'
          BY <1>3, <3>4
        <4> QED BY <2>1, <3>2, <3>4, <4>1, <4>2 DEF EndInv
      <3> QED BY <2>1, <2>3, <3>3, <3>4
    <2> QED BY <2>2, <2>3
  <1>10. CASE WriteHeader \/ WritePayload
    <2>1. /\ UNCHANGED <<enc, closed, cur, conn>> /\ pc \in {"header", "payload"}
          /\ closed => cur.flag = "final"
      BY <1>10 DEF WriteHeader, WritePayload, TerminalInv, TypeOK
    <2>2. CASE conn = "down" \/ pc' = "payload"
      BY <1>10, <2>1, <2>2 DEF EndInv, WriteHeader, WritePayload, Finish
    <2>3. CASE ~(conn = "down" \/ pc' = "payload")
      <3>1. \E p \in Parts :
               p.flag = cur.flag /\ wire' = Append(wire, p) /\ Completes(p)
        <4>1. CASE WriteHeader
          <5>1. wire' = Append(wire, Header(cur)) /\ EncodedEmpty(cur.body)
            BY <2>3, <4>1 DEF WriteHeader, Put
          <5>2. Completes(Header(cur))
            BY <1>1, <5>1 DEF Completes
          <5> QED BY <1>1, <5>1, <5>2
        <4>2. CASE WritePayload
          <5>1. wire' = Append(wire, Payload(cur))
            BY <2>3, <4>2 DEF WritePayload, Put
          <5>2. Completes(Payload(cur))
            BY <1>1 DEF Completes
          <5> QED BY <1>1, <5>1, <5>2
        <4> QED BY <1>10, <4>1, <4>2
      <3>2. \A flag \in {"final", "error"} : cur.flag = flag => Written(flag)'
        BY <1>4, <2>1, <3>1
      <3>3. pc' = "returned" => cur.flag = "error"
        BY <1>10, <2>3 DEF WriteHeader, WritePayload, Finish
      <3> QED BY <2>1, <3>2, <3>3 DEF EndInv
    <2> QED BY <2>2, <2>3
  <1> QED
    BY <1>5, <1>6, <1>7, <1>8, <1>9, <1>10 DEF Next, Library, HeartbeatStep

-----------------------------------------------------------------------------
(* The theorems.                                                           *)

\* The inductive invariant holds in every reachable state.
THEOREM Invariance == Spec => []IndInv
  <1>1. Init => IndInv
    <2> SUFFICES ASSUME Init PROVE IndInv
      OBVIOUS
    <2>1. TypeOK
      <3>1. calls \in 0..MaxCalls /\ beats \in 0..MaxBeats
        BY BoundsAssumption DEF Init
      <3>2. /\ wire \in Seq(Parts) /\ log \in Seq(LogEntries)
            /\ whole \in Seq([at : Nat, call : Nat])
        BY DEF Init
      <3>3. cur \in [flag : {"data", "final", "error"}, body : Bodies]
        BY DEF Init, NoFrame, Bodies
      <3> QED BY <3>1, <3>2, <3>3 DEF Init, TypeOK
    <2>2. LockInv /\ JoinInv
      BY DEF Init, LockInv, JoinInv
    <2>3. WireInv
      BY DEF Init, WireInv, TerminalInv, LastPartInv, FramesContiguous,
             SilentAfterTerminal, TerminalBegun
    <2>4. LogInv /\ NothingAcceptedAfterClose
      BY DEF Init, LogInv, NothingAcceptedAfterClose, CloseLogged
    <2>5. WholeInv
      BY DEF Init, WholeInv, WholeExact, FramesMatchCalls, FrameHasCall,
             CallHasFrame, FramesInCallOrder
    <2>6. EndInv
      BY DEF Init, EndInv
    <2> QED BY <2>1, <2>2, <2>3, <2>4, <2>5, <2>6 DEF IndInv
  <1>2. IndInv /\ [Next]_vars => IndInv'
    BY TypeStep, LockStep, JoinStep, WireStep, LogStep, WholeStep, EndStep
    DEF IndInv, WireInv
  <1> QED BY <1>1, <1>2, PTL DEF Spec

\* Every variable keeps its type.
THEOREM TypeCorrect == Spec => []TypeOK
  BY Invariance, PTL DEF IndInv

\* No frame is written into the middle of another, whatever the interleaving
\* of the handler with the heartbeat goroutine and wherever a Write fails.
THEOREM Contiguity == Spec => []FramesContiguous
  BY Invariance, PTL DEF IndInv, WireInv

\* Nothing follows a final or an error frame.
THEOREM PostCloseSilence == Spec => []SilentAfterTerminal
  BY Invariance, PTL DEF IndInv, WireInv

\* HandleStream never returns before the heartbeat goroutine is gone.
THEOREM Joined == Spec => []HeartbeatJoined
  <1>1. IndInv => HeartbeatJoined
    BY DEF IndInv, JoinInv, HeartbeatJoined
  <1> QED BY Invariance, <1>1, PTL

\* Once a Close got past its check every later call is refused, and the error
\* path of HandleStream writes nothing.
THEOREM ClosedForGood == Spec => []NothingAcceptedAfterClose
  BY Invariance, PTL DEF IndInv

\* Nothing is written to the ResponseWriter after HandleStream has returned.
THEOREM QuietAfterReturn == Spec => NoWriteAfterReturn
  <1>1. IndInv /\ [Next]_vars => [pc = "returned" => wire' = wire]_vars
    <2> SUFFICES ASSUME IndInv, Next, pc = "returned" PROVE wire' = wire
      BY DEF vars
    <2>1. hb \in {"off", "exited"}
      BY DEF IndInv, JoinInv
    <2> QED
      BY <2>1 DEF Next, Library, HandlerChoice, HeartbeatStep, Refuse,
         StartStream, StopSignal, StopWait, StopAgain, Lock, Prepare,
         WriteHeader, WritePayload, CallSend, CallClose, HandlerReturn,
         HandlerPanic, HbStop, HbTick, HbLock, HbBeat, ConnFail, Over, vars
  <1> QED BY Invariance, <1>1, PTL DEF Spec, NoWriteAfterReturn

\* What a client decodes of an undamaged connection is exactly what the calls
\* that returned nil were given, in call order, and an end that is missing has
\* one of three causes.
THEOREM CallsMatched == Spec => []WireMatchesCalls
  <1>1. IndInv => WireMatchesCalls
    <2> SUFFICES ASSUME IndInv PROVE WireMatchesCalls
      OBVIOUS
    <2>1. WholeExact /\ FramesMatchCalls
      BY DEF IndInv, WholeInv
    <2>2. UnterminatedOnlyIf
      <3> SUFFICES ASSUME pc = "returned", conn = "up", stopOnce,
                          ~Written("final"), ~Written("error"),
                          ~Unmarshalled("final"), ~Unmarshalled("error")
                   PROVE  ~closed /\ cur = [flag |-> "error", body |-> NoMsg]
        BY DEF UnterminatedOnlyIf
      <3>1. ~closed /\ cur.flag = "error" /\ cur.body = NoMsg
        BY DEF IndInv, EndInv
      <3>2. cur \in [flag : {"data", "final", "error"}, body : Bodies]
        BY DEF IndInv, TypeOK
      <3> QED BY <3>1, <3>2
    <2> QED BY <2>1, <2>2 DEF WireMatchesCalls
  <1> QED BY Invariance, <1>1, PTL

-----------------------------------------------------------------------------
(* HandleStream implements FrameLog.                                       *)

\* The whole frames are frames of the log; appending to the wire leaves them
\* where they are.
LEMMA FramesType ==
    ASSUME TypeOK, WholeExact
    PROVE  /\ Frames \in Seq(Log!Frame)
           /\ Len(Frames) = Len(whole)
           /\ \A k \in 1..Len(whole) :
                 Frames[k] = [flag |-> wire[whole[k].at].flag,
                              body |-> wire[whole[k].at].body]
  <1>1. \A k \in 1..Len(whole) :
           [flag |-> wire[whole[k].at].flag, body |-> wire[whole[k].at].body]
               \in Log!Frame
    BY WholeFacts DEF Parts, Log!Frame, Log!Flags
  <1>2. Len(whole) \in Nat
    BY WholeFacts
  <1> QED BY <1>1, <1>2 DEF Frames

\* A step that writes nothing, or a part that completes nothing, is a stutter of
\* the log.
LEMMA FramesKept ==
    ASSUME TypeOK, WholeExact, whole' = whole,
           wire' = wire \/ \E p \in Parts : wire' = Append(wire, p)
    PROVE  Frames' = Frames
  <1>1. \A k \in 1..Len(whole) : wire'[whole[k].at] = wire[whole[k].at]
    BY WholeFacts, AppendFacts
  <1> QED BY <1>1 DEF Frames

\* A Write that completes a frame emits it.
LEMMA PutEmits ==
    ASSUME TypeOK, WholeExact, TypeOK', WholeExact', NEW p \in Parts, NEW call \in Nat,
           Put(p, call), Completes(p), conn = "up", conn' = conn,
           \A k \in 1..Len(whole) : wire[whole[k].at].flag \notin TerminalFlags
    PROVE  Log!Next
  <1> DEFINE f == [flag |-> p.flag, body |-> p.body]
             w == [at |-> Len(wire) + 1, call |-> call]
  <1>1. f \in Log!Frame
    BY DEF Parts, Log!Frame, Log!Flags
  <1>2. ~Log!Terminated
    <2>1. /\ Len(Frames) = Len(whole)
          /\ \A k \in 1..Len(whole) :
                Frames[k] = [flag |-> wire[whole[k].at].flag,
                             body |-> wire[whole[k].at].body]
      BY FramesType
    <2>2. ASSUME NEW k \in 1..Len(whole) PROVE Frames[k].flag \notin TerminalFlags
      <3>1. wire[whole[k].at].flag \notin TerminalFlags
        OBVIOUS
      <3>2. Frames[k] = [flag |-> wire[whole[k].at].flag,
                         body |-> wire[whole[k].at].body]
        BY <2>1
      <3>3. Frames[k].flag = wire[whole[k].at].flag
        BY ONLY <3>2
      <3> QED BY ONLY <3>1, <3>3
    <2> QED BY <2>1, <2>2 DEF Log!Terminated, Log!TerminalFlags
  <1>3. /\ wire' = Append(wire, p) /\ whole' = Append(whole, w)
        /\ w \in [at : Nat, call : Nat]
    BY WholeFacts DEF Put
  <1>4. /\ Len(wire) \in Nat
        /\ \A i \in 1..Len(wire) : wire'[i] = wire[i]
        /\ wire'[Len(wire) + 1] = p
    BY <1>3, WholeFacts, AppendFacts
  <1>5. /\ Len(whole') = Len(whole) + 1 /\ Len(whole) \in Nat
        /\ \A k \in 1..Len(whole) : whole'[k] = whole[k]
        /\ whole'[Len(whole) + 1].at = Len(wire) + 1
    <2>1. w.at = Len(wire) + 1
      OBVIOUS
    <2> HIDE DEF w
    <2> QED BY <1>3, <2>1, WholeFacts, AppendFacts
  <1>6. Frames' = Append(Frames, f)
    <2>1. Frames' = [k \in 1..(Len(whole) + 1) |->
                        [flag |-> wire'[whole'[k].at].flag,
                         body |-> wire'[whole'[k].at].body]]
      BY <1>5 DEF Frames
    <2>2. \A k \in 1..Len(whole) :
             wire'[whole'[k].at] = wire[whole[k].at]
      BY <1>4, <1>5, WholeFacts
    <2>3. wire'[whole'[Len(whole) + 1].at] = p
      BY <1>4, <1>5
    <2>4. /\ Frames \in Seq(Log!Frame) /\ Len(Frames) = Len(whole)
          /\ \A k \in 1..Len(whole) :
                Frames[k] = [flag |-> wire[whole[k].at].flag,
                             body |-> wire[whole[k].at].body]
      BY FramesType
    <2>5. Append(Frames, f) = [k \in 1..(Len(whole) + 1) |->
                                  IF k = Len(whole) + 1 THEN f ELSE Frames[k]]
      BY <2>4
    <2>6. \A k \in 1..(Len(whole) + 1) :
             [flag |-> wire'[whole'[k].at].flag, body |-> wire'[whole'[k].at].body]
               = IF k = Len(whole) + 1 THEN f ELSE Frames[k]
      <3> SUFFICES ASSUME NEW k \in 1..(Len(whole) + 1)
                   PROVE  [flag |-> wire'[whole'[k].at].flag,
                           body |-> wire'[whole'[k].at].body]
                            = IF k = Len(whole) + 1 THEN f ELSE Frames[k]
        OBVIOUS
      <3>1. CASE k = Len(whole) + 1
        BY <2>3, <3>1
      <3>2. CASE k # Len(whole) + 1
        <4>1. k \in 1..Len(whole)
          BY <1>5, <3>2
        <4> QED BY <2>2, <2>4, <3>2, <4>1
      <3> QED BY <3>1, <3>2
    <2> HIDE DEF f
    <2> QED BY <2>1, <2>5, <2>6
  <1>7. Log!Emit(f)
    BY <1>2, <1>6 DEF Log!Emit
  <1> QED BY <1>1, <1>7 DEF Log!Next

\* Every step of HandleStream, its handler and its heartbeat goroutine appends
\* one whole frame to the log, breaks the connection, or is invisible.
LEMMA LogRefines == IndInv /\ IndInv' /\ [Next]_vars => [Log!Next]_Log!vars
  <1> SUFFICES ASSUME IndInv, IndInv', [Next]_vars PROVE [Log!Next]_Log!vars
    OBVIOUS
  <1>1. /\ TypeOK /\ TypeOK' /\ LockInv /\ JoinInv /\ TerminalInv
        /\ WholeExact /\ WholeExact'
    BY DEF IndInv, WireInv, WholeInv
  <1>2. ASSUME UNCHANGED wireVars, conn' = conn \/ conn' = "down"
        PROVE  [Log!Next]_Log!vars
    <2>1. Frames' = Frames
      BY <1>1, <1>2, FramesKept
    <2>2. conn \in {"up", "down"}
      BY <1>1 DEF TypeOK
    <2> QED BY <1>2, <2>1, <2>2 DEF Log!vars, Log!Next, Log!Break
  <1>3. /\ Header(cur) \in Parts /\ Payload(cur) \in Parts
        /\ Payload(cur).part = "payload" /\ Header(cur).part = "header"
        /\ Header(cur).body = cur.body
        /\ Len(log) + 1 \in Nat
    <2>1. Len(log) + 1 \in Nat
      BY <1>1, WholeFacts
    <2> QED BY <1>1, <2>1 DEF TypeOK, Header, Payload, Parts
  <1>4. ASSUME ~TerminalBegun, NEW k \in 1..Len(whole)
        PROVE  wire[whole[k].at].flag \notin TerminalFlags
    BY <1>1, <1>4, WholeFacts DEF TerminalBegun
  <1>5. CASE WriteHeader /\ conn = "up"
    <2>1. /\ Put(Header(cur), Len(log) + 1) /\ conn' = conn /\ pc = "header"
          /\ ~TerminalBegun
      BY <1>1, <1>5 DEF WriteHeader, TerminalInv
    <2>2. CASE Completes(Header(cur))
      BY <1>1, <1>3, <1>4, <1>5, <2>1, <2>2, PutEmits
    <2>3. CASE ~Completes(Header(cur))
      <3>1. whole' = whole /\ wire' = Append(wire, Header(cur))
        BY <2>1, <2>3 DEF Put
      <3> QED BY <1>1, <1>3, <2>1, <3>1, FramesKept DEF Log!vars
    <2> QED BY <2>2, <2>3
  <1>6. CASE WritePayload /\ conn = "up"
    <2>1. /\ Put(Payload(cur), Len(log) + 1) /\ conn' = conn /\ pc = "payload"
      BY <1>6 DEF WritePayload
    <2>2. /\ wire[Len(wire)] = Header(cur) /\ ~EncodedEmpty(cur.body)
          /\ \A i \in 1..(Len(wire) - 1) : wire[i].flag \notin TerminalFlags
      BY <1>1, <2>1 DEF TerminalInv
    <2>3. ~Completes(wire[Len(wire)]) /\ Completes(Payload(cur))
      BY <1>3, <2>2 DEF Completes
    <2>4. \A k \in 1..Len(whole) : wire[whole[k].at].flag \notin TerminalFlags
      <3> SUFFICES ASSUME NEW k \in 1..Len(whole)
                   PROVE  wire[whole[k].at].flag \notin TerminalFlags
        OBVIOUS
      <3>1. /\ whole[k].at \in 1..Len(wire) /\ Len(wire) \in Nat
            /\ Completes(wire[whole[k].at])
        BY <1>1, WholeFacts
      <3>2. whole[k].at # Len(wire)
        BY <2>3, <3>1
      <3>3. whole[k].at \in 1..(Len(wire) - 1)
        BY <3>1, <3>2
      <3> QED BY <2>2, <3>3
    <2> QED BY <1>1, <1>3, <1>6, <2>1, <2>3, <2>4, PutEmits
  <1>7. CASE HbBeat
    <2>1. /\ hb = "held" /\ ~closed /\ conn' = conn
          /\ pc \notin {"held", "header", "payload", "returned", "start"}
      BY <1>1, <1>7 DEF HbBeat, LockInv, JoinInv, TypeOK
    <2>2. ~TerminalBegun
      BY <1>1, <2>1 DEF TerminalInv
    <2>3. CASE conn = "down"
      BY <1>2, <1>7, <2>3 DEF HbBeat
    <2>4. CASE conn = "up"
      <3>1. Put(Header(Heartbeat), 0)
        BY <1>7, <2>1, <2>4 DEF HbBeat
      <3>2. /\ Header(Heartbeat) \in Parts
            /\ Header(Heartbeat).body = NoMsg /\ 0 \in Nat
        BY DEF Header, Heartbeat, Parts, Bodies
      <3>3. Completes(Header(Heartbeat))
        BY <3>2 DEF Completes, EncodedEmpty
      <3> QED BY <1>1, <1>4, <2>1, <2>2, <2>4, <3>1, <3>2, <3>3, PutEmits
    <2>5. conn \in {"up", "down"}
      BY <1>1 DEF TypeOK
    <2> QED BY <2>3, <2>4, <2>5
  <1>8. CASE (WriteHeader \/ WritePayload) /\ conn = "down"
    <2>1. UNCHANGED wireVars /\ conn' = conn
      BY <1>8 DEF WriteHeader, WritePayload
    <2> QED BY <1>2, <2>1
  <1>9. CASE \/ \E flusher, accept : Refuse(flusher, accept)
             \/ \E flusher, accept, conf : StartStream(flusher, accept, conf)
             \/ HandlerChoice \/ StopSignal \/ StopWait \/ StopAgain \/ Lock
             \/ Prepare \/ HbStop \/ HbTick \/ HbLock \/ ConnFail \/ Over
             \/ UNCHANGED vars
    <2>1. UNCHANGED wireVars /\ (conn' = conn \/ conn' = "down")
      BY <1>9 DEF Refuse, StartStream, HandlerChoice, CallSend, CallClose,
         HandlerReturn, HandlerPanic, StopSignal, StopWait, StopAgain, Lock,
         Prepare, HbStop, HbTick, HbLock, ConnFail, Over, vars
    <2> QED BY <1>2, <2>1
  <1>10. conn \in {"up", "down"}
    BY <1>1 DEF TypeOK
  <1> QED
    BY <1>5, <1>6, <1>7, <1>8, <1>9, <1>10 DEF Next, Library, HeartbeatStep

\* HandleStream implements FrameLog: a client sees a log of whole frames that
\* grows one frame at a time and ends with the terminal one.
THEOREM ServerImplementsFrameLog == Spec => ImplementsFrameLog
  <1>1. Init => Log!Init
    BY DEF Init, Log!Init, Frames
  <1> QED
    BY Invariance, LogRefines, <1>1, PTL DEF Spec, ImplementsFrameLog, Log!Spec
=============================================================================
