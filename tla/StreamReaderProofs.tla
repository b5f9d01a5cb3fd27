------------------------- MODULE StreamReaderProofs -------------------------
(***************************************************************************)
(* Machine-checked proofs about StreamReader, for every set of messages,   *)
(* every length of the response and any number of calls of Recv.           *)
(***************************************************************************)
EXTENDS StreamReader, TLAPS

USE DEF serverVars, clockVars

-----------------------------------------------------------------------------
(* The inductive invariant.                                                *)

\* What a frame of each kind holds.
FrameOK(f) ==
    /\ f.flag = "data" => f.body \in Msgs
    /\ f.flag = "final" => f.body \in Msgs \union {NoMsg}
    /\ f.flag = "error" => f.body \in Replies

\* Frames hold what their flag says, and a terminal frame is the last.
FramesOK ==
    /\ \A n \in 1..Len(frames) : FrameOK(frames[n])
    /\ \A n \in 1..(Len(frames) - 1) : frames[n].flag \notin Terminal

\* A frame is being looked at, for the first time.
Handling == at = "got" /\ rd = "frame"

\* The messages handed over are those of the first carriers; the next one is
\* still to be read, or is being looked at, or is the one Recv failed on.
DeliveryOK ==
    /\ Len(delivered) <= Len(carriers)
    /\ \A i \in 1..Len(delivered) :
          /\ delivered[i] = frames[carriers[i]].body
          /\ carriers[i] <= pos
          /\ Handling => carriers[i] < pos
    /\ \A i \in (Len(delivered) + 1)..Len(carriers) :
          \/ carriers[i] > pos
          \/ /\ i = Len(delivered) + 1 /\ carriers[i] = pos
             /\ Handling \/ outcome = "decodeErr"

\* The reader is at the end of a stream that was closed in order.
AtEnd ==
    /\ pos = Len(frames) /\ pos > 0
    /\ frames[pos].flag = "final"
    /\ Len(delivered) = Len(carriers)

\* Inside Recv the stream is open and nothing has failed yet; the frame read
\* last left it open; once it has failed it is done for good.
RecvOK ==
    /\ at # "idle" => ~done /\ ~hasPending
    /\ at = "got" => rd # "none"
    /\ Handling => pos > 0
    /\ done <=> outcome # "none"
    /\ hasPending => AtEnd
    /\ (~done /\ ~hasPending /\ ~Handling /\ pos > 0) =>
          frames[pos].flag \in {"data", "heartbeat"}

\* Why the stream ended is what the reader last saw.
OutcomeOK ==
    /\ outcome = "EOF" => AtEnd
    /\ outcome = "clientError" =>
          pos > 0 /\ frames[pos] = [flag |-> "error", body |-> "reply"]
    /\ outcome = "unknownFlag" => pos > 0 /\ frames[pos].flag = "unknown"
    /\ (done /\ pos > 0 /\ frames[pos].flag = "error") =>
          outcome \in {"clientError", "decodeErr"}
    /\ (done /\ pos > 0 /\ frames[pos].flag = "unknown") => outcome = "unknownFlag"
    /\ ctx = "close" => done
    /\ outcome = "heartbeatTimeout" => timeoutOn /\ ctx \in {"timer", "caller"}

ReaderInv ==
    TypeOK /\ FramesOK /\ CarriersExact /\ DeliveryOK /\ RecvOK /\ OutcomeOK

-----------------------------------------------------------------------------
(* Facts about one state.                                                  *)

AnyFrame == [flag : Server!Flags \union {"unknown"}, body : Bodies]

\* Appending to a sequence: length, old elements, new element.
LEMMA AppendFacts ==
    ASSUME NEW S, NEW s \in Seq(S), NEW e \in S
    PROVE  /\ Append(s, e) \in Seq(S)
           /\ Len(Append(s, e)) = Len(s) + 1
           /\ Len(s) \in Nat
           /\ \A i \in 1..Len(s) : Append(s, e)[i] = s[i]
           /\ Append(s, e)[Len(s) + 1] = e
           /\ Append(s, e) # << >>
  OBVIOUS

\* A sequence over a set is one over a larger set.
LEMMA SeqMonotone ==
    ASSUME NEW S, NEW T, S \subseteq T, NEW s \in Seq(S)
    PROVE  s \in Seq(T)
  OBVIOUS

\* The carriers are numbers of frames that carry a message, in ascending order.
LEMMA CarrierFacts ==
    ASSUME TypeOK, CarriersExact
    PROVE  /\ Len(carriers) \in Nat /\ Len(frames) \in Nat /\ Len(delivered) \in Nat
           /\ \A i \in 1..Len(carriers) :
                 carriers[i] \in 1..Len(frames) /\ CarriesMsg(frames[carriers[i]])
           /\ \A n \in 1..Len(frames) : CarriesMsg(frames[n]) =>
                 \E i \in 1..Len(carriers) : carriers[i] = n
           /\ \A i, j \in 1..Len(carriers) : i < j => carriers[i] < carriers[j]
  <1>1. /\ Len(carriers) \in Nat /\ Len(frames) \in Nat /\ Len(delivered) \in Nat
    BY DEF TypeOK
  <1>2. ASSUME NEW i \in 1..Len(carriers)
        PROVE  carriers[i] \in 1..Len(frames) /\ CarriesMsg(frames[carriers[i]])
    BY DEF CarriersExact
  <1>3. ASSUME NEW n \in 1..Len(frames), CarriesMsg(frames[n])
        PROVE  \E i \in 1..Len(carriers) : carriers[i] = n
    BY <1>3 DEF CarriersExact
  <1> QED BY <1>1, <1>2, <1>3 DEF CarriersExact

\* The frame being looked at carries the first message not yet handed over.
LEMMA CarryingFrame ==
    ASSUME ReaderInv, Handling, CarriesMsg(frames[pos])
    PROVE  /\ Len(delivered) + 1 \in 1..Len(carriers)
           /\ carriers[Len(delivered) + 1] = pos
           /\ \A i \in (Len(delivered) + 2)..Len(carriers) : carriers[i] > pos
  <1> USE DEF ReaderInv
  <1> DEFINE k == Len(delivered)
  <1>1. /\ Len(carriers) \in Nat /\ k \in Nat /\ pos \in 1..Len(frames)
        /\ Len(frames) \in Nat
    BY CarrierFacts DEF TypeOK, RecvOK
  <1>2. PICK i \in 1..Len(carriers) : carriers[i] = pos
    BY <1>1, CarrierFacts
  <1>3. i > k
    BY <1>1, <1>2 DEF DeliveryOK
  <1>4. i = k + 1
    BY <1>1, <1>2, <1>3 DEF DeliveryOK
  <1>5. ASSUME NEW j \in (k + 2)..Len(carriers) PROVE carriers[j] > pos
    <2>1. i < j /\ j \in 1..Len(carriers)
      BY <1>1, <1>4
    <2>2. carriers[i] < carriers[j]
      BY <2>1, CarrierFacts
    <2>3. carriers[j] \in Nat
      BY <2>1, <1>1, CarrierFacts
    <2> QED BY <1>1, <1>2, <2>2, <2>3
  <1> QED BY <1>1, <1>2, <1>4, <1>5

\* A frame that carries nothing leaves everything read handed over.
LEMMA EmptyFrame ==
    ASSUME ReaderInv, Handling, ~CarriesMsg(frames[pos])
    PROVE  \A i \in (Len(delivered) + 1)..Len(carriers) : carriers[i] > pos
  <1> USE DEF ReaderInv
  <1> SUFFICES ASSUME NEW i \in (Len(delivered) + 1)..Len(carriers)
               PROVE  carriers[i] > pos
    OBVIOUS
  <1>1. i \in 1..Len(carriers)
    BY CarrierFacts
  <1>2. CarriesMsg(frames[carriers[i]])
    BY <1>1, CarrierFacts
  <1> QED BY <1>2 DEF DeliveryOK

\* After a final frame nothing follows: everything carried has been read.
LEMMA FinalIsLast ==
    ASSUME ReaderInv, pos \in 1..Len(frames), frames[pos].flag \in Terminal
    PROVE  /\ pos = Len(frames)
           /\ \A i \in 1..Len(carriers) : carriers[i] <= pos
  <1> USE DEF ReaderInv
  <1>1. Len(frames) \in Nat /\ pos \in Nat
    BY CarrierFacts
  <1>2. pos = Len(frames)
    BY <1>1 DEF FramesOK
  <1> QED BY <1>1, <1>2, CarrierFacts

-----------------------------------------------------------------------------
(* The invariant, action by action.                                        *)

\* A response that has not begun, a reader that has not been called.
LEMMA ReaderInit == Init => ReaderInv
  <1> SUFFICES ASSUME Init PROVE ReaderInv
    OBVIOUS
  <1> USE ReaderBounds DEF Init, Server!Init
  <1>1. /\ Len(frames) = 0 /\ Len(carriers) = 0 /\ Len(delivered) = 0
        /\ frames \in Seq(AnyFrame) /\ carriers \in Seq(1..Len(frames))
        /\ delivered \in Seq(Msgs)
    OBVIOUS
  <1>2. timeoutOn \in BOOLEAN /\ up \in BOOLEAN
    OBVIOUS
  <1>3. TypeOK
    <2>1. pos \in 0..Len(frames) /\ late \in 0..reads /\ victim \in 0..reads
          /\ recvs \in 0..MaxRecvs /\ reads \in Nat
      BY <1>1
    <2>2. over \in BOOLEAN /\ done \in BOOLEAN /\ hasPending \in BOOLEAN
      OBVIOUS
    <2> QED BY <1>1, <1>2, <2>1, <2>2 DEF TypeOK, AnyFrame, Outcomes
  <1>4. FramesOK /\ CarriersExact /\ DeliveryOK
    BY <1>1 DEF FramesOK, CarriersExact, DeliveryOK
  <1>5. RecvOK /\ OutcomeOK
    BY DEF RecvOK, OutcomeOK, Handling
  <1> QED BY <1>3, <1>4, <1>5 DEF ReaderInv

\* The server adds a frame to a response that no terminal frame has ended.
LEMMA EmitStep ==
    ASSUME ReaderInv, NEW f \in AnyFrame, FrameOK(f), ~Server!Terminated,
           frames' = Append(frames, f),
           carriers' = IF CarriesMsg(f) THEN Append(carriers, Len(frames) + 1)
                                        ELSE carriers,
           UNCHANGED <<up, over, timeoutOn, at, pos, rd, clockVars, reads, done,
                       hasPending, delivered, outcome, recvs>>
    PROVE  ReaderInv'
  <1> USE DEF ReaderInv
  <1>1. /\ frames' \in Seq(AnyFrame)
        /\ Len(frames') = Len(frames) + 1 /\ Len(frames) \in Nat
        /\ \A n \in 1..Len(frames) : frames'[n] = frames[n]
        /\ frames'[Len(frames) + 1] = f
    BY AppendFacts DEF TypeOK, AnyFrame
  <1>2. /\ carriers' \in Seq(1..Len(frames'))
        /\ Len(carriers) \in Nat /\ Len(carriers') \in Nat
        /\ \A i \in 1..Len(carriers) : carriers'[i] = carriers[i]
        /\ CarriesMsg(f) => /\ Len(carriers') = Len(carriers) + 1
                            /\ carriers'[Len(carriers) + 1] = Len(frames) + 1
        /\ ~CarriesMsg(f) => carriers' = carriers
    <2>1. carriers \in Seq(1..Len(frames'))
      <3>1. 1..Len(frames) \subseteq 1..Len(frames')
        BY <1>1
      <3> QED BY <3>1, SeqMonotone DEF TypeOK
    <2>2. Len(frames) + 1 \in 1..Len(frames')
      BY <1>1
    <2>3. CASE CarriesMsg(f)
      <3>1. carriers' = Append(carriers, Len(frames) + 1)
        BY <2>3
      <3> QED BY <2>1, <2>2, <2>3, <3>1, AppendFacts
    <2>4. CASE ~CarriesMsg(f)
      BY <2>1, <2>4
    <2> QED BY <2>3, <2>4
  <1>3. pos \in 0..Len(frames) /\ pos \in 0..Len(frames') /\ Len(delivered) \in Nat
    BY <1>1, CarrierFacts DEF TypeOK
  <1>4. TypeOK'
    BY <1>1, <1>2, <1>3 DEF TypeOK, AnyFrame
  <1>5. FramesOK'
    <2>1. \A n \in 1..Len(frames) : frames[n].flag \notin Terminal
      BY DEF Server!Terminated, Server!TerminalFlags, Terminal
    <2>2. \A n \in 1..Len(frames') : n \in 1..Len(frames) \/ n = Len(frames) + 1
      BY <1>1
    <2> QED BY <1>1, <2>1, <2>2 DEF FramesOK, FrameOK
  <1>6. CarriersExact'
    <2>1. ASSUME NEW i \in 1..Len(carriers')
          PROVE  carriers'[i] \in 1..Len(frames') /\ CarriesMsg(frames'[carriers'[i]])
      <3>1. CASE i \in 1..Len(carriers)
        BY <1>1, <1>2, <3>1, CarrierFacts
      <3>2. CASE CarriesMsg(f) /\ i = Len(carriers) + 1
        BY <1>1, <1>2, <3>2
      <3> QED BY <1>2, <3>1, <3>2
    <2>2. ASSUME NEW n \in 1..Len(frames'), CarriesMsg(frames'[n])
          PROVE  \E i \in 1..Len(carriers') : carriers'[i] = n
      <3>1. CASE n \in 1..Len(frames)
        <4>1. PICK i \in 1..Len(carriers) : carriers[i] = n
          BY <1>1, <2>2, <3>1, CarrierFacts
        <4>2. i \in 1..Len(carriers') /\ carriers'[i] = n
          BY <1>2, <4>1
        <4> QED BY <4>2
      <3>2. CASE n = Len(frames) + 1
        <4>1. CarriesMsg(f)
          BY <1>1, <2>2, <3>2
        <4>2. Len(carriers) + 1 \in 1..Len(carriers')
          BY <1>2, <4>1
        <4> QED BY <1>2, <3>2, <4>1, <4>2
      <3> QED BY <1>1, <3>1, <3>2
    <2>3. ASSUME NEW i \in 1..Len(carriers'), NEW j \in 1..Len(carriers'), i < j
          PROVE  carriers'[i] < carriers'[j]
      <3>1. i \in 1..Len(carriers)
        BY <1>2, <2>3
      <3>2. carriers'[i] = carriers[i] /\ carriers[i] \in 1..Len(frames)
        BY <1>2, <3>1, CarrierFacts
      <3>3. CASE j \in 1..Len(carriers)
        BY <1>2, <2>3, <3>1, <3>2, <3>3, CarrierFacts
      <3>4. CASE CarriesMsg(f) /\ j = Len(carriers) + 1
        BY <1>1, <1>2, <3>2, <3>4
      <3> QED BY <1>2, <3>3, <3>4
    <2>4. {carriers'[i] : i \in 1..Len(carriers')} =
             {n \in 1..Len(frames') : CarriesMsg(frames'[n])}
      BY <2>1, <2>2
    <2> QED BY <2>3, <2>4 DEF CarriersExact, CarriesMsg
  <1>7. DeliveryOK'
    <2>1. ASSUME NEW i \in 1..Len(delivered)
          PROVE  /\ i \in 1..Len(carriers) /\ carriers'[i] = carriers[i]
                 /\ frames'[carriers[i]] = frames[carriers[i]]
      <3>1. i \in 1..Len(carriers)
        BY <1>2, <1>3 DEF DeliveryOK
      <3> QED BY <1>1, <1>2, <3>1, CarrierFacts
    <2>2. ASSUME NEW i \in (Len(delivered) + 1)..Len(carriers')
          PROVE  \/ carriers'[i] > pos
                 \/ /\ i = Len(delivered) + 1 /\ carriers'[i] = pos
                    /\ Handling \/ outcome = "decodeErr"
      <3>1. CASE i \in 1..Len(carriers)
        BY <1>2, <1>3, <3>1 DEF DeliveryOK
      <3>2. CASE CarriesMsg(f) /\ i = Len(carriers) + 1
        BY <1>1, <1>2, <1>3, <3>2
      <3> QED BY <1>2, <1>3, <3>1, <3>2
    <2>3. Len(delivered) <= Len(carriers')
      BY <1>2, <1>3 DEF DeliveryOK
    <2>4. \A i \in 1..Len(delivered) :
             /\ delivered[i] = frames'[carriers'[i]].body
             /\ carriers'[i] <= pos
             /\ Handling => carriers'[i] < pos
      BY <2>1 DEF DeliveryOK
    <2>5. Handling' = Handling /\ UNCHANGED <<delivered, pos, outcome>>
      BY DEF Handling
    <2> QED BY <2>2, <2>3, <2>4, <2>5 DEF DeliveryOK
  <1>8. ~AtEnd
    BY DEF AtEnd, Server!Terminated, Server!TerminalFlags
  <1>9. pos > 0 => frames'[pos] = frames[pos]
    BY <1>1, <1>3
  <1>10. RecvOK'
    BY <1>8, <1>9 DEF RecvOK, Handling
  <1>11. OutcomeOK'
    BY <1>8, <1>9 DEF OutcomeOK
  <1> QED BY <1>4, <1>5, <1>6, <1>7, <1>10, <1>11

\* Frames of this protocol version, and of a later one.
LEMMA ServerStep == ReaderInv /\ (ServerEmit \/ ForeignEmit) => ReaderInv'
  <1> SUFFICES ASSUME ReaderInv, ServerEmit \/ ForeignEmit PROVE ReaderInv'
    OBVIOUS
  <1>1. CASE ServerEmit
    <2>1. PICK f \in ServerFrames :
            /\ Server!Emit(f)
            /\ carriers' = IF CarriesMsg(f) THEN Append(carriers, Len(frames) + 1)
                                            ELSE carriers
      BY <1>1 DEF ServerEmit
    <2>2. f \in AnyFrame /\ FrameOK(f)
      BY DEF ServerFrames, AnyFrame, FrameOK, Server!Flags, Bodies
    <2> QED BY <1>1, <2>1, <2>2, EmitStep DEF ServerEmit, Server!Emit
  <1>2. CASE ForeignEmit
    <2> DEFINE f == [flag |-> "unknown", body |-> NoMsg]
    <2>1. f \in AnyFrame /\ FrameOK(f) /\ ~CarriesMsg(f)
      BY DEF AnyFrame, FrameOK, CarriesMsg, Bodies
    <2>2. frames' = Append(frames, f) /\ ~Server!Terminated
      BY <1>2 DEF ForeignEmit
    <2> HIDE DEF f
    <2> QED BY <1>2, <2>1, <2>2, EmitStep DEF ForeignEmit
  <1> QED BY <1>1, <1>2

\* The client changes nothing of what the server has written.
LEMMA ServerUntouched ==
    ASSUME ReaderInv, UNCHANGED <<frames, carriers>>
    PROVE  FramesOK' /\ CarriersExact'
  BY DEF ReaderInv, FramesOK, FrameOK, CarriersExact, CarriesMsg

\* Outside a read, the messages not handed over are still to be read.
LEMMA NotHandling ==
    ASSUME ReaderInv, ~Handling, outcome # "decodeErr"
    PROVE  \A i \in (Len(delivered) + 1)..Len(carriers) : carriers[i] > pos
  BY DEF ReaderInv, DeliveryOK

\* A step that reads and hands over nothing and does not start handling a frame.
LEMMA DeliveryKept ==
    ASSUME ReaderInv, UNCHANGED <<frames, carriers, delivered, pos>>, ~Handling',
           \/ outcome' = "decodeErr"
           \/ \A i \in (Len(delivered) + 1)..Len(carriers) : carriers[i] > pos
    PROVE  DeliveryOK'
  BY DEF ReaderInv, DeliveryOK

\* ReadFrame returns the next frame, or fails and leaves the position alone.
LEMMA ReadFrameStep == ReaderInv /\ ReadFrame => ReaderInv'
  <1> SUFFICES ASSUME ReaderInv, ReadFrame PROVE ReaderInv'
    OBVIOUS
  <1> USE DEF ReaderInv
  <1>1. /\ at = "read" /\ at' = "got"
        /\ UNCHANGED <<serverVars, timeoutOn, clockVars, reads, done, hasPending,
                       delivered, outcome, recvs>>
    BY DEF ReadFrame
  <1>2. PICK res \in ReadErrors \union {"frame"} :
          /\ ReadResult(res) /\ rd' = res
          /\ pos' = IF res = "frame" THEN pos + 1 ELSE pos
    BY DEF ReadFrame
  <1>3. FramesOK' /\ CarriersExact'
    BY <1>1, ServerUntouched
  <1>4. ~done /\ ~hasPending /\ outcome = "none" /\ ~Handling
    BY <1>1 DEF RecvOK, Handling
  <1>5. \A i \in (Len(delivered) + 1)..Len(carriers) : carriers[i] > pos
    BY <1>4, NotHandling
  <1>6. pos \in Nat /\ Len(frames) \in Nat /\ Len(carriers) \in Nat
        /\ Len(delivered) \in Nat
        /\ \A i \in 1..Len(carriers) : carriers[i] \in Nat
    BY CarrierFacts DEF TypeOK
  <1>7. CASE res = "frame"
    <2>1. pos < Len(frames) /\ pos' = pos + 1 /\ Handling'
      BY <1>1, <1>2, <1>7 DEF ReadResult, Handling
    <2>2. TypeOK'
      BY <1>1, <1>2, <1>6, <1>7, <2>1 DEF TypeOK
    <2>3. ASSUME NEW i \in 1..Len(delivered)
          PROVE  delivered[i] = frames[carriers[i]].body /\ carriers[i] < pos'
      <3>1. i \in 1..Len(carriers)
        BY <1>6 DEF DeliveryOK
      <3>2. carriers[i] <= pos /\ delivered[i] = frames[carriers[i]].body
        BY DEF DeliveryOK
      <3> QED BY <1>6, <2>1, <3>1, <3>2
    <2>4. ASSUME NEW i \in (Len(delivered) + 1)..Len(carriers)
          PROVE  carriers[i] > pos' \/ (i = Len(delivered) + 1 /\ carriers[i] = pos')
      <3>1. carriers[i] >= pos' /\ carriers[i] \in Nat /\ i \in 1..Len(carriers)
        BY <1>5, <1>6, <2>1
      <3>2. CASE i = Len(delivered) + 1
        BY <1>6, <2>1, <3>1, <3>2
      <3>3. CASE i > Len(delivered) + 1
        <4> DEFINE j == Len(delivered) + 1
        <4>1. j \in 1..Len(carriers) /\ j \in (Len(delivered) + 1)..Len(carriers) /\ j < i
          BY <1>6, <3>1, <3>3
        <4>2. carriers[j] >= pos' /\ carriers[j] \in Nat
          BY <1>5, <1>6, <2>1, <4>1
        <4>3. carriers[j] < carriers[i]
          BY <3>1, <4>1, CarrierFacts
        <4> QED BY <1>6, <2>1, <3>1, <4>2, <4>3
      <3> QED BY <1>6, <3>2, <3>3
    <2>5. DeliveryOK'
      <3>1. \A i \in 1..Len(delivered) : carriers[i] <= pos'
        <4> SUFFICES ASSUME NEW i \in 1..Len(delivered) PROVE carriers[i] <= pos'
          OBVIOUS
        <4>1. i \in 1..Len(carriers)
          BY <1>6 DEF DeliveryOK
        <4> QED BY <1>6, <2>1, <2>3, <4>1
      <3> QED BY <1>1, <2>1, <2>3, <2>4, <3>1 DEF DeliveryOK
    <2>6. RecvOK' /\ OutcomeOK'
      BY <1>1, <1>2, <1>4, <1>6, <1>7, <2>1 DEF RecvOK, OutcomeOK, TypeOK
    <2> QED BY <1>3, <2>2, <2>5, <2>6
  <1>8. CASE res # "frame"
    <2>1. pos' = pos /\ ~Handling' /\ rd' \in ReadErrors
      BY <1>2, <1>8 DEF Handling
    <2>2. TypeOK'
      BY <1>1, <2>1 DEF TypeOK
    <2>3. DeliveryOK'
      BY <1>1, <1>5, <2>1, DeliveryKept
    <2>4. RecvOK'
      BY <1>1, <1>4, <2>1 DEF RecvOK, ReadErrors
    <2>5. OutcomeOK'
      BY <1>1, <1>4, <2>1 DEF OutcomeOK
    <2> QED BY <1>3, <2>2, <2>3, <2>4, <2>5
  <1> QED BY <1>7, <1>8

\* Recv hands over the message of the frame it read.
LEMMA DeliverStep ==
    ASSUME ReaderInv, Handling, CarriesMsg(frames[pos]), Deliver(frames[pos].body),
           frames[pos].body \in Msgs,
           \/ frames[pos].flag = "final" /\ hasPending' = TRUE
           \/ frames[pos].flag = "data" /\ hasPending' = FALSE,
           timer' = "off",
           UNCHANGED <<serverVars, timeoutOn, pos, rd, late, ctx, victim, reads,
                       done, outcome, recvs>>
    PROVE  ReaderInv'
  <1> USE DEF ReaderInv
  <1> DEFINE k == Len(delivered)
  <1>1. /\ delivered' \in Seq(Msgs)
        /\ Len(delivered') = k + 1 /\ k \in Nat
        /\ \A i \in 1..k : delivered'[i] = delivered[i]
        /\ delivered'[k + 1] = frames[pos].body
        /\ at' = "idle"
    BY AppendFacts DEF Deliver, TypeOK
  <1>2. FramesOK' /\ CarriersExact'
    BY ServerUntouched
  <1>3. TypeOK'
    BY <1>1 DEF TypeOK
  <1>4. /\ k + 1 \in 1..Len(carriers) /\ carriers[k + 1] = pos
        /\ \A i \in (k + 2)..Len(carriers) : carriers[i] > pos
        /\ pos \in Nat /\ Len(carriers) \in Nat /\ pos > 0 /\ pos \in 1..Len(frames)
    BY CarryingFrame, CarrierFacts DEF TypeOK, RecvOK
  <1>5. ~Handling' /\ ~done /\ outcome = "none"
    BY <1>1 DEF Handling, RecvOK
  <1>6. DeliveryOK'
    <2>1. ASSUME NEW i \in 1..Len(delivered')
          PROVE  delivered'[i] = frames[carriers[i]].body /\ carriers[i] <= pos
      <3>1. CASE i \in 1..k
        BY <1>1, <3>1 DEF DeliveryOK
      <3>2. CASE i = k + 1
        BY <1>1, <1>4, <3>2
      <3> QED BY <1>1, <3>1, <3>2
    <2>2. Len(delivered') <= Len(carriers)
      BY <1>1, <1>4
    <2>3. \A i \in (Len(delivered') + 1)..Len(carriers) : carriers[i] > pos
      BY <1>1, <1>4
    <2> QED BY <1>5, <2>1, <2>2, <2>3 DEF DeliveryOK
  <1>7. hasPending' => AtEnd'
    <2> SUFFICES ASSUME hasPending' PROVE AtEnd'
      OBVIOUS
    <2>1. frames[pos].flag = "final"
      OBVIOUS
    <2>2. pos = Len(frames) /\ \A i \in 1..Len(carriers) : carriers[i] <= pos
      BY <1>4, <2>1, FinalIsLast DEF Terminal
    <2>3. Len(delivered') = Len(carriers)
      <3>1. ~(k + 2 <= Len(carriers))
        <4> SUFFICES ASSUME k + 2 <= Len(carriers) PROVE FALSE
          OBVIOUS
        <4>1. k + 2 \in (k + 2)..Len(carriers) /\ k + 2 \in 1..Len(carriers)
          BY <1>1, <1>4
        <4>2. carriers[k + 2] \in Nat
          BY <4>1, CarrierFacts
        <4> QED BY <1>4, <2>2, <4>1, <4>2
      <3> QED BY <1>1, <1>4, <3>1
    <2> QED BY <1>4, <2>1, <2>2, <2>3 DEF AtEnd
  <1>8. RecvOK'
    BY <1>1, <1>5, <1>7 DEF RecvOK
  <1>9. OutcomeOK'
    BY <1>5 DEF OutcomeOK, RecvOK
  <1> QED BY <1>2, <1>3, <1>6, <1>8, <1>9

\* Recv returns a failure, or the end of the stream, for the frame it read.
LEMMA EndStep ==
    ASSUME ReaderInv, Handling, NEW res \in Outcomes, Return(res), done' = TRUE,
           res \in {"EOF", "decodeErr", "clientError", "unknownFlag"},
           res # "decodeErr" => ~CarriesMsg(frames[pos]),
           res = "EOF" => frames[pos].flag = "final",
           res = "clientError" => frames[pos] = [flag |-> "error", body |-> "reply"],
           res = "unknownFlag" <=> frames[pos].flag = "unknown",
           frames[pos].flag = "error" => res \in {"clientError", "decodeErr"},
           timer' = "off",
           UNCHANGED <<serverVars, timeoutOn, pos, rd, late, ctx, victim, reads,
                       hasPending, delivered, recvs>>
    PROVE  ReaderInv'
  <1> USE DEF ReaderInv
  <1>1. /\ outcome = "none" /\ outcome' = res /\ at' = "idle" /\ ~Handling' /\ ~hasPending
        /\ pos > 0 /\ pos \in Nat /\ pos \in 1..Len(frames)
    BY CarrierFacts DEF Return, Report, RecvOK, Handling, TypeOK
  <1>2. FramesOK' /\ CarriersExact'
    BY ServerUntouched
  <1>3. TypeOK'
    BY <1>1 DEF TypeOK
  <1>4. DeliveryOK'
    BY <1>1, EmptyFrame, DeliveryKept
  <1>5. res = "EOF" => AtEnd'
    <2> SUFFICES ASSUME res = "EOF" PROVE AtEnd'
      OBVIOUS
    <2>1. pos = Len(frames) /\ \A i \in 1..Len(carriers) : carriers[i] <= pos
      BY <1>1, FinalIsLast DEF Terminal
    <2>2. Len(delivered) = Len(carriers)
      <3> DEFINE j == Len(delivered) + 1
      <3>1. /\ Len(delivered) <= Len(carriers)
            /\ Len(delivered) \in Nat /\ Len(carriers) \in Nat
        BY CarrierFacts DEF DeliveryOK
      <3>2. ~(j <= Len(carriers))
        <4> SUFFICES ASSUME j <= Len(carriers) PROVE FALSE
          OBVIOUS
        <4>1. j \in 1..Len(carriers) /\ j \in (Len(delivered) + 1)..Len(carriers)
          BY <3>1
        <4>2. carriers[j] \in Nat /\ carriers[j] > pos /\ carriers[j] <= pos
          BY <2>1, <4>1, EmptyFrame, CarrierFacts
        <4> QED BY <1>1, <4>2
      <3> QED BY <3>1, <3>2
    <2> QED BY <1>1, <2>1, <2>2 DEF AtEnd
  <1>6. RecvOK'
    BY <1>1 DEF RecvOK
  <1>7. OutcomeOK'
    BY <1>1, <1>5 DEF OutcomeOK
  <1> QED BY <1>2, <1>3, <1>4, <1>6, <1>7

\* Each kind of frame is delivered, skipped or ends the stream.
LEMMA GotFrameStep ==
    ReaderInv /\ (GotHeartbeat \/ GotData \/ GotFinal \/ GotErrorFrame \/ GotUnknown)
      => ReaderInv'
  <1> SUFFICES ASSUME ReaderInv,
                      GotHeartbeat \/ GotData \/ GotFinal \/ GotErrorFrame \/ GotUnknown
               PROVE  ReaderInv'
    OBVIOUS
  <1> USE ReaderBodies DEF Return
  <1>1. /\ Handling /\ pos \in 1..Len(frames) /\ ~done /\ ~hasPending
        /\ FrameOK(frames[pos])
    <2>1. Handling
      BY DEF GotHeartbeat, GotData, GotFinal, GotErrorFrame, GotUnknown, Got, Handling
    <2>2. pos \in 1..Len(frames) /\ ~done /\ ~hasPending
      BY <2>1, CarrierFacts DEF ReaderInv, RecvOK, TypeOK, Handling
    <2> QED BY <2>1, <2>2 DEF ReaderInv, FramesOK
  <1>2. {"EOF", "decodeErr", "clientError", "unknownFlag"} \subseteq Outcomes
    BY DEF Outcomes
  <1>3. CASE GotHeartbeat
    <2> USE DEF ReaderInv
    <2>1. /\ frames[pos].flag = "heartbeat" /\ at' = "arm" /\ timer' = "off" /\ ~Handling'
          /\ UNCHANGED <<serverVars, timeoutOn, pos, rd, late, ctx, victim, reads,
                         done, hasPending, delivered, outcome, recvs>>
      BY <1>3 DEF GotHeartbeat, Got, Handling
    <2>2. ~CarriesMsg(frames[pos])
      BY <2>1 DEF CarriesMsg
    <2>3. TypeOK' /\ FramesOK' /\ CarriersExact'
      BY <2>1, ServerUntouched DEF TypeOK
    <2>4. DeliveryOK'
      BY <1>1, <2>1, <2>2, EmptyFrame, DeliveryKept
    <2>5. RecvOK' /\ OutcomeOK'
      BY <1>1, <2>1 DEF RecvOK, OutcomeOK
    <2> QED BY <2>3, <2>4, <2>5
  <1>4. CASE GotData
    <2>1. frames[pos].flag = "data" /\ frames[pos].body \in Msgs /\ CarriesMsg(frames[pos])
      BY <1>1, <1>4 DEF GotData, Got, FrameOK, CarriesMsg
    <2>2. CASE frames[pos].body \in Undecodable
      BY <1>1, <1>2, <1>4, <2>1, <2>2, EndStep DEF GotData
    <2>3. CASE frames[pos].body \notin Undecodable
      <3>1. /\ Deliver(frames[pos].body) /\ timer' = "off"
            /\ UNCHANGED <<serverVars, timeoutOn, pos, rd, late, ctx, victim, reads,
                           done, outcome, recvs>>
        BY <1>4, <2>3 DEF GotData
      <3>2. hasPending' = hasPending
        BY <1>4 DEF GotData
      <3>3. hasPending' = FALSE
        BY <1>1, <3>2 DEF ReaderInv, TypeOK
      <3> QED BY <1>1, <2>1, <3>1, <3>3, DeliverStep
    <2> QED BY <2>2, <2>3
  <1>5. CASE GotFinal
    <2> DEFINE m == frames[pos].body
    <2>1. frames[pos].flag = "final" /\ m \in Msgs \union {NoMsg}
      BY <1>1, <1>5 DEF GotFinal, Got, FrameOK
    <2>2. CASE m = NoMsg \/ m \in ZeroLength
      <3>1. ~CarriesMsg(frames[pos])
        BY <2>1, <2>2 DEF CarriesMsg
      <3>2. m \notin Undecodable \/ m = NoMsg
        BY <2>2
      <3>3. Return("EOF") /\ done' = TRUE /\ UNCHANGED <<hasPending, delivered>>
        BY <1>5, <2>2, <3>2 DEF GotFinal
      <3> QED BY <1>1, <1>2, <1>5, <2>1, <3>1, <3>3, EndStep DEF GotFinal
    <2>3. CASE m # NoMsg /\ m \notin ZeroLength /\ m \in Undecodable
      <3>1. Return("decodeErr") /\ done' = TRUE /\ UNCHANGED <<hasPending, delivered>>
        BY <1>5, <2>3 DEF GotFinal
      <3> QED BY <1>1, <1>2, <1>5, <2>1, <3>1, EndStep DEF GotFinal
    <2>4. CASE m # NoMsg /\ m \notin ZeroLength /\ m \notin Undecodable
      <3>1. CarriesMsg(frames[pos]) /\ m \in Msgs
        BY <2>1, <2>4 DEF CarriesMsg
      <3>2. hasPending' = TRUE /\ Deliver(m) /\ UNCHANGED <<done, outcome>>
        BY <1>5, <2>4 DEF GotFinal
      <3>3. /\ timer' = "off"
            /\ UNCHANGED <<serverVars, timeoutOn, pos, rd, late, ctx, victim, reads, recvs>>
        BY <1>5 DEF GotFinal
      <3>4. UNCHANGED <<serverVars, timeoutOn, pos, rd, late, ctx, victim, reads,
                        done, outcome, recvs>>
        BY <3>2, <3>3
      <3>5. Handling /\ Deliver(frames[pos].body) /\ frames[pos].body \in Msgs
        BY <1>1, <3>1, <3>2
      <3>6. /\ CarriesMsg(frames[pos]) /\ timer' = "off"
            /\ frames[pos].flag = "final" /\ hasPending' = TRUE
        BY <2>1, <3>1, <3>2, <3>3
      <3> HIDE DEF m
      <3> QED BY <3>4, <3>5, <3>6, DeliverStep
    <2> QED BY <2>2, <2>3, <2>4
  <1>6. CASE GotErrorFrame
    <2> DEFINE res == IF frames[pos].body \in Undecodable THEN "decodeErr" ELSE "clientError"
    <2>1. /\ frames[pos].flag = "error" /\ frames[pos].body \in Replies
          /\ ~CarriesMsg(frames[pos])
      BY <1>1, <1>6 DEF GotErrorFrame, Got, FrameOK, CarriesMsg
    <2>2. frames[pos] \in AnyFrame
      <3>1. frames \in Seq(AnyFrame)
        BY DEF ReaderInv, TypeOK, AnyFrame
      <3> QED BY <1>1, <3>1
    <2>3. res = "clientError" => frames[pos] = [flag |-> "error", body |-> "reply"]
      BY <2>1, <2>2 DEF AnyFrame, Replies
    <2>4. Return(res) /\ done' = TRUE /\ res \in {"decodeErr", "clientError"}
      BY <1>6 DEF GotErrorFrame
    <2> HIDE DEF res
    <2> QED BY <1>1, <1>2, <1>6, <2>1, <2>3, <2>4, EndStep DEF GotErrorFrame
  <1>7. CASE GotUnknown
    <2>1. frames[pos].flag = "unknown" /\ ~CarriesMsg(frames[pos])
      BY <1>7 DEF GotUnknown, Got, CarriesMsg
    <2> QED BY <1>1, <1>2, <1>7, <2>1, EndStep DEF GotUnknown
  <1> QED BY <1>3, <1>4, <1>5, <1>6, <1>7

\* A failed read ends the stream, as a timeout only when the request's context
\* was cancelled.
LEMMA GotErrorStep == ReaderInv /\ GotError => ReaderInv'
  <1> SUFFICES ASSUME ReaderInv, GotError PROVE ReaderInv'
    OBVIOUS
  <1> USE DEF ReaderInv
  <1>1. /\ at = "got" /\ rd # "frame" /\ rd # "none" /\ ~Handling /\ ~done /\ ~hasPending
        /\ outcome = "none" /\ at' = "idle" /\ done' = TRUE /\ timer' = "off" /\ ~Handling'
        /\ outcome' = IF rd = "EOF" THEN "unexpectedEOF"
                      ELSE IF timeoutOn /\ ctx # "live" THEN "heartbeatTimeout" ELSE rd
        /\ UNCHANGED <<serverVars, timeoutOn, pos, rd, late, ctx, victim, reads,
                       hasPending, delivered, recvs>>
    BY DEF GotError, Return, Report, Handling, RecvOK
  <1>2. outcome' \in {"unexpectedEOF", "heartbeatTimeout", "tooBig"}
    BY <1>1 DEF TypeOK, ReadErrors
  <1>3. TypeOK' /\ FramesOK' /\ CarriersExact'
    BY <1>1, <1>2, ServerUntouched DEF TypeOK, Outcomes
  <1>4. DeliveryOK'
    BY <1>1, NotHandling, DeliveryKept
  <1>5. RecvOK'
    BY <1>1, <1>2 DEF RecvOK
  <1>6. outcome' = "heartbeatTimeout" => timeoutOn /\ ctx \in {"timer", "caller"}
    BY <1>1, <1>2 DEF OutcomeOK, TypeOK, ReadErrors
  <1>7. pos > 0 => frames[pos].flag \in {"data", "heartbeat"}
    BY <1>1 DEF RecvOK
  <1>8. OutcomeOK'
    BY <1>1, <1>2, <1>6, <1>7 DEF OutcomeOK
  <1> QED BY <1>3, <1>4, <1>5, <1>8

\* Calls of Recv and Close between two reads.
LEMMA CallStep == ReaderInv /\ (RecvCall \/ Close) => ReaderInv'
  <1> SUFFICES ASSUME ReaderInv, RecvCall \/ Close PROVE ReaderInv'
    OBVIOUS
  <1> USE ReaderBounds DEF ReaderInv, Report
  <1>1. /\ at = "idle" /\ ~Handling /\ ~Handling' /\ recvs' \in 0..MaxRecvs
        /\ UNCHANGED <<frames, up, over, carriers, timeoutOn, pos, rd, timer, late, victim,
                       reads, delivered>>
    BY DEF RecvCall, Close, Handling, TypeOK
  <1>2. FramesOK' /\ CarriersExact'
    BY <1>1, ServerUntouched
  <1>3. outcome' = "decodeErr" <=> outcome = "decodeErr"
    BY DEF RecvCall, Close
  <1>4. DeliveryOK'
    BY <1>1, <1>3, NotHandling, DeliveryKept
  <1>5. CASE RecvCall /\ (done \/ hasPending)
    <2>1. hasPending' = FALSE /\ done' = TRUE /\ UNCHANGED at /\ UNCHANGED ctx
          /\ outcome' = IF outcome = "none" THEN "EOF" ELSE outcome
      BY <1>5 DEF RecvCall
    <2>2. outcome = "none" => AtEnd
      BY <1>5 DEF RecvOK
    <2>3. AtEnd => AtEnd'
      BY <1>1 DEF AtEnd
    <2>4. TypeOK'
      BY <1>1, <2>1 DEF TypeOK, Outcomes
    <2>5. RecvOK'
      BY <1>1, <2>1 DEF RecvOK
    <2>6. OutcomeOK'
      BY <1>1, <2>1, <2>2, <2>3 DEF OutcomeOK, RecvOK, AtEnd
    <2> QED BY <1>2, <1>4, <2>4, <2>5, <2>6
  <1>6. CASE RecvCall /\ ~(done \/ hasPending)
    <2>1. at' = "arm" /\ UNCHANGED <<done, hasPending, outcome, ctx>>
      BY <1>6 DEF RecvCall
    <2>2. TypeOK'
      BY <1>1, <2>1 DEF TypeOK
    <2>3. RecvOK' /\ OutcomeOK'
      BY <1>1, <1>6, <2>1 DEF RecvOK, OutcomeOK, AtEnd
    <2> QED BY <1>2, <1>4, <2>2, <2>3
  <1>7. CASE Close
    <2>1. /\ UNCHANGED <<at, hasPending>> /\ done' = TRUE
          /\ ctx' = IF ctx = "live" THEN "close" ELSE ctx
          /\ outcome' = IF outcome = "none" THEN "closed" ELSE outcome
      BY <1>7 DEF Close
    <2>2. TypeOK'
      BY <1>1, <2>1 DEF TypeOK, Outcomes
    <2>3. RecvOK'
      BY <1>1, <2>1 DEF RecvOK, AtEnd
    <2>4. OutcomeOK'
      BY <1>1, <2>1 DEF OutcomeOK, RecvOK, AtEnd
    <2> QED BY <1>2, <1>4, <2>2, <2>3, <2>4
  <1> QED BY <1>5, <1>6, <1>7

\* Timers, contexts and the end of the response leave what was read alone.
LEMMA QuietStep ==
    ReaderInv /\ (\/ ArmTimer \/ TimerExpires \/ TimerCancels \/ CallerCancels
                  \/ ServerEnd \/ ServerBreak \/ Finished \/ UNCHANGED vars)
      => ReaderInv'
  <1> SUFFICES ASSUME ReaderInv,
                      \/ ArmTimer \/ TimerExpires \/ TimerCancels \/ CallerCancels
                      \/ ServerEnd \/ ServerBreak \/ Finished \/ UNCHANGED vars
               PROVE  ReaderInv'
    OBVIOUS
  <1> USE DEF ReaderInv
  <1>1. /\ UNCHANGED <<frames, carriers, timeoutOn, pos, rd, done, hasPending, delivered,
                       outcome, recvs>>
        /\ UNCHANGED at \/ (at = "arm" /\ at' = "read")
        /\ \/ UNCHANGED ctx
           \/ ctx = "live" /\ ctx' \in {"timer", "caller"}
    BY DEF ArmTimer, TimerExpires, TimerCancels, CallerCancels, ServerEnd, ServerBreak,
           Server!Break, Finished, vars
  <1>2. FramesOK' /\ CarriersExact' /\ (Handling' <=> Handling)
    BY <1>1, ServerUntouched DEF Handling
  <1>3. TypeOK'
    <2>1. /\ up' \in BOOLEAN /\ over' \in BOOLEAN /\ timer' \in {"off", "armed"}
          /\ reads' \in Nat /\ late' \in 0..reads' /\ victim' \in 0..reads'
      <3> USE DEF TypeOK
      <3>1. CASE ArmTimer
        BY <3>1 DEF ArmTimer
      <3>2. CASE TimerExpires
        BY <3>2 DEF TimerExpires
      <3>3. CASE TimerCancels
        BY <3>3 DEF TimerCancels
      <3>4. CASE CallerCancels
        BY <3>4 DEF CallerCancels
      <3>5. CASE ServerEnd
        BY <3>5 DEF ServerEnd
      <3>6. CASE ServerBreak
        BY <3>6 DEF ServerBreak, Server!Break
      <3>7. CASE Finished \/ UNCHANGED vars
        BY <3>7 DEF Finished, vars
      <3> QED BY <3>1, <3>2, <3>3, <3>4, <3>5, <3>6, <3>7
    <2> QED BY <1>1, <2>1 DEF TypeOK
  <1>4. DeliveryOK'
    BY <1>1, <1>2 DEF DeliveryOK
  <1>5. RecvOK'
    BY <1>1, <1>2 DEF RecvOK, AtEnd
  <1>6. OutcomeOK'
    BY <1>1 DEF OutcomeOK, AtEnd
  <1> QED BY <1>2, <1>3, <1>4, <1>5, <1>6

\* Every step of the server, the network, Recv and the timers keeps ReaderInv.
LEMMA ReaderStep == ReaderInv /\ [Next]_vars => ReaderInv'
  BY ServerStep, ReadFrameStep, GotFrameStep, GotErrorStep, CallStep, QuietStep
  DEF Next, RecvStep

\* ReaderInv is an invariant of the reader.
THEOREM ReaderInvariance == Spec => []ReaderInv
  BY ReaderInit, ReaderStep, PTL DEF Spec
-----------------------------------------------------------------------------
(* What the application is told.                                           *)

\* Messages sent, as a sequence.
LEMMA SentFacts ==
    ASSUME ReaderInv
    PROVE  /\ Len(sent) = Len(carriers) /\ DOMAIN sent = 1..Len(carriers)
           /\ \A i \in 1..Len(carriers) : sent[i] = frames[carriers[i]].body
           /\ \A i \in 1..Len(carriers) : sent[i] \in Msgs
           /\ sent \in Seq(Msgs)
  <1> USE DEF ReaderInv
  <1>1. Len(carriers) \in Nat
    BY CarrierFacts
  <1>2. \A i \in 1..Len(carriers) : frames[carriers[i]].body \in Msgs
    BY CarrierFacts DEF CarriesMsg, FramesOK, FrameOK
  <1> QED BY <1>1, <1>2 DEF sent

\* Every message handed over, no other, when as many were handed over as sent.
LEMMA AllDelivered ==
    ASSUME ReaderInv, Len(delivered) = Len(carriers)
    PROVE  delivered = sent
  <1>1. delivered \in Seq(Msgs) /\ sent \in Seq(Msgs) /\ Len(sent) = Len(delivered)
    BY SentFacts DEF ReaderInv, TypeOK
  <1>2. \A i \in 1..Len(delivered) : delivered[i] = sent[i]
    BY SentFacts DEF ReaderInv, DeliveryOK
  <1> QED BY <1>1, <1>2

\* Recv's results are what happened: io.EOF the end of a stream received whole,
\* ClientError a service error, an unknown flag and a timeout what they say.
THEOREM ResultsAreExact == Spec => []ResultsExact
  <1>1. ReaderInv => ResultsExact
    <2> SUFFICES ASSUME ReaderInv PROVE ResultsExact
      OBVIOUS
    <2> USE DEF ReaderInv
    <2>1. EOFMeansComplete
      <3> SUFFICES ASSUME outcome = "EOF"
                   PROVE  /\ frames # << >> /\ frames[Len(frames)].flag = "final"
                          /\ pos = Len(frames) /\ delivered = sent
        BY DEF EOFMeansComplete
      <3>1. AtEnd
        BY DEF OutcomeOK
      <3>2. delivered = sent
        BY <3>1, AllDelivered DEF AtEnd
      <3> QED BY <3>1, <3>2 DEF AtEnd
    <2>2. ErrorFrameReported
      BY DEF ErrorFrameReported, RecvOK, OutcomeOK, AtEnd, Handling, TypeOK, Outcomes
    <2>3. TimeoutIsCancelled
      BY DEF TimeoutIsCancelled, OutcomeOK
    <2> QED BY <2>1, <2>2, <2>3 DEF ResultsExact
  <1> QED BY <1>1, ReaderInvariance, PTL

\* Heartbeats, timeouts, cancellations and failures never cost, double or
\* reorder a message.
THEOREM DeliveryInOrder == Spec => []DeliveredInOrder
  <1>1. ReaderInv => DeliveredInOrder
    <2> SUFFICES ASSUME ReaderInv PROVE DeliveredInOrder
      OBVIOUS
    <2>1. Len(delivered) <= Len(sent) /\ Len(sent) = Len(carriers)
          /\ Len(delivered) \in Nat /\ Len(carriers) \in Nat
      BY SentFacts, CarrierFacts DEF ReaderInv, DeliveryOK
    <2>2. \A i \in 1..Len(delivered) : delivered[i] = sent[i] /\ carriers[i] <= pos
      BY <2>1, SentFacts DEF ReaderInv, DeliveryOK
    <2>3. \A i \in (Len(delivered) + 1)..Len(sent) :
             \/ carriers[i] > pos
             \/ /\ i = Len(delivered) + 1 /\ carriers[i] = pos
                /\ at = "got" \/ outcome = "decodeErr"
      BY <2>1 DEF ReaderInv, DeliveryOK, Handling
    <2> QED BY <2>1, <2>2, <2>3 DEF DeliveredInOrder, ReaderInv
  <1> QED BY <1>1, ReaderInvariance, PTL

-----------------------------------------------------------------------------
(* The reader implements the message channel.                              *)

\* A response no terminal frame has ended is a channel that has not ended.
LEMMA EndedFacts ==
    ASSUME ReaderInv
    PROVE  /\ ~Server!Terminated <=> Ended = "no"
           /\ (pos \in 1..Len(frames) /\ frames[pos].flag = "final") => Ended = "cleanly"
  BY DEF Ended, Server!Terminated, Server!TerminalFlags

\* The channel ends as the frame that is added to it says.
LEMMA EmitEnded ==
    ASSUME ReaderInv, NEW f \in AnyFrame, ~Server!Terminated, frames' = Append(frames, f)
    PROVE  /\ f.flag = "final" => Ended' = "cleanly"
           /\ f.flag = "error" => Ended' = "withError"
           /\ f.flag \notin Terminal => Ended' = "no"
           /\ Ended = "no"
  <1>1. /\ Len(frames') = Len(frames) + 1 /\ Len(frames) \in Nat
        /\ \A n \in 1..Len(frames) : frames'[n] = frames[n]
        /\ frames'[Len(frames) + 1] = f
    BY AppendFacts DEF ReaderInv, TypeOK, AnyFrame
  <1>2. /\ \A n \in 1..Len(frames) : frames[n].flag \notin Terminal
        /\ Ended = "no"
    BY EndedFacts DEF Server!Terminated, Server!TerminalFlags, Terminal
  <1>3. \A n \in 1..Len(frames') : n \in 1..Len(frames) \/ n = Len(frames) + 1
    BY <1>1
  <1>4. Len(frames) + 1 \in 1..Len(frames')
    BY <1>1
  <1>5. \A n \in 1..Len(frames') : frames'[n].flag \in Terminal => frames'[n] = f
    BY <1>1, <1>2, <1>3
  <1> QED BY <1>1, <1>2, <1>4, <1>5 DEF Ended, Terminal

\* The messages sent change with the frames and the carriers only.
LEMMA EmitSent ==
    ASSUME ReaderInv, ReaderInv', NEW f \in AnyFrame,
           frames' = Append(frames, f),
           carriers' = IF CarriesMsg(f) THEN Append(carriers, Len(frames) + 1)
                                        ELSE carriers
    PROVE  /\ CarriesMsg(f) => sent' = Append(sent, f.body)
           /\ ~CarriesMsg(f) => sent' = sent
  <1>1. /\ Len(frames') = Len(frames) + 1 /\ Len(frames) \in Nat
        /\ \A n \in 1..Len(frames) : frames'[n] = frames[n]
        /\ frames'[Len(frames) + 1] = f
    BY AppendFacts DEF ReaderInv, TypeOK, AnyFrame
  <1>2. /\ Len(carriers) \in Nat
        /\ \A i \in 1..Len(carriers) : carriers[i] \in 1..Len(frames)
    BY CarrierFacts DEF ReaderInv
  <1>3. CASE ~CarriesMsg(f)
    <2>1. carriers' = carriers
      BY <1>3
    <2>2. \A i \in 1..Len(carriers) : frames'[carriers[i]] = frames[carriers[i]]
      BY <1>1, <1>2
    <2>3. sent' = [i \in 1..Len(carriers) |-> frames'[carriers[i]].body]
      BY <2>1 DEF sent
    <2> QED BY <1>3, <2>2, <2>3 DEF sent
  <1>4. CASE CarriesMsg(f)
    <2>1. /\ Len(carriers') = Len(carriers) + 1
          /\ \A i \in 1..Len(carriers) : carriers'[i] = carriers[i]
          /\ carriers'[Len(carriers) + 1] = Len(frames) + 1
      BY <1>4, AppendFacts DEF ReaderInv, TypeOK
    <2>2. /\ DOMAIN sent' = 1..(Len(carriers) + 1)
          /\ \A i \in 1..(Len(carriers) + 1) : sent'[i] = frames'[carriers'[i]].body
      BY <2>1 DEF sent
    <2>3. \A i \in 1..Len(carriers) : sent'[i] = sent[i]
      BY <1>1, <1>2, <2>1, <2>2, SentFacts
    <2>4. sent'[Len(carriers) + 1] = f.body
      BY <1>1, <1>2, <2>1, <2>2
    <2>5. /\ sent' \in Seq(Msgs) /\ Len(sent') = Len(carriers) + 1
          /\ sent \in Seq(Msgs) /\ Len(sent) = Len(carriers)
      <3>1. (sent \in Seq(Msgs) /\ Len(sent) = Len(carriers))'
        BY SentFacts, PTL
      <3> QED BY <2>1, <3>1, SentFacts
    <2>6. f.body \in Msgs
      <3>1. Len(carriers) + 1 \in 1..Len(sent')
        BY <1>2, <2>5
      <3> QED BY <2>4, <2>5, <3>1
    <2> DEFINE s == Append(sent, f.body)
    <2>7. /\ s \in Seq(Msgs) /\ Len(s) = Len(carriers) + 1
          /\ \A i \in 1..Len(carriers) : s[i] = sent[i]
          /\ s[Len(carriers) + 1] = f.body
      BY <2>5, <2>6, AppendFacts
    <2> HIDE DEF s
    <2>8. \A i \in 1..(Len(carriers) + 1) : sent'[i] = s[i]
      BY <1>2, <2>3, <2>4, <2>7
    <2>9. sent' = s
      BY <2>5, <2>7, <2>8
    <2> QED BY <1>4, <2>9 DEF s
  <1> QED BY <1>3, <1>4
\* A frame of the server sends a message, ends the channel or changes nothing.
LEMMA EmitRefines ==
    ASSUME ReaderInv, ReaderInv', ServerEmit \/ ForeignEmit
    PROVE  [Channel!Next]_(Channel!vars)
  <1>1. UNCHANGED <<delivered, outcome>>
    BY DEF ServerEmit, ForeignEmit
  <1>2. delivered' = delivered /\ Status' = Status
    BY <1>1 DEF Status
  <1>3. CASE ServerEmit
    <2>1. PICK f \in ServerFrames :
            /\ Server!Emit(f)
            /\ carriers' = IF CarriesMsg(f) THEN Append(carriers, Len(frames) + 1)
                                            ELSE carriers
      BY <1>3 DEF ServerEmit
    <2>2. /\ f \in AnyFrame /\ FrameOK(f)
          /\ f.flag \in {"data", "final", "error", "heartbeat"}
      BY DEF ServerFrames, AnyFrame, FrameOK, Server!Flags, Bodies
    <2>3. frames' = Append(frames, f) /\ ~Server!Terminated
      BY <2>1 DEF Server!Emit
    <2>4. /\ CarriesMsg(f) => sent' = Append(sent, f.body)
          /\ ~CarriesMsg(f) => sent' = sent
      BY <2>1, <2>2, <2>3, EmitSent
    <2>5. /\ f.flag = "final" => Ended' = "cleanly"
          /\ f.flag = "error" => Ended' = "withError"
          /\ f.flag \notin Terminal => Ended' = "no"
          /\ Ended = "no"
      BY <2>2, <2>3, EmitEnded
    <2>6. CASE f.flag = "data"
      <3>1. f.body \in Msgs /\ sent' = Append(sent, f.body) /\ Ended' = "no"
        BY <2>2, <2>4, <2>5, <2>6 DEF FrameOK, CarriesMsg, Terminal
      <3>2. Channel!Send(f.body)
        BY <1>2, <2>5, <3>1 DEF Channel!Send
      <3> QED BY <3>1, <3>2 DEF Channel!Next
    <2>7. CASE f.flag = "final"
      <3>1. sent' = sent \/ \E m \in Msgs : sent' = Append(sent, m)
        BY <2>4, <2>7 DEF CarriesMsg
      <3>2. Channel!EndCleanly
        BY <1>2, <2>5, <2>7, <3>1 DEF Channel!EndCleanly
      <3> QED BY <3>2 DEF Channel!Next
    <2>8. CASE f.flag = "error"
      <3>1. sent' = sent
        BY <2>4, <2>8 DEF CarriesMsg
      <3>2. Channel!EndWithError
        BY <1>2, <2>5, <2>8, <3>1 DEF Channel!EndWithError
      <3> QED BY <3>2 DEF Channel!Next
    <2>9. CASE f.flag = "heartbeat"
      <3>1. sent' = sent /\ Ended' = Ended
        BY <2>4, <2>5, <2>9 DEF CarriesMsg, Terminal
      <3> QED BY <1>2, <3>1 DEF Channel!vars
    <2> QED BY <2>2, <2>6, <2>7, <2>8, <2>9
  <1>4. CASE ForeignEmit
    <2> DEFINE f == [flag |-> "unknown", body |-> NoMsg]
    <2>1. f \in AnyFrame /\ ~CarriesMsg(f) /\ f.flag \notin Terminal
      BY DEF AnyFrame, CarriesMsg, Bodies, Terminal
    <2>2. frames' = Append(frames, f) /\ ~Server!Terminated /\ carriers' = carriers
      BY <1>4 DEF ForeignEmit
    <2> HIDE DEF f
    <2>3. sent' = sent /\ Ended' = "no" /\ Ended = "no"
      BY <2>1, <2>2, EmitSent, EmitEnded
    <2> QED BY <1>2, <2>3 DEF Channel!vars
  <1> QED BY <1>3, <1>4

\* Any other step leaves the sender's side alone; one that hands over a message
\* hands over the next one, one that reports an end completes or fails.
LEMMA ReaderRefines ==
    ASSUME ReaderInv, UNCHANGED <<frames, carriers>>,
           \/ UNCHANGED <<delivered, outcome>>
           \/ /\ UNCHANGED outcome /\ Handling
              /\ CarriesMsg(frames[pos]) /\ Deliver(frames[pos].body)
           \/ /\ UNCHANGED delivered /\ outcome = "none" /\ outcome' # "none"
              /\ outcome' = "EOF" => /\ pos \in 1..Len(frames) /\ frames[pos].flag = "final"
                                     /\ Len(delivered) = Len(carriers)
    PROVE  [Channel!Next]_(Channel!vars)
  <1>1. sent' = sent /\ Ended' = Ended
    BY DEF sent, Ended
  <1>2. CASE UNCHANGED <<delivered, outcome>>
    <2>1. delivered' = delivered /\ Status' = Status
      BY <1>2 DEF Status
    <2> QED BY <1>1, <2>1 DEF Channel!vars
  <1>3. CASE /\ UNCHANGED outcome /\ Handling
             /\ CarriesMsg(frames[pos]) /\ Deliver(frames[pos].body)
    <2>1. Status' = Status /\ Status = "receiving"
      BY <1>3 DEF Status, Handling, ReaderInv, RecvOK
    <2>2. /\ Len(delivered) + 1 \in 1..Len(carriers)
          /\ carriers[Len(delivered) + 1] = pos
      BY <1>3, CarryingFrame
    <2>3. /\ sent[Len(delivered) + 1] = frames[pos].body
          /\ Len(sent) = Len(carriers) /\ Len(carriers) \in Nat /\ Len(delivered) \in Nat
      BY <2>2, SentFacts, CarrierFacts DEF ReaderInv
    <2>4. Len(delivered) < Len(sent)
      BY <2>2, <2>3
    <2>5. delivered' = Append(delivered, sent[Len(delivered) + 1])
      BY <1>3, <2>3 DEF Deliver
    <2>6. Channel!Deliver
      BY <1>1, <2>1, <2>4, <2>5 DEF Channel!Deliver
    <2> QED BY <2>6 DEF Channel!Next
  <1>4. CASE /\ UNCHANGED delivered /\ outcome = "none" /\ outcome' # "none"
             /\ outcome' = "EOF" => /\ pos \in 1..Len(frames) /\ frames[pos].flag = "final"
                                    /\ Len(delivered) = Len(carriers)
    <2>1. Status = "receiving" /\ delivered' = delivered
      BY <1>4 DEF Status
    <2>2. CASE outcome' = "EOF"
      <3>1. Ended = "cleanly" /\ delivered = sent /\ Status' = "complete"
        BY <1>4, <2>2, EndedFacts, AllDelivered DEF Status
      <3>2. Channel!Complete
        BY <1>1, <2>1, <3>1 DEF Channel!Complete
      <3> QED BY <3>2 DEF Channel!Next
    <2>3. CASE outcome' # "EOF"
      <3>1. Status' = "failed"
        BY <1>4, <2>3 DEF Status
      <3>2. Channel!Fail
        BY <1>1, <2>1, <3>1 DEF Channel!Fail
      <3> QED BY <3>2 DEF Channel!Next
    <2> QED BY <2>2, <2>3
  <1> QED BY <1>2, <1>3, <1>4

\* Every step of the reader is a step of the channel, or leaves it alone.
LEMMA StepRefines ==
    ASSUME ReaderInv, ReaderInv', [Next]_vars
    PROVE  [Channel!Next]_(Channel!vars)
  <1> USE DEF ReaderInv
  <1> DEFINE AtFinal == /\ pos \in 1..Len(frames) /\ frames[pos].flag = "final"
                        /\ Len(delivered) = Len(carriers)
  <1>1. CASE ServerEmit \/ ForeignEmit
    BY <1>1, EmitRefines
  <1>2. CASE \/ ArmTimer \/ ReadFrame \/ GotHeartbeat \/ TimerExpires \/ TimerCancels
             \/ CallerCancels \/ ServerEnd \/ ServerBreak \/ Finished \/ UNCHANGED vars
    <2>1. UNCHANGED <<frames, carriers>> /\ UNCHANGED <<delivered, outcome>>
      BY <1>2 DEF ArmTimer, ReadFrame, GotHeartbeat, TimerExpires, TimerCancels,
           CallerCancels, ServerEnd, ServerBreak, Server!Break, Finished, vars
    <2> QED BY <2>1, ReaderRefines
  <1>3. CASE GotData \/ GotFinal
    <2>1. /\ Handling /\ outcome = "none" /\ pos \in 1..Len(frames)
          /\ FrameOK(frames[pos]) /\ UNCHANGED <<frames, carriers>>
      <3>1. Handling /\ UNCHANGED <<frames, carriers>>
        BY <1>3 DEF GotData, GotFinal, Got, Handling
      <3>2. outcome = "none" /\ pos \in 1..Len(frames)
        BY <3>1, CarrierFacts DEF RecvOK, TypeOK, Handling
      <3> QED BY <3>1, <3>2 DEF FramesOK
    <2>2. CASE done' = TRUE
      <3>1. UNCHANGED delivered /\ outcome' \in {"EOF", "decodeErr"}
        <4>1. outcome = "none" /\ ~done
          BY <2>1 DEF RecvOK, Handling
        <4> QED BY <1>3, <2>2, <4>1 DEF GotData, GotFinal, Return, Report, Deliver
      <3>2. outcome' = "EOF" => AtEnd'
        BY DEF OutcomeOK
      <3>3. UNCHANGED pos
        BY <1>3 DEF GotData, GotFinal
      <3>4. outcome' = "EOF" => AtFinal
        BY <2>1, <3>1, <3>2, <3>3 DEF AtEnd
      <3> QED BY <2>1, <3>1, <3>4, ReaderRefines
    <2>3. CASE done' # TRUE
      <3>1. UNCHANGED outcome /\ Deliver(frames[pos].body) /\ CarriesMsg(frames[pos])
        BY <1>3, <2>1, <2>3
        DEF GotData, GotFinal, Return, Got, CarriesMsg, FrameOK
      <3> QED BY <2>1, <3>1, ReaderRefines
    <2> QED BY <2>2, <2>3
  <1>4. CASE GotError \/ GotErrorFrame \/ GotUnknown
    <2>1. UNCHANGED <<frames, carriers, delivered>> /\ at = "got"
      BY <1>4 DEF GotError, GotErrorFrame, GotUnknown, Got
    <2>2. outcome = "none"
      BY <2>1 DEF RecvOK
    <2>3. outcome' # "none" /\ outcome' # "EOF"
      BY <1>4, <2>1, <2>2
      DEF GotError, GotErrorFrame, GotUnknown, Return, Report, RecvOK, TypeOK, ReadErrors
    <2> QED BY <2>1, <2>2, <2>3, ReaderRefines
  <1>5. CASE RecvCall \/ Close
    <2>1. UNCHANGED <<frames, carriers, delivered, pos>>
      BY <1>5 DEF RecvCall, Close
    <2>2. outcome' = outcome \/ (outcome = "none" /\ outcome' # "none")
      BY <1>5 DEF RecvCall, Close, Report
    <2>3. outcome' = "EOF" => AtEnd'
      BY DEF OutcomeOK
    <2>4. outcome' = "EOF" => AtFinal
      <3> SUFFICES ASSUME outcome' = "EOF" PROVE AtFinal
        OBVIOUS
      <3>1. pos = Len(frames) /\ pos > 0 /\ frames[pos].flag = "final"
            /\ Len(delivered) = Len(carriers)
        BY <2>1, <2>3 DEF AtEnd
      <3>2. Len(frames) \in Nat
        BY CarrierFacts
      <3> QED BY <3>1, <3>2
    <2> QED BY <2>1, <2>2, <2>4, ReaderRefines
  <1> QED BY <1>1, <1>2, <1>3, <1>4, <1>5 DEF Next, RecvStep

\* Frames, heartbeats, timers, cancellation and broken connections implement
\* the message channel the two applications see.
THEOREM ReaderImplementsChannel == Spec => ImplementsChannel
  <1>1. Init => Channel!Init
    <2> SUFFICES ASSUME Init PROVE Channel!Init
      OBVIOUS
    <2>1. frames = << >> /\ carriers = << >> /\ delivered = << >> /\ outcome = "none"
      BY DEF Init, Server!Init
    <2>2. sent = << >> /\ Ended = "no" /\ Status = "receiving"
      BY <2>1 DEF sent, Ended, Status
    <2> QED BY <2>1, <2>2 DEF Channel!Init
  <1>2. ReaderInv /\ ReaderInv' /\ [Next]_vars => [Channel!Next]_(Channel!vars)
    BY StepRefines
  <1> QED BY <1>1, <1>2, ReaderInvariance, PTL DEF Spec, ImplementsChannel, Channel!Spec
=============================================================================
