----------------------------- MODULE FrameCodec -----------------------------
(***************************************************************************)
(* Frames on the wire (stream/stream.go): WriteFrame puts a flag, the      *)
(* length of the payload and the payload on a byte stream, ReadFrame takes *)
(* them off again.                                                         *)
(*                                                                         *)
(* The stream delivers its bytes in pieces of any size, may end cleanly    *)
(* after any Write and may break after any byte.  StreamServer, FrameLog   *)
(* and StreamReader pass whole frames: what is checked here is why.        *)
(*                                                                         *)
(* A byte has Base values and a length has LenBytes bytes, 256 and 4 in    *)
(* the code, scaled down so that a payload can outgrow its length field.   *)
(***************************************************************************)
EXTENDS Integers, Sequences, SequencesExt

CONSTANTS
    Base, LenBytes,
    Payloads,      \* what the handler sends: sequences of bytes
    PayloadLimits, \* values of maxPayloadSize; 0 is no limit
    MaxFrames      \* bound: frames written

Byte == 0..(Base - 1)
HeaderSize == 1 + LenBytes                          \* stream.go:17

ASSUME CodecConstants ==
    /\ Base \in Nat /\ Base > 1 /\ LenBytes \in Nat /\ LenBytes > 0
    /\ MaxFrames \in Nat /\ PayloadLimits \subseteq Nat
    /\ \A p \in Payloads : p \in Seq(Byte)

VARIABLES
    wire,          \* the bytes on the stream, those that were read included
    pos,           \* how many of them were read
    half,          \* WriteFrame's payload, between its two Writes
    conn,          \* "open", "ended" (cleanly), "broken"
    maxPayloadSize,
    want,          \* ReadFull: how many bytes, for "header" or "payload"
    got,           \* ... and those it has
    flag,          \* the flag of the header that was read
    result,        \* the error ReadFrame returned last, or "none"
    written,       \* history: the frames given to WriteFrame
    starts,        \* history: how many bytes lie before each of them
    frames         \* history: the frames ReadFrame returned

codecVars == <<wire, pos, half, conn, maxPayloadSize, want, got, flag, result,
               written, starts, frames>>
writeVars == <<half, written, starts>>
readVars == <<pos, want, got, flag, result, frames>>

Frame(f, p) == [flag |-> f, payload |-> p]
Header == [part |-> "header", n |-> HeaderSize]

CodecInit ==
    /\ wire = << >> /\ pos = 0 /\ half = << >> /\ conn = "open"
    /\ maxPayloadSize \in PayloadLimits
    /\ want = Header /\ got = << >> /\ flag = 0 /\ result = "none"
    /\ written = << >> /\ starts = << >> /\ frames = << >>

-----------------------------------------------------------------------------
(* Lengths, big-endian.                                                    *)

\* What the byte that is k bytes from the end of a length stands for: 256^k.
Pow[k \in 0..LenBytes] == IF k = 0 THEN 1 ELSE Base * Pow[k - 1]
Modulus == Pow[LenBytes]                            \* 2^32

\* Mutants: the length is little-endian; it is not reduced to a byte.
PutUint32Little(n) == [i \in 1..LenBytes |-> (n \div Pow[i - 1]) % Base]
PutUint32Wide(n)   == [i \in 1..LenBytes |-> n \div Pow[LenBytes - i]]

\* uint32(n) keeps the low LenBytes bytes of n.
PutUint32(n) == [i \in 1..LenBytes |-> (n \div Pow[LenBytes - i]) % Base]

Uint32(bytes) ==
    LET val[i \in 0..LenBytes] == IF i = 0 THEN 0 ELSE val[i - 1] * Base + bytes[i]
    IN  val[LenBytes]

-----------------------------------------------------------------------------
(* WriteFrame and the connection.                                          *)

WriteHeader(f, p) ==
    /\ conn = "open" /\ half = << >> /\ Len(written) < MaxFrames
    /\ wire' = wire \o <<f>> \o PutUint32(Len(p))
    /\ half' = p
    /\ written' = Append(written, Frame(f, p))
    /\ starts' = Append(starts, Len(wire))
    /\ UNCHANGED <<conn, maxPayloadSize, readVars>>

WritePayload ==
    /\ conn = "open" /\ half # << >>
    /\ wire' = wire \o half
    /\ half' = << >>
    /\ UNCHANGED <<conn, maxPayloadSize, written, starts, readVars>>

\* The response ends, at a frame boundary or because the writer died.
End ==
    /\ conn = "open"
    /\ conn' = "ended"
    /\ UNCHANGED <<wire, maxPayloadSize, writeVars, readVars>>

\* The connection breaks: what has not arrived is lost, and both sides see an
\* error.
Break(k) ==
    /\ conn = "open" /\ pos <= k
    /\ conn' = "broken"
    /\ wire' = SubSeq(wire, 1, k)
    /\ UNCHANGED <<maxPayloadSize, writeVars, readVars>>

-----------------------------------------------------------------------------
(* ReadFrame, called again until it returns an error.                      *)

\* io.ReadFull: a Read delivers some of the bytes that are missing.
ReadSome(n) ==
    /\ result = "none" /\ Len(got) < want.n
    /\ n <= want.n - Len(got)
    /\ got' = got \o SubSeq(wire, pos + 1, pos + n)
    /\ pos' = pos + n
    /\ UNCHANGED <<wire, conn, maxPayloadSize, writeVars, want, flag, result, frames>>

Return(err) == result' = err /\ UNCHANGED <<pos, want, got, flag, frames>>

\* The frame is returned and the next call starts.
ReturnFrame(f, p) ==
    /\ frames' = Append(frames, Frame(f, p))
    /\ want' = Header /\ got' = << >>
    /\ UNCHANGED <<pos, flag, result>>

NoMoreBytes == result = "none" /\ Len(got) < want.n /\ pos = Len(wire) /\ conn # "open"

ReadEndsWith(atEOF) ==
    /\ NoMoreBytes
    /\ Return(IF atEOF THEN "EOF" ELSE "ErrUnexpectedEOF")
    /\ UNCHANGED <<wire, conn, maxPayloadSize, writeVars>>

AtEOF == want.part = "header" /\ got = << >> /\ conn = "ended"

\* Mutants: a partial header is taken for the end of the stream; the rest of a
\* partial header is waited for for ever.
ReadEndsPartial == ReadEndsWith(want.part = "header")
ReadEndsWaits   == (want.part = "header" => got = << >>) /\ ReadEndsWith(AtEOF)

\* ReadFull cannot go on.  It returns io.EOF only if it read nothing and the
\* stream ended cleanly; every other error, and any inside the payload, is
\* reported as io.ErrUnexpectedEOF.
ReadEnds == ReadEndsWith(AtEOF)

\* A complete header: the limit, then an empty payload, then make([]byte, n).
ReadHeaderWith(n, refused) ==
    /\ result = "none" /\ want.part = "header" /\ Len(got) = want.n
    /\ IF refused THEN Return("tooBig")
       ELSE IF n = 0 THEN ReturnFrame(got[1], << >>)
       ELSE /\ flag' = got[1] /\ want' = [part |-> "payload", n |-> n] /\ got' = << >>
            /\ UNCHANGED <<pos, result, frames>>
    /\ UNCHANGED <<wire, conn, maxPayloadSize, writeVars>>

\* Mutant: a payload of exactly one byte too many is let through.
ReadHeaderLimitOff ==
    LET n == Uint32(Tail(got))
    IN  ReadHeaderWith(n, maxPayloadSize > 0 /\ n > maxPayloadSize + 1)

\* int(length) is the length itself: int has 64 bits on the builds modelled; a
\* 32-bit one would make lengths from 2^31 on negative (stream/stream.go:77).
ReadHeader ==
    LET n == Uint32(Tail(got))
    IN  ReadHeaderWith(n, maxPayloadSize > 0 /\ n > maxPayloadSize)

ReadPayload ==
    /\ result = "none" /\ want.part = "payload" /\ Len(got) = want.n
    /\ ReturnFrame(flag, got)
    /\ UNCHANGED <<wire, conn, maxPayloadSize, writeVars>>

CodecDone ==
    /\ conn # "open"
    /\ UNCHANGED codecVars

ReadStep ==
    \/ \E n \in 1..(Len(wire) - pos) : ReadSome(n)
    \/ ReadEnds \/ ReadHeader \/ ReadPayload

CodecNext ==
    \/ \E f \in Byte, p \in Payloads : WriteHeader(f, p)
    \/ WritePayload
    \/ End
    \/ \E k \in 0..Len(wire) : Break(k)
    \/ ReadStep
    \/ CodecDone

CodecSpec == CodecInit /\ [][CodecNext]_codecVars

\* The reader goes on calling ReadFrame.  Nobody need write or end the stream.
CodecFairSpec == CodecSpec /\ WF_codecVars(ReadStep)

-----------------------------------------------------------------------------
(* Properties.                                                             *)

CodecTypeOK ==
    /\ wire \in Seq(Byte) /\ pos \in 0..Len(wire)
    /\ half \in Seq(Byte) /\ got \in Seq(Byte)
    /\ conn \in {"open", "ended", "broken"} /\ maxPayloadSize \in PayloadLimits
    /\ want.part \in {"header", "payload"} /\ want.n \in Nat /\ Len(got) <= want.n
    /\ flag \in Byte
    /\ result \in {"none", "EOF", "ErrUnexpectedEOF", "tooBig"}
    /\ \A f \in Range(written) \union Range(frames) :
          f.flag \in Byte /\ f.payload \in Seq(Byte)

\* No payload up to the i-th outgrew the length field.
FitUpTo(i) == \A j \in 1..i : j \in DOMAIN written => Len(written[j].payload) < Modulus
AllFit == FitUpTo(Len(written))

\* The frames that are read are the frames that were written, in order and
\* byte for byte, however the stream cuts them; up to a payload of 2^32 bytes
\* or more, whose header holds only the rest of its length (stream.go:34).
RoundTrip ==
    \A i \in DOMAIN frames :
        FitUpTo(i) => i \in DOMAIN written /\ frames[i] = written[i]

\* io.EOF means that the stream ended cleanly and every frame that was begun
\* has been returned; io.ErrUnexpectedEOF that it broke, or that it ended
\* inside a frame (stream.go:60).
EndIsClassified ==
    AllFit =>
      /\ result = "EOF" => conn = "ended" /\ frames = written
      /\ result = "ErrUnexpectedEOF" => conn = "broken" \/ half # << >>

\* No buffer larger than the limit is ever made, and only a frame whose payload
\* is larger is refused for its size (stream.go:77).
LimitKept ==
    /\ maxPayloadSize > 0 /\ want.part = "payload" => want.n <= maxPayloadSize
    /\ result = "tooBig" /\ AllFit =>
          Len(written[Len(frames) + 1].payload) > maxPayloadSize

\* Each of ReadFrame's errors means what it says.
ErrorsExact == CodecTypeOK /\ EndIsClassified /\ LimitKept

\* Once the stream has ended or broken the reader gets an error: it neither
\* waits for the rest of a frame nor reads for ever.
ReaderStops == conn # "open" ~> result # "none"
=============================================================================
