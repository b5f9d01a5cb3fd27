----------------------------- MODULE LimitReader -----------------------------
(***************************************************************************)
(* The size limit on request bodies (reader.go), as ReadRequest and        *)
(* ReadContent (service.go) use it: io.Copy drains a body through a        *)
(* LimitReader into a buffer.                                              *)
(*                                                                         *)
(* The body is external: one Read returns any number of the bytes that are *)
(* left, and io.EOF either with the last of them (net/http does this for a *)
(* body with a Content-Length) or in a Read of its own.                    *)
(***************************************************************************)
EXTENDS Integers

CONSTANTS MaxInt,     \* the largest int64
          Sizes,      \* body sizes
          Limits,     \* limits passed to ReadRequest and ReadContent
          BufSizes    \* sizes of the buffer io.Copy reads into

ASSUME LimitConstants ==
    /\ MaxInt \in Nat
    /\ Sizes \subseteq 0..MaxInt
    /\ Limits \subseteq -(MaxInt + 1)..MaxInt
    /\ BufSizes \subseteq Nat \ {0}

VARIABLES limit, size,   \* the parameters of this request
          max, remain,   \* the fields of LimitReader
          left,          \* bytes of the body not read yet
          copied,        \* bytes in the destination buffer
          state,         \* "copying", or how the copy ended
          closed         \* the request's body has been closed

limVars == <<limit, size, max, remain, left, copied, state, closed>>

\* Mutant: integers without a width.
WrapNone(n) == n

\* A sum of int64s wraps around.
Wrap(n) == IF n > MaxInt THEN n - 2 * (MaxInt + 1) ELSE n

Limited == limit > 0

Minimum(a, b) == IF a <= b THEN a ELSE b

\* ReadRequest: NewLimitReader when there is a limit.
LimInit ==
    /\ limit \in Limits /\ size \in Sizes
    /\ max = limit /\ remain = Wrap(limit + 1)
    /\ left = size
    /\ copied = 0
    /\ state = "copying"
    /\ closed = FALSE

\* Mutant: the limit ends the body, as io.LimitReader would.
ReadExceededSilently ==
    /\ state = "copying" /\ Limited /\ remain <= 0
    /\ state' = "copied"
    /\ UNCHANGED <<limit, size, max, remain, left, copied, closed>>

\* LimitReader.Read refuses once more than max bytes have been read.
ReadExceeded ==
    /\ state = "copying" /\ Limited /\ remain <= 0
    /\ state' = "tooLarge"
    /\ UNCHANGED <<limit, size, max, remain, left, copied, closed>>

\* Mutant: the buffer is not cut down to what remains.
ReadUncut(want, n, eof) ==
    /\ state = "copying"
    /\ Limited => remain > 0
    /\ n <= Minimum(left, want)
    /\ eof => n = left
    /\ n > 0 \/ eof
    /\ left' = left - n
    /\ copied' = copied + n
    /\ remain' = IF Limited THEN remain - n ELSE remain
    /\ state' = IF eof THEN "copied" ELSE "copying"
    /\ UNCHANGED <<limit, size, max, closed>>

\* One Read of at most want bytes that returns n of them, with io.EOF when eof.
Read(want, n, eof) ==
    /\ state = "copying"
    /\ Limited => remain > 0
    /\ n <= Minimum(left, IF Limited THEN Minimum(want, remain) ELSE want)
    /\ eof => n = left
    /\ n > 0 \/ eof
    /\ left' = left - n
    /\ copied' = copied + n
    /\ remain' = IF Limited THEN remain - n ELSE remain
    /\ state' = IF eof THEN "copied" ELSE "copying"
    /\ UNCHANGED <<limit, size, max, closed>>

\* The connection fails while the body is being read.
ReadFails ==
    /\ state = "copying"
    /\ Limited => remain > 0
    /\ state' = "failed"
    /\ UNCHANGED <<limit, size, max, remain, left, copied, closed>>

\* Mutant: the body is closed only after a successful copy.
CloseBodyOnSuccess ==
    /\ state = "copied" /\ ~closed
    /\ closed' = TRUE
    /\ UNCHANGED <<limit, size, max, remain, left, copied, state>>

\* The deferred Close, on every way out.
CloseBody ==
    /\ state # "copying" /\ ~closed
    /\ closed' = TRUE
    /\ UNCHANGED <<limit, size, max, remain, left, copied, state>>

LimDone == closed /\ UNCHANGED limVars

LimNext ==
    \/ ReadExceeded
    \/ \E want \in BufSizes : \E n \in 0..want, eof \in BOOLEAN : Read(want, n, eof)
    \/ ReadFails
    \/ CloseBody
    \/ LimDone

LimSpec == LimInit /\ [][LimNext]_limVars

\* The request goroutine is scheduled.  Nothing is assumed of the body: a peer
\* that stops sending may keep a Read for ever, there is no deadline for it.
LimFairSpec == LimSpec /\ WF_limVars(ReadExceeded \/ CloseBody)

-----------------------------------------------------------------------------
(* Properties.                                                             *)

LimTypeOK ==
    /\ limit \in Limits /\ size \in Sizes /\ max = limit
    /\ remain \in -(MaxInt + 1)..MaxInt
    /\ left \in 0..MaxInt /\ copied \in 0..MaxInt
    /\ state \in {"copying", "copied", "tooLarge", "failed"}
    /\ closed \in BOOLEAN

\* However the reads are split, the server never buffers more than one byte
\* beyond the limit.
BufferBounded == Limited => copied <= limit + 1

\* A body within the limit is never refused, and an accepted body is whole: a
\* limit that cuts a body short is always reported.  Left out is the largest
\* limit, for which the sum in NewLimitReader wraps and every body is refused.
NoTruncation ==
    /\ (state = "tooLarge" /\ limit < MaxInt) => size > limit
    /\ state = "copied" => copied = size

\* Memory is bounded, no body within the limit is refused, and none of more than
\* one byte beyond it is accepted or cut off in silence.  Nothing is said of a
\* body of limit + 1 bytes: reader.go:24 and reader_test.go:32 refuse what is
\* over the limit, and the code accepts it when io.EOF comes with its last byte.
LimitHolds == LimTypeOK /\ BufferBounded /\ NoTruncation

\* A Read of the body has been called and has not returned.
InRead == state = "copying" /\ (Limited => remain > 0)

\* Reading ends, refused or not, and the body is closed, unless a Read of the
\* body never returns.
CopyEnds == <>(closed \/ []InRead)
=============================================================================
