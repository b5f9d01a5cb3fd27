------------------------------ MODULE FrameLog ------------------------------
(***************************************************************************)
(* What HandleStream (streaming.go) promises about the body of a streaming *)
(* response, without goroutines, locks, or split writes: a log of whole    *)
(* frames that grows one frame at a time, accepts nothing after a final or *)
(* an error frame, and stops growing when the connection is lost.          *)
(***************************************************************************)
EXTENDS Naturals, Sequences

CONSTANTS Bodies       \* everything a frame can carry, "nothing" included

VARIABLES frames,      \* the whole frames written so far
          up           \* FALSE once the connection is lost

vars == <<frames, up>>

\* The four frame flags of stream/stream.go.
Flags == {"data", "final", "error", "heartbeat"}
TerminalFlags == {"final", "error"}

Frame == [flag : Flags, body : Bodies]

\* A final or an error frame has been written.
Terminated == \E i \in 1..Len(frames) : frames[i].flag \in TerminalFlags

Init == frames = << >> /\ up = TRUE

Emit(f) ==
    /\ up
    /\ ~Terminated
    /\ frames' = Append(frames, f)
    /\ UNCHANGED up

Break == up /\ up' = FALSE /\ UNCHANGED frames

Next == Break \/ \E f \in Frame : Emit(f)

Spec == Init /\ [][Next]_vars
=============================================================================
