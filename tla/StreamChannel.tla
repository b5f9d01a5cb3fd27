---------------------------- MODULE StreamChannel ----------------------------
(***************************************************************************)
(* What a structured stream promises its two applications, with no frames, *)
(* timers or connections: the receiver gets the sender's messages in       *)
(* order, one at a time, and is told "complete" only when the sender ended *)
(* the stream cleanly and every message has been delivered.  It may be     *)
(* told of a failure at any time.                                          *)
(***************************************************************************)
EXTENDS Naturals, Sequences

CONSTANT Msgs

VARIABLES sent, ended, delivered, status

vars == <<sent, ended, delivered, status>>

Init ==
    /\ sent = << >>
    /\ ended = "no"
    /\ delivered = << >>
    /\ status = "receiving"

Send(m) ==
    /\ ended = "no"
    /\ sent' = Append(sent, m)
    /\ UNCHANGED <<ended, delivered, status>>

\* A clean end may carry one last message.
EndCleanly ==
    /\ ended = "no"
    /\ ended' = "cleanly"
    /\ sent' = sent \/ \E m \in Msgs : sent' = Append(sent, m)
    /\ UNCHANGED <<delivered, status>>

EndWithError ==
    /\ ended = "no"
    /\ ended' = "withError"
    /\ UNCHANGED <<sent, delivered, status>>

Deliver ==
    /\ status = "receiving"
    /\ Len(delivered) < Len(sent)
    /\ delivered' = Append(delivered, sent[Len(delivered) + 1])
    /\ UNCHANGED <<sent, ended, status>>

Complete ==
    /\ status = "receiving"
    /\ ended = "cleanly" /\ delivered = sent
    /\ status' = "complete"
    /\ UNCHANGED <<sent, ended, delivered>>

Fail ==
    /\ status = "receiving"
    /\ status' = "failed"
    /\ UNCHANGED <<sent, ended, delivered>>

Next ==
    \/ \E m \in Msgs : Send(m)
    \/ EndCleanly \/ EndWithError
    \/ Deliver \/ Complete \/ Fail

Spec == Init /\ [][Next]_vars
=============================================================================
