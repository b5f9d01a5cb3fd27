--------------------------- MODULE WaitForConnect ---------------------------
(***************************************************************************)
(* WaitForConnect (wait.go): dial the address until a dial succeeds or the *)
(* context is cancelled.  A dial looks at the context, the sleep between   *)
(* two dials does not.                                                     *)
(***************************************************************************)
EXTENDS Integers

VARIABLES
    listen,           \* the server's listener (DemoServer)
    wait,             \* "start", "dial", "sleep", "nil", "err"
    ctx,              \* the context: "live", "cancelled"
    late              \* dials begun after the cancellation: 0, 1, or 2 for more

WaitInit == wait = "start" /\ ctx = "live" /\ late = 0

\* An empty address is refused.
Refuse ==
    /\ wait = "start" /\ wait' = "err"
    /\ UNCHANGED <<ctx, late>>

Dial ==
    /\ wait \in {"start", "sleep"}
    /\ wait' = "dial"
    /\ late' = IF ctx = "live" \/ late = 2 THEN late ELSE late + 1
    /\ UNCHANGED ctx

\* Somebody listens.  A dial that was under way may still succeed after the
\* cancellation, one that is begun after it does not.
Connected ==
    /\ wait = "dial" /\ listen = "open" /\ late = 0
    /\ wait' = "nil"
    /\ UNCHANGED <<ctx, late>>

\* Mutant: the context is not looked at after a failed dial.
DialFailsNoCheck ==
    /\ wait = "dial" /\ (listen # "open" \/ ctx = "cancelled")
    /\ wait' = "sleep"
    /\ UNCHANGED <<ctx, late>>

\* Nobody listens, or the context is done: it is looked at only now.
DialFails ==
    /\ wait = "dial" /\ (listen # "open" \/ ctx = "cancelled")
    /\ wait' = IF ctx = "cancelled" THEN "err" ELSE "sleep"
    /\ UNCHANGED <<ctx, late>>

WaitCancel ==
    /\ ctx = "live" /\ wait \notin {"nil", "err"}
    /\ ctx' = "cancelled"
    /\ UNCHANGED <<wait, late>>

WaitStep == Dial \/ Connected \/ DialFails
=============================================================================
