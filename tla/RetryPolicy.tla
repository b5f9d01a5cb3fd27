----------------------------- MODULE RetryPolicy -----------------------------
(***************************************************************************)
(* Which errors a retry policy retries (retry/retry.go, policies.go).      *)
(*                                                                         *)
(* An error is a record with at least the fields code (HTTPCode(), or 0    *)
(* when it has none) and infra (IsInfraError()).  A policy is a record     *)
(* with at least onCodes and onInfraCodes, each << >> for a nil slice or   *)
(* <<set of codes>>.                                                       *)
(***************************************************************************)
EXTENDS Integers

\* Mutant: one list of codes for service and infrastructure errors.
ShouldRetryAnyList(e, p) ==
    \/ p.onCodes = << >> /\ p.onInfraCodes = << >>
    \/ p.onCodes # << >> /\ e.code \in p.onCodes[1]
    \/ p.onInfraCodes # << >> /\ e.code \in p.onInfraCodes[1]

\* shouldRetry: with no code list every error is retried; an error without a
\* code never is; an infrastructure error is looked up in OnInfraCodes only,
\* any other in OnCodes only, and a nil list holds nothing.
ShouldRetry(e, p) ==
    \/ p.onCodes = << >> /\ p.onInfraCodes = << >>
    \/ /\ e.code # 0
       /\ IF e.infra
          THEN p.onInfraCodes # << >> /\ e.code \in p.onInfraCodes[1]
          ELSE p.onCodes # << >> /\ e.code \in p.onCodes[1]

RetryableCodes == <<{429, 454, 500}>>
RetryableInfraCodes == <<{404, 502, 503, 504}>>

\* OnRetryable: the policy without an attempt limit for clients.
OnRetryable == [onCodes |-> RetryableCodes, onInfraCodes |-> RetryableInfraCodes]
=============================================================================
