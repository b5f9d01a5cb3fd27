-------------------------------- MODULE Retry --------------------------------
(***************************************************************************)
(* retry.On (retry/retry.go): run an operation until it succeeds, until    *)
(* the policy gives up, or until the context is cancelled, sleeping        *)
(* between attempts for the time the server asked for or, failing that,    *)
(* for the time the policy's interval gives.                               *)
(*                                                                         *)
(* Time is a counter.  Durations are machine integers of a small width:    *)
(* a float64 that does not fit is converted to the smallest integer        *)
(* (amd64) or to the largest (arm64).                                      *)
(***************************************************************************)
EXTENDS Integers, Sequences, RetryPolicy

CONSTANTS
    Errors,       \* what an attempt can fail with
    Policies,     \* the policies On is called with
    BackOffs,     \* the BackOff intervals policies use
    MaxDuration,  \* the largest duration; the smallest is -MaxDuration - 1
    MaxTime,      \* bound: the clock
    MaxOps        \* bound: attempts of a policy without a limit

(* An error is a record.  code: HTTPCode(), or 0 when it has none; infra:  *)
(* IsInfraError(); wait: the seconds in its rate-limit details, or 0.      *)
(* A policy is a record.  onCodes, onInfraCodes: << >> for nil, or <<set>>;*)
(* attempts: 0 for no limit; interval: a BackOff, or [sleep |-> n] for a   *)
(* fixed Sleep.                                                            *)

\* The result of an attempt that did not fail.
Ok == [code |-> 0, infra |-> FALSE, wait |-> 0, nil |-> TRUE]

\* The durations of the width at hand.
Duration == (-MaxDuration - 1)..MaxDuration

\* A policy's own bounds are durations in order; On checks none of this.
ASSUME RetryConstants ==
    /\ \A e \in Errors : e.code \in Nat /\ e.infra \in BOOLEAN /\ e.wait \in Nat
    /\ Ok \notin Errors
    /\ \A p \in Policies : /\ p.attempts \in Nat
                           /\ p.onCodes \in Seq(SUBSET Nat)
                           /\ p.onInfraCodes \in Seq(SUBSET Nat)
                           /\ p.interval \notin BackOffs => p.interval.sleep \in Duration
    /\ \A b \in BackOffs : /\ b.min \in Duration /\ b.max \in Duration
                           /\ b.min <= b.max
                           /\ b.jitter \in Nat
    /\ MaxDuration \in Nat /\ MaxTime \in Nat /\ MaxOps \in Nat

VARIABLES
    policy,      \* the policy of this call
    pc,          \* "top" of the loop, "op" running, "sleep"ing, "returned"
    attempt,     \* the attempt counter
    cancelled,   \* the context is done
    now,         \* the clock
    wake,        \* when the timer fires
    asked,       \* history: the earliest time the server allowed a retry
    sleeps,      \* history: the durations taken from the interval
    ops,         \* history: the errors of the attempts made, in order
    result       \* what On returned

vars == <<policy, pc, attempt, cancelled, now, wake, asked, sleeps, ops, result>>

-----------------------------------------------------------------------------
(* BackOff.Next and rateLimitDuration.                                     *)

\* What the conversion of the float64 x to a duration can give.
Durations(x) == IF x \in Duration THEN {x} ELSE {MaxDuration, -MaxDuration - 1}

\* Jitter is in tenths, and so is the random factor (at least 0, below 1).  With
\* jitter the duration becomes a random share of itself, truncated towards zero.
Truncate(a, b) == IF a >= 0 THEN a \div b ELSE -((-a) \div b)
Jittered(b, d) ==
    IF b.jitter > 0 THEN {Truncate(r * b.jitter * d, 100) : r \in 0..9} ELSE {d}

\* Mutant: the lower bound is forgotten.
ClampNoMin(b, d) == IF d > b.max THEN b.max ELSE d

Clamp(b, d) == IF d > b.max THEN b.max ELSE IF d < b.min THEN b.min ELSE d

\* The durations Next(attempts) can return.
BackOffNext(b, attempts) ==
    {Clamp(b, d) : d \in UNION {Jittered(b, x) :
                                x \in Durations(b.min * b.factor^attempts)}}

IntervalNext(i, attempts) ==
    IF i \in BackOffs THEN BackOffNext(i, attempts) ELSE {i.sleep}

\* Mutant: the delay is kept although it does not fit a duration.
RateLimitUnbounded(e) == {e.wait}

\* The sleep the error asks for; {0} when it asks for none.
RateLimitDurations(e) == Durations(e.wait)

-----------------------------------------------------------------------------
Init ==
    /\ policy \in Policies
    /\ pc = "top"
    /\ attempt = 1
    /\ cancelled = FALSE
    /\ now = 0 /\ wake = 0 /\ asked = 0
    /\ sleeps = << >>
    /\ ops = << >>
    /\ result = "none"

\* The select at the top of the loop: a cancelled context wins.
TopCancelled ==
    /\ pc = "top" /\ cancelled
    /\ pc' = "returned"
    /\ result' = "ctx"
    /\ UNCHANGED <<policy, attempt, cancelled, now, wake, asked, sleeps, ops>>

\* Mutant: the context is not looked at before an attempt.
StartOpUnchecked ==
    /\ pc = "top"
    /\ policy.attempts = 0 => attempt <= MaxOps
    /\ pc' = "op"
    /\ UNCHANGED <<policy, attempt, cancelled, now, wake, asked, sleeps, ops,
                   result>>

StartOp ==
    /\ pc = "top" /\ ~cancelled
    /\ policy.attempts = 0 => attempt <= MaxOps
    /\ pc' = "op"
    /\ UNCHANGED <<policy, attempt, cancelled, now, wake, asked, sleeps, ops,
                   result>>

OpSucceeds ==
    /\ pc = "op"
    /\ ops' = Append(ops, Ok)
    /\ pc' = "returned"
    /\ result' = "nil"
    /\ UNCHANGED <<policy, attempt, cancelled, now, wake, asked, sleeps>>

\* Mutant: one attempt too many.
GivesUpLate(e) ==
    \/ policy.attempts # 0 /\ attempt > policy.attempts
    \/ ~ShouldRetry(e, policy)

\* Out of attempts, or not worth retrying: the error is returned as it is.
GivesUp(e) ==
    \/ policy.attempts # 0 /\ attempt >= policy.attempts
    \/ ~ShouldRetry(e, policy)

\* Mutant: giving up loses the error.
OpFailsForGoodSwallows(e) ==
    /\ pc = "op" /\ GivesUp(e)
    /\ ops' = Append(ops, e)
    /\ pc' = "returned"
    /\ result' = "nil"
    /\ UNCHANGED <<policy, attempt, cancelled, now, wake, asked, sleeps>>

OpFailsForGood(e) ==
    /\ pc = "op" /\ GivesUp(e)
    /\ ops' = Append(ops, e)
    /\ pc' = "returned"
    /\ result' = "err"
    /\ UNCHANGED <<policy, attempt, cancelled, now, wake, asked, sleeps>>

\* Mutant: the interval is used although the server asked for a delay.
OpFailsIgnoresServer(e) ==
    /\ pc = "op" /\ ~GivesUp(e)
    /\ ops' = Append(ops, e)
    /\ \E d \in IntervalNext(policy.interval, attempt) :
          /\ wake' = now + d
          /\ sleeps' = Append(sleeps, d)
    /\ asked' = now + e.wait
    /\ pc' = "sleep"
    /\ UNCHANGED <<policy, attempt, cancelled, now, result>>

\* The timer is set: to the server's delay when there is one, else to the
\* interval's.
OpFailsAndSleeps(e) ==
    /\ pc = "op" /\ ~GivesUp(e)
    /\ ops' = Append(ops, e)
    /\ \E r \in RateLimitDurations(e) :
          \/ /\ r # 0
             /\ wake' = now + r
             /\ asked' = now + e.wait
             /\ UNCHANGED sleeps
          \/ /\ r = 0
             /\ \E d \in IntervalNext(policy.interval, attempt) :
                   /\ wake' = now + d
                   /\ sleeps' = Append(sleeps, d)
             /\ asked' = now
    /\ pc' = "sleep"
    /\ UNCHANGED <<policy, attempt, cancelled, now, result>>

\* Mutant: the sleep cannot be interrupted.
SleepUninterruptible ==
    /\ pc = "sleep" /\ cancelled /\ now >= wake
    /\ pc' = "returned"
    /\ result' = "ctx"
    /\ UNCHANGED <<policy, attempt, cancelled, now, wake, asked, sleeps, ops>>

\* The select of the sleep: either case when both are ready.
SleepCancelled ==
    /\ pc = "sleep" /\ cancelled
    /\ pc' = "returned"
    /\ result' = "ctx"
    /\ UNCHANGED <<policy, attempt, cancelled, now, wake, asked, sleeps, ops>>

SleepDone ==
    /\ pc = "sleep" /\ now >= wake
    /\ attempt' = attempt + 1
    /\ pc' = "top"
    /\ UNCHANGED <<policy, cancelled, now, wake, asked, sleeps, ops, result>>

\* The caller cancels the context, or its deadline passes.
Cancel ==
    /\ ~cancelled /\ pc # "returned"
    /\ cancelled' = TRUE
    /\ UNCHANGED <<policy, pc, attempt, now, wake, asked, sleeps, ops, result>>

Tick ==
    /\ now < MaxTime /\ pc # "returned"
    /\ now' = now + 1
    /\ UNCHANGED <<policy, pc, attempt, cancelled, wake, asked, sleeps, ops,
                   result>>

Returned == pc = "returned" /\ UNCHANGED vars

OpReturns == OpSucceeds \/ \E e \in Errors : OpFailsForGood(e) \/ OpFailsAndSleeps(e)

OnStep == TopCancelled \/ StartOp \/ SleepCancelled \/ SleepDone

Next == OnStep \/ OpReturns \/ Cancel \/ Tick \/ Returned

Spec == Init /\ [][Next]_vars

\* On's own goroutine is scheduled, and an operation comes back (it is given
\* the context to watch).
FairSpec == Spec /\ WF_vars(OnStep) /\ WF_vars(OpReturns)

-----------------------------------------------------------------------------
(* Properties.                                                             *)

TypeOK ==
    /\ policy \in Policies
    /\ pc \in {"top", "op", "sleep", "returned"}
    /\ attempt \in Nat /\ now \in 0..MaxTime /\ asked \in Nat
    /\ wake \in -(MaxDuration + 1)..(MaxTime + MaxDuration)
    /\ cancelled \in BOOLEAN
    /\ ops \in Seq(Errors \union {Ok})
    /\ sleeps \in Seq(Int)
    /\ result \in {"none", "nil", "err", "ctx"}

\* An attempt limit counts every attempt, the first included, and On stops
\* exactly there: it neither tries once more nor gives up early on an error
\* the policy retries.  An infrastructure error under a nil OnInfraCodes is left
\* out: retry.go:118 says that it is not retried, and with both lists nil it is.
AttemptLimit ==
    /\ policy.attempts # 0 => Len(ops) <= policy.attempts
    /\ LET e == ops[Len(ops)] IN
          /\ result = "err" /\ ShouldRetry(e, policy)
          /\ ~(e.infra /\ policy.onInfraCodes = << >>)
          => Len(ops) = policy.attempts

\* Every attempt that was followed by another failed with an error of the
\* policy's lists, if it has any: an infrastructure error by OnInfraCodes, a
\* service error by OnCodes (retry.go:114), never one by the other's list.
OnlyRetryable ==
    \A i \in 1..(Len(ops) - 1) :
        /\ ops[i] # Ok
        /\ (policy.onCodes # << >> \/ policy.onInfraCodes # << >>) =>
              \E k \in DOMAIN (IF ops[i].infra THEN policy.onInfraCodes
                                               ELSE policy.onCodes) :
                 ops[i].code \in (IF ops[i].infra THEN policy.onInfraCodes
                                                  ELSE policy.onCodes)[k]

\* What On returns is the last attempt's result or, only when the context was
\* cancelled, the context's error.
ResultIsLast ==
    /\ result = "nil" <=> ops # << >> /\ ops[Len(ops)] = Ok
    /\ result = "err" => ops # << >> /\ ops[Len(ops)] \in Errors
    /\ result = "ctx" => cancelled

\* On makes the attempts its policy asks for, no more and no fewer, and returns
\* what became of them.
AttemptsExact == TypeOK /\ AttemptLimit /\ OnlyRetryable /\ ResultIsLast

\* No attempt starts once the context is cancelled, not even when the timer
\* fires at the same moment.
NoAttemptAfterCancel == [][cancelled => ~(pc # "op" /\ pc' = "op")]_vars

\* No attempt starts before the time the server asked for, as long as that
\* delay fits a duration.
ServerDelayRespected ==
    [][(pc = "top" /\ pc' = "op" /\ ops # << >>
          /\ ops[Len(ops)].wait <= MaxDuration) => now >= asked]_vars

\* Sleeps taken from a BackOff stay within its bounds, whatever the jitter and
\* however many attempts overflow the multiplication.
SleepsInBounds ==
    policy.interval \in BackOffs =>
        \A i \in 1..Len(sleeps) :
            sleeps[i] \in policy.interval.min..policy.interval.max

\* Cancelling the context ends On, however long the sleep it is in.
CancelReturns == cancelled ~> pc = "returned"
=============================================================================
