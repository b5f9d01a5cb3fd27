------------------------------- MODULE MCRetry -------------------------------
EXTENDS Retry

\* A rate limit with a delay, a service failure, an infrastructure failure,
\* the same code from the service, an error without a code, and a delay too
\* long for a duration.
mc_Errors ==
    {[code |-> 429, infra |-> FALSE, wait |-> 2],
     [code |-> 500, infra |-> FALSE, wait |-> 0],
     [code |-> 404, infra |-> TRUE,  wait |-> 0],
     [code |-> 404, infra |-> FALSE, wait |-> 0],
     [code |-> 0,   infra |-> FALSE, wait |-> 0],
     [code |-> 429, infra |-> FALSE, wait |-> 99]}

mc_BackOffs ==
    {[min |-> 1, max |-> 3, factor |-> 2, jitter |-> 0],
     [min |-> 1, max |-> 3, factor |-> 2, jitter |-> 10]}

\* Twice, UntilSuccess and OnRetryable, each list alone, and a fixed sleep.
mc_Policies ==
    {[onCodes |-> c, onInfraCodes |-> i, attempts |-> a, interval |-> b] :
        c \in {<< >>, RetryableCodes}, i \in {<< >>, RetryableInfraCodes}, a \in {0, 2},
        b \in mc_BackOffs \union {[sleep |-> 1]}}
=============================================================================
