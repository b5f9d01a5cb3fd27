----------------------------- MODULE RetryProofs -----------------------------
(***************************************************************************)
(* Machine-checked proofs about Retry, for every set of errors, policies   *)
(* and intervals and every width of the durations.                         *)
(***************************************************************************)
EXTENDS Retry, TLAPS

\* The attempt counter and the attempts made.
Counting ==
    /\ attempt >= 1
    /\ pc \in {"top", "op"} => Len(ops) = attempt - 1
    /\ pc = "sleep" => Len(ops) = attempt
    /\ policy.attempts # 0 =>
          /\ Len(ops) <= policy.attempts
          /\ pc \in {"top", "op"} => attempt <= policy.attempts
          /\ pc = "sleep" => attempt < policy.attempts

\* An attempt that was, or may yet be, followed by another one failed with an
\* error of the policy.
Retryable(e) == e \in Errors /\ ShouldRetry(e, policy)

Retried ==
    /\ \A i \in 1..(Len(ops) - 1) : Retryable(ops[i])
    /\ (pc # "returned" \/ result = "ctx") => \A i \in 1..Len(ops) : Retryable(ops[i])

\* What On returned, and why.
Outcome ==
    /\ pc # "returned" <=> result = "none"
    /\ result = "nil" => Len(ops) >= 1 /\ ops[Len(ops)] = Ok
    /\ result = "err" =>
          /\ Len(ops) >= 1 /\ ops[Len(ops)] \in Errors
          /\ ShouldRetry(ops[Len(ops)], policy) => Len(ops) = policy.attempts
    /\ result = "ctx" => cancelled

\* The timer runs until the time the server asked for, unless that time has
\* passed already (an interval may be negative) or its delay fits no duration.
Timed ==
    (ops # << >> /\ ops[Len(ops)].wait <= MaxDuration) =>
        /\ pc = "sleep" => asked <= wake \/ asked <= now
        /\ pc = "top" => asked <= now

RetryInv == TypeOK /\ Counting /\ Retried /\ Outcome /\ Timed /\ SleepsInBounds

-----------------------------------------------------------------------------
(* The operators.                                                          *)

\* Appending to a sequence: length, old elements, new element.
LEMMA AppendFacts ==
    ASSUME NEW S, NEW s \in Seq(S), NEW e \in S
    PROVE  /\ Append(s, e) \in Seq(S)
           /\ Len(Append(s, e)) = Len(s) + 1
           /\ Len(s) \in Nat
           /\ \A i \in 1..Len(s) : Append(s, e)[i] = s[i]
           /\ Append(s, e)[Len(s) + 1] = e
           /\ Append(s, e) # << >>
  OBVIOUS

\* Whatever does not fit a duration is still converted to one.
LEMMA DurationsType == \A x : Durations(x) \subseteq Duration
  BY RetryConstants DEF Durations, Duration

\* A jittered duration is an integer.
LEMMA JitteredType ==
    ASSUME NEW b \in BackOffs, NEW d \in Duration
    PROVE  Jittered(b, d) \subseteq Int
  <1>1. b.jitter \in Nat /\ d \in Int
    BY RetryConstants DEF Duration
  <1>2. ASSUME NEW r \in 0..9 PROVE Truncate(r * b.jitter * d, 100) \in Int
    <2>1. r * b.jitter * d \in Int
      BY <1>1
    <2> DEFINE a == r * b.jitter * d
    <2>2. a \in Int
      BY <2>1
    <2> HIDE DEF a
    <2>3. Truncate(a, 100) \in Int
      BY <2>2 DEF Truncate
    <2> QED BY <2>3 DEF a
  <1> QED BY <1>1, <1>2 DEF Jittered

\* The clamp brings any integer within the bounds of the BackOff.
LEMMA ClampBounds ==
    ASSUME NEW b \in BackOffs, NEW d \in Int
    PROVE  Clamp(b, d) \in b.min..b.max
  BY RetryConstants DEF Clamp, Duration

\* BackOff.Next stays within Min and Max for every attempt, however far the
\* multiplication overflows and whatever the random number.
LEMMA BackOffNextBounds ==
    ASSUME NEW b \in BackOffs, NEW n
    PROVE  BackOffNext(b, n) \subseteq b.min..b.max
  <1> SUFFICES ASSUME NEW c \in BackOffNext(b, n) PROVE c \in b.min..b.max
    OBVIOUS
  <1> DEFINE D == Durations(b.min * b.factor^n)
  <1>1. PICK d \in UNION {Jittered(b, x) : x \in D} : c = Clamp(b, d)
    BY DEF BackOffNext
  <1>2. PICK x \in D : d \in Jittered(b, x)
    BY <1>1
  <1>3. x \in Duration
    BY <1>2, DurationsType
  <1> HIDE DEF D
  <1>4. d \in Int
    BY <1>2, <1>3, JitteredType
  <1> QED BY <1>1, <1>4, ClampBounds

\* Every interval of a policy gives durations.
LEMMA IntervalNextType ==
    ASSUME NEW p \in Policies, NEW n
    PROVE  IntervalNext(p.interval, n) \subseteq Duration
  <1>1. CASE p.interval \in BackOffs
    <2>1. /\ p.interval.min \in Duration /\ p.interval.max \in Duration
      BY <1>1, RetryConstants
    <2>2. p.interval.min..p.interval.max \subseteq Duration
      BY <2>1, RetryConstants DEF Duration
    <2> QED BY <1>1, <2>2, BackOffNextBounds DEF IntervalNext
  <1>2. CASE p.interval \notin BackOffs
    BY <1>2, RetryConstants DEF IntervalNext
  <1> QED BY <1>1, <1>2

-----------------------------------------------------------------------------
(* The inductive invariant.                                                *)

\* Before the first attempt nothing has been tried or slept.
LEMMA RetryInit == Init => RetryInv
  <1> SUFFICES ASSUME Init PROVE RetryInv
    OBVIOUS
  <1> USE RetryConstants DEF Init
  <1>1. Len(ops) = 0 /\ Len(sleeps) = 0 /\ sleeps \in Seq(Int)
        /\ ops \in Seq(Errors \union {Ok})
    OBVIOUS
  <1>2. wake \in -(MaxDuration + 1)..(MaxTime + MaxDuration) /\ now \in 0..MaxTime
    OBVIOUS
  <1>3. TypeOK
    BY <1>1, <1>2 DEF TypeOK
  <1>4. Counting /\ Retried /\ Outcome /\ Timed /\ SleepsInBounds
    BY <1>1 DEF Counting, Retried, Outcome, Timed, SleepsInBounds
  <1> QED BY <1>3, <1>4 DEF RetryInv

\* An attempt returns: it is appended to the history.
LEMMA OpAppends ==
    ASSUME RetryInv, pc = "op", NEW e \in Errors \union {Ok}, ops' = Append(ops, e)
    PROVE  /\ ops' \in Seq(Errors \union {Ok})
           /\ Len(ops') = attempt /\ Len(ops) = attempt - 1
           /\ ops'[Len(ops')] = e
           /\ ops' # << >>
           /\ \A i \in 1..(Len(ops') - 1) : ops'[i] = ops[i] /\ Retryable(ops[i])
           /\ policy.attempts # 0 => attempt <= policy.attempts
  <1> USE DEF RetryInv, TypeOK, Counting
  <1>1. /\ ops' \in Seq(Errors \union {Ok})
        /\ Len(ops') = Len(ops) + 1 /\ Len(ops) \in Nat
        /\ \A i \in 1..Len(ops) : ops'[i] = ops[i]
        /\ ops'[Len(ops) + 1] = e
        /\ ops' # << >>
    BY AppendFacts
  <1>2. \A i \in 1..Len(ops) : Retryable(ops[i])
    BY DEF Retried
  <1> QED BY <1>1, <1>2

\* The attempt succeeds.
LEMMA OpSucceedsStep == RetryInv /\ OpSucceeds => RetryInv'
  <1> SUFFICES ASSUME RetryInv, OpSucceeds PROVE RetryInv'
    OBVIOUS
  <1> USE RetryConstants DEF OpSucceeds
  <1>1. /\ ops' \in Seq(Errors \union {Ok})
        /\ Len(ops') = attempt
        /\ ops'[Len(ops')] = Ok
        /\ \A i \in 1..(Len(ops') - 1) : ops'[i] = ops[i] /\ Retryable(ops[i])
        /\ policy.attempts # 0 => attempt <= policy.attempts
    BY OpAppends
  <1>2. TypeOK' /\ Counting' /\ Outcome' /\ Timed' /\ SleepsInBounds'
    BY <1>1 DEF RetryInv, TypeOK, Counting, Outcome, Timed, SleepsInBounds
  <1>3. Retried'
    BY <1>1 DEF Retried, Retryable
  <1> QED BY <1>2, <1>3 DEF RetryInv

\* The attempt fails and On gives up.
LEMMA OpFailsForGoodStep ==
    ASSUME RetryInv, NEW e \in Errors, OpFailsForGood(e) PROVE RetryInv'
  <1> USE RetryConstants DEF OpFailsForGood
  <1>1. /\ ops' \in Seq(Errors \union {Ok})
        /\ Len(ops') = attempt
        /\ ops'[Len(ops')] = e
        /\ \A i \in 1..(Len(ops') - 1) : ops'[i] = ops[i] /\ Retryable(ops[i])
        /\ policy.attempts # 0 => attempt <= policy.attempts
    BY OpAppends
  <1>2. TypeOK' /\ Counting' /\ Timed' /\ SleepsInBounds'
    BY <1>1 DEF RetryInv, TypeOK, Counting, Timed, SleepsInBounds
  <1>3. Retried'
    BY <1>1 DEF Retried, Retryable
  <1>4. ShouldRetry(e, policy) => attempt = policy.attempts
    BY <1>1 DEF GivesUp, RetryInv, TypeOK
  <1>5. Outcome'
    BY <1>1, <1>4 DEF Outcome, RetryInv, TypeOK, Counting
  <1> QED BY <1>2, <1>3, <1>5 DEF RetryInv

\* The attempt fails and On sleeps before the next one.
LEMMA OpFailsAndSleepsStep ==
    ASSUME RetryInv, NEW e \in Errors, OpFailsAndSleeps(e) PROVE RetryInv'
  <1> USE RetryConstants DEF OpFailsAndSleeps
  <1>1. /\ ops' \in Seq(Errors \union {Ok})
        /\ Len(ops') = attempt
        /\ ops'[Len(ops')] = e
        /\ \A i \in 1..(Len(ops') - 1) : ops'[i] = ops[i] /\ Retryable(ops[i])
        /\ policy.attempts # 0 => attempt <= policy.attempts
    BY OpAppends
  <1>2. Retryable(e) /\ (policy.attempts # 0 => attempt < policy.attempts)
    BY <1>1 DEF GivesUp, RetryInv, TypeOK, Retryable
  <1>3. Counting'
    BY <1>1, <1>2 DEF RetryInv, TypeOK, Counting
  <1>4. Retried'
    BY <1>1, <1>2 DEF Retried, Retryable, RetryInv, TypeOK, Counting
  <1>5. Outcome'
    BY DEF Outcome, RetryInv
  <1>6. PICK r \in RateLimitDurations(e) :
          \/ r # 0 /\ wake' = now + r /\ asked' = now + e.wait /\ UNCHANGED sleeps
          \/ /\ r = 0
             /\ \E d \in IntervalNext(policy.interval, attempt) :
                   wake' = now + d /\ sleeps' = Append(sleeps, d)
             /\ asked' = now
    OBVIOUS
  <1>7. r \in Duration /\ (e.wait <= MaxDuration => r = e.wait)
    <2>1. e.wait <= MaxDuration => e.wait \in Duration
      BY DEF Duration
    <2> QED BY <1>6, <2>1, DurationsType DEF RateLimitDurations, Durations
  <1>8. CASE r # 0
    <2>1. /\ wake' = now + r /\ asked' = now + e.wait /\ UNCHANGED sleeps
      BY <1>6, <1>8
    <2>2. wake' \in -(MaxDuration + 1)..(MaxTime + MaxDuration) /\ asked' \in Nat
      BY <1>7, <2>1 DEF Duration, RetryInv, TypeOK
    <2>3. TypeOK'
      BY <1>1, <2>1, <2>2 DEF RetryInv, TypeOK
    <2>4. Timed'
      BY <1>1, <1>7, <2>1 DEF Timed, RetryInv, TypeOK
    <2>5. SleepsInBounds'
      BY <2>1 DEF SleepsInBounds, RetryInv
    <2> QED BY <1>3, <1>4, <1>5, <2>3, <2>4, <2>5 DEF RetryInv
  <1>9. CASE r = 0
    <2>1. PICK d \in IntervalNext(policy.interval, attempt) :
            wake' = now + d /\ sleeps' = Append(sleeps, d)
      BY <1>6, <1>9
    <2>2. asked' = now
      BY <1>6, <1>9
    <2>3. d \in Duration /\ d \in Int
      <3>1. policy \in Policies
        BY DEF RetryInv, TypeOK
      <3>2. d \in Duration
        BY <2>1, <3>1, IntervalNextType
      <3> QED BY <3>2 DEF Duration
    <2>4. wake' \in -(MaxDuration + 1)..(MaxTime + MaxDuration) /\ asked' \in Nat
      BY <2>1, <2>2, <2>3 DEF Duration, RetryInv, TypeOK
    <2>5. /\ sleeps' \in Seq(Int)
          /\ Len(sleeps') = Len(sleeps) + 1 /\ Len(sleeps) \in Nat
          /\ \A i \in 1..Len(sleeps) : sleeps'[i] = sleeps[i]
          /\ sleeps'[Len(sleeps) + 1] = d
      BY <2>1, <2>3, AppendFacts DEF RetryInv, TypeOK
    <2>6. TypeOK'
      BY <1>1, <2>4, <2>5 DEF RetryInv, TypeOK
    <2>7. Timed'
      BY <2>2 DEF Timed, RetryInv, TypeOK
    <2>8. policy.interval \in BackOffs =>
             d \in policy.interval.min..policy.interval.max
      BY BackOffNextBounds DEF IntervalNext
    <2>9. SleepsInBounds'
      <3> SUFFICES ASSUME policy.interval \in BackOffs, NEW i \in 1..Len(sleeps')
                   PROVE  sleeps'[i] \in policy.interval.min..policy.interval.max
        BY DEF SleepsInBounds
      <3>1. CASE i \in 1..Len(sleeps)
        BY <2>5, <3>1 DEF RetryInv, SleepsInBounds
      <3>2. CASE i = Len(sleeps) + 1
        BY <2>5, <2>8, <3>2
      <3> QED BY <2>5, <3>1, <3>2
    <2> QED BY <1>3, <1>4, <1>5, <2>6, <2>7, <2>9 DEF RetryInv
  <1> QED BY <1>8, <1>9

\* Every step of On, of its caller and of the clock keeps the invariant.
LEMMA RetryStep == RetryInv /\ [Next]_vars => RetryInv'
  <1> SUFFICES ASSUME RetryInv, [Next]_vars PROVE RetryInv'
    OBVIOUS
  <1> USE DEF RetryInv
  <1>1. CASE TopCancelled \/ SleepCancelled
    <2>1. /\ pc \in {"top", "sleep"} /\ cancelled /\ pc' = "returned" /\ result' = "ctx"
          /\ UNCHANGED <<policy, attempt, cancelled, now, wake, asked, sleeps, ops>>
      BY <1>1 DEF TopCancelled, SleepCancelled
    <2> QED BY <2>1 DEF TypeOK, Counting, Retried, Retryable, Outcome, Timed,
                        SleepsInBounds
  <1>2. CASE StartOp
    BY <1>2 DEF StartOp, TypeOK, Counting, Retried, Retryable, Outcome, Timed,
                SleepsInBounds
  <1>3. CASE SleepDone
    <2>1. Timed'
      BY <1>3 DEF SleepDone, TypeOK, Timed
    <2>2. TypeOK' /\ Counting' /\ Retried' /\ Outcome' /\ SleepsInBounds'
      BY <1>3, RetryConstants
      DEF SleepDone, TypeOK, Counting, Retried, Retryable, Outcome, SleepsInBounds
    <2> QED BY <2>1, <2>2
  <1>4. CASE OpReturns
    BY <1>4, OpSucceedsStep, OpFailsForGoodStep, OpFailsAndSleepsStep DEF OpReturns
  <1>5. CASE Cancel
    BY <1>5 DEF Cancel, TypeOK, Counting, Retried, Retryable, Outcome, Timed,
                SleepsInBounds
  <1>6. CASE Tick
    <2>1. TypeOK' /\ Timed'
      BY <1>6, RetryConstants DEF Tick, TypeOK, Timed
    <2>2. Counting' /\ Retried' /\ Outcome' /\ SleepsInBounds'
      BY <1>6 DEF Tick, Counting, Retried, Retryable, Outcome, SleepsInBounds
    <2> QED BY <2>1, <2>2
  <1>7. CASE Returned \/ UNCHANGED vars
    BY <1>7 DEF Returned, vars, TypeOK, Counting, Retried, Retryable, Outcome,
                Timed, SleepsInBounds
  <1> QED BY <1>1, <1>2, <1>3, <1>4, <1>5, <1>6, <1>7 DEF Next, OnStep

\* RetryInv is an invariant of On.
THEOREM RetryInvariance == Spec => []RetryInv
  BY RetryInit, RetryStep, PTL DEF Spec

-----------------------------------------------------------------------------
(* What On promises.                                                       *)

\* The invariant counts the attempts and classifies their errors.
LEMMA RetryInvExact == RetryInv => AttemptsExact
  <1> SUFFICES ASSUME RetryInv PROVE AttemptsExact
    OBVIOUS
  <1> USE RetryConstants DEF RetryInv
  <1>1. AttemptLimit
    BY DEF AttemptLimit, Counting, Outcome
  <1>2. OnlyRetryable
    <2> SUFFICES ASSUME NEW i \in 1..(Len(ops) - 1)
                 PROVE  /\ ops[i] # Ok
                        /\ (policy.onCodes # << >> \/ policy.onInfraCodes # << >>) =>
                             \E k \in DOMAIN (IF ops[i].infra THEN policy.onInfraCodes
                                                              ELSE policy.onCodes) :
                                ops[i].code \in (IF ops[i].infra THEN policy.onInfraCodes
                                                                 ELSE policy.onCodes)[k]
      BY DEF OnlyRetryable
    <2>1. ops[i] \in Errors /\ ShouldRetry(ops[i], policy)
      BY DEF Retried, Retryable
    <2>2. /\ policy.onCodes # << >> => 1 \in DOMAIN policy.onCodes
          /\ policy.onInfraCodes # << >> => 1 \in DOMAIN policy.onInfraCodes
      BY DEF TypeOK
    <2> QED BY <2>1, <2>2 DEF ShouldRetry
  <1>3. ResultIsLast
    <2>1. Len(ops) \in Nat /\ (Len(ops) >= 1 => ops # << >>)
      BY DEF TypeOK
    <2>2. ASSUME ops # << >>, ops[Len(ops)] = Ok PROVE result = "nil"
      <3>1. Len(ops) \in 1..Len(ops)
        BY <2>2 DEF TypeOK
      <3>2. ops[Len(ops)] \notin Errors
        BY <2>2
      <3> QED BY <3>1, <3>2 DEF Retried, Retryable, Outcome, TypeOK
    <2> QED BY <2>1, <2>2 DEF ResultIsLast, Outcome
  <1> QED BY <1>1, <1>2, <1>3 DEF AttemptsExact

\* On makes no attempt beyond the policy's limit, tries again only after an
\* error the policy lists, stops early only for an error it does not list, and
\* returns the last attempt's result or the context's error.
THEOREM AttemptsAreExact == Spec => []AttemptsExact
  BY RetryInvariance, RetryInvExact, PTL

\* No sleep taken from a BackOff leaves the bounds Min and Max.
THEOREM SleepsBounded == Spec => []SleepsInBounds
  BY RetryInvariance, PTL DEF RetryInv

\* On starts no attempt once the context is cancelled.
THEOREM CancelStopsAttempts == Spec => NoAttemptAfterCancel
  <1>1. [Next]_vars => [cancelled => ~(pc # "op" /\ pc' = "op")]_vars
    BY DEF Next, OnStep, TopCancelled, StartOp, SleepCancelled, SleepDone, OpReturns,
           OpSucceeds, OpFailsForGood, OpFailsAndSleeps, Cancel, Tick, Returned, vars
  <1> QED BY <1>1, PTL DEF Spec, NoAttemptAfterCancel

\* On starts no attempt before the time the server asked for.
THEOREM ServerDelayKept == Spec => ServerDelayRespected
  <1> DEFINE Respects == [(pc = "top" /\ pc' = "op" /\ ops # << >>
                            /\ ops[Len(ops)].wait <= MaxDuration) => now >= asked]_vars
  <1>1. RetryInv => [Respects]_vars
    BY DEF RetryInv, Timed, TypeOK
  <1> QED BY <1>1, RetryInvariance, PTL DEF ServerDelayRespected
=============================================================================
