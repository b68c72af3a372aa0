------------------------------ MODULE Backoff ------------------------------
(***************************************************************************)
(* internal/forward/backoff.go and the retry loop of deliver in            *)
(* forward.go, against the clock: how long one payload can be retried.     *)
(*                                                                         *)
(* Time is counted in ticks since newBackoff.  A time.Duration is a signed *)
(* integer whose largest value is MaxDuration; sums and products of        *)
(* durations wrap as the code's int64 does, and time.Time.Sub saturates.   *)
(* A Retry-After header is a record of its form and its number.            *)
(***************************************************************************)
EXTENDS Integers

CONSTANTS
    MaxDuration,     \* the largest time.Duration
    SecondTicks,     \* time.Second, in ticks
    InitialInterval, \* Config.RetryInitialInterval
    MaxInterval,     \* Config.RetryMaxInterval
    MaxElapsed,      \* Config.RetryMaxElapsedTime
    RequestTimeout,  \* Config.RequestTimeout
    MaxLag,          \* bound: how late a timer or the scheduler may be
    Headers          \* the Retry-After headers the backend may send

ASSUME DurationsAssumption ==
    /\ MaxDuration \in Nat /\ SecondTicks \in Nat \ {0}
    /\ InitialInterval \in Nat \ {0} /\ MaxInterval \in Nat \ {0}
    /\ MaxElapsed \in Nat \ {0} /\ RequestTimeout \in Nat \ {0}
    /\ MaxLag \in Nat
    /\ 2 * MaxInterval + MaxElapsed <= MaxDuration

ASSUME HeadersAssumption ==
    Headers \subseteq [form : {"none", "seconds", "date"}, n : Int]

VARIABLES
    time,      \* time since newBackoff
    interval,  \* backoff.interval
    hint,      \* what parseRetryAfter made of the last answer
    wait,      \* the wait next returned
    phase,     \* where deliver stands
    begun      \* history: when the last attempt began

retryVars == <<time, interval, hint, wait, phase, begun>>

Smaller(a, b) == IF a < b THEN a ELSE b
Larger(a, b) == IF a > b THEN a ELSE b

\* int64 arithmetic: a sum of two durations, and a product.
Add(a, b) ==
    IF a + b > MaxDuration THEN a + b - 2 * (MaxDuration + 1) ELSE a + b
Mul(a, b) ==
    ((a * b + MaxDuration + 1) % (2 * (MaxDuration + 1))) - (MaxDuration + 1)

\* Delay seconds are multiplied by time.Second; a date is subtracted from
\* the time now, which saturates; anything else, or anything past, is 0.
ParseRetryAfter(h) ==
    CASE h.form = "seconds" -> IF h.n <= 0 THEN 0 ELSE Mul(h.n, SecondTicks)
      [] h.form = "date"    -> Larger(0, Smaller(h.n, MaxDuration))
      [] OTHER              -> 0

\* interval * [0.5, 1.5), truncated to a duration.
Jittered(d) == (d \div 2) .. Larger(d \div 2, ((3 * d + 1) \div 2) - 1)

\* interval * 1.5, truncated, capped.
Grown(d) == Smaller((3 * d) \div 2, MaxInterval)

RetryInit ==
    /\ time = 0
    /\ interval = Smaller(InitialInterval, MaxInterval)
    /\ hint = 0
    /\ wait = 0
    /\ phase = "attempting"
    /\ begun = 0

\* An attempt ends for good: delivered, or failed permanently.
AttemptEnds ==
    /\ phase = "attempting"
    /\ phase' = "done"
    /\ \E d \in 1..RequestTimeout : time' = time + d
    /\ UNCHANGED <<interval, hint, wait, begun>>

\* An attempt fails with a retryable status and perhaps a header, or with
\* no answer at all, within Config.RequestTimeout.
AttemptFails ==
    /\ phase = "attempting"
    /\ phase' = "failed"
    /\ \E d \in 1..RequestTimeout : time' = time + d
    /\ \E h \in Headers : hint' = ParseRetryAfter(h)
    /\ UNCHANGED <<interval, wait, begun>>

\* time.Since(b.start), which saturates.
Elapsed == Smaller(time, MaxDuration)

\* Mutant: a payload whose budget is spent starts over with a new backoff.
ExhaustedRestarts ==
    /\ phase = "failed"
    /\ Elapsed >= MaxElapsed
    /\ phase' = "attempting"
    /\ time' = 0 /\ begun' = 0
    /\ interval' = Smaller(InitialInterval, MaxInterval)
    /\ UNCHANGED <<hint, wait>>

\* next reports that the budget is spent.
Exhausted ==
    /\ phase = "failed"
    /\ Elapsed >= MaxElapsed
    /\ phase' = "done"
    /\ UNCHANGED <<time, interval, hint, wait, begun>>

\* Mutant: a wait that ignores what was elapsed.
ClippedToBudget(w) == Smaller(w, MaxElapsed)

\* The final wait is cut so that the budget is spent exactly.
Clipped(w) ==
    IF Add(Elapsed, w) > MaxElapsed THEN MaxElapsed - Elapsed ELSE w

AtLeastHint(j) == Larger(hint, j)

NextWait ==
    /\ phase = "failed"
    /\ Elapsed < MaxElapsed
    /\ \E j \in Jittered(interval) : wait' = Clipped(AtLeastHint(j))
    /\ interval' = Grown(interval)
    /\ phase' = "waiting"
    /\ UNCHANGED <<time, hint, begun>>

\* time.After fires, never early.
TimerFires ==
    /\ phase = "waiting"
    /\ \E lag \in 0..MaxLag : time' = time + wait + lag
    /\ begun' = time'
    /\ phase' = "attempting"
    /\ UNCHANGED <<interval, hint, wait>>

Done == phase = "done" /\ UNCHANGED retryVars

RetryNext == AttemptEnds \/ AttemptFails \/ Exhausted \/ NextWait \/ TimerFires \/ Done

\* Attempts time out and timers fire.
RetrySpec == RetryInit /\ [][RetryNext]_retryVars /\ WF_retryVars(RetryNext)

-----------------------------------------------------------------------------
(* Properties.                                                             *)

\* Type invariant.
TypeOK ==
    /\ time \in Nat /\ begun \in Nat
    /\ interval \in 0..MaxInterval
    /\ hint \in Int /\ wait \in Int
    /\ phase \in {"attempting", "failed", "waiting", "done"}

\* The comment on next: "the budget is spent exactly at maxElapsed, not past
\* it".  No attempt begins after the budget, give or take a late timer, so
\* one payload holds its shard's worker for at most the budget and one
\* request.
WithinBudget ==
    /\ begun <= MaxElapsed + MaxLag
    /\ time <= MaxElapsed + MaxLag + RequestTimeout

\* A payload's retries come to an end.
RetriesEnd == <>(phase = "done")
=============================================================================
