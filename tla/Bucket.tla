------------------------------- MODULE Bucket -------------------------------
(***************************************************************************)
(* The token bucket of one client (internal/ratelimit/limiter.go): allow   *)
(* reads the time under the limiter's lock, reserves a token after the     *)
(* unlock and, if it would have to wait for the token, cancels the         *)
(* reservation and answers 429 with the wait as Retry-After.  Requests of  *)
(* one client run side by side, so times reach the bucket out of order and *)
(* a reservation may be made between another one and its cancellation.     *)
(* RateLimiter says which bucket a request draws on.                       *)
(*                                                                         *)
(* ReserveN and CancelAt are golang.org/x/time/rate's, each under the      *)
(* bucket's own lock.  Tokens are counted in ticks: one token is the       *)
(* PerToken ticks it takes to refill.                                      *)
(***************************************************************************)
EXTENDS Integers, FiniteSets

CONSTANTS
    Requests,  \* the requests of the client
    Burst,     \* Limiter.burst, at least 1 (resolveRateLimit)
    PerToken,  \* the ticks between two tokens, from Limiter.rate
    Second,    \* the ticks of a second
    MaxTime    \* bound: the last instant

ASSUME BucketAssumption ==
    /\ {Burst, PerToken, Second} \subseteq Nat \ {0}
    /\ MaxTime \in Nat

VARIABLES
    clock,      \* time.Now
    tokens,     \* rate.Limiter.tokens
    last,       \* rate.Limiter.last
    lastEvent,  \* rate.Limiter.lastEvent
    at,         \* where each request stands
    now,        \* the time each request read under the lock
    act,        \* the time its reservation may act
    told,       \* its Retry-After header
    disorder,   \* history: whether a call turned the bucket's time back
    overlap,    \* history: whether two requests were ever in allow at once
    spoiled     \* history: refused requests followed by an admitted draw

bucketVars == <<tokens, last, lastEvent>>
vars == <<clock, bucketVars, at, now, act, told, disorder, overlap, spoiled>>

Lesser(a, b) == IF a < b THEN a ELSE b

Init ==
    /\ clock = 0
    /\ tokens = Burst * PerToken
    /\ last = 0 /\ lastEvent = 0
    /\ at = [r \in Requests |-> "idle"]
    /\ now = [r \in Requests |-> 0]
    /\ act = [r \in Requests |-> 0]
    /\ told = [r \in Requests |-> 0]
    /\ disorder = FALSE /\ overlap = FALSE /\ spoiled = {}

-----------------------------------------------------------------------------
(* golang.org/x/time/rate.                                                 *)

\* The tokens at time t.  An earlier time than the last one adds nothing.
Advance(t) ==
    Lesser(Burst * PerToken, tokens + t - Lesser(last, t))

\* The wait for one more token at time t.
Wait(t) == LET left == Advance(t) - PerToken IN IF left < 0 THEN -left ELSE 0

\* The bucket's time becomes t, even when t is earlier.
ReserveN(t) ==
    /\ tokens' = Advance(t) - PerToken
    /\ last' = t
    /\ lastEvent' = t + Wait(t)
    /\ disorder' = (disorder \/ t < last)

\* Tokens reserved after the cancelled reservation are not given back.
CancelAt(t, due) ==
    LET restore == PerToken - (lastEvent - due)
        previous == due - PerToken
    IN IF restore <= 0
       THEN UNCHANGED <<bucketVars, disorder>>
       ELSE /\ tokens' = Lesser(Burst * PerToken, Advance(t) + restore)
            /\ last' = t
            /\ lastEvent' = IF due = lastEvent /\ previous >= t THEN previous ELSE lastEvent
            /\ disorder' = (disorder \/ t < last)

-----------------------------------------------------------------------------
(* Limiter.allow and Middleware.                                           *)

InAllow == {r \in Requests : at[r] \in {"draws", "cancels"}}

\* The time is read under the limiter's lock.
Take(r) ==
    /\ at[r] = "idle"
    /\ at' = [at EXCEPT ![r] = "draws"]
    /\ now' = [now EXCEPT ![r] = clock]
    /\ overlap' = (overlap \/ InAllow # {})
    /\ UNCHANGED <<clock, bucketVars, act, told, disorder, spoiled>>

\* Mutant: a wait of one token is let through.
RefusedLater(delay) == delay > PerToken

Refused(delay) == delay > 0

\* ReserveN and DelayFrom, after the unlock.
Draw(r) ==
    /\ at[r] = "draws"
    /\ ReserveN(now[r])
    /\ act' = [act EXCEPT ![r] = now[r] + Wait(now[r])]
    /\ LET refused == Refused(Wait(now[r])) IN
        /\ at' = [at EXCEPT ![r] = IF refused THEN "cancels" ELSE "allowed"]
        /\ spoiled' = IF refused THEN spoiled
                      ELSE spoiled \cup {q \in Requests : at[q] \in {"cancels", "limited"}}
    /\ UNCHANGED <<clock, now, told, overlap>>

\* Mutant: the seconds are cut, not rounded up.
RetryAfterSecondsCut(d) == IF d \div Second < 1 THEN 1 ELSE d \div Second

\* Rounded up, with a floor of one.
RetryAfterSeconds(d) ==
    LET secs == (d + Second - 1) \div Second IN IF secs < 1 THEN 1 ELSE secs

\* CancelAt, and the answer 429 with its header.
Refuse(r) ==
    /\ at[r] = "cancels"
    /\ CancelAt(now[r], act[r])
    /\ told' = [told EXCEPT ![r] = RetryAfterSeconds(act[r] - now[r])]
    /\ at' = [at EXCEPT ![r] = "limited"]
    /\ UNCHANGED <<clock, now, act, overlap, spoiled>>

TimePasses ==
    /\ clock < MaxTime
    /\ clock' = clock + 1
    /\ UNCHANGED <<bucketVars, at, now, act, told, disorder, overlap, spoiled>>

Terminated ==
    /\ clock = MaxTime
    /\ \A r \in Requests : at[r] \in {"allowed", "limited"}
    /\ UNCHANGED vars

Next ==
    \/ \E r \in Requests : Take(r) \/ Draw(r) \/ Refuse(r)
    \/ TimePasses \/ Terminated

Spec == Init /\ [][Next]_vars

-----------------------------------------------------------------------------
(* Properties.                                                             *)

Allowed == {r \in Requests : at[r] = "allowed"}

\* The client is admitted at most the burst and what was refilled since, as
\* New promises, however its requests overlap, as long as no request reaches
\* the bucket with a time before another's.  With such a time the refill
\* between the two is granted again, and a later cancellation may give back
\* more than was reserved.
RateHeld ==
    ~ disorder => PerToken * Cardinality(Allowed) <= Burst * PerToken + clock

\* The bucket has a token for a request made when the Retry-After of r has
\* passed, unless another request was admitted since r drew.
HintHolds(r) ==
    at[r] = "limited" /\ r \notin spoiled /\ clock >= now[r] + told[r] * Second
        => Advance(clock) >= PerToken

\* "Retry-After header saying how many seconds until the client's bucket has
\* a token again" (Middleware): a refused request costs nothing, and its
\* Retry-After is enough, as long as the requests come one after the other.
\* When they overlap it need not be: two refused requests may cancel in the
\* order they reserved, the first then gives nothing back, and the bucket
\* stays in debt for it.
HintEnough == ~ overlap /\ InAllow = {} => \A r \in Requests : HintHolds(r)
=============================================================================
