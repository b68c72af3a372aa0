---------------------------- MODULE RateLimiter ----------------------------
(***************************************************************************)
(* internal/ratelimit/limiter.go: a token bucket per client, in a map and  *)
(* a list ordered by last use, both under one lock.  A request takes its   *)
(* client's bucket under the lock and draws on it after the unlock, when   *)
(* the client may have been evicted.  A background loop evicts clients     *)
(* that have been idle.                                                    *)
(*                                                                         *)
(* A bucket is its number; golang.org/x/time/rate, which does the counting *)
(* and the refill, answers yes or no (Bucket has its arithmetic).  A       *)
(* client is the key that ClientKey makes of its request: the model starts *)
(* from who sends a request, and lets the request arrive in every way that *)
(* sender's requests can, whatever the sender has put into the header and  *)
(* however the proxy writes addresses.                                     *)
(***************************************************************************)
EXTENDS Integers, Sequences, SequencesExt, Functions, ClientKey

CONSTANTS
    Requests,     \* the requests
    Address,      \* the address each request comes from
    Proxy,        \* the proxy's address, with its port
    PrefixBits,   \* the values WithIPv6Prefix may be given, 0 for none
    Forged,       \* the header entries a sender may make up
    MaxForged,    \* bound: the entries of one request that are made up
    MaxVisitors,  \* Limiter.maxVisitors
    StaleAfter,   \* Limiter.staleAfter
    MaxTime       \* bound: the last instant

ASSUME RateLimiterAssumption ==
    /\ Address \in [Requests -> Addresses]
    /\ PrefixBits \subseteq Nat
    /\ MaxForged \in Nat
    /\ MaxVisitors \in Nat \ {0}
    /\ StaleAfter \in Nat \ {0}
    /\ MaxTime \in Nat

VARIABLES
    header,    \* whether WithClientIPHeader names a header
    brackets,  \* whether the proxy writes IPv6 addresses in brackets, without
               \* a port
    bits,      \* the value given to WithIPv6Prefix
    clock,     \* time.Now
    visitors,  \* the map: a tracked client's bucket and lastSeen
    order,     \* the list: clients, the last used at the front
    tick,      \* the time in the ticker's channel, -1 for none
    stopped,   \* whether Stop has been called
    sweeping,  \* whether the background loop still runs
    at,        \* where each request stands
    bucket,    \* the bucket each request draws on
    made,      \* history: buckets made for each sender
    evicted    \* history: buckets of each sender that were evicted

options == <<header, brackets, bits>>
vars == <<options, clock, visitors, order, tick, stopped, sweeping, at,
          bucket, made, evicted>>

\* The header lines a sender may make up, and what a proxy makes of them: it
\* adds its entry to the line, or a line of its own.
MadeUp == UNION {[1..n -> Forged] : n \in 0..MaxForged}
Proxied(entry) ==
    UNION {{<<line \o <<entry>>>>, <<line, <<entry>>>>} : line \in MadeUp}

\* The requests whose address reaches the limiter in brackets alone.
InBrackets(trusted, bracketing, a) == trusted /\ bracketing /\ a.family = "v6"

\* The ways a request of address a arrives: straight, or through the proxy
\* that the header is trusted from.  IPv6 requests of a proxy that writes
\* brackets all come through it.
Arrivals(trusted, bracketing, a) ==
    LET texts == {Text(a, f) : f \in Forms(a)}
        Header(ts) == [remote : {Proxy}, lines : UNION {Proxied(t) : t \in ts}]
    IN CASE InBrackets(trusted, bracketing, a) -> Header({Bracketed(a)})
         [] trusted /\ ~ InBrackets(trusted, bracketing, a) ->
               [remote : texts, lines : {<<>>}] \cup Header(texts)
         [] ~ trusted -> [remote : texts, lines : {<<line>> : line \in MadeUp}]

\* The keys that the requests of an address may be given.
Keys ==
    [trusted \in BOOLEAN |-> [bracketing \in BOOLEAN |->
        [b \in PrefixBits |-> [a \in Range(Address) |->
            {ClientIP(trusted, b, m.remote, m.lines) : m \in Arrivals(trusted, bracketing, a)}]]]]
KeysOf(r) == Keys[header][brackets][bits][Address[r]]

\* Who has one bucket: an address, or the IPv6 network that the operator
\* chose to count as one client.  An IPv6 address in brackets alone is no
\* address to the code and has a bucket to itself, whatever the prefix.
SenderOf(r) ==
    LET whole == InBrackets(header, brackets, Address[r])
    IN [address |-> IF ~ whole /\ Address[r].family = "v6" /\ bits \in 1..127
                    THEN [Address[r] EXCEPT !.host = 0] ELSE Address[r],
        whole |-> whole]
Senders == {SenderOf(r) : r \in Requests}
NoBucket(r) == [owner |-> SenderOf(r), number |-> 0]

Init ==
    /\ header \in BOOLEAN
    /\ brackets \in (IF header THEN BOOLEAN ELSE {FALSE})
    /\ bits \in PrefixBits
    /\ clock = 0
    /\ visitors = << >>
    /\ order = << >>
    /\ tick = -1
    /\ stopped = FALSE
    /\ sweeping = TRUE
    /\ at = [r \in Requests |-> "idle"]
    /\ bucket = [r \in Requests |-> NoBucket(r)]
    /\ made = [s \in Senders |-> 0]
    /\ evicted = [s \in Senders |-> 0]

\* Clients out of the map, counted for the senders of their buckets.
Forget(gone) ==
    evicted' = [s \in Senders |->
        evicted[s] + Cardinality({k \in gone : visitors[k].bucket.owner = s})]

\* The request goes on to draw on its client's bucket.
Draws(r, k) ==
    /\ at' = [at EXCEPT ![r] = "draws"]
    /\ bucket' = [bucket EXCEPT ![r] = visitors'[k].bucket]
    /\ UNCHANGED <<options, clock, tick, stopped, sweeping>>

\* rate.NewLimiter makes a full bucket.
NewVisitor(r) ==
    [bucket |-> [owner |-> SenderOf(r), number |-> made[SenderOf(r)] + 1],
     lastSeen |-> clock]

MovedToFront(k) == <<k>> \o RemoveAt(order, CHOOSE i \in DOMAIN order : order[i] = k)

\* allow, under the lock, for a client the map knows.
AllowKnown(r, k) ==
    /\ k \in DOMAIN visitors
    /\ visitors' = [visitors EXCEPT ![k].lastSeen = clock]
    /\ order' = MovedToFront(k)
    /\ UNCHANGED <<made, evicted>>
    /\ Draws(r, k)

\* Mutant: what leaves the list stays in the map.
DroppedFromListOnly(list) == {}

\* The clients deleted from the map with the elements that leave the list.
Dropped(list) == ToSet(order) \ ToSet(list)

\* Mutant: the front of the list is evicted.
KeptBack ==
    IF Cardinality(DOMAIN visitors) >= MaxVisitors
    THEN SubSeq(order, Cardinality(DOMAIN visitors) - MaxVisitors + 2, Len(order))
    ELSE order

\* The loop counts the map and removes clients at the back of the list, until
\* there is room for one more.
Kept ==
    IF Cardinality(DOMAIN visitors) >= MaxVisitors
    THEN SubSeq(order, 1, Len(order) - (Cardinality(DOMAIN visitors) - MaxVisitors + 1))
    ELSE order

\* allow, under the lock, for a client the map does not know.
AllowNew(r, k) ==
    /\ k \notin DOMAIN visitors
    /\ order' = <<k>> \o Kept
    /\ visitors' = [v \in (DOMAIN visitors \ Dropped(Kept)) \cup {k} |->
          IF v = k THEN NewVisitor(r) ELSE visitors[v]]
    /\ made' = [made EXCEPT ![SenderOf(r)] = @ + 1]
    /\ Forget(Dropped(Kept))
    /\ Draws(r, k)

\* Middleware: the request's key, then allow.
Allow(r) ==
    /\ at[r] = "idle"
    /\ \E k \in KeysOf(r) : AllowKnown(r, k) \/ AllowNew(r, k)

\* The bucket's answer, after the unlock (golang.org/x/time/rate).
Drawn(r) ==
    /\ at[r] = "draws"
    /\ \E verdict \in {"allowed", "limited"} : at' = [at EXCEPT ![r] = verdict]
    /\ bucket' = [bucket EXCEPT ![r] = NoBucket(r)]
    /\ UNCHANGED <<options, clock, visitors, order, tick, stopped, sweeping,
                   made, evicted>>

\* Mutant: the sweep takes one client at a time.
FreshButOne(now) ==
    IF order # << >> /\ now - visitors[Last(order)].lastSeen > StaleAfter
    THEN Front(order) ELSE order

\* evictStaleLoop walks from the back and stops at the first client that
\* has not been idle for longer than staleAfter.
Fresh(now) ==
    LET recent == {i \in DOMAIN order : now - visitors[order[i]].lastSeen <= StaleAfter}
    IN SubSeq(order, 1, Max({0} \cup recent))

Sweep ==
    /\ sweeping
    /\ tick # -1
    /\ tick' = -1
    /\ order' = Fresh(tick)
    /\ visitors' = Restrict(visitors, DOMAIN visitors \ Dropped(order'))
    /\ Forget(Dropped(order'))
    /\ UNCHANGED <<options, clock, stopped, sweeping, at, bucket, made>>

\* The select may also see the closed stop channel.
SweepStops ==
    /\ sweeping /\ stopped
    /\ sweeping' = FALSE
    /\ UNCHANGED <<options, clock, visitors, order, tick, stopped, at, bucket, made, evicted>>

Stop ==
    /\ ~ stopped
    /\ stopped' = TRUE
    /\ UNCHANGED <<options, clock, visitors, order, tick, sweeping, at, bucket, made, evicted>>

\* Time passes.  The ticker's channel holds one time; a tick that finds it
\* full is lost.
TimePasses ==
    /\ clock < MaxTime
    /\ clock' = clock + 1
    /\ tick' = IF tick = -1 /\ clock' % StaleAfter = 0 THEN clock' ELSE tick
    /\ UNCHANGED <<options, visitors, order, stopped, sweeping, at, bucket, made, evicted>>

Terminated ==
    /\ clock = MaxTime /\ ~ sweeping
    /\ \A r \in Requests : at[r] \in {"allowed", "limited"}
    /\ UNCHANGED vars

Next ==
    \/ \E r \in Requests : Allow(r) \/ Drawn(r)
    \/ Sweep \/ SweepStops \/ Stop \/ TimePasses
    \/ Terminated

Spec == Init /\ [][Next]_vars

-----------------------------------------------------------------------------
(* Properties.                                                             *)

\* The map and the list hold the same clients, each once, and never more
\* than the cap, whatever order of requests and sweeps led here: neither
\* grows behind the other's back.  The list is ordered by lastSeen, which
\* the sweep's early stop and the eviction at the back both rely on.
MapMatchesList ==
    /\ DOMAIN visitors = ToSet(order)
    /\ IsInjective(order)
    /\ Len(order) <= MaxVisitors
    /\ \A i, j \in DOMAIN order :
        i < j => visitors[order[i]].lastSeen >= visitors[order[j]].lastSeen

\* One sender has one bucket, whether its address comes with a port, a zone
\* or mapped into IPv6, from the connection or from the proxy, and whatever
\* entries it put into the header itself: it gets a fresh, full bucket only
\* after its last one was evicted, draws on no other sender's bucket, and
\* draws on an older one of its own than the map's only if that was evicted
\* between the unlock and the draw.  IPv6 addresses that a proxy writes in
\* brackets without a port are the exception to the prefix: each is a sender
\* of its own (SenderOf).
OneBucketPerSender ==
    /\ \A s \in Senders : made[s] <= evicted[s] + 1
    /\ \A r \in Requests : at[r] = "draws" =>
        /\ bucket[r].owner = SenderOf(r)
        /\ \/ \E k \in DOMAIN visitors : visitors[k].bucket = bucket[r]
           \/ bucket[r].number <= evicted[SenderOf(r)]

\* Action property: a client that leaves the map was idle for longer than
\* staleAfter, or made room for a new one and was used no later than any
\* client that stays ("A flood of new keys pushes out idle clients first").
IdleGoFirst ==
    [][\A k \in DOMAIN visitors \ DOMAIN visitors' :
          \/ clock - visitors[k].lastSeen > StaleAfter
          \/ \A o \in DOMAIN visitors \cap DOMAIN visitors' :
                visitors[k].lastSeen <= visitors[o].lastSeen]_vars

\* Action property: a sweep at time t leaves no client that had been idle
\* for longer than staleAfter at t.
SweepComplete ==
    [][tick # -1 /\ tick' = -1 =>
          \A k \in DOMAIN visitors' :
              tick - visitors'[k].lastSeen <= StaleAfter]_vars
=============================================================================
