# Verification of otherlode-collector

TLA+ modules for the whole collector: start-up and configuration, the
request path from the rate limiter through the processors to the forwarding
sink, the retries, the token files, the metrics, and the process that
composes them and shuts them down. TLC checks them on small instances; TLAPS
proves the safety properties of all of them for every value of the constants. `PROJECT.json` maps each
definition to the source lines it stands for.

## The system

Agents post protobuf payloads. A request passes the rate limiter, the
bearer-token check and the ingest handler, which decodes and validates the
payload and hands it to a sink, through processors that rewrite it. The
forwarding sink queues it and answers at once; a worker relays it to the
backend later.

| Component | State | Operations | Hard parts | Module |
|---|---|---|---|---|
| `internal/forward/forward.go` ForwardingSink | per-shard queue, byte count, worker; `closed`, `stopping`, `ctx` | Accept*, runShard, deliver, drain, Shutdown | callers, workers and Shutdown interleave; lost replies; a deadline | Forwarder, Relay |
| `internal/forward/backoff.go` | interval, start | next, parseRetryAfter | clip, jitter, int64 durations | Backoff |
| `ingest/handler.go` | decode slots | handle, acquire, release | slot leaks, timeouts, departing clients | Ingest |
| `internal/tokenfile`, `internal/auth`, forwardKey in `main.go` | last good tokens, failing flag, published list | Open, Watch, reload, Store, Matches, Token | file changes under the reader, publication under load | TokenFile |
| `internal/ratelimit` | LRU of buckets | allow, evictStaleLoop, clientIP | bucket used after unlock, late ticks, times out of order, spellings of an address | RateLimiter, Bucket, ClientKey |
| `internal/processor`, validation | none | validate, redact, stamp | open enums, blank against empty, order of the chain | Processors, Service |
| `main.go` lifecycle, LogSink | signal context, one deadline | serve, srv.Shutdown, fwd.Shutdown, exit | requests still running when the sink closes, listener failure, a second signal | Collector |
| `main.go` settings, `routes.go`, `healthcheck.go` | what was resolved | resolve*, registerRoutes, healthcheck | a control left off, a file not watched, two processes that must agree on an address | Settings, Startup, Service |
| `metrics` | registry, series | Add, get, Render | additions during a scrape, new series met twice | Metrics |

What makes each correct:

- **Sink**: a payload answered 202 is counted exactly once, as delivered or
  as dropped; one instance's payloads keep their order; Shutdown leaves
  nothing behind; a shard's memory is bounded; a stuck shard stays alone.
- **Backoff**: retries end, and within the budget.
- **Ingest**: slots are neither leaked nor over-granted; the answer is 202
  exactly when the sink has the payload; every request ends.
- **Rate limiter**: the map and the list agree and stay within the cap;
  idle clients go first; a fresh bucket takes an eviction; a sender has one
  bucket, its rate holds, and Retry-After is enough.
- **Token files**: a broken file never takes usable tokens away; requests
  see whole lists; a file caught half-written is put right by the next
  re-read; a usable file is applied in the end.
- **Process**: the answer an agent gets is what the sink did, through every
  shutdown that is let finish; exit code 0 means nobody was cut off; a signal ends the process.
- **Start-up**: what serves has exactly the controls on that were asked for,
  and its health check finds it.
- **Processors**: nothing blocked leaves; a service instance has one shard;
  every rewrite is counted.
- **Metrics**: no increment is lost; scrapes never go back.

## Modules

- `Relay`: what a forwarding sink promises, as lanes of payloads: FIFO,
  one outcome each, nothing taken after the close, stop only when empty.
- `Forwarder`: ForwardingSink. `call[p]` is the program point of payload
  p's Accept call, `wpc[s]` of shard s's worker, `sd` of Shutdown. Every
  step at which another goroutine may intervene is an action: the read
  lock with the check of `closed`, `reserve`, the queue send, the back-out,
  each `select`, the begin and the end of an HTTP attempt, `release`, and
  the steps of Shutdown. Go's RWMutex keeps new readers out while a writer
  waits (`sd = "locking"`). The retry budget is a number of waits
  (`MaxRetries`) plus the right to be exhausted at any failure, because a
  slow attempt alone can spend wall-clock time. `accepted`, `ended`,
  `outcome`, `reached` and `late` are history. The backend may process a
  request without the worker learning of it. `InstanceRelay` and
  `ShardRelay` are the refinement mappings.
- `Backoff`: one payload's retries against a clock, with sums and products
  that wrap at `MaxDuration` and a `Sub` that saturates.
- `Ingest`: one handler goroutine per request; `Fault[r]` is the first
  thing wrong with the request. The sink takes or refuses.
- `TokenFile`: the watching goroutine, the file behind the path and behind
  the open handle, the lines read so far, the published list, and requests
  that load it. A read takes the file line by line, so a rewrite in place
  may give it lines of two states. `target` says whether the file holds the
  ingest tokens or the backend key.
- `ClientKey`: clientIP, normalizeIP, lastHeaderValue and stripPort as
  operators on texts. A text is an address with the marks of its spelling
  (port, brackets, zone, mapped into IPv6), and each operator does to the
  marks what the code does to the text: SplitHostPort takes brackets off only
  together with a port, and ParseAddr reads neither.
- `RateLimiter` extends it: the visitors map and the list under the lock,
  the sweep, and requests between unlock and draw. What leaves the list and
  what is deleted from the map are separate effects. A request arrives in any
  spelling of its address, straight or through a proxy, with header entries
  somebody made up, and is given a key by `ClientIP`. `brackets` says whether
  the proxy writes IPv6 addresses in brackets without a port; one that does
  writes all of them so, and IPv4 addresses without.
- `Bucket`: one client's bucket and its requests between the lock, ReserveN
  and CancelAt. The arithmetic is golang.org/x/time/rate's and marked
  external; tokens are counted in ticks of refill.
- `Collector`: `Ingest` and `Forwarder` as instances over the same payloads,
  with connections, the signal, the listener's failure, the ten seconds both
  Shutdown calls share (`expired`), and the exit code. After the signal `stop()`
  gives signals their default effect back: `SecondSignal` kills the process at
  any point of the shutdown (`code = Killed`). `Accept` of a handler
  is the Accept call of the sink; without `forwarding` the sink is LogSink.
- `Settings`: every resolver of `main.go` as an operator from the kinds of
  raw value it tells apart to a setting or `Failed`; the variable `cfg` is
  what was resolved. The hosts, the ports and the texts, and which texts are
  dot segments or not UTF-8, are constants; so are the hosts that read as an
  unspecified address and the number each port text resolves to
  (`LookupPort`).
- `Startup`: main calling them in order, registerRoutes with the middleware
  of each route, the watchers, the listener, and the healthcheck command run
  beside it. CLIENT_IP_HEADER is one of the controls. `Listen` fails or binds
  a host and a port, the kernel's choice for port 0. `Reached` says which
  dials reach the listener: the same host and port, or the IPv4 loopback where
  the listener has an unspecified address; a dial of an unspecified address is
  left open, since it differs by platform. An IPv6 wildcard is taken to accept
  IPv4 too, as Go's listeners do where the platform lets them, and a collector
  that serves to answer within `healthcheckTimeout`. `EnvTexts` are the texts
  the stamp variables may hold.
- `Processors`: one payload through validation, Redaction, Namespace and
  Environment to instanceOf, under the settings in `cfg`. A payload has a part
  at each of the `Positions` and fields unknown to the collector at some of
  the `Messages`; the walk of redaction.go is abstracted to which kinds of
  field it follows (single message, list, map), which are all the schema has,
  so that it reaches every message of a payload. The texts, and which of them a blocked pattern matches, are
  constants. `RedactedText` is one of the texts an agent may send.
- `Service` composes the two: the payload goes through the processors that
  the start-up wired.
- `Metrics`: calls of Add, scrapes that lock one counter at a time, and
  clients that read the answer or not.
- `MC*` give the constants values; `*Proofs` hold the theorems.

Operators whose comment begins with "Mutant" are broken variants of the
definition that follows. No specification uses them; they show that each
property notices the fault they model.

## Runs

| Run | Checks | Instance | Distinct states |
|---|---|---|---|
| `forwarder_safety` | one outcome each, nothing left behind, byte account and bound, attempts after shutdown, refinement per instance, Shutdown returns | 1 shard, 2 instances, 3 payloads and one unencodable, queue 1, byte budget 3, sizes 1, 1, 2, one retry wait | 293,040 |
| `forwarder_isolation` | conservation and order, an idle shard accepts, refinement per shard, accepted payloads end though the other worker may stop anywhere | 2 shards, 3 payloads, queue 2, budget 3, sizes 1, 2 and 4 | 339,462 |
| `backoff_budget` | budget, termination | 8-bit durations, 4 ticks to a second, headers that fit | 5,085 |
| `ingest_slots` | slot account, one true answer, requests finish | 4 requests, one stuck in the sink, 1 slot or no cap | 52,266 |
| `tokenfile_rotation` | usable tokens, no mix, truthful reload, rotation applies | tokens and key, 4 and 5 file states of up to three lines, 2 requests, one without a Bearer header | 271,119 |
| `ratelimiter_lru` | map and list, one bucket per sender, who is evicted, complete sweeps | 3 senders, 2 of one IPv6 network, prefix 64 or one out of range, a proxy with or without brackets, cap 2, 4 requests, 2 made-up entries, 5 instants | 1,524,228 |
| `bucket_rate` | the rate, Retry-After is enough | 5 requests, burst 2, a token every 3 ticks, 2 ticks to a second, 7 instants | 1,219,337 |
| `collector_shutdown` | answers are what the sink did, clean exits, who meets a closed sink, the end after a signal | 2 payloads on 1 shard or LogSink, 1 decode slot, no retry wait | 813,572 |
| `service_payloads` | controls on as asked, the health check, keys, redaction, counting, one shard for a service | every kind of raw value of every variable, addresses on wildcards and on a host with named, unknown and kernel-picked ports; every resource, two parts, unknown fields, an agent that sends the redacted text itself (on payloads without unknown fields) | 353,599 |
| `metrics_scrape` | nothing lost, complete and monotone scrapes, nobody waits | 2 counters, 3 calls, 2 scrapes | 197,775 |
| `forwarder_dropped_never_reached` | expected violation | | |
| `backoff_overflow` | expected violation | | |

Why the bounds are enough: three payloads are one in the worker's hands and
two that race for the queue; a queue of one makes it full and a queue of two
makes order inside it matter; any two payloads fit the budget of the
first run and three do not, so they share the shard and `reserve` refuses,
and one payload of the second run is larger than the budget, so the
exemption for an empty shard happens; one retry wait suffices to have a payload waiting, failing again and
exhausted; two instances on one shard are what sharing means. Eight-bit
durations leave room for budget, hint and their overflow. One decode slot
and four requests give a holder, waiters, and requests that fail before and
after the slot. Three senders over a cap of two evict each other, and one
returns for a fresh bucket; two of them share an IPv6 network, so that they
are one client or two by the prefix set; two made-up entries (`MaxForged`)
put one before and one after another in a header, and five instants
(`MaxTime`) let a client go stale while another is used. The token lists
include a rotation that keeps one token, lists with a comment, and each kind
of failure; files of three, two and one line let one read take lines of all
three. Five requests
spend a burst of two and leave three to be refused side by side, and a token
takes neither a whole number of seconds nor one tick. `Collector` has two
requests, so that one is in the sink or its queue while the other is still
read, waits for the slot or meets the closed sink; retry waits are left to
`Forwarder`, whose runs have them. In `Service` the raw values are the
classes the code's own tests distinguish, so all of them are enumerated for
the start-up. In `MCService` payloads are then followed through collectors
whose other settings are ordinary ones (`Ordinary`; the processors do not read
them), and the settings of a processor vary where its part of the payload does
(`Telling`); `Service` itself, which the proofs are about, lets any payload
into any collector that serves. For the same reason `MCStart` tries addresses
and the header of the limiter without stamps: the two are resolved and used
apart. Two calls of Add on one new series and one on another are what a
scrape can get between.

### Disagreements found

Two of them are runs:

- `DroppedNeverReached` (`README.md:338`: "every increment is agent data
  that never reached the backend"): a lost reply makes the worker retry and
  perhaps drop what the backend has.
- `WithinBudget` under any header (`backoff.go:60`: "the budget is spent
  exactly at maxElapsed, not past it"): `elapsed+wait` is an int64 sum, and
  a Retry-After near the largest duration makes it negative, so the wait is
  not clipped.

Four more shaped a property or a definition:

- `forward.go:638` promises "one more delivery attempt instead of the full
  retry sequence". When stopping is closed while the retry timer or the queue
  is ready, `select` may take the latter, and the payload is attempted once
  as usual and once more as its final attempt. Two is the bound that holds,
  `AttemptsAfterShutdown`, and it is proved.
- `environment.go:63` says "A backend can then expect an environment on every
  payload". The stamp is for an empty environment, and one of spaces is not
  empty: under insert it is kept and counted as a mismatch, as
  `StampedEnvironment` and `EnvironmentDiffers` say. `Namespace.stamp` trims
  before it compares.
- `README.md:295` says of a prefix of 64 that it is there "to make every
  address in one `/64` share a bucket". stripPort leaves the brackets of an
  IPv6 address that has no port, ParseAddr refuses it, and normalizeIP keys it
  on itself. Behind a proxy that writes addresses so into its header, each has
  a bucket to itself whatever the prefix, as `SenderOf` says.
- `limiter.go:164` says "retryAfter is how long until the bucket next has a
  token". When two requests are refused side by side and cancel in the order
  they reserved, the first gives nothing back, because the second reserved
  after it. The bucket stays a token in debt and the first client is refused
  again after its Retry-After. `HintEnough` is stated, and holds, for
  requests one after the other.

Some behaviours are excepted in properties that hold only so far.
`AnswersKept` excepts two ways out that lose what the sink held: the exit
after a listener failure, and a second signal, which ends the process during
the shutdown because `stop()` (`main.go:175`) has restored its default effect.
`OneBucketPerSender` counts an IPv6 address in brackets without a port as a
sender by itself, as above. `ProbeSucceeds` says that the health check fails
for an address whose port is left to the kernel (`host:`, `host:0`), and only
there: the second process cannot know the port. `RateHeld` excepts times that
reach a bucket out of order: the refill between them is granted again. The
excess is the time between reading the clock and drawing, so a stalled
goroutine is needed to make it a whole token.

## Fairness

`Forwarder`: weak fairness of a call inside `enqueue` (it never blocks), of
the workers in `LiveShards` (an attempt ends by `RequestTimeout` and timers
fire) and of Shutdown's own steps. None for agents, for the backend, for the
start of a shutdown or for its deadline. `Backoff`: attempts time out and
timers fire. `Ingest`: handlers run, the server's read timeout ends a slow
body, the slot timer fires, and the sink answers all requests but `Stuck`.
`TokenFile`: the watcher runs and its ticker fires; nothing for the operator
or the requests. `Collector`: calls inside `enqueue`, the workers
where there are any, and main's own steps go on and the ten seconds pass;
nothing for bodies, agents, the backend, or the signal. `Metrics`: goroutines
run; nothing for the clients that read a scrape. `RateLimiter`, `Bucket` and
`Service` state safety only.

## Proofs

Eight modules hold the theorems. They assume what the constants' `ASSUME`s
say and nothing else: that sizes, caps and durations are numbers of the right
sign and that functions on payloads, requests or addresses have the right
type; that the requests of `Ingest` and the parts of a payload are finitely
many and its messages of the shapes the schema has; that the empty text is
one an agent and an operator can write, and is neither a dot segment nor bad
UTF-8; that the empty host is unspecified and the loopback is not, that port
texts resolve to numbers or fail and 4319 to itself, and that the kernel never
picks port 0; and that a registry is a list of different counters. One
assumption is not enforced by the code that resolves the settings: that
2 * MaxInterval + MaxElapsed of `Backoff` fits a duration
(`DurationsAssumption`). Only intervals and budgets of centuries break it. `ComponentsAssumption` hands the composition the assumptions of
its parts. Time has an end in the models that have a clock, but the theorems
hold for every end.

The sink, `ForwarderProofs`, for any payloads, instances, shards, sizes and
shard function:

- `TypeCorrect`: type correctness. `HeldOK` (a worker holds a payload from
  the take to the release) is proved with it, because `Finish` and `Release`
  index by the held payload.
- The inductive invariant `IInv` is the types, `Coherent` and `Conserved`.
  `Conserved` alone says that `accepted = ended \o in hand \o queue`; to
  conclude that nothing is left when Shutdown has returned one also needs
  that a worker exits with an empty queue and that no caller is past the
  lock by then, which is `Coherent`. `ConservedAlways`, `CoherentAlways` and
  `NothingLeftBehindAlways` follow.
- `AttemptsAfterShutdownAlways` strengthens the count by program point: how
  many late attempts are possible where the worker stands.
- `BytesBoundedAlways`: only `Reserve` raises the count, under its test.
- `CountedOnceAlways`: with `IInv`, the held payload is the element of
  `accepted` that follows `ended`, so it has no outcome yet.
- `BytesAccountedAlways`: the account is stated as the number of bytes in
  the charged payloads, so that adding a payload adds a disjoint set. It is
  inductive once no payload is charged twice (`ShardOnce`): not as a caller's
  and in the queue, not twice in the queue, not in the queue and in hand.
  `IdleShardAcceptsAlways` follows, since `reserve` lets anything into a shard
  whose count is zero.
- `ImplementsShardRelayAlways`: each step is a step of Relay or a stutter.
- `InstanceOrderAlways`: the same with a lane per service instance, the
  safety part of `ImplementsInstanceRelay`. A lane is what `Owned` selects
  from its shard's history. Appending a payload to a history appends it to
  one lane and to no other (`LaneAppend`), and selecting from a beginning of
  a history gives a beginning of the lane (`OwnedMonotone`), so the payload a
  worker holds, which follows `ended` in `accepted`, follows in its lane what
  has left it (`OwnedNext`).

The retries: `RetryAfterProofs!BudgetKept` proves `WithinBudget` under
`HintsFit`, the condition that no Retry-After overflows the sum;
`backoff_overflow` shows the condition is needed.

The handlers, `IngestProofs`: `SlotsAccountedAlways` and
`OneTrueAnswerAlways`. What a request was counted under decides its answer
and whether the sink has its payload (`AnswerInv`); before the step that ends
it there is neither count nor answer.

The process, `CollectorProofs`: a step of the process is a step of the sink
or leaves it alone, and the same for the handlers, so the invariants of the
two modules above hold inside it without being proved again
(`PartsKeepTheirPromises`). On top, `MainInv` says that the sink is open
until srv.Shutdown has returned, `ServedInv` that a running handler has an
open connection, and `LinkInv` that the sink's call and the handler's way
agree. `AnswersKeptAlways`, `CleanExitCutsNobodyAlways` and
`ClosedSinkOnlyPastDeadlineAlways` follow; a second signal touches nothing but
the process, so it is one more way to exit in each of them.

The token files, `TokenFileProofs`: `LiveUsableAlways`,
`ReloadTruthfulAlways` and `NeverAMixAlways`, for any file states of any
length. The invariant follows a list from the file to the requests: each line
read is at its place in a state of the file in the window, the list on its way
passed the check, the slice that Store fills is a part of it, and what is
published is what was last applied. The proof attempt found `Readings` too narrow
for files of three lines and more, which the instance did not have; the
definition and the instance were corrected.

The rate limiter, `RateLimiterProofs`: `MapMatchesList` is inductive once
nobody was last seen in the future, and with it the two action properties,
`IdleGoFirstAlways` and `SweepCompleteAlways`, are facts about single steps:
the list being sorted is what makes the early stop of the sweep and the
eviction at the back right. `OneBucketPerSenderAlways` needs two more facts.
`ArrivalKey`: every way a request can arrive, through a proxy and with any
made-up entries included, ends in the one key of its client. It rests on what
stripPort and normalizeIP make of each spelling (`ParsedKey`, and `BracketKey`
for the one that does not parse). `KeyOfOne`: no two clients share a key. `BucketInv`: as many buckets of a sender were made
as evicted, and one more while its key is in the map, where the latest is.

A client's bucket, `RetryAfterProofs`: `RateHeldAlways` needs the account (tokens
in the bucket and tokens drawn never exceed burst and refill) and that the
reservations waiting to be cancelled are a token apart, or a cancellation
could give back more than was taken. `HintEnoughAlways` needs what the one
request between its reservation and its cancellation owes.

The counters, `MetricsProofs`: `NothingLostAlways` needs that no two series
share a cell and that a caller's cell is still its series' after the unlock;
`ScrapeCompleteAlways` and `NeverBackwardsAlways` need what an unfinished
scrape has shown, and what it must still find in the counter whose lock it
holds.

The start-up and the processors, `ServiceProofs`, for any raw values, texts,
patterns and payloads: `OnExactlyAsAskedAlways`, `ProbeSucceedsAlways`,
`SinkCanKeyAlways`, `NothingBlockedLeavesAlways`, `RewritesAreCountedAlways`
and `OneServiceOneShardAlways`. `ServiceInv` says of every step of main which
settings are resolved by then, what the environment asked for so far and that
the two agree (`StartupInv`), so that a collector that serves has them all;
what the listener bound for the address in `cfg` (`BoundInv`), so that the
dial of the health check can be compared with it (`ProbeInv`);
and of every stage of a payload that it is what the processors before the
stage make of what was sent (`PayloadInv`), so that the four properties of
what reaches the sink are facts about the operators. Two of those facts were
wrong as first stated. The guards of two CASEs in `Settings` overlapped, which
leaves open what they return; they are disjoint now, in the order of the
code's tests. And `RewritesAreCounted` equated the count of redacted literals
with the replaced parts: redactParts counts a literal that already reads
`RedactedText` too, so the count lies between the parts that changed and the
parts that read as redacted, which is what is stated, checked with such a
payload in the instance, and proved.

Each inductive invariant was checked by TLC, on the instance of its run or one a
little smaller, before it was proved.

Induction over data: the induction theorems of the library take a predicate,
which the provers cannot be given. `NatMinimum` and `SetInduction` derive from
WFMin, whose argument is a set, that a non-empty set of numbers has a least
one and that a set closed under successor is Nat. With them one can say what
`Parse`, `Max` and `Owned` return. Sums are cardinalities of sets of units,
for the same reason.

Left to TLC:

- liveness: `ShutdownReturns`, `AcceptedEnds`, `RetriesEnd`,
  `RequestsFinish`, `RotationApplies`, `SignalEnds`, `NobodyWaitsForReaders`,
  and the fairness part of `ImplementsInstanceRelay`.

`TypeCorrect`, `CoherentAlways` and `PartsKeepTheirPromises` are proved and
not checked by a run of their own.

## Not modelled

- Encodings, HTTP details, logging and metric labels, except which counter a
  payload or request ends under. Counter.Value, which only tests call, and
  the escaping of help and label texts.
- validateURL and the HTTP client's settings: whether a forward URL is usable
  is an input.
- Hashing of tokens, taken as injective, and the time a comparison takes.
- A line of a token file cut in two by a rewrite is not told from any other
  token.
- Real time in Ingest and in Shutdown: timers and deadlines may come at any
  moment, so the slot wait may always be longer than the write deadline
  leaves.
- The rounding of fractions of tokens in floating point.

## What remains

Every safety property that a run checks is proved. Liveness stays with TLC:
the prover has no rules for fairness and ENABLED.
