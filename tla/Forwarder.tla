----------------------------- MODULE Forwarder -----------------------------
(***************************************************************************)
(* internal/forward/forward.go: ForwardingSink.                            *)
(*                                                                         *)
(* Callers (the HTTP handler goroutines) put payloads on the bounded queue *)
(* of the shard that their service instance hashes to.  One worker per     *)
(* shard relays the shard's payloads to the backend, retrying within a     *)
(* budget.  Shutdown closes the sink to callers, stops the workers, and    *)
(* bounds their drain by a deadline.                                       *)
(*                                                                         *)
(* A payload is one Accept call's argument; its encoding is abstracted to  *)
(* its instance and its encoded size.  The retry budget, which the code    *)
(* measures in time (module Backoff), is abstracted to a number of retry   *)
(* waits that fit in it.                                                   *)
(***************************************************************************)
EXTENDS Integers, Sequences, FiniteSets

CONSTANTS
    Payloads,     \* the Accept calls' arguments
    Instances,    \* service instances (namespace, name, instance id), trimmed
    Shards,       \* the queue/worker pairs
    Owner,        \* instanceOf: the instance a payload names
    ShardIndex,   \* shardIndex over shardKey: any function will do
    Size,         \* the encoded body's length
    Unencodable,  \* the payloads proto.Marshal rejects
    QueueSize,    \* Config.QueueSize
    QueueBytes,   \* Config.QueueBytes
    MaxRetries,   \* bound: retry waits that fit in RetryMaxElapsedTime
    LiveShards,   \* the shards whose worker keeps running (fairness only)
    NoItem        \* not a payload

ASSUME ConstantsAssumption ==
    /\ Owner \in [Payloads -> Instances]
    /\ ShardIndex \in [Instances -> Shards]
    /\ Size \in [Payloads -> Nat \ {0}]
    /\ Unencodable \subseteq Payloads
    /\ LiveShards \subseteq Shards
    /\ NoItem \notin Payloads

ASSUME LimitsAssumption ==
    /\ QueueSize \in Nat \ {0}
    /\ QueueBytes \in Nat \ {0}
    /\ MaxRetries \in Nat

VARIABLES
    call,      \* where each payload's Accept call stands
    queue,     \* shard.queue: the payloads waiting on each shard
    bytes,     \* shard.bytes
    wpc,       \* where each shard's worker stands
    held,      \* the payload the worker has taken off the queue
    draining,  \* whether the worker is inside drain
    tries,     \* retry waits granted to the held payload
    sd,        \* where Shutdown stands
    accepted,  \* history: the payloads queued on each shard, in order
    ended,     \* history: the payloads each worker is done with, in order
    outcome,   \* history: the counter each payload ended under
    reached,   \* history: the payloads the backend has processed
    late       \* history: attempts at the held payload decided on after
               \* stopping was closed

callVars   == <<call, accepted>>
workerVars == <<wpc, held, draining, tries, ended, reached, late>>
vars == <<call, queue, bytes, wpc, held, draining, tries, sd,
          accepted, ended, outcome, reached, late>>

CallStates == {"idle", "admitted", "reserved", "backout",
               "accepted", "refused", "discarded"}
WorkerStates == {"top", "recv", "attempt", "inflight", "failed", "wait",
                 "final", "finalinflight", "release", "drain", "exited"}
ShutdownStates == {"running", "locking", "closed", "draining",
                   "cancelled", "returned"}
Drops == {"marshal", "permanent", "retry_exhausted",
          "shutdown_deadline", "shutdown_attempt_failed"}
Outcomes == Drops \cup {"none", "delivered"}

\* The worker states in which the held payload has no outcome yet.
Holding == {"attempt", "inflight", "failed", "wait", "final", "finalinflight"}

\* instanceOf and shardKey: the key names the instance and nothing else.
InstanceOf(p) == Owner[p]

Home(p) == ShardIndex[InstanceOf(p)]

\* s.closed, a closed s.stopping, and a cancelled s.ctx.
Closed   == sd \in {"closed", "draining", "cancelled", "returned"}
Stopping == sd \in {"draining", "cancelled", "returned"}
CtxDone  == sd \in {"cancelled", "returned"}

Init ==
    /\ call = [p \in Payloads |-> "idle"]
    /\ queue = [s \in Shards |-> <<>>]
    /\ bytes = [s \in Shards |-> 0]
    /\ wpc = [s \in Shards |-> "top"]
    /\ held = [s \in Shards |-> NoItem]
    /\ draining = [s \in Shards |-> FALSE]
    /\ tries = [s \in Shards |-> 0]
    /\ sd = "running"
    /\ accepted = [s \in Shards |-> <<>>]
    /\ ended = [s \in Shards |-> <<>>]
    /\ outcome = [p \in Payloads |-> "none"]
    /\ reached = {}
    /\ late = [s \in Shards |-> 0]

-----------------------------------------------------------------------------
(* The callers: marshalAndEnqueue and enqueue.                             *)

\* A payload that cannot be encoded is counted as dropped, and the caller
\* is told it was taken.
MarshalFails(p) ==
    /\ call[p] = "idle"
    /\ p \in Unencodable
    /\ call' = [call EXCEPT ![p] = "discarded"]
    /\ outcome' = [outcome EXCEPT ![p] = "marshal"]
    /\ UNCHANGED <<queue, bytes, sd, accepted, workerVars>>

\* Mutant: a refused caller returns without RUnlock.
ReadersLeaked ==
    {p \in Payloads : call[p] \in {"admitted", "reserved", "backout", "refused"}}

\* The callers that hold the read lock of s.mu.
Readers == {p \in Payloads : call[p] \in {"admitted", "reserved", "backout"}}

\* A step of a call that changes nothing else.
Step(p, from, to) ==
    /\ call[p] = from
    /\ call' = [call EXCEPT ![p] = to]
    /\ UNCHANGED <<queue, bytes, sd, accepted, outcome, workerVars>>

\* s.mu.RLock and the check of s.closed.  A waiting writer blocks new
\* readers, so no caller enters while Shutdown waits for the lock.
EnterEnqueue(p) ==
    /\ p \notin Unencodable
    /\ sd # "locking"
    /\ ~ Closed
    /\ Step(p, "idle", "admitted")

RefuseClosed(p) ==
    /\ p \notin Unencodable
    /\ Closed
    /\ Step(p, "idle", "refused")

\* Mutants of Fits: no exemption for an empty shard; no limit at all.
FitsNoExemption(s, n) == bytes[s] + n <= QueueBytes
FitsAlways(s, n) == TRUE

\* reserve's test under shard.mu.
Fits(s, n) == ~ (bytes[s] > 0 /\ bytes[s] + n > QueueBytes)

Reserve(p) ==
    /\ call[p] = "admitted"
    /\ Fits(Home(p), Size[p])
    /\ call' = [call EXCEPT ![p] = "reserved"]
    /\ bytes' = [bytes EXCEPT ![Home(p)] = @ + Size[p]]
    /\ UNCHANGED <<queue, sd, accepted, outcome, workerVars>>

RefuseBytes(p) == ~ Fits(Home(p), Size[p]) /\ Step(p, "admitted", "refused")

\* The select with a default: the send never blocks.
Send(p) ==
    /\ call[p] = "reserved"
    /\ Len(queue[Home(p)]) < QueueSize
    /\ call' = [call EXCEPT ![p] = "accepted"]
    /\ queue' = [queue EXCEPT ![Home(p)] = Append(@, p)]
    /\ accepted' = [accepted EXCEPT ![Home(p)] = Append(@, p)]
    /\ UNCHANGED <<bytes, sd, outcome, workerVars>>

\* Mutant: a payload that finds no room is counted as dropped.
SendFullCountsDrop(p) ==
    /\ Len(queue[Home(p)]) >= QueueSize
    /\ call[p] = "reserved"
    /\ call' = [call EXCEPT ![p] = "backout"]
    /\ outcome' = [outcome EXCEPT ![p] = "retry_exhausted"]
    /\ UNCHANGED <<queue, bytes, sd, accepted, workerVars>>

SendFull(p) ==
    /\ Len(queue[Home(p)]) >= QueueSize
    /\ Step(p, "reserved", "backout")

\* Mutant: the default branch keeps the reserved bytes.
BackOutLeaking(p) == Step(p, "backout", "refused")

\* The default branch gives the reserved bytes back.
BackOut(p) ==
    /\ call[p] = "backout"
    /\ call' = [call EXCEPT ![p] = "refused"]
    /\ bytes' = [bytes EXCEPT ![Home(p)] = @ - Size[p]]
    /\ UNCHANGED <<queue, sd, accepted, outcome, workerVars>>

\* The agent was answered 503 and sends the payload again (not in src/).
Resend(p) == Step(p, "refused", "idle")

\* A call arrives, and a call under way goes on.
Arrive(p) ==
    MarshalFails(p) \/ EnterEnqueue(p) \/ RefuseClosed(p) \/ Resend(p)

Enqueue(p) ==
    \/ Reserve(p) \/ RefuseBytes(p)
    \/ Send(p) \/ SendFull(p) \/ BackOut(p)

-----------------------------------------------------------------------------
(* The worker of shard s: runShard, deliver, attempt, finalDeliveryAttempt *)
(* and drain.                                                              *)

\* A step from one program point to another that changes nothing else.
Move(s, from, to) ==
    /\ wpc[s] = from
    /\ wpc' = [wpc EXCEPT ![s] = to]
    /\ UNCHANGED <<callVars, queue, bytes, sd, outcome,
                   held, draining, tries, ended, reached, late>>

\* runShard's first select: shutdown is looked at before the queue.
Top(s) ==
    /\ wpc[s] = "top"
    /\ wpc' = [wpc EXCEPT ![s] = IF Stopping THEN "drain" ELSE "recv"]
    /\ draining' = [draining EXCEPT ![s] = Stopping]
    /\ UNCHANGED <<callVars, queue, bytes, sd, outcome,
                   held, tries, ended, reached, late>>

\* Mutant: the newest payload is taken first.
TakeLast(s, from, to) ==
    /\ wpc[s] = from
    /\ queue[s] # <<>>
    /\ wpc' = [wpc EXCEPT ![s] = to]
    /\ held' = [held EXCEPT ![s] = queue[s][Len(queue[s])]]
    /\ queue' = [queue EXCEPT ![s] = SubSeq(@, 1, Len(@) - 1)]
    /\ tries' = [tries EXCEPT ![s] = 0]
    /\ UNCHANGED <<callVars, bytes, sd, outcome, draining, ended, reached>>

\* The head of the queue becomes the worker's payload.
Take(s, from, to) ==
    /\ wpc[s] = from
    /\ queue[s] # <<>>
    /\ wpc' = [wpc EXCEPT ![s] = to]
    /\ held' = [held EXCEPT ![s] = Head(queue[s])]
    /\ queue' = [queue EXCEPT ![s] = Tail(@)]
    /\ tries' = [tries EXCEPT ![s] = 0]
    /\ UNCHANGED <<callVars, bytes, sd, outcome, draining, ended, reached>>

\* runShard's second select takes either ready case, so a payload may
\* still be received after stopping was closed.
Receive(s) ==
    /\ Take(s, "recv", "attempt")
    /\ late' = [late EXCEPT ![s] = IF Stopping THEN 1 ELSE 0]

ReceiveStopping(s) ==
    /\ wpc[s] = "recv"
    /\ Stopping
    /\ wpc' = [wpc EXCEPT ![s] = "drain"]
    /\ draining' = [draining EXCEPT ![s] = TRUE]
    /\ UNCHANGED <<callVars, queue, bytes, sd, outcome,
                   held, tries, ended, reached, late>>

\* Mutant: the HTTP client has a single connection for all the shards.
BeginAttemptOneConnection(s) ==
    /\ \A t \in Shards : wpc[t] # "inflight"
    /\ Move(s, "attempt", IF CtxDone THEN "failed" ELSE "inflight")

\* An attempt begun under a cancelled context fails without a request.
BeginAttempt(s) == Move(s, "attempt", IF CtxDone THEN "failed" ELSE "inflight")

\* The backend (not in src/) processes the request; whether the reply
\* gets back to the worker is another matter.
BackendProcesses(s) ==
    /\ wpc[s] \in {"inflight", "finalinflight"}
    /\ held[s] \notin reached
    /\ reached' = reached \cup {held[s]}
    /\ UNCHANGED <<callVars, queue, bytes, sd, outcome,
                   wpc, held, draining, tries, ended, late>>

\* The held payload is counted under o, delivered or dropped, and the
\* worker goes on to release its bytes.
Finish(s, from, o) ==
    /\ wpc[s] = from
    /\ wpc' = [wpc EXCEPT ![s] = "release"]
    /\ ended' = [ended EXCEPT ![s] = Append(@, held[s])]
    /\ outcome' = [outcome EXCEPT ![held[s]] = o]
    /\ UNCHANGED <<callVars, queue, bytes, sd,
                   held, draining, tries, reached, late>>

\* attempt's results: a 2xx answer; a status that is neither 2xx nor 429,
\* 502, 503 or 504; and one of those four, a transport error, the request
\* timeout, or the cancellation of s.ctx.
AttemptDelivered(s) == held[s] \in reached /\ Finish(s, "inflight", "delivered")

AttemptPermanent(s) == Finish(s, "inflight", "permanent")

AttemptRetryable(s) == Move(s, "inflight", "failed")

\* deliver looks at stopping before it asks backoff for a wait.
FailedStopping(s) == Stopping /\ Move(s, "failed", "final")

\* backoff.next reports false.  The budget is wall-clock time, so a slow
\* attempt alone may spend it.
RetryExhausted(s) == ~ Stopping /\ Finish(s, "failed", "retry_exhausted")

\* Mutant: stopping is not looked at.
MayWaitIgnoringStopping(s) == tries[s] < MaxRetries

MayWait(s) == ~ Stopping /\ tries[s] < MaxRetries

RetryWait(s) ==
    /\ wpc[s] = "failed"
    /\ MayWait(s)
    /\ tries' = [tries EXCEPT ![s] = @ + 1]
    /\ wpc' = [wpc EXCEPT ![s] = "wait"]
    /\ UNCHANGED <<callVars, queue, bytes, sd, outcome,
                   held, draining, ended, reached, late>>

\* The select between the retry timer and stopping: when both are ready
\* either may be taken.
WaitTimer(s) ==
    /\ wpc[s] = "wait"
    /\ wpc' = [wpc EXCEPT ![s] = "attempt"]
    /\ late' = [late EXCEPT ![s] = IF Stopping THEN @ + 1 ELSE @]
    /\ UNCHANGED <<callVars, queue, bytes, sd, outcome,
                   held, draining, tries, ended, reached>>

\* Mutant: the payload is put back at the end of the queue for drain.
WaitStoppingRequeue(s) ==
    /\ wpc[s] = "wait"
    /\ Stopping
    /\ wpc' = [wpc EXCEPT ![s] = "drain"]
    /\ queue' = [queue EXCEPT ![s] = Append(@, held[s])]
    /\ held' = [held EXCEPT ![s] = NoItem]
    /\ UNCHANGED <<callVars, bytes, sd, outcome,
                   draining, tries, ended, reached, late>>

WaitStopping(s) == Stopping /\ Move(s, "wait", "final")

\* Mutant: a payload past the deadline is discarded without a count.
FinalDeadlineUncounted(s) == CtxDone /\ Move(s, "final", "release")

\* finalDeliveryAttempt: past the deadline there is no attempt at all, and
\* any failure of the attempt is the end of the payload.
FinalDeadline(s) == CtxDone /\ Finish(s, "final", "shutdown_deadline")

FinalAttempt(s) ==
    /\ wpc[s] = "final"
    /\ ~ CtxDone
    /\ wpc' = [wpc EXCEPT ![s] = "finalinflight"]
    /\ late' = [late EXCEPT ![s] = @ + 1]
    /\ UNCHANGED <<callVars, queue, bytes, sd, outcome,
                   held, draining, tries, ended, reached>>

FinalDelivered(s) ==
    held[s] \in reached /\ Finish(s, "finalinflight", "delivered")

FinalFailed(s) == Finish(s, "finalinflight", "shutdown_attempt_failed")

\* shard.release after deliver or finalDeliveryAttempt has returned.
Release(s) ==
    /\ wpc[s] = "release"
    /\ bytes' = [bytes EXCEPT ![s] = @ - Size[held[s]]]
    /\ held' = [held EXCEPT ![s] = NoItem]
    /\ wpc' = [wpc EXCEPT ![s] = IF draining[s] THEN "drain" ELSE "top"]
    /\ UNCHANGED <<callVars, queue, sd, outcome,
                   draining, tries, ended, reached, late>>

DrainTake(s) == Take(s, "drain", "final") /\ late' = [late EXCEPT ![s] = 0]

DrainDone(s) == queue[s] = <<>> /\ Move(s, "drain", "exited")

Deliver(s) ==
    \/ BeginAttempt(s) \/ AttemptDelivered(s)
    \/ AttemptPermanent(s) \/ AttemptRetryable(s)
    \/ FailedStopping(s) \/ RetryExhausted(s) \/ RetryWait(s)
    \/ WaitTimer(s) \/ WaitStopping(s)

FinalDeliveryAttempt(s) ==
    \/ FinalDeadline(s) \/ FinalAttempt(s)
    \/ FinalDelivered(s) \/ FinalFailed(s)

Worker(s) ==
    \/ Top(s) \/ Receive(s) \/ ReceiveStopping(s)
    \/ Deliver(s) \/ FinalDeliveryAttempt(s) \/ Release(s)
    \/ DrainTake(s) \/ DrainDone(s)

-----------------------------------------------------------------------------
(* Shutdown: only the first call does anything.                            *)

SetShutdown(state) ==
    /\ sd' = state
    /\ UNCHANGED <<callVars, queue, bytes, outcome, workerVars>>

ShutdownCall == sd = "running" /\ SetShutdown("locking")

\* Mutant: closed is set without the lock.
ShutdownCloseUnlocked == sd = "locking" /\ SetShutdown("closed")

\* s.mu.Lock is granted once no caller is inside enqueue.
ShutdownClose == sd = "locking" /\ Readers = {} /\ SetShutdown("closed")

ShutdownStop == sd = "closed" /\ SetShutdown("draining")

\* The caller's context ends first: s.ctx is cancelled, and Shutdown goes
\* on waiting for the workers.
ShutdownDeadline == sd = "draining" /\ SetShutdown("cancelled")

ShutdownReturn ==
    /\ sd \in {"draining", "cancelled"}
    /\ \A s \in Shards : wpc[s] = "exited"
    /\ SetShutdown("returned")

Shutdown == ShutdownClose \/ ShutdownStop \/ ShutdownReturn

\* A returned Shutdown with every call answered is a proper end.
Terminated ==
    /\ sd = "returned"
    /\ \A p \in Payloads : call[p] \in {"accepted", "refused", "discarded"}
    /\ UNCHANGED vars

Next ==
    \/ \E p \in Payloads : Arrive(p) \/ Enqueue(p)
    \/ \E s \in Shards : Worker(s) \/ BackendProcesses(s)
    \/ ShutdownCall
    \/ ShutdownDeadline
    \/ Shutdown
    \/ Terminated

\* A handler goroutine inside enqueue goes on, a worker's attempt returns
\* within Config.RequestTimeout and its timers fire, and Shutdown takes its
\* own steps.  Nothing obliges an agent to send or resend, the backend to
\* process a request, or the process to be shut down.
Fairness ==
    /\ \A p \in Payloads : WF_vars(Enqueue(p))
    /\ \A s \in LiveShards : WF_vars(Worker(s))
    /\ WF_vars(Shutdown)

Spec == Init /\ [][Next]_vars /\ Fairness

-----------------------------------------------------------------------------
(* Properties.                                                             *)

\* Type invariant: each variable keeps the shape the code's fields have.
TypeOK ==
    /\ call \in [Payloads -> CallStates]
    /\ queue \in [Shards -> Seq(Payloads)]
    /\ bytes \in [Shards -> Int]
    /\ wpc \in [Shards -> WorkerStates]
    /\ held \in [Shards -> Payloads \cup {NoItem}]
    /\ draining \in [Shards -> BOOLEAN]
    /\ tries \in [Shards -> 0..MaxRetries]
    /\ sd \in ShutdownStates
    /\ accepted \in [Shards -> Seq(Payloads)]
    /\ ended \in [Shards -> Seq(Payloads)]
    /\ outcome \in [Payloads -> Outcomes]
    /\ reached \subseteq Payloads
    /\ late \in [Shards -> Nat]

\* The payload a worker holds without an outcome, as a sequence.
InHand(s) == IF wpc[s] \in Holding THEN <<held[s]>> ELSE <<>>

\* What a shard accepted is, in order, what its worker is done with, what
\* the worker holds, and what is queued: no payload answered 202 is lost,
\* duplicated or reordered by retries, by a refused send or by the drain
\* (enqueue, runShard, deliver, drain).
Conserved == \A s \in Shards : accepted[s] = ended[s] \o InHand(s) \o queue[s]

\* A worker has a payload from the take to the release.
HeldOK ==
    \A s \in Shards :
        held[s] # NoItem <=> wpc[s] \in Holding \cup {"release"}

\* The lock, the stopping channel and the workers' program points agree: no
\* caller is inside enqueue once closed is set; a worker drains, makes a
\* final attempt or exits only after stopping is closed; and it exits with
\* an empty queue.
Coherent ==
    /\ Closed => Readers = {}
    /\ sd = "returned" => \A s \in Shards : wpc[s] = "exited"
    /\ \A s \in Shards :
        /\ wpc[s] \in {"final", "finalinflight", "drain", "exited"} => Stopping
        /\ draining[s] => Stopping
        /\ wpc[s] = "exited" => queue[s] = <<>>
    /\ HeldOK

\* A payload is accepted at most once, on the shard of its instance, and
\* only a payload that was accepted and has left its shard, or that could
\* not be encoded, is counted as delivered or dropped.
CountedOnce ==
    /\ \A s \in Shards : \A i, j \in DOMAIN accepted[s] :
        /\ call[accepted[s][i]] = "accepted"
        /\ Home(accepted[s][i]) = s
        /\ accepted[s][i] = accepted[s][j] => i = j
    /\ \A p \in Payloads : outcome[p] # "none" =>
        \/ call[p] = "discarded"
        \/ \E i \in DOMAIN ended[Home(p)] : ended[Home(p)][i] = p

\* When Shutdown returns, every worker is gone and every payload that was
\* answered 202 has been counted as delivered or dropped: no send slipped
\* in behind a worker's final drain (the comment on ForwardingSink.mu).
NothingLeftBehind ==
    sd = "returned" =>
        \A s \in Shards : wpc[s] = "exited" /\ ended[s] = accepted[s]

\* The payloads whose bytes shard s has been charged for: reserved by a
\* caller, queued, or with the worker until it calls release.
Charged(s) ==
    {p \in Payloads :
        /\ Home(p) = s
        /\ \/ call[p] \in {"reserved", "backout"}
           \/ \E i \in DOMAIN queue[s] : queue[s][i] = p
           \/ held[s] = p}

\* The bytes of these payloads, one by one.
BytesOf(payloads) == UNION {{p} \X (1..Size[p]) : p \in payloads}

\* shard.bytes is the number of bytes in the payloads the shard is charged
\* for, whatever interleaving of reserve, send, back-out and release led
\* here: no leak that would refuse every later payload, no underflow.
BytesAccounted ==
    \A s \in Shards : bytes[s] = Cardinality(BytesOf(Charged(s)))

\* A shard never holds more than the larger of the byte budget and one
\* payload, as README.md's "Resource limits" promises, although reserve and
\* the queue send are separate steps.
BytesBounded ==
    \A s \in Shards :
        bytes[s] <= QueueBytes \/ \E p \in Payloads : bytes[s] <= Size[p]

\* Action property: reserve turns a payload away only when its shard is
\* charged for another one, so no payload is too large for good.
IdleShardAccepts ==
    [][\A p \in Payloads :
          call[p] = "admitted" /\ call'[p] = "refused"
              => Charged(Home(p)) # {}]_vars

\* Shutdown cuts retries short: a payload is attempted at most twice after
\* stopping was closed, the second time as its final attempt.  It may be
\* twice, where the comment on Shutdown says "one more delivery attempt":
\* runShard's and deliver's selects may take the queue or the timer although
\* stopping is ready too.
AttemptsAfterShutdown == \A s \in Shards : late[s] <= 2

\* Claim of README.md's Metrics section, "every increment is agent data that
\* never reached the backend", for the drops that follow a failed attempt
\* without a permanent answer.  A lost reply or a timed-out request leaves
\* the backend with the data, so the code does not keep it.
DroppedNeverReached ==
    \A p \in reached :
        outcome[p] \notin {"retry_exhausted", "shutdown_deadline",
                           "shutdown_attempt_failed"}

\* Every payload on a shard whose worker keeps running is counted in the
\* end, whatever the other shards' workers do (the comment on shard: a
\* stuck backend occupies only its own instance's shard).
AcceptedEnds ==
    \A p \in Payloads :
        (call[p] = "accepted" /\ Home(p) \in LiveShards)
            ~> (outcome[p] # "none")

\* Shutdown, once called, gets its lock, drains and returns.
ShutdownReturns == (sd = "locking") ~> (sd = "returned")

-----------------------------------------------------------------------------
(* Refinement: the sink implements Relay, with one lane per shard and with *)
(* one lane per service instance.                                          *)

RelayPhase ==
    CASE sd \in {"running", "locking"} -> "open"
      [] sd \in {"closed", "draining", "cancelled"} -> "closed"
      [] sd = "returned" -> "stopped"

ShardRelay == INSTANCE Relay WITH
    Lanes <- Shards, Lane <- [p \in Payloads |-> Home(p)],
    taken <- accepted, left <- ended, phase <- RelayPhase

\* The payloads of instance i in a sequence, in their order.
Owned(payloads, i) ==
    LET own[n \in 0..Len(payloads)] ==
          IF n = 0 THEN <<>>
          ELSE IF InstanceOf(payloads[n]) = i THEN Append(own[n - 1], payloads[n])
          ELSE own[n - 1]
    IN  own[Len(payloads)]

\* One instance's part of its shard's history.
OfInstance(history, i) == Owned(history[ShardIndex[i]], i)

InstanceRelay == INSTANCE Relay WITH
    Lanes <- Instances, Lane <- Owner, phase <- RelayPhase,
    taken <- [i \in Instances |-> OfInstance(accepted, i)],
    left <- [i \in Instances |-> OfInstance(ended, i)]

\* Every behaviour of the sink is one of Relay's with a lane per shard:
\* FIFO, one outcome each, nothing taken after the close, nothing left at
\* the stop.
ImplementsShardRelay == ShardRelay!Safety

\* The same with a lane per service instance, liveness included: one
\* instance's payloads leave in the order they were taken even when
\* instances share a shard (the comments on shardKey and shardIndex).
ImplementsInstanceRelay == InstanceRelay!Spec

=============================================================================
