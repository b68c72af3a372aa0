------------------------------- MODULE Ingest -------------------------------
(***************************************************************************)
(* ingest/handler.go: one goroutine per request reads the body, waits for  *)
(* a decode slot, decodes, validates, hands the payload to the sink and    *)
(* answers.  The decode slots are a counting semaphore; the wait for one   *)
(* ends with the slot, with the client's departure, or with a timer.       *)
(*                                                                         *)
(* What a request holds is abstracted to the first thing wrong with it,    *)
(* if anything is.  The sink is a component of its own (Forwarder): here   *)
(* it takes a payload or refuses it.                                       *)
(***************************************************************************)
EXTENDS Naturals, FiniteSets

CONSTANTS
    Requests,      \* the requests to the ingest routes
    Caps,          \* the caps WithMaxConcurrentDecodes may be given
    Fault,         \* the first thing wrong with each request, or "none"
    Stuck          \* the requests that may never leave the sink (fairness)

ReadFaults == {"content_type", "too_large", "read"}
DecodeFaults == {"malformed", "invalid"}

ASSUME IngestAssumption ==
    /\ IsFiniteSet(Requests)
    /\ Caps \subseteq Nat
    /\ Fault \in [Requests -> {"none"} \cup ReadFaults \cup DecodeFaults]
    /\ Stuck \subseteq Requests

VARIABLES
    cap,      \* cap(h.slots), 0 for a handler without a cap
    pc,       \* where each request's handler stands
    slots,    \* len(h.slots): the slots taken
    gone,     \* the requests whose context has ended
    answer,   \* the status written for each request, 0 for none yet
    counted,  \* the counters incremented for each request
    taken     \* the requests whose payload the sink took

vars == <<cap, pc, slots, gone, answer, counted, taken>>

\* The status answered under each counter.
StatusOf ==
    [content_type |-> 415, too_large |-> 413, read |-> 400, busy |-> 503,
     malformed |-> 400, invalid |-> 400, sink |-> 503, accepted |-> 202]

Init ==
    /\ cap \in Caps
    /\ pc = [r \in Requests |-> "idle"]
    /\ slots = 0
    /\ gone = {}
    /\ answer = [r \in Requests |-> 0]
    /\ counted = [r \in Requests |-> {}]
    /\ taken = {}

Goto(r, state) == pc' = [pc EXCEPT ![r] = state]

\* The request is counted under reason and answered.
Answer(r, reason) ==
    /\ counted' = [counted EXCEPT ![r] = @ \cup {reason}]
    /\ answer' = [answer EXCEPT ![r] = StatusOf[reason]]

\* The server calls the handler.
Arrive(r) ==
    /\ pc[r] = "idle"
    /\ Goto(r, "reading")
    /\ UNCHANGED <<cap, slots, gone, answer, counted, taken>>

\* The client closes its connection (not in src/): net/http ends the
\* request's context.
ClientLeaves(r) ==
    /\ pc[r] \notin {"idle", "done"}
    /\ r \notin gone
    /\ gone' = gone \cup {r}
    /\ UNCHANGED <<cap, pc, slots, answer, counted, taken>>

\* readRequest: a departed client fails the read of its body.
ReadFails(r) ==
    /\ pc[r] = "reading"
    /\ \/ Fault[r] \in ReadFaults /\ Answer(r, Fault[r])
       \/ Fault[r] # "content_type" /\ r \in gone /\ Answer(r, "read")
    /\ Goto(r, "done")
    /\ UNCHANGED <<cap, slots, gone, taken>>

ReadDone(r) ==
    /\ pc[r] = "reading"
    /\ Fault[r] \notin ReadFaults
    /\ Goto(r, "waiting")
    /\ UNCHANGED <<cap, slots, gone, answer, counted, taken>>

SlotFree == cap = 0 \/ slots < cap

\* acquire's select: any case that is ready may be taken, so a request may
\* get a slot although its client has left.
AcquireSlot(r) ==
    /\ pc[r] = "waiting"
    /\ SlotFree
    /\ slots' = IF cap = 0 THEN slots ELSE slots + 1
    /\ Goto(r, "decoding")
    /\ UNCHANGED <<cap, gone, answer, counted, taken>>

AcquireCanceled(r) ==
    /\ pc[r] = "waiting"
    /\ cap # 0
    /\ r \in gone
    /\ counted' = [counted EXCEPT ![r] = @ \cup {"canceled"}]
    /\ Goto(r, "done")
    /\ UNCHANGED <<cap, slots, gone, answer, taken>>

\* Mutant: the select has no timer case.
AcquireBusyNever(r) == FALSE /\ UNCHANGED vars

\* slotWait may pass at any time, and does in the end.
AcquireBusy(r) ==
    /\ pc[r] = "waiting"
    /\ cap # 0
    /\ Answer(r, "busy")
    /\ Goto(r, "done")
    /\ UNCHANGED <<cap, slots, gone, taken>>

\* Mutant: an unusable payload returns before the release is deferred.
DecodeFailsLeaking(r) ==
    /\ pc[r] = "decoding"
    /\ Fault[r] \in DecodeFaults
    /\ Answer(r, Fault[r])
    /\ Goto(r, "done")
    /\ UNCHANGED <<cap, slots, gone, taken>>

\* unmarshal and validate; the deferred release follows.
DecodeFails(r) ==
    /\ pc[r] = "decoding"
    /\ Fault[r] \in DecodeFaults
    /\ Answer(r, Fault[r])
    /\ Goto(r, "leaving")
    /\ UNCHANGED <<cap, slots, gone, taken>>

Decode(r) ==
    /\ pc[r] = "decoding"
    /\ Fault[r] \notin DecodeFaults
    /\ Goto(r, "sink")
    /\ UNCHANGED <<cap, slots, gone, answer, counted, taken>>

\* accept returns nil: the payload is the sink's, and the answer is 202.
SinkTakes(r) ==
    /\ pc[r] = "sink"
    /\ taken' = taken \cup {r}
    /\ Answer(r, "accepted")
    /\ Goto(r, "leaving")
    /\ UNCHANGED <<cap, slots, gone>>

\* Mutant: the handler counts the failure and falls through to the 202.
SinkRefusesFallsThrough(r) ==
    /\ pc[r] = "sink"
    /\ counted' = [counted EXCEPT ![r] = @ \cup {"sink", "accepted"}]
    /\ answer' = [answer EXCEPT ![r] = 202]
    /\ Goto(r, "leaving")
    /\ UNCHANGED <<cap, slots, gone, taken>>

SinkRefuses(r) ==
    /\ pc[r] = "sink"
    /\ Answer(r, "sink")
    /\ Goto(r, "leaving")
    /\ UNCHANGED <<cap, slots, gone, taken>>

\* The deferred release: a receive from the channel.
Release(r) ==
    /\ pc[r] = "leaving"
    /\ cap = 0 \/ slots > 0
    /\ slots' = IF cap = 0 THEN slots ELSE slots - 1
    /\ Goto(r, "done")
    /\ UNCHANGED <<cap, gone, answer, counted, taken>>

Sink(r) == SinkTakes(r) \/ SinkRefuses(r)

Handle(r) ==
    \/ ReadFails(r) \/ ReadDone(r)
    \/ AcquireSlot(r) \/ AcquireCanceled(r) \/ AcquireBusy(r)
    \/ DecodeFails(r) \/ Decode(r) \/ Release(r)

Terminated == (\A r \in Requests : pc[r] = "done") /\ UNCHANGED vars

Next ==
    \/ \E r \in Requests : Arrive(r) \/ ClientLeaves(r) \/ Handle(r) \/ Sink(r)
    \/ Terminated

\* A handler goroutine keeps running (the server's read timeout ends a slow
\* body), and the sink answers every request that is not stuck in it.
Spec ==
    /\ Init /\ [][Next]_vars
    /\ \A r \in Requests : WF_vars(Handle(r))
    /\ \A r \in Requests \ Stuck : WF_vars(Sink(r))

-----------------------------------------------------------------------------
(* Properties.                                                             *)

\* The requests between a successful acquire and its release.
Holders == {r \in Requests : pc[r] \in {"decoding", "sink", "leaving"}}

\* The semaphore counts exactly the requests that hold a slot, on every path
\* out of handle, and there are never more of them than the cap: a leaked
\* slot would end in 503 for everyone.
SlotsAccounted ==
    cap # 0 => slots = Cardinality(Holders) /\ slots <= cap

\* A finished request was counted once.  It was answered 202 exactly when the
\* sink has its payload, so an agent that is told to resend never had its
\* data taken, and it was left without an answer only if its client had gone.
OneTrueAnswer ==
    \A r \in Requests :
        pc[r] = "done" =>
            /\ Cardinality(counted[r]) = 1
            /\ answer[r] = 202 <=> r \in taken
            /\ answer[r] = 0 => r \in gone /\ counted[r] = {"canceled"}

\* No request waits for ever, even when every slot is held by a request that
\* never leaves the sink.
RequestsFinish ==
    \A r \in Requests \ Stuck : (pc[r] = "reading") ~> (pc[r] = "done")
=============================================================================
