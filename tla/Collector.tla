----------------------------- MODULE Collector -----------------------------
(***************************************************************************)
(* cmd/otherlode-collector/main.go: the process that serves requests with  *)
(* Ingest's handlers, hands their payloads to Forwarder's sink, and ends   *)
(* on a signal or on the failure of its listener.                          *)
(*                                                                         *)
(* A payload stands for the request that carries it.  A handler that       *)
(* reaches the sink makes the sink's call and answers by its result.       *)
(* net/http's server (not in src/) is modelled by what main needs of it:   *)
(* its connections, and a Shutdown that waits for them until a deadline.   *)
(***************************************************************************)
EXTENDS Naturals, Sequences, FiniteSets

CONSTANTS
    Payloads, Instances, Shards, Owner, ShardIndex, Size, Unencodable,
    QueueSize, QueueBytes, MaxRetries, LiveShards, NoItem,  \* Forwarder's
    Caps, Fault, Stuck                                      \* Ingest's

VARIABLES
    call, queue, bytes, wpc, held, draining, tries, sd,
    accepted, ended, outcome, reached, late,   \* Forwarder's
    cap, pc, slots, gone, answer, counted, taken,   \* Ingest's
    forwarding,  \* whether a forward URL is set; if not, LogSink is the sink
    proc,     \* where main stands
    conn,     \* the connection of each request
    expired,  \* whether shutdownCtx has ended
    srvErr,   \* whether srv.Shutdown returned an error
    code      \* the exit code, Killed after a signal, 9 while main runs

sinkVars    == <<call, queue, bytes, wpc, held, draining, tries, sd,
                 accepted, ended, outcome, reached, late>>
handlerVars == <<cap, pc, slots, gone, answer, counted, taken>>
mainVars    == <<forwarding, proc, conn, expired, srvErr, code>>
vars == <<sinkVars, handlerVars, mainVars>>

F == INSTANCE Forwarder

H == INSTANCE Ingest WITH Requests <- Payloads

\* What the two components ask of their constants.
ASSUME ComponentsAssumption ==
    F!ConstantsAssumption /\ F!LimitsAssumption /\ H!IngestAssumption

Init ==
    /\ F!Init
    /\ H!Init
    /\ forwarding \in BOOLEAN
    /\ proc = "serving"
    /\ conn = [p \in Payloads |-> "none"]
    /\ expired = FALSE
    /\ srvErr = FALSE
    /\ code = 9

Alive == proc # "exited"

\* The process was killed by a signal and has no exit code of its own.
Killed == 2

-----------------------------------------------------------------------------
(* The server's connections.                                               *)

SetConn(p, from, to) ==
    /\ conn[p] = from
    /\ conn' = [conn EXCEPT ![p] = to]
    /\ UNCHANGED <<sinkVars, handlerVars, forwarding, proc, expired, srvErr, code>>

\* The listener accepts a connection; srv.Shutdown closes the listener.
Connect(p) == proc = "serving" /\ SetConn(p, "none", "open")

\* srv.Shutdown closes a connection that has sent no request.
CloseQuiet(p) ==
    proc = "stopping" /\ pc[p] = "idle" /\ SetConn(p, "open", "cut")

\* The handler has returned: its answer reaches the agent, or does not
\* because the agent left or the write deadline has passed.
Replied(p) ==
    /\ Alive /\ pc[p] = "done" /\ answer[p] # 0 /\ p \notin gone
    /\ SetConn(p, "open", "replied")

ReplyLost(p) == Alive /\ pc[p] = "done" /\ SetConn(p, "open", "cut")

Server(p) == Connect(p) \/ CloseQuiet(p) \/ Replied(p) \/ ReplyLost(p)

-----------------------------------------------------------------------------
(* The handlers and the sink.                                              *)

\* A request on an open connection, also while srv.Shutdown waits and after
\* it has given up.
Request(p) ==
    /\ Alive
    /\ conn[p] = "open"
    /\ H!Arrive(p)
    /\ UNCHANGED <<sinkVars, mainVars>>

Handle(p) ==
    /\ Alive
    /\ H!Handle(p) \/ H!ClientLeaves(p)
    /\ UNCHANGED <<sinkVars, mainVars>>

\* accept: the sink's call, in steps of the handler's goroutine.
Accept(p) ==
    /\ Alive /\ forwarding
    /\ pc[p] = "sink"
    /\ F!MarshalFails(p) \/ F!EnterEnqueue(p) \/ F!RefuseClosed(p) \/ F!Enqueue(p)
    /\ UNCHANGED <<handlerVars, mainVars>>

\* accept returns, and handle answers by its error.
AcceptReturns(p) ==
    /\ Alive
    /\ \/ call[p] \in {"accepted", "discarded"} /\ H!SinkTakes(p)
       \/ call[p] = "refused" /\ H!SinkRefuses(p)
    /\ UNCHANGED <<sinkVars, mainVars>>

\* LogSink logs the payload and never fails.
LogAccept(p) ==
    /\ Alive /\ ~ forwarding
    /\ H!SinkTakes(p)
    /\ UNCHANGED <<sinkVars, mainVars>>

Workers ==
    /\ Alive /\ forwarding
    /\ \E s \in Shards : F!Worker(s) \/ F!BackendProcesses(s)
    /\ UNCHANGED <<handlerVars, mainVars>>

-----------------------------------------------------------------------------
(* main: the select, srv.Shutdown, fwd.Shutdown and the exit.              *)

Main(from, to) ==
    /\ proc = from
    /\ proc' = to
    /\ UNCHANGED <<sinkVars, handlerVars, forwarding, conn>>

\* The listener fails: os.Exit at once.
ServeError ==
    Main("serving", "exited") /\ code' = 1 /\ UNCHANGED <<expired, srvErr>>

\* Mutant: the sink is shut down without waiting for the server.
SignalSinkFirst ==
    Main("serving", "draining") /\ UNCHANGED <<expired, srvErr, code>>

\* SIGINT or SIGTERM: main calls stop, which gives the two signals their
\* default action back, creates shutdownCtx and calls srv.Shutdown.
Signal == Main("serving", "stopping") /\ UNCHANGED <<expired, srvErr, code>>

\* The default action of a second signal: the process dies where it stands.
SecondSignal ==
    /\ Main("stopping", "exited") \/ Main("draining", "exited")
    /\ code' = Killed
    /\ UNCHANGED <<expired, srvErr>>

\* The ten seconds of shutdownCtx, which both Shutdown calls share.
Expire ==
    /\ proc \in {"stopping", "draining"}
    /\ ~ expired
    /\ expired' = TRUE
    /\ UNCHANGED <<sinkVars, handlerVars, forwarding, proc, conn, srvErr, code>>

SrvShutdownDone ==
    /\ \A p \in Payloads : conn[p] # "open"
    /\ Main("stopping", "draining")
    /\ UNCHANGED <<expired, srvErr, code>>

\* Mutant: the error is not kept.
SrvShutdownTimeoutForgotten ==
    expired /\ Main("stopping", "draining") /\ UNCHANGED <<expired, srvErr, code>>

\* Mutant: srv.Shutdown is given a context without the deadline.
SrvShutdownUnbounded ==
    /\ \A p \in Payloads : conn[p] # "open"
    /\ expired /\ Main("stopping", "draining") /\ srvErr' = TRUE /\ UNCHANGED <<expired, code>>

SrvShutdownTimeout ==
    /\ expired
    /\ Main("stopping", "draining")
    /\ srvErr' = TRUE
    /\ UNCHANGED <<expired, code>>

\* shutdownCtx ends the drain: ForwardingSink.Shutdown cancels s.ctx.
FwdDeadline ==
    /\ proc = "draining"
    /\ expired
    /\ F!ShutdownDeadline
    /\ UNCHANGED <<handlerVars, mainVars>>

FwdShutdown ==
    /\ proc = "draining" /\ forwarding
    /\ F!ShutdownCall \/ F!Shutdown
    /\ UNCHANGED <<handlerVars, mainVars>>

\* Mutant: main does not wait for fwd.Shutdown.
ExitEarly ==
    /\ Main("draining", "exited")
    /\ code' = IF srvErr THEN 1 ELSE 0
    /\ UNCHANGED <<expired, srvErr>>

Exit ==
    /\ forwarding => sd = "returned"
    /\ Main("draining", "exited")
    /\ code' = IF srvErr THEN 1 ELSE 0
    /\ UNCHANGED <<expired, srvErr>>

Shutdown ==
    SrvShutdownDone \/ SrvShutdownTimeout \/ FwdShutdown \/ FwdDeadline \/ Exit

Exited == ~ Alive /\ UNCHANGED vars

Next ==
    \/ \E p \in Payloads :
          Server(p) \/ Request(p) \/ Handle(p) \/ Accept(p)
          \/ AcceptReturns(p) \/ LogAccept(p)
    \/ Workers
    \/ ServeError \/ Signal \/ SecondSignal \/ Expire \/ Shutdown
    \/ Exited

\* A goroutine inside enqueue or a worker goes on, main goes on, and the ten
\* seconds pass.  Nothing is assumed of the requests' bodies, of the agents,
\* of the backend, or of the signal.
Spec ==
    /\ Init /\ [][Next]_vars
    /\ \A p \in Payloads : WF_vars(call[p] # "idle" /\ Accept(p))
    /\ WF_vars(Alive /\ forwarding /\ (\E s \in Shards : F!Worker(s))
               /\ UNCHANGED <<handlerVars, mainVars>>)
    /\ WF_vars(Shutdown)
    /\ WF_vars(Expire)

-----------------------------------------------------------------------------
(* Properties.                                                             *)

\* The answers are true, whatever the shutdown does between the sink's call
\* and the answer: an agent is answered 202 exactly for what the sink took,
\* so one that is told to resend did not have its payload taken; and what
\* was answered 202 is counted as delivered or dropped before the process
\* ends, in all but two cases: the listener failed, or a second signal came
\* during the shutdown.  Then the process ends at once and whatever the sink
\* held is gone without a trace.
AnswersKept ==
    forwarding =>
        \A p \in Payloads :
            /\ answer[p] # 0 =>
                  (answer[p] = 202 <=> call[p] \in {"accepted", "discarded"})
            /\ ~ Alive /\ answer[p] = 202 /\ outcome[p] = "none"
                  => code = Killed \/ (code = 1 /\ ~ srvErr)

\* Exit code 0 means that no request was cut off: no connection was still
\* being served, and every handler that ran has returned.
CleanExitCutsNobody ==
    code = 0 => \A p \in Payloads : conn[p] # "open" /\ pc[p] \in {"idle", "done"}

\* Action property: a handler meets a closed sink only after srv.Shutdown
\* gave up on it, because main stops the server before the sink.
ClosedSinkOnlyPastDeadline ==
    [][\A p \in Payloads : F!RefuseClosed(p) => srvErr]_vars

\* After a signal the process ends, whatever requests are still being read
\* or wait for a slot, and whatever the backend does.
SignalEnds == (proc = "stopping") ~> (proc = "exited")
=============================================================================
