-------------------------- MODULE CollectorProofs --------------------------
(***************************************************************************)
(* Proofs about Collector.  Every step of the process is a step of the     *)
(* sink or leaves it alone, and a step of the handlers or leaves them      *)
(* alone, so what ForwarderProofs and IngestProofs establish of the parts  *)
(* holds of the whole; what main adds is proved on top of it.              *)
(***************************************************************************)
EXTENDS Collector, TLAPS

FP == INSTANCE ForwarderProofs

HP == INSTANCE IngestProofs WITH Requests <- Payloads

-----------------------------------------------------------------------------
(* The actions of the components are the ones the proofs are about.        *)

LEMMA SinkAssumptions ==
  FP!ConstantsAssumption /\ FP!LimitsAssumption
  BY ComponentsAssumption

LEMMA HandlerAssumptions == HP!IngestAssumption
  BY ComponentsAssumption DEF H!ReadFaults, H!DecodeFaults, HP!ReadFaults,
     HP!DecodeFaults, H!IsFiniteSet, HP!IsFiniteSet

LEMMA SameCalls ==
  ASSUME NEW p
  PROVE  /\ F!MarshalFails(p) <=> FP!MarshalFails(p)
         /\ F!EnterEnqueue(p) <=> FP!EnterEnqueue(p)
         /\ F!RefuseClosed(p) <=> FP!RefuseClosed(p)
         /\ F!Enqueue(p) <=> FP!Enqueue(p)
<1> USE DEF F!workerVars, FP!workerVars, F!Closed, FP!Closed, F!Step, FP!Step,
            F!Home, FP!Home, F!InstanceOf, FP!InstanceOf, F!Fits, FP!Fits
<1>1. F!MarshalFails(p) <=> FP!MarshalFails(p)
  BY DEF F!MarshalFails, FP!MarshalFails
<1>2. F!EnterEnqueue(p) <=> FP!EnterEnqueue(p)
  BY DEF F!EnterEnqueue, FP!EnterEnqueue
<1>3. F!RefuseClosed(p) <=> FP!RefuseClosed(p)
  BY DEF F!RefuseClosed, FP!RefuseClosed
<1>4. F!Enqueue(p) <=> FP!Enqueue(p)
  BY DEF F!Enqueue, FP!Enqueue, F!Reserve, FP!Reserve, F!RefuseBytes, FP!RefuseBytes,
     F!Send, FP!Send, F!SendFull, FP!SendFull, F!BackOut, FP!BackOut
<1> QED BY <1>1, <1>2, <1>3, <1>4

LEMMA SameWorker ==
  ASSUME NEW s
  PROVE  F!Worker(s) \/ F!BackendProcesses(s) <=> FP!Worker(s) \/ FP!BackendProcesses(s)
  BY DEF F!Worker, FP!Worker, F!BackendProcesses, FP!BackendProcesses,
     F!callVars, FP!callVars, F!Stopping, FP!Stopping, F!CtxDone, FP!CtxDone,
     F!Top, FP!Top, F!Receive, FP!Receive, F!Take, FP!Take, F!Move, FP!Move,
     F!Finish, FP!Finish, F!ReceiveStopping, FP!ReceiveStopping,
     F!Deliver, FP!Deliver, F!BeginAttempt, FP!BeginAttempt,
     F!AttemptDelivered, FP!AttemptDelivered, F!AttemptPermanent, FP!AttemptPermanent,
     F!AttemptRetryable, FP!AttemptRetryable, F!FailedStopping, FP!FailedStopping,
     F!RetryExhausted, FP!RetryExhausted, F!RetryWait, FP!RetryWait,
     F!MayWait, FP!MayWait, F!WaitTimer, FP!WaitTimer,
     F!WaitStopping, FP!WaitStopping,
     F!FinalDeliveryAttempt, FP!FinalDeliveryAttempt,
     F!FinalDeadline, FP!FinalDeadline, F!FinalAttempt, FP!FinalAttempt,
     F!FinalDelivered, FP!FinalDelivered, F!FinalFailed, FP!FinalFailed,
     F!Release, FP!Release, F!DrainTake, FP!DrainTake, F!DrainDone, FP!DrainDone

LEMMA SameShutdown ==
  /\ F!ShutdownCall <=> FP!ShutdownCall
  /\ F!ShutdownDeadline <=> FP!ShutdownDeadline
  /\ F!Shutdown <=> FP!Shutdown
  BY DEF F!ShutdownCall, FP!ShutdownCall, F!ShutdownDeadline, FP!ShutdownDeadline,
     F!Shutdown, FP!Shutdown, F!ShutdownClose, FP!ShutdownClose,
     F!ShutdownStop, FP!ShutdownStop, F!ShutdownReturn, FP!ShutdownReturn,
     F!SetShutdown, FP!SetShutdown, F!callVars, FP!callVars,
     F!workerVars, FP!workerVars, F!Readers, FP!Readers

LEMMA SameHandler ==
  ASSUME NEW p
  PROVE  /\ H!Arrive(p) <=> HP!Arrive(p)
         /\ H!ClientLeaves(p) <=> HP!ClientLeaves(p)
         /\ H!Handle(p) <=> HP!Handle(p)
         /\ H!SinkTakes(p) <=> HP!SinkTakes(p)
         /\ H!SinkRefuses(p) <=> HP!SinkRefuses(p)
<1> USE DEF H!Goto, HP!Goto, H!Answer, HP!Answer, H!StatusOf, HP!StatusOf
<1>1. H!Arrive(p) <=> HP!Arrive(p)
  BY DEF H!Arrive, HP!Arrive
<1>2. H!ClientLeaves(p) <=> HP!ClientLeaves(p)
  BY DEF H!ClientLeaves, HP!ClientLeaves
<1>3. H!Handle(p) <=> HP!Handle(p)
  BY DEF H!Handle, HP!Handle, H!ReadFails, HP!ReadFails, H!ReadDone, HP!ReadDone,
     H!ReadFaults, HP!ReadFaults, H!DecodeFaults, HP!DecodeFaults,
     H!SlotFree, HP!SlotFree, H!AcquireSlot, HP!AcquireSlot,
     H!AcquireCanceled, HP!AcquireCanceled, H!AcquireBusy, HP!AcquireBusy,
     H!DecodeFails, HP!DecodeFails, H!Decode, HP!Decode, H!Release, HP!Release
<1>4. H!SinkTakes(p) <=> HP!SinkTakes(p)
  BY DEF H!SinkTakes, HP!SinkTakes
<1>5. H!SinkRefuses(p) <=> HP!SinkRefuses(p)
  BY DEF H!SinkRefuses, HP!SinkRefuses
<1> QED BY <1>1, <1>2, <1>3, <1>4, <1>5

LEMMA SameInit == (F!Init <=> FP!Init) /\ (H!Init <=> HP!Init)
  BY DEF F!Init, FP!Init, H!Init, HP!Init

\* Each step of the process is one of the sink's, or leaves the sink alone.
LEMMA SinkStep == [Next]_vars => [FP!Next]_(FP!vars)
<1> SUFFICES ASSUME [Next]_vars PROVE FP!Next \/ UNCHANGED sinkVars
  BY DEF FP!vars, sinkVars
<1>1. CASE UNCHANGED vars
  BY <1>1 DEF vars
<1>2. ASSUME NEW p \in Payloads, Accept(p) PROVE FP!Next
  BY <1>2, SameCalls DEF Accept, FP!Next, FP!Arrive
<1>3. CASE Workers
  BY <1>3, SameWorker DEF Workers, FP!Next
<1>4. CASE FwdShutdown \/ FwdDeadline
  BY <1>4, SameShutdown DEF FwdShutdown, FwdDeadline, FP!Next
<1>5. ASSUME NEW p \in Payloads,
             Server(p) \/ Request(p) \/ Handle(p) \/ AcceptReturns(p) \/ LogAccept(p)
      PROVE  UNCHANGED sinkVars
  BY <1>5 DEF Server, Connect, CloseQuiet, Replied, ReplyLost, SetConn, Request,
     Handle, AcceptReturns, LogAccept
<1>6. CASE ServeError \/ Signal \/ SecondSignal \/ Expire \/ SrvShutdownDone
           \/ SrvShutdownTimeout \/ Exit \/ Exited
  BY <1>6 DEF ServeError, Signal, SecondSignal, Expire, SrvShutdownDone, SrvShutdownTimeout, Exit,
     Exited, Main, vars
<1> QED BY <1>1, <1>2, <1>3, <1>4, <1>5, <1>6 DEF Next, Shutdown

\* Each step of the process is one of the handlers', or leaves them alone.
LEMMA HandlerStep == [Next]_vars => [HP!Next]_(HP!vars)
<1> SUFFICES ASSUME [Next]_vars PROVE HP!Next \/ UNCHANGED handlerVars
  BY DEF HP!vars, handlerVars
<1>1. CASE UNCHANGED vars
  BY <1>1 DEF vars
<1>2. ASSUME NEW p \in Payloads,
             Request(p) \/ Handle(p) \/ AcceptReturns(p) \/ LogAccept(p)
      PROVE  HP!Next
  BY <1>2, SameHandler DEF Request, Handle, AcceptReturns, LogAccept, HP!Next, HP!Sink
<1>3. ASSUME NEW p \in Payloads, Server(p) \/ Accept(p)
      PROVE  UNCHANGED handlerVars
  BY <1>3 DEF Server, Connect, CloseQuiet, Replied, ReplyLost, SetConn, Accept
<1>4. CASE Workers \/ ServeError \/ Signal \/ SecondSignal \/ Expire \/ Shutdown \/ Exited
  BY <1>4 DEF Workers, ServeError, Signal, SecondSignal, Expire, Shutdown, SrvShutdownDone,
     SrvShutdownTimeout, FwdShutdown, FwdDeadline, Exit, Exited, Main, vars
<1> QED BY <1>1, <1>2, <1>3, <1>4 DEF Next

PartsInv == FP!IInv /\ FP!Recorded /\ HP!IInv

LEMMA PartsInit == Init => PartsInv
  BY SinkAssumptions, HandlerAssumptions, SameInit, FP!IInvInit, FP!RecordedInit,
     HP!IInvInit DEF Init, PartsInv

LEMMA PartsStep == PartsInv /\ [Next]_vars => PartsInv'
<1>1. FP!IInv => FP!TypeInv
  BY DEF FP!IInv
<1> QED BY <1>1, SinkAssumptions, HandlerAssumptions, SinkStep, HandlerStep,
           FP!IInvStep, FP!RecordedStep, HP!IInvStep DEF PartsInv

-----------------------------------------------------------------------------
(* main, the connections, and the link between handlers and sink.          *)

Serving == {"serving", "stopping"}

\* main's own state: the sink stays open, and nothing has failed or ended,
\* until srv.Shutdown has returned; and an end that is neither the listener's
\* failure nor a second signal comes after fwd.Shutdown has returned.
MainInv ==
    /\ proc \in Serving \cup {"draining", "exited"}
    /\ srvErr \in BOOLEAN
    /\ conn \in [Payloads -> {"none", "open", "replied", "cut"}]
    /\ proc \in Serving => sd = "running" /\ ~ srvErr
    /\ Alive => code = 9
    /\ code = 0 => ~ srvErr
    /\ ~ Alive => \/ code = Killed
                  \/ code = 1 /\ ~ srvErr
                  \/ forwarding => sd = "returned"

\* A running handler has its connection open, and once srv.Shutdown has
\* returned without an error no connection is.
ServedInv ==
    /\ \A p \in Payloads : pc[p] \notin {"idle", "done"} => conn[p] = "open"
    /\ (proc = "draining" \/ code = 0) /\ ~ srvErr
          => \A p \in Payloads : conn[p] # "open"

\* The sink's call belongs to the handler's stay at "sink": before it there
\* was no call, and after it the handler has gone by the call's result.
LinkInv ==
    forwarding => \A p \in Payloads :
        /\ pc[p] \in {"idle", "reading", "waiting", "decoding"} => call[p] = "idle"
        /\ pc[p] \in {"leaving", "done"} =>
              (p \in taken <=> call[p] \in {"accepted", "discarded"})

IInv == PartsInv /\ MainInv /\ ServedInv /\ LinkInv

\* What a handler's step at one program point leaves as it was.
LEMMA HandlerMoves ==
  ASSUME NEW p \in Payloads, HP!IInv,
         H!Arrive(p) \/ H!Handle(p) \/ H!ClientLeaves(p)
         \/ H!SinkTakes(p) \/ H!SinkRefuses(p)
  PROVE  /\ \A q \in Payloads \ {p} : pc'[q] = pc[q] /\ (q \in taken' <=> q \in taken)
         /\ H!Arrive(p) \/ pc[p] \notin {"idle", "done"}
         /\ H!Arrive(p) => ~ H!Handle(p) /\ ~ H!ClientLeaves(p)
         /\ H!Arrive(p) \/ H!Handle(p) \/ H!ClientLeaves(p) => taken' = taken
         /\ pc'[p] \in {"idle", "reading", "waiting", "decoding"} =>
               pc[p] \in {"idle", "reading", "waiting", "decoding"}
         /\ H!Arrive(p) \/ H!Handle(p) \/ H!ClientLeaves(p) =>
               \/ pc[p] \in {"idle", "reading", "waiting", "decoding"}
               \/ pc[p] = "sink" /\ pc'[p] = "sink"
               \/ pc[p] = "leaving"
         /\ H!SinkTakes(p) => p \in taken'
         /\ H!SinkTakes(p) \/ H!SinkRefuses(p) => pc[p] = "sink" /\ pc'[p] = "leaving"
         /\ H!SinkRefuses(p) => taken' = taken
<1>1. pc \in [Payloads -> {"idle", "reading", "waiting", "decoding", "sink",
                           "leaving", "done"}]
  BY DEF HP!IInv, HP!TypeInv, HP!Before, HP!After
<1>2. CASE H!Arrive(p)
  BY <1>1, <1>2 DEF H!Arrive, H!Goto, H!Handle, H!ClientLeaves, H!ReadFails, H!ReadDone,
     H!AcquireSlot, H!AcquireCanceled, H!AcquireBusy, H!DecodeFails, H!Decode,
     H!Release, H!SinkTakes, H!SinkRefuses
<1>3. CASE H!ClientLeaves(p)
  BY <1>1, <1>3 DEF H!ClientLeaves, H!Arrive, H!SinkTakes, H!SinkRefuses, H!Goto
<1>4. CASE H!Handle(p)
  BY <1>1, <1>4 DEF H!Handle, H!ReadFails, H!ReadDone, H!AcquireSlot,
     H!AcquireCanceled, H!AcquireBusy, H!DecodeFails, H!Decode, H!Release, H!Goto,
     H!Arrive, H!SinkTakes, H!SinkRefuses
<1>5. CASE H!SinkTakes(p) \/ H!SinkRefuses(p)
  BY <1>1, <1>5 DEF H!SinkTakes, H!SinkRefuses, H!Arrive, H!Handle, H!ClientLeaves,
     H!ReadFails, H!ReadDone, H!AcquireSlot, H!AcquireCanceled, H!AcquireBusy,
     H!DecodeFails, H!Decode, H!Release, H!Goto
<1> QED BY <1>2, <1>3, <1>4, <1>5

\* What the sink's steps leave as they were.
LEMMA SinkMoves ==
  /\ \A p \in Payloads :
        /\ Accept(p) => sd' = sd
        /\ Accept(p) /\ FP!TypeInv => \A q \in Payloads \ {p} : call'[q] = call[q]
  /\ Workers /\ FP!TypeInv => sd' = sd /\ call' = call
  /\ FwdShutdown \/ FwdDeadline => call' = call
<1>1. ASSUME NEW p \in Payloads, Accept(p)
      PROVE  sd' = sd /\ (FP!TypeInv => \A q \in Payloads \ {p} : call'[q] = call[q])
  BY <1>1 DEF Accept, F!MarshalFails, F!EnterEnqueue, F!RefuseClosed, F!Enqueue,
     F!Reserve, F!RefuseBytes, F!Send, F!SendFull, F!BackOut, F!Step,
     FP!TypeInv, FP!TypeOK
<1>2. ASSUME Workers, FP!TypeInv PROVE sd' = sd /\ call' = call
  BY <1>2, SameWorker, SinkAssumptions, FP!WorkerFrame DEF Workers
<1>3. ASSUME FwdShutdown \/ FwdDeadline PROVE call' = call
  BY <1>3 DEF FwdShutdown, FwdDeadline, F!ShutdownCall, F!ShutdownDeadline, F!Shutdown,
     F!ShutdownClose, F!ShutdownStop, F!ShutdownReturn, F!SetShutdown, F!callVars
<1> QED BY <1>1, <1>2, <1>3

\* A step of a request, its connection, its handler or its call of the sink.
LEMMA RequestStep ==
  ASSUME NEW p \in Payloads, IInv,
         Server(p) \/ Request(p) \/ Handle(p) \/ Accept(p)
         \/ AcceptReturns(p) \/ LogAccept(p)
  PROVE  MainInv' /\ ServedInv' /\ LinkInv'
<1>1. FP!TypeInv /\ HP!IInv /\ MainInv /\ ServedInv /\ LinkInv
  BY DEF IInv, PartsInv, FP!IInv
<1>2. \A q \in Payloads : pc[q] \in {"idle", "reading", "waiting", "decoding"} =>
          q \notin taken
  BY <1>1 DEF HP!IInv, HP!AnswerInv, HP!Uncounted, HP!Before
<1>3. CASE Server(p)
  <2>1. PICK to \in {"open", "replied", "cut"} :
            /\ conn' = [conn EXCEPT ![p] = to]
            /\ to = "open" => proc = "serving"
            /\ to # "open" => pc[p] \in {"idle", "done"}
    BY <1>3 DEF Server, Connect, CloseQuiet, Replied, ReplyLost, SetConn
  <2>2. /\ UNCHANGED <<sinkVars, handlerVars, forwarding, proc, expired, srvErr, code>>
        /\ conn' = [conn EXCEPT ![p] = to]
    BY <1>3, <2>1 DEF Server, Connect, CloseQuiet, Replied, ReplyLost, SetConn
  <2>3. MainInv'
    BY <1>1, <2>2 DEF MainInv, Alive, sinkVars
  <2>4. ServedInv'
    BY <1>1, <2>1, <2>2 DEF MainInv, ServedInv, Alive, Serving, handlerVars
  <2>5. LinkInv'
    BY <1>1, <2>2 DEF LinkInv, sinkVars, handlerVars
  <2> QED BY <2>3, <2>4, <2>5
<1>4. CASE Request(p) \/ Handle(p)
  <2>1. /\ (H!Arrive(p) /\ conn[p] = "open") \/ H!Handle(p) \/ H!ClientLeaves(p)
        /\ UNCHANGED <<sinkVars, mainVars>>
    BY <1>4 DEF Request, Handle
  <2>2. MainInv'
    BY <1>1, <2>1 DEF MainInv, Alive, sinkVars, mainVars
  <2>3. conn[p] = "open" /\ \A q \in Payloads \ {p} : pc'[q] = pc[q]
    BY <1>1, <2>1, HandlerMoves DEF ServedInv
  <2>4. ServedInv'
    BY <1>1, <2>1, <2>3 DEF ServedInv, mainVars
  <2>5. LinkInv'
    BY <1>1, <1>2, <2>1, HandlerMoves DEF LinkInv, sinkVars, mainVars
  <2> QED BY <2>2, <2>4, <2>5
<1>5. CASE Accept(p)
  <2>1. MainInv'
    BY <1>1, <1>5, SinkMoves DEF MainInv, Accept, Alive, mainVars
  <2>2. ServedInv'
    BY <1>1, <1>5 DEF Accept, ServedInv, mainVars, handlerVars
  <2>3. LinkInv'
    BY <1>1, <1>5, SinkMoves DEF LinkInv, Accept, mainVars, handlerVars
  <2> QED BY <2>1, <2>2, <2>3
<1>6. CASE AcceptReturns(p) \/ LogAccept(p)
  <2>1. /\ H!SinkTakes(p) \/ H!SinkRefuses(p)
        /\ UNCHANGED <<sinkVars, mainVars>>
    BY <1>6 DEF AcceptReturns, LogAccept
  <2>2. MainInv'
    BY <1>1, <2>1 DEF MainInv, Alive, sinkVars, mainVars
  <2>3. ServedInv'
    BY <1>1, <2>1, HandlerMoves DEF ServedInv, mainVars
  <2>4. forwarding =>
            \/ call[p] \in {"accepted", "discarded"} /\ H!SinkTakes(p)
            \/ call[p] = "refused" /\ H!SinkRefuses(p) /\ p \notin taken
    BY <1>1, <1>6 DEF AcceptReturns, LogAccept, H!SinkRefuses, HP!IInv, HP!AnswerInv,
       HP!Uncounted, HP!Before
  <2>5. LinkInv'
    BY <1>1, <2>1, <2>4, HandlerMoves DEF LinkInv, sinkVars, mainVars
  <2> QED BY <2>2, <2>3, <2>5
<1> QED BY <1>3, <1>4, <1>5, <1>6

\* A step of main, of the timer, of the workers or of fwd.Shutdown.
LEMMA ProcessStep ==
  ASSUME IInv, Workers \/ ServeError \/ Signal \/ SecondSignal \/ Expire \/ Shutdown
  PROVE  MainInv' /\ ServedInv' /\ LinkInv'
<1>1. FP!TypeInv /\ MainInv /\ ServedInv /\ LinkInv
  BY DEF IInv, PartsInv, FP!IInv
<1>2. UNCHANGED <<handlerVars, forwarding, conn>>
  BY DEF Workers, ServeError, Signal, SecondSignal, Expire, Shutdown, SrvShutdownDone,
     SrvShutdownTimeout, FwdShutdown, FwdDeadline, Exit, Main, mainVars
<1>3. call' = call
  BY <1>1, SinkMoves DEF ServeError, Signal, SecondSignal, Expire, Shutdown, SrvShutdownDone,
     SrvShutdownTimeout, Exit, Main, sinkVars
<1>4. LinkInv'
  BY <1>1, <1>2, <1>3 DEF LinkInv, handlerVars
<1>5. CASE Workers
  BY <1>1, <1>2, <1>4, <1>5, SinkMoves
     DEF Workers, MainInv, ServedInv, Alive, mainVars, handlerVars
<1>6. CASE FwdShutdown \/ FwdDeadline
  BY <1>1, <1>2, <1>4, <1>6
     DEF FwdShutdown, FwdDeadline, MainInv, ServedInv, Alive, Serving, mainVars, handlerVars
<1>7. CASE Signal \/ Expire
  BY <1>1, <1>2, <1>4, <1>7
     DEF Signal, Expire, Main, MainInv, ServedInv, Alive, Serving, sinkVars, handlerVars
<1>8. CASE SrvShutdownDone \/ SrvShutdownTimeout
  <2>0. /\ proc' = "draining" /\ proc' \notin Serving /\ Alive'
        /\ code' = 9 /\ code' # 0
    BY <1>1, <1>8
       DEF SrvShutdownDone, SrvShutdownTimeout, Main, MainInv, Alive, Serving
  <2>1. MainInv'
    <3>1. srvErr' \in BOOLEAN
      BY <1>1, <1>8, Zenon DEF SrvShutdownDone, SrvShutdownTimeout, MainInv
    <3>2. conn' \in [Payloads -> {"none", "open", "replied", "cut"}]
      BY <1>1, <1>2, Zenon DEF MainInv
    <3> QED BY <2>0, <3>1, <3>2, Zenon DEF MainInv
  <2>2. pc' = pc /\ conn' = conn
    BY <1>2 DEF handlerVars
  <2>3. srvErr' \/ \A p \in Payloads : conn[p] # "open"
    BY <1>8, Zenon DEF SrvShutdownDone, SrvShutdownTimeout
  <2>4. ServedInv'
    BY <1>1, <2>2, <2>3, Zenon DEF ServedInv
  <2> QED BY <1>4, <2>1, <2>4
<1>9. CASE ServeError \/ SecondSignal \/ Exit
  BY <1>1, <1>2, <1>4, <1>9
     DEF ServeError, SecondSignal, Killed, Exit, Main, MainInv, ServedInv, Alive, Serving, sinkVars, handlerVars
<1> QED BY <1>5, <1>6, <1>7, <1>8, <1>9 DEF Shutdown

LEMMA IInvStep == IInv /\ [Next]_vars => IInv'
<1> SUFFICES ASSUME IInv, [Next]_vars PROVE IInv'
  OBVIOUS
<1>1. PartsInv'
  BY PartsStep DEF IInv
<1>2. CASE UNCHANGED vars
  BY <1>1, <1>2 DEF vars, sinkVars, handlerVars, mainVars, IInv, MainInv, ServedInv,
     LinkInv, Alive
<1> QED BY <1>1, <1>2, RequestStep, ProcessStep DEF Next, Exited, IInv

LEMMA IInvAlways == Spec => []IInv
<1>1. Init => IInv
  BY PartsInit DEF Init, IInv, MainInv, ServedInv, LinkInv, Alive, Serving,
     F!Init, H!Init
<1> QED BY <1>1, IInvStep, PTL DEF Spec

-----------------------------------------------------------------------------
(* The theorems.                                                           *)

\* For any requests, routing and limits, and wherever the shutdown falls
\* between a sink's call and its answer: a 202 goes exactly with a payload
\* the sink took, and a process that neither died with its listener nor was
\* killed by a second signal has counted every such payload before it exits.
THEOREM AnswersKeptAlways == Spec => []AnswersKept
<1>1. IInv => AnswersKept
  <2> SUFFICES ASSUME IInv, forwarding, NEW p \in Payloads
               PROVE  /\ answer[p] # 0 =>
                            (answer[p] = 202 <=> call[p] \in {"accepted", "discarded"})
                      /\ ~ Alive /\ answer[p] = 202 /\ outcome[p] = "none"
                            => code = Killed \/ (code = 1 /\ ~ srvErr)
    BY DEF AnswersKept
  <2>1. FP!IInv /\ FP!Recorded /\ HP!IInv /\ MainInv /\ LinkInv
    BY DEF IInv, PartsInv
  <2>2. ASSUME answer[p] # 0
        PROVE  answer[p] = 202 <=> call[p] \in {"accepted", "discarded"}
    <3>1. pc[p] \in {"leaving", "done"}
      BY <2>1, <2>2 DEF HP!IInv, HP!TypeInv, HP!AnswerInv, HP!Uncounted, HP!Before,
         HP!After
    <3>2. PICK reason \in DOMAIN HP!StatusOf \cup {"canceled"} :
              HP!CountedUnder(p, reason)
      BY <2>1, <3>1 DEF HP!IInv, HP!AnswerInv, HP!After
    <3>3. answer[p] = 202 <=> p \in taken
      BY <2>2, <3>2, HandlerAssumptions, HP!StatusFacts DEF HP!CountedUnder
    <3> QED BY <2>1, <3>1, <3>3 DEF LinkInv
  <2>3. ASSUME ~ Alive, answer[p] = 202, outcome[p] = "none"
        PROVE  code = Killed \/ (code = 1 /\ ~ srvErr)
    <3>1. call[p] \in {"accepted", "discarded"}
      BY <2>2, <2>3
    <3>2. sd # "returned"
      BY <2>1, <2>3, <3>1, SinkAssumptions, FP!TakenIsCounted
    <3> QED BY <2>1, <2>3, <3>2 DEF MainInv
  <2> QED BY <2>2, <2>3
<1> QED BY <1>1, IInvAlways, PTL

\* Exit code 0 means that srv.Shutdown saw every connection closed: no
\* handler is still running, whatever the sink's drain did after it.
THEOREM CleanExitCutsNobodyAlways == Spec => []CleanExitCutsNobody
<1>1. IInv => CleanExitCutsNobody
  BY DEF IInv, MainInv, ServedInv, CleanExitCutsNobody
<1> QED BY <1>1, IInvAlways, PTL

\* No handler that srv.Shutdown waited for is turned away by a closed sink.
THEOREM ClosedSinkOnlyPastDeadlineAlways == Spec => ClosedSinkOnlyPastDeadline
<1>1. IInv /\ [Next]_vars => [\A p \in Payloads : F!RefuseClosed(p) => srvErr]_vars
  <2> SUFFICES ASSUME IInv, Next, NEW p \in Payloads, F!RefuseClosed(p), ~ srvErr
               PROVE  FALSE
    OBVIOUS
  <2>1. FP!TypeInv /\ MainInv /\ ServedInv
    BY DEF IInv, PartsInv, FP!IInv
  <2>2. call' # call /\ call'[p] # call[p] /\ sd \notin {"running", "locking"}
    BY <2>1 DEF F!RefuseClosed, F!Step, F!Closed, FP!TypeInv, FP!TypeOK
  <2>3. PICK q \in Payloads : Accept(q)
    BY <2>1, <2>2, SinkMoves DEF Next, Server, Connect, CloseQuiet, Replied, ReplyLost,
       SetConn, Request, Handle, AcceptReturns, LogAccept, ServeError, Signal, SecondSignal, Expire,
       Shutdown, SrvShutdownDone, SrvShutdownTimeout, Exit, Exited, Main, vars, sinkVars
  <2>4. proc = "draining" /\ pc[q] = "sink"
    BY <2>1, <2>2, <2>3 DEF Accept, Alive, MainInv, Serving
  <2> QED BY <2>1, <2>4 DEF ServedInv
<1> QED BY <1>1, IInvAlways, PTL DEF Spec, ClosedSinkOnlyPastDeadline

\* What the parts promise on their own they keep inside the process, where
\* main, the server, the listener's failure and a second signal may stop them
\* at any point: the sink loses and reorders nothing and leaves nothing
\* behind, and the decode slots are accounted for.
THEOREM PartsKeepTheirPromises ==
  Spec => [](F!Conserved /\ F!NothingLeftBehind /\ H!SlotsAccounted)
<1>1. IInv => F!Conserved /\ F!NothingLeftBehind /\ H!SlotsAccounted
  <2> SUFFICES ASSUME IInv PROVE F!Conserved /\ F!NothingLeftBehind /\ H!SlotsAccounted
    OBVIOUS
  <2>1. FP!IInv /\ FP!Conserved /\ HP!SlotsAccounted
    BY DEF IInv, PartsInv, FP!IInv, HP!IInv
  <2>2. FP!NothingLeftBehind
    BY <2>1, SinkAssumptions, FP!IInvNothingLeft
  <2> QED BY <2>1, <2>2 DEF F!Conserved, FP!Conserved, F!InHand, FP!InHand, F!Holding,
             FP!Holding, F!NothingLeftBehind, FP!NothingLeftBehind, H!SlotsAccounted,
             HP!SlotsAccounted, H!Holders, HP!Holders, H!Cardinality, HP!Cardinality
<1> QED BY <1>1, IInvAlways, PTL
=============================================================================
